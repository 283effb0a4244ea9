-------------------------------- MODULE MCTunnel --------------------------------
(* TLC instance of Tunnel: two connections of two frames each.                    *)
EXTENDS Tunnel
===============================================================================
