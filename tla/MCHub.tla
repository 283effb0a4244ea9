--------------------------------- MODULE MCHub ---------------------------------
(* TLC instance of Hub: every channel and the ring hold one event.                *)
EXTENDS Hub
===============================================================================
