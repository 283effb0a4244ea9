---------------------------- MODULE MCHealthMonitor ----------------------------
(* TLC instance of HealthMonitor: two targets, the code's threshold of 3.       *)
EXTENDS HealthMonitor
===============================================================================
