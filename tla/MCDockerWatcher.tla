---------------------------- MODULE MCDockerWatcher ----------------------------
(* TLC instances of DockerWatcher: what the containers may look like.           *)
EXTENDS DockerWatcher, TLC

CONSTANTS c1, c2, a, b, d

Describe(route, enable, name, port) ==
  [route |-> route, enable |-> enable, name |-> name, port |-> port]

\* c1 is routed by its label; c2 by its name, which docker rename changes, and it
\* may come back from a restart on another port.
Distinct ==
  c1 :> {Describe(a, FALSE, NoPrefix, 80)}
    @@ c2 :> {Describe(NoPrefix, TRUE, b, q) : q \in Port}
               \cup {Describe(NoPrefix, TRUE, n, 80) : n \in {d, NoPrefix}}

\* A restarted c2 may overlap its old log goroutine.
TwoForC2 == c1 :> 1 @@ c2 :> 2

NoStatic == << >>
================================================================================
