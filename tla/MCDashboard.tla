------------------------------- MODULE MCDashboard -------------------------------
(* TLC instance of the two tables of the dashboard's API, the tickets and the mock *)
(* rules.  They share no variable, so that what each does is the same whatever the *)
(* other does: a behaviour is of one of them.                                      *)
(*                                                                                 *)
(* Tickets: a table of two, good for two units of time.  MockRules: "", "/a",      *)
(* "ab/" and "/a/b", so that there is a root, a prefix of both others that ends    *)
(* inside a segment of one of them, and slashes to trim at either end.             *)
EXTENDS Tickets, MockRules

VARIABLE table  \* the one that is in use

TablesInit == Init /\ RulesInit /\ table \in {"tickets", "rules"}

UseTickets == table = "tickets" /\ Next /\ UNCHANGED <<ruleVars, table>>
UseRules == table = "rules" /\ RulesNext /\ UNCHANGED <<vars, table>>

TablesSpec == TablesInit /\ [][UseTickets \/ UseRules]_<<vars, ruleVars, table>>

MCRawPaths == {<< >>, <<"/", "a">>, <<"a", "b", "/">>, <<"/", "a", "/", "b">>}
===============================================================================
