-------------------------------- MODULE MCEngine --------------------------------
(* TLC instances of Engine: two concurrent calls for one path, two targets, one of *)
(* whose routes strips the prefix, and a breaker that trips at the second failure; *)
(* a mock rule of each mode, or, where a single call is enough to depart from what *)
(* the repository says, one rule that answers failures with a 200.                 *)
EXTENDS Engine, TLC

TwoRules == {[mode |-> "always", status |-> "ok"], [mode |-> "on_error", status |-> "5xx"]}
FallbackRule == {[mode |-> "on_error", status |-> "ok"]}
TwoCallers == Permutations(Request)
===============================================================================
