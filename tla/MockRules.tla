-------------------------------- MODULE MockRules --------------------------------
(***************************************************************************)
(* pkg/mock/mock.go, and the request of engine.go:222-230 that asks it: the *)
(* dashboard sets and toggles rules while requests look for the longest     *)
(* enabled one and then go on with a pointer to it.                         *)
(*                                                                          *)
(* Paths are sequences of characters without the first slash, << >> being   *)
(* "/".  A rule is an object on a heap and the map holds pointers: SetRule  *)
(* makes a new object, ToggleRule changes the one there is, which requests  *)
(* may hold; only `enabled` ever changes in an object.                      *)
(*                                                                          *)
(* Steps: taking the read lock; one rule of GetRule's loop; reading the     *)
(* rule that was found, without a lock; a whole SetRule or ToggleRule,      *)
(* which hold the write lock.                                               *)
(*                                                                          *)
(* Abstracted: status, headers, body and delay, which are the object's for  *)
(* good, so that an object stands for its answer.  ListRules copies under   *)
(* the read lock (its write of an alias never happens: SetRule has settled  *)
(* the status).  TrimsTheEnd, LockIsIgnored and FirstFound are mutants of   *)
(* the definition after them.                                               *)
(***************************************************************************)
EXTENDS Integers, Sequences, SequencesExt

CONSTANTS
  RawPaths,     \* what the user types as a prefix, and what requests ask for
  Request,      \* requests in progress
  MaxRules,     \* bound: rule objects of a behaviour
  MaxToggles    \* bound: calls of ToggleRule that change an object

ASSUME MockAssumption ==
  /\ \A raw \in RawPaths : raw \in Seq(STRING)
  /\ {MaxRules, MaxToggles} \subseteq Nat

VARIABLES
  heap,     \* the rule objects: prefix, enabled, mode
  rules,    \* Manager.rules: clean prefixes to objects
  toggles,  \* how often an object was toggled
  request   \* the requests: where each is and its locals

ruleVars == <<heap, rules, toggles, request>>

Nil == 0
Always == "always"
OnError == "on_error"

TrimsTheEnd(raw) ==
  IF raw # << >> /\ raw[Len(raw)] = "/" THEN SubSeq(raw, 1, Len(raw) - 1) ELSE raw

\* "/" + strings.Trim(raw, "/")
Clean(raw) ==
  LET kept == {i \in DOMAIN raw : raw[i] # "/"} IN
  IF kept = {} THEN << >> ELSE SubSeq(raw, Min(kept), Max(kept))

\* strings.HasPrefix: by character, so a prefix may end inside a segment.
Covers(path, prefix) == IsPrefix(prefix, path)

\* The longest enabled rule for a path, in a table as it is at one moment.
BestRule(h, table, path) ==
  LET found == {r \in Range(table) : h[r].enabled /\ Covers(path, h[r].prefix)} IN
  IF found = {} THEN Nil
  ELSE CHOOSE r \in found : \A o \in found : Len(h[o].prefix) <= Len(h[r].prefix)

RulesInit ==
  /\ heap = << >>
  /\ rules = [p \in {} |-> Nil]
  /\ toggles = 0
  /\ request = [q \in Request |->
       [pc |-> "none", path |-> << >>, fallback |-> FALSE, todo |-> {}, best |-> Nil,
        answer |-> Nil,
        force |-> {}]]  \* history: the best rules since the request began

Scanning == {q \in Request : request[q].pc = "scan"}

-------------------------------------------------------------------------------
(* The dashboard: /api/mocks and /api/mocks/toggle. *)

\* The write lock waits for the readers.
LockIsIgnored == TRUE
NoReader == Scanning = {}

Changes(h, table) ==
  /\ NoReader
  /\ heap' = h
  /\ rules' = table
  /\ request' = [q \in Request |->
       IF request[q].pc \in {"none", "done"} THEN request[q]
       ELSE [request[q] EXCEPT !.force = @ \cup {BestRule(h, table, request[q].path)}]]

\* A new object under the clean prefix, whatever was there before.
NewRule(raw, enabled, mode) ==
  /\ Len(heap) < MaxRules
  /\ Changes(Append(heap, [prefix |-> Clean(raw), enabled |-> enabled, mode |-> mode]),
             [p \in DOMAIN rules \cup {Clean(raw)} |->
                IF p = Clean(raw) THEN Len(heap) + 1 ELSE rules[p]])
  /\ UNCHANGED toggles

SetRule == \E raw \in RawPaths, enabled \in BOOLEAN, mode \in {Always, OnError} :
             NewRule(raw, enabled, mode)

\* The object is changed where it is; a rule that is not there is made.
ToggleRule ==
  \E raw \in RawPaths, enabled \in BOOLEAN :
    IF Clean(raw) \in DOMAIN rules
    THEN /\ toggles < MaxToggles
         /\ toggles' = toggles + 1
         /\ Changes([heap EXCEPT ![rules[Clean(raw)]].enabled = enabled], rules)
    ELSE NewRule(raw, enabled, Always)

-------------------------------------------------------------------------------
(* A request: GetRule, and the decision of ServeHTTP, or of the fallback for an    *)
(* upstream that fails or is open, which does not ask for the mode.                *)

Becomes(q, r) ==
  /\ request' = [request EXCEPT ![q] = r]
  /\ UNCHANGED <<heap, rules, toggles>>

BeginsGetRule(q) ==
  /\ request[q].pc = "none"
  /\ \E raw \in RawPaths, fallback \in BOOLEAN :
       Becomes(q, [request[q] EXCEPT
                     !.pc = "scan", !.path = Clean(raw), !.fallback = fallback,
                     !.todo = DOMAIN rules, !.force = {BestRule(heap, rules, Clean(raw))}])

FirstFound(r, best) == best = Nil
Longer(r, best) == best = Nil \/ Len(heap[r].prefix) > Len(heap[best].prefix)

\* One round of the loop, in the order of a map.
Visits(q, p) ==
  LET r == rules[p]
      best == request[q].best IN
  /\ request[q].pc = "scan"
  /\ p \in request[q].todo
  /\ Becomes(q, [request[q] EXCEPT
                   !.todo = @ \ {p},
                   !.best = IF heap[r].enabled /\ Covers(request[q].path, p) /\ Longer(r, best)
                            THEN r ELSE best])

ReturnsRule(q) ==
  /\ request[q].pc = "scan"
  /\ request[q].todo = {}
  /\ Becomes(q, [request[q] EXCEPT !.pc = IF request[q].best = Nil THEN "done" ELSE "decide"])

\* found && rule.Enabled && rule.Mode == ModeAlways, after the lock was released.
Serves(q, r) == request[q].fallback \/ heap[r].mode = Always

Decides(q) ==
  LET r == request[q].best IN
  /\ request[q].pc = "decide"
  /\ Becomes(q, [request[q] EXCEPT
                   !.pc = "done",
                   !.answer = IF heap[r].enabled /\ Serves(q, r) THEN r ELSE Nil])

RulesNext ==
  \/ SetRule \/ ToggleRule
  \/ \E q \in Request :
       \/ BeginsGetRule(q) \/ ReturnsRule(q) \/ Decides(q)
       \/ \E p \in DOMAIN rules : Visits(q, p)

RulesSpec == RulesInit /\ [][RulesNext]_ruleVars

-------------------------------------------------------------------------------
\* Every pointer of the map leads to a rule of that prefix, and a prefix is clean.
RulesTypeOK ==
  /\ DOMAIN heap \subseteq 1 .. MaxRules
  /\ \A p \in DOMAIN rules :
       /\ rules[p] \in DOMAIN heap /\ heap[rules[p]].prefix = p
       /\ p # << >> => p[1] # "/" /\ p[Len(p)] # "/"
  /\ \A r \in DOMAIN heap : heap[r].enabled \in BOOLEAN /\ heap[r].mode \in {Always, OnError}
  /\ toggles \in 0 .. MaxToggles
  /\ \A q \in Request :
       /\ request[q].pc \in {"none", "scan", "decide", "done"}
       /\ {request[q].best, request[q].answer} \subseteq {Nil} \cup DOMAIN heap
       /\ request[q].todo \subseteq DOMAIN rules

\* While rules are set and toggled under it, a request is mocked by a rule that was the
\* longest enabled one for its path at some moment since it asked, and only where the
\* rule's mode lets it; and it is passed on only if at some moment such a rule was
\* not in force, or the rule in force changed meanwhile (mock.go:71-99 and the use of
\* its pointer after the lock in engine.go:223).
MockedByTheRuleInForce ==
  \A q \in Request : request[q].pc = "done" =>
    IF request[q].answer # Nil
    THEN request[q].answer \in request[q].force /\ Serves(q, request[q].answer)
    ELSE \A r \in DOMAIN heap : Serves(q, r) => request[q].force # {r}
===============================================================================
