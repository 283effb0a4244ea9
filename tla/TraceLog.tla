------------------------------- MODULE TraceLog -------------------------------
(***************************************************************************)
(* What the dashboard expects of the trace store (pkg/buffer/ring.go): the  *)
(* last Capacity recorded events, newest first, and nothing after a clear.  *)
(* RingBuffer implements this specification; see RingBuffer!Log.            *)
(***************************************************************************)
EXTENDS Naturals, Sequences

CONSTANTS Capacity, Event

VARIABLE log

\* The newest n elements of a newest-first sequence.
Newest(s, n) == SubSeq(s, 1, IF Len(s) < n THEN Len(s) ELSE n)

Init == log = << >>

\* "Oldest items are overwritten automatically when capacity is exceeded."
Record(e) == log' = Newest(<<e>> \o log, Capacity)

Forget == log' = << >>

Next == (\E e \in Event : Record(e)) \/ Forget

Spec == Init /\ [][Next]_log
===============================================================================
