------------------------------ MODULE RingBuffer ------------------------------
(***************************************************************************)
(* pkg/buffer/ring.go: the fixed-size circular buffer in which the engine   *)
(* stores TraceEvents and from which the dashboard reads its history.       *)
(*                                                                          *)
(* Push and Clear run under the write lock and are atomic: nobody reads or  *)
(* writes the buffer while they hold it.  GetAll runs under the read lock   *)
(* and copies one slot per iteration; other readers may run in between, so  *)
(* each iteration is a step.  An event is an element of Event: nothing in   *)
(* the buffer looks inside it.  LockIsIgnored, CountWithoutLimit,           *)
(* KeptSlots and SlotFromHead are mutants of the definition that follows    *)
(* each.                                                                    *)
(***************************************************************************)
EXTENDS Integers, Sequences

CONSTANTS
  Event,          \* the TraceEvents that may be pushed
  NoEvent,        \* the zero TraceEvent{}
  RequestedSize,  \* the argument of NewRingBuffer
  DefaultSize,    \* the size NewRingBuffer falls back to (100 in the code)
  Readers         \* goroutines that call GetAll

ASSUME RingAssumption ==
  /\ RequestedSize \in Int
  /\ DefaultSize \in Nat \ {0}
  /\ NoEvent \notin Event

\* NewRingBuffer: a size that is not positive is replaced.
Size == IF RequestedSize <= 0 THEN DefaultSize ELSE RequestedSize

VARIABLES
  events,   \* the slots, 0 .. Size-1
  head,     \* the slot the next Push writes
  count,    \* the slots in use
  reading,  \* the readers that hold the read lock
  result    \* what each reader has copied so far

vars == <<events, head, count, reading, result>>

Slots == 0 .. Size - 1

Init ==
  /\ events = [s \in Slots |-> NoEvent]
  /\ head = 0
  /\ count = 0
  /\ reading = {}
  /\ result = [r \in Readers |-> << >>]

\* r.mu.Lock() is granted only when no reader holds the lock.
LockIsIgnored == TRUE
WriteLock == reading = {}

CountWithoutLimit == count + 1
CountAfterPush == IF count < Size THEN count + 1 ELSE count

Push(e) ==
  /\ WriteLock
  /\ events' = [events EXCEPT ![head] = e]
  /\ head' = (head + 1) % Size
  /\ count' = CountAfterPush
  /\ UNCHANGED <<reading, result>>

KeptSlots == events
ZeroedSlots == [s \in Slots |-> NoEvent]

Clear ==
  /\ WriteLock
  /\ head' = 0
  /\ count' = 0
  /\ events' = ZeroedSlots
  /\ UNCHANGED <<reading, result>>

\* The slot GetAll copies in iteration i = 0, 1, ...
SlotFromHead(i) == (head - i + Size) % Size
SlotOf(i) == (head - 1 - i + Size) % Size

\* GetAll takes the read lock and makes an empty result.
GetAllBegin(r) ==
  /\ r \notin reading
  /\ reading' = reading \cup {r}
  /\ result' = [result EXCEPT ![r] = << >>]
  /\ UNCHANGED <<events, head, count>>

\* One iteration of GetAll's loop; the loop test reads r.count every time.
GetAllCopy(r) ==
  /\ r \in reading
  /\ Len(result[r]) < count
  /\ result' = [result EXCEPT ![r] = Append(@, events[SlotOf(Len(@))])]
  /\ UNCHANGED <<events, head, count, reading>>

GetAllReturn(r) ==
  /\ r \in reading
  /\ Len(result[r]) >= count
  /\ reading' = reading \ {r}
  /\ UNCHANGED <<events, head, count, result>>

ReaderSteps(r) == GetAllBegin(r) \/ GetAllCopy(r) \/ GetAllReturn(r)

Next ==
  \/ \E e \in Event : Push(e)
  \/ Clear
  \/ \E r \in Readers : ReaderSteps(r)

Spec == Init /\ [][Next]_vars

-------------------------------------------------------------------------------
\* The abstract log: what GetAll would return if it ran now.
Log == [i \in 1 .. count |-> events[SlotOf(i - 1)]]

Abstract == INSTANCE TraceLog WITH Capacity <- Size, log <- Log

\* The ring keeps exactly the last Size events, newest first: every Push and
\* Clear of ring.go is a Record or a Forget of TraceLog, and reads change
\* nothing.
ImplementsTraceLog == Abstract!Spec

TypeOK ==
  /\ events \in [Slots -> Event \cup {NoEvent}]
  /\ head \in Slots
  /\ count \in 0 .. Size
  /\ reading \subseteq Readers
  /\ result \in [Readers -> Seq(Event \cup {NoEvent})]

\* GetAll never mixes two states of the buffer: what a reader has copied so far
\* is a prefix of the log of this very moment, although the copy takes many
\* steps (the RLock of ring.go:58 excludes Push and Clear for all of them).
CopyIsPrefixOfLog ==
  \A r \in reading :
    /\ Len(result[r]) <= count
    /\ \A i \in 1 .. Len(result[r]) : result[r][i] = Log[i]

\* The window of slots in use holds events and the rest of the ring holds none:
\* an evicted or cleared event is not kept alive by a slot outside the window,
\* and no reader is ever handed a zero TraceEvent.
WindowHoldsTheEvents ==
  \A s \in Slots :
    (events[s] \in Event) <=> (\E i \in 1 .. count : s = SlotOf(i - 1))
===============================================================================
