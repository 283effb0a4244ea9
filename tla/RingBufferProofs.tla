--------------------------- MODULE RingBufferProofs ---------------------------
(* Theorems about RingBuffer, for every capacity, event set and reader set.   *)
EXTENDS RingBuffer, SequenceTheorems, TLAPS

\* NewRingBuffer never makes a ring without slots (ring.go:35).
LEMMA SizeIsPositive == Size \in Nat \ {0}
  BY RingAssumption DEF Size

\* The slot after h: r.head = (r.head + 1) % r.size, without the modulo.
LEMMA NextSlot ==
  ASSUME NEW h \in Slots
  PROVE  (h + 1) % Size = IF h = Size - 1 THEN 0 ELSE h + 1
  BY SizeIsPositive DEF Slots

\* The slot of GetAll's iteration i, without the modulo.
LEMMA SlotBack ==
  ASSUME NEW h \in Slots, NEW i \in 0 .. Size - 1
  PROVE  (h - 1 - i + Size) % Size = IF i < h THEN h - 1 - i ELSE h - 1 - i + Size
  BY SizeIsPositive DEF Slots

-------------------------------------------------------------------------------
\* Slots are written, counted and read within their types in every reachable
\* state: head is always a slot and count never exceeds the capacity
\* (ring.go:49-53), whatever size NewRingBuffer was asked for.
THEOREM TypeCorrect == Spec => []TypeOK
<1>1. Init => TypeOK
  BY SizeIsPositive DEF Init, TypeOK, Slots
<1>2. TypeOK /\ [Next]_vars => TypeOK'
  <2> SUFFICES ASSUME TypeOK, [Next]_vars
               PROVE  TypeOK'
    OBVIOUS
  <2> USE SizeIsPositive DEF TypeOK
  <2>1. ASSUME NEW e \in Event, Push(e)
        PROVE  TypeOK'
    <3>1. (head + 1) % Size \in Slots
      BY NextSlot DEF Slots
    <3>2. events' \in [Slots -> Event \cup {NoEvent}]
      BY <2>1 DEF Push
    <3>3. CountAfterPush \in 0 .. Size
      BY DEF CountAfterPush
    <3> QED
      BY <2>1, <3>1, <3>2, <3>3 DEF Push
  <2>2. CASE Clear
    BY <2>2 DEF Clear, ZeroedSlots, Slots
  <2>3. ASSUME NEW r \in Readers, ReaderSteps(r)
        PROVE  TypeOK'
    <3>1. CASE GetAllBegin(r)
      BY <3>1 DEF GetAllBegin
    <3>2. CASE GetAllCopy(r)
      <4>1. /\ Len(result[r]) \in 0 .. Size - 1
            /\ events[SlotOf(Len(result[r]))] \in Event \cup {NoEvent}
        <5>1. Len(result[r]) \in 0 .. Size - 1
          BY <3>2 DEF GetAllCopy
        <5>2. SlotOf(Len(result[r])) \in Slots
          BY <5>1, SlotBack DEF SlotOf, Slots
        <5> QED
          BY <5>1, <5>2
      <4> QED
        BY <3>2, <4>1 DEF GetAllCopy
    <3>3. CASE GetAllReturn(r)
      BY <3>3 DEF GetAllReturn
    <3> QED
      BY <2>3, <3>1, <3>2, <3>3 DEF ReaderSteps
  <2>4. CASE UNCHANGED vars
    BY <2>4 DEF vars
  <2> QED
    BY <2>1, <2>2, <2>3, <2>4 DEF Next
<1> QED
  BY <1>1, <1>2, PTL DEF Spec

-------------------------------------------------------------------------------
\* What GetAll would return: Log is a sequence of count elements, entry i being
\* the slot i places behind head.
LogShape ==
  /\ Log \in Seq(Event \cup {NoEvent})
  /\ Len(Log) = count
  /\ \A i \in 1 .. count :
       /\ Log[i] = events[SlotOf(i - 1)]
       /\ SlotOf(i - 1) = IF i <= head THEN head - i ELSE head - i + Size
       /\ SlotOf(i - 1) \in Slots

LEMMA LogIsSequence == TypeOK => LogShape
<1> SUFFICES ASSUME TypeOK
             PROVE  LogShape
  OBVIOUS
<1> USE SizeIsPositive DEF TypeOK
<1>1. ASSUME NEW i \in 1 .. count
      PROVE  /\ SlotOf(i - 1) = IF i <= head THEN head - i ELSE head - i + Size
             /\ SlotOf(i - 1) \in Slots
  <2>1. i - 1 \in 0 .. Size - 1
    OBVIOUS
  <2>2. SlotOf(i - 1) = IF i - 1 < head THEN head - 1 - (i - 1)
                                        ELSE head - 1 - (i - 1) + Size
    BY <2>1, SlotBack DEF SlotOf
  <2> QED
    BY <2>1, <2>2 DEF Slots
<1>2. \A i \in 1 .. count : events[SlotOf(i - 1)] \in Event \cup {NoEvent}
  BY <1>1
<1> QED
  BY <1>1, <1>2 DEF Log, LogShape

\* While a reader holds the read lock nothing it copies from can change, so its
\* partial copy stays a prefix of the log (ring.go:58-65).
THEOREM SnapshotIsConsistent == Spec => []CopyIsPrefixOfLog
<1>1. Init => CopyIsPrefixOfLog
  BY DEF Init, CopyIsPrefixOfLog
<1>2. TypeOK /\ CopyIsPrefixOfLog /\ [Next]_vars => CopyIsPrefixOfLog'
  <2> SUFFICES ASSUME TypeOK, CopyIsPrefixOfLog, [Next]_vars
               PROVE  CopyIsPrefixOfLog'
    OBVIOUS
  <2>1. ASSUME NEW e \in Event, Push(e)
        PROVE  CopyIsPrefixOfLog'
    BY <2>1 DEF Push, WriteLock, CopyIsPrefixOfLog
  <2>2. CASE Clear
    BY <2>2 DEF Clear, WriteLock, CopyIsPrefixOfLog
  <2>3. ASSUME NEW r \in Readers, ReaderSteps(r)
        PROVE  CopyIsPrefixOfLog'
    <3>1. Log' = Log /\ count' = count
      BY <2>3 DEF ReaderSteps, GetAllBegin, GetAllCopy, GetAllReturn, Log, SlotOf
    <3>2. CASE GetAllBegin(r)
      BY <3>1, <3>2 DEF GetAllBegin, CopyIsPrefixOfLog, TypeOK
    <3>3. CASE GetAllCopy(r)
      <4> DEFINE n == Len(result[r])
      <4>1. r \in reading /\ n \in Nat /\ n < count
        BY <3>3 DEF GetAllCopy, TypeOK
      <4>2. n + 1 \in 1 .. count
        BY <4>1 DEF TypeOK
      <4>3. Log[n + 1] = events[SlotOf(n)]
        BY <4>1, <4>2, LogIsSequence DEF LogShape
      <4>4. /\ result' = [result EXCEPT ![r] = Append(@, Log[n + 1])]
            /\ reading' = reading
        BY <3>3, <4>3 DEF GetAllCopy
      <4>5. /\ result'[r] = Append(result[r], Log[n + 1])
            /\ \A q \in Readers \ {r} : result'[q] = result[q]
            /\ result[r] \in Seq(Event \cup {NoEvent})
        BY <4>4 DEF TypeOK
      <4>6. /\ Len(result'[r]) = n + 1
            /\ \A i \in 1 .. n : result'[r][i] = result[r][i]
            /\ result'[r][n + 1] = Log[n + 1]
        BY <4>1, <4>5
      <4>7. /\ Len(result'[r]) <= count'
            /\ \A i \in 1 .. Len(result'[r]) : result'[r][i] = Log'[i]
        <5>1. \A i \in 1 .. n : result[r][i] = Log[i]
          BY <4>1 DEF CopyIsPrefixOfLog
        <5> QED
          BY <3>1, <4>1, <4>6, <5>1 DEF TypeOK
      <4> QED
        BY <3>1, <4>4, <4>5, <4>7 DEF CopyIsPrefixOfLog, TypeOK
    <3>4. CASE GetAllReturn(r)
      BY <3>1, <3>4 DEF GetAllReturn, CopyIsPrefixOfLog
    <3> QED
      BY <2>3, <3>2, <3>3, <3>4 DEF ReaderSteps
  <2>4. CASE UNCHANGED vars
    <3>1. Log' = Log
      BY <2>4 DEF vars, Log, SlotOf
    <3> QED
      BY <2>4, <3>1 DEF vars, CopyIsPrefixOfLog
  <2> QED
    BY <2>1, <2>2, <2>3, <2>4 DEF Next
<1> QED
  BY <1>1, <1>2, TypeCorrect, PTL DEF Spec

-------------------------------------------------------------------------------
\* A Push puts its event in front of the log and drops the oldest one when the
\* ring was full (ring.go:49-53): the write at head, the wrapped head and the
\* count agree on which event that is.
LEMMA PushRecords ==
  ASSUME TypeOK, TypeOK', NEW e \in Event, Push(e)
  PROVE  Abstract!Record(e)
<1> USE SizeIsPositive
<1> DEFINE L == <<e>> \o Log
<1>1. /\ L \in Seq(Event \cup {NoEvent})
      /\ Len(L) = count + 1
      /\ L[1] = e
      /\ \A i \in 2 .. count + 1 : L[i] = Log[i - 1]
  BY LogIsSequence DEF TypeOK, LogShape
<1>2. LogShape'
  BY LogIsSequence, PTL
<1>3. count' = IF Len(L) < Size THEN Len(L) ELSE Size
  BY <1>1 DEF Push, CountAfterPush, TypeOK
<1>4. \A i \in 1 .. count' : Log'[i] = L[i]
  <2> SUFFICES ASSUME NEW i \in 1 .. count'
               PROVE  Log'[i] = L[i]
    OBVIOUS
  <2>1. /\ Log'[i] = events'[SlotOf(i - 1)']
        /\ SlotOf(i - 1)' = IF i <= head' THEN head' - i ELSE head' - i + Size
        /\ SlotOf(i - 1)' \in Slots
    BY <1>2 DEF LogShape
  <2>2. head' = IF head = Size - 1 THEN 0 ELSE head + 1
    BY NextSlot DEF Push, TypeOK
  <2>3. CASE i = 1
    <3>1. SlotOf(i - 1)' = head
      BY <2>1, <2>2, <2>3 DEF TypeOK, Slots
    <3> QED
      BY <1>1, <2>1, <2>3, <3>1 DEF Push, TypeOK
  <2>4. CASE i # 1
    <3>1. i - 1 \in 1 .. count
      BY <2>4 DEF Push, CountAfterPush, TypeOK
    <3>2. SlotOf(i - 1 - 1) = IF i - 1 <= head THEN head - (i - 1)
                                              ELSE head - (i - 1) + Size
      BY <3>1, LogIsSequence DEF LogShape
    <3>3. SlotOf(i - 1)' = SlotOf(i - 1 - 1) /\ SlotOf(i - 1)' # head
      BY <2>1, <2>2, <2>4, <3>1, <3>2 DEF TypeOK, Slots
    <3>4. L[i] = events[SlotOf(i - 1 - 1)]
      <4>1. i \in 2 .. count + 1
        BY <3>1 DEF TypeOK
      <4>2. L[i] = Log[i - 1]
        BY <1>1, <4>1
      <4>3. Log[i - 1] = events[SlotOf(i - 1 - 1)]
        BY <3>1, LogIsSequence DEF LogShape
      <4> QED
        BY <4>2, <4>3
    <3> QED
      BY <2>1, <3>3, <3>4 DEF Push, TypeOK
  <2> QED
    BY <2>3, <2>4
<1>5. Log' = SubSeq(L, 1, count')
  <2>1. /\ SubSeq(L, 1, count') \in Seq(Event \cup {NoEvent})
        /\ Len(SubSeq(L, 1, count')) = count'
        /\ \A i \in 1 .. count' : SubSeq(L, 1, count')[i] = L[i]
    BY <1>1, <1>3, SubSeqProperties DEF TypeOK
  <2> QED
    BY <1>2, <1>4, <2>1, SeqEqual DEF LogShape
<1> QED
  BY <1>3, <1>5 DEF Abstract!Record, Abstract!Newest

\* The ring implements the bounded newest-first log: no interleaving of pushes,
\* clears and stepwise reads loses, reorders or resurrects an event.
THEOREM RingImplementsTraceLog == Spec => ImplementsTraceLog
<1>1. Init => Abstract!Init
  BY SizeIsPositive DEF Init, Log, Abstract!Init
<1>2. TypeOK /\ TypeOK' /\ [Next]_vars => [Abstract!Next]_Log
  <2> SUFFICES ASSUME TypeOK, TypeOK', [Next]_vars
               PROVE  [Abstract!Next]_Log
    OBVIOUS
  <2>1. ASSUME NEW e \in Event, Push(e)
        PROVE  Abstract!Next
    BY <2>1, PushRecords DEF Abstract!Next
  <2>2. ASSUME Clear
        PROVE  Abstract!Next
    BY <2>2 DEF Clear, Log, Abstract!Next, Abstract!Forget
  <2>3. ASSUME NEW r \in Readers, ReaderSteps(r)
        PROVE  Log' = Log
    BY <2>3 DEF ReaderSteps, GetAllBegin, GetAllCopy, GetAllReturn, Log, SlotOf
  <2>4. CASE UNCHANGED vars
    BY <2>4 DEF vars, Log, SlotOf
  <2> QED
    BY <2>1, <2>2, <2>3, <2>4 DEF Next
<1> QED
  BY <1>1, <1>2, TypeCorrect, PTL DEF Spec, ImplementsTraceLog, Abstract!Spec

-------------------------------------------------------------------------------
\* After a Push, the slot i places further behind the new head is the slot that
\* was i - 1 places behind the old one, and the slot just written is in front.
LEMMA PushShiftsWindow ==
  ASSUME TypeOK, head' = IF head = Size - 1 THEN 0 ELSE head + 1
  PROVE  /\ SlotOf(0)' = head
         /\ \A i \in 1 .. Size - 1 : SlotOf(i)' = SlotOf(i - 1)
         /\ SlotOf(Size - 1) = head
<1> USE SizeIsPositive DEF TypeOK, Slots
<1>1. \A i \in 0 .. Size - 1 :
        SlotOf(i) = IF i < head THEN head - 1 - i ELSE head - 1 - i + Size
  BY SlotBack DEF SlotOf
<1>2. ASSUME NEW h \in Slots, head' = h, NEW i \in 0 .. Size - 1
      PROVE  SlotOf(i)' = IF i < h THEN h - 1 - i ELSE h - 1 - i + Size
  BY <1>2, SlotBack DEF SlotOf
<1>3. CASE head = Size - 1
  BY <1>1, <1>2, <1>3
<1>4. CASE head # Size - 1
  <2>1. head + 1 \in Slots /\ head' = head + 1
    BY <1>4
  <2>2. \A i \in 0 .. Size - 1 :
          SlotOf(i)' = IF i < head + 1 THEN head + 1 - 1 - i
                                       ELSE head + 1 - 1 - i + Size
    BY <2>1, <1>2
  <2> QED
    BY <1>1, <2>2
<1> QED
  BY <1>3, <1>4

\* The slots in use hold events and the others hold none, in every reachable
\* state (ring.go:49 with 86-89): Clear must zero the slots, and does.
THEOREM WindowIsExact == Spec => []WindowHoldsTheEvents
<1>1. Init => WindowHoldsTheEvents
  BY RingAssumption DEF Init, WindowHoldsTheEvents
<1>2. TypeOK /\ WindowHoldsTheEvents /\ [Next]_vars => WindowHoldsTheEvents'
  <2> SUFFICES ASSUME TypeOK, WindowHoldsTheEvents, [Next]_vars
               PROVE  WindowHoldsTheEvents'
    OBVIOUS
  <2> USE SizeIsPositive
  <2>1. ASSUME NEW e \in Event, Push(e)
        PROVE  WindowHoldsTheEvents'
    <3> SUFFICES ASSUME NEW s \in Slots
                 PROVE  (events'[s] \in Event)
                          <=> \E j \in 1 .. count' : s = SlotOf(j - 1)'
      BY DEF WindowHoldsTheEvents
    <3>1. /\ SlotOf(0)' = head
          /\ \A i \in 1 .. Size - 1 : SlotOf(i)' = SlotOf(i - 1)
          /\ SlotOf(Size - 1) = head
      BY <2>1, NextSlot, PushShiftsWindow DEF Push, TypeOK
    <3>2. /\ count' \in 1 .. Size
          /\ count' = count + 1 \/ (count' = count /\ count = Size)
          /\ count \in 0 .. Size
      BY <2>1 DEF Push, CountAfterPush, TypeOK
    <3>3. CASE s = head
      <4>1. events'[s] \in Event
        BY <2>1, <3>3 DEF Push, TypeOK
      <4>2. 1 \in 1 .. count' /\ SlotOf(1 - 1)' = s
        BY <3>1, <3>2, <3>3
      <4> QED
        BY <4>1, <4>2
    <3>4. CASE s # head
      <4>1. events'[s] = events[s]
        BY <2>1, <3>4 DEF Push, TypeOK
      <4>2. ASSUME NEW i \in 1 .. count, s = SlotOf(i - 1)
            PROVE  \E j \in 1 .. count' : s = SlotOf(j - 1)'
        <5>1. i # Size
          BY <3>1, <3>4, <4>2
        <5>2. i \in 1 .. Size - 1 /\ i + 1 \in 1 .. count'
          BY <3>2, <5>1
        <5>3. SlotOf(i + 1 - 1)' = s
          BY <3>1, <4>2, <5>2
        <5> QED
          BY <5>2, <5>3
      <4>3. ASSUME NEW j \in 1 .. count', s = SlotOf(j - 1)'
            PROVE  \E i \in 1 .. count : s = SlotOf(i - 1)
        <5>1. j # 1
          BY <3>1, <3>4, <4>3
        <5>2. j - 1 \in 1 .. Size - 1 /\ j - 1 \in 1 .. count
          BY <3>2, <5>1
        <5>3. SlotOf(j - 1)' = SlotOf(j - 1 - 1)
          BY <3>1, <5>2
        <5> QED
          BY <4>3, <5>2, <5>3
      <4> QED
        BY <4>1, <4>2, <4>3 DEF WindowHoldsTheEvents
    <3> QED
      BY <3>3, <3>4
  <2>2. CASE Clear
    BY <2>2, RingAssumption DEF Clear, ZeroedSlots, WindowHoldsTheEvents
  <2>3. ASSUME UNCHANGED <<events, head, count>>
        PROVE  WindowHoldsTheEvents'
    BY <2>3 DEF WindowHoldsTheEvents, SlotOf
  <2>4. ASSUME NEW r \in Readers, ReaderSteps(r)
        PROVE  UNCHANGED <<events, head, count>>
    BY <2>4 DEF ReaderSteps, GetAllBegin, GetAllCopy, GetAllReturn
  <2> QED
    BY <2>1, <2>2, <2>3, <2>4 DEF Next, vars
<1> QED
  BY <1>1, <1>2, TypeCorrect, PTL DEF Spec
===============================================================================
