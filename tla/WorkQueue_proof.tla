-------------------------- MODULE WorkQueue_proof ---------------------------
(***************************************************************************)
(* Proofs about the work queue of task.c, for any set of items and of      *)
(* callers and any bounds.                                                 *)
(*                                                                         *)
(* The inductive invariant Inv joins the shape of the intrusive list to    *)
(* the history variables.  Under the discipline Requeue = FALSE (an item   *)
(* is not linked again before it was removed) the list is exactly the      *)
(* sequence queued, and its items differ; with a single item the links may *)
(* run in a circle and the size alone counts.                              *)
(***************************************************************************)
EXTENDS MCWorkQueue, TLAPS

\* No item is linked twice.
Distinct == \A i, j \in 1..Len(queued) : i # j => queued[i] # queued[j]

\* What is owed is linked.
OwedLinked == \A w \in owed : \E i \in 1..Len(queued) : queued[i] = w

\* The wake-up invariant, spelled out over the worker's and the callers' state.
AwakeOrPosted == size > 0 => wpc # "wait" \/ sem > 0 \/ calling # {}

Single == \A v, w \in Works : v = w

Inv ==
  /\ TypeOK
  /\ IF Requeue THEN CounterShape ELSE ListShape /\ Distinct
  /\ OwedLinked

-----------------------------------------------------------------------------
LEMMA TypeInit == Init => TypeOK
BY WorkQueueAssumption DEF Init, TypeOK

LEMMA TypeStep == TypeOK /\ [Next]_vars => TypeOK'
<1> USE WorkQueueAssumption
<1> SUFFICES ASSUME TypeOK, [Next]_vars PROVE TypeOK'
  OBVIOUS
<1>1. ASSUME NEW c \in Callers, WakeUp(c) PROVE TypeOK'
  BY <1>1 DEF WakeUp, TypeOK
<1>2. ASSUME NEW c \in Callers, NEW w \in Works, ScheduleInsert(c, w)
      PROVE TypeOK'
  <2>1. next' \in [Works -> Works \cup {NULL}]
    <3>1. CASE tail = NULL
      BY <1>2, <3>1 DEF ScheduleInsert, InsertTail, TypeOK
    <3>2. CASE tail # NULL
      BY <1>2, <3>2 DEF ScheduleInsert, InsertTail, TypeOK
    <3>3. QED
      BY <3>1, <3>2
  <2>2. head' \in Works \cup {NULL} /\ tail' \in Works
    BY <1>2 DEF ScheduleInsert, InsertTail, TypeOK
  <2>3. size' \in 0..MaxSize /\ queued' \in Seq(Works) /\ size' = Len(queued')
    BY <1>2 DEF ScheduleInsert, InsertTail, TypeOK
  <2>4. QED
    BY <1>2, <2>1, <2>2, <2>3 DEF ScheduleInsert, TypeOK
<1>3. CASE WorkerWake
  BY <1>3 DEF WorkerWake, TypeOK
<1>4. CASE WorkerEmpty
  BY <1>4 DEF WorkerEmpty, TypeOK
<1>5. CASE WorkerRemove
  BY <1>5 DEF WorkerRemove, TypeOK
<1>6. CASE WorkerNoEntry
  BY <1>6 DEF WorkerNoEntry, TypeOK
<1>7. CASE WorkerRan
  BY <1>7 DEF WorkerRan, TypeOK
<1>8. CASE UNCHANGED vars
  BY <1>8 DEF vars, TypeOK
<1>9. QED
  BY <1>1, <1>2, <1>3, <1>4, <1>5, <1>6, <1>7, <1>8 DEF Next, Worker

\* The type invariant holds whatever the callers do.
THEOREM TypeCorrect == Spec => []TypeOK
BY TypeInit, TypeStep, PTL DEF Spec

\* The wake-up protocol of task.c is safe whatever the callers do: the worker
\* is never asleep without a post while the list's size is not zero.
THEOREM WakeUpCorrect == Spec => []NoLostWakeUp
<1> USE WorkQueueAssumption
<1>1. Init => AwakeOrPosted
  BY DEF Init, AwakeOrPosted
<1>2. TypeOK /\ AwakeOrPosted /\ [Next]_vars => AwakeOrPosted'
  <2> SUFFICES ASSUME TypeOK, AwakeOrPosted, [Next]_vars PROVE AwakeOrPosted'
    OBVIOUS
  <2>1. ASSUME NEW c \in Callers, WakeUp(c) PROVE AwakeOrPosted'
    BY <2>1 DEF WakeUp, TypeOK, AwakeOrPosted
  <2>2. ASSUME NEW c \in Callers, NEW w \in Works, ScheduleInsert(c, w)
        PROVE AwakeOrPosted'
    BY <2>2 DEF ScheduleInsert, AwakeOrPosted
  <2>3. CASE Worker
    BY <2>3 DEF Worker, WorkerWake, WorkerEmpty, WorkerRemove, WorkerNoEntry,
                WorkerRan, TypeOK, AwakeOrPosted
  <2>4. CASE UNCHANGED vars
    BY <2>4 DEF vars, AwakeOrPosted
  <2>5. QED
    BY <2>1, <2>2, <2>3, <2>4 DEF Next
<1>3. TypeOK /\ AwakeOrPosted => NoLostWakeUp
  BY DEF TypeOK, AwakeOrPosted, NoLostWakeUp, Quiescent
<1>4. QED
  BY <1>1, <1>2, <1>3, TypeCorrect, PTL DEF Spec

(***************************************************************************)
(* WakeUpCorrect for the third of the three queues that TLC checks, whose  *)
(* items are linked at will: its links get lost, and size alone keeps the  *)
(* worker awake.                                                           *)
(***************************************************************************)
AnyAwake ==
  /\ aSize \in Nat /\ aSem \in Nat
  /\ aSize > 0 => aWpc # "wait" \/ aSem > 0 \/ aCalling # {}

THEOREM AnyStaysAwake == MCSpec => []AnyWakeUpKept
<1>1. MCInit => AnyAwake
  BY DEF MCInit, Any!Init, AnyAwake
<1>2. AnyAwake /\ [MCNext]_<<which, vars, moal, any>> => AnyAwake'
  <2> SUFFICES ASSUME AnyAwake, [MCNext]_<<which, vars, moal, any>>
               PROVE  AnyAwake'
    OBVIOUS
  <2>1. ASSUME NEW c \in {"tmr_task", "isr"}, Any!WakeUp(c) PROVE AnyAwake'
    BY <2>1 DEF Any!WakeUp, AnyAwake
  <2>2. ASSUME NEW c \in {"tmr_task", "isr"}, NEW w \in {"t1", "t2"},
               Any!ScheduleInsert(c, w)
        PROVE  AnyAwake'
    BY <2>2 DEF Any!ScheduleInsert, Any!InsertTail, AnyAwake
  <2>3. CASE Any!Worker
    BY <2>3 DEF Any!Worker, Any!WorkerWake, Any!WorkerEmpty, Any!WorkerRemove,
                Any!WorkerNoEntry, Any!WorkerRan, AnyAwake
  <2>4. CASE UNCHANGED any
    BY <2>4 DEF any, AnyAwake
  <2>5. QED
    BY <2>1, <2>2, <2>3, <2>4 DEF MCNext, Any!Next
<1>3. AnyAwake => AnyWakeUpKept
  BY DEF AnyAwake, AnyWakeUpKept, Any!NoLostWakeUp, Any!Quiescent
<1>4. QED
  BY <1>1, <1>2, <1>3, PTL DEF MCSpec

-----------------------------------------------------------------------------
\* The shape of the list under the discipline.

LEMMA ListStep ==
  ASSUME Requeue = FALSE, TypeOK, ListShape, Distinct, [Next]_vars
  PROVE  ListShape' /\ Distinct'
<1> USE WorkQueueAssumption
<1>1. ASSUME NEW c \in Callers, NEW w \in Works, ScheduleInsert(c, w)
      PROVE ListShape' /\ Distinct'
  <2>1. /\ queued' = Append(queued, w)
        /\ Len(queued') = Len(queued) + 1
        /\ queued'[Len(queued) + 1] = w
        /\ \A i \in 1..Len(queued) : queued'[i] = queued[i] /\ queued[i] # w
    BY <1>1 DEF ScheduleInsert, Linked, TypeOK
  <2>2. Distinct'
    BY <2>1 DEF Distinct, TypeOK
  <2>3. CASE queued = <<>>
    <3>1. Len(queued') = 1 /\ queued'[1] = w /\ queued' # <<>> /\ tail = NULL
      BY <2>1, <2>3 DEF ListShape
    <3>2. head' = w /\ tail' = w /\ next' = [next EXCEPT ![w] = NULL]
      BY <1>1, <3>1 DEF ScheduleInsert, InsertTail
    <3>3. next'[w] = NULL
      BY <3>2 DEF TypeOK
    <3>4. QED
      BY <2>2, <3>1, <3>2, <3>3 DEF ListShape
  <2>4. CASE queued # <<>>
    <3>1. Len(queued) > 0 /\ tail \in Works /\ tail = queued[Len(queued)]
      BY <2>4 DEF ListShape, TypeOK
    <3>2. next' = [next EXCEPT ![w] = NULL, ![tail] = w]
      BY <1>1, <3>1 DEF ScheduleInsert, InsertTail, TypeOK
    <3>3. tail' = w /\ head' = head
      BY <1>1, <3>1 DEF ScheduleInsert, InsertTail, TypeOK
    <3>4. w # tail /\ next'[tail] = w /\ next'[w] = NULL
      BY <2>1, <3>1, <3>2 DEF TypeOK
    <3>5. ASSUME NEW i \in 1..(Len(queued) - 1)
          PROVE next'[queued[i]] = queued[i + 1]
      <4>1. queued[i] # w /\ queued[i] # tail /\ queued[i] \in Works
        BY <2>1, <3>1 DEF Distinct, TypeOK
      <4>2. next[queued[i]] = queued[i + 1]
        BY <2>4 DEF ListShape, TypeOK
      <4>3. QED
        BY <3>2, <4>1, <4>2 DEF TypeOK
    <3>6. \A i \in 1..(Len(queued') - 1) : next'[queued'[i]] = queued'[i + 1]
      BY <2>1, <3>1, <3>4, <3>5 DEF TypeOK
    <3>7. queued' # <<>> /\ head' = queued'[1] /\ tail' = queued'[Len(queued')]
      BY <2>1, <2>4, <3>1, <3>3 DEF ListShape, TypeOK
    <3>8. QED
      BY <2>2, <3>3, <3>4, <3>6, <3>7 DEF ListShape
  <2>5. QED
    BY <2>2, <2>3, <2>4
<1>2. CASE WorkerRemove
  <2>1. /\ queued # <<>>
        /\ queued' = Tail(queued)
        /\ Len(queued') = Len(queued) - 1
        /\ \A i \in 1..(Len(queued) - 1) : queued'[i] = queued[i + 1]
    BY <1>2 DEF WorkerRemove, TypeOK
  <2>2. Distinct'
    BY <2>1 DEF Distinct, TypeOK
  <2>3. head = queued[1] /\ tail = queued[Len(queued)] /\ next[tail] = NULL
    BY <2>1 DEF ListShape
  <2>4. next' = next /\ head' = next[head]
    BY <1>2 DEF WorkerRemove
  <2>5. CASE Len(queued) = 1
    <3>1. queued' = <<>> /\ next[head] = NULL
      BY <2>1, <2>3, <2>5 DEF TypeOK
    <3>2. QED
      BY <1>2, <2>2, <3>1 DEF WorkerRemove, ListShape
  <2>6. CASE Len(queued) # 1
    <3>1. Len(queued) > 1 /\ queued' # <<>>
      <4>1. Len(queued) \in Nat /\ Len(queued) # 0
        BY <2>1 DEF TypeOK
      <4>2. Len(queued) > 1 /\ Len(queued') # 0
        BY <2>1, <2>6, <4>1
      <4>3. QED
        BY <4>2
    <3>2. next[head] = queued[2] /\ queued[2] \in Works
      BY <2>1, <2>3, <3>1 DEF ListShape, TypeOK
    <3>3. tail' = tail
      BY <1>2, <3>2 DEF WorkerRemove
    <3>4. \A i \in 1..(Len(queued') - 1) : next'[queued'[i]] = queued'[i + 1]
      BY <2>1, <2>4, <3>1 DEF ListShape, TypeOK
    <3>5. QED
      BY <2>1, <2>2, <2>3, <2>4, <3>1, <3>2, <3>3, <3>4 DEF ListShape, TypeOK
  <2>7. QED
    BY <2>5, <2>6
<1>3. CASE WorkerNoEntry
  BY <1>3 DEF WorkerNoEntry, ListShape, TypeOK
<1>4. ASSUME UNCHANGED <<next, head, tail, queued>> PROVE ListShape' /\ Distinct'
  BY <1>4 DEF ListShape, Distinct
<1>5. QED
  BY <1>1, <1>2, <1>3, <1>4 DEF Next, Worker, WakeUp, WorkerWake, WorkerEmpty,
                                WorkerRan, vars
\* The shape of the list when there is one item only.
LEMMA CounterStep ==
  ASSUME Single, TypeOK, CounterShape, [Next]_vars
  PROVE  CounterShape'
<1> USE WorkQueueAssumption
<1>1. ASSUME NEW c \in Callers, NEW w \in Works, ScheduleInsert(c, w)
      PROVE CounterShape'
  <2>1. CASE tail = NULL
    BY <1>1, <2>1 DEF ScheduleInsert, InsertTail, CounterShape, TypeOK
  <2>2. CASE tail # NULL
    <3>1. tail = w /\ head = w
      BY <2>2 DEF Single, CounterShape, TypeOK
    <3>2. next' = [next EXCEPT ![w] = NULL, ![tail] = w] /\ head' = w /\ tail' = w
      BY <1>1, <2>2, <3>1 DEF ScheduleInsert, InsertTail
    <3>3. next'[w] = w
      BY <3>1, <3>2 DEF TypeOK
    <3>4. QED
      BY <3>2, <3>3 DEF CounterShape, TypeOK
  <2>3. QED
    BY <2>1, <2>2
<1>2. CASE WorkerRemove
  BY <1>2 DEF WorkerRemove, Single, CounterShape, TypeOK
<1>3. CASE WorkerNoEntry
  BY <1>3 DEF WorkerNoEntry, CounterShape, TypeOK
<1>4. ASSUME UNCHANGED <<next, head, tail, size>> PROVE CounterShape'
  BY <1>4 DEF CounterShape
<1>5. QED
  BY <1>1, <1>2, <1>3, <1>4 DEF Next, Worker, WakeUp, WorkerWake, WorkerEmpty,
                                WorkerRan, vars

\* In both cases a list whose size is not zero starts with the oldest item.
LEMMA HeadIsOldest ==
  ASSUME Requeue => Single, Inv, size # 0
  PROVE  head # NULL /\ queued # <<>> /\ head = queued[1]
<1> USE WorkQueueAssumption
<1>1. Len(queued) \in Nat \ {0} /\ queued # <<>> /\ queued[1] \in Works
  BY DEF Inv, TypeOK
<1>2. CASE Requeue
  BY <1>1, <1>2 DEF Inv, CounterShape, Single, TypeOK
<1>3. CASE ~Requeue
  BY <1>1, <1>3 DEF Inv, ListShape
<1>4. QED
  BY <1>2, <1>3

LEMMA OwedStep ==
  ASSUME Requeue => Single, Inv, [Next]_vars
  PROVE  OwedLinked'
<1> USE WorkQueueAssumption
<1>1. ASSUME NEW c \in Callers, NEW w \in Works, ScheduleInsert(c, w)
      PROVE OwedLinked'
  <2>1. /\ Len(queued') = Len(queued) + 1
        /\ queued'[Len(queued) + 1] = w
        /\ \A i \in 1..Len(queued) : queued'[i] = queued[i]
        /\ Len(queued) \in Nat
    BY <1>1 DEF ScheduleInsert, Inv, TypeOK
  <2>2. ASSUME NEW v \in owed PROVE \E i \in 1..Len(queued') : queued'[i] = v
    BY <2>1 DEF Inv, OwedLinked
  <2>3. \E i \in 1..Len(queued') : queued'[i] = w
    BY <2>1
  <2>4. QED
    BY <1>1, <2>2, <2>3 DEF ScheduleInsert, OwedLinked
<1>2. CASE WorkerRemove
  <2>1. head = queued[1] /\ queued' = Tail(queued) /\ owed' = owed \ {head}
    BY <1>2, HeadIsOldest DEF WorkerRemove
  <2>2. /\ Len(queued) \in Nat \ {0}
        /\ Len(queued') = Len(queued) - 1
        /\ \A i \in 1..(Len(queued) - 1) : queued'[i] = queued[i + 1]
    BY <1>2, <2>1 DEF WorkerRemove, Inv, TypeOK
  <2>3. ASSUME NEW v \in owed'
        PROVE  \E i \in 1..Len(queued') : queued'[i] = v
    <3>1. PICK i \in 1..Len(queued) : queued[i] = v
      BY <2>1, <2>3 DEF Inv, OwedLinked
    <3>2. i # 1
      BY <2>1, <2>3, <3>1
    <3>3. i - 1 \in 1..Len(queued') /\ queued'[i - 1] = v
      BY <2>2, <3>1, <3>2
    <3>4. QED
      BY <3>3
  <2>4. QED
    BY <2>3 DEF OwedLinked
<1>3. CASE WorkerNoEntry
  BY <1>3, HeadIsOldest DEF WorkerNoEntry
<1>4. ASSUME UNCHANGED <<queued, owed>> PROVE OwedLinked'
  BY <1>4 DEF OwedLinked, Inv
<1>5. QED
  BY <1>1, <1>2, <1>3, <1>4 DEF Next, Worker, WakeUp, WorkerWake, WorkerEmpty,
                                WorkerRan, vars

-----------------------------------------------------------------------------
LEMMA InvInit == Init => Inv
BY WorkQueueAssumption DEF Init, Inv, TypeOK, CounterShape, ListShape, Distinct,
                           OwedLinked

LEMMA InvStep ==
  ASSUME Requeue => Single, Inv, [Next]_vars
  PROVE  Inv'
<1>1. TypeOK'
  BY TypeStep DEF Inv
<1>2. CASE Requeue
  BY <1>1, <1>2, CounterStep, OwedStep DEF Inv
<1>3. CASE ~Requeue
  BY <1>1, <1>3, WorkQueueAssumption, ListStep, OwedStep DEF Inv
<1>4. QED
  BY <1>2, <1>3

LEMMA InvCorrect ==
  ASSUME Requeue => Single
  PROVE  Spec => []Inv
<1>1. Inv /\ [Next]_vars => Inv'
  BY InvStep
<1>2. QED
  BY InvInit, <1>1, PTL DEF Spec

\* Nothing is forgotten: with one item however often it is linked, or with
\* any number of items that are not linked twice, a worker that has gone to
\* sleep for good has run everything that was scheduled.
THEOREM NothingForgotten ==
  ASSUME Requeue => Single
  PROVE  Spec => []NoWorkForgotten
<1>1. Inv /\ NoLostWakeUp => NoWorkForgotten
  <2> SUFFICES ASSUME Inv, NoLostWakeUp, Quiescent PROVE owed = {}
    BY DEF NoWorkForgotten
  <2>1. size = 0
    BY DEF NoLostWakeUp, Inv, TypeOK
  <2>2. Len(queued) = 0
    BY <2>1 DEF Inv, TypeOK
  <2>3. QED
    BY <2>2 DEF Inv, OwedLinked
<1>2. QED
  BY <1>1, InvCorrect, WakeUpCorrect, PTL

\* Under the discipline the links, pHead, pTail and size are the queue.
THEOREM ListCorrect ==
  ASSUME Requeue = FALSE
  PROVE  Spec => []ListShape
<1>1. Inv => ListShape
  BY DEF Inv
<1>2. Spec => []Inv
  BY InvCorrect
<1>3. QED
  BY <1>1, <1>2, PTL

\* The list with its semaphore takes only steps the abstract queue allows:
\* items start one at a time, each as often as it was scheduled, in order.
THEOREM ImplementsFifo ==
  ASSUME Requeue => Single
  PROVE  Spec => Fifo!Init /\ [][Fifo!Next]_(Fifo!vars)
<1> USE WorkQueueAssumption
<1>1. Init => Fifo!Init
  BY DEF Init, Fifo!Init
<1>2. Inv /\ [Next]_vars => [Fifo!Next]_(Fifo!vars)
  <2> SUFFICES ASSUME Inv, [Next]_vars PROVE [Fifo!Next]_(Fifo!vars)
    OBVIOUS
  <2>1. ASSUME NEW c \in Callers, NEW w \in Works, ScheduleInsert(c, w)
        PROVE Fifo!Next
    BY <2>1 DEF ScheduleInsert, Fifo!Next, Fifo!Schedule
  <2>2. CASE WorkerRemove
    <3>1. head = queued[1] /\ queued # <<>> /\ entry = NULL
      BY <2>2, HeadIsOldest DEF WorkerRemove, Inv, TypeOK
    <3>2. entry' = Head(queued) /\ queued' = Tail(queued)
      BY <2>2, <3>1 DEF WorkerRemove, Inv, TypeOK
    <3>3. QED
      BY <3>1, <3>2 DEF Fifo!Next, Fifo!Start
  <2>3. CASE WorkerNoEntry
    BY <2>3, HeadIsOldest DEF WorkerNoEntry
  <2>4. CASE WorkerRan
    BY <2>4 DEF WorkerRan, Fifo!Next, Fifo!Finish, Inv, TypeOK
  <2>5. ASSUME UNCHANGED <<entry, queued>> PROVE UNCHANGED Fifo!vars
    BY <2>5 DEF Fifo!vars
  <2>6. QED
    BY <2>1, <2>2, <2>3, <2>4, <2>5 DEF Next, Worker, WakeUp, WorkerWake,
                                        WorkerEmpty, vars
<1>3. QED
  BY <1>1, <1>2, InvCorrect, PTL DEF Spec
=============================================================================
