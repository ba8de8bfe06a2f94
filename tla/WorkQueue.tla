----------------------------- MODULE WorkQueue ------------------------------
(***************************************************************************)
(* kernel/api/src/task.c: a work queue is an intrusive singly linked list  *)
(* (pHead, pTail, size; each work_struct carries its own pNext), an event  *)
(* that is a counting semaphore, and a worker thread.  schedule_work() is  *)
(* called by interrupt handlers, timers and threads at once: it links the  *)
(* item with interrupts disabled and posts the event afterwards.  There is *)
(* no "pending" flag: nothing keeps a caller from linking an item that is  *)
(* linked already.  Requeue says whether the callers of an instance do it. *)
(*                                                                         *)
(* queued and owed are history variables: no action's guard or effect on   *)
(* the other variables depends on them, except that with Requeue = FALSE   *)
(* queued tells the callers which items are still linked.                  *)
(***************************************************************************)
EXTENDS Integers, Sequences

CONSTANTS Works,     \* the work_structs ever scheduled on this queue
          Callers,   \* the contexts that call schedule_work
          NULL,
          Requeue,   \* TRUE: a caller may schedule an item that is linked
          MaxSize,   \* bound of the model on the number of linked items
          SemMax     \* largest value of the event counter (65535 on target)

ASSUME WorkQueueAssumption ==
  /\ NULL \notin Works
  /\ Requeue \in BOOLEAN
  /\ MaxSize \in Nat
  /\ SemMax \in Nat \ {0}

VARIABLES next,      \* work_struct.entry.pNext of every item
          head,      \* list.pHead
          tail,      \* list.pTail
          size,      \* list.size
          sem,       \* count of the semaphore thread_event
          calling,   \* the callers between insertTailList and wake_up
          wpc,       \* where the worker is: "wait", "drain" or "run"
          entry,     \* the worker's local: the item it runs
          queued,    \* history: items linked and not yet removed, in order
          owed       \* history: items scheduled and not started since

list == <<next, head, tail, size>>
vars == <<next, head, tail, size, sem, calling, wpc, entry, queued, owed>>

Init ==
  /\ next \in [Works -> {NULL}]
  /\ head = NULL /\ tail = NULL /\ size = 0
  /\ sem = 0
  /\ calling = {}
  /\ wpc = "wait" /\ entry = NULL
  /\ queued = <<>> /\ owed = {}

Linked(w) == \E i \in DOMAIN queued : queued[i] = w

\* Mutants of insertTailList: the item's own link is not cleared, the item
\* goes to the front.
InsertTailStale(w) ==
  /\ next' = IF tail = NULL THEN next ELSE [next EXCEPT ![tail] = w]
  /\ head' = IF tail = NULL THEN w ELSE head
  /\ tail' = w
  /\ size' = size + 1

InsertFront(w) ==
  /\ next' = [next EXCEPT ![w] = head]
  /\ head' = w
  /\ tail' = IF tail = NULL THEN w ELSE tail
  /\ size' = size + 1

(***************************************************************************)
(* insertTailList: the item's own pNext is cleared first, so linking the   *)
(* tail a second time makes it point to itself.                            *)
(***************************************************************************)
InsertTail(w) ==
  /\ next' = IF tail = NULL
             THEN [next EXCEPT ![w] = NULL]
             ELSE [next EXCEPT ![w] = NULL, ![tail] = w]
  /\ head' = IF tail = NULL THEN w ELSE head
  /\ tail' = w
  /\ size' = size + 1

ScheduleInsert(c, w) ==
  /\ c \notin calling
  /\ size < MaxSize
  /\ Requeue \/ ~Linked(w)
  /\ InsertTail(w)
  /\ calling' = calling \cup {c}
  /\ queued' = Append(queued, w)
  /\ owed' = owed \cup {w}
  /\ UNCHANGED <<sem, wpc, entry>>

\* Mutant: the event is posted only for the first item of the list.
WakeUpFirst(c) ==
  /\ c \in calling
  /\ sem' = IF sem < SemMax /\ size = 1 THEN sem + 1 ELSE sem
  /\ calling' = calling \ {c}
  /\ UNCHANGED <<next, head, tail, size, wpc, entry, queued, owed>>

\* schedule_work's wake_up: OSSemPost, which refuses to pass the maximum.
WakeUp(c) ==
  /\ c \in calling
  /\ sem' = IF sem < SemMax THEN sem + 1 ELSE sem
  /\ calling' = calling \ {c}
  /\ UNCHANGED <<next, head, tail, size, wpc, entry, queued, owed>>

\* wait_event_timeout returned 0; on a time-out the thread just waits again.
WorkerWake ==
  /\ wpc = "wait"
  /\ sem > 0
  /\ sem' = sem - 1
  /\ wpc' = "drain"
  /\ UNCHANGED <<next, head, tail, size, calling, entry, queued, owed>>

WorkerEmpty ==
  /\ wpc = "drain"
  /\ size = 0
  /\ wpc' = "wait"
  /\ UNCHANGED <<next, head, tail, size, sem, calling, entry, queued, owed>>

\* Mutant: removing the last entry leaves pTail behind.
WorkerRemoveKeepsTail ==
  /\ wpc = "drain"
  /\ size # 0
  /\ head # NULL
  /\ entry' = head
  /\ head' = next[head]
  /\ size' = size - 1
  /\ wpc' = "run"
  /\ queued' = Tail(queued)
  /\ owed' = owed \ {head}
  /\ UNCHANGED <<next, tail, sem, calling>>

\* removeHeadList of a list with an entry.
WorkerRemove ==
  /\ wpc = "drain"
  /\ size # 0
  /\ head # NULL
  /\ entry' = head
  /\ head' = next[head]
  /\ tail' = IF next[head] = NULL THEN NULL ELSE tail
  /\ size' = size - 1
  /\ wpc' = "run"
  /\ queued' = Tail(queued)
  /\ owed' = owed \ {head}
  /\ UNCHANGED <<next, sem, calling>>

\* size says there is an entry, the list has none: "no entry", and break.
WorkerNoEntry ==
  /\ wpc = "drain"
  /\ size # 0
  /\ head = NULL
  /\ size' = 0
  /\ queued' = <<>>
  /\ wpc' = "wait"
  /\ UNCHANGED <<next, head, tail, sem, calling, entry, owed>>

\* work->fun(work->data) returns.
WorkerRan ==
  /\ wpc = "run"
  /\ entry' = NULL
  /\ wpc' = "drain"
  /\ UNCHANGED <<next, head, tail, size, sem, calling, queued, owed>>

Worker == WorkerWake \/ WorkerEmpty \/ WorkerRemove \/ WorkerNoEntry \/ WorkerRan

Next ==
  \/ \E c \in Callers : WakeUp(c) \/ \E w \in Works : ScheduleInsert(c, w)
  \/ Worker

(***************************************************************************)
(* The worker is a thread of the preemptive kernel that only waits for its *)
(* event, work functions return, and a caller that has linked an item goes *)
(* on to post the event.                                                   *)
(***************************************************************************)
Fairness == WF_vars(Worker) /\ \A c \in Callers : WF_vars(WakeUp(c))

Spec == Init /\ [][Next]_vars /\ Fairness

-----------------------------------------------------------------------------
TypeOK ==
  /\ next \in [Works -> Works \cup {NULL}]
  /\ head \in Works \cup {NULL}
  /\ tail \in Works \cup {NULL}
  /\ size \in 0..MaxSize
  /\ sem \in 0..SemMax
  /\ calling \subseteq Callers
  /\ wpc \in {"wait", "drain", "run"}
  /\ entry \in Works \cup {NULL}
  /\ (entry # NULL) <=> (wpc = "run")
  /\ queued \in Seq(Works)
  /\ size = Len(queued)
  /\ owed \subseteq Works

\* The worker sleeps, nobody is about to post its event, no post is pending.
Quiescent == wpc = "wait" /\ sem = 0 /\ calling = {}

\* task.c:185-190 models the thread on Linux's workqueue: an item that was
\* scheduled is run.  When the worker has gone back to sleep and nothing is
\* left to wake it, no item that was scheduled is still waiting for its run.
NoWorkForgotten == Quiescent => owed = {}

\* The list under pHead/pTail is the sequence of the items scheduled and not
\* yet removed, whatever the callers' steps fall between.
ListShape ==
  IF queued = <<>>
  THEN head = NULL /\ tail = NULL
  ELSE /\ head = queued[1]
       /\ tail = queued[Len(queued)]
       /\ next[tail] = NULL
       /\ \A i \in 1..(Len(queued) - 1) : next[queued[i]] = queued[i + 1]

\* The same for a queue with one item (the MOAL work queue's main_work),
\* which schedule_work links again and again: the item ends up pointing to
\* itself, and size alone counts the runs that are due.
CounterShape ==
  /\ head = tail
  /\ size > 0 => head # NULL
  /\ size > 1 => next[head] = head

\* No event is lost between the worker's drain and the callers' posts: while
\* size counts an item, the worker is up, or a post is there or on its way,
\* even when the links of the list are broken.
NoLostWakeUp == size > 0 => ~Quiescent

\* Every item that was scheduled is eventually started.
EveryWorkRuns == \A w \in Works : (w \in owed) ~> (w \notin owed)

\* The list, its semaphore and the worker implement the abstract work queue.
Fifo == INSTANCE WorkFifo WITH fifo <- queued, running <- entry, NoWork <- NULL

FifoSpec == Fifo!Spec
=============================================================================
