------------------------------ MODULE Commands ------------------------------
(***************************************************************************)
(* A request's way through the WLAN driver and back.  A thread queues a    *)
(* command for its request (woal_request_ioctl, wlan_prepare_cmd) and      *)
(* waits for the event of its interface; the driver thread (main_work)     *)
(* sends one command at a time to the card, reads the answer, completes    *)
(* the request (moal_ioctl_complete) and takes the next command.  A thread *)
(* that wakes without an answer cancels its request.                       *)
(*                                                                         *)
(* A request is named by its thread: a thread has one, and releases it     *)
(* when it returns.  main_work is counted in runs: module WorkQueue shows  *)
(* that each link of the one item of the MOAL queue is a run due.          *)
(*                                                                         *)
(* The driver thread has the highest priority of all: the others act only  *)
(* while it has no work or waits for the SDIO transfer or the heap it      *)
(* names in wpc (see OthersMay).  What it does between two waits is one    *)
(* action.  Power save, scans and data are left out of the main loop: the  *)
(* card is awake and the transmit queues are empty.                        *)
(***************************************************************************)
EXTENDS Integers, Sequences, FiniteSets, SequencesExt

CONSTANTS Threads,     \* the threads that make requests, by their priority
          Nodes,       \* the command nodes
          NULL,
          SemMax,      \* largest count of an event (65535 on target)
          MayHappen,   \* "no buffer" for a node, "failing write" to the
                       \* card, "bad answer", "interrupt" for something else
          MaxRuns      \* bound of the model: no request and no such interrupt
                       \* while main_work is queued that often

ASSUME CommandsAssumption ==
  /\ Threads \subseteq Nat /\ IsFiniteSet(Threads) /\ IsFiniteSet(Nodes)
  /\ NULL \notin Threads \cup Nodes
  /\ SemMax \in Nat /\ SemMax >= Cardinality(Threads)
  /\ MayHappen \subseteq
       {"no buffer", "failing write", "bad answer", "interrupt"}
  /\ MaxRuns \in Nat

VARIABLES
  free,          \* cmd_free_q
  pending,       \* cmd_pending_q
  curr,          \* curr_cmd
  pioctl,        \* pioctl_buf of each node
  canceled,      \* the nodes with CMD_F_CANCELED
  leaked,        \* history: the nodes no queue and nobody holds any more
  eventOf,       \* the wait queue each thread uses, that of its interface,
                 \* named by the lowest thread that uses it
  pc,            \* where each thread is in its request
  unlinked,      \* the node a canceling thread is about to release
  condition,     \* wait->condition of each request
  timedOut,      \* the requests with status_code MLAN_ERROR_CMD_TIMEOUT
  sem,           \* count of each event
  wpc,           \* what the driver thread waits for; "loop": it runs
  hand,          \* the node it is releasing
  local,         \* its copy of curr_cmd->pioctl_buf
  runs,          \* how often main_work is queued
  intPending,    \* sdio_int_pending
  regDbg,        \* sdio_reg_dbg
  cmdSent,       \* cmd_sent
  timerOn,       \* the command timer runs
  timerSet,      \* cmd_timer_is_set
  expiry,        \* its expiry is queued for the tasklet
  card,          \* the command the card works on
  answer         \* the command whose answer waits in the card

queues  == <<free, pending, curr, pioctl, canceled, leaked>>
callers == <<eventOf, pc, unlinked, condition, timedOut, sem>>
driver  == <<wpc, hand, local>>
work    == <<runs, intPending, regDbg>>
timer   == <<timerOn, timerSet, expiry>>
chip    == <<cmdSent, card, answer>>
vars    == <<queues, callers, driver, work, timer, chip>>

Init ==
  /\ free = SetToSeq(Nodes) /\ pending = <<>> /\ curr = NULL
  /\ pioctl = [n \in Nodes |-> NULL]
  /\ canceled = {} /\ leaked = {}
  /\ eventOf \in {f \in [Threads -> Threads] :
                     \A t \in Threads : f[t] <= t /\ f[f[t]] = f[t]}
  /\ pc = [t \in Threads |-> "idle"]
  /\ unlinked = [t \in Threads |-> NULL]
  /\ condition = [t \in Threads |-> FALSE]
  /\ timedOut = {}
  /\ sem = [e \in Threads |-> 0]
  /\ wpc = "idle" /\ hand = NULL /\ local = NULL
  /\ runs = 0 /\ intPending = FALSE /\ regDbg = FALSE
  /\ cmdSent = FALSE /\ card = NULL /\ answer = NULL
  /\ timerOn = FALSE /\ timerSet = FALSE /\ expiry = FALSE

\* The driver thread (priority 11) preempts every other thread at once.
OthersMay == wpc # "loop" /\ ~(wpc = "idle" /\ runs > 0)

Waiting(e) == {t \in Threads : pc[t] = "waiting" /\ eventOf[t] = e}

\* OSSemPost readies the waiter of the highest priority.
First(T) == CHOOSE t \in T : \A u \in T : t <= u

(***************************************************************************)
(* wake_up: a waiter gets the post, or the count goes up unless it is at   *)
(* its maximum.  p are the pcs of the threads but for the one woken.       *)
(***************************************************************************)
Post(e, p) ==
  IF Waiting(e) # {}
  THEN /\ pc' = [p EXCEPT ![First(Waiting(e))] = "woken"]
       /\ UNCHANGED sem
  ELSE /\ pc' = p
       /\ sem' = [sem EXCEPT ![e] = IF @ < SemMax THEN @ + 1 ELSE @]

\* moal_ioctl_complete; a request that failed with a command time-out does
\* not wake its thread.
Complete(t, p) ==
  /\ condition' = [condition EXCEPT ![t] = TRUE]
  /\ IF t \in timedOut' THEN pc' = p /\ UNCHANGED sem ELSE Post(eventOf[t], p)
  /\ UNCHANGED <<eventOf, unlinked>>

\* wlan_insert_cmd_to_free_q up to the release of the node's buffers: the
\* request the node still has is completed, the node is cleaned.
Release(n) ==
  /\ hand' = n
  /\ pioctl' = [pioctl EXCEPT ![n] = NULL]
  /\ canceled' = canceled \ {n}
  /\ IF pioctl[n] = NULL
     THEN UNCHANGED <<eventOf, pc, unlinked, sem, condition>>
     ELSE Complete(pioctl[n], pc)

-----------------------------------------------------------------------------
(***************************************************************************)
(* The threads.  mlan_ioctl runs under driver_lock, with interrupts        *)
(* disabled: it is one step.                                               *)
(***************************************************************************)
Request(t) ==
  /\ OthersMay
  /\ pc[t] = "idle"
  /\ runs < MaxRuns
  /\ free # <<>>
  /\ free' = Tail(free)
  /\ pending' = Append(pending, Head(free))
  /\ pioctl' = [pioctl EXCEPT ![Head(free)] = t]
  /\ pc' = [pc EXCEPT ![t] = "queued"]
  /\ UNCHANGED <<curr, canceled, leaked, eventOf, unlinked, condition,
                 timedOut, sem, driver, work, timer, chip>>

\* wlan_get_cmd_node has taken the node off its queue and finds no buffer.
RequestNoBuffer(t) ==
  /\ "no buffer" \in MayHappen
  /\ OthersMay
  /\ pc[t] = "idle"
  /\ free # <<>>
  /\ free' = Tail(free)
  /\ leaked' = leaked \cup {Head(free)}
  /\ UNCHANGED <<pending, curr, pioctl, canceled, callers, driver, work, timer,
                 chip>>

\* main_work is queued after the request.
QueueWork(t) ==
  /\ OthersMay
  /\ pc[t] = "queued"
  /\ pc' = [pc EXCEPT ![t] = "posted"]
  /\ runs' = runs + 1
  /\ UNCHANGED <<queues, eventOf, unlinked, condition, timedOut, sem, driver,
                 intPending, regDbg, timer, chip>>

\* wait_event: one OSSemPend, whatever the condition.
Wait(t) ==
  /\ OthersMay
  /\ pc[t] = "posted"
  /\ IF sem[eventOf[t]] > 0
     THEN /\ pc' = [pc EXCEPT ![t] = "woken"]
          /\ sem' = [sem EXCEPT ![eventOf[t]] = @ - 1]
     ELSE /\ pc' = [pc EXCEPT ![t] = "waiting"]
          /\ UNCHANGED sem
  /\ UNCHANGED <<queues, eventOf, unlinked, condition, timedOut, driver, work,
                 timer, chip>>

\* The condition holds: the thread returns, and its request is released.
Return(t) ==
  /\ OthersMay
  /\ pc[t] = "woken"
  /\ condition[t]
  /\ pc' = [pc EXCEPT ![t] = "idle"]
  /\ condition' = [condition EXCEPT ![t] = FALSE]
  /\ timedOut' = timedOut \ {t}
  /\ UNCHANGED <<queues, eventOf, unlinked, sem, driver, work, timer,
                 chip>>

\* The condition does not hold: the thread goes on to cancel its request.
WokenTooEarly(t) ==
  /\ OthersMay
  /\ pc[t] = "woken"
  /\ ~condition[t]
  /\ pc' = [pc EXCEPT ![t] = "cancel"]
  /\ UNCHANGED <<queues, eventOf, unlinked, condition, timedOut, sem, driver,
                 work, timer, chip>>

\* Mutant: the node stays in the pending queue.
CancelPendingLinked(t) ==
  /\ OthersMay
  /\ pc[t] = "cancel"
  /\ \E n \in Range(pending) :
       /\ pioctl[n] = t
       /\ pioctl' = [pioctl EXCEPT ![n] = NULL]
       /\ unlinked' = [unlinked EXCEPT ![t] = n]
  /\ pc' = [pc EXCEPT ![t] = "unlinked"]
  /\ UNCHANGED <<free, pending, curr, canceled, leaked, eventOf, condition,
                 timedOut, sem, driver, work, timer, chip>>

(***************************************************************************)
(* wlan_cancel_pending_ioctl under the command lock.  The current command  *)
(* loses its request and is marked, and stays until its answer; a pending  *)
(* one is unlinked.  A request has one command, so that the loop of the    *)
(* code finds one node at most.                                            *)
(***************************************************************************)
CancelCurrent(t) ==
  /\ OthersMay
  /\ pc[t] = "cancel"
  /\ curr # NULL
  /\ pioctl[curr] = t
  /\ pioctl' = [pioctl EXCEPT ![curr] = NULL]
  /\ canceled' = canceled \cup {curr}
  /\ pc' = [pc EXCEPT ![t] = "completing"]
  /\ UNCHANGED <<free, pending, curr, leaked, eventOf, unlinked, condition,
                 timedOut, sem, driver, work, timer, chip>>

CancelPending(t) ==
  /\ OthersMay
  /\ pc[t] = "cancel"
  /\ \E i \in DOMAIN pending :
       /\ pioctl[pending[i]] = t
       /\ pending' = RemoveAt(pending, i)
       /\ pioctl' = [pioctl EXCEPT ![pending[i]] = NULL]
       /\ unlinked' = [unlinked EXCEPT ![t] = pending[i]]
  /\ pc' = [pc EXCEPT ![t] = "unlinked"]
  /\ UNCHANGED <<free, curr, canceled, leaked, eventOf, condition, timedOut,
                 sem, driver, work, timer, chip>>

\* The answer came after the thread had looked at the condition.
CancelNothing(t) ==
  /\ OthersMay
  /\ pc[t] = "cancel"
  /\ \A n \in Nodes : pioctl[n] # t
  /\ pc' = [pc EXCEPT ![t] = "completing"]
  /\ UNCHANGED <<queues, eventOf, unlinked, condition, timedOut, sem, driver,
                 work, timer, chip>>

\* wlan_insert_cmd_to_free_q of a node that has no request any more.
CancelFree(t) ==
  /\ OthersMay
  /\ pc[t] = "unlinked"
  /\ free' = Append(free, unlinked[t])
  /\ unlinked' = [unlinked EXCEPT ![t] = NULL]
  /\ pc' = [pc EXCEPT ![t] = "completing"]
  /\ UNCHANGED <<pending, curr, pioctl, canceled, leaked, eventOf, condition,
                 timedOut, sem, driver, work, timer, chip>>

\* The thread completes its own request.
CancelComplete(t) ==
  /\ OthersMay
  /\ pc[t] = "completing"
  /\ timedOut' = timedOut \ {t}
  /\ Complete(t, [pc EXCEPT ![t] = "woken"])
  /\ UNCHANGED <<queues, driver, work, timer, chip>>

Cancel(t) ==
  \/ WokenTooEarly(t) \/ CancelCurrent(t) \/ CancelPending(t)
  \/ CancelNothing(t) \/ CancelFree(t) \/ CancelComplete(t)

\* What a thread does from the moment its request is queued.
Proceed(t) ==
  \/ QueueWork(t) \/ Wait(t) \/ Return(t) \/ Cancel(t)

-----------------------------------------------------------------------------
(***************************************************************************)
(* The driver thread: woal_main_work_queue and mlan_main_process.          *)
(***************************************************************************)
WorkerStart ==
  /\ wpc = "idle"
  /\ runs > 0
  /\ ~regDbg
  /\ runs' = runs - 1
  /\ wpc' = IF intPending THEN "regs" ELSE "loop"
  /\ intPending' = FALSE
  /\ UNCHANGED <<queues, callers, hand, local, regDbg, timer, chip>>

\* A run that prints the card's registers and does nothing else.
WorkerDebug ==
  /\ wpc = "idle"
  /\ runs > 0
  /\ regDbg
  /\ runs' = runs - 1
  /\ regDbg' = FALSE
  /\ UNCHANGED <<queues, callers, driver, intPending, timer, chip>>

\* The registers have been read: the command port is free again when the card
\* holds no command; an answer is read next.
ReadRegs ==
  /\ wpc = "regs"
  /\ cmdSent' = (cmdSent /\ card # NULL)
  /\ wpc' = IF answer # NULL THEN "read" ELSE "loop"
  /\ UNCHANGED <<queues, callers, hand, local, work, timer, card, answer>>

\* wlan_process_cmdresp stops the timer if its flag says that it is set.
StopTimer ==
  /\ timerSet' = FALSE
  /\ timerOn' = (timerOn /\ ~timerSet)
  /\ UNCHANGED expiry

\* The answer of a canceled command: its node is released.
AnswerCanceled ==
  /\ wpc = "read"
  /\ curr \in canceled
  /\ answer' = NULL
  /\ StopTimer
  /\ Release(curr)
  /\ UNCHANGED timedOut
  /\ curr' = NULL
  /\ wpc' = "clean"
  /\ UNCHANGED <<free, pending, leaked, local, work, cmdSent, card>>

\* An answer without the response bit: the request fails; curr_cmd is
\* cleared only after the node was released.
AnswerInvalid ==
  /\ "bad answer" \in MayHappen
  /\ wpc = "read"
  /\ curr \notin canceled
  /\ answer' = NULL
  /\ StopTimer
  /\ timedOut' = timedOut \ {pioctl[curr]}
  /\ Release(curr)
  /\ wpc' = "clean"
  /\ UNCHANGED <<free, pending, curr, leaked, local, work, cmdSent, card>>

\* The handler of the answer gets the request; it may wait for the heap.
AnswerHandled ==
  /\ wpc = "read"
  /\ curr \notin canceled
  /\ answer' = NULL
  /\ StopTimer
  /\ local' = pioctl[curr]
  /\ wpc' = "handler"
  /\ UNCHANGED <<queues, callers, hand, work, cmdSent, card>>

\* Mutant: the request that was read before the handler is completed.
HandlerDoneStale ==
  /\ wpc = "handler"
  /\ timedOut' = timedOut \ {local}
  /\ hand' = curr
  /\ pioctl' = [pioctl EXCEPT ![curr] = NULL]
  /\ canceled' = canceled \ {curr}
  /\ IF local = NULL
     THEN UNCHANGED <<eventOf, pc, unlinked, sem, condition>>
     ELSE Complete(local, pc)
  /\ curr' = NULL
  /\ local' = NULL
  /\ wpc' = "clean"
  /\ UNCHANGED <<free, pending, leaked, work, timer, chip>>

\* Mutant: the status a time-out has set stays as it is.
HandlerDoneTimedOut ==
  /\ wpc = "handler"
  /\ UNCHANGED timedOut
  /\ Release(curr)
  /\ curr' = NULL
  /\ local' = NULL
  /\ wpc' = "clean"
  /\ UNCHANGED <<free, pending, leaked, work, timer, chip>>

\* The handler has returned: pioctl_buf is read again, under the lock.
HandlerDone ==
  /\ wpc = "handler"
  /\ timedOut' = timedOut \ {pioctl[curr]}
  /\ Release(curr)
  /\ curr' = NULL
  /\ local' = NULL
  /\ wpc' = "clean"
  /\ UNCHANGED <<free, pending, leaked, work, timer, chip>>

\* The node is clean: it goes to the free queue.  Its own buffer is released
\* after that; a thread that takes the node needs the heap too, and gets it
\* after the driver thread.
CleanDone ==
  /\ wpc = "clean"
  /\ free' = Append(free, hand)
  /\ curr' = IF curr = hand THEN NULL ELSE curr
  /\ hand' = NULL
  /\ wpc' = "loop"
  /\ UNCHANGED <<pending, pioctl, canceled, leaked, callers, local, work,
                 timer,
                 chip>>

MaySend == ~cmdSent /\ curr = NULL /\ pending # <<>>

\* wlan_exec_next_cmd: the first pending command becomes the current one.
SendNext ==
  /\ wpc = "loop"
  /\ MaySend
  /\ pending' = Tail(pending)
  /\ curr' = Head(pending)
  /\ local' = pioctl[Head(pending)]
  /\ cmdSent' = TRUE
  /\ wpc' = "send"
  /\ UNCHANGED <<free, pioctl, canceled, leaked, callers, hand, work, timer,
                 card, answer>>

\* Nothing to do: the loop ends.
WorkerIdle ==
  /\ wpc = "loop"
  /\ ~MaySend
  /\ wpc' = "idle"
  /\ UNCHANGED <<queues, callers, hand, local, work, timer, chip>>

SendDone ==
  /\ wpc = "send"
  /\ card' = curr
  /\ timerOn' = TRUE
  /\ timerSet' = TRUE
  /\ local' = NULL
  /\ wpc' = "loop"
  /\ UNCHANGED <<queues, callers, hand, work, expiry, cmdSent, answer>>

\* The write fails: the request is completed, and the main loop ends although
\* commands may be pending.
SendFails ==
  /\ "failing write" \in MayHappen
  /\ wpc = "send"
  /\ timedOut' = timedOut \ {pioctl[curr]}
  /\ Release(curr)
  /\ cmdSent' = FALSE
  /\ local' = NULL
  /\ wpc' = "abandon"
  /\ UNCHANGED <<free, pending, curr, leaked, work, timer, card, answer>>

AbandonDone ==
  /\ wpc = "abandon"
  /\ free' = Append(free, hand)
  /\ curr' = NULL
  /\ hand' = NULL
  /\ wpc' = "idle"
  /\ UNCHANGED <<pending, pioctl, canceled, leaked, callers, local, work,
                 timer,
                 chip>>

Worker ==
  \/ WorkerStart \/ WorkerDebug \/ ReadRegs
  \/ AnswerCanceled \/ AnswerInvalid \/ AnswerHandled \/ HandlerDone
  \/ CleanDone
  \/ SendNext \/ SendDone \/ SendFails \/ AbandonDone \/ WorkerIdle

-----------------------------------------------------------------------------
\* The kernel's timer task finds the command timer expired.
TimerExpires ==
  /\ OthersMay
  /\ timerOn
  /\ timerOn' = FALSE
  /\ expiry' = TRUE
  /\ UNCHANGED <<queues, callers, driver, work, timerSet, chip>>

\* Mutant: the thread is woken at once.
TimeoutWakes ==
  /\ OthersMay
  /\ expiry
  /\ expiry' = FALSE
  /\ timerSet' = FALSE
  /\ IF curr = NULL
     THEN UNCHANGED <<timedOut, runs, regDbg, pc, sem>>
     ELSE /\ timedOut' = timedOut \cup ({pioctl[curr]} \ {NULL})
          /\ regDbg' = TRUE
          /\ runs' = runs + 1
          /\ IF pioctl[curr] = NULL
             THEN UNCHANGED <<pc, sem>>
             ELSE Post(eventOf[pioctl[curr]], pc)
  /\ UNCHANGED <<queues, eventOf, unlinked, condition, driver, intPending,
                 timerOn, chip>>

\* Mutant: the command is given up although the card has it.
TimeoutGivesUp ==
  /\ OthersMay
  /\ expiry
  /\ expiry' = FALSE
  /\ timerSet' = FALSE
  /\ curr' = NULL
  /\ IF curr = NULL
     THEN UNCHANGED <<free, pioctl, timedOut, runs, regDbg>>
     ELSE /\ timedOut' = timedOut \cup ({pioctl[curr]} \ {NULL})
          /\ pioctl' = [pioctl EXCEPT ![curr] = NULL]
          /\ free' = Append(free, curr)
          /\ regDbg' = TRUE
          /\ runs' = runs + 1
  /\ UNCHANGED <<pending, canceled, leaked, eventOf, pc, unlinked, condition,
                 sem, driver, intPending, timerOn, chip>>

\* wlan_cmd_timeout_func in the tasklet: the request is marked, the registers
\* are to be printed.  Nothing is sent again, nobody is woken.
Timeout ==
  /\ OthersMay
  /\ expiry
  /\ expiry' = FALSE
  /\ timerSet' = FALSE
  /\ IF curr = NULL
     THEN UNCHANGED <<timedOut, runs, regDbg>>
     ELSE /\ timedOut' = timedOut \cup ({pioctl[curr]} \ {NULL})
          /\ regDbg' = TRUE
          /\ runs' = runs + 1
  /\ UNCHANGED <<queues, eventOf, pc, unlinked, condition, sem,
                 driver, intPending, timerOn, chip>>

-----------------------------------------------------------------------------
\* SDIO_IRQHandler.
Interrupt == intPending' = TRUE /\ runs' = runs + 1 /\ UNCHANGED regDbg

\* The card answers its command and interrupts.
CardAnswers ==
  /\ card # NULL
  /\ answer' = card
  /\ card' = NULL
  /\ Interrupt
  /\ UNCHANGED <<queues, callers, driver, timer, cmdSent>>

\* It interrupts for something else: data, an event, a free data port.
CardNotifies ==
  /\ "interrupt" \in MayHappen
  /\ runs < MaxRuns
  /\ Interrupt
  /\ UNCHANGED <<queues, callers, driver, timer, chip>>

Next ==
  \/ \E t \in Threads :
       Request(t) \/ RequestNoBuffer(t) \/ Proceed(t)
  \/ Worker
  \/ TimerExpires \/ Timeout
  \/ CardAnswers \/ CardNotifies

(***************************************************************************)
(* The driver thread waits only for transfers and for the heap.  The card  *)
(* answers what it got.  The other threads run while the driver thread     *)
(* waits, which it does again and again but not for good.                  *)
(***************************************************************************)
Fairness ==
  /\ WF_vars(Worker)
  /\ WF_vars(CardAnswers)
  /\ \A t \in Threads : SF_vars(Proceed(t))

Spec == Init /\ [][Next]_vars /\ Fairness

-----------------------------------------------------------------------------
Steps == {"idle", "queued", "posted", "waiting", "woken", "cancel",
          "unlinked", "completing"}

\* Types, and which locals go with which stages of the code: hand is set while
\* a node's buffers are released, curr while its command is written or handled.
TypeOK ==
  /\ free \in Seq(Nodes) /\ pending \in Seq(Nodes)
  /\ curr \in Nodes \cup {NULL} /\ hand \in Nodes \cup {NULL}
  /\ pioctl \in [Nodes -> Threads \cup {NULL}]
  /\ canceled \subseteq Nodes /\ leaked \subseteq Nodes
  /\ eventOf \in [Threads -> Threads]
  /\ pc \in [Threads -> Steps]
  /\ unlinked \in [Threads -> Nodes \cup {NULL}]
  /\ \A t \in Threads : unlinked[t] # NULL <=> pc[t] = "unlinked"
  /\ condition \in [Threads -> BOOLEAN]
  /\ timedOut \subseteq Threads
  /\ sem \in [Threads -> 0..SemMax]
  /\ wpc \in {"idle", "regs", "read", "handler", "clean", "loop", "send",
              "abandon"}
  /\ hand # NULL <=> wpc \in {"clean", "abandon"}
  /\ wpc \in {"handler", "send"} => curr # NULL
  /\ wpc = "read" => answer # NULL
  /\ local \in Threads \cup {NULL}
  /\ runs \in Nat
  /\ {intPending, regDbg, cmdSent, timerOn, timerSet, expiry}
       \subseteq BOOLEAN
  /\ card \in Nodes \cup {NULL} /\ answer \in Nodes \cup {NULL}

\* The places that hold node n.
Holders(n) ==
  ({"free"} \X {i \in DOMAIN free : free[i] = n})
  \cup ({"pending"} \X {i \in DOMAIN pending : pending[i] = n})
  \cup ({"caller"} \X {t \in Threads : unlinked[t] = n})
  \cup (IF n \in {curr, hand} THEN {<<"driver", 0>>} ELSE {})
  \cup (IF n \in leaked THEN {<<"nobody", 0>>} ELSE {})

\* A node is in one place: in one of the queues, current, with the thread that
\* cancels it, or lost by wlan_get_cmd_node, whatever cancellations, answers,
\* time-outs and failing writes fall between each other.
NodesAccounted == \A n \in Nodes : Cardinality(Holders(n)) = 1

\* A request that waits for its answer has one node, which is pending or
\* current; a request that was answered, canceled or released has none, so
\* that nothing is ever answered twice by the driver thread or after its
\* thread has released it.
RequestTracked ==
  \A t \in Threads :
    LET Mine == {n \in Nodes : pioctl[n] = t}
    IN  /\ Cardinality(Mine) =
             IF /\ pc[t] \notin {"idle", "unlinked", "completing"}
                /\ ~condition[t]
             THEN 1 ELSE 0
        /\ Mine \subseteq Range(pending) \cup {curr}

\* wlan_process_cmdresp takes any answer for the answer of curr_cmd and never
\* compares sequence numbers: the command the card has, or has answered, is
\* the current one, canceled or timed out though it may be.
AnswerIsCurrent ==
  /\ card # NULL => card = curr /\ answer = NULL
  /\ answer # NULL => answer = curr

\* The stages in which a thread is past its wait.
Awake == {"woken", "cancel", "unlinked", "completing"}

Alone(t) == \A u \in Threads \ {t} : eventOf[u] # eventOf[t]

\* A thread that shares its event with nobody gets its own answer: it is not
\* woken before, so it never cancels; and the request the driver thread holds
\* in a local while it waits for a transfer or the heap is not taken away.
OwnAnswer ==
  \A t \in Threads : Alone(t) =>
    /\ pc[t] \in Awake => condition[t]
    /\ sem[eventOf[t]] <= (IF condition[t] THEN 1 ELSE 0)
    /\ wpc \in {"handler", "send"} /\ local = t => pioctl[curr] = t

\* Who has been answered and does not know it yet, and who is awake without an
\* answer and therefore about to complete its own request.
Answered(e) ==
  {t \in Threads : eventOf[t] = e /\ condition[t]
                     /\ pc[t] \in {"queued", "posted", "waiting"}}
Unanswered(e) ==
  {t \in Threads : eventOf[t] = e /\ ~condition[t] /\ pc[t] \in Awake}

\* No answer stays unseen although the threads of an interface wake each other:
\* while a thread waits whose request was answered, another one is awake for
\* it, has no answer, and will post their event.
AnswerSeen ==
  \A t \in Threads :
    pc[t] = "waiting" /\ condition[t] => Unanswered(eventOf[t]) # {}

\* main_work is due for commands that wait, while none is current; the current
\* one is in the driver thread's hands, with the card, or its answer is
\* announced.  A run that prints the registers does none of this.
WorkDue == runs > (IF regDbg THEN 1 ELSE 0)
WorkComes ==
  /\ wpc = "idle" /\ pending # <<>> /\ curr = NULL =>
       WorkDue \/ \E t \in Threads : pc[t] = "queued"
  /\ curr # NULL =>
       \/ wpc \in {"handler", "clean", "send", "abandon"}
       \/ card = curr
       \/ /\ answer = curr
          /\ \/ wpc \in {"regs", "read"}
             \/ intPending /\ (wpc = "idle" => WorkDue)

\* As long as every command can be written, nothing comes to rest that a
\* request waits for.
NothingStalls == AnswerSeen /\ WorkComes

\* What the threads see of all this is a line that is served in order.
Phase(t) ==
  CASE pc[t] = "idle" -> "none"
    [] pc[t] # "idle" /\ condition[t] -> "done"
    [] pc[t] \in {"unlinked", "completing"} /\ ~condition[t] -> "givenUp"
    [] OTHER -> "asked"

Line == INSTANCE RequestLine WITH
  phase <- [t \in Threads |-> Phase(t)],
  line <- [i \in DOMAIN pending |-> pioctl[pending[i]]],
  serving <- {pioctl[n] : n \in {curr} \ {NULL, hand}},
  event <- eventOf, Nobody <- NULL

LineSpec == Line!Spec

\* Every request returns, as long as every command could be written: when one
\* cannot, the main loop ends and the commands behind wait for other work.
EveryRequestReturns ==
  \A t \in Threads : (pc[t] # "idle") ~> (pc[t] = "idle")

\* moal_ioctl.c:210, "Wait mlan ioctl complete": a thread is woken when its
\* request is complete.
WaitsUntilComplete == \A t \in Threads : pc[t] = "woken" => condition[t]
=============================================================================
