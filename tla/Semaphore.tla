----------------------------- MODULE Semaphore ------------------------------
(***************************************************************************)
(* os_sem.c of uC/OS-II with the parts of os_core.c that move tasks: one   *)
(* semaphore, the tasks that use it as a mutex (mutex.c) or as an event    *)
(* (wait.c, sem.c, lwIP's sys_arch.c), interrupts that post, the tick, and *)
(* the priority scheduler, whose lock (OSSchedLock) the timer task takes.  *)
(*                                                                         *)
(* A task is its priority, a small number being important.  A critical     *)
(* section is one step; the tests before it are another, so an interrupt   *)
(* and through it a more important task may act between the two.  Every    *)
(* step ends in the scheduler (OS_Sched, OSIntExit), see Next.             *)
(*                                                                         *)
(* total is a history variable: the tokens that were put in and not used   *)
(* up since.                                                               *)
(***************************************************************************)
EXTENDS Integers, FiniteSets

CONSTANTS Tasks,      \* the priorities of the tasks that use the semaphore
          Idle,       \* the priority of the idle task
          InitCnt,    \* the argument of OSSemCreate
          CntMax,     \* 65535 on target
          Timeouts,   \* arguments of OSSemPend, in ticks; 0: none
          MaxTotal    \* bound of the model on the tokens under way

ASSUME SemaphoreAssumption ==
  /\ IsFiniteSet(Tasks) /\ Tasks \subseteq Nat
  /\ Idle \in Nat /\ \A t \in Tasks : t < Idle
  /\ CntMax \in Nat \ {0} /\ InitCnt \in 0..CntMax
  /\ Timeouts \subseteq Nat
  /\ MaxTotal \in Nat

VARIABLES exists,   \* OSEventType is OS_EVENT_TYPE_SEM
          cnt,      \* OSEventCnt
          grp,      \* OSEventGrp and OSEventTbl: the tasks on the wait list
          rdy,      \* OSRdyGrp and OSRdyTbl: the tasks that are ready
          cur,      \* OSPrioCur
          lock,     \* OSLockNesting
          dly,      \* OSTCBDly of every task
          pend,     \* OSTCBStatPend: "ok", "to" or "abort"
          pc,       \* "run"; in OSSemPend: "try", then "pend"
          tmo,      \* the argument of the pend under way
          held,     \* the tasks whose pend was successful, until they post
          total     \* history, see above

tasks == <<rdy, dly, pend, pc, tmo>>
vars == <<exists, cnt, grp, rdy, cur, lock, dly, pend, pc, tmo, held, total>>

\* OSUnMapTbl over a bitmap: the most important task of a set.
Highest(S) == CHOOSE t \in S : \A u \in S : t <= u

Init ==
  /\ exists = TRUE
  /\ cnt = InitCnt /\ total = InitCnt
  /\ grp = {} /\ held = {}
  /\ rdy = Tasks
  /\ cur = Highest(Tasks \cup {Idle}) /\ lock = 0
  /\ dly = [t \in Tasks |-> 0]
  /\ pend = [t \in Tasks |-> "ok"]
  /\ pc = [t \in Tasks |-> "run"]
  /\ tmo = [t \in Tasks |-> 0]

Runs(t) == cur = t /\ pc[t] = "run"

\* Mutant of EventTasksRdy: the timeout is left to run.
EventTasksRdyDly(S, status) ==
  /\ rdy' = rdy \cup S
  /\ grp' = grp \ S
  /\ pend' = [t \in Tasks |-> IF t \in S THEN status ELSE pend[t]]
  /\ UNCHANGED dly

\* OS_EventTaskRdy of each task of S.
EventTasksRdy(S, status) ==
  /\ rdy' = rdy \cup S
  /\ grp' = grp \ S
  /\ dly' = [t \in Tasks |-> IF t \in S THEN 0 ELSE dly[t]]
  /\ pend' = [t \in Tasks |-> IF t \in S THEN status ELSE pend[t]]

(***************************************************************************)
(* OSSemPend up to its critical section: the type and the scheduler's lock *)
(* are tested first.  A refused call changes nothing.                      *)
(***************************************************************************)
PendTests(t, timeout) ==
  /\ Runs(t)
  /\ t \notin held
  /\ exists
  /\ lock = 0
  /\ pc' = [pc EXCEPT ![t] = "try"]
  /\ tmo' = [tmo EXCEPT ![t] = timeout]
  /\ UNCHANGED <<exists, cnt, grp, rdy, lock, dly, pend, held, total>>

PendTakes(t) ==
  /\ cur = t
  /\ pc[t] = "try"
  /\ cnt > 0
  /\ cnt' = cnt - 1
  /\ held' = held \cup {t}
  /\ pc' = [pc EXCEPT ![t] = "run"]
  /\ UNCHANGED <<exists, grp, rdy, lock, dly, pend, tmo, total>>

\* OS_EventTaskWait and the call of OS_Sched.
PendWaits(t) ==
  /\ cur = t
  /\ pc[t] = "try"
  /\ cnt = 0
  /\ grp' = grp \cup {t}
  /\ rdy' = rdy \ {t}
  /\ dly' = [dly EXCEPT ![t] = tmo[t]]
  /\ pend' = [pend EXCEPT ![t] = "ok"]
  /\ pc' = [pc EXCEPT ![t] = "pend"]
  /\ UNCHANGED <<exists, cnt, lock, tmo, held, total>>

\* The rest of OSSemPend, once the task runs again.
PendReturns(t) ==
  /\ cur = t
  /\ pc[t] = "pend"
  /\ grp' = IF pend[t] = "to" THEN grp \ {t} ELSE grp
  /\ held' = IF pend[t] = "ok" THEN held \cup {t} ELSE held
  /\ pend' = [pend EXCEPT ![t] = "ok"]
  /\ pc' = [pc EXCEPT ![t] = "run"]
  /\ UNCHANGED <<exists, cnt, rdy, lock, dly, tmo, total>>

\* OSSemAccept takes a token if there is one and never waits.
Accept(t) ==
  /\ Runs(t)
  /\ t \notin held
  /\ exists
  /\ cnt > 0
  /\ cnt' = cnt - 1
  /\ held' = held \cup {t}
  /\ UNCHANGED <<exists, grp, tasks, lock, total>>

\* Mutants of PutToken: the count goes up although a task is readied; the
\* least important waiter is served.
PutTokenTwice ==
  \/ /\ grp # {}
     /\ EventTasksRdy({Highest(grp)}, "ok")
     /\ cnt' = IF cnt < CntMax THEN cnt + 1 ELSE cnt
  \/ /\ grp = {}
     /\ cnt' = IF cnt < CntMax THEN cnt + 1 ELSE cnt
     /\ UNCHANGED <<grp, rdy, dly, pend>>

PutTokenLowest ==
  \/ /\ grp # {}
     /\ EventTasksRdy({CHOOSE t \in grp : \A u \in grp : u <= t}, "ok")
     /\ UNCHANGED cnt
  \/ /\ grp = {}
     /\ cnt' = IF cnt < CntMax THEN cnt + 1 ELSE cnt
     /\ UNCHANGED <<grp, rdy, dly, pend>>

(***************************************************************************)
(* OSSemPost.  The wait list decides, not the ready list: a task whose     *)
(* time is up and that has not run since still takes the token.            *)
(***************************************************************************)
PutToken ==
  \/ /\ grp # {}
     /\ EventTasksRdy({Highest(grp)}, "ok")
     /\ UNCHANGED cnt
  \/ /\ grp = {}
     /\ cnt' = IF cnt < CntMax THEN cnt + 1 ELSE cnt
     /\ UNCHANGED <<grp, rdy, dly, pend>>

Refused == grp = {} /\ cnt = CntMax

\* mutex_unlock: the holder posts.
Unlock(t) ==
  /\ Runs(t)
  /\ t \in held
  /\ exists
  /\ PutToken
  /\ held' = held \ {t}
  /\ total' = IF Refused THEN total - 1 ELSE total
  /\ UNCHANGED <<exists, lock, pc, tmo>>

\* wake_up, from a task that holds nothing or from an interrupt.
Signal ==
  /\ exists
  /\ total < MaxTotal
  /\ PutToken
  /\ total' = IF Refused THEN total ELSE total + 1
  /\ UNCHANGED <<exists, lock, pc, tmo, held>>

WakeUp(t) == Runs(t) /\ Signal

Interrupt == Signal

\* The user of an event has done what it was told of.
Handled(t) ==
  /\ Runs(t)
  /\ t \in held
  /\ held' = held \ {t}
  /\ total' = IF exists THEN total - 1 ELSE total
  /\ UNCHANGED <<exists, cnt, grp, tasks, lock>>

\* clear_wait_event: OSSemSet to 0, which is refused while tasks wait.
Clear(t) ==
  /\ Runs(t)
  /\ exists
  /\ cnt > 0 \/ grp = {}
  /\ cnt' = 0
  /\ total' = total - cnt
  /\ UNCHANGED <<exists, grp, tasks, lock, held>>

\* OSSemPendAbort, of the most important waiter or of all of them.
Abort(t, aborted) ==
  /\ Runs(t)
  /\ exists
  /\ grp # {}
  /\ aborted \in {{Highest(grp)}, grp}
  /\ EventTasksRdy(aborted, "abort")
  /\ UNCHANGED <<exists, cnt, lock, pc, tmo, held, total>>

\* OSSemDel with OS_DEL_ALWAYS: the waiters are told that all went well.
Delete(t) ==
  /\ Runs(t)
  /\ exists
  /\ EventTasksRdy(grp, "ok")
  /\ exists' = FALSE
  /\ cnt' = 0
  /\ UNCHANGED <<lock, pc, tmo, held, total>>

SchedLock(t) ==
  /\ Runs(t)
  /\ lock = 0
  /\ lock' = 1
  /\ UNCHANGED <<exists, cnt, grp, tasks, held, total>>

SchedUnlock(t) ==
  /\ Runs(t)
  /\ lock = 1
  /\ lock' = 0
  /\ UNCHANGED <<exists, cnt, grp, tasks, held, total>>

\* OSTimeDly(1).  No caller holds the scheduler's lock, which the kernel's
\* timer task alone takes, for work that does not wait.
Sleep(t) ==
  /\ Runs(t)
  /\ lock = 0
  /\ rdy' = rdy \ {t}
  /\ dly' = [dly EXCEPT ![t] = 1]
  /\ UNCHANGED <<exists, cnt, grp, lock, pend, pc, tmo, held, total>>

Due(t) == dly[t] = 1

\* Mutant: the time-out of a task on the wait list does not make it ready.
TickSkipsWaiters ==
  /\ \E t \in Tasks : dly[t] > 0
  /\ dly' = [t \in Tasks |-> IF dly[t] > 0 THEN dly[t] - 1 ELSE 0]
  /\ rdy' = rdy \cup {t \in Tasks : Due(t) /\ pc[t] # "pend"}
  /\ pend' = [t \in Tasks |-> IF Due(t)
                              THEN IF pc[t] = "pend" THEN "to" ELSE "ok"
                              ELSE pend[t]]
  /\ UNCHANGED <<exists, cnt, grp, lock, pc, tmo, held, total>>

(***************************************************************************)
(* OSTimeTick.  A task whose time is up is made ready and stays on the     *)
(* wait list until it runs.                                                *)
(***************************************************************************)
Tick ==
  /\ \E t \in Tasks : dly[t] > 0
  /\ dly' = [t \in Tasks |-> IF dly[t] > 0 THEN dly[t] - 1 ELSE 0]
  /\ rdy' = rdy \cup {t \in Tasks : Due(t)}
  /\ pend' = [t \in Tasks |-> IF Due(t)
                              THEN IF pc[t] = "pend" THEN "to" ELSE "ok"
                              ELSE pend[t]]
  /\ UNCHANGED <<exists, cnt, grp, lock, pc, tmo, held, total>>

\* OS_SchedNew, unless the scheduler is locked.
Dispatch == cur' = IF lock' = 0 THEN Highest(rdy' \cup {Idle}) ELSE cur

TaskStep(t) ==
  \/ \E timeout \in Timeouts : PendTests(t, timeout)
  \/ PendTakes(t) \/ PendWaits(t) \/ PendReturns(t)
  \/ Accept(t) \/ Unlock(t) \/ WakeUp(t) \/ Handled(t) \/ Clear(t)
  \/ \E aborted \in SUBSET Tasks : Abort(t, aborted)
  \/ Delete(t) \/ SchedLock(t) \/ SchedUnlock(t) \/ Sleep(t)

Next ==
  /\ \/ \E t \in Tasks : TaskStep(t)
     \/ Interrupt
     \/ Tick
  /\ Dispatch

(***************************************************************************)
(* The tick comes for ever.  A task that has the CPU returns from          *)
(* OSSemPend and unlocks the scheduler again.  Nothing is assumed of what  *)
(* tasks do otherwise: they may never post and never sleep.                *)
(***************************************************************************)
Fairness ==
  /\ WF_vars(Tick /\ Dispatch)
  /\ \A t \in Tasks : /\ WF_vars(PendReturns(t) /\ Dispatch)
                      /\ WF_vars(SchedUnlock(t) /\ Dispatch)

Spec == Init /\ [][Next]_vars /\ Fairness

-----------------------------------------------------------------------------

TypeOK ==
  /\ exists \in BOOLEAN
  /\ cnt \in 0..CntMax
  /\ grp \subseteq Tasks /\ rdy \subseteq Tasks /\ held \subseteq Tasks
  /\ cur \in Tasks \cup {Idle}
  /\ lock \in {0, 1}
  /\ dly \in [Tasks -> Nat]
  /\ pend \in [Tasks -> {"ok", "to", "abort"}]
  /\ pc \in [Tasks -> {"run", "try", "pend"}]
  /\ tmo \in [Tasks -> Nat]
  /\ total \in Int

\* Tasks that were given a token and have not run since.
Granted == {t \in Tasks : pc[t] = "pend" /\ t \notin grp /\ pend[t] = "ok"}

Owners == held \cup Granted

\* No token lies about while a task waits for one.
TokenOrWaiter == cnt = 0 \/ grp = {}

(***************************************************************************)
(* A task that is blocked in OSSemPend is on the wait list, and if it gave *)
(* a timeout that is still running: no post, abort or tick forgets it.  A  *)
(* task on the wait list that is ready has timed out.                      *)
(***************************************************************************)
NoLostWaiter ==
  /\ \A t \in Tasks :
       pc[t] = "pend" /\ t \notin rdy =>
         t \in grp /\ (tmo[t] > 0 => dly[t] > 0)
  /\ \A t \in grp : pc[t] = "pend" /\ (t \in rdy => pend[t] = "to")

(***************************************************************************)
(* The tokens put in are free or owned, each by one task: a post that      *)
(* races with a timeout, an abort or a more important task neither loses   *)
(* one nor makes one.  With one token this is mutual exclusion.  It ends   *)
(* with the semaphore: OSSemDel tells every waiter that it has a token.    *)
(***************************************************************************)
TokensConserved ==
  /\ held \cap Granted = {}
  /\ exists => cnt + Cardinality(Owners) = total

(***************************************************************************)
(* The semaphore is a PrioSemaphore.  A task that timed out is a waiter    *)
(* until it runs.                                                          *)
(***************************************************************************)
Abstract == INSTANCE PrioSemaphore
  WITH count <- cnt, waiting <- grp, owning <- Owners

AbstractSpec == Abstract!Spec

(***************************************************************************)
(* The most important task's wait with a timeout ends, whatever the others *)
(* do, though they never post and lock the scheduler at times.             *)
(***************************************************************************)
TopPendReturns ==
  \A t \in Tasks :
    (\A u \in Tasks : t <= u) =>
      (pc[t] = "pend" /\ tmo[t] > 0 ~> pc[t] # "pend")
=============================================================================
