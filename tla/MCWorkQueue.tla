---------------------------- MODULE MCWorkQueue -----------------------------
(***************************************************************************)
(* Three instances of WorkQueue for TLC.  The kernel runs one thread for   *)
(* each work queue and the queues share nothing, so a behaviour is that of *)
(* one of them, chosen at the start:                                       *)
(*   - the timer tasklet's queue (the constants of the cfg): the items of  *)
(*     several timers, each linked again only after it was removed;        *)
(*   - MOAL's queue: one item, scheduled by the SDIO interrupt, the        *)
(*     transmit path and the ioctl path whether it is linked or not;       *)
(*   - two items that are linked at will: what still holds when the links  *)
(*     of the list get lost.                                               *)
(***************************************************************************)
EXTENDS WorkQueue

VARIABLES which,  \* the queue whose behaviour this is
          mNext, mHead, mTail, mSize, mSem, mCalling, mWpc, mEntry, mQueued,
          mOwed,
          aNext, aHead, aTail, aSize, aSem, aCalling, aWpc, aEntry, aQueued,
          aOwed

moal == <<mNext, mHead, mTail, mSize, mSem, mCalling, mWpc, mEntry, mQueued,
          mOwed>>
any == <<aNext, aHead, aTail, aSize, aSem, aCalling, aWpc, aEntry, aQueued,
         aOwed>>

Moal == INSTANCE WorkQueue WITH
  Works <- {"main_work"}, Callers <- {"sdio_irq", "tx", "ioctl"},
  Requeue <- TRUE, MaxSize <- 5, SemMax <- 3,
  next <- mNext, head <- mHead, tail <- mTail, size <- mSize, sem <- mSem,
  calling <- mCalling, wpc <- mWpc, entry <- mEntry, queued <- mQueued,
  owed <- mOwed

Any == INSTANCE WorkQueue WITH
  Works <- {"t1", "t2"}, Callers <- {"tmr_task", "isr"},
  Requeue <- TRUE, MaxSize <- 4, SemMax <- 3,
  next <- aNext, head <- aHead, tail <- aTail, size <- aSize, sem <- aSem,
  calling <- aCalling, wpc <- aWpc, entry <- aEntry, queued <- aQueued,
  owed <- aOwed

MCInit ==
  /\ which \in {"timers", "moal", "any"}
  /\ Init /\ Moal!Init /\ Any!Init

MCNext ==
  \/ which = "timers" /\ Next /\ UNCHANGED <<which, moal, any>>
  \/ which = "moal" /\ Moal!Next /\ UNCHANGED <<which, vars, any>>
  \/ which = "any" /\ Any!Next /\ UNCHANGED <<which, vars, moal>>

MCSpec ==
  /\ MCInit /\ [][MCNext]_<<which, vars, moal, any>>
  /\ Fairness /\ Moal!Fairness /\ Any!Fairness

\* The properties of the other two instances, which are WorkQueue's.
MoalWorkRuns == Moal!EveryWorkRuns
AnyWakeUpKept == Any!NoLostWakeUp
=============================================================================
