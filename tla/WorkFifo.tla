------------------------------ MODULE WorkFifo ------------------------------
(***************************************************************************)
(* What a work queue of kernel/api/src/task.c promises its callers: every  *)
(* schedule_work() of a work item is answered by one call of the item's    *)
(* function, and the calls are made one at a time in the order in which    *)
(* the items were scheduled.                                               *)
(***************************************************************************)
EXTENDS Sequences

CONSTANTS Works,     \* the work items
          NoWork     \* the worker is between two items; not one of Works

VARIABLES fifo,      \* scheduled and not yet started, oldest first
          running    \* the item whose function is being called

vars == <<fifo, running>>

Init == fifo = <<>> /\ running = NoWork

Schedule(w) ==
  /\ fifo' = Append(fifo, w)
  /\ UNCHANGED running

Start ==
  /\ running = NoWork
  /\ fifo # <<>>
  /\ running' = Head(fifo)
  /\ fifo' = Tail(fifo)

Finish ==
  /\ running # NoWork
  /\ running' = NoWork
  /\ UNCHANGED fifo

Next == (\E w \in Works : Schedule(w)) \/ Start \/ Finish

Spec == Init /\ [][Next]_vars /\ WF_vars(Start) /\ WF_vars(Finish)
=============================================================================
