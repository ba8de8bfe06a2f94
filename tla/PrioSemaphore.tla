--------------------------- MODULE PrioSemaphore ----------------------------
(***************************************************************************)
(* What a semaphore of uC/OS-II promises, without saying how: tokens that  *)
(* are either free or owned, and waiting tasks.  A token that is put while *)
(* tasks wait goes to the most important of them and never becomes free in *)
(* between; a waiter may give up, and then it has no token.  Tasks are     *)
(* their priorities: the smaller the number, the more important.  After    *)
(* the semaphore was deleted nothing is promised.                          *)
(***************************************************************************)
EXTENDS Integers

CONSTANTS Tasks, InitCnt, CntMax

VARIABLES count,     \* tokens that nobody owns
          waiting,   \* tasks that wait for one
          owning,    \* tasks that own one
          exists     \* FALSE once the semaphore was deleted

Init ==
  /\ count = InitCnt
  /\ waiting = {} /\ owning = {}
  /\ exists = TRUE

Take(t) ==
  /\ count > 0
  /\ count' = count - 1
  /\ owning' = owning \cup {t}
  /\ UNCHANGED waiting

Await(t) ==
  /\ count = 0
  /\ waiting' = waiting \cup {t}
  /\ UNCHANGED <<count, owning>>

\* A token comes in from those who no longer own one, or from outside.
Put(givers) ==
  \/ /\ waiting = {}
     /\ count' = IF count < CntMax THEN count + 1 ELSE count
     /\ owning' = owning \ givers
     /\ UNCHANGED waiting
  \/ \E w \in waiting :
       /\ \A u \in waiting : w <= u
       /\ waiting' = waiting \ {w}
       /\ owning' = (owning \ givers) \cup {w}
       /\ UNCHANGED count

GiveUp(tasks) ==
  /\ waiting' = waiting \ tasks
  /\ UNCHANGED <<count, owning>>

Spend(t) ==
  /\ owning' = owning \ {t}
  /\ UNCHANGED <<count, waiting>>

Reset ==
  /\ count' = 0
  /\ UNCHANGED <<waiting, owning>>

Next ==
  \/ /\ exists'
     /\ exists
     /\ \/ \E t \in Tasks : Take(t) \/ Await(t) \/ Spend(t)
        \/ \E givers \in SUBSET Tasks : Put(givers)
        \/ \E tasks \in SUBSET Tasks : GiveUp(tasks)
        \/ Reset
  \/ exists' = FALSE

vars == <<count, waiting, owning, exists>>

Spec == Init /\ [][Next]_vars
=============================================================================
