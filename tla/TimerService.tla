---------------------------- MODULE TimerService ----------------------------
(***************************************************************************)
(* What the timers promise, without a wheel, a clock or a task: a timer    *)
(* that was started with a delay of d fires when d ticks were counted, not *)
(* earlier and not later, whatever happens to the other timers, unless it  *)
(* is stopped or started again before.  The timers that are due in one     *)
(* tick fire one after another, and nothing else happens in between.       *)
(***************************************************************************)
EXTENDS Integers

CONSTANTS Timers, Delays

VARIABLES left,   \* ticks until the timer fires; 0: none, or now
          due     \* the timers that fire now

Init ==
  /\ left = [t \in Timers |-> 0]
  /\ due = {}

Start(t, d) ==
  /\ due = {}
  /\ left' = [left EXCEPT ![t] = d]
  /\ UNCHANGED due

Stop(t) ==
  /\ due = {}
  /\ left' = [left EXCEPT ![t] = 0]
  /\ UNCHANGED due

CountTick ==
  /\ due = {}
  /\ left' = [t \in Timers |-> IF left[t] = 0 THEN 0 ELSE left[t] - 1]
  /\ due' = {t \in Timers : left[t] = 1}

\* A periodic timer starts again, a one-shot timer does not.
Fire(t) ==
  /\ t \in due
  /\ due' = due \ {t}
  /\ \/ UNCHANGED left
     \/ \E d \in Delays : left' = [left EXCEPT ![t] = d]

Next ==
  \/ CountTick
  \/ \E t \in Timers : Stop(t) \/ Fire(t) \/ \E d \in Delays : Start(t, d)

vars == <<left, due>>

Spec == Init /\ [][Next]_vars
=============================================================================
