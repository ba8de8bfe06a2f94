------------------------------- MODULE Timers -------------------------------
(***************************************************************************)
(* os_tmr.c of uC/OS-II and kernel/api/src/timer.c, the Linux-like timers  *)
(* of the driver over it: a pool of timers, a clock that the tick advances *)
(* and that wraps around, and a wheel whose spokes hold the running        *)
(* timers.  Every function of os_tmr.c works with the scheduler locked, so *)
(* it is one step for the other threads; timer.c takes no lock, and        *)
(* mod_timer tests the state, writes the delay and starts the timer in     *)
(* three steps between which any other thread may act on the same timer.   *)
(*                                                                         *)
(* A thread keeps a pointer to a timer after another one has freed it, and *)
(* the timer may be set up again for someone else meanwhile.  A spoke is a *)
(* set: its order only decides in which order callbacks are handed over.   *)
(* add_timer, which nothing calls, is left out.                            *)
(***************************************************************************)
EXTENDS Integers

CONSTANTS Timers,    \* OSTmrTbl
          Threads,   \* the threads that use timers
          Nobody,    \* a thread that is in no mod_timer
          Spokes,    \* OS_TMR_CFG_WHEEL_SIZE
          TimeMod,   \* the clock counts modulo this: 2^32 on target
          Delays,    \* the delays, in timer ticks, at least one
          SigMax     \* largest count of OSTmrSemSignal (65535 on target)

ASSUME TimersAssumption ==
  /\ Nobody \notin Timers
  /\ Spokes \in Nat \ {0}
  /\ TimeMod \in Nat \ {0}
  /\ Delays \subseteq 1..(TimeMod - 1)
  /\ SigMax \in Nat \ {0}

VARIABLES state,    \* OSTmrState of every timer
          match,    \* OSTmrMatch
          delay,    \* OSTmrDly and OSTmrPeriod: written together, and equal
          opt,      \* OSTmrOpt: "once", "periodic" or "none"
          wheel,    \* OSTmrWheelTbl: the timers linked to each spoke
          time,     \* OSTmrTime
          signal,   \* count of OSTmrSemSignal
          walk,     \* OSTmr_Task holds the scheduler and walks a spoke
          todo,     \* the timers of the spoke it has not looked at yet
          mod       \* the mod_timer each thread is in

timers == <<state, match, delay, opt, wheel>>
vars == <<state, match, delay, opt, wheel, time, signal, walk, todo, mod>>

NoMod == [tmr |-> Nobody, expires |-> 0, at |-> "out"]

Init ==
  /\ state = [t \in Timers |-> "UNUSED"]
  /\ match = [t \in Timers |-> 0]
  /\ delay = [t \in Timers |-> 0]
  /\ opt = [t \in Timers |-> "none"]
  /\ wheel = [s \in 0..(Spokes - 1) |-> {}]
  /\ time = 0 /\ signal = 0
  /\ walk = FALSE /\ todo = {}
  /\ mod = [th \in Threads |-> NoMod]

\* Arithmetic of INT32U: a sum below twice the modulus wraps around.
Wrap(n) == IF n >= TimeMod THEN n - TimeMod ELSE n

Spoke(m) == m % Spokes

\* Mutant of Relink: the spoke is taken from the delay, not from the match.
RelinkByDelay(t, d, w) ==
  LET m == Wrap(time + d)
  IN  /\ match' = [match EXCEPT ![t] = m]
      /\ wheel' = [w EXCEPT ![Spoke(d)] = @ \cup {t}]

\* OSTmr_Link of a timer that wheel w does not hold.
Relink(t, d, w) ==
  LET m == Wrap(time + d)
  IN  /\ match' = [match EXCEPT ![t] = m]
      /\ wheel' = [w EXCEPT ![Spoke(m)] = @ \cup {t}]

\* OSTmr_Unlink: the timer is searched in the spoke of its match.
Unlinked(t) == [wheel EXCEPT ![Spoke(match[t])] = @ \ {t}]

\* timer_setup: OSTmrCreate takes any timer of the pool; with none left it
\* fails (and timer_setup writes through the null pointer, not modelled).
TimerSetup(t, d, o) ==
  /\ ~walk
  /\ state[t] = "UNUSED"
  /\ state' = [state EXCEPT ![t] = "STOPPED"]
  /\ delay' = [delay EXCEPT ![t] = d]
  /\ opt' = [opt EXCEPT ![t] = o]
  /\ UNCHANGED <<match, wheel, time, signal, walk, todo, mod>>

\* Mutant: a running timer is not left alone.
ModTestsNothing(th, t, d) ==
  /\ ~walk
  /\ mod[th] = NoMod
  /\ state[t] # "UNUSED"
  /\ mod' = [mod EXCEPT ![th] = [tmr |-> t, expires |-> d, at |-> "tested"]]
  /\ UNCHANGED <<timers, time, signal, walk, todo>>

\* mod_timer of a timer that does not run; of one that runs it returns 1.
ModTests(th, t, d) ==
  /\ ~walk
  /\ mod[th] = NoMod
  /\ state[t] \notin {"UNUSED", "RUNNING"}
  /\ mod' = [mod EXCEPT ![th] = [tmr |-> t, expires |-> d, at |-> "tested"]]
  /\ UNCHANGED <<timers, time, signal, walk, todo>>

\* By now the timer may run, or be in the pool, or be someone else's.
ModWrites(th) ==
  /\ ~walk
  /\ mod[th].at = "tested"
  /\ delay' = [delay EXCEPT ![mod[th].tmr] = mod[th].expires]
  /\ mod' = [mod EXCEPT ![th].at = "written"]
  /\ UNCHANGED <<state, match, opt, wheel, time, signal, walk, todo>>

\* OSTmrStart, at the end of mod_timer.
ModStarts(th) ==
  LET t == mod[th].tmr
  IN  /\ ~walk
      /\ mod[th].at = "written"
      /\ mod' = [mod EXCEPT ![th] = NoMod]
      /\ \/ /\ state[t] = "UNUSED"
            /\ UNCHANGED <<state, match, wheel>>
         \/ /\ state[t] = "RUNNING"
            /\ Relink(t, delay[t], Unlinked(t))
            /\ UNCHANGED state
         \/ /\ state[t] \in {"STOPPED", "COMPLETED"}
            /\ state' = [state EXCEPT ![t] = "RUNNING"]
            /\ Relink(t, delay[t], wheel)
      /\ UNCHANGED <<delay, opt, time, signal, walk, todo>>

\* del_timer: OSTmrStop, which does nothing to a timer that does not run.
DelTimer(t) ==
  /\ ~walk
  /\ state[t] = "RUNNING"
  /\ state' = [state EXCEPT ![t] = "STOPPED"]
  /\ wheel' = Unlinked(t)
  /\ UNCHANGED <<match, delay, opt, time, signal, walk, todo, mod>>

\* Mutant: OSTmrDel leaves a running timer on its spoke.
TimerFreeLinked(t) ==
  /\ ~walk
  /\ state[t] # "UNUSED"
  /\ state' = [state EXCEPT ![t] = "UNUSED"]
  /\ match' = [match EXCEPT ![t] = 0]
  /\ delay' = [delay EXCEPT ![t] = 0]
  /\ opt' = [opt EXCEPT ![t] = "none"]
  /\ UNCHANGED <<wheel, time, signal, walk, todo, mod>>

\* timer_free: OSTmrDel, whose OSTmr_Free clears the fields.
TimerFree(t) ==
  /\ ~walk
  /\ state[t] # "UNUSED"
  /\ state' = [state EXCEPT ![t] = "UNUSED"]
  /\ wheel' = IF state[t] = "RUNNING" THEN Unlinked(t) ELSE wheel
  /\ match' = [match EXCEPT ![t] = 0]
  /\ delay' = [delay EXCEPT ![t] = 0]
  /\ opt' = [opt EXCEPT ![t] = "none"]
  /\ UNCHANGED <<time, signal, walk, todo, mod>>

\* OSTimeTickHook: each tenth of a second the timer task is signalled; a
\* count at its limit stays where it is.
Tick ==
  /\ signal' = IF signal < SigMax THEN signal + 1 ELSE signal
  /\ UNCHANGED <<timers, time, walk, todo, mod>>

\* OSTmr_Task wakes up, locks the scheduler and goes to the next spoke.
WalkStarts ==
  /\ ~walk
  /\ signal > 0
  /\ signal' = signal - 1
  /\ time' = Wrap(time + 1)
  /\ todo' = wheel[Spoke(time')]
  /\ walk' = TRUE
  /\ UNCHANGED <<timers, mod>>

\* Mutant: everything on the spoke expires, whatever its turn.
WalkExpiresAll(t) ==
  /\ walk
  /\ t \in todo
  /\ todo' = todo \ {t}
  /\ state' = [state EXCEPT ![t] = "COMPLETED"]
  /\ wheel' = Unlinked(t)
  /\ UNCHANGED <<match, delay, opt, time, signal, walk, mod>>

(***************************************************************************)
(* One turn of the loop.  The next timer was read before the callback, and *)
(* a timer that is linked again goes to the head of its spoke: the loop    *)
(* sees what was there when it started, once.  The callback is handed to   *)
(* the timer tasklet (WorkQueue).                                          *)
(***************************************************************************)
WalkTimer(t) ==
  /\ walk
  /\ t \in todo
  /\ todo' = todo \ {t}
  /\ \/ /\ match[t] # time
        /\ UNCHANGED <<state, match, wheel>>
     \/ /\ match[t] = time
        /\ opt[t] = "periodic"
        /\ Relink(t, delay[t], Unlinked(t))
        /\ UNCHANGED state
     \/ /\ match[t] = time
        /\ opt[t] # "periodic"
        /\ state' = [state EXCEPT ![t] = "COMPLETED"]
        /\ wheel' = Unlinked(t)
        /\ UNCHANGED match
  /\ UNCHANGED <<delay, opt, time, signal, walk, mod>>

WalkEnds ==
  /\ walk
  /\ todo = {}
  /\ walk' = FALSE
  /\ UNCHANGED <<timers, time, signal, todo, mod>>

TimerTask == WalkStarts \/ WalkEnds \/ \E t \in Timers : WalkTimer(t)

Next ==
  \/ \E t \in Timers :
       \/ DelTimer(t)
       \/ TimerFree(t)
       \/ \E d \in Delays, o \in {"once", "periodic"} : TimerSetup(t, d, o)
       \/ \E d \in Delays, th \in Threads : ModTests(th, t, d)
  \/ \E th \in Threads : ModWrites(th) \/ ModStarts(th)
  \/ Tick
  \/ TimerTask

(***************************************************************************)
(* The hardware ticks, and the timer task, although the least important,   *)
(* gets its turn between two of them: the other threads mostly wait.       *)
(***************************************************************************)
Fairness == WF_vars(Tick) /\ WF_vars(TimerTask)

Spec == Init /\ [][Next]_vars /\ Fairness

-----------------------------------------------------------------------------
TypeOK ==
  /\ state \in [Timers -> {"UNUSED", "STOPPED", "RUNNING", "COMPLETED"}]
  /\ match \in [Timers -> 0..(TimeMod - 1)]
  /\ delay \in [Timers -> Delays \cup {0}]
  /\ opt \in [Timers -> {"none", "once", "periodic"}]
  /\ wheel \in [0..(Spokes - 1) -> SUBSET Timers]
  /\ time \in 0..(TimeMod - 1)
  /\ signal \in 0..SigMax
  /\ walk \in BOOLEAN
  /\ todo \subseteq Timers
  /\ mod \in [Threads -> [tmr : Timers, expires : Delays,
                          at : {"tested", "written"}] \cup {NoMod}]

\* os_tmr.c:983 finds a timer's spoke from its match alone.  Whatever threads
\* do to a timer between the steps of mod_timer (timer.c:82), a timer is on
\* the spoke of its match exactly while it runs, and on no other: no freed
\* timer is left on the wheel, and none is linked twice.
WheelSound ==
  \A t \in Timers, s \in 0..(Spokes - 1) :
    t \in wheel[s] <=> state[t] = "RUNNING" /\ s = Spoke(match[t])

\* The clock never passes a timer's match: os_tmr.c:1042 compares for
\* equality, so a running timer whose moment has gone by would wait for the
\* clock to wrap.  A timer due now is still ahead of the timer task.
NeverMissed ==
  \A t \in Timers :
    state[t] = "RUNNING" /\ match[t] = time => walk /\ t \in todo

\* Ticks that are left until the clock shows m.
TicksTo(m) == IF m >= time THEN m - time ELSE m - time + TimeMod

left == [t \in Timers |->
           IF state[t] = "RUNNING" THEN TicksTo(match[t]) ELSE 0]
due == {t \in Timers : state[t] = "RUNNING" /\ match[t] = time}

\* A timer fires exactly the asked number of ticks after it was started last:
\* wheel, clock and timer task implement the timers of TimerService.
Service == INSTANCE TimerService

TimerServiceSpec == Service!Spec

\* A running timer's moment comes unless it is stopped or freed: since
\* mod_timer leaves a running timer alone (timer.c:79), callers that keep on
\* restarting it cannot put its expiry off for ever.
RunningEnds ==
  \A t \in Timers : state[t] = "RUNNING" ~> (state[t] # "RUNNING" \/ t \in due)
=============================================================================
