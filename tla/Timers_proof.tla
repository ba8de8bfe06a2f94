---------------------------- MODULE Timers_proof ----------------------------
(***************************************************************************)
(* Proofs about the timers, for any number of timers and threads, any size *)
(* of the wheel and of the clock, and any delays shorter than the clock.   *)
(*                                                                         *)
(* The invariants are inductive together with two facts: the timers the    *)
(* timer task has still to look at are on the spoke of this moment, and a  *)
(* timer that is set up has a delay of at least one tick, whichever thread *)
(* wrote it last.  The second is why no timer starts at its own moment.    *)
(***************************************************************************)
EXTENDS Timers, TLAPS

TodoOnSpoke == IF walk THEN todo \subseteq wheel[Spoke(time)] ELSE todo = {}

DelayGiven == \A t \in Timers : state[t] # "UNUSED" => delay[t] \in Delays

Inv == TypeOK /\ WheelSound /\ NeverMissed /\ TodoOnSpoke /\ DelayGiven

-----------------------------------------------------------------------------
\* The clock's arithmetic: a sum wraps into the clock's range, and a delay
\* shorter than the clock leads to another moment, that many ticks away.
LEMMA WrapType ==
  ASSUME TypeOK, NEW d \in 1..TimeMod
  PROVE  Wrap(time + d) \in 0..(TimeMod - 1)
BY TimersAssumption DEF TypeOK, Wrap

LEMMA WrapAway ==
  ASSUME TypeOK, NEW d \in Delays
  PROVE  /\ Wrap(time + d) # time
         /\ TicksTo(Wrap(time + d)) = d
BY TimersAssumption DEF TypeOK, Wrap, TicksTo

LEMMA SpokeType ==
  ASSUME NEW m \in Nat
  PROVE  Spoke(m) \in 0..(Spokes - 1)
BY TimersAssumption DEF Spoke

\* A step that changes neither the timers nor the wheel nor the clock.
LEMMA Quiet ==
  ASSUME Inv, TypeOK', UNCHANGED <<state, match, wheel, time, todo>>,
         walk' = walk \/ (walk /\ todo = {} /\ ~walk'),
         \A t \in Timers : state[t] # "UNUSED" => delay'[t] \in Delays
  PROVE  Inv'
<1>1. WheelSound'
  BY DEF Inv, WheelSound
<1>2. NeverMissed'
  BY DEF Inv, NeverMissed
<1>3. TodoOnSpoke'
  BY DEF Inv, TodoOnSpoke
<1>4. DelayGiven'
  BY DEF Inv, DelayGiven
<1>5. QED
  BY <1>1, <1>2, <1>3, <1>4 DEF Inv

\* Linking a timer that wheel w does not hold puts it on the spoke of its
\* new match, which is not this moment.
LEMMA RelinkSound ==
  ASSUME Inv, NEW t \in Timers, NEW d \in Delays,
         NEW w \in [0..(Spokes - 1) -> SUBSET Timers],
         \A u \in Timers, s \in 0..(Spokes - 1) :
           u \in w[s] <=> /\ u # t
                          /\ state[u] = "RUNNING" /\ s = Spoke(match[u]),
         Relink(t, d, w),
         state' = [state EXCEPT ![t] = "RUNNING"]
  PROVE  /\ match' \in [Timers -> 0..(TimeMod - 1)]
         /\ wheel' \in [0..(Spokes - 1) -> SUBSET Timers]
         /\ match'[t] = Wrap(time + d) /\ match'[t] # time
         /\ \A u \in Timers \ {t} : match'[u] = match[u]
         /\ WheelSound'
         /\ \A u \in Timers \ {t}, s \in 0..(Spokes - 1) :
              u \in wheel'[s] <=> u \in w[s]
<1> DEFINE m == Wrap(time + d)
<1>1. m \in 0..(TimeMod - 1) /\ m # time
  BY WrapType, WrapAway, TimersAssumption DEF Inv
<1>2. Spoke(m) \in 0..(Spokes - 1)
  BY <1>1, SpokeType, TimersAssumption
<1>3. match' = [match EXCEPT ![t] = m]
  BY DEF Relink
<1>4. wheel' = [w EXCEPT ![Spoke(m)] = @ \cup {t}]
  BY DEF Relink
<1>5. match \in [Timers -> 0..(TimeMod - 1)] /\ DOMAIN state = Timers
  BY DEF Inv, TypeOK
<1> HIDE DEF m
<1>6. match' \in [Timers -> 0..(TimeMod - 1)] /\ match'[t] = m
      /\ \A u \in Timers \ {t} : match'[u] = match[u]
  BY <1>1, <1>3, <1>5
<1>7. wheel' \in [0..(Spokes - 1) -> SUBSET Timers]
  BY <1>2, <1>4
<1>8. ASSUME NEW u \in Timers, NEW s \in 0..(Spokes - 1)
      PROVE  /\ u \in wheel'[s] <=> /\ state'[u] = "RUNNING"
                                      /\ s = Spoke(match'[u])
             /\ u # t => (u \in wheel'[s] <=> u \in w[s])
  <2>1. wheel'[s] = IF s = Spoke(m) THEN w[s] \cup {t} ELSE w[s]
    BY <1>2, <1>4
  <2>2. CASE u = t
    <3>1. state'[u] = "RUNNING"
      BY <1>5, <2>2
    <3>2. t \notin w[s]
      OBVIOUS
    <3>3. QED
      BY <1>6, <2>1, <2>2, <3>1, <3>2
  <2>3. CASE u # t
    <3>1. state'[u] = state[u] /\ match'[u] = match[u]
      BY <1>5, <1>6, <2>3
    <3>2. QED
      BY <2>1, <2>3, <3>1
  <2>4. QED
    BY <2>2, <2>3
<1>9. WheelSound'
  BY <1>8 DEF WheelSound
<1>10. QED
  BY <1>1, <1>6, <1>7, <1>8, <1>9 DEF m

\* What OSTmr_Unlink leaves on the wheel.
LEMMA UnlinkedSound ==
  ASSUME Inv, NEW t \in Timers, state[t] = "RUNNING"
  PROVE  /\ Unlinked(t) \in [0..(Spokes - 1) -> SUBSET Timers]
         /\ \A u \in Timers, s \in 0..(Spokes - 1) :
              u \in Unlinked(t)[s] <=> /\ u # t
                                       /\ state[u] = "RUNNING"
                                       /\ s = Spoke(match[u])
         /\ \A u \in Timers \ {t}, s \in 0..(Spokes - 1) :
              u \in Unlinked(t)[s] <=> u \in wheel[s]
<1>1. Spoke(match[t]) \in 0..(Spokes - 1)
  BY SpokeType, TimersAssumption DEF Inv, TypeOK
<1>2. wheel \in [0..(Spokes - 1) -> SUBSET Timers]
  BY DEF Inv, TypeOK
<1>3. ASSUME NEW s \in 0..(Spokes - 1)
      PROVE  Unlinked(t)[s] = IF s = Spoke(match[t]) THEN wheel[s] \ {t}
                              ELSE wheel[s]
  BY <1>1, <1>2 DEF Unlinked
<1>4. Unlinked(t) \in [0..(Spokes - 1) -> SUBSET Timers]
  BY <1>1, <1>2 DEF Unlinked
<1>5. QED
  BY <1>3, <1>4 DEF Inv, WheelSound

\* The same, for a timer that does not run: it is on no spoke.
LEMMA NotLinked ==
  ASSUME Inv, NEW t \in Timers, state[t] # "RUNNING"
  PROVE  \A u \in Timers, s \in 0..(Spokes - 1) :
           u \in wheel[s] <=> /\ u # t
                              /\ state[u] = "RUNNING" /\ s = Spoke(match[u])
BY DEF Inv, WheelSound

-----------------------------------------------------------------------------
LEMMA InitInv == Init => Inv
<1> SUFFICES ASSUME Init PROVE Inv
  OBVIOUS
<1> USE TimersAssumption
<1>1. TypeOK
  <2>1. 0 \in 0..(TimeMod - 1) /\ 0 \in 0..SigMax
    OBVIOUS
  <2>2. QED
    BY <2>1 DEF Init, TypeOK
<1>2. WheelSound /\ NeverMissed
  BY DEF Init, WheelSound, NeverMissed
<1>3. TodoOnSpoke /\ DelayGiven
  BY DEF Init, TodoOnSpoke, DelayGiven
<1>4. QED
  BY <1>1, <1>2, <1>3 DEF Inv

LEMMA SetupStep ==
  ASSUME Inv, NEW t \in Timers, NEW d \in Delays,
         NEW o \in {"once", "periodic"}, TimerSetup(t, d, o)
  PROVE  Inv'
<1>1. TypeOK'
  BY DEF Inv, TypeOK, TimerSetup
<1>2. \A u \in Timers : state'[u] = "RUNNING" <=> state[u] = "RUNNING"
  BY DEF Inv, TypeOK, TimerSetup
<1>3. WheelSound' /\ NeverMissed'
  BY <1>2 DEF Inv, WheelSound, NeverMissed, TimerSetup
<1>4. TodoOnSpoke' /\ DelayGiven'
  BY DEF Inv, TypeOK, TodoOnSpoke, DelayGiven, TimerSetup
<1>5. QED
  BY <1>1, <1>3, <1>4 DEF Inv

LEMMA ModTestsStep ==
  ASSUME Inv, NEW th \in Threads, NEW t \in Timers, NEW d \in Delays,
         ModTests(th, t, d)
  PROVE  Inv'
<1>1. TypeOK'
  BY DEF Inv, TypeOK, ModTests, timers
<1>2. QED
  BY <1>1, Quiet DEF Inv, DelayGiven, ModTests, timers

LEMMA ModWritesStep ==
  ASSUME Inv, NEW th \in Threads, ModWrites(th)
  PROVE  Inv'
<1>1. mod[th].tmr \in Timers /\ mod[th].expires \in Delays
  BY DEF Inv, TypeOK, ModWrites, NoMod
<1>2. TypeOK'
  <2>1. mod'[th] = [tmr |-> mod[th].tmr, expires |-> mod[th].expires,
                    at |-> "written"]
    BY SMTT(30) DEF Inv, TypeOK, ModWrites, NoMod
  <2>2. QED
    BY <1>1, <2>1 DEF Inv, TypeOK, ModWrites
<1>3. \A u \in Timers : state[u] # "UNUSED" => delay'[u] \in Delays
  BY <1>1 DEF Inv, TypeOK, DelayGiven, ModWrites
<1>4. QED
  BY <1>2, <1>3, Quiet DEF ModWrites

LEMMA ModStartsStep ==
  ASSUME Inv, NEW th \in Threads, ModStarts(th)
  PROVE  Inv'
<1> DEFINE t == mod[th].tmr
<1>1. t \in Timers
  BY DEF Inv, TypeOK, ModStarts, NoMod
<1>2. ~walk /\ UNCHANGED <<delay, opt, time, signal, walk, todo>>
      /\ mod' = [mod EXCEPT ![th] = NoMod]
  BY DEF ModStarts
<1>3. CASE state[t] = "UNUSED"
  <2>1. UNCHANGED <<state, match, wheel>>
    BY <1>3 DEF ModStarts
  <2>2. TypeOK'
    BY <1>2, <2>1 DEF Inv, TypeOK
  <2>3. QED
    BY <1>2, <2>1, <2>2, Quiet DEF Inv, DelayGiven
<1>4. CASE state[t] # "UNUSED"
  <2> DEFINE w == IF state[t] = "RUNNING" THEN Unlinked(t) ELSE wheel
  <2>1. delay[t] \in Delays
    BY <1>1, <1>4 DEF Inv, DelayGiven
  <2>2. Relink(t, delay[t], w)
    BY <1>4 DEF ModStarts
  <2>3. state' = [state EXCEPT ![t] = "RUNNING"]
    BY <1>1, <1>4 DEF ModStarts, Inv, TypeOK
  <2>4. /\ w \in [0..(Spokes - 1) -> SUBSET Timers]
        /\ \A u \in Timers, s \in 0..(Spokes - 1) :
             u \in w[s] <=> /\ u # t
                            /\ state[u] = "RUNNING" /\ s = Spoke(match[u])
    BY <1>1, UnlinkedSound, NotLinked DEF Inv, TypeOK
  <2> HIDE DEF t, w
  <2> DEFINE d == delay[t]
  <2>10. d \in Delays /\ Relink(t, d, w)
    BY <2>1, <2>2
  <2> HIDE DEF d
  <2>5. /\ match' \in [Timers -> 0..(TimeMod - 1)]
        /\ wheel' \in [0..(Spokes - 1) -> SUBSET Timers]
        /\ match'[t] = Wrap(time + d) /\ match'[t] # time
        /\ \A u \in Timers \ {t} : match'[u] = match[u]
        /\ WheelSound'
        /\ \A u \in Timers \ {t}, s \in 0..(Spokes - 1) :
             u \in wheel'[s] <=> u \in w[s]
    BY <1>1, <2>10, <2>3, <2>4, RelinkSound, ZenonT(30)
  <2>6. TypeOK'
    BY <1>1, <1>2, <2>3, <2>5 DEF Inv, TypeOK
  <2>7. NeverMissed'
    BY <1>1, <1>2, <2>3, <2>5 DEF Inv, TypeOK, NeverMissed
  <2>8. TodoOnSpoke' /\ DelayGiven'
    BY <1>1, <1>2, <2>1, <2>3 DEF Inv, TypeOK, TodoOnSpoke, DelayGiven
  <2>9. QED
    BY <2>5, <2>6, <2>7, <2>8 DEF Inv
<1>5. QED
  BY <1>3, <1>4

\* A running timer is unlinked and is in another state afterwards.
LEMMA LeaveWheel ==
  ASSUME Inv, NEW t \in Timers, state[t] = "RUNNING",
         NEW q \in {"UNUSED", "STOPPED", "COMPLETED"},
         state' = [state EXCEPT ![t] = q], wheel' = Unlinked(t),
         \A u \in Timers \ {t} : match'[u] = match[u]
  PROVE  /\ wheel' \in [0..(Spokes - 1) -> SUBSET Timers]
         /\ WheelSound'
<1>1. \A u \in Timers : state'[u] = IF u = t THEN q ELSE state[u]
  BY DEF Inv, TypeOK
<1>2. \A u \in Timers, s \in 0..(Spokes - 1) :
        u \in wheel'[s] <=> /\ u # t
                            /\ state[u] = "RUNNING" /\ s = Spoke(match[u])
  BY UnlinkedSound
<1>3. wheel' \in [0..(Spokes - 1) -> SUBSET Timers]
  BY UnlinkedSound
<1>4. QED
  BY <1>1, <1>2, <1>3 DEF WheelSound

LEMMA DelStep ==
  ASSUME Inv, NEW t \in Timers, DelTimer(t)
  PROVE  Inv'
<1>1. WheelSound' /\ wheel' \in [0..(Spokes - 1) -> SUBSET Timers]
  BY LeaveWheel DEF DelTimer
<1>2. TypeOK'
  BY <1>1 DEF Inv, TypeOK, DelTimer
<1>3. NeverMissed'
  BY DEF Inv, TypeOK, NeverMissed, DelTimer
<1>4. TodoOnSpoke' /\ DelayGiven'
  BY DEF Inv, TypeOK, TodoOnSpoke, DelayGiven, DelTimer
<1>5. QED
  BY <1>1, <1>2, <1>3, <1>4 DEF Inv

LEMMA FreeStep ==
  ASSUME Inv, NEW t \in Timers, TimerFree(t)
  PROVE  Inv'
<1>1. /\ \A u \in Timers : state'[u] = IF u = t THEN "UNUSED" ELSE state[u]
      /\ \A u \in Timers : match'[u] = IF u = t THEN 0 ELSE match[u]
  BY DEF Inv, TypeOK, TimerFree
<1>2. WheelSound' /\ wheel' \in [0..(Spokes - 1) -> SUBSET Timers]
  <2>1. CASE state[t] = "RUNNING"
    BY <1>1, <2>1, LeaveWheel DEF TimerFree
  <2>2. CASE state[t] # "RUNNING"
    BY <1>1, <2>2 DEF TimerFree, Inv, TypeOK, WheelSound
  <2>3. QED
    BY <2>1, <2>2
<1>3. TypeOK'
  BY <1>2, TimersAssumption DEF Inv, TypeOK, TimerFree
<1>4. NeverMissed'
  BY <1>1 DEF Inv, NeverMissed, TimerFree
<1>5. TodoOnSpoke' /\ DelayGiven'
  BY <1>1 DEF Inv, TypeOK, TodoOnSpoke, DelayGiven, TimerFree
<1>6. QED
  BY <1>2, <1>3, <1>4, <1>5 DEF Inv

LEMMA TickStep ==
  ASSUME Inv, Tick
  PROVE  Inv'
<1>1. TypeOK'
  BY TimersAssumption DEF Inv, TypeOK, Tick, timers
<1>2. QED
  BY <1>1, Quiet DEF Inv, DelayGiven, Tick, timers

\* What is due at the new moment is on the spoke the timer task goes to.
LEMMA WalkStartsStep ==
  ASSUME Inv, WalkStarts
  PROVE  Inv'
<1>1. time' \in 0..(TimeMod - 1)
  BY WrapType, TimersAssumption DEF Inv, WalkStarts
<1>2. Spoke(time') \in 0..(Spokes - 1)
  BY <1>1, SpokeType, TimersAssumption
<1>3. TypeOK'
  <2>1. signal' \in 0..SigMax
    BY TimersAssumption DEF Inv, TypeOK, WalkStarts
  <2>2. todo' \subseteq Timers
    BY <1>2 DEF Inv, TypeOK, WalkStarts
  <2>3. QED
    BY <1>1, <2>1, <2>2 DEF Inv, TypeOK, WalkStarts, timers
<1>4. WheelSound'
  BY DEF Inv, WheelSound, WalkStarts, timers
<1>5. NeverMissed'
  BY <1>2 DEF Inv, WheelSound, NeverMissed, WalkStarts, timers
<1>6. TodoOnSpoke' /\ DelayGiven'
  BY DEF Inv, TodoOnSpoke, DelayGiven, WalkStarts, timers
<1>7. QED
  BY <1>3, <1>4, <1>5, <1>6 DEF Inv

LEMMA WalkEndsStep ==
  ASSUME Inv, WalkEnds
  PROVE  Inv'
<1>1. TypeOK'
  BY DEF Inv, TypeOK, WalkEnds, timers
<1>2. QED
  BY <1>1, Quiet DEF Inv, DelayGiven, WalkEnds, timers

\* The timer the walk has come to runs.
LEMMA TodoRuns ==
  ASSUME Inv, NEW t \in Timers, walk, t \in todo
  PROVE  state[t] = "RUNNING" /\ Spoke(match[t]) = Spoke(time)
<1>1. Spoke(time) \in 0..(Spokes - 1)
  BY SpokeType, TimersAssumption DEF Inv, TypeOK
<1>2. QED
  BY <1>1 DEF Inv, TodoOnSpoke, WheelSound

LEMMA WalkTimerStep ==
  ASSUME Inv, NEW t \in Timers, WalkTimer(t)
  PROVE  Inv'
<1>1. /\ walk /\ t \in todo /\ todo' = todo \ {t}
      /\ UNCHANGED <<delay, opt, time, signal, walk, mod>>
  BY DEF WalkTimer
<1>2. state[t] = "RUNNING" /\ delay[t] \in Delays
  BY <1>1, TodoRuns DEF Inv, DelayGiven
<1>3. CASE match[t] # time /\ UNCHANGED <<state, match, wheel>>
  <2>1. TypeOK'
    BY <1>1, <1>3 DEF Inv, TypeOK
  <2>2. WheelSound'
    BY <1>3 DEF Inv, WheelSound
  <2>3. NeverMissed'
    BY <1>1, <1>3 DEF Inv, NeverMissed
  <2>4. TodoOnSpoke' /\ DelayGiven'
    BY <1>1, <1>3 DEF Inv, TodoOnSpoke, DelayGiven
  <2>5. QED
    BY <2>1, <2>2, <2>3, <2>4 DEF Inv
<1>4. CASE /\ match[t] = time
           /\ Relink(t, delay[t], Unlinked(t)) /\ UNCHANGED state
  <2> DEFINE d == delay[t]
             w == Unlinked(t)
  <2>1. d \in Delays /\ Relink(t, d, w)
    BY <1>2, <1>4
  <2>2. state' = [state EXCEPT ![t] = "RUNNING"]
    BY <1>2, <1>4 DEF Inv, TypeOK
  <2>3. /\ w \in [0..(Spokes - 1) -> SUBSET Timers]
        /\ \A u \in Timers, s \in 0..(Spokes - 1) :
             u \in w[s] <=> /\ u # t
                            /\ state[u] = "RUNNING" /\ s = Spoke(match[u])
        /\ \A u \in Timers \ {t}, s \in 0..(Spokes - 1) :
             u \in w[s] <=> u \in wheel[s]
    BY <1>2, UnlinkedSound
  <2> HIDE DEF d, w
  <2>4. /\ match' \in [Timers -> 0..(TimeMod - 1)]
        /\ wheel' \in [0..(Spokes - 1) -> SUBSET Timers]
        /\ match'[t] = Wrap(time + d) /\ match'[t] # time
        /\ \A u \in Timers \ {t} : match'[u] = match[u]
        /\ WheelSound'
        /\ \A u \in Timers \ {t}, s \in 0..(Spokes - 1) :
             u \in wheel'[s] <=> u \in w[s]
    BY <2>1, <2>2, <2>3, RelinkSound, ZenonT(30)
  <2>5. TypeOK'
    BY <1>1, <1>4, <2>4 DEF Inv, TypeOK
  <2>6. NeverMissed'
    BY <1>1, <1>4, <2>4 DEF Inv, TypeOK, NeverMissed
  <2>7. TodoOnSpoke'
    <3>1. Spoke(time) \in 0..(Spokes - 1)
      BY SpokeType, TimersAssumption DEF Inv, TypeOK
    <3>2. QED
      BY <1>1, <2>3, <2>4, <3>1 DEF Inv, TypeOK, TodoOnSpoke
  <2>8. DelayGiven'
    BY <1>1, <1>4 DEF Inv, DelayGiven
  <2>9. QED
    BY <2>4, <2>5, <2>6, <2>7, <2>8 DEF Inv
<1>5. CASE /\ match[t] = time
           /\ state' = [state EXCEPT ![t] = "COMPLETED"]
           /\ wheel' = Unlinked(t)
           /\ UNCHANGED match
  <2>1. WheelSound' /\ wheel' \in [0..(Spokes - 1) -> SUBSET Timers]
    BY <1>2, <1>5, LeaveWheel
  <2>2. TypeOK'
    BY <1>1, <1>5, <2>1 DEF Inv, TypeOK
  <2>3. NeverMissed'
    <3>1. \A u \in Timers :
            state'[u] = "RUNNING" => u # t /\ state[u] = "RUNNING"
      BY <1>5 DEF Inv, TypeOK
    <3>2. match' = match /\ time' = time /\ walk' /\ todo' = todo \ {t}
      BY <1>1, <1>5
    <3>3. QED
      BY <3>1, <3>2 DEF Inv, NeverMissed
  <2>4. TodoOnSpoke'
    <3>1. Spoke(time) \in 0..(Spokes - 1)
      BY SpokeType, TimersAssumption DEF Inv, TypeOK
    <3>2. \A u \in Timers \ {t} :
            u \in wheel'[Spoke(time)] <=> u \in wheel[Spoke(time)]
      BY <1>2, <1>5, <3>1, UnlinkedSound
    <3>3. todo \subseteq Timers /\ todo \subseteq wheel[Spoke(time)]
      BY <1>1 DEF Inv, TypeOK, TodoOnSpoke
    <3>4. todo' \subseteq wheel'[Spoke(time)] /\ time' = time /\ walk'
      BY <1>1, <3>2, <3>3
    <3>5. QED
      BY <3>4 DEF TodoOnSpoke
  <2>5. DelayGiven'
    <3>1. \A u \in Timers : state'[u] # "UNUSED" => state[u] # "UNUSED"
      BY <1>2, <1>5 DEF Inv, TypeOK
    <3>2. QED
      BY <1>1, <3>1 DEF Inv, DelayGiven
  <2>6. QED
    BY <2>1, <2>2, <2>3, <2>4, <2>5 DEF Inv
<1>6. QED
  BY <1>3, <1>4, <1>5 DEF WalkTimer

LEMMA StepInv == Inv /\ [Next]_vars => Inv'
<1> SUFFICES ASSUME Inv, [Next]_vars PROVE Inv'
  OBVIOUS
<1>1. CASE UNCHANGED vars
  BY <1>1 DEF vars, timers, Inv, TypeOK, WheelSound, NeverMissed,
              TodoOnSpoke, DelayGiven
<1>2. ASSUME NEW t \in Timers, DelTimer(t) PROVE Inv'
  BY <1>2, DelStep
<1>3. ASSUME NEW t \in Timers, TimerFree(t) PROVE Inv'
  BY <1>3, FreeStep
<1>4. ASSUME NEW t \in Timers, NEW d \in Delays,
             NEW o \in {"once", "periodic"}, TimerSetup(t, d, o)
      PROVE  Inv'
  BY <1>4, SetupStep
<1>5. ASSUME NEW t \in Timers, NEW d \in Delays, NEW th \in Threads,
             ModTests(th, t, d)
      PROVE  Inv'
  BY <1>5, ModTestsStep
<1>6. ASSUME NEW th \in Threads, ModWrites(th) PROVE Inv'
  BY <1>6, ModWritesStep
<1>7. ASSUME NEW th \in Threads, ModStarts(th) PROVE Inv'
  BY <1>7, ModStartsStep
<1>8. ASSUME NEW t \in Timers, WalkTimer(t) PROVE Inv'
  BY <1>8, WalkTimerStep
<1>9. QED
  BY <1>1, <1>2, <1>3, <1>4, <1>5, <1>6, <1>7, <1>8, TickStep,
     WalkStartsStep, WalkEndsStep DEF Next, TimerTask

\* The inductive invariant holds in every state.
THEOREM Invariance == Spec => []Inv
BY InitInv, StepInv, PTL DEF Spec

\* Every variable keeps its type: the pool, the wheel, the clock.
THEOREM TypeCorrect == Spec => []TypeOK
<1>1. Inv => TypeOK
  BY DEF Inv
<1>2. QED
  BY <1>1, Invariance, PTL

\* However the steps of mod_timer fall between those of other threads, a
\* timer is on the spoke of its match exactly while it runs.
THEOREM WheelConsistent == Spec => []WheelSound
<1>1. Inv => WheelSound
  BY DEF Inv
<1>2. QED
  BY <1>1, Invariance, PTL

\* The clock passes no running timer by.
THEOREM NothingMissed == Spec => []NeverMissed
<1>1. Inv => NeverMissed
  BY DEF Inv
<1>2. QED
  BY <1>1, Invariance, PTL

-----------------------------------------------------------------------------
\* The refinement.  Outside the walk nothing is due.
LEMMA DueInWalk ==
  ASSUME Inv, ~walk
  PROVE  due = {}
BY DEF Inv, NeverMissed, due

LEMMA LeftIs ==
  ASSUME NEW t \in Timers
  PROVE  left[t] = IF state[t] = "RUNNING" THEN TicksTo(match[t]) ELSE 0
BY DEF left

\* A timer that runs has a moment ahead of it.
LEMMA LeftAhead ==
  ASSUME Inv, NEW t \in Timers, state[t] = "RUNNING"
  PROVE  /\ left[t] \in 0..(TimeMod - 1)
         /\ left[t] = 0 <=> match[t] = time
<1>1. match[t] \in 0..(TimeMod - 1) /\ time \in 0..(TimeMod - 1)
  BY DEF Inv, TypeOK
<1>2. QED
  BY <1>1, LeftIs, TimersAssumption DEF TicksTo

LEMMA AbstractInit == Init => Service!Init
BY DEF Init, Service!Init, left, due

\* Steps that leave the timers and the clock alone are not seen.
LEMMA Unseen ==
  ASSUME UNCHANGED <<state, match, time>>
  PROVE  UNCHANGED <<left, due>>
BY DEF left, due, TicksTo

\* Starting a timer, in mod_timer.
LEMMA StartSeen ==
  ASSUME Inv, NEW th \in Threads, ModStarts(th)
  PROVE  [Service!Next]_(Service!vars)
<1> DEFINE t == mod[th].tmr
           d == delay[t]
<1>1. t \in Timers
  BY DEF Inv, TypeOK, ModStarts, NoMod
<1>2. ~walk /\ time' = time
  BY DEF ModStarts
<1>3. CASE state[t] = "UNUSED"
  <2>1. UNCHANGED <<state, match, time>>
    BY <1>2, <1>3 DEF ModStarts
  <2>2. QED
    BY <2>1, Unseen DEF Service!vars
<1>4. CASE state[t] # "UNUSED"
  <2>1. d \in Delays
    BY <1>1, <1>4 DEF Inv, DelayGiven
  <2>2. match' = [match EXCEPT ![t] = Wrap(time + d)]
    BY <1>4 DEF ModStarts, Relink
  <2>3. state' = [state EXCEPT ![t] = "RUNNING"]
    BY <1>1, <1>4 DEF ModStarts, Inv, TypeOK
  <2> HIDE DEF t, d
  <2>4. TicksTo(Wrap(time + d)) = d /\ Wrap(time + d) # time
    BY <2>1, WrapAway DEF Inv
  <2>5. \A m : TicksTo(m)' = TicksTo(m)
    BY <1>2 DEF TicksTo
  <2>6. \A u \in Timers :
          /\ state'[u] = IF u = t THEN "RUNNING" ELSE state[u]
          /\ match'[u] = IF u = t THEN Wrap(time + d) ELSE match[u]
    BY <1>1, <2>2, <2>3 DEF Inv, TypeOK
  <2>7. left' = [left EXCEPT ![t] = d]
    BY <1>1, <2>4, <2>6, <1>2 DEF left, TicksTo
  <2>8. due = {}
    BY <1>2, DueInWalk
  <2>9. due' = {}
    BY <1>2, <2>4, <2>6, <2>8 DEF due
  <2>10. Service!Start(t, d)
    BY <2>7, <2>8, <2>9 DEF Service!Start
  <2>11. QED
    BY <1>1, <2>1, <2>10 DEF Service!Next
<1>5. QED
  BY <1>3, <1>4

\* Stopping or freeing a timer that runs; freeing one that does not.
LEMMA StopSeen ==
  ASSUME Inv, NEW t \in Timers, DelTimer(t) \/ TimerFree(t)
  PROVE  [Service!Next]_(Service!vars)
<1>1. ~walk /\ time' = time
  BY DEF DelTimer, TimerFree
<1>2. /\ \A u \in Timers \ {t} : state'[u] = state[u] /\ match'[u] = match[u]
      /\ state'[t] # "RUNNING"
  BY DEF Inv, TypeOK, DelTimer, TimerFree
<1>3. left' = [left EXCEPT ![t] = 0]
  BY <1>1, <1>2 DEF left, TicksTo
<1>4. due = {} /\ due' = {}
  BY <1>1, <1>2, DueInWalk DEF due
<1>5. Service!Stop(t)
  BY <1>3, <1>4 DEF Service!Stop
<1>6. QED
  BY <1>5 DEF Service!Next

\* The clock advances: every running timer is one tick nearer.
LEMMA ClockSeen ==
  ASSUME Inv, WalkStarts
  PROVE  [Service!Next]_(Service!vars)
<1>1. due = {}
  BY DueInWalk DEF WalkStarts
<1>2. UNCHANGED <<state, match>> /\ time' = Wrap(time + 1)
  BY DEF WalkStarts, timers
<1>3. ASSUME NEW t \in Timers
      PROVE  /\ left'[t] = IF left[t] = 0 THEN 0 ELSE left[t] - 1
             /\ t \in due' <=> left[t] = 1
  <2>1. CASE state[t] # "RUNNING"
    BY <1>2, <2>1, LeftIs DEF left, due
  <2>2. CASE state[t] = "RUNNING"
    <3>1. match[t] \in 0..(TimeMod - 1) /\ time \in 0..(TimeMod - 1)
      BY DEF Inv, TypeOK
    <3>2. match[t] # time
      BY <1>1, <2>2 DEF due
    <3>3. left[t] = TicksTo(match[t]) /\ left'[t] = TicksTo(match[t])'
      BY <1>2, <2>2 DEF left
    <3>4. t \in due' <=> match[t] = time'
      BY <1>2, <2>2 DEF due
    <3>5. QED
      BY <1>2, <3>1, <3>2, <3>3, <3>4, TimersAssumption DEF TicksTo, Wrap
  <2>3. QED
    BY <2>1, <2>2
<1>4. left' = [t \in Timers |-> IF left[t] = 0 THEN 0 ELSE left[t] - 1]
  BY <1>3 DEF left
<1>5. due' = {t \in Timers : left[t] = 1}
  BY <1>3 DEF due
<1>6. QED
  BY <1>1, <1>4, <1>5 DEF Service!Next, Service!CountTick

\* The timer task comes to a timer.
LEMMA WalkSeen ==
  ASSUME Inv, NEW t \in Timers, WalkTimer(t)
  PROVE  [Service!Next]_(Service!vars)
<1> DEFINE d == delay[t]
<1>1. state[t] = "RUNNING" /\ d \in Delays
  BY TodoRuns DEF WalkTimer, Inv, DelayGiven
<1>2. time' = time
  BY DEF WalkTimer
<1>3. CASE match[t] # time
  BY <1>2, <1>3, Unseen DEF WalkTimer, Service!vars
<1>4. CASE match[t] = time
  <2>1. t \in due /\ left[t] = 0
    BY <1>1, <1>4, LeftAhead DEF due
  <2>2. CASE Relink(t, d, Unlinked(t)) /\ UNCHANGED state
    <3>1. TicksTo(Wrap(time + d)) = d /\ Wrap(time + d) # time
      BY <1>1, WrapAway DEF Inv
    <3>2. \A u \in Timers :
            match'[u] = IF u = t THEN Wrap(time + d) ELSE match[u]
      BY <2>2 DEF Inv, TypeOK, Relink
    <3> HIDE DEF d
    <3>3. left' = [left EXCEPT ![t] = d]
      BY <1>1, <1>2, <2>2, <3>1, <3>2 DEF left, TicksTo
    <3>4. due' = due \ {t}
      BY <1>1, <1>2, <2>2, <3>1, <3>2 DEF due
    <3>5. QED
      BY <1>1, <2>1, <3>3, <3>4 DEF Service!Next, Service!Fire
  <2>3. CASE state' = [state EXCEPT ![t] = "COMPLETED"] /\ UNCHANGED match
    <3>1. \A u \in Timers :
            state'[u] = IF u = t THEN "COMPLETED" ELSE state[u]
      BY <2>3 DEF Inv, TypeOK
    <3>2. left' = left
      BY <1>2, <2>1, <2>3, <3>1 DEF left, TicksTo
    <3>3. due' = due \ {t}
      BY <1>2, <2>3, <3>1 DEF due
    <3>4. QED
      BY <2>1, <3>2, <3>3 DEF Service!Next, Service!Fire
  <2>4. QED
    BY <1>4, <2>2, <2>3 DEF WalkTimer
<1>5. QED
  BY <1>3, <1>4

\* Setting a timer up: it does not run yet.
LEMMA SetupSeen ==
  ASSUME Inv, NEW t \in Timers, NEW d, NEW o, TimerSetup(t, d, o)
  PROVE  UNCHANGED <<left, due>>
<1>1. /\ \A u \in Timers : state'[u] = "RUNNING" <=> state[u] = "RUNNING"
      /\ UNCHANGED <<match, time>>
  BY DEF Inv, TypeOK, TimerSetup
<1>2. QED
  BY <1>1 DEF left, due, TicksTo

LEMMA AbstractStep == Inv /\ [Next]_vars => [Service!Next]_(Service!vars)
<1> SUFFICES ASSUME Inv, [Next]_vars PROVE [Service!Next]_(Service!vars)
  OBVIOUS
<1>1. CASE UNCHANGED vars
  BY <1>1, Unseen DEF vars, timers, Service!vars
<1>2. CASE \E t \in Timers : DelTimer(t) \/ TimerFree(t)
  BY <1>2, StopSeen
<1>3. CASE \E t \in Timers, d \in Delays, o \in {"once", "periodic"} :
             TimerSetup(t, d, o)
  BY <1>3, SetupSeen DEF Service!vars
<1>4. CASE \E th \in Threads :
             \/ ModWrites(th)
             \/ \E t \in Timers, d \in Delays : ModTests(th, t, d)
  BY <1>4, Unseen DEF ModWrites, ModTests, timers, Service!vars
<1>5. CASE \E th \in Threads : ModStarts(th)
  BY <1>5, StartSeen
<1>6. CASE Tick \/ WalkEnds
  BY <1>6, Unseen DEF Tick, WalkEnds, timers, Service!vars
<1>7. CASE WalkStarts
  BY <1>7, ClockSeen
<1>8. CASE \E t \in Timers : WalkTimer(t)
  BY <1>8, WalkSeen
<1>9. QED
  BY <1>1, <1>2, <1>3, <1>4, <1>5, <1>6, <1>7, <1>8 DEF Next, TimerTask

\* The wheel, the wrapping clock and the timer task implement timers that
\* fire exactly the asked number of ticks after they were started last.
THEOREM ImplementsTimerService == Spec => TimerServiceSpec
BY AbstractInit, AbstractStep, Invariance, PTL
   DEF Spec, TimerServiceSpec, Service!Spec
=============================================================================
