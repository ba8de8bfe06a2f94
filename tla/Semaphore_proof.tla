-------------------------- MODULE Semaphore_proof ---------------------------
(***************************************************************************)
(* Proofs about the semaphores of uC/OS-II, for any finite set of tasks,   *)
(* any initial count and any timeouts.                                     *)
(*                                                                         *)
(* The invariants are inductive together with Shape, which ties the        *)
(* scheduler to the wait list: the task that runs is ready, a task whose   *)
(* timeout runs is not, and a task inside OSSemPend has no token of its    *)
(* own.  TokensConserved comes last: it needs all the others.              *)
(***************************************************************************)
EXTENDS Semaphore, FiniteSetTheorems, WellFoundedInduction, TLAPS

CurShape ==
  /\ cur \in rdy \cup {Idle}
  /\ lock = 1 => cur \in Tasks /\ pc[cur] = "run"

WaitShape ==
  /\ \A t \in Tasks : dly[t] > 0 => t \notin rdy
  /\ \A t \in Tasks : pc[t] = "pend" /\ (dly[t] > 0 \/ pend[t] = "to")
                        => t \in grp
  /\ \A t \in Tasks : pc[t] # "run" => t \notin held

Base == TypeOK /\ TokenOrWaiter /\ NoLostWaiter /\ CurShape /\ WaitShape

Inv == Base /\ TokensConserved

-----------------------------------------------------------------------------
LEMMA HighestIn ==
  ASSUME NEW S \in SUBSET Nat, S # {}
  PROVE  Highest(S) \in S /\ \A u \in S : Highest(S) <= u
<1> DEFINE R == {ss \in Nat \X Nat : ss[1] < ss[2]}
<1>1. R = OpToRel(<, Nat)
  BY Zenon DEF OpToRel
<1>2. IsWellFoundedOn(R, Nat)
  BY <1>1, NatLessThanWellFounded
<1>3. PICK t \in S : \A u \in S : ~ (<<u, t>> \in R)
  <2> HIDE DEF R
  <2> QED
    BY <1>2, WFMin
<1>4. ASSUME NEW u \in S PROVE t <= u
  <2>1. u \in Nat /\ t \in Nat
    OBVIOUS
  <2>2. <<u, t>> \in R <=> u < t
    BY <2>1
  <2>3. QED
    BY <1>3, <2>1, <2>2
<1>5. QED
  BY <1>4 DEF Highest

\* After a step the task that runs is ready.
LEMMA CurStep ==
  ASSUME CurShape, cur \in Tasks \cup {Idle}, Dispatch,
         rdy' \subseteq Tasks, lock' \in {0, 1},
         lock' = 1 => cur \in rdy' /\ pc'[cur] = "run"
  PROVE  CurShape' /\ cur' \in Tasks \cup {Idle}
<1> USE SemaphoreAssumption
<1>1. CASE lock' = 0
  <2>1. rdy' \cup {Idle} \in SUBSET Nat /\ rdy' \cup {Idle} # {}
    OBVIOUS
  <2>2. Highest(rdy' \cup {Idle}) \in rdy' \cup {Idle}
    BY <2>1, HighestIn
  <2>3. cur' \in rdy' \cup {Idle}
    BY <1>1, <2>2 DEF Dispatch
  <2>4. QED
    BY <1>1, <2>3 DEF CurShape
<1>2. CASE lock' = 1
  BY <1>2 DEF Dispatch, CurShape
<1>3. QED
  BY <1>1, <1>2

LEMMA IdleNoTask == Idle \notin Tasks
BY SemaphoreAssumption

LEMMA BaseInit == Init => Base
<1> SUFFICES ASSUME Init PROVE Base
  OBVIOUS
<1> USE SemaphoreAssumption
<1>1. Highest(Tasks \cup {Idle}) \in Tasks \cup {Idle}
  BY HighestIn
<1>2. QED
  BY <1>1 DEF Init, Base, TypeOK, TokenOrWaiter, NoLostWaiter, CurShape,
              WaitShape

-----------------------------------------------------------------------------
\* One lemma for each action that moves a task.

LEMMA PendTestsStep ==
  ASSUME Base, NEW t \in Tasks, NEW timeout \in Timeouts,
         PendTests(t, timeout), Dispatch
  PROVE  Base'
<1> USE SemaphoreAssumption DEF Base, PendTests, Runs
<1>1. CurShape' /\ cur' \in Tasks \cup {Idle}
  BY CurStep DEF TypeOK
<1>2. TypeOK'
  BY <1>1 DEF TypeOK
<1>3. QED
  BY <1>1, <1>2 DEF TypeOK, TokenOrWaiter, NoLostWaiter, WaitShape

LEMMA PendTakesStep ==
  ASSUME Base, NEW t \in Tasks, PendTakes(t), Dispatch
  PROVE  Base'
<1> USE SemaphoreAssumption DEF Base, PendTakes
<1>1. CurShape' /\ cur' \in Tasks \cup {Idle}
  BY CurStep DEF TypeOK, CurShape
<1>2. TypeOK'
  BY <1>1 DEF TypeOK
<1>3. QED
  BY <1>1, <1>2 DEF TypeOK, TokenOrWaiter, NoLostWaiter, WaitShape

LEMMA PendWaitsStep ==
  ASSUME Base, NEW t \in Tasks, PendWaits(t), Dispatch
  PROVE  Base'
<1> USE SemaphoreAssumption DEF Base, PendWaits
<1>1. CurShape' /\ cur' \in Tasks \cup {Idle}
  BY CurStep DEF TypeOK, CurShape
<1>2. TypeOK'
  BY <1>1 DEF TypeOK
<1>3. t \notin rdy' /\ t \in grp' /\ pc'[t] = "pend" /\ dly'[t] = tmo'[t]
  BY DEF TypeOK
<1>4. \A u \in Tasks \ {t} : /\ u \in rdy' <=> u \in rdy
                             /\ u \in grp' <=> u \in grp
                             /\ dly'[u] = dly[u] /\ pend'[u] = pend[u]
                             /\ pc'[u] = pc[u] /\ tmo'[u] = tmo[u]
  BY DEF TypeOK
<1>5. NoLostWaiter'
  BY <1>3, <1>4 DEF TypeOK, NoLostWaiter
<1>6. QED
  BY <1>1, <1>2, <1>3, <1>4, <1>5 DEF TypeOK, TokenOrWaiter, WaitShape

LEMMA PendReturnsStep ==
  ASSUME Base, NEW t \in Tasks, PendReturns(t), Dispatch
  PROVE  Base'
<1> USE SemaphoreAssumption DEF Base, PendReturns
<1>1. CurShape' /\ cur' \in Tasks \cup {Idle}
  BY CurStep DEF TypeOK, CurShape
<1>2. TypeOK'
  BY <1>1 DEF TypeOK
<1>3. t \in rdy
  BY IdleNoTask DEF CurShape
<1>4. t \notin grp'
  BY <1>3 DEF NoLostWaiter
<1>5. QED
  BY <1>1, <1>2, <1>4 DEF TypeOK, TokenOrWaiter, NoLostWaiter, WaitShape

LEMMA AcceptStep ==
  ASSUME Base, NEW t \in Tasks, Accept(t), Dispatch
  PROVE  Base'
<1> USE SemaphoreAssumption DEF Base, Accept, Runs, tasks
<1>1. CurShape' /\ cur' \in Tasks \cup {Idle}
  BY CurStep, IdleNoTask DEF TypeOK, CurShape
<1>2. QED
  BY <1>1 DEF TypeOK, TokenOrWaiter, NoLostWaiter, WaitShape

\* Readied tasks are ready, wait no more, and have no timeout.
LEMMA RdyStep ==
  ASSUME Base, NEW S \in SUBSET grp, NEW status \in {"ok", "abort"},
         EventTasksRdy(S, status), UNCHANGED <<pc, tmo>>
  PROVE  /\ rdy' \subseteq Tasks /\ grp' \subseteq grp /\ rdy \subseteq rdy'
         /\ dly' \in [Tasks -> Nat]
         /\ pend' \in [Tasks -> {"ok", "to", "abort"}]
         /\ NoLostWaiter'
         /\ \A t \in Tasks : dly'[t] > 0 => t \notin rdy'
         /\ \A t \in Tasks : pc'[t] = "pend" /\ (dly'[t] > 0 \/ pend'[t] = "to")
                               => t \in grp'
<1> USE DEF Base, EventTasksRdy
<1>1. /\ rdy' \subseteq Tasks /\ grp' \subseteq grp /\ rdy \subseteq rdy'
      /\ dly' \in [Tasks -> Nat]
      /\ pend' \in [Tasks -> {"ok", "to", "abort"}]
  BY DEF TypeOK
<1>2. \A t \in S : t \in rdy' /\ t \notin grp' /\ dly'[t] = 0
                   /\ pend'[t] = status
  BY DEF TypeOK
<1>3. \A t \in Tasks \ S : /\ t \in rdy' <=> t \in rdy
                           /\ t \in grp' <=> t \in grp
                           /\ dly'[t] = dly[t] /\ pend'[t] = pend[t]
  BY DEF TypeOK
<1>4. \A t \in Tasks : pc'[t] = pc[t] /\ tmo'[t] = tmo[t]
  OBVIOUS
<1>5. NoLostWaiter'
  BY <1>1, <1>2, <1>3, <1>4 DEF TypeOK, NoLostWaiter
<1>6. QED
  BY <1>1, <1>2, <1>3, <1>4, <1>5 DEF TypeOK, WaitShape

LEMMA PutTokenStep ==
  ASSUME Base, PutToken, Dispatch, UNCHANGED <<exists, lock, pc, tmo>>,
         NEW h \in SUBSET held, held' = h, total' \in Int
  PROVE  Base'
<1> USE SemaphoreAssumption DEF Base
<1>1. CASE grp # {}
  <2>1. Highest(grp) \in grp
    BY <1>1, HighestIn DEF TypeOK
  <2>2. EventTasksRdy({Highest(grp)}, "ok") /\ cnt' = cnt
    BY <1>1 DEF PutToken
  <2>3. /\ rdy' \subseteq Tasks /\ grp' \subseteq grp /\ rdy \subseteq rdy'
        /\ dly' \in [Tasks -> Nat]
        /\ pend' \in [Tasks -> {"ok", "to", "abort"}]
        /\ NoLostWaiter'
        /\ \A t \in Tasks : dly'[t] > 0 => t \notin rdy'
        /\ \A t \in Tasks : pc'[t] = "pend" /\ (dly'[t] > 0 \/ pend'[t] = "to")
                              => t \in grp'
    BY <2>1, <2>2, RdyStep, {Highest(grp)} \in SUBSET grp
  <2>4. CurShape' /\ cur' \in Tasks \cup {Idle}
    BY <2>3, CurStep, IdleNoTask DEF TypeOK, CurShape
  <2>5. QED
    BY <1>1, <2>2, <2>3, <2>4 DEF TypeOK, TokenOrWaiter, WaitShape
<1>2. CASE grp = {}
  <2>1. /\ cnt' = IF cnt < CntMax THEN cnt + 1 ELSE cnt
        /\ UNCHANGED <<grp, rdy, dly, pend>>
    BY <1>2 DEF PutToken
  <2>2. CurShape' /\ cur' \in Tasks \cup {Idle}
    BY <2>1, CurStep, IdleNoTask DEF TypeOK, CurShape
  <2>3. QED
    BY <1>2, <2>1, <2>2 DEF TypeOK, TokenOrWaiter, NoLostWaiter, WaitShape
<1>3. QED
  BY <1>1, <1>2

LEMMA HandledStep ==
  ASSUME Base, NEW t \in Tasks, Handled(t), Dispatch
  PROVE  Base'
<1> USE SemaphoreAssumption DEF Base, Handled, Runs, tasks
<1>1. CurShape' /\ cur' \in Tasks \cup {Idle}
  BY CurStep, IdleNoTask DEF TypeOK, CurShape
<1>2. QED
  BY <1>1 DEF TypeOK, TokenOrWaiter, NoLostWaiter, WaitShape

LEMMA ClearStep ==
  ASSUME Base, NEW t \in Tasks, Clear(t), Dispatch
  PROVE  Base'
<1> USE SemaphoreAssumption DEF Base, Clear, Runs, tasks
<1>1. CurShape' /\ cur' \in Tasks \cup {Idle}
  BY CurStep, IdleNoTask DEF TypeOK, CurShape
<1>2. QED
  BY <1>1 DEF TypeOK, TokenOrWaiter, NoLostWaiter, WaitShape

LEMMA AbortStep ==
  ASSUME Base, NEW t \in Tasks, NEW aborted, Abort(t, aborted), Dispatch
  PROVE  Base'
<1> USE SemaphoreAssumption DEF Base, Abort, Runs
<1>1. aborted \in SUBSET grp
  <2>1. Highest(grp) \in grp
    BY HighestIn DEF TypeOK
  <2>2. QED
    BY <2>1
<1>2. /\ rdy' \subseteq Tasks /\ grp' \subseteq grp /\ rdy \subseteq rdy'
      /\ dly' \in [Tasks -> Nat]
      /\ pend' \in [Tasks -> {"ok", "to", "abort"}]
      /\ NoLostWaiter'
      /\ \A u \in Tasks : dly'[u] > 0 => u \notin rdy'
      /\ \A u \in Tasks : pc'[u] = "pend" /\ (dly'[u] > 0 \/ pend'[u] = "to")
                            => u \in grp'
  BY <1>1, RdyStep
<1>3. CurShape' /\ cur' \in Tasks \cup {Idle}
  BY <1>2, CurStep, IdleNoTask DEF TypeOK, CurShape
<1>4. QED
  BY <1>2, <1>3 DEF TypeOK, TokenOrWaiter, WaitShape

LEMMA DeleteStep ==
  ASSUME Base, NEW t \in Tasks, Delete(t), Dispatch
  PROVE  Base'
<1> USE SemaphoreAssumption DEF Base, Delete, Runs
<1>1. /\ rdy' \subseteq Tasks /\ grp' \subseteq grp /\ rdy \subseteq rdy'
      /\ dly' \in [Tasks -> Nat]
      /\ pend' \in [Tasks -> {"ok", "to", "abort"}]
      /\ NoLostWaiter'
      /\ \A u \in Tasks : dly'[u] > 0 => u \notin rdy'
      /\ \A u \in Tasks : pc'[u] = "pend" /\ (dly'[u] > 0 \/ pend'[u] = "to")
                            => u \in grp'
  BY RdyStep, grp \in SUBSET grp
<1>2. CurShape' /\ cur' \in Tasks \cup {Idle}
  BY <1>1, CurStep, IdleNoTask DEF TypeOK, CurShape
<1>3. TypeOK'
  <2>1. exists' \in BOOLEAN
    OBVIOUS
  <2>2. cnt' \in 0..CntMax
    OBVIOUS
  <2>3. held' \subseteq Tasks /\ pc' = pc /\ tmo' = tmo
        /\ lock' \in {0, 1} /\ total' \in Int /\ grp' \subseteq Tasks
    BY <1>1 DEF TypeOK
  <2>4. pc' \in [Tasks -> {"run", "try", "pend"}] /\ tmo' \in [Tasks -> Nat]
    BY <2>3 DEF TypeOK
  <2>5. QED
    BY <1>1, <1>2, <2>1, <2>2, <2>3, <2>4 DEF TypeOK
<1>4. WaitShape'
  BY <1>1 DEF WaitShape
<1>5. TokenOrWaiter'
  BY DEF TokenOrWaiter
<1>6. QED
  BY <1>1, <1>2, <1>3, <1>4, <1>5

LEMMA SchedStep ==
  ASSUME Base, NEW t \in Tasks, SchedLock(t) \/ SchedUnlock(t), Dispatch
  PROVE  Base'
<1> USE SemaphoreAssumption DEF Base, SchedLock, SchedUnlock, Runs, tasks
<1>1. CurShape' /\ cur' \in Tasks \cup {Idle}
  BY CurStep, IdleNoTask DEF TypeOK, CurShape
<1>2. QED
  BY <1>1 DEF TypeOK, TokenOrWaiter, NoLostWaiter, WaitShape

LEMMA SleepStep ==
  ASSUME Base, NEW t \in Tasks, Sleep(t), Dispatch
  PROVE  Base'
<1> USE SemaphoreAssumption DEF Base, Sleep, Runs
<1>1. CurShape' /\ cur' \in Tasks \cup {Idle}
  BY CurStep DEF TypeOK, CurShape
<1>2. TypeOK'
  BY <1>1 DEF TypeOK
<1>3. QED
  BY <1>1, <1>2 DEF TypeOK, TokenOrWaiter, NoLostWaiter, WaitShape

LEMMA TickStep ==
  ASSUME Base, Tick, Dispatch
  PROVE  Base'
<1> USE SemaphoreAssumption DEF Base, Tick, Due
<1>1. rdy' \subseteq Tasks /\ rdy \subseteq rdy'
  BY DEF TypeOK
<1>2. CurShape' /\ cur' \in Tasks \cup {Idle}
  BY <1>1, CurStep, IdleNoTask DEF TypeOK, CurShape
<1>3. /\ dly' \in [Tasks -> Nat]
      /\ pend' \in [Tasks -> {"ok", "to", "abort"}]
  BY DEF TypeOK
<1>4. \A t \in Tasks :
        IF dly[t] = 1
        THEN /\ t \in rdy' /\ dly'[t] = 0
             /\ pend'[t] = IF pc[t] = "pend" THEN "to" ELSE "ok"
        ELSE /\ t \in rdy' <=> t \in rdy
             /\ dly'[t] = IF dly[t] > 0 THEN dly[t] - 1 ELSE 0
             /\ pend'[t] = pend[t]
  BY DEF TypeOK
<1>5. NoLostWaiter'
  BY <1>4 DEF TypeOK, NoLostWaiter, WaitShape
<1>6. WaitShape'
  BY <1>4 DEF TypeOK, NoLostWaiter, WaitShape
<1>7. QED
  BY <1>1, <1>2, <1>3, <1>5, <1>6 DEF TypeOK, TokenOrWaiter

LEMMA BaseStep == Base /\ [Next]_vars => Base'
<1> SUFFICES ASSUME Base, [Next]_vars PROVE Base'
  OBVIOUS
<1>1. CASE UNCHANGED vars
  BY <1>1 DEF vars, Base, TypeOK, TokenOrWaiter, NoLostWaiter, CurShape,
              WaitShape
<1>2. ASSUME NEW t \in Tasks, TaskStep(t), Dispatch PROVE Base'
  <2>1. ASSUME Unlock(t) PROVE Base'
    BY <1>2, <2>1, PutTokenStep, held \ {t} \in SUBSET held
       DEF Unlock, Base, TypeOK
  <2>2. ASSUME WakeUp(t) PROVE Base'
    BY <1>2, <2>2, PutTokenStep, held \in SUBSET held
       DEF WakeUp, Signal, Base, TypeOK
  <2>3. QED
    BY <1>2, <2>1, <2>2, PendTestsStep, PendTakesStep, PendWaitsStep,
       PendReturnsStep, AcceptStep, HandledStep, ClearStep, AbortStep,
       DeleteStep, SchedStep, SleepStep
       DEF TaskStep
<1>3. CASE Interrupt /\ Dispatch
  BY <1>3, PutTokenStep, held \in SUBSET held
     DEF Interrupt, Signal, Base, TypeOK
<1>4. CASE Tick /\ Dispatch
  BY <1>4, TickStep
<1>5. QED
  BY <1>1, <1>2, <1>3, <1>4 DEF Next

-----------------------------------------------------------------------------
\* The tokens.  First who owns one after each kind of step.

LEMMA OwnersFinite ==
  ASSUME TypeOK
  PROVE  /\ Owners \subseteq Tasks
         /\ IsFiniteSet(Owners) /\ Cardinality(Owners) \in Nat
<1>1. Owners \subseteq Tasks
  BY DEF Owners, Granted, TypeOK
<1>2. QED
  BY <1>1, FS_Subset, FS_CardinalityType, SemaphoreAssumption

\* A post gives the token to one waiter or makes it free.
LEMMA PutTokenOwners ==
  ASSUME Base, PutToken, UNCHANGED pc,
         NEW h \in SUBSET held, held' = h, held \cap Granted = {}
  PROVE  /\ held' \cap Granted' = {}
         /\ \/ /\ grp = {}
               /\ Granted' = Granted
               /\ cnt' = IF cnt < CntMax THEN cnt + 1 ELSE cnt
            \/ /\ grp # {}
               /\ cnt' = cnt
               /\ \E w \in grp : /\ \A u \in grp : w <= u
                                 /\ grp' = grp \ {w}
                                 /\ w \notin Granted /\ w \notin held
                                 /\ Granted' = Granted \cup {w}
<1> USE SemaphoreAssumption DEF Base
<1>1. CASE grp = {}
  BY <1>1 DEF PutToken, Granted
<1>2. CASE grp # {}
  <2> DEFINE w == Highest(grp)
  <2>1. w \in grp /\ \A u \in grp : w <= u
    BY <1>2, HighestIn DEF TypeOK
  <2> HIDE DEF w
  <2>2. EventTasksRdy({w}, "ok") /\ cnt' = cnt
    BY <1>2 DEF PutToken, w
  <2>3. w \in Tasks /\ pc[w] = "pend" /\ w \notin held /\ w \notin Granted
    BY <2>1 DEF TypeOK, NoLostWaiter, WaitShape, Granted
  <2>4. grp' = grp \ {w}
    BY <2>2 DEF EventTasksRdy
  <2>5. Granted' = Granted \cup {w}
    BY <2>1, <2>2, <2>3 DEF EventTasksRdy, Granted, TypeOK
  <2>6. QED
    BY <1>2, <2>1, <2>2, <2>3, <2>4, <2>5
<1>3. QED
  BY <1>1, <1>2

LEMMA ConservedInit == Init => TokensConserved
<1> SUFFICES ASSUME Init PROVE TokensConserved
  OBVIOUS
<1>1. Owners = {}
  BY DEF Init, Owners, Granted
<1>2. QED
  BY <1>1, FS_EmptySet, SemaphoreAssumption
     DEF Init, TokensConserved, Granted

\* Steps that leave alone who owns a token and how many are free.
LEMMA OwnersKept ==
  ASSUME Base, TokensConserved, Owners' = Owners,
         held' \cap Granted' = {},
         exists' => exists /\ cnt' = cnt /\ total' = total
  PROVE  TokensConserved'
BY DEF TokensConserved

LEMMA SignalConserved ==
  ASSUME Base, TokensConserved, Signal
  PROVE  TokensConserved'
<1> USE SemaphoreAssumption
<1>a. /\ IsFiniteSet(Owners) /\ Cardinality(Owners) \in Nat
      /\ held \cap Granted = {}
  BY OwnersFinite DEF Base, TokensConserved
<1>1. /\ PutToken /\ held' = held /\ UNCHANGED <<pc, exists>>
      /\ total' = IF grp = {} /\ cnt = CntMax THEN total ELSE total + 1
  BY DEF Signal, Refused
<1>2. /\ held' \cap Granted' = {}
      /\ \/ /\ grp = {}
            /\ Granted' = Granted
            /\ cnt' = IF cnt < CntMax THEN cnt + 1 ELSE cnt
         \/ /\ grp # {}
            /\ cnt' = cnt
            /\ \E w \in grp : /\ w \notin Granted /\ w \notin held
                              /\ Granted' = Granted \cup {w}
  BY <1>a, <1>1, PutTokenOwners, held \in SUBSET held
<1>3. CASE grp = {}
  <2>1. Owners' = Owners
    BY <1>1, <1>2, <1>3 DEF Owners
  <2>2. QED
    BY <1>a, <1>1, <1>2, <1>3, <2>1 DEF TokensConserved, Base, TypeOK
<1>4. CASE grp # {}
  <2>1. PICK w \in grp : /\ w \notin Granted /\ w \notin held
                         /\ Granted' = Granted \cup {w}
    BY <1>2, <1>4
  <2>2. Owners' = Owners \cup {w} /\ w \notin Owners
    BY <1>1, <2>1 DEF Owners
  <2>3. Cardinality(Owners') = Cardinality(Owners) + 1
    BY <1>a, <2>2, FS_AddElement
  <2>4. QED
    BY <1>a, <1>1, <1>2, <1>4, <2>3 DEF TokensConserved, Base, TypeOK
<1>5. QED
  BY <1>3, <1>4

LEMMA ConservedStep == Inv /\ [Next]_vars => TokensConserved'
<1> SUFFICES ASSUME Base, TokensConserved, [Next]_vars
             PROVE  TokensConserved'
  BY DEF Inv
<1> USE SemaphoreAssumption
<1>a. /\ IsFiniteSet(Owners) /\ Cardinality(Owners) \in Nat
      /\ held \cap Granted = {}
  BY OwnersFinite DEF Base, TokensConserved
<1>1. CASE UNCHANGED vars
  BY <1>1, OwnersKept DEF vars, Owners, Granted, TokensConserved
<1>2. ASSUME NEW t \in Tasks, TaskStep(t), Dispatch PROVE TokensConserved'
  <2>1. ASSUME PendTakes(t) \/ Accept(t) PROVE TokensConserved'
    <3>1. /\ t \notin held /\ t \notin Granted
          /\ held' = held \cup {t} /\ Granted' = Granted
          /\ cnt' = cnt - 1 /\ total' = total /\ exists' = exists
      BY <2>1 DEF PendTakes, Accept, Runs, tasks, Base, TypeOK, WaitShape,
                  Granted
    <3>2. Owners' = Owners \cup {t} /\ t \notin Owners
      BY <3>1 DEF Owners
    <3>3. Cardinality(Owners') = Cardinality(Owners) + 1
      BY <1>a, <3>2, FS_AddElement
    <3>4. QED
      BY <1>a, <3>1, <3>3 DEF TokensConserved, Base, TypeOK
  <2>2. ASSUME Unlock(t) PROVE TokensConserved'
    <3>1. /\ PutToken /\ t \in held /\ held' = held \ {t}
          /\ UNCHANGED <<pc, exists>>
          /\ total' = IF grp = {} /\ cnt = CntMax THEN total - 1 ELSE total
      BY <2>2 DEF Unlock, Refused
    <3>2. held \ {t} \in SUBSET held
      OBVIOUS
    <3>3. /\ held' \cap Granted' = {}
          /\ \/ /\ grp = {}
                /\ Granted' = Granted
                /\ cnt' = IF cnt < CntMax THEN cnt + 1 ELSE cnt
             \/ /\ grp # {}
                /\ cnt' = cnt
                /\ \E w \in grp : /\ w \notin Granted /\ w \notin held
                                  /\ Granted' = Granted \cup {w}
      BY <1>a, <3>1, <3>2, PutTokenOwners
    <3>4. /\ IsFiniteSet(Owners \ {t})
          /\ Cardinality(Owners \ {t}) = Cardinality(Owners) - 1
      BY <1>a, <3>1, FS_RemoveElement DEF Owners
    <3>5. CASE grp = {}
      <4>1. Owners' = Owners \ {t}
        BY <1>a, <3>1, <3>3, <3>5 DEF Owners
      <4>2. QED
        BY <1>a, <3>1, <3>3, <3>4, <3>5, <4>1
           DEF TokensConserved, Base, TypeOK
    <3>6. CASE grp # {}
      <4>1. PICK w \in grp : /\ w \notin Granted /\ w \notin held
                             /\ Granted' = Granted \cup {w}
        BY <3>3, <3>6
      <4>2. /\ Owners' = (Owners \ {t}) \cup {w}
            /\ w \notin Owners \ {t}
        BY <1>a, <3>1, <4>1 DEF Owners
      <4>3. Cardinality((Owners \ {t}) \cup {w})
              = Cardinality(Owners \ {t}) + 1
        BY <3>4, <4>2, FS_AddElement
      <4>4. Cardinality(Owners') = Cardinality(Owners)
        BY <1>a, <3>4, <4>2, <4>3
      <4>5. QED
        BY <1>a, <3>1, <3>3, <3>6, <4>4 DEF TokensConserved, Base, TypeOK
    <3>7. QED
      BY <3>5, <3>6
  <2>3. ASSUME Handled(t) PROVE TokensConserved'
    <3>1. /\ t \in Owners /\ Owners' = Owners \ {t}
          /\ Granted' = Granted /\ held' \subseteq held
      BY <1>a, <2>3 DEF Handled, tasks, Owners, Granted
    <3>2. Cardinality(Owners') = Cardinality(Owners) - 1
      BY <1>a, <3>1, FS_RemoveElement
    <3>3. QED
      BY <1>a, <2>3, <3>1, <3>2
         DEF Handled, TokensConserved, Base, TypeOK
  <2>4. ASSUME WakeUp(t) PROVE TokensConserved'
    BY <2>4, SignalConserved DEF WakeUp
  <2>5. ASSUME Clear(t) PROVE TokensConserved'
    BY <1>a, <2>5
       DEF Clear, tasks, TokensConserved, Owners, Granted, Base, TypeOK
  <2>6. ASSUME NEW timeout \in Timeouts, PendTests(t, timeout)
        PROVE  TokensConserved'
    <3>1. Granted' = Granted
      BY <2>6 DEF PendTests, Runs, Granted, Base, TypeOK
    <3>2. QED
      BY <1>a, <2>6, <3>1, OwnersKept DEF PendTests, Owners
  <2>7. ASSUME PendWaits(t) PROVE TokensConserved'
    <3>1. Granted' = Granted
      BY <2>7 DEF PendWaits, Granted, Base, TypeOK
    <3>2. QED
      BY <1>a, <2>7, <3>1, OwnersKept DEF PendWaits, Owners
  <2>8. ASSUME PendReturns(t) PROVE TokensConserved'
    <3>1. CASE pend[t] = "ok"
      <4>1. t \in Granted
        <5>1. t \in rdy
          BY <2>8, IdleNoTask DEF PendReturns, Base, CurShape
        <5>2. t \notin grp
          BY <3>1, <5>1 DEF Base, NoLostWaiter
        <5>3. QED
          BY <2>8, <3>1, <5>2 DEF PendReturns, Granted
      <4>2. held' = held \cup {t} /\ Granted' = Granted \ {t}
        BY <2>8, <3>1 DEF PendReturns, Granted, Base, TypeOK
      <4>3. Owners' = Owners /\ held' \cap Granted' = {}
        BY <1>a, <4>1, <4>2 DEF Owners
      <4>4. QED
        BY <2>8, <4>3, OwnersKept DEF PendReturns
    <3>2. CASE pend[t] # "ok"
      <4>1. held' = held /\ Granted' = Granted
        BY <2>8, <3>2 DEF PendReturns, Granted, Base, TypeOK
      <4>2. QED
        BY <1>a, <2>8, <4>1, OwnersKept DEF PendReturns, Owners
    <3>3. QED
      BY <3>1, <3>2
  <2>9. ASSUME NEW aborted \in SUBSET Tasks, Abort(t, aborted)
        PROVE  TokensConserved'
    <3>1. aborted \in SUBSET grp
      <4>1. Highest(grp) \in grp
        BY <2>9, HighestIn DEF Abort, Base, TypeOK
      <4>2. QED
        BY <2>9, <4>1 DEF Abort
    <3>2. Granted' = Granted
      BY <2>9, <3>1 DEF Abort, EventTasksRdy, Granted, Base, TypeOK
    <3>3. QED
      BY <1>a, <2>9, <3>2, OwnersKept DEF Abort, Owners
  <2>10. ASSUME Delete(t) PROVE TokensConserved'
    <3>1. held' = held /\ exists' = FALSE
      BY <2>10 DEF Delete
    <3>2. Granted' \subseteq Granted \cup grp
      BY <2>10 DEF Delete, EventTasksRdy, Granted, Base, TypeOK
    <3>3. held \cap grp = {}
      BY DEF Base, TypeOK, NoLostWaiter, WaitShape
    <3>4. QED
      BY <1>a, <3>1, <3>2, <3>3 DEF TokensConserved
  <2>11. ASSUME SchedLock(t) \/ SchedUnlock(t) PROVE TokensConserved'
    BY <1>a, <2>11, OwnersKept
       DEF SchedLock, SchedUnlock, tasks, Owners, Granted
  <2>12. ASSUME Sleep(t) PROVE TokensConserved'
    BY <1>a, <2>12, OwnersKept DEF Sleep, Owners, Granted
  <2>13. QED
    BY <1>2, <2>1, <2>2, <2>3, <2>4, <2>5, <2>6, <2>7, <2>8, <2>9, <2>10,
       <2>11, <2>12 DEF TaskStep
<1>3. CASE Interrupt
  BY <1>3, SignalConserved DEF Interrupt
<1>4. CASE Tick
  <2>1. ASSUME NEW t \in Tasks, pc[t] = "pend", t \notin grp
        PROVE  pend'[t] = pend[t]
    <3>1. dly[t] # 1
      BY <2>1 DEF Base, TypeOK, WaitShape
    <3>2. QED
      BY <1>4, <3>1 DEF Tick, Due
  <2>2. Granted' = Granted
    BY <1>4, <2>1 DEF Tick, Granted
  <2>3. QED
    BY <1>a, <1>4, <2>2, OwnersKept DEF Tick, Owners
<1>5. QED
  BY <1>1, <1>2, <1>3, <1>4 DEF Next

-----------------------------------------------------------------------------
\* Inv holds in every reachable state.
THEOREM Invariance == Spec => []Inv
<1>1. Init => Inv
  BY BaseInit, ConservedInit DEF Inv
<1>2. Inv /\ [Next]_vars => Inv'
  BY BaseStep, ConservedStep DEF Inv
<1>3. QED
  BY <1>1, <1>2, PTL DEF Spec

(***************************************************************************)
(* Types; in particular the count never leaves 0..65535.                   *)
(***************************************************************************)
THEOREM TypeCorrect == Spec => []TypeOK
BY Invariance, PTL DEF Inv, Base

\* A free token and a waiting task never exist together.
THEOREM NoTokenIdle == Spec => []TokenOrWaiter
BY Invariance, PTL DEF Inv, Base

\* A blocked task is on the wait list with its timeout running.
THEOREM NoWaiterForgotten == Spec => []NoLostWaiter
BY Invariance, PTL DEF Inv, Base

\* Posts, timeouts and aborts, in any order, neither lose nor make a token.
THEOREM Conservation == Spec => []TokensConserved
BY Invariance, PTL DEF Inv

(***************************************************************************)
(* mutex.c: with one token under way at most one task owns the mutex, the  *)
(* tasks that were woken and have not run since included.                  *)
(***************************************************************************)
THEOREM MutualExclusion ==
  Spec => [](exists /\ total <= 1 => \A t, u \in Owners : t = u)
<1>1. ASSUME Inv, exists, total <= 1, NEW t \in Owners, NEW u \in Owners,
             t # u
      PROVE  FALSE
  <2>1. /\ IsFiniteSet(Owners) /\ Cardinality(Owners) \in Nat
        /\ Cardinality(Owners) <= 1
    BY <1>1, OwnersFinite, SemaphoreAssumption
       DEF Inv, Base, TypeOK, TokensConserved
  <2>2. /\ IsFiniteSet(Owners \ {t})
        /\ Cardinality(Owners \ {t}) = Cardinality(Owners) - 1
    BY <1>1, <2>1, FS_RemoveElement
  <2>3. Cardinality(Owners \ {t}) \in Nat
    BY <2>2, FS_CardinalityType
  <2>4. Cardinality(Owners \ {t}) = 0
    BY <2>1, <2>2, <2>3
  <2>5. Owners \ {t} = {}
    BY <2>2, <2>4, FS_EmptySet
  <2>6. QED
    BY <1>1, <2>5
<1>2. Inv => (exists /\ total <= 1 => \A t, u \in Owners : t = u)
  BY <1>1
<1>3. QED
  BY <1>2, Invariance, PTL

-----------------------------------------------------------------------------
\* The refinement.

LEMMA AbstractInit == Init => Abstract!Init
BY DEF Init, Abstract!Init, Owners, Granted

\* A post hands the token to the most important waiter.
LEMMA AbstractPut ==
  ASSUME Inv, PutToken, UNCHANGED pc,
         NEW givers \in SUBSET held, held' = held \ givers
  PROVE  Abstract!Put(givers)
<1>1. /\ Granted \cap held = {}
      /\ held' \cap Granted' = {}
      /\ \/ /\ grp = {}
            /\ Granted' = Granted
            /\ cnt' = IF cnt < CntMax THEN cnt + 1 ELSE cnt
         \/ /\ grp # {}
            /\ cnt' = cnt
            /\ \E w \in grp : /\ \A u \in grp : w <= u
                              /\ grp' = grp \ {w}
                              /\ w \notin Granted /\ w \notin held
                              /\ Granted' = Granted \cup {w}
  BY PutTokenOwners, held \ givers \in SUBSET held DEF Inv, TokensConserved
<1>2. CASE grp = {}
  <2>1. Owners' = Owners \ givers
    BY <1>1, <1>2 DEF Owners
  <2>2. grp' = grp
    BY <1>2 DEF PutToken
  <2>3. QED
    BY <1>1, <1>2, <2>1, <2>2 DEF Abstract!Put
<1>3. CASE grp # {}
  <2>1. PICK w \in grp : /\ \A u \in grp : w <= u
                         /\ grp' = grp \ {w}
                         /\ w \notin Granted /\ w \notin held
                         /\ Granted' = Granted \cup {w}
    BY <1>1, <1>3
  <2>2. Owners' = (Owners \ givers) \cup {w}
    BY <1>1, <2>1 DEF Owners
  <2>3. QED
    BY <1>1, <1>3, <2>1, <2>2 DEF Abstract!Put
<1>4. QED
  BY <1>2, <1>3

\* Steps the specification of a semaphore does not see.
LEMMA AbstractStutter ==
  ASSUME Owners' = Owners, UNCHANGED <<cnt, grp, exists>>
  PROVE  UNCHANGED Abstract!vars
BY DEF Abstract!vars

LEMMA AbstractStep == Inv /\ [Next]_vars => [Abstract!Next]_(Abstract!vars)
<1> SUFFICES ASSUME Inv, [Next]_vars
             PROVE  Abstract!Next \/ UNCHANGED Abstract!vars
  OBVIOUS
<1>1. CASE UNCHANGED vars
  BY <1>1, AbstractStutter DEF vars, Owners, Granted
<1>2. CASE ~ exists'
  BY <1>2 DEF Abstract!Next
<1>3. ASSUME exists', Signal PROVE Abstract!Next
  <2>1. Abstract!Put({})
    BY <1>3, AbstractPut, {} \in SUBSET held DEF Signal
  <2>2. exists /\ {} \in SUBSET Tasks
    BY <1>3 DEF Signal
  <2>3. QED
    BY <1>3, <2>1, <2>2 DEF Abstract!Next
<1>4. CASE Tick
  <2>1. ASSUME NEW t \in Tasks, pc[t] = "pend", t \notin grp
        PROVE  pend'[t] = pend[t]
    <3>1. dly[t] # 1
      BY <2>1 DEF Inv, Base, TypeOK, WaitShape
    <3>2. QED
      BY <1>4, <3>1, <2>1 DEF Tick, Due
  <2>2. Granted' = Granted
    BY <1>4, <2>1 DEF Tick, Granted
  <2>3. QED
    BY <1>4, <2>2, AbstractStutter DEF Tick, Owners
<1>5. ASSUME exists', NEW t \in Tasks, TaskStep(t)
      PROVE  Abstract!Next \/ UNCHANGED Abstract!vars
  <2>1. ASSUME PendTakes(t) \/ Accept(t), exists PROVE Abstract!Next
    <3>1. /\ held' = held \cup {t} /\ Granted' = Granted
          /\ cnt > 0 /\ cnt' = cnt - 1 /\ grp' = grp
      BY <2>1 DEF PendTakes, Accept, Runs, tasks, Inv, Base, TypeOK, Granted
    <3>2. Abstract!Take(t)
      BY <3>1 DEF Abstract!Take, Owners
    <3>3. QED
      BY <1>5, <2>1, <3>2 DEF Abstract!Next
  <2>2. ASSUME PendWaits(t), exists PROVE Abstract!Next
    <3>1. Granted' = Granted
      BY <2>2 DEF PendWaits, Granted, Inv, Base, TypeOK
    <3>2. Abstract!Await(t)
      BY <2>2, <3>1 DEF PendWaits, Abstract!Await, Owners
    <3>3. QED
      BY <1>5, <2>2, <3>2 DEF Abstract!Next
  <2>3. ASSUME PendReturns(t), exists
        PROVE  Abstract!Next \/ UNCHANGED Abstract!vars
    <3>0. t \in rdy
      BY <2>3, IdleNoTask DEF PendReturns, Inv, Base, CurShape
    <3>1. CASE pend[t] = "ok"
      <4>1. t \in Granted
        BY <2>3, <3>0, <3>1
           DEF PendReturns, Granted, Inv, Base, NoLostWaiter
      <4>2. held' = held \cup {t} /\ Granted' = Granted \ {t} /\ grp' = grp
        BY <2>3, <3>1 DEF PendReturns, Granted, Inv, Base, TypeOK
      <4>3. QED
        BY <2>3, <4>1, <4>2, AbstractStutter DEF PendReturns, Owners
    <3>2. CASE pend[t] # "ok"
      <4>1. held' = held /\ Granted' = Granted
        BY <2>3, <3>2 DEF PendReturns, Granted, Inv, Base, TypeOK
      <4>2. \/ grp' = grp
            \/ grp' = grp \ {t}
        BY <2>3 DEF PendReturns
      <4>3. CASE grp' = grp
        BY <2>3, <4>1, <4>3, AbstractStutter DEF PendReturns, Owners
      <4>4. CASE grp' = grp \ {t}
        <5>1. Abstract!GiveUp({t}) /\ {t} \in SUBSET Tasks
          BY <2>3, <4>1, <4>4 DEF PendReturns, Abstract!GiveUp, Owners
        <5>2. QED
          BY <1>5, <2>3, <5>1 DEF Abstract!Next
      <4>5. QED
        BY <4>2, <4>3, <4>4
    <3>3. QED
      BY <3>1, <3>2
  <2>4. ASSUME Unlock(t) PROVE Abstract!Next
    <3>1. Abstract!Put({t})
      BY <2>4, AbstractPut, {t} \in SUBSET held DEF Unlock
    <3>2. exists /\ {t} \in SUBSET Tasks
      BY <2>4 DEF Unlock
    <3>3. QED
      BY <1>5, <3>1, <3>2 DEF Abstract!Next
  <2>5. ASSUME Handled(t), exists PROVE Abstract!Next
    <3>1. held' = held \ {t} /\ Granted' = Granted /\ t \notin Granted
      BY <2>5 DEF Handled, Runs, tasks, Granted
    <3>2. Abstract!Spend(t)
      BY <2>5, <3>1 DEF Handled, Abstract!Spend, Owners
    <3>3. QED
      BY <1>5, <2>5, <3>2 DEF Abstract!Next
  <2>6. ASSUME Clear(t) PROVE Abstract!Next
    <3>1. Abstract!Reset /\ exists
      BY <2>6 DEF Clear, tasks, Abstract!Reset, Owners, Granted
    <3>2. QED
      BY <1>5, <3>1 DEF Abstract!Next
  <2>7. ASSUME NEW aborted \in SUBSET Tasks, Abort(t, aborted)
        PROVE  Abstract!Next
    <3>1. aborted \in SUBSET grp
      <4>1. Highest(grp) \in grp
        BY <2>7, HighestIn, SemaphoreAssumption DEF Abort, Inv, Base, TypeOK
      <4>2. QED
        BY <2>7, <4>1 DEF Abort
    <3>2. Granted' = Granted /\ grp' = grp \ aborted
      BY <2>7, <3>1 DEF Abort, EventTasksRdy, Granted, Inv, Base, TypeOK
    <3>3. Abstract!GiveUp(aborted) /\ exists
      BY <2>7, <3>2 DEF Abort, Abstract!GiveUp, Owners
    <3>4. QED
      BY <1>5, <3>3 DEF Abstract!Next
  <2>8. ASSUME NEW timeout \in Timeouts, PendTests(t, timeout)
        PROVE  UNCHANGED Abstract!vars
    <3>1. Granted' = Granted
      BY <2>8 DEF PendTests, Runs, Granted, Inv, Base, TypeOK
    <3>2. QED
      BY <2>8, <3>1, AbstractStutter DEF PendTests, Owners
  <2>9. ASSUME SchedLock(t) \/ SchedUnlock(t) \/ Sleep(t)
        PROVE  UNCHANGED Abstract!vars
    BY <2>9, AbstractStutter
       DEF SchedLock, SchedUnlock, Sleep, tasks, Owners, Granted
  <2>10. ASSUME ~ exists PROVE FALSE
    <3>1. exists' = exists \/ exists' = FALSE
      BY <1>5 DEF TaskStep, PendTests, PendTakes, PendWaits, PendReturns,
                  Accept, Unlock, WakeUp, Signal, Handled, Clear, Abort,
                  Delete, SchedLock, SchedUnlock, Sleep
    <3>2. QED
      BY <1>5, <2>10, <3>1
  <2>11. ASSUME Delete(t) PROVE FALSE
    BY <1>5, <2>11 DEF Delete
  <2>12. ASSUME WakeUp(t) PROVE Abstract!Next
    BY <1>3, <1>5, <2>12 DEF WakeUp
  <2>13. QED
    BY <1>5, <2>1, <2>2, <2>3, <2>4, <2>5, <2>6, <2>7, <2>8, <2>9, <2>10,
       <2>11, <2>12 DEF TaskStep
<1>6. QED
  BY <1>1, <1>2, <1>3, <1>4, <1>5 DEF Next, Interrupt

(***************************************************************************)
(* os_sem.c implements PrioSemaphore: a post serves the most important     *)
(* waiter at once, whatever timeouts and interrupts do meanwhile.          *)
(***************************************************************************)
THEOREM ImplementsPrioSemaphore == Spec => AbstractSpec
BY AbstractInit, AbstractStep, Invariance, PTL
   DEF Spec, AbstractSpec, Abstract!Spec
=============================================================================
