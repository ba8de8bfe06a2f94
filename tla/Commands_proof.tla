---------------------------- MODULE Commands_proof ----------------------------
(***************************************************************************)
(* Proofs about requests and command nodes, for any number of threads,     *)
(* interfaces and nodes and whatever may happen to a command.              *)
(*                                                                         *)
(* Three arguments meet in the invariant.  A node is in one place because  *)
(* every step moves one node, from the end of a queue or from the place    *)
(* that the one who moves it has in a local (OnePlace).  A request is      *)
(* answered once because its node forgets it in the step that answers or   *)
(* cancels it (Tracked).  An answer is taken for the right command because *)
(* curr_cmd stays what it is from the write to the answer, canceled or not *)
(* (DriverShape).  OwnAnswer rests on all of them.                         *)
(***************************************************************************)
EXTENDS Commands, FiniteSetTheorems, SequenceTheorems, TLAPS

AtCaller(n) == \E t \in Threads : unlinked[t] = n

\* A node is in exactly one of its places.
OnePlace(n) ==
  /\ \/ n \in Range(free) \/ n \in Range(pending) \/ AtCaller(n)
     \/ n \in {curr, hand} \/ n \in leaked
  /\ n \in Range(free) =>
       /\ n \notin Range(pending) /\ ~AtCaller(n)
       /\ n \notin {curr, hand} /\ n \notin leaked
  /\ n \in Range(pending) =>
       ~AtCaller(n) /\ n \notin {curr, hand} /\ n \notin leaked
  /\ AtCaller(n) => n \notin {curr, hand} /\ n \notin leaked
  /\ n \in {curr, hand} => n \notin leaked

Placed ==
  /\ IsInjective(free) /\ IsInjective(pending)
  /\ \A t, u \in Threads : unlinked[t] # NULL /\ unlinked[t] = unlinked[u]
                              => t = u
  /\ \A n \in Nodes : OnePlace(n)

\* A request that waits for its answer.
Active(t) ==
  pc[t] \notin {"idle", "unlinked", "completing"} /\ ~condition[t]

Tracked ==
  /\ \A n, m \in Nodes : pioctl[n] # NULL /\ pioctl[n] = pioctl[m] => n = m
  /\ \A n \in Nodes, t \in Threads : pioctl[n] = t =>
       (n \in Range(pending) \/ n = curr) /\ Active(t)
  /\ \A t \in Threads : Active(t) => \E n \in Nodes : pioctl[n] = t
  /\ \A t \in Threads : pc[t] = "idle" => ~condition[t]

\* What the driver thread's locals say about the current command.
DriverShape ==
  /\ wpc = "clean" => curr \in {NULL, hand}
  /\ wpc = "abandon" => curr = hand
  /\ hand # NULL => pioctl[hand] = NULL /\ canceled = {}
  /\ wpc \in {"send", "handler", "clean", "abandon"} =>
       card = NULL /\ answer = NULL
  /\ \A n \in canceled : n = curr /\ pioctl[n] = NULL

\* A thread that has its event for itself never cancels, and its event is
\* counted only between its answer and its wait.
Undisturbed(t) ==
  /\ pc[t] \notin {"cancel", "unlinked", "completing"}
  /\ pc[t] = "woken" => condition[t] /\ sem[eventOf[t]] = 0
  /\ sem[eventOf[t]] \in {0, 1}
  /\ ~condition[t] => sem[eventOf[t]] = 0

\* What the driver thread remembers of its request is still true.
Remembered(t) ==
  wpc \in {"handler", "send"} /\ local = t => pioctl[curr] = t

AloneShape == \A t \in Threads : Alone(t) => Undisturbed(t) /\ Remembered(t)

Base == TypeOK /\ Placed
Inv == Base /\ Tracked /\ DriverShape /\ AnswerIsCurrent /\ AloneShape

-----------------------------------------------------------------------------
LEMMA Constants ==
  /\ Threads \subseteq Nat /\ IsFiniteSet(Threads) /\ IsFiniteSet(Nodes)
  /\ NULL \notin Threads /\ NULL \notin Nodes /\ SemMax \in Nat
BY CommandsAssumption, Zenon

\* Queues of nodes.

\* A new element goes to the end of a queue.
LEMMA AppendPlaced ==
  ASSUME NEW S, NEW s \in Seq(S), IsInjective(s), NEW e \in S,
         e \notin Range(s)
  PROVE  /\ Append(s, e) \in Seq(S) /\ IsInjective(Append(s, e))
         /\ Range(Append(s, e)) = Range(s) \cup {e}
<1> DEFINE a == Append(s, e)
<1>1. /\ a \in Seq(S) /\ Len(a) = Len(s) + 1 /\ a[Len(s) + 1] = e
      /\ \A i \in 1..Len(s) : a[i] = s[i]
  BY AppendProperties
<1>2. /\ Len(s) \in Nat /\ DOMAIN s = 1..Len(s) /\ DOMAIN a = 1..(Len(s) + 1)
  BY <1>1, LenProperties
<1> HIDE DEF a
<1>3. \A i \in DOMAIN a : a[i] = IF i \in 1..Len(s) THEN s[i] ELSE e
  BY <1>1, <1>2
<1>4. \A i \in DOMAIN s : s[i] # e
  BY DEF Range
<1>5. IsInjective(a)
  BY <1>2, <1>3, <1>4 DEF IsInjective
<1>6. Range(a) = Range(s) \cup {e}
  BY <1>1, <1>2, <1>3 DEF Range
<1>7. QED
  BY <1>1, <1>5, <1>6 DEF a

\* The first element leaves a queue.
LEMMA TailPlaced ==
  ASSUME NEW S, NEW s \in Seq(S), IsInjective(s), s # <<>>
  PROVE  /\ Head(s) \in Range(s) /\ Head(s) \in S
         /\ Tail(s) \in Seq(S) /\ IsInjective(Tail(s))
         /\ Range(Tail(s)) = Range(s) \ {Head(s)}
<1> DEFINE a == Tail(s)
<1>1. /\ Head(s) = s[1] /\ Head(s) \in S
      /\ a \in Seq(S) /\ Len(a) = Len(s) - 1
      /\ \A i \in 1..Len(a) : a[i] = s[i + 1]
  BY HeadTailProperties
<1>2. /\ Len(s) \in Nat \ {0} /\ DOMAIN s = 1..Len(s)
      /\ DOMAIN a = 1..(Len(s) - 1)
  BY <1>1, LenProperties, EmptySeq
<1> HIDE DEF a
<1>3. IsInjective(a)
  <2> SUFFICES ASSUME NEW i \in 1..(Len(s) - 1), NEW j \in 1..(Len(s) - 1),
                      a[i] = a[j]
               PROVE  i = j
    BY <1>2 DEF IsInjective
  <2>1. i + 1 \in DOMAIN s /\ j + 1 \in DOMAIN s /\ s[i + 1] = s[j + 1]
    BY <1>1, <1>2
  <2>2. i + 1 = j + 1
    BY <2>1 DEF IsInjective
  <2>3. QED
    BY <2>2
<1>4. s[1] \in Range(s)
  BY <1>2 DEF Range
<1>5. \A x : x \in Range(a) <=> x \in Range(s) /\ x # s[1]
  <2> SUFFICES ASSUME NEW x
               PROVE  x \in Range(a) <=> x \in Range(s) /\ x # s[1]
    OBVIOUS
  <2>1. ASSUME x \in Range(a) PROVE x \in Range(s) /\ x # s[1]
    <3>1. PICK i \in 1..(Len(s) - 1) : x = a[i]
      BY <2>1, <1>2 DEF Range
    <3>2. i + 1 \in DOMAIN s /\ 1 \in DOMAIN s /\ i + 1 # 1 /\ x = s[i + 1]
      BY <3>1, <1>1, <1>2
    <3>3. QED
      BY <3>2 DEF Range, IsInjective
  <2>2. ASSUME x \in Range(s), x # s[1] PROVE x \in Range(a)
    <3>1. PICK i \in 1..Len(s) : x = s[i]
      BY <2>2, <1>2 DEF Range
    <3>2. i - 1 \in 1..(Len(s) - 1) /\ a[i - 1] = s[i - 1 + 1] /\ i - 1 + 1 = i
      BY <3>1, <2>2, <1>1, <1>2
    <3>3. QED
      BY <3>1, <3>2, <1>2 DEF Range
  <2>3. QED
    BY <2>1, <2>2
<1>6. QED
  BY <1>1, <1>3, <1>4, <1>5 DEF a

\* An element leaves a queue from the middle.
LEMMA RemovePlaced ==
  ASSUME NEW S, NEW s \in Seq(S), IsInjective(s), NEW i \in DOMAIN s
  PROVE  /\ s[i] \in Range(s) /\ s[i] \in S
         /\ RemoveAt(s, i) \in Seq(S) /\ IsInjective(RemoveAt(s, i))
         /\ Range(RemoveAt(s, i)) = Range(s) \ {s[i]}
<1> DEFINE l == SubSeq(s, 1, i - 1)
           r == SubSeq(s, i + 1, Len(s))
           a == l \o r
           n == Len(s)
<1>1. /\ n \in Nat /\ DOMAIN s = 1..n /\ i \in 1..n
      /\ \A j \in 1..n : s[j] \in S
  BY LenProperties, ElementOfSeq
<1>2. /\ l \in Seq(S) /\ Len(l) = i - 1
      /\ \A j \in 1..(i - 1) : l[j] = s[j]
  <2>1. \A j \in 1..(i - 1) : s[j] \in S
    BY <1>1
  <2>2. /\ l \in Seq(S)
        /\ Len(l) = IF 1 <= i - 1 THEN i - 1 - 1 + 1 ELSE 0
        /\ \A j \in 1..(i - 1 - 1 + 1) : l[j] = s[1 + j - 1]
    BY <1>1, <2>1, SubSeqProperties
  <2>3. QED
    BY <2>2, <1>1
<1>3. /\ r \in Seq(S) /\ Len(r) = n - i
      /\ \A j \in 1..(n - i) : r[j] = s[i + j]
  <2>1. \A j \in (i + 1)..n : s[j] \in S
    BY <1>1
  <2>2. /\ r \in Seq(S)
        /\ Len(r) = IF i + 1 <= n THEN n - (i + 1) + 1 ELSE 0
        /\ \A j \in 1..(n - (i + 1) + 1) : r[j] = s[i + 1 + j - 1]
    BY <1>1, <2>1, SubSeqProperties
  <2>3. QED
    BY <2>2, <1>1
<1>4. /\ a \in Seq(S) /\ Len(a) = n - 1
      /\ \A j \in 1..(n - 1) : a[j] = IF j <= i - 1 THEN l[j] ELSE r[j - (i - 1)]
  <2> HIDE DEF l, r, n
  <2>1. /\ a \in Seq(S) /\ Len(a) = Len(l) + Len(r)
        /\ \A j \in 1..(Len(l) + Len(r)) :
             a[j] = IF j <= Len(l) THEN l[j] ELSE r[j - Len(l)]
    BY <1>2, <1>3, ConcatProperties
  <2>2. QED
    BY <2>1, <1>1, <1>2, <1>3
<1>5. DOMAIN a = 1..(n - 1)
  BY <1>4, LenProperties
<1> HIDE DEF l, r, a, n
<1>6. \A j \in 1..(n - 1) : a[j] = IF j < i THEN s[j] ELSE s[j + 1]
  <2> SUFFICES ASSUME NEW j \in 1..(n - 1)
               PROVE  a[j] = IF j < i THEN s[j] ELSE s[j + 1]
    OBVIOUS
  <2>1. CASE j < i
    BY <2>1, <1>1, <1>2, <1>4
  <2>2. CASE j >= i
    <3> DEFINE k == j - (i - 1)
    <3>1. k \in 1..(n - i) /\ i + k = j + 1 /\ ~(j <= i - 1) /\ ~(j < i)
      BY <2>2, <1>1
    <3>2. a[j] = r[k]
      BY <3>1, <1>4
    <3> HIDE DEF k
    <3>3. r[k] = s[i + k]
      BY <3>1, <1>3
    <3>4. QED
      BY <3>1, <3>2, <3>3
  <2>3. QED
    BY <2>1, <2>2, <1>1
<1>7. IsInjective(a)
  <2> SUFFICES ASSUME NEW j \in 1..(n - 1), NEW k \in 1..(n - 1), a[j] = a[k]
               PROVE  j = k
    BY <1>5 DEF IsInjective
  <2> DEFINE up(x) == IF x < i THEN x ELSE x + 1
  <2>1. up(j) \in DOMAIN s /\ up(k) \in DOMAIN s
    BY <1>1
  <2>2. s[up(j)] = s[up(k)]
    BY <1>6
  <2>3. up(j) = up(k)
    BY <2>1, <2>2 DEF IsInjective
  <2>4. QED
    BY <2>3, <1>1
<1>8. \A x : x \in Range(a) <=> x \in Range(s) /\ x # s[i]
  <2> SUFFICES ASSUME NEW x
               PROVE  x \in Range(a) <=> x \in Range(s) /\ x # s[i]
    OBVIOUS
  <2>1. ASSUME x \in Range(a) PROVE x \in Range(s) /\ x # s[i]
    <3>1. PICK j \in 1..(n - 1) : x = a[j]
      BY <2>1, <1>5 DEF Range
    <3> DEFINE k == IF j < i THEN j ELSE j + 1
    <3>2. k \in DOMAIN s /\ k # i
      BY <1>1
    <3>3. x = s[k]
      BY <3>1, <1>6
    <3> HIDE DEF k
    <3>4. QED
      BY <3>2, <3>3 DEF Range, IsInjective
  <2>2. ASSUME x \in Range(s), x # s[i] PROVE x \in Range(a)
    <3>1. PICK k \in 1..n : x = s[k]
      BY <2>2, <1>1 DEF Range
    <3>2. CASE k < i
      <4>1. k \in 1..(n - 1) /\ a[k] = s[k]
        BY <3>2, <1>1, <1>6
      <4>2. QED
        BY <4>1, <3>1, <1>5 DEF Range
    <3>3. CASE k > i
      <4>1. k - 1 \in 1..(n - 1) /\ a[k - 1] = s[k]
        BY <3>3, <1>1, <1>6
      <4>2. QED
        BY <4>1, <3>1, <1>5 DEF Range
    <3>4. QED
      BY <3>1, <3>2, <3>3, <2>2, <1>1
  <2>3. QED
    BY <2>1, <2>2
<1>9. s[i] \in Range(s) /\ s[i] \in S
  BY <1>1 DEF Range
<1>10. RemoveAt(s, i) = a
  BY DEF RemoveAt, a, l, r
<1>11. QED
  BY <1>4, <1>7, <1>8, <1>9, <1>10

-----------------------------------------------------------------------------
\* Events and wake-ups.

LEMMA FirstIn ==
  ASSUME NEW T \in SUBSET Threads, T # {}
  PROVE  First(T) \in T
<1> DEFINE R == {ss \in Nat \X Nat : ss[1] < ss[2]}
<1>1. R = OpToRel(<, Nat)
  BY Zenon DEF OpToRel
<1>2. IsWellFoundedOn(R, Nat)
  BY <1>1, NatLessThanWellFounded
<1>3. T \subseteq Nat
  BY Constants
<1>4. PICK t \in T : \A u \in T : ~ (<<u, t>> \in R)
  <2> HIDE DEF R
  <2> QED
    BY <1>2, <1>3, WFMin
<1>5. ASSUME NEW u \in T PROVE t <= u
  <2>1. ~ (<<u, t>> \in R) /\ u \in Nat /\ t \in Nat
    BY <1>3, <1>4
  <2>2. QED
    BY <2>1
<1>6. QED
  BY <1>5 DEF First

\* What may happen when the request of t is completed while the threads are at p.
Wakes(t, p) ==
  /\ condition' = [condition EXCEPT ![t] = TRUE]
  /\ eventOf' = eventOf /\ unlinked' = unlinked
  /\ pc' \in [Threads -> Steps] /\ sem' \in [Threads -> 0..SemMax]
  /\ \A u \in Threads :
       \/ pc'[u] = p[u]
       \/ p[u] = "waiting" /\ pc'[u] = "woken" /\ eventOf[u] = eventOf[t]
  /\ \A e \in Threads : e # eventOf[t] => sem'[e] = sem[e]
  /\ sem'[eventOf[t]] <= sem[eventOf[t]] + 1
  /\ pc[t] = "waiting" /\ Alone(t) => sem' = sem

LEMMA CompleteWakes ==
  ASSUME TypeOK, NEW t \in Threads, NEW p \in [Threads -> Steps],
         \A u \in Threads : pc[u] = "waiting" => p[u] = "waiting",
         Complete(t, p)
  PROVE  Wakes(t, p)
<1>1. /\ eventOf \in [Threads -> Threads] /\ sem \in [Threads -> 0..SemMax]
      /\ SemMax \in Nat /\ eventOf[t] \in Threads
  BY Constants DEF TypeOK
<1>2. CASE t \in timedOut'
  BY <1>1, <1>2 DEF Complete, Wakes
<1>3. CASE t \notin timedOut'
  <2> DEFINE e == eventOf[t]
             w == First(Waiting(e))
  <2>1. Post(e, p) /\ condition' = [condition EXCEPT ![t] = TRUE]
        /\ eventOf' = eventOf /\ unlinked' = unlinked
    BY <1>3 DEF Complete
  <2>2. CASE Waiting(e) # {}
    <3>1. w \in Waiting(e)
      <4>1. Waiting(e) \in SUBSET Threads
        BY DEF Waiting
      <4>2. QED
        BY <2>2, <4>1, FirstIn
    <3>2. /\ w \in Threads /\ p[w] = "waiting" /\ eventOf[w] = e
          /\ pc' = [p EXCEPT ![w] = "woken"] /\ sem' = sem
      BY <2>1, <2>2, <3>1 DEF Waiting, Post
    <3> HIDE DEF w
    <3>3. pc' \in [Threads -> Steps]
      BY <3>2 DEF Steps
    <3>4. QED
      BY <1>1, <2>1, <3>2, <3>3 DEF Wakes
  <2>3. CASE Waiting(e) = {}
    <3>1. /\ pc' = p
          /\ sem' = [sem EXCEPT ![e] = IF sem[e] < SemMax THEN sem[e] + 1 ELSE sem[e]]
      BY <2>1, <2>3 DEF Post
    <3>2. pc[t] # "waiting"
      BY <2>3 DEF Waiting
    <3>3. sem' \in [Threads -> 0..SemMax] /\ sem'[e] <= sem[e] + 1
      BY <1>1, <3>1
    <3>4. QED
      BY <1>1, <2>1, <3>1, <3>2, <3>3 DEF Wakes
  <2>4. QED
    BY <2>2, <2>3
<1>4. QED
  BY <1>2, <1>3

\* Node n is given back, and the request it still has is completed.
Released(n) ==
  /\ hand' = n /\ pioctl' = [pioctl EXCEPT ![n] = NULL]
  /\ canceled' = canceled \ {n}
  /\ eventOf' = eventOf /\ unlinked' = unlinked
  /\ \/ pioctl[n] = NULL /\ UNCHANGED <<pc, sem, condition>>
     \/ pioctl[n] \in Threads /\ Wakes(pioctl[n], pc)

LEMMA ReleaseReleases ==
  ASSUME TypeOK, NEW n \in Nodes, Release(n)
  PROVE  Released(n)
<1>1. CASE pioctl[n] = NULL
  BY <1>1 DEF Release, Released
<1>2. CASE pioctl[n] # NULL
  <2>1. pioctl[n] \in Threads /\ pc \in [Threads -> Steps]
    BY <1>2 DEF TypeOK
  <2>2. Complete(pioctl[n], pc)
    BY <1>2 DEF Release
  <2>3. Wakes(pioctl[n], pc)
    BY <2>1, <2>2, CompleteWakes
  <2>4. QED
    BY <1>2, <2>1, <2>3 DEF Release, Released, Wakes
<1>3. QED
  BY <1>1, <1>2

\* The parts of TypeOK.
QueueTypes ==
  /\ free \in Seq(Nodes) /\ pending \in Seq(Nodes)
  /\ curr \in Nodes \cup {NULL}
  /\ pioctl \in [Nodes -> Threads \cup {NULL}]
  /\ canceled \subseteq Nodes /\ leaked \subseteq Nodes

CallerTypes ==
  /\ eventOf \in [Threads -> Threads]
  /\ pc \in [Threads -> Steps]
  /\ unlinked \in [Threads -> Nodes \cup {NULL}]
  /\ \A t \in Threads : unlinked[t] # NULL <=> pc[t] = "unlinked"
  /\ condition \in [Threads -> BOOLEAN]
  /\ sem \in [Threads -> 0..SemMax]

WorkerTypes ==
  /\ wpc \in {"idle", "regs", "read", "handler", "clean", "loop", "send",
              "abandon"}
  /\ hand \in Nodes \cup {NULL}
  /\ hand # NULL <=> wpc \in {"clean", "abandon"}
  /\ wpc \in {"handler", "send"} => curr # NULL
  /\ local \in Threads \cup {NULL}

FlagTypes ==
  /\ timedOut \subseteq Threads
  /\ runs \in Nat
  /\ intPending \in BOOLEAN /\ regDbg \in BOOLEAN /\ cmdSent \in BOOLEAN
  /\ timerOn \in BOOLEAN /\ timerSet \in BOOLEAN /\ expiry \in BOOLEAN

CardTypes ==
  /\ card \in Nodes \cup {NULL} /\ answer \in Nodes \cup {NULL}
  /\ wpc = "read" => answer # NULL

Types == QueueTypes /\ CallerTypes /\ WorkerTypes /\ FlagTypes /\ CardTypes

LEMMA TypeParts == TypeOK <=> Types
BY DEF TypeOK, Types, QueueTypes, CallerTypes, WorkerTypes, FlagTypes,
       CardTypes

LEMMA ReleasedTypes ==
  ASSUME TypeOK, NEW n \in Nodes, Released(n)
  PROVE  /\ CallerTypes' /\ pioctl' \in [Nodes -> Threads \cup {NULL}]
         /\ canceled' \subseteq Nodes /\ hand' = n
<1>1. CallerTypes'
  <2>1. CASE pioctl[n] = NULL /\ UNCHANGED <<pc, sem, condition>>
    BY <2>1 DEF TypeOK, Released, CallerTypes
  <2>2. CASE pioctl[n] \in Threads /\ Wakes(pioctl[n], pc)
    BY <2>2 DEF TypeOK, Wakes, CallerTypes
  <2>3. QED
    BY <2>1, <2>2 DEF Released
<1>2. QED
  BY <1>1 DEF TypeOK, Released

-----------------------------------------------------------------------------
\* Types and places.

LEMMA InitBase == Init => Base
<1> SUFFICES ASSUME Init PROVE Base
  OBVIOUS
<1>1. /\ SetToSeq(Nodes) \in [1..Cardinality(Nodes) -> Nodes]
      /\ IsInjective(SetToSeq(Nodes))
      /\ Range(SetToSeq(Nodes)) = Nodes
      /\ Cardinality(Nodes) \in Nat
  <2>1. Cardinality(Nodes) \in Nat
        /\ ExistsBijection(1..Cardinality(Nodes), Nodes)
    BY Constants, FS_CardinalityType
  <2> DEFINE m == Cardinality(Nodes)
             q == SetToSeq(Nodes)
  <2>2. PICK f \in [1..m -> Nodes] : IsInjective(f)
    BY <2>1 DEF ExistsBijection, Bijection, Injection
  <2>3. q \in [1..m -> Nodes] /\ IsInjective(q)
    BY <2>2 DEF SetToSeq
  <2>4. IsFiniteSet(1..m) /\ Cardinality(1..m) = m
    <3> HIDE DEF m
    <3>1. 1 \in Int /\ m \in Nat
      BY <2>1 DEF m
    <3>2. QED
      BY <3>1, FS_Interval
  <2>5. q \in Injection(1..m, Nodes) /\ IsFiniteSet(Nodes)
    BY <2>3, Constants DEF Injection
  <2>6. q \in Surjection(1..m, Nodes)
    <3> HIDE DEF m, q
    <3>1. Cardinality(1..m) = Cardinality(Nodes) <=> q \in Surjection(1..m, Nodes)
      BY <2>5, FS_Injection
    <3>2. QED
      BY <3>1, <2>4 DEF m
  <2>7. Range(q) = Nodes
    <3> HIDE DEF m, q
    <3>1. /\ q \in [1..m -> Nodes]
          /\ \A n \in Nodes : \E i \in 1..m : q[i] = n
      BY <2>3, <2>6 DEF Surjection
    <3>2. QED
      BY <3>1 DEF Range
  <2>8. QED
    BY <2>1, <2>3, <2>7
<1>2. free \in Seq(Nodes) /\ IsInjective(free) /\ Range(free) = Nodes
  <2>1. free = SetToSeq(Nodes)
    BY DEF Init
  <2>2. free \in Seq(Nodes)
    BY <1>1, <2>1, SeqDef
  <2>3. QED
    BY <1>1, <2>1, <2>2
<1>3. pending \in Seq(Nodes) /\ IsInjective(pending) /\ Range(pending) = {}
  BY DEF Init, IsInjective, Range
<1>4. TypeOK
  <2>1. QueueTypes
    BY <1>2, <1>3 DEF Init, QueueTypes
  <2>2. CallerTypes
    <3>1. 0 \in 0..SemMax
      BY Constants
    <3>2. eventOf \in [Threads -> Threads]
      BY DEF Init
    <3>3. /\ pc \in [Threads -> Steps] /\ condition \in [Threads -> BOOLEAN]
          /\ sem \in [Threads -> 0..SemMax]
      BY <3>1 DEF Init, Steps
    <3>4. /\ unlinked \in [Threads -> Nodes \cup {NULL}]
          /\ \A t \in Threads : unlinked[t] # NULL <=> pc[t] = "unlinked"
      BY DEF Init
    <3>5. QED
      BY <3>2, <3>3, <3>4 DEF CallerTypes
  <2>3. WorkerTypes /\ FlagTypes /\ CardTypes
    BY DEF Init, WorkerTypes, FlagTypes, CardTypes
  <2>4. QED
    BY <2>1, <2>2, <2>3, TypeParts DEF Types
<1>5. Placed
  BY <1>2, <1>3, Constants
     DEF Init, Placed, OnePlace, AtCaller
<1>6. QED
  BY <1>4, <1>5 DEF Base

\* The driver thread has a node to send, or to answer.
LEMMA CurrThere ==
  ASSUME TypeOK, AnswerIsCurrent
  PROVE  wpc \in {"read", "handler", "send"} => curr \in Nodes
  BY DEF TypeOK, AnswerIsCurrent

LEMMA TypeStep ==
  ASSUME Base, AnswerIsCurrent, [Next]_vars
  PROVE  TypeOK'
<1> SUFFICES Types'
  BY DEF TypeOK, Types, QueueTypes, CallerTypes, WorkerTypes, FlagTypes,
         CardTypes
<1>a. QueueTypes /\ CallerTypes /\ WorkerTypes /\ FlagTypes /\ CardTypes
  BY TypeParts DEF Base, Types
<1>b. TypeOK /\ IsInjective(free) /\ IsInjective(pending)
  BY DEF Base, Placed
<1> USE DEF Types
<1>1. ASSUME NEW t \in Threads, Request(t) PROVE Types'
  BY <1>a, <1>1 DEF Request, QueueTypes, CallerTypes, WorkerTypes, FlagTypes,
     CardTypes, queues, callers, driver, work, timer, chip, Steps
<1>2. ASSUME NEW t \in Threads, RequestNoBuffer(t) PROVE Types'
  <2>1. /\ free # <<>> /\ free' = Tail(free)
        /\ leaked' = leaked \cup {Head(free)}
        /\ UNCHANGED <<pending, curr, pioctl, canceled>>
        /\ UNCHANGED <<callers, driver, work, timer, chip>>
    BY <1>2 DEF RequestNoBuffer
  <2>2. Head(free) \in Nodes /\ Tail(free) \in Seq(Nodes)
    BY <1>a, <2>1, HeadTailProperties DEF QueueTypes
  <2>3. QueueTypes'
    BY <1>a, <2>1, <2>2 DEF QueueTypes
  <2>4. CallerTypes' /\ WorkerTypes' /\ FlagTypes' /\ CardTypes'
    BY <1>a, <2>1 DEF CallerTypes, WorkerTypes, FlagTypes, CardTypes, callers,
       driver, work, timer, chip
  <2>5. QED
    BY <2>3, <2>4
<1>3. ASSUME NEW t \in Threads, QueueWork(t) PROVE Types'
  BY <1>a, <1>3 DEF QueueWork, QueueTypes, CallerTypes, WorkerTypes,
     FlagTypes, CardTypes, queues, callers, driver, work, timer, chip, Steps
<1>4. ASSUME NEW t \in Threads, Wait(t) PROVE Types'
  <2>1. CallerTypes'
    <3>1. CASE sem[eventOf[t]] > 0
      <4>1. sem[eventOf[t]] - 1 \in 0..SemMax
        <5>1. sem[eventOf[t]] \in 0..SemMax
          BY <1>a DEF CallerTypes
        <5>2. QED
          BY <3>1, <5>1, Constants
      <4>2. QED
        BY <3>1, <4>1, <1>a, <1>4 DEF Wait, CallerTypes, Steps
    <3>2. CASE ~(sem[eventOf[t]] > 0)
      BY <3>2, <1>a, <1>4 DEF Wait, CallerTypes, Steps
    <3>3. QED
      BY <3>1, <3>2
  <2>2. QueueTypes' /\ WorkerTypes' /\ FlagTypes' /\ CardTypes'
    BY <1>a, <1>4 DEF Wait, QueueTypes, WorkerTypes, FlagTypes, CardTypes,
       queues, driver, callers, work, timer, chip
  <2>3. QED
    BY <2>1, <2>2
<1>5. ASSUME NEW t \in Threads, Return(t) PROVE Types'
  BY <1>a, <1>5 DEF Return, QueueTypes, CallerTypes, WorkerTypes, FlagTypes,
     CardTypes, queues, callers, driver, work, timer, chip, Steps
<1>6. ASSUME NEW t \in Threads, WokenTooEarly(t) PROVE Types'
  BY <1>a, <1>6 DEF WokenTooEarly, QueueTypes, CallerTypes, WorkerTypes,
     FlagTypes, CardTypes, queues, callers, driver, work, timer, chip, Steps
<1>7. ASSUME NEW t \in Threads, CancelCurrent(t) PROVE Types'
  BY <1>a, <1>7 DEF CancelCurrent, QueueTypes, CallerTypes, WorkerTypes,
     FlagTypes, CardTypes, queues, callers, driver, work, timer, chip, Steps
<1>8. ASSUME NEW t \in Threads, CancelPending(t) PROVE Types'
  <2>1. PICK i \in DOMAIN pending :
          /\ pioctl[pending[i]] = t
          /\ pending' = RemoveAt(pending, i)
          /\ pioctl' = [pioctl EXCEPT ![pending[i]] = NULL]
          /\ unlinked' = [unlinked EXCEPT ![t] = pending[i]]
    BY <1>8 DEF CancelPending
  <2>2. pending[i] \in Nodes /\ pending' \in Seq(Nodes)
    BY <1>a, <1>b, <2>1, RemovePlaced DEF QueueTypes
  <2>3. QueueTypes'
    BY <1>a, <1>8, <2>1, <2>2 DEF CancelPending, QueueTypes
  <2>4. CallerTypes'
    BY <1>a, <1>8, <2>1, <2>2, Constants
       DEF CancelPending, CallerTypes, Steps
  <2>5. WorkerTypes' /\ FlagTypes' /\ CardTypes'
    BY <1>a, <1>8 DEF CancelPending, WorkerTypes, FlagTypes, CardTypes,
       driver, queues, callers, work, timer, chip
  <2>6. QED
    BY <2>3, <2>4, <2>5
<1>9. ASSUME NEW t \in Threads, CancelNothing(t) PROVE Types'
  BY <1>a, <1>9 DEF CancelNothing, QueueTypes, CallerTypes, WorkerTypes,
     FlagTypes, CardTypes, queues, callers, driver, work, timer, chip, Steps
<1>10. ASSUME NEW t \in Threads, CancelFree(t) PROVE Types'
  <2>1. QueueTypes'
    <3>1. unlinked[t] \in Nodes
      BY <1>a, <1>10 DEF CancelFree, CallerTypes
    <3>2. free' \in Seq(Nodes)
      BY <1>a, <1>10, <3>1, AppendProperties DEF CancelFree, QueueTypes
    <3>3. QED
      BY <1>a, <1>10, <3>2 DEF CancelFree, QueueTypes
  <2>2. CallerTypes' /\ WorkerTypes' /\ FlagTypes' /\ CardTypes'
    BY <1>a, <1>10 DEF CancelFree, CallerTypes, WorkerTypes, FlagTypes,
       CardTypes, callers, Steps, driver, queues, work, timer, chip
  <2>3. QED
    BY <2>1, <2>2
<1>11. ASSUME NEW t \in Threads, CancelComplete(t) PROVE Types'
  <2>1. CallerTypes'
    <3> DEFINE p == [pc EXCEPT ![t] = "woken"]
    <3>1. /\ p \in [Threads -> Steps] /\ Complete(t, p)
          /\ \A u \in Threads : pc[u] = "waiting" => p[u] = "waiting"
      BY <1>a, <1>11 DEF CancelComplete, CallerTypes, Steps
    <3>2. \A u \in Threads : p[u] = IF u = t THEN "woken" ELSE pc[u]
      BY <1>a DEF CallerTypes
    <3> HIDE DEF p
    <3>3. Wakes(t, p)
      BY <1>b, <3>1, CompleteWakes
    <3>4. pc[t] = "completing"
      BY <1>11 DEF CancelComplete
    <3>5. \A u \in Threads : unlinked[u] # NULL <=> pc'[u] = "unlinked"
      BY <1>a, <3>2, <3>3, <3>4 DEF Wakes, CallerTypes
    <3>6. QED
      BY <1>a, <3>3, <3>5 DEF Wakes, CallerTypes
  <2>2. QueueTypes' /\ WorkerTypes' /\ FlagTypes' /\ CardTypes'
    BY <1>a, <1>11 DEF CancelComplete, QueueTypes, WorkerTypes, FlagTypes,
       CardTypes, queues, driver, callers, work, timer, chip
  <2>3. QED
    BY <2>1, <2>2
<1>12. CASE WorkerStart
  <2>1. FlagTypes'
    <3>1. runs' \in Nat
      BY <1>a, <1>12 DEF WorkerStart, FlagTypes
    <3>2. QED
      BY <1>a, <1>12, <3>1 DEF WorkerStart, FlagTypes, callers, timer, chip
  <2>2. QueueTypes' /\ CallerTypes' /\ WorkerTypes' /\ CardTypes'
    BY <1>a, <1>12 DEF WorkerStart, QueueTypes, CallerTypes, WorkerTypes,
       CardTypes, queues, callers, Steps, driver, chip
  <2>3. QED
    BY <2>1, <2>2
<1>13. CASE WorkerDebug
  <2>1. FlagTypes'
    <3>1. runs' \in Nat
      BY <1>a, <1>13 DEF WorkerDebug, FlagTypes
    <3>2. QED
      BY <1>a, <1>13, <3>1 DEF WorkerDebug, FlagTypes, callers, timer, chip
  <2>2. QueueTypes' /\ CallerTypes' /\ WorkerTypes' /\ CardTypes'
    BY <1>a, <1>13 DEF WorkerDebug, QueueTypes, CallerTypes, WorkerTypes,
       CardTypes, queues, callers, Steps, driver, chip
  <2>3. QED
    BY <2>1, <2>2
<1>14. CASE ReadRegs
  BY <1>a, <1>14 DEF ReadRegs, QueueTypes, CallerTypes, WorkerTypes,
     FlagTypes, CardTypes, queues, callers, driver, work, timer, chip, Steps
<1>15. CASE AnswerCanceled
  <2>1. curr \in Nodes /\ Released(curr)
    BY <1>b, <1>15, CurrThere, ReleaseReleases DEF AnswerCanceled
  <2>2. /\ CallerTypes' /\ pioctl' \in [Nodes -> Threads \cup {NULL}]
        /\ canceled' \subseteq Nodes /\ hand' = curr
    BY <1>b, <2>1, ReleasedTypes
  <2>3. QueueTypes' /\ CallerTypes'
    BY <1>a, <1>15, <2>2 DEF AnswerCanceled, QueueTypes
  <2>4. WorkerTypes'
    BY <1>a, <1>15, <2>1, <2>2, Constants DEF AnswerCanceled, WorkerTypes
  <2>5. FlagTypes'
    BY <1>a, <1>15 DEF AnswerCanceled, StopTimer, FlagTypes, work, timer, chip
  <2>6. CardTypes'
    BY <1>a, <1>15 DEF AnswerCanceled, CardTypes, chip, driver
  <2>7. QED
    BY <2>3, <2>4, <2>5, <2>6
<1>16. CASE AnswerInvalid
  <2>1. curr \in Nodes /\ Released(curr)
    BY <1>b, <1>16, CurrThere, ReleaseReleases DEF AnswerInvalid
  <2>2. /\ CallerTypes' /\ pioctl' \in [Nodes -> Threads \cup {NULL}]
        /\ canceled' \subseteq Nodes /\ hand' = curr
    BY <1>b, <2>1, ReleasedTypes
  <2>3. QueueTypes' /\ CallerTypes'
    BY <1>a, <1>16, <2>2 DEF AnswerInvalid, QueueTypes
  <2>4. WorkerTypes'
    BY <1>a, <1>16, <2>1, <2>2, Constants DEF AnswerInvalid, WorkerTypes
  <2>5. FlagTypes'
    BY <1>a, <1>16 DEF AnswerInvalid, StopTimer, FlagTypes, work, timer, chip
  <2>6. CardTypes'
    BY <1>a, <1>16 DEF AnswerInvalid, CardTypes, chip, driver
  <2>7. QED
    BY <2>3, <2>4, <2>5, <2>6
<1>17. CASE AnswerHandled
  <2>1. WorkerTypes'
    BY <1>a, <1>b, <1>17, CurrThere, Constants
       DEF AnswerHandled, WorkerTypes, QueueTypes, queues
  <2>2. QueueTypes' /\ CallerTypes' /\ FlagTypes' /\ CardTypes'
    BY <1>a, <1>17 DEF AnswerHandled, StopTimer, QueueTypes, CallerTypes,
       FlagTypes, CardTypes, queues, callers, Steps, work, timer, chip, driver
  <2>3. QED
    BY <2>1, <2>2
<1>18. CASE HandlerDone
  <2>1. curr \in Nodes /\ Released(curr)
    BY <1>b, <1>18, CurrThere, ReleaseReleases DEF HandlerDone
  <2>2. /\ CallerTypes' /\ pioctl' \in [Nodes -> Threads \cup {NULL}]
        /\ canceled' \subseteq Nodes /\ hand' = curr
    BY <1>b, <2>1, ReleasedTypes
  <2>3. QueueTypes' /\ CallerTypes'
    BY <1>a, <1>18, <2>2 DEF HandlerDone, QueueTypes
  <2>4. WorkerTypes'
    BY <1>a, <1>18, <2>1, <2>2, Constants DEF HandlerDone, WorkerTypes
  <2>5. FlagTypes'
    BY <1>a, <1>18 DEF HandlerDone, StopTimer, FlagTypes, work, timer, chip
  <2>6. CardTypes'
    BY <1>a, <1>18 DEF HandlerDone, CardTypes, chip, driver
  <2>7. QED
    BY <2>3, <2>4, <2>5, <2>6
<1>19. CASE CleanDone
  <2>1. QueueTypes'
    <3>1. hand \in Nodes
      BY <1>a, <1>19 DEF CleanDone, WorkerTypes
    <3>2. free' \in Seq(Nodes)
      BY <1>a, <1>19, <3>1, AppendProperties DEF CleanDone, QueueTypes
    <3>3. QED
      BY <1>a, <1>19, <3>2 DEF CleanDone, QueueTypes
  <2>2. CallerTypes' /\ WorkerTypes' /\ FlagTypes' /\ CardTypes'
    BY <1>a, <1>19 DEF CleanDone, CallerTypes, WorkerTypes, FlagTypes,
       CardTypes, callers, Steps, driver, queues, work, timer, chip
  <2>3. QED
    BY <2>1, <2>2
<1>20. CASE SendNext
  <2>1. Head(pending) \in Nodes /\ Tail(pending) \in Seq(Nodes)
    BY <1>a, <1>20, HeadTailProperties DEF SendNext, MaySend, QueueTypes
  <2>2. QueueTypes'
    BY <1>a, <1>20, <2>1 DEF SendNext, QueueTypes
  <2>3. WorkerTypes'
    BY <1>a, <1>20, <2>1, Constants
       DEF SendNext, WorkerTypes, QueueTypes
  <2>4. CallerTypes' /\ FlagTypes' /\ CardTypes'
    BY <1>a, <1>20 DEF SendNext, CallerTypes, FlagTypes, CardTypes, callers,
       Steps, work, timer, chip, driver
  <2>5. QED
    BY <2>2, <2>3, <2>4
<1>21. CASE SendDone
  <2>1. CardTypes'
    BY <1>a, <1>21 DEF SendDone, CardTypes, QueueTypes, queues
  <2>2. QueueTypes' /\ CallerTypes' /\ WorkerTypes' /\ FlagTypes'
    BY <1>a, <1>21 DEF SendDone, QueueTypes, CallerTypes, WorkerTypes,
       FlagTypes, queues, callers, Steps, driver, work, timer, chip
  <2>3. QED
    BY <2>1, <2>2
<1>22. CASE SendFails
  <2>1. curr \in Nodes /\ Released(curr)
    BY <1>b, <1>22, CurrThere, ReleaseReleases DEF SendFails
  <2>2. /\ CallerTypes' /\ pioctl' \in [Nodes -> Threads \cup {NULL}]
        /\ canceled' \subseteq Nodes /\ hand' = curr
    BY <1>b, <2>1, ReleasedTypes
  <2>3. QueueTypes' /\ CallerTypes'
    BY <1>a, <1>22, <2>2 DEF SendFails, QueueTypes
  <2>4. WorkerTypes'
    BY <1>a, <1>22, <2>1, <2>2, Constants DEF SendFails, WorkerTypes
  <2>5. FlagTypes'
    BY <1>a, <1>22 DEF SendFails, StopTimer, FlagTypes, work, timer, chip
  <2>6. CardTypes'
    BY <1>a, <1>22 DEF SendFails, CardTypes, chip, driver
  <2>7. QED
    BY <2>3, <2>4, <2>5, <2>6
<1>23. CASE AbandonDone
  <2>1. QueueTypes'
    <3>1. hand \in Nodes
      BY <1>a, <1>23 DEF AbandonDone, WorkerTypes
    <3>2. free' \in Seq(Nodes)
      BY <1>a, <1>23, <3>1, AppendProperties DEF AbandonDone, QueueTypes
    <3>3. QED
      BY <1>a, <1>23, <3>2 DEF AbandonDone, QueueTypes
  <2>2. CallerTypes' /\ WorkerTypes' /\ FlagTypes' /\ CardTypes'
    BY <1>a, <1>23 DEF AbandonDone, CallerTypes, WorkerTypes, FlagTypes,
       CardTypes, callers, Steps, driver, queues, work, timer, chip
  <2>3. QED
    BY <2>1, <2>2
<1>24. CASE WorkerIdle
  BY <1>a, <1>24 DEF WorkerIdle, QueueTypes, CallerTypes, WorkerTypes,
     FlagTypes, CardTypes, queues, callers, driver, work, timer, chip, Steps
<1>25. CASE TimerExpires
  <2>1. FlagTypes'
    BY <1>a, <1>25 DEF TimerExpires, FlagTypes, callers, work, chip
  <2>2. QueueTypes' /\ CallerTypes' /\ WorkerTypes' /\ CardTypes'
    BY <1>a, <1>25 DEF TimerExpires, QueueTypes, CallerTypes, WorkerTypes,
       CardTypes, queues, callers, driver, chip
  <2>3. QED
    BY <2>1, <2>2
<1>26. CASE Timeout
  <2>1. FlagTypes'
    <3>1. runs' \in Nat /\ timedOut' \subseteq Threads
      BY <1>a, <1>26 DEF Timeout, FlagTypes, QueueTypes
    <3>2. QED
      BY <1>a, <1>26, <3>1 DEF Timeout, FlagTypes, chip
  <2>2. QueueTypes' /\ CallerTypes' /\ WorkerTypes' /\ CardTypes'
    BY <1>a, <1>26 DEF Timeout, QueueTypes, CallerTypes, WorkerTypes,
       CardTypes, queues, callers, Steps, driver, chip
  <2>3. QED
    BY <2>1, <2>2
<1>27. CASE CardAnswers
  BY <1>a, <1>27 DEF CardAnswers, Interrupt, QueueTypes, CallerTypes,
     WorkerTypes, FlagTypes, CardTypes, queues, callers, driver, work, timer,
     chip, Steps
<1>28. CASE CardNotifies
  BY <1>a, <1>28 DEF CardNotifies, Interrupt, QueueTypes, CallerTypes,
     WorkerTypes, FlagTypes, CardTypes, queues, callers, driver, work, timer,
     chip, Steps
<1>29. CASE UNCHANGED vars
  BY <1>a, <1>29 DEF vars, QueueTypes, CallerTypes, WorkerTypes, FlagTypes,
     CardTypes, queues, callers, driver, work, timer, chip, Steps
<1>30. QED
  BY <1>1, <1>2, <1>3, <1>4, <1>5, <1>6, <1>7, <1>8, <1>9, <1>10, <1>11,
     <1>12, <1>13, <1>14, <1>15, <1>16, <1>17, <1>18, <1>19, <1>20, <1>21,
     <1>22, <1>23, <1>24, <1>25, <1>26, <1>27, <1>28, <1>29 DEF Next, Proceed,
     Cancel, Worker

\* What a step does that moves no node.
LEMMA NothingMoves ==
  ASSUME Placed, UNCHANGED <<free, pending, curr, hand, leaked, unlinked>>
  PROVE  Placed'
BY DEF Placed, OnePlace, AtCaller

LEMMA PlacedStep ==
  ASSUME Base, AnswerIsCurrent, DriverShape, [Next]_vars
  PROVE  Placed'
<1>a. /\ TypeOK /\ Placed
      /\ free \in Seq(Nodes) /\ IsInjective(free)
      /\ pending \in Seq(Nodes) /\ IsInjective(pending)
      /\ unlinked \in [Threads -> Nodes \cup {NULL}]
      /\ \A t \in Threads : unlinked[t] # NULL <=> pc[t] = "unlinked"
      /\ hand # NULL <=> wpc \in {"clean", "abandon"}
      /\ curr \in Nodes \cup {NULL} /\ hand \in Nodes \cup {NULL}
      /\ \A n \in Nodes : OnePlace(n)
      /\ \A t, u \in Threads : unlinked[t] # NULL /\ unlinked[t] = unlinked[u]
                                  => t = u
  BY DEF Base, TypeOK, Placed
<1>1. ASSUME NEW t \in Threads, Request(t) PROVE Placed'
  <2>1. /\ free # <<>> /\ free' = Tail(free)
        /\ pending' = Append(pending, Head(free))
        /\ UNCHANGED <<curr, hand, leaked, unlinked>>
    BY <1>1 DEF Request, driver
  <2>2. /\ Head(free) \in Range(free) /\ Head(free) \in Nodes
        /\ IsInjective(free') /\ Range(free') = Range(free) \ {Head(free)}
    BY <1>a, <2>1, TailPlaced
  <2>3. /\ IsInjective(pending')
        /\ Range(pending') = Range(pending) \cup {Head(free)}
    <3>1. Head(free) \notin Range(pending)
      BY <1>a, <2>2 DEF OnePlace
    <3>2. QED
      BY <1>a, <2>1, <2>2, <3>1, AppendPlaced
  <2>4. QED
    BY <1>a, <2>1, <2>2, <2>3 DEF Placed, OnePlace, AtCaller
<1>2. ASSUME NEW t \in Threads, RequestNoBuffer(t) PROVE Placed'
  <2>1. /\ free # <<>> /\ free' = Tail(free)
        /\ leaked' = leaked \cup {Head(free)}
        /\ UNCHANGED <<pending, curr, hand, unlinked>>
    BY <1>2 DEF RequestNoBuffer, callers, driver
  <2>2. /\ Head(free) \in Range(free) /\ Head(free) \in Nodes
        /\ IsInjective(free') /\ Range(free') = Range(free) \ {Head(free)}
    BY <1>a, <2>1, TailPlaced
  <2>3. QED
    BY <1>a, <2>1, <2>2 DEF Placed, OnePlace, AtCaller
<1>3. ASSUME NEW t \in Threads, CancelPending(t) PROVE Placed'
  <2>1. PICK i \in DOMAIN pending :
          /\ pending' = RemoveAt(pending, i)
          /\ unlinked' = [unlinked EXCEPT ![t] = pending[i]]
    BY <1>3 DEF CancelPending
  <2>2. /\ UNCHANGED <<free, curr, hand, leaked>> /\ unlinked[t] = NULL
    BY <1>3, <1>a DEF CancelPending, driver
  <2> DEFINE x == pending[i]
  <2>3. /\ x \in Range(pending) /\ x \in Nodes
        /\ IsInjective(pending') /\ Range(pending') = Range(pending) \ {x}
    BY <1>a, <2>1, RemovePlaced
  <2>4. /\ x # NULL /\ ~AtCaller(x)
        /\ \A u \in Threads : unlinked'[u] = IF u = t THEN x ELSE unlinked[u]
    BY <1>a, <2>1, <2>3, Constants DEF OnePlace
  <2> HIDE DEF x
  <2>5. \A n \in Nodes : AtCaller(n)' <=> AtCaller(n) \/ n = x
    BY <2>2, <2>3, <2>4, Constants DEF AtCaller
  <2>6. \A u, v \in Threads : unlinked'[u] # NULL /\ unlinked'[u] = unlinked'[v]
                                => u = v
    BY <1>a, <2>4 DEF AtCaller
  <2>7. \A n \in Nodes : OnePlace(n)'
    BY <1>a, <2>2, <2>3, <2>4, <2>5 DEF OnePlace
  <2>8. QED
    BY <1>a, <2>2, <2>3, <2>6, <2>7 DEF Placed
<1>4. ASSUME NEW t \in Threads, CancelFree(t) PROVE Placed'
  <2> DEFINE x == unlinked[t]
  <2>1. /\ free' = Append(free, x) /\ unlinked' = [unlinked EXCEPT ![t] = NULL]
        /\ UNCHANGED <<pending, curr, hand, leaked>>
        /\ x \in Nodes /\ AtCaller(x)
    BY <1>4, <1>a DEF CancelFree, driver, AtCaller
  <2>2. \A u \in Threads : unlinked'[u] = IF u = t THEN NULL ELSE unlinked[u]
    BY <1>a, <2>1
  <2>3. \A u \in Threads : unlinked[u] = x => u = t
    BY <1>a, <2>1, Constants
  <2> HIDE DEF x
  <2>4. \A n \in Nodes : AtCaller(n)' <=> AtCaller(n) /\ n # x
    <3> SUFFICES ASSUME NEW n \in Nodes
                 PROVE  AtCaller(n)' <=> AtCaller(n) /\ n # x
      OBVIOUS
    <3>1. ASSUME AtCaller(n)' PROVE AtCaller(n) /\ n # x
      BY <2>2, <2>3, <3>1, Constants DEF AtCaller
    <3>2. ASSUME AtCaller(n), n # x PROVE AtCaller(n)'
      BY <2>2, <3>2 DEF AtCaller, x
    <3>3. QED
      BY <3>1, <3>2
  <2>5. x \notin Range(free)
    BY <1>a, <2>1 DEF OnePlace
  <2>6. IsInjective(free') /\ Range(free') = Range(free) \cup {x}
    BY <1>a, <2>1, <2>5, AppendPlaced
  <2>7. \A n \in Nodes : OnePlace(n)'
    BY <1>a, <2>1, <2>4, <2>6 DEF OnePlace
  <2>8. QED
    BY <1>a, <2>1, <2>2, <2>6, <2>7 DEF Placed
<1>5. ASSUME UNCHANGED <<free, pending, leaked, unlinked>>,
             {curr', hand'} \ {NULL} = {curr, hand} \ {NULL}
      PROVE  Placed'
  <2>1. \A n \in Nodes : n \in {curr', hand'} <=> n \in {curr, hand}
    BY <1>5, Constants
  <2>2. QED
    BY <1>a, <1>5, <2>1 DEF Placed, OnePlace, AtCaller
<1>6. CASE AnswerCanceled \/ AnswerInvalid \/ HandlerDone \/ SendFails
  <2>1. curr \in Nodes /\ Released(curr) /\ hand = NULL
    BY <1>6, <1>a, CurrThere, ReleaseReleases
       DEF AnswerCanceled, AnswerInvalid, HandlerDone, SendFails
  <2>2. /\ hand' = curr /\ unlinked' = unlinked /\ curr' \in {NULL, curr}
        /\ UNCHANGED <<free, pending, leaked>>
    BY <1>6, <2>1
       DEF AnswerCanceled, AnswerInvalid, HandlerDone, SendFails, Released
  <2>3. QED
    BY <1>5, <2>1, <2>2
<1>7. CASE CleanDone \/ AbandonDone
  <2>1. /\ hand \in Nodes /\ curr \in {NULL, hand} /\ curr' = NULL /\ hand' = NULL
        /\ free' = Append(free, hand)
        /\ UNCHANGED <<pending, leaked, unlinked>>
    BY <1>7, <1>a DEF CleanDone, AbandonDone, DriverShape, callers
  <2>2. hand \notin Range(free)
    BY <1>a, <2>1 DEF OnePlace
  <2>3. IsInjective(free') /\ Range(free') = Range(free) \cup {hand}
    BY <1>a, <2>1, <2>2, AppendPlaced
  <2>4. \A n \in Nodes : OnePlace(n)'
    BY <1>a, <2>1, <2>3, Constants DEF OnePlace, AtCaller
  <2>5. QED
    BY <1>a, <2>1, <2>3, <2>4 DEF Placed
<1>8. CASE SendNext
  <2>1. /\ pending # <<>> /\ pending' = Tail(pending) /\ curr' = Head(pending)
        /\ curr = NULL /\ hand = NULL /\ hand' = NULL
        /\ UNCHANGED <<free, leaked, unlinked>>
    BY <1>8, <1>a DEF SendNext, MaySend, callers
  <2>2. /\ curr' \in Range(pending) /\ curr' \in Nodes
        /\ IsInjective(pending') /\ Range(pending') = Range(pending) \ {curr'}
    BY <1>a, <2>1, TailPlaced
  <2>3. \A n \in Nodes : OnePlace(n)'
    BY <1>a, <2>1, <2>2, Constants DEF OnePlace, AtCaller
  <2>4. QED
    BY <1>a, <2>1, <2>2, <2>3 DEF Placed
<1>9. ASSUME NEW t \in Threads,
             \/ QueueWork(t) \/ Wait(t) \/ Return(t) \/ WokenTooEarly(t)
             \/ CancelCurrent(t) \/ CancelNothing(t) \/ CancelComplete(t)
      PROVE  Placed'
  <2>1. UNCHANGED <<free, pending, curr, hand, leaked, unlinked>>
    BY <1>9 DEF QueueWork, Wait, Return, WokenTooEarly, CancelCurrent,
       CancelNothing, CancelComplete, Complete, queues, driver
  <2>2. QED
    BY <1>a, <2>1, NothingMoves
<1>10. CASE \/ WorkerStart \/ WorkerDebug \/ ReadRegs \/ AnswerHandled
            \/ SendDone \/ WorkerIdle \/ TimerExpires \/ Timeout
            \/ CardAnswers \/ CardNotifies \/ UNCHANGED vars
  <2>1. UNCHANGED <<free, pending, curr, hand, leaked, unlinked>>
    BY <1>10 DEF WorkerStart, WorkerDebug, ReadRegs, AnswerHandled, SendDone,
       WorkerIdle, TimerExpires, Timeout, CardAnswers, CardNotifies, vars,
       queues, driver, callers
  <2>2. QED
    BY <1>a, <2>1, NothingMoves
<1>11. QED
  BY <1>1, <1>2, <1>3, <1>4, <1>6, <1>7, <1>8, <1>9, <1>10
     DEF Next, Proceed, Cancel, Worker

-----------------------------------------------------------------------------
\* The current command and its answer.

LEMMA DriverStep ==
  ASSUME Base, Tracked, DriverShape, AnswerIsCurrent, [Next]_vars
  PROVE  DriverShape' /\ AnswerIsCurrent'
<1>a. /\ TypeOK
      /\ hand # NULL <=> wpc \in {"clean", "abandon"}
      /\ wpc = "read" => answer # NULL
      /\ curr \in Nodes \cup {NULL} /\ hand \in Nodes \cup {NULL}
      /\ card \in Nodes \cup {NULL} /\ answer \in Nodes \cup {NULL}
      /\ canceled \subseteq Nodes
      /\ pioctl \in [Nodes -> Threads \cup {NULL}]
      /\ pending \in Seq(Nodes) /\ free \in Seq(Nodes)
      /\ IsInjective(free) /\ IsInjective(pending)
      /\ \A n \in Nodes : OnePlace(n)
  BY DEF Base, TypeOK, Placed
<1>b. /\ wpc = "clean" => curr \in {NULL, hand}
      /\ wpc = "abandon" => curr = hand
      /\ hand # NULL => pioctl[hand] = NULL /\ canceled = {}
      /\ wpc \in {"send", "handler", "clean", "abandon"} =>
           card = NULL /\ answer = NULL
      /\ \A n \in canceled : n = curr /\ pioctl[n] = NULL
      /\ card # NULL => card = curr /\ answer = NULL
      /\ answer # NULL => answer = curr
  BY DEF DriverShape, AnswerIsCurrent
<1> USE DEF DriverShape, AnswerIsCurrent
<1>1. ASSUME NEW t \in Threads, Request(t)
      PROVE  DriverShape' /\ AnswerIsCurrent'
  <2>1. /\ free # <<>> /\ pioctl' = [pioctl EXCEPT ![Head(free)] = t]
        /\ UNCHANGED <<curr, canceled, wpc, hand, card, answer>>
    BY <1>1 DEF Request, driver, chip
  <2>2. Head(free) \in Range(free) /\ Head(free) \in Nodes
    BY <1>a, <2>1, TailPlaced
  <2>3. Head(free) \notin {curr, hand}
    BY <1>a, <2>2 DEF OnePlace
  <2>4. QED
    BY <1>a, <1>b, <2>1, <2>2, <2>3
<1>2. ASSUME NEW t \in Threads, CancelCurrent(t)
      PROVE  DriverShape' /\ AnswerIsCurrent'
  <2>1. /\ curr \in Nodes /\ pioctl[curr] \in Threads
        /\ pioctl' = [pioctl EXCEPT ![curr] = NULL]
        /\ canceled' = canceled \cup {curr}
        /\ UNCHANGED <<curr, wpc, hand, card, answer>>
    BY <1>a, <1>2 DEF CancelCurrent, driver, chip
  <2>2. hand = NULL /\ wpc \notin {"clean", "abandon"}
    BY <1>a, <1>b, <2>1, Constants
  <2>3. \A n \in canceled' : n = curr /\ pioctl'[n] = NULL
    BY <1>a, <1>b, <2>1
  <2>4. QED
    BY <1>b, <2>1, <2>2, <2>3
<1>3. ASSUME NEW t \in Threads, CancelPending(t)
      PROVE  DriverShape' /\ AnswerIsCurrent'
  <2>1. PICK i \in DOMAIN pending :
          pioctl' = [pioctl EXCEPT ![pending[i]] = NULL]
    BY <1>3 DEF CancelPending
  <2>2. UNCHANGED <<curr, canceled, wpc, hand, card, answer>>
    BY <1>3 DEF CancelPending, driver, chip
  <2>3. \A n \in Nodes : pioctl[n] = NULL => pioctl'[n] = NULL
    BY <1>a, <2>1
  <2>4. QED
    BY <1>a, <1>b, <2>2, <2>3
<1>4. CASE AnswerCanceled \/ AnswerInvalid \/ HandlerDone \/ SendFails
  <2>1. curr \in Nodes /\ Released(curr)
    BY <1>4, <1>a, CurrThere, ReleaseReleases
       DEF AnswerCanceled, AnswerInvalid, HandlerDone, SendFails
  <2>2. /\ hand' = curr /\ pioctl' = [pioctl EXCEPT ![curr] = NULL]
        /\ canceled' = {}
    BY <1>b, <2>1 DEF Released
  <2>3. card = NULL /\ card' = NULL /\ answer' = NULL
    BY <1>4, <1>a, <1>b
       DEF AnswerCanceled, AnswerInvalid, HandlerDone, SendFails, chip
  <2>4. \/ wpc' = "clean" /\ curr' \in {NULL, curr}
        \/ wpc' = "abandon" /\ curr' = curr
    BY <1>4 DEF AnswerCanceled, AnswerInvalid, HandlerDone, SendFails
  <2>5. pioctl'[curr] = NULL
    BY <1>a, <2>1, <2>2
  <2>6. QED
    BY <2>2, <2>3, <2>4, <2>5
<1>5. CASE AnswerHandled
  BY <1>a, <1>b, <1>5 DEF AnswerHandled, queues
<1>6. CASE CleanDone \/ AbandonDone
  <2>1. /\ curr \in {NULL, hand} /\ curr' = NULL /\ hand' = NULL
        /\ pioctl[hand] = NULL
        /\ card' = NULL /\ answer' = NULL /\ wpc' \in {"loop", "idle"}
        /\ UNCHANGED <<pioctl, canceled>>
    BY <1>a, <1>b, <1>6 DEF CleanDone, AbandonDone, chip
  <2>2. canceled = {}
    BY <1>6, <1>a, <1>b DEF CleanDone, AbandonDone
  <2>3. QED
    BY <2>1, <2>2
<1>7. CASE SendNext
  <2>1. /\ curr = NULL /\ hand = NULL /\ hand' = NULL /\ wpc' = "send"
        /\ card' = NULL /\ answer' = NULL
        /\ UNCHANGED canceled
    BY <1>a, <1>b, <1>7 DEF SendNext, MaySend
  <2>2. canceled = {}
    BY <1>a, <1>b, <2>1, Constants
  <2>3. QED
    BY <2>1, <2>2
<1>8. CASE SendDone
  BY <1>a, <1>b, <1>8 DEF SendDone, queues
<1>9. CASE ReadRegs \/ CardAnswers
  BY <1>a, <1>b, <1>9 DEF ReadRegs, CardAnswers, queues, driver
<1>10. CASE \/ WorkerStart \/ WorkerDebug \/ WorkerIdle \/ TimerExpires
            \/ Timeout \/ CardNotifies \/ UNCHANGED vars
  <2>1. /\ UNCHANGED <<curr, hand, pioctl, canceled, card, answer>>
        /\ wpc' \in {wpc, "regs", "loop", "idle"}
    BY <1>10 DEF WorkerStart, WorkerDebug, WorkerIdle, TimerExpires, Timeout,
       CardNotifies, vars, queues, driver, chip
  <2>2. QED
    BY <1>b, <2>1
<1>11. ASSUME NEW t \in Threads,
              \/ RequestNoBuffer(t) \/ QueueWork(t) \/ Wait(t) \/ Return(t)
              \/ WokenTooEarly(t) \/ CancelNothing(t) \/ CancelFree(t)
              \/ CancelComplete(t)
       PROVE  DriverShape' /\ AnswerIsCurrent'
  <2>1. UNCHANGED <<curr, hand, wpc, pioctl, canceled, card, answer>>
    BY <1>11 DEF RequestNoBuffer, QueueWork, Wait, Return, WokenTooEarly,
       CancelNothing, CancelFree, CancelComplete, queues, driver, chip
  <2>2. QED
    BY <1>b, <2>1
<1>12. QED
  BY <1>1, <1>2, <1>3, <1>4, <1>5, <1>6, <1>7, <1>8, <1>9, <1>10, <1>11
     DEF Next, Proceed, Cancel, Worker

-----------------------------------------------------------------------------
\* A request and its node.

\* The completion of t's request ends it, and wakes no thread to another.
LEMMA WakesActive ==
  ASSUME TypeOK, NEW t \in Threads, NEW p \in [Threads -> Steps], Wakes(t, p),
         \A u \in Threads : u # t => p[u] = pc[u]
  PROVE  /\ \A u \in Threads : Active(u)' <=> Active(u) /\ u # t
         /\ \A u \in Threads : pc'[u] = "idle" => p[u] = "idle"
         /\ \A u \in Threads : u # t => condition'[u] = condition[u]
<1>1. \A u \in Threads : condition'[u] = IF u = t THEN TRUE ELSE condition[u]
  BY DEF Wakes, TypeOK
<1>2. \A u \in Threads :
        \/ pc'[u] = p[u]
        \/ p[u] = "waiting" /\ pc'[u] = "woken"
  BY DEF Wakes
<1>3. QED
  BY <1>1, <1>2 DEF Active

\* A step takes the request of node x, that of t, or of no node.
Takes(t, x) ==
  /\ x # NULL => pioctl[x] = t
  /\ \A u \in Threads : u = t /\ Active(u) => x # NULL
  /\ \A n \in Nodes : pioctl'[n] = IF n = x THEN NULL ELSE pioctl[n]
  /\ \A n \in Nodes : n # x /\ pioctl[n] # NULL =>
                        n \in Range(pending') \/ n = curr'
  /\ \A u \in Threads : Active(u)' <=> Active(u) /\ u # t
  /\ \A u \in Threads : pc'[u] = "idle" => ~condition'[u]

LEMMA Taken ==
  ASSUME TypeOK, Tracked,
         NEW t \in Threads \cup {NULL}, NEW x \in Nodes \cup {NULL},
         Takes(t, x)
  PROVE  Tracked'
<1>a. pioctl \in [Nodes -> Threads \cup {NULL}] /\ NULL \notin Nodes
      /\ NULL \notin Threads
  BY Constants DEF TypeOK
<1>b. /\ \A n, m \in Nodes : pioctl[n] # NULL /\ pioctl[n] = pioctl[m] => n = m
      /\ \A n \in Nodes, u \in Threads : pioctl[n] = u => Active(u)
      /\ \A u \in Threads : Active(u) => \E n \in Nodes : pioctl[n] = u
  BY DEF Tracked
<1> USE DEF Takes
<1>1. \A n, m \in Nodes :
        pioctl'[n] # NULL /\ pioctl'[n] = pioctl'[m] => n = m
  BY <1>b
<1>2. ASSUME NEW n \in Nodes, NEW u \in Threads, pioctl'[n] = u
      PROVE  (n \in Range(pending') \/ n = curr') /\ Active(u)'
  <2>1. n # x /\ pioctl[n] = u /\ pioctl[n] # NULL
    BY <1>a, <1>2
  <2>2. Active(u)
    BY <1>b, <2>1
  <2>3. u # t
    BY <1>a, <1>b, <2>1, <2>2
  <2>4. QED
    BY <2>1, <2>2, <2>3
<1>3. ASSUME NEW u \in Threads, Active(u)'
      PROVE  \E n \in Nodes : pioctl'[n] = u
  <2>1. Active(u) /\ u # t
    BY <1>3
  <2>2. PICK n \in Nodes : pioctl[n] = u
    BY <1>b, <2>1
  <2>3. n # x
    BY <1>a, <2>1, <2>2
  <2>4. QED
    BY <2>2, <2>3
<1>4. QED
  BY <1>1, <1>2, <1>3 DEF Tracked

\* A step that changes neither a node nor who waits for an answer.
LEMMA NotTaken ==
  ASSUME TypeOK, Tracked, UNCHANGED pioctl,
         \A n \in Nodes : pioctl[n] # NULL =>
                            n \in Range(pending') \/ n = curr',
         \A u \in Threads : Active(u)' <=> Active(u),
         \A u \in Threads : pc'[u] = "idle" => ~condition'[u]
  PROVE  Tracked'
<1>1. Takes(NULL, NULL) /\ NULL \in Threads \cup {NULL} /\ NULL \in Nodes \cup {NULL}
  BY Constants DEF Takes
<1>2. QED
  BY <1>1, Taken

LEMMA TrackedStep ==
  ASSUME Base, Tracked, DriverShape, AnswerIsCurrent, [Next]_vars
  PROVE  Tracked'
<1>a. /\ TypeOK
      /\ pioctl \in [Nodes -> Threads \cup {NULL}]
      /\ pc \in [Threads -> Steps] /\ condition \in [Threads -> BOOLEAN]
      /\ curr \in Nodes \cup {NULL} /\ hand \in Nodes \cup {NULL}
      /\ hand # NULL <=> wpc \in {"clean", "abandon"}
      /\ pending \in Seq(Nodes) /\ free \in Seq(Nodes)
      /\ IsInjective(free) /\ IsInjective(pending)
      /\ \A n \in Nodes : OnePlace(n)
  BY DEF Base, TypeOK, Placed
<1>b. /\ \A n, m \in Nodes : pioctl[n] # NULL /\ pioctl[n] = pioctl[m] => n = m
      /\ \A n \in Nodes, t \in Threads : pioctl[n] = t =>
           (n \in Range(pending) \/ n = curr) /\ Active(t)
      /\ \A t \in Threads : Active(t) => \E n \in Nodes : pioctl[n] = t
      /\ \A t \in Threads : pc[t] = "idle" => ~condition[t]
  BY DEF Tracked
<1>c. \A n \in Nodes : pioctl[n] # NULL => n \in Range(pending) \/ n = curr
  BY <1>a, <1>b
<1>1. ASSUME NEW t \in Threads, Request(t) PROVE Tracked'
  <2> DEFINE h == Head(free)
  <2>1. /\ free # <<>> /\ pending' = Append(pending, h)
        /\ pioctl' = [pioctl EXCEPT ![h] = t]
        /\ pc[t] = "idle" /\ pc' = [pc EXCEPT ![t] = "queued"]
        /\ UNCHANGED <<curr, condition>>
    BY <1>1 DEF Request
  <2>2. h \in Range(free) /\ h \in Nodes
    BY <1>a, <2>1, TailPlaced
  <2>3. Range(pending') = Range(pending) \cup {h}
    <3>1. h \notin Range(pending)
      BY <1>a, <2>2 DEF OnePlace
    <3>2. QED
      BY <1>a, <2>1, <2>2, <3>1, AppendPlaced
  <2> HIDE DEF h
  <2>4. \A n \in Nodes : pioctl'[n] = IF n = h THEN t ELSE pioctl[n]
    BY <1>a, <2>1
  <2>5. ~Active(t) /\ ~condition[t] /\ t # NULL
    BY <1>b, <2>1, Constants DEF Active
  <2>6. \A u \in Threads : Active(u)' <=> Active(u) \/ u = t
    BY <1>a, <2>1, <2>5 DEF Active
  <2>7. pioctl[h] = NULL
    <3>1. h \notin Range(pending) /\ h # curr
      BY <1>a, <2>2 DEF OnePlace
    <3>2. QED
      BY <1>a, <1>b, <2>2, <3>1
  <2>8. \A n, m \in Nodes :
          pioctl'[n] # NULL /\ pioctl'[n] = pioctl'[m] => n = m
    BY <1>b, <2>4, <2>5
  <2>9. \A n \in Nodes, u \in Threads : pioctl'[n] = u =>
          (n \in Range(pending') \/ n = curr') /\ Active(u)'
    <3> SUFFICES ASSUME NEW n \in Nodes, NEW u \in Threads, pioctl'[n] = u
                 PROVE  (n \in Range(pending') \/ n = curr') /\ Active(u)'
      OBVIOUS
    <3>1. CASE n = h
      BY <2>2, <2>3, <2>4, <2>6, <3>1
    <3>2. CASE n # h
      <4>1. pioctl[n] = u
        BY <2>4, <3>2
      <4>2. QED
        BY <1>b, <2>1, <2>3, <2>6, <4>1
    <3>3. QED
      BY <3>1, <3>2
  <2>10. \A u \in Threads : Active(u)' => \E n \in Nodes : pioctl'[n] = u
    BY <1>b, <2>2, <2>4, <2>6, <2>7, Constants
  <2>11. \A u \in Threads : pc'[u] = "idle" => ~condition'[u]
    BY <1>a, <1>b, <2>1
  <2>12. QED
    BY <2>8, <2>9, <2>10, <2>11 DEF Tracked
<1>3. CASE AnswerCanceled \/ AnswerInvalid \/ HandlerDone \/ SendFails
  <2>1. curr \in Nodes /\ Released(curr)
    BY <1>3, <1>a, CurrThere, ReleaseReleases
       DEF AnswerCanceled, AnswerInvalid, HandlerDone, SendFails
  <2>2. /\ pending' = pending /\ curr' \in {NULL, curr}
        /\ pioctl' = [pioctl EXCEPT ![curr] = NULL]
    BY <1>3, <2>1
       DEF AnswerCanceled, AnswerInvalid, HandlerDone, SendFails, Released
  <2>3. /\ \A n \in Nodes :
             pioctl'[n] = IF n = curr THEN NULL ELSE pioctl[n]
        /\ \A n \in Nodes : n # curr /\ pioctl[n] # NULL =>
                              n \in Range(pending') \/ n = curr'
    BY <1>a, <1>b, <2>1, <2>2
  <2>4. CASE pioctl[curr] = NULL /\ UNCHANGED <<pc, sem, condition>>
    <3>1. /\ \A u \in Threads : Active(u)' <=> Active(u) /\ u # NULL
          /\ \A u \in Threads : pc'[u] = "idle" => ~condition'[u]
      BY <1>b, <2>4, Constants DEF Active
    <3> DEFINE t == pioctl[curr]
    <3>2. t \in Threads \cup {NULL} /\ t = NULL
      BY <2>4
    <3> HIDE DEF t
    <3>3. Takes(t, curr)
      BY <2>1, <2>3, <2>4, <3>1, <3>2, Constants DEF t, Takes
    <3>4. QED
      BY Taken, <1>a, <3>2, <3>3
  <2>5. CASE pioctl[curr] \in Threads /\ Wakes(pioctl[curr], pc)
    <3> DEFINE t == pioctl[curr]
    <3>1. t \in Threads /\ Wakes(t, pc) /\ Active(t)
      BY <1>b, <2>1, <2>5, Constants
    <3>2. /\ \A u \in Threads : Active(u)' <=> Active(u) /\ u # t
          /\ \A u \in Threads : pc'[u] = "idle" => pc[u] = "idle"
          /\ \A u \in Threads : u # t => condition'[u] = condition[u]
      BY <1>a, <3>1, WakesActive
    <3>3. \A u \in Threads : pc'[u] = "idle" => ~condition'[u]
      BY <1>b, <3>1, <3>2 DEF Active
    <3> HIDE DEF t
    <3>4. pioctl[curr] = t
      BY DEF t
    <3>5. Takes(t, curr)
      BY <2>1, <2>3, <3>1, <3>2, <3>3, <3>4, Constants DEF Takes
    <3>6. QED
      BY Taken, <1>a, <3>1, <3>5
  <2>6. QED
    BY <2>1, <2>4, <2>5 DEF Released
<1>4. ASSUME NEW t \in Threads, CancelCurrent(t) PROVE Tracked'
  <2>1. /\ curr \in Nodes /\ pioctl[curr] = t
        /\ \A n \in Nodes : pioctl'[n] = IF n = curr THEN NULL ELSE pioctl[n]
        /\ UNCHANGED <<pending, curr>>
        /\ pc' = [pc EXCEPT ![t] = "completing"] /\ UNCHANGED condition
    BY <1>4, <1>a DEF CancelCurrent
  <2>2. /\ \A u \in Threads : Active(u)' <=> Active(u) /\ u # t
        /\ \A u \in Threads : pc'[u] = "idle" => ~condition'[u]
    BY <1>a, <1>b, <2>1 DEF Active
  <2>3. Takes(t, curr)
    BY <1>c, <2>1, <2>2, Constants DEF Takes
  <2>4. QED
    BY Taken, <1>a, <2>3
<1>5. ASSUME NEW t \in Threads, CancelPending(t) PROVE Tracked'
  <2>1. PICK i \in DOMAIN pending :
          /\ pioctl[pending[i]] = t
          /\ pending' = RemoveAt(pending, i)
          /\ pioctl' = [pioctl EXCEPT ![pending[i]] = NULL]
    BY <1>5 DEF CancelPending
  <2>2. /\ pc' = [pc EXCEPT ![t] = "unlinked"] /\ UNCHANGED <<condition, curr>>
    BY <1>5 DEF CancelPending
  <2> DEFINE x == pending[i]
  <2>3. x \in Nodes /\ Range(pending') = Range(pending) \ {x}
    BY <1>a, <2>1, RemovePlaced
  <2>4. /\ pioctl[x] = t
        /\ \A n \in Nodes : pioctl'[n] = IF n = x THEN NULL ELSE pioctl[n]
    BY <1>a, <2>1
  <2> HIDE DEF x
  <2>5. /\ \A u \in Threads : Active(u)' <=> Active(u) /\ u # t
        /\ \A u \in Threads : pc'[u] = "idle" => ~condition'[u]
    BY <1>a, <1>b, <2>2 DEF Active
  <2>6. Takes(t, x)
    BY <1>c, <2>2, <2>3, <2>4, <2>5, Constants DEF Takes
  <2>7. QED
    BY Taken, <1>a, <2>3, <2>6
<1>7. ASSUME NEW t \in Threads,
             \/ QueueWork(t) \/ Wait(t) \/ WokenTooEarly(t) \/ Return(t)
             \/ CancelNothing(t) \/ CancelFree(t)
      PROVE  Tracked'
  <2>1. UNCHANGED <<pioctl, pending, curr>>
    BY <1>7 DEF QueueWork, Wait, WokenTooEarly, Return, CancelNothing,
       CancelFree, queues
  <2>2. CASE CancelNothing(t)
    <3>1. /\ ~Active(t) /\ pc' = [pc EXCEPT ![t] = "completing"]
          /\ UNCHANGED condition
      BY <1>b, <2>2 DEF CancelNothing
    <3>2. /\ \A u \in Threads : Active(u)' <=> Active(u)
          /\ \A u \in Threads : pc'[u] = "idle" => ~condition'[u]
      BY <1>a, <1>b, <3>1 DEF Active
    <3>3. QED
      BY NotTaken, <1>a, <1>b, <2>1, <3>2
  <2>3. CASE Return(t)
    <3>1. /\ \A u \in Threads : Active(u)' <=> Active(u)
          /\ \A u \in Threads : pc'[u] = "idle" => ~condition'[u]
      BY <1>a, <1>b, <2>3 DEF Return, Active
    <3>2. QED
      BY NotTaken, <1>a, <1>b, <2>1, <3>1
  <2>4. CASE QueueWork(t) \/ Wait(t) \/ WokenTooEarly(t) \/ CancelFree(t)
    <3>1. PICK x \in {"posted", "waiting", "woken", "cancel", "completing"} :
            /\ pc' = [pc EXCEPT ![t] = x] /\ UNCHANGED condition
            /\ x = "completing" <=> pc[t] = "unlinked"
            /\ pc[t] \notin {"idle", "completing"}
      BY <2>4 DEF QueueWork, Wait, WokenTooEarly, CancelFree
    <3>2. /\ \A u \in Threads : Active(u)' <=> Active(u)
          /\ \A u \in Threads : pc'[u] = "idle" => ~condition'[u]
      BY <1>a, <1>b, <3>1 DEF Active
    <3>3. QED
      BY NotTaken, <1>a, <1>b, <2>1, <3>2
  <2>5. QED
    BY <1>7, <2>2, <2>3, <2>4
<1>8. ASSUME NEW t \in Threads, CancelComplete(t) PROVE Tracked'
  <2> DEFINE p == [pc EXCEPT ![t] = "woken"]
  <2>1. /\ p \in [Threads -> Steps] /\ Complete(t, p)
        /\ \A u \in Threads : pc[u] = "waiting" => p[u] = "waiting"
        /\ UNCHANGED <<pioctl, pending, curr>> /\ ~Active(t)
    BY <1>a, <1>8 DEF CancelComplete, Steps, queues, Active
  <2>2. \A u \in Threads : p[u] = IF u = t THEN "woken" ELSE pc[u]
    BY <1>a
  <2> HIDE DEF p
  <2>3. /\ \A u \in Threads : Active(u)' <=> Active(u) /\ u # t
        /\ \A u \in Threads : pc'[u] = "idle" => p[u] = "idle"
        /\ \A u \in Threads : u # t => condition'[u] = condition[u]
    BY <1>a, <2>1, <2>2, CompleteWakes, WakesActive
  <2>4. \A u \in Threads : Active(u)' <=> Active(u)
    BY <2>1, <2>3
  <2>5. \A u \in Threads : pc'[u] = "idle" => ~condition'[u]
    BY <1>b, <2>2, <2>3
  <2>6. QED
    BY NotTaken, <1>a, <1>b, <2>1, <2>4, <2>5
<1>9. CASE SendNext
  <2>1. /\ pending # <<>> /\ pending' = Tail(pending) /\ curr' = Head(pending)
        /\ curr = NULL /\ UNCHANGED <<pioctl, pc, condition>>
    BY <1>9 DEF SendNext, MaySend, callers
  <2>2. Range(pending') = Range(pending) \ {curr'}
    BY <1>a, <2>1, TailPlaced
  <2>3. \A n \in Nodes : pioctl[n] # NULL => n \in Range(pending') \/ n = curr'
    BY <1>c, <2>1, <2>2, Constants
  <2>4. QED
    BY NotTaken, <1>a, <1>b, <2>1, <2>3 DEF Active
<1>10. CASE CleanDone \/ AbandonDone
  <2>1. /\ UNCHANGED <<pioctl, pc, condition, pending>> /\ pioctl[hand] = NULL
        /\ curr \in {NULL, hand}
    BY <1>a, <1>10 DEF CleanDone, AbandonDone, callers, DriverShape
  <2>2. QED
    BY NotTaken, <1>a, <1>b, <2>1, Constants DEF Active
<1>11. ASSUME UNCHANGED <<pioctl, pc, condition, pending, curr>>
       PROVE  Tracked'
  BY NotTaken, <1>a, <1>b, <1>11 DEF Active
<1>12. CASE \/ WorkerStart \/ WorkerDebug \/ ReadRegs \/ AnswerHandled
            \/ SendDone \/ WorkerIdle \/ TimerExpires \/ Timeout
            \/ CardAnswers \/ CardNotifies \/ UNCHANGED vars
            \/ \E t \in Threads : RequestNoBuffer(t)
  <2>1. UNCHANGED <<pioctl, pc, condition, pending, curr>>
    BY <1>12 DEF WorkerStart, WorkerDebug, ReadRegs, AnswerHandled, SendDone,
       WorkerIdle, TimerExpires, Timeout, CardAnswers, CardNotifies,
       RequestNoBuffer, vars, queues, callers
  <2>2. QED
    BY <1>11, <2>1
<1>13. QED
  BY <1>1, <1>3, <1>4, <1>5, <1>7, <1>8, <1>9, <1>10, <1>12
     DEF Next, Proceed, Cancel, Worker

-----------------------------------------------------------------------------
\* A thread that has its event for itself.

\* The events never change hands.
LEMMA EventsStay == ASSUME [Next]_vars PROVE eventOf' = eventOf
<1>1. ASSUME NEW t \in Threads, NEW p, Complete(t, p) PROVE eventOf' = eventOf
  BY <1>1 DEF Complete
<1>2. ASSUME NEW n, Release(n) PROVE eventOf' = eventOf
  BY <1>2 DEF Release, Complete
<1>3. ASSUME NEW t \in Threads, CancelComplete(t) PROVE eventOf' = eventOf
  BY <1>3 DEF CancelComplete, Complete
<1>4. ASSUME NEW t \in Threads,
             \/ Request(t) \/ RequestNoBuffer(t) \/ QueueWork(t) \/ Wait(t)
             \/ Return(t) \/ WokenTooEarly(t) \/ CancelCurrent(t)
             \/ CancelPending(t) \/ CancelNothing(t) \/ CancelFree(t)
      PROVE  eventOf' = eventOf
  BY <1>4 DEF Request, RequestNoBuffer, QueueWork, Wait, Return,
     WokenTooEarly, CancelCurrent, CancelPending, CancelNothing, CancelFree,
     callers
<1>5. CASE AnswerCanceled \/ AnswerInvalid \/ HandlerDone \/ SendFails
  BY <1>5, <1>2 DEF AnswerCanceled, AnswerInvalid, HandlerDone, SendFails
<1>6. CASE \/ WorkerStart \/ WorkerDebug \/ ReadRegs \/ AnswerHandled
           \/ CleanDone \/ SendNext \/ SendDone \/ AbandonDone \/ WorkerIdle
           \/ TimerExpires \/ Timeout \/ CardAnswers \/ CardNotifies
           \/ UNCHANGED vars
  BY <1>6 DEF WorkerStart, WorkerDebug, ReadRegs, AnswerHandled, CleanDone,
     SendNext, SendDone, AbandonDone, WorkerIdle, TimerExpires, Timeout,
     CardAnswers, CardNotifies, vars, callers
<1>7. QED
  BY <1>3, <1>4, <1>5, <1>6 DEF Next, Proceed, Cancel, Worker

\* The completion of a request, its own or another's.
LEMMA WakesUndisturbed ==
  ASSUME TypeOK, NEW t \in Threads, Alone(t), Undisturbed(t),
         NEW u \in Threads, NEW p \in [Threads -> Steps], Wakes(u, p),
         p[t] = pc[t], u = t => Active(t)
  PROVE  Undisturbed(t)'
<1>1. /\ eventOf \in [Threads -> Threads] /\ eventOf' = eventOf
      /\ sem \in [Threads -> 0..SemMax] /\ condition \in [Threads -> BOOLEAN]
      /\ SemMax \in Nat /\ eventOf[t] \in Threads
  BY Constants DEF TypeOK, Wakes
<1>2. CASE u = t
  <2>1. /\ sem[eventOf[t]] = 0 /\ pc[t] # "woken" /\ condition'[t]
    BY <1>1, <1>2 DEF Undisturbed, Active, Wakes
  <2>2. /\ sem'[eventOf[t]] <= 1 /\ sem'[eventOf[t]] \in 0..SemMax
    <3>1. sem' \in [Threads -> 0..SemMax] /\ sem'[eventOf[t]] <= sem[eventOf[t]] + 1
      BY <1>2 DEF Wakes
    <3>2. QED
      BY <1>1, <2>1, <3>1
  <2>3. /\ pc'[t] = pc[t] \/ (pc[t] = "waiting" /\ pc'[t] = "woken")
        /\ pc[t] = "waiting" => sem' = sem
    BY <1>2 DEF Wakes
  <2>4. sem'[eventOf[t]] \in {0, 1}
    BY <1>1, <2>2
  <2>5. QED
    BY <1>1, <2>1, <2>3, <2>4 DEF Undisturbed
<1>3. CASE u # t
  <2>1. eventOf[u] # eventOf[t]
    BY <1>3 DEF Alone
  <2>2. /\ pc'[t] = pc[t] /\ sem'[eventOf[t]] = sem[eventOf[t]]
        /\ condition'[t] = condition[t]
    BY <1>1, <1>3, <2>1 DEF Wakes
  <2>3. QED
    BY <1>1, <2>2 DEF Undisturbed
<1>4. QED
  BY <1>2, <1>3

LEMMA UndisturbedStep ==
  ASSUME Base, Tracked, DriverShape, AnswerIsCurrent, [Next]_vars,
         NEW t \in Threads, Alone(t), Undisturbed(t)
  PROVE  Undisturbed(t)'
<1>a. /\ TypeOK /\ pc \in [Threads -> Steps]
      /\ eventOf \in [Threads -> Threads] /\ eventOf' = eventOf
      /\ sem \in [Threads -> 0..SemMax] /\ condition \in [Threads -> BOOLEAN]
      /\ eventOf[t] \in Threads
  BY EventsStay DEF Base, TypeOK
<1>b. \A u \in Threads : u # t => eventOf[u] # eventOf[t]
  BY DEF Alone
<1>1. ASSUME NEW u \in Threads,
             \/ Request(u) \/ QueueWork(u) \/ WokenTooEarly(u) \/ CancelCurrent(u)
             \/ CancelPending(u) \/ CancelNothing(u) \/ CancelFree(u)
      PROVE  Undisturbed(t)'
  <2>1. /\ UNCHANGED <<condition, sem>>
        /\ \E x \in Steps : pc' = [pc EXCEPT ![u] = x]
    BY <1>1 DEF Request, QueueWork, WokenTooEarly, CancelCurrent,
       CancelPending, CancelNothing, CancelFree, Steps
  <2>2. CASE u # t
    BY <1>a, <2>1, <2>2 DEF Undisturbed
  <2>3. CASE u = t
    <3>1. pc'[t] \in {"queued", "posted"}
      BY <1>a, <1>1, <2>3 DEF Request, QueueWork, WokenTooEarly,
         CancelCurrent, CancelPending, CancelNothing, CancelFree, Undisturbed
    <3>2. QED
      BY <1>a, <2>1, <3>1 DEF Undisturbed
  <2>4. QED
    BY <2>2, <2>3
<1>2. ASSUME NEW u \in Threads, Wait(u) PROVE Undisturbed(t)'
  <2>1. UNCHANGED condition
    BY <1>2 DEF Wait
  <2>2. CASE u # t
    <3>1. pc'[t] = pc[t] /\ sem'[eventOf[t]] = sem[eventOf[t]]
      BY <1>a, <1>b, <1>2, <2>2 DEF Wait
    <3>2. QED
      BY <1>a, <2>1, <3>1 DEF Undisturbed
  <2>3. CASE u = t
    <3>1. CASE sem[eventOf[t]] > 0
      <4>1. sem[eventOf[t]] = 1 /\ condition[t]
        BY <1>a, <3>1 DEF Undisturbed
      <4>2. sem'[eventOf[t]] = 0
        BY <1>a, <1>2, <2>3, <3>1, <4>1 DEF Wait
      <4>3. QED
        BY <1>a, <1>2, <2>1, <2>3, <3>1, <4>1, <4>2 DEF Wait, Undisturbed
    <3>2. CASE ~(sem[eventOf[t]] > 0)
      BY <1>a, <1>2, <2>1, <2>3, <3>2 DEF Wait, Undisturbed
    <3>3. QED
      BY <3>1, <3>2
  <2>4. QED
    BY <2>2, <2>3
<1>3. ASSUME NEW u \in Threads, Return(u) PROVE Undisturbed(t)'
  <2>1. /\ pc[u] = "woken" /\ pc' = [pc EXCEPT ![u] = "idle"]
        /\ condition' = [condition EXCEPT ![u] = FALSE] /\ UNCHANGED sem
    BY <1>3 DEF Return
  <2>2. QED
    BY <1>a, <2>1 DEF Undisturbed
<1>4. ASSUME NEW u \in Threads, CancelComplete(u) PROVE Undisturbed(t)'
  <2> DEFINE p == [pc EXCEPT ![u] = "woken"]
  <2>1. /\ p \in [Threads -> Steps] /\ Complete(u, p) /\ u # t
        /\ \A v \in Threads : pc[v] = "waiting" => p[v] = "waiting"
    BY <1>a, <1>4 DEF CancelComplete, Steps, Undisturbed
  <2>2. p[t] = pc[t]
    BY <1>a, <2>1
  <2> HIDE DEF p
  <2>3. Wakes(u, p)
    BY <1>a, <2>1, CompleteWakes
  <2>4. QED
    BY <1>a, <2>1, <2>2, <2>3, WakesUndisturbed
<1>5. CASE AnswerCanceled \/ AnswerInvalid \/ HandlerDone \/ SendFails
  <2>1. curr \in Nodes /\ Released(curr)
    BY <1>5, <1>a, CurrThere, ReleaseReleases
       DEF AnswerCanceled, AnswerInvalid, HandlerDone, SendFails
  <2>2. CASE UNCHANGED <<pc, sem, condition>>
    BY <1>a, <2>2 DEF Undisturbed
  <2>3. CASE pioctl[curr] \in Threads /\ Wakes(pioctl[curr], pc)
    <3>1. Active(pioctl[curr])
      BY <2>1, <2>3 DEF Tracked
    <3> DEFINE u == pioctl[curr]
    <3>2. u \in Threads /\ Wakes(u, pc) /\ Active(u)
      BY <2>3, <3>1
    <3> HIDE DEF u
    <3>3. QED
      BY <1>a, <3>2, WakesUndisturbed
  <2>4. QED
    BY <2>1, <2>2, <2>3 DEF Released
<1>6. CASE \/ WorkerStart \/ WorkerDebug \/ ReadRegs \/ AnswerHandled
           \/ CleanDone \/ SendNext \/ SendDone \/ AbandonDone \/ WorkerIdle
           \/ TimerExpires \/ Timeout \/ CardAnswers \/ CardNotifies
           \/ UNCHANGED vars \/ \E u \in Threads : RequestNoBuffer(u)
  <2>1. UNCHANGED <<pc, sem, condition>>
    BY <1>6 DEF WorkerStart, WorkerDebug, ReadRegs, AnswerHandled, CleanDone,
       SendNext, SendDone, AbandonDone, WorkerIdle, TimerExpires, Timeout,
       CardAnswers, CardNotifies, RequestNoBuffer, vars, callers
  <2>2. QED
    BY <1>a, <2>1 DEF Undisturbed
<1>7. QED
  BY <1>1, <1>2, <1>3, <1>4, <1>5, <1>6 DEF Next, Proceed, Cancel, Worker

LEMMA RememberedStep ==
  ASSUME Base, [Next]_vars,
         NEW t \in Threads, Undisturbed(t), Remembered(t)
  PROVE  Remembered(t)'
<1>a. /\ TypeOK /\ pioctl \in [Nodes -> Threads \cup {NULL}]
      /\ wpc \in {"handler", "send"} => curr # NULL
      /\ curr \in Nodes \cup {NULL}
      /\ pending \in Seq(Nodes) /\ free \in Seq(Nodes)
      /\ IsInjective(free) /\ IsInjective(pending)
      /\ \A n \in Nodes : OnePlace(n)
  BY DEF Base, TypeOK, Placed
<1> USE DEF Remembered
<1>1. ASSUME NEW u \in Threads, Request(u) PROVE Remembered(t)'
  <2>1. /\ free # <<>> /\ pioctl' = [pioctl EXCEPT ![Head(free)] = u]
        /\ UNCHANGED <<curr, wpc, local>>
    BY <1>1 DEF Request, driver
  <2>2. Head(free) \in Nodes /\ Head(free) # curr
    BY <1>a, <2>1, TailPlaced DEF OnePlace
  <2>3. QED
    BY <1>a, <2>1, <2>2
<1>2. ASSUME NEW u \in Threads, CancelPending(u) PROVE Remembered(t)'
  <2>1. PICK i \in DOMAIN pending :
          /\ pioctl[pending[i]] = u
          /\ pioctl' = [pioctl EXCEPT ![pending[i]] = NULL]
    BY <1>2 DEF CancelPending
  <2>2. UNCHANGED <<curr, wpc, local>> /\ u # t
    BY <1>2 DEF CancelPending, driver, Undisturbed
  <2>3. QED
    BY <1>a, <2>1, <2>2
<1>3. ASSUME NEW u \in Threads, CancelCurrent(u) PROVE Remembered(t)'
  BY <1>a, <1>3 DEF CancelCurrent, driver, Undisturbed
<1>4. CASE AnswerHandled \/ SendNext
  BY <1>4 DEF AnswerHandled, SendNext, queues
<1>5. CASE \/ AnswerCanceled \/ AnswerInvalid \/ HandlerDone \/ CleanDone
           \/ SendDone \/ SendFails \/ AbandonDone \/ WorkerStart \/ ReadRegs
           \/ WorkerIdle
  <2>1. wpc' \notin {"handler", "send"}
    BY <1>5 DEF AnswerCanceled, AnswerInvalid, HandlerDone, CleanDone,
       SendDone, SendFails, AbandonDone, WorkerStart, ReadRegs, WorkerIdle
  <2>2. QED
    BY <2>1
<1>6. CASE \/ WorkerDebug \/ TimerExpires \/ Timeout \/ CardAnswers
           \/ CardNotifies \/ UNCHANGED vars
  <2>1. UNCHANGED <<pioctl, curr, wpc, local>>
    BY <1>6 DEF WorkerDebug, TimerExpires, Timeout, CardAnswers,
       CardNotifies, vars, queues, driver
  <2>2. QED
    BY <2>1
<1>7. ASSUME NEW u \in Threads,
             \/ RequestNoBuffer(u) \/ QueueWork(u) \/ Wait(u) \/ Return(u)
             \/ WokenTooEarly(u) \/ CancelNothing(u) \/ CancelFree(u)
             \/ CancelComplete(u)
      PROVE  Remembered(t)'
  <2>1. UNCHANGED <<pioctl, curr, wpc, local>>
    BY <1>7 DEF RequestNoBuffer, QueueWork, Wait, Return, WokenTooEarly,
       CancelNothing, CancelFree, CancelComplete, queues, driver
  <2>2. QED
    BY <2>1
<1>8. QED
  BY <1>1, <1>2, <1>3, <1>4, <1>5, <1>6, <1>7
     DEF Next, Proceed, Cancel, Worker

-----------------------------------------------------------------------------
LEMMA InitInv == Init => Inv
<1> SUFFICES ASSUME Init PROVE Inv
  OBVIOUS
<1>1. Base
  BY InitBase
<1>2. Tracked
  BY Constants DEF Init, Tracked, Active
<1>3. DriverShape /\ AnswerIsCurrent
  BY DEF Init, DriverShape, AnswerIsCurrent
<1>4. AloneShape
  BY DEF Init, AloneShape, Undisturbed, Remembered
<1>5. QED
  BY <1>1, <1>2, <1>3, <1>4 DEF Inv

LEMMA StepInv == Inv /\ [Next]_vars => Inv'
<1> SUFFICES ASSUME Inv, [Next]_vars PROVE Inv'
  OBVIOUS
<1>1. Base'
  BY TypeStep, PlacedStep DEF Inv, Base
<1>2. Tracked' /\ DriverShape' /\ AnswerIsCurrent'
  BY TrackedStep, DriverStep DEF Inv
<1>3. ASSUME NEW t \in Threads, Alone(t)'
      PROVE  Undisturbed(t)' /\ Remembered(t)'
  <2>1. Alone(t)
    BY <1>3, EventsStay DEF Alone
  <2>2. QED
    BY <2>1, UndisturbedStep, RememberedStep DEF Inv, AloneShape
<1>4. AloneShape'
  BY <1>3 DEF AloneShape
<1>5. QED
  BY <1>1, <1>2, <1>4 DEF Inv

\* The invariant holds in every state.
THEOREM Invariance == Spec => []Inv
BY InitInv, StepInv, PTL DEF Spec


(***************************************************************************)
(* Types: the queues hold nodes, the events are within their range, and    *)
(* the locals of the threads and of the driver thread go with their        *)
(* stages.                                                                 *)
(***************************************************************************)
THEOREM TypesHold == Spec => []TypeOK
<1>1. Inv => TypeOK
  BY DEF Inv, Base
<1>2. QED
  BY <1>1, Invariance, PTL

LEMMA OneHolder ==
  ASSUME Inv, NEW n \in Nodes
  PROVE  Cardinality(Holders(n)) = 1
<1>a. /\ TypeOK /\ Placed /\ OnePlace(n) /\ n # NULL
  BY Constants DEF Inv, Base, Placed
<1> DEFINE A == {i \in DOMAIN free : free[i] = n}
           B == {i \in DOMAIN pending : pending[i] = n}
           C == {t \in Threads : unlinked[t] = n}
           D == IF n \in {curr, hand} THEN {<<"driver", 0>>} ELSE {}
           E == IF n \in leaked THEN {<<"nobody", 0>>} ELSE {}
<1>1. Holders(n) = ({"free"} \X A) \cup ({"pending"} \X B)
                     \cup ({"caller"} \X C) \cup D \cup E
  BY DEF Holders
<1>2. /\ n \in Range(free) => \E i : A = {i}
      /\ n \notin Range(free) => A = {}
  BY <1>a DEF Placed, IsInjective, Range
<1>3. /\ n \in Range(pending) => \E i : B = {i}
      /\ n \notin Range(pending) => B = {}
  BY <1>a DEF Placed, IsInjective, Range
<1>4. /\ AtCaller(n) => \E i : C = {i}
      /\ ~AtCaller(n) => C = {}
  BY <1>a DEF Placed, AtCaller
<1> HIDE DEF A, B, C
<1>5. \E h : Holders(n) = {h}
  <2>1. CASE n \in Range(free)
    <3>1. PICK i : A = {i}
      BY <1>2, <2>1
    <3>2. B = {} /\ C = {} /\ D = {} /\ E = {}
      BY <1>a, <1>3, <1>4, <2>1 DEF OnePlace
    <3> HIDE DEF D, E
    <3>3. Holders(n) = {<<"free", i>>}
      BY <1>1, <3>1, <3>2
    <3>4. QED
      BY <3>3
  <2>2. CASE n \in Range(pending)
    <3>1. PICK i : B = {i}
      BY <1>3, <2>2
    <3>2. A = {} /\ C = {} /\ D = {} /\ E = {}
      BY <1>a, <1>2, <1>4, <2>2 DEF OnePlace
    <3> HIDE DEF D, E
    <3>3. Holders(n) = {<<"pending", i>>}
      BY <1>1, <3>1, <3>2
    <3>4. QED
      BY <3>3
  <2>3. CASE AtCaller(n)
    <3>1. PICK t : C = {t}
      BY <1>4, <2>3
    <3>2. A = {} /\ B = {} /\ D = {} /\ E = {}
      BY <1>a, <1>2, <1>3, <2>3 DEF OnePlace
    <3> HIDE DEF D, E
    <3>3. Holders(n) = {<<"caller", t>>}
      BY <1>1, <3>1, <3>2
    <3>4. QED
      BY <3>3
  <2>4. CASE n \in {curr, hand}
    <3>1. A = {} /\ B = {} /\ C = {} /\ D = {<<"driver", 0>>} /\ E = {}
      BY <1>a, <1>2, <1>3, <1>4, <2>4 DEF OnePlace
    <3> HIDE DEF D, E
    <3>2. Holders(n) = {<<"driver", 0>>}
      BY <1>1, <3>1
    <3>3. QED
      BY <3>2
  <2>5. CASE n \in leaked
    <3>1. A = {} /\ B = {} /\ C = {} /\ D = {} /\ E = {<<"nobody", 0>>}
      BY <1>a, <1>2, <1>3, <1>4, <2>5 DEF OnePlace
    <3> HIDE DEF D, E
    <3>2. Holders(n) = {<<"nobody", 0>>}
      BY <1>1, <3>1
    <3>3. QED
      BY <3>2
  <2>6. QED
    BY <1>a, <2>1, <2>2, <2>3, <2>4, <2>5 DEF OnePlace
<1>6. QED
  BY <1>5, FS_Singleton

(***************************************************************************)
(* No node is lost or in two places, whatever cancellations, answers,      *)
(* time-outs and failing writes fall between the steps of                  *)
(* wlan_insert_cmd_to_free_q, wlan_exec_next_cmd and                       *)
(* wlan_cancel_pending_ioctl.                                              *)
(***************************************************************************)
THEOREM NodesStayAccounted == Spec => []NodesAccounted
<1>1. Inv => NodesAccounted
  BY OneHolder DEF NodesAccounted
<1>2. QED
  BY <1>1, Invariance, PTL

(***************************************************************************)
(* A request that waits has exactly one node, pending or current; once it  *)
(* was answered, canceled or released no node has its pioctl_buf any more. *)
(***************************************************************************)
THEOREM RequestsTracked == Spec => []RequestTracked
<1>1. ASSUME Inv PROVE RequestTracked
  <2> DEFINE Mine(t) == {n \in Nodes : pioctl[n] = t}
  <2> SUFFICES ASSUME NEW t \in Threads
               PROVE  /\ Cardinality(Mine(t)) = IF Active(t) THEN 1 ELSE 0
                      /\ Mine(t) \subseteq Range(pending) \cup {curr}
    BY DEF RequestTracked, Active
  <2>1. Tracked /\ t # NULL
    BY <1>1, Constants DEF Inv
  <2>2. Mine(t) \subseteq Range(pending) \cup {curr}
    BY <2>1 DEF Tracked
  <2>3. CASE Active(t)
    <3>1. PICK n \in Nodes : pioctl[n] = t
      BY <2>1, <2>3 DEF Tracked
    <3>2. Mine(t) = {n}
      BY <2>1, <3>1 DEF Tracked
    <3> HIDE DEF Mine
    <3>3. QED
      BY <2>2, <2>3, <3>2, FS_Singleton
  <2>4. CASE ~Active(t)
    <3>1. Mine(t) = {}
      BY <2>1, <2>4 DEF Tracked
    <3> HIDE DEF Mine
    <3>2. QED
      BY <2>2, <2>4, <3>1, FS_EmptySet
  <2>5. QED
    BY <2>3, <2>4
<1>2. QED
  BY <1>1, Invariance, PTL

(***************************************************************************)
(* wlan_process_cmdresp, which never compares sequence numbers, takes the  *)
(* answer of the card for the command that the card answered.              *)
(***************************************************************************)
THEOREM AnswersAreCurrent == Spec => []AnswerIsCurrent
<1>1. Inv => AnswerIsCurrent
  BY DEF Inv
<1>2. QED
  BY <1>1, Invariance, PTL

(***************************************************************************)
(* A thread that shares its event with no other is woken by its own answer *)
(* and never cancels; and what the driver thread remembers of its request  *)
(* over a wait for the bus or the heap is true when it goes on.            *)
(***************************************************************************)
THEOREM AnswersAreOwn == Spec => []OwnAnswer
<1>1. ASSUME Inv PROVE OwnAnswer
  <2> SUFFICES ASSUME NEW t \in Threads, Alone(t)
               PROVE  /\ pc[t] \in Awake => condition[t]
                      /\ sem[eventOf[t]] <= (IF condition[t] THEN 1 ELSE 0)
                      /\ wpc \in {"handler", "send"} /\ local = t
                           => pioctl[curr] = t
    BY DEF OwnAnswer
  <2>1. Undisturbed(t) /\ Remembered(t)
    BY <1>1 DEF Inv, AloneShape
  <2>2. pc[t] \in Awake => condition[t]
    BY <2>1 DEF Undisturbed, Awake
  <2>3. sem[eventOf[t]] <= (IF condition[t] THEN 1 ELSE 0)
    BY <2>1 DEF Undisturbed
  <2>4. QED
    BY <2>1, <2>2, <2>3 DEF Remembered
<1>2. QED
  BY <1>1, Invariance, PTL

-----------------------------------------------------------------------------
(***************************************************************************)
(* The refinement of RequestLine.                                          *)
(***************************************************************************)
\* Queues of nodes, seen as the queue of their requests.
Mapped(f, s) == [i \in DOMAIN s |-> f[s[i]]]

\* f and g agree on the elements of s.
AgreeOn(s, f, g) == \A i \in DOMAIN s : g[s[i]] = f[s[i]]

LEMMA AppendMapped ==
  ASSUME NEW S, NEW s \in Seq(S), NEW e \in S, NEW f, NEW g, AgreeOn(s, f, g)
  PROVE  Mapped(g, Append(s, e)) = Append(Mapped(f, s), g[e])
<1> DEFINE a == Append(s, e)
           m == [i \in DOMAIN s |-> f[s[i]]]
           b == Append(m, g[e])
<1>1. /\ Len(a) = Len(s) + 1 /\ a[Len(s) + 1] = e /\ a \in Seq(S)
      /\ \A i \in 1..Len(s) : a[i] = s[i]
  BY AppendProperties
<1>2. Len(s) \in Nat /\ DOMAIN s = 1..Len(s) /\ DOMAIN a = 1..(Len(s) + 1)
  BY <1>1, LenProperties
<1>3. m \in Seq({f[s[i]] : i \in DOMAIN s} \cup {g[e]}) /\ Len(m) = Len(s)
  BY <1>2
<1>4. /\ Len(b) = Len(s) + 1 /\ b[Len(s) + 1] = g[e]
      /\ \A i \in 1..Len(s) : b[i] = m[i]
      /\ DOMAIN b = 1..(Len(s) + 1)
      /\ b = [i \in 1..(Len(s) + 1) |-> b[i]]
  BY <1>2, <1>3, AppendProperties, LenProperties
<1> HIDE DEF a, b
<1>5. ASSUME NEW i \in 1..(Len(s) + 1) PROVE g[a[i]] = b[i]
  <2>1. CASE i = Len(s) + 1
    BY <1>1, <1>4, <2>1
  <2>2. CASE i \in 1..Len(s)
    BY <1>1, <1>2, <1>4, <2>2 DEF AgreeOn
  <2>3. QED
    BY <1>2, <2>1, <2>2
<1>6. QED
  BY <1>2, <1>4, <1>5 DEF Mapped, a, b

LEMMA TailMapped ==
  ASSUME NEW S, NEW s \in Seq(S), s # <<>>, NEW f
  PROVE  /\ Mapped(f, s) # <<>> /\ Head(Mapped(f, s)) = f[Head(s)]
         /\ Mapped(f, Tail(s)) = Tail(Mapped(f, s))
<1> DEFINE m == [i \in DOMAIN s |-> f[s[i]]]
<1>1. /\ Head(s) = s[1] /\ Tail(s) \in Seq(S) /\ Len(Tail(s)) = Len(s) - 1
      /\ \A i \in 1..Len(Tail(s)) : Tail(s)[i] = s[i + 1]
  BY HeadTailProperties
<1>2. /\ Len(s) \in Nat \ {0} /\ DOMAIN s = 1..Len(s)
      /\ DOMAIN Tail(s) = 1..(Len(s) - 1)
  BY <1>1, LenProperties, EmptySeq
<1>3. m \in Seq({f[s[i]] : i \in DOMAIN s}) /\ Len(m) = Len(s) /\ m # <<>>
  BY <1>2
<1>4. /\ Head(m) = m[1] /\ Len(Tail(m)) = Len(s) - 1
      /\ \A i \in 1..Len(Tail(m)) : Tail(m)[i] = m[i + 1]
      /\ DOMAIN Tail(m) = 1..(Len(s) - 1)
      /\ Tail(m) = [i \in 1..(Len(s) - 1) |-> Tail(m)[i]]
  BY <1>2, <1>3, HeadTailProperties, LenProperties
<1>5. \A i \in 1..(Len(s) - 1) : f[Tail(s)[i]] = Tail(m)[i]
  BY <1>1, <1>2, <1>4
<1>6. QED
  BY <1>1, <1>2, <1>3, <1>4, <1>5 DEF Mapped

\* What RemoveAt leaves of a queue.
LEMMA Removed ==
  ASSUME NEW S, NEW s \in Seq(S), NEW i \in DOMAIN s
  PROVE  RemoveAt(s, i)
           = [j \in 1..(Len(s) - 1) |-> IF j < i THEN s[j] ELSE s[j + 1]]
<1> DEFINE l == SubSeq(s, 1, i - 1)
           r == SubSeq(s, i + 1, Len(s))
           n == Len(s)
<1>1. n \in Nat /\ DOMAIN s = 1..n /\ i \in 1..n /\ s \in [1..n -> S]
  BY LenProperties
<1>2. /\ Len(l) = i - 1 /\ l \in Seq(S)
      /\ \A j \in 1..(i - 1) : l[j] = s[j]
  BY <1>1, SubSeqProperties
<1>3. /\ Len(r) = n - i /\ r \in Seq(S)
      /\ \A j \in 1..(n - i) : r[j] = s[i + j]
  BY <1>1, SubSeqProperties
<1>4. RemoveAt(s, i) = l \o r
  BY DEF RemoveAt
<1> HIDE DEF l, r, n
<1>5. /\ Len(l \o r) = n - 1 /\ l \o r \in Seq(S)
      /\ \A j \in 1..(n - 1) :
           (l \o r)[j] = IF j <= i - 1 THEN l[j] ELSE r[j - (i - 1)]
  <2>1. /\ l \o r \in Seq(S) /\ Len(l \o r) = Len(l) + Len(r)
        /\ \A j \in 1..(Len(l) + Len(r)) :
             (l \o r)[j] = IF j <= Len(l) THEN l[j] ELSE r[j - Len(l)]
    BY <1>2, <1>3, ConcatProperties
  <2>2. QED
    BY <2>1, <1>1, <1>2, <1>3
<1>6. l \o r = [j \in 1..(n - 1) |-> (l \o r)[j]]
  BY <1>1, <1>5, LenProperties
<1>7. \A j \in 1..(n - 1) :
        (l \o r)[j] = IF j < i THEN s[j] ELSE s[j + 1]
  <2> SUFFICES ASSUME NEW j \in 1..(n - 1)
               PROVE  (l \o r)[j] = IF j < i THEN s[j] ELSE s[j + 1]
    OBVIOUS
  <2>1. CASE j < i
    BY <2>1, <1>1, <1>2, <1>5
  <2>2. CASE ~(j < i)
    <3> DEFINE k == j - (i - 1)
    <3>1. k \in 1..(n - i) /\ i + k = j + 1 /\ ~(j <= i - 1)
      BY <2>2, <1>1
    <3>2. (l \o r)[j] = r[k]
      BY <3>1, <1>5
    <3> HIDE DEF k
    <3>3. QED
      BY <2>2, <3>1, <3>2, <1>3
  <2>3. QED
    BY <2>1, <2>2
<1>8. QED
  BY <1>4, <1>6, <1>7 DEF n

LEMMA RemoveMapped ==
  ASSUME NEW S, NEW s \in Seq(S), IsInjective(s), NEW i \in DOMAIN s,
         NEW f, NEW g, \A j \in DOMAIN s : s[j] # s[i] => g[s[j]] = f[s[j]]
  PROVE  Mapped(g, RemoveAt(s, i)) = RemoveAt(Mapped(f, s), i)
<1> DEFINE m == [j \in DOMAIN s |-> f[s[j]]]
           n == Len(s)
           T == {f[s[j]] : j \in DOMAIN s}
<1>1. n \in Nat /\ DOMAIN s = 1..n /\ i \in 1..n
  BY LenProperties
<1>2. m \in Seq(T) /\ Len(m) = n /\ DOMAIN m = 1..n
  BY <1>1
<1>3. RemoveAt(s, i) = [j \in 1..(n - 1) |-> IF j < i THEN s[j] ELSE s[j + 1]]
  BY Removed
<1> HIDE DEF n, T
<1>4. RemoveAt(m, i) = [j \in 1..(n - 1) |-> IF j < i THEN m[j] ELSE m[j + 1]]
  <2> HIDE DEF m
  <2> QED
    BY <1>1, <1>2, Removed
<1>5. ASSUME NEW j \in 1..(n - 1)
      PROVE  g[RemoveAt(s, i)[j]] = IF j < i THEN m[j] ELSE m[j + 1]
  <2>1. CASE j < i
    <3>1. j \in DOMAIN s /\ s[j] # s[i]
      BY <1>1, <2>1 DEF IsInjective
    <3>2. QED
      BY <1>3, <2>1, <3>1
  <2>2. CASE ~(j < i)
    <3>1. j + 1 \in DOMAIN s /\ s[j + 1] # s[i]
      BY <1>1, <2>2 DEF IsInjective
    <3>2. QED
      BY <1>3, <2>2, <3>1
  <2>3. QED
    BY <2>1, <2>2
<1>6. DOMAIN RemoveAt(s, i) = 1..(n - 1)
  BY <1>3
<1> HIDE DEF m
<1>7. QED
  BY <1>4, <1>5, <1>6 DEF Mapped, m

Phases == [t \in Threads |-> Phase(t)]
InLine == Mapped(pioctl, pending)
Served == {pioctl[n] : n \in {curr} \ {NULL, hand}}

LEMMA LineVars ==
  ASSUME UNCHANGED <<Phases, InLine, Served, eventOf>>
  PROVE  UNCHANGED Line!vars
BY DEF Phases, InLine, Mapped, Served, Line!vars

\* The steps that threads and the driver thread take inside a phase.
LEMMA LineStays ==
  ASSUME UNCHANGED <<pending, pioctl, curr, hand, eventOf>>,
         \A t \in Threads : Phase(t)' = Phase(t)
  PROVE  UNCHANGED Line!vars
<1>1. UNCHANGED Phases
  BY DEF Phases
<1>2. UNCHANGED <<InLine, Served>>
  BY DEF InLine, Mapped, Served
<1>3. QED
  BY <1>1, <1>2, LineVars

\* p are the pcs but for thread t, which is in a request.
ButFor(t, p) == p[t] # "idle" /\ \A u \in Threads \ {t} : p[u] = pc[u]

\* A completed request is done, whoever is woken by it.
LEMMA WakesPhases ==
  ASSUME TypeOK, NEW t \in Threads, NEW p, Wakes(t, p), ButFor(t, p)
  PROVE  Phases' = [Phases EXCEPT ![t] = "done"]
<1>1. condition \in [Threads -> BOOLEAN]
  BY DEF TypeOK
<1>2. Phase(t)' = "done"
  BY <1>1 DEF Phase, Wakes, ButFor
<1>3. ASSUME NEW u \in Threads \ {t} PROVE Phase(u)' = Phase(u)
  <2>1. condition'[u] = condition[u]
    BY <1>1 DEF Wakes
  <2>2. \/ pc'[u] = pc[u]
        \/ pc[u] = "waiting" /\ pc'[u] = "woken"
    BY DEF Wakes, ButFor
  <2>3. QED
    BY <2>1, <2>2 DEF Phase
<1>4. QED
  BY <1>2, <1>3 DEF Phases

\* Where the driver thread completes the current request and lets its node go,
\* the line is served on, for the thread or for nobody.
LEMMA ServedStep ==
  ASSUME Inv, curr # NULL, hand = NULL, Released(curr),
         pending' = pending, curr' \in {curr, NULL}
  PROVE  Line!Next
<1>1. /\ pending \in Seq(Nodes) /\ curr \in Nodes
      /\ pioctl \in [Nodes -> Threads \cup {NULL}]
      /\ \A i \in DOMAIN pending : pending[i] \in Nodes /\ pending[i] # curr
  <2>1. TypeOK /\ OnePlace(curr)
    BY DEF Inv, Base, Placed, TypeOK
  <2>2. curr \notin Range(pending)
    BY <2>1 DEF OnePlace
  <2>3. QED
    BY <2>1, <2>2 DEF TypeOK, Range
<1>2. UNCHANGED InLine
  <2>1. \A i \in DOMAIN pending : pioctl'[pending[i]] = pioctl[pending[i]]
    BY <1>1 DEF Released
  <2>2. QED
    BY <2>1 DEF InLine, Mapped
<1>3. Served = {pioctl[curr]} /\ Served' = {} /\ eventOf' = eventOf
  BY <1>1, Constants DEF Served, Released
<1>4. CASE pioctl[curr] = NULL
  <2>1. UNCHANGED Phases
    BY <1>4, Constants DEF Released, Phases, Phase
  <2>2. Line!AnswerNobody
    BY <1>2, <1>3, <1>4, <2>1
       DEF Line!AnswerNobody, Phases, InLine, Mapped, Served
  <2>3. QED
    BY <2>2 DEF Line!Next
<1>5. CASE pioctl[curr] # NULL
  <2>1. PICK t \in Threads : t = pioctl[curr]
    BY <1>1, <1>5
  <2>2. Active(t) /\ Wakes(t, pc)
    BY <1>1, <1>5, <2>1 DEF Inv, Tracked, Released
  <2>3. Phases[t] = "asked"
    BY <2>2 DEF Active, Phases, Phase
  <2>4. Phases' = [Phases EXCEPT ![t] = "done"]
    <3>1. TypeOK
      BY DEF Inv, Base
    <3>2. ButFor(t, pc)
      BY <2>2 DEF Active, ButFor
    <3>3. QED
      BY <2>2, <3>1, <3>2, WakesPhases
  <2>5. Line!Answer(t)
    BY <1>2, <1>3, <2>1, <2>3, <2>4
       DEF Line!Answer, Phases, InLine, Mapped, Served
  <2>6. QED
    BY <2>5 DEF Line!Next
<1>6. QED
  BY <1>4, <1>5

\* A thread gives up: it shares its event, and its request is being served or
\* still in line.
LEMMA GiveUpStep ==
  ASSUME Inv, NEW t \in Threads, CancelCurrent(t) \/ CancelPending(t)
  PROVE  Line!GiveUp(t)
<1>1. /\ pending \in Seq(Nodes) /\ curr \in Nodes \cup {NULL}
      /\ pioctl \in [Nodes -> Threads \cup {NULL}]
      /\ pc \in [Threads -> Steps] /\ pc[t] = "cancel"
      /\ \A i \in DOMAIN pending : pending[i] \in Nodes
  BY DEF Inv, Base, TypeOK, CancelCurrent, CancelPending
<1>2. \E u \in Threads \ {t} : eventOf[u] = eventOf[t]
  BY <1>1 DEF Inv, AloneShape, Undisturbed, Alone
<1>3. PICK n \in Nodes :
        /\ pioctl[n] = t /\ pioctl' = [pioctl EXCEPT ![n] = NULL]
        /\ pc'[t] \in {"unlinked", "completing"}
        /\ \A u \in Threads \ {t} : pc'[u] = pc[u]
        /\ UNCHANGED <<curr, hand, eventOf, condition>>
        /\ \/ n = curr /\ pending' = pending
           \/ \E i \in DOMAIN pending :
                n = pending[i] /\ pending' = RemoveAt(pending, i)
  <2>1. CASE CancelCurrent(t)
    BY <1>1, <2>1 DEF CancelCurrent, driver
  <2>2. CASE CancelPending(t)
    BY <1>1, <2>2 DEF CancelPending, driver
  <2>3. QED
    BY <2>1, <2>2
<1>4. Active(t) /\ OnePlace(n) /\ IsInjective(pending)
  BY <1>3 DEF Inv, Base, Placed, Tracked
<1>5. Phases[t] = "asked" /\ Phases' = [Phases EXCEPT ![t] = "givenUp"]
  BY <1>3, <1>4 DEF Active, Phases, Phase
<1>6. ASSUME n = curr, pending' = pending
      PROVE  Served = {t} /\ Served' = {NULL} /\ UNCHANGED InLine
  <2>1. curr # hand
    BY <1>3, <1>6, Constants DEF Inv, DriverShape
  <2>2. \A i \in DOMAIN pending : pending[i] # curr
    BY <1>4, <1>6 DEF OnePlace, Range
  <2>3. \A i \in DOMAIN pending : pioctl'[pending[i]] = pioctl[pending[i]]
    BY <1>1, <1>3, <1>6, <2>2
  <2>4. UNCHANGED InLine
    BY <1>6, <2>3 DEF InLine, Mapped
  <2>5. QED
    BY <1>1, <1>3, <1>6, <2>1, <2>4, Constants DEF Served
<1>7. ASSUME NEW i \in DOMAIN pending,
             n = pending[i], pending' = RemoveAt(pending, i)
      PROVE  /\ UNCHANGED Served /\ i \in DOMAIN InLine /\ InLine[i] = t
             /\ InLine' = RemoveAt(InLine, i)
  <2>1. n \in Range(pending) /\ n # curr /\ n # hand
    BY <1>4, <1>7 DEF OnePlace, Range
  <2>2. UNCHANGED Served
    BY <1>1, <1>3, <2>1 DEF Served
  <2>3. i \in DOMAIN InLine /\ InLine[i] = t
    BY <1>3, <1>7 DEF InLine, Mapped
  <2>4. InLine' = RemoveAt(InLine, i)
    <3>1. \A j \in DOMAIN pending : pending[j] # pending[i] =>
            pioctl'[pending[j]] = pioctl[pending[j]]
      BY <1>1, <1>3, <1>7
    <3>2. Mapped(pioctl', RemoveAt(pending, i)) = RemoveAt(InLine, i)
      BY <1>1, <1>4, <3>1, RemoveMapped DEF InLine
    <3>3. QED
      BY <1>7, <3>2 DEF InLine
  <2>5. QED
    BY <2>2, <2>3, <2>4
<1>8. CASE n = curr /\ pending' = pending
  BY <1>2, <1>3, <1>5, <1>6, <1>8
     DEF Line!GiveUp, Phases, InLine, Mapped, Served
<1>9. CASE \E i \in DOMAIN pending :
             n = pending[i] /\ pending' = RemoveAt(pending, i)
  <2>1. PICK i \in DOMAIN pending :
          n = pending[i] /\ pending' = RemoveAt(pending, i)
    BY <1>9
  <2>2. /\ UNCHANGED Served /\ i \in DOMAIN InLine /\ InLine[i] = t
        /\ InLine' = RemoveAt(InLine, i)
    BY <1>7, <2>1
  <2>3. QED
    BY <1>2, <1>3, <1>5, <2>2
       DEF Line!GiveUp, Line!RemoveAt, RemoveAt, Phases, InLine, Mapped, Served
<1>10. QED
  BY <1>3, <1>8, <1>9

LEMMA AskStep ==
  ASSUME Inv, NEW t \in Threads, Request(t)
  PROVE  Line!Ask(t)
<1>n. PICK n : n = Head(free)
  OBVIOUS
<1>1. /\ pending \in Seq(Nodes) /\ curr \in Nodes \cup {NULL}
      /\ pioctl \in [Nodes -> Threads \cup {NULL}]
      /\ pc \in [Threads -> Steps] /\ pc[t] = "idle" /\ ~condition[t]
      /\ \A i \in DOMAIN pending : pending[i] \in Nodes
  BY DEF Inv, Base, TypeOK, Request, Tracked
<1>2. n \in Nodes /\ n \in Range(free) /\ OnePlace(n)
  BY <1>n, TailPlaced DEF Inv, Base, TypeOK, Placed, Request
<1>3. /\ pending' = Append(pending, n) /\ pioctl' = [pioctl EXCEPT ![n] = t]
      /\ pc' = [pc EXCEPT ![t] = "queued"]
      /\ UNCHANGED <<condition, eventOf, curr, hand>>
  BY <1>n DEF Request, driver
<1>4. n \notin Range(pending) /\ n # curr /\ n # hand
  BY <1>2 DEF OnePlace
<1>5. Phases[t] = "none" /\ Phases' = [Phases EXCEPT ![t] = "asked"]
  BY <1>1, <1>3 DEF Phases, Phase
<1>6. UNCHANGED Served
  BY <1>1, <1>3, <1>4 DEF Served
<1>7. InLine' = Append(InLine, t)
  <2>1. \A i \in DOMAIN pending : pioctl'[pending[i]] = pioctl[pending[i]]
    BY <1>1, <1>3, <1>4 DEF Range
  <2>2. Mapped(pioctl', Append(pending, n)) = Append(InLine, pioctl'[n])
    <3>1. pending \in Seq(Nodes) /\ n \in Nodes
          /\ AgreeOn(pending, pioctl, pioctl')
      BY <1>1, <1>2, <2>1 DEF AgreeOn
    <3>2. Mapped(pioctl', Append(pending, n))
            = Append(Mapped(pioctl, pending), pioctl'[n])
      BY <3>1, AppendMapped
    <3>3. QED
      BY <3>2 DEF InLine
  <2>3. pioctl'[n] = t
    BY <1>1, <1>2, <1>3
  <2>4. QED
    BY <1>3, <2>2, <2>3 DEF InLine
<1>8. QED
  BY <1>3, <1>5, <1>6, <1>7 DEF Line!Ask, Phases, InLine, Mapped, Served

LEMMA ServeStep ==
  ASSUME Inv, SendNext
  PROVE  Line!Serve
<1>1. /\ pending \in Seq(Nodes) /\ pending # <<>>
      /\ curr = NULL /\ hand = NULL /\ curr' = Head(pending) /\ hand' = hand
      /\ pending' = Tail(pending)
      /\ UNCHANGED <<pioctl, pc, condition, eventOf>>
  BY DEF Inv, Base, TypeOK, SendNext, MaySend, callers
<1>2. Head(pending) \in Nodes
  BY <1>1, HeadTailProperties
<1>3. UNCHANGED Phases
  BY <1>1 DEF Phases, Phase
<1>4. InLine # <<>> /\ Head(InLine) = pioctl[Head(pending)]
      /\ InLine' = Tail(InLine)
  BY <1>1, TailMapped DEF InLine
<1>5. Served = {} /\ Served' = {Head(InLine)}
  BY <1>1, <1>2, <1>4, Constants DEF Served
<1>6. QED
  BY <1>1, <1>3, <1>4, <1>5 DEF Line!Serve, Phases, InLine, Mapped, Served

\* A thread completes its own request, or one that was answered meanwhile.
LEMMA FinishStep ==
  ASSUME Inv, NEW t \in Threads, CancelComplete(t)
  PROVE  [Line!Next]_(Line!vars)
<1>p. PICK p : p = [pc EXCEPT ![t] = "woken"]
  OBVIOUS
<1>1. /\ TypeOK /\ pc \in [Threads -> Steps] /\ pc[t] = "completing"
      /\ condition \in [Threads -> BOOLEAN]
  BY DEF Inv, Base, TypeOK, CancelComplete
<1>2. /\ p \in [Threads -> Steps] /\ p[t] = "woken"
      /\ \A u \in Threads \ {t} : p[u] = pc[u]
  BY <1>1, <1>p DEF Steps
<1>3. Complete(t, p) /\ UNCHANGED <<pending, pioctl, curr, hand>>
  BY <1>p DEF CancelComplete, queues, driver
<1>4. Wakes(t, p)
  <2>1. \A u \in Threads : pc[u] = "waiting" => p[u] = "waiting"
    BY <1>1, <1>2
  <2>2. QED
    BY <1>1, <1>2, <1>3, <2>1, CompleteWakes
<1>5. Phases' = [Phases EXCEPT ![t] = "done"]
  <2>1. ButFor(t, p)
    BY <1>2 DEF ButFor
  <2>2. QED
    BY <1>1, <1>4, <2>1, WakesPhases
<1>6. UNCHANGED <<InLine, Served, eventOf>>
  BY <1>3, <1>4 DEF InLine, Served, Wakes
<1>7. CASE condition[t]
  <2>1. Phases[t] = "done"
    BY <1>1, <1>7 DEF Phases, Phase
  <2>2. UNCHANGED Phases
    BY <1>5, <2>1 DEF Phases
  <2>3. QED
    BY <1>6, <2>2, LineVars
<1>8. CASE ~condition[t]
  <2>1. Phases[t] = "givenUp"
    BY <1>1, <1>8 DEF Phases, Phase
  <2>2. Line!Finish(t)
    BY <1>5, <1>6, <2>1 DEF Line!Finish, Phases, InLine, Mapped, Served
  <2>3. QED
    BY <2>2 DEF Line!Next
<1>9. QED
  BY <1>7, <1>8

LEMMA LineStep == Inv /\ [Next]_vars => [Line!Next]_(Line!vars)
<1> SUFFICES ASSUME Inv, [Next]_vars PROVE [Line!Next]_(Line!vars)
  OBVIOUS
<1>a. /\ TypeOK /\ Tracked /\ DriverShape /\ AnswerIsCurrent
      /\ pc \in [Threads -> Steps] /\ condition \in [Threads -> BOOLEAN]
  BY DEF Inv, Base, TypeOK
<1>1. CASE UNCHANGED vars
  <2>1. UNCHANGED <<pending, pioctl, curr, hand, eventOf, pc, condition>>
    BY <1>1 DEF vars, queues, callers, driver
  <2>2. QED
    BY <2>1, LineStays DEF Phase
<1>2. ASSUME NEW t \in Threads, Request(t)
      PROVE  Line!Next
  BY <1>2, AskStep DEF Line!Next
<1>3. ASSUME NEW t \in Threads,
             RequestNoBuffer(t) \/ QueueWork(t) \/ Wait(t)
               \/ WokenTooEarly(t) \/ CancelNothing(t) \/ CancelFree(t)
      PROVE  UNCHANGED Line!vars
  <2>1. UNCHANGED <<pending, pioctl, curr, hand, eventOf, condition>>
    BY <1>3 DEF RequestNoBuffer, QueueWork, Wait, WokenTooEarly,
                CancelNothing, CancelFree, queues, callers, driver
  <2>2. \A u \in Threads \ {t} : pc'[u] = pc[u]
    BY <1>a, <1>3 DEF RequestNoBuffer, QueueWork, Wait, WokenTooEarly,
                      CancelNothing, CancelFree, callers
  <2>3. Phase(t)' = Phase(t)
    <3>1. CASE RequestNoBuffer(t)
      BY <3>1 DEF RequestNoBuffer, callers, Phase
    <3>2. CASE QueueWork(t) \/ Wait(t) \/ WokenTooEarly(t)
      BY <1>a, <2>1, <3>2 DEF QueueWork, Wait, WokenTooEarly, Phase
    <3>3. CASE CancelNothing(t)
      <4>1. pc[t] = "cancel" /\ pc'[t] = "completing" /\ ~Active(t)
        BY <1>a, <3>3 DEF CancelNothing, Tracked
      <4>2. condition[t] /\ condition'[t]
        BY <2>1, <4>1 DEF Active
      <4>3. QED
        BY <4>1, <4>2 DEF Phase
    <3>4. CASE CancelFree(t)
      BY <1>a, <2>1, <3>4 DEF CancelFree, Phase
    <3>5. QED
      BY <1>3, <3>1, <3>2, <3>3, <3>4
  <2>4. \A u \in Threads : Phase(u)' = Phase(u)
    BY <2>1, <2>2, <2>3 DEF Phase
  <2>5. QED
    BY <2>1, <2>4, LineStays
<1>4. ASSUME NEW t \in Threads, Return(t)
      PROVE  Line!Next
  <2>1. UNCHANGED <<pending, pioctl, curr, hand, eventOf>>
    BY <1>4 DEF Return, queues, driver
  <2>2. UNCHANGED <<InLine, Served>>
    BY <2>1 DEF InLine, Served
  <2>3. Phases[t] = "done" /\ Phases' = [Phases EXCEPT ![t] = "none"]
    BY <1>a, <1>4 DEF Return, Phases, Phase
  <2>4. Line!Return(t)
    BY <2>1, <2>2, <2>3 DEF Line!Return, Phases, InLine, Mapped, Served
  <2>5. QED
    BY <2>4 DEF Line!Next
<1>5. ASSUME NEW t \in Threads, CancelCurrent(t) \/ CancelPending(t)
      PROVE  Line!Next
  BY <1>5, GiveUpStep DEF Line!Next
<1>6. ASSUME NEW t \in Threads, CancelComplete(t)
      PROVE  [Line!Next]_(Line!vars)
  BY <1>6, FinishStep
<1>7. CASE WorkerStart \/ WorkerDebug \/ ReadRegs \/ AnswerHandled
             \/ SendDone \/ WorkerIdle \/ TimerExpires \/ Timeout
             \/ CardAnswers \/ CardNotifies
  <2>1. UNCHANGED <<pending, pioctl, curr, hand, eventOf, pc, condition>>
    BY <1>7 DEF WorkerStart, WorkerDebug, ReadRegs, AnswerHandled, SendDone,
                WorkerIdle, TimerExpires, Timeout, CardAnswers, CardNotifies,
                queues, callers, driver
  <2>2. QED
    BY <2>1, LineStays DEF Phase
<1>8. CASE AnswerCanceled \/ AnswerInvalid \/ HandlerDone \/ SendFails
  <2>1. curr # NULL /\ hand = NULL
    BY <1>a, <1>8, Constants DEF TypeOK, AnswerIsCurrent, AnswerCanceled,
       AnswerInvalid, HandlerDone, SendFails
  <2>2. Release(curr) /\ pending' = pending /\ curr' \in {curr, NULL}
    BY <1>8 DEF AnswerCanceled, AnswerInvalid, HandlerDone, SendFails
  <2>3. Released(curr)
    BY <1>a, <2>1, <2>2, ReleaseReleases DEF TypeOK
  <2>4. QED
    BY <2>1, <2>2, <2>3, ServedStep
<1>9. CASE CleanDone \/ AbandonDone
  <2>1. /\ curr \in {NULL, hand} /\ curr' = NULL
        /\ UNCHANGED <<pending, pioctl, eventOf, pc, condition>>
    BY <1>a, <1>9 DEF CleanDone, AbandonDone, DriverShape, callers
  <2>2. UNCHANGED <<Phases, InLine, Served>>
    BY <2>1 DEF Phases, Phase, InLine, Served
  <2>3. QED
    BY <2>1, <2>2, LineVars
<1>10. CASE SendNext
  BY <1>10, ServeStep DEF Line!Next
<1>11. QED
  BY <1>1, <1>2, <1>3, <1>4, <1>5, <1>6, <1>7, <1>8, <1>9, <1>10
     DEF Next, Proceed, Cancel, Worker

(***************************************************************************)
(* What the threads see of the driver is a line: their requests are served *)
(* one at a time in the order they were made, each ends once before its    *)
(* thread returns, and nobody gives up who has an event for himself.       *)
(***************************************************************************)
THEOREM ImplementsRequestLine == Spec => LineSpec
<1>1. Init => Line!Init
  <2> SUFFICES ASSUME Init PROVE Line!Init
    OBVIOUS
  <2>1. pending = <<>> /\ curr = NULL /\ eventOf \in [Threads -> Threads]
        /\ pc = [t \in Threads |-> "idle"]
    BY DEF Init
  <2>2. Phases = [t \in Threads |-> "none"] /\ Served = {}
    BY <2>1 DEF Phases, Phase, Served
  <2>3. InLine = <<>>
    BY <2>1 DEF InLine, Mapped
  <2>4. QED
    BY <2>1, <2>2, <2>3 DEF Line!Init, Phases, InLine, Mapped, Served
<1>2. Inv /\ [Next]_vars => [Line!Next]_(Line!vars)
  BY LineStep
<1>3. QED
  BY <1>1, <1>2, Invariance, PTL DEF Spec, LineSpec, Line!Spec

-----------------------------------------------------------------------------
(***************************************************************************)
(* No answer stays unseen.  The posts of an event are counted against the  *)
(* answers: whoever was answered and has not passed its wait is matched by *)
(* a post that is still counted or that woke a thread without an answer,   *)
(* which will cancel its request and post again.                           *)
(***************************************************************************)
Counted(e) ==
  /\ Cardinality(Answered(e)) <= sem[e] + Cardinality(Unanswered(e))
  /\ Waiting(e) # {} => sem[e] = 0

AllCounted == \A e \in Threads : Counted(e)

\* Sizes of sets that differ in one element or two.
LEMMA OneMore ==
  ASSUME NEW A, IsFiniteSet(A), NEW B, NEW x, B \subseteq A \cup {x}
  PROVE  IsFiniteSet(B) /\ Cardinality(B) <= Cardinality(A) + 1
<1>1. /\ IsFiniteSet(A \cup {x}) /\ Cardinality(A) \in Nat
      /\ Cardinality(A \cup {x}) <= Cardinality(A) + 1
  <2>1. /\ IsFiniteSet(A \cup {x}) /\ Cardinality(A) \in Nat
        /\ \/ Cardinality(A \cup {x}) = Cardinality(A)
           \/ Cardinality(A \cup {x}) = Cardinality(A) + 1
    BY FS_AddElement, FS_CardinalityType
  <2>2. QED
    BY <2>1
<1>2. /\ IsFiniteSet(B) /\ Cardinality(B) \in Nat
      /\ Cardinality(B) <= Cardinality(A \cup {x})
      /\ Cardinality(A \cup {x}) \in Nat
  BY <1>1, FS_Subset, FS_CardinalityType
<1>3. QED
  BY <1>1, <1>2

LEMMA OneLess ==
  ASSUME NEW A, IsFiniteSet(A), NEW B, B \subseteq A, NEW w \in A \ B
  PROVE  Cardinality(B) + 1 <= Cardinality(A)
<1>1. IsFiniteSet(B) /\ Cardinality(B) \in Nat /\ Cardinality(A) \in Nat
  BY FS_Subset, FS_CardinalityType
<1>2. B \cup {w} \subseteq A /\ Cardinality(B \cup {w}) = Cardinality(B) + 1
  BY <1>1, FS_AddElement
<1>3. Cardinality(B \cup {w}) <= Cardinality(A)
  BY <1>2, FS_Subset
<1>4. QED
  BY <1>2, <1>3

LEMMA Exchanged ==
  ASSUME NEW A, IsFiniteSet(A), NEW B, NEW x, B \subseteq A \cup {x},
         NEW w \in A \ B
  PROVE  Cardinality(B) <= Cardinality(A)
<1> DEFINE C == B \ {x}
<1>1. C \subseteq A /\ w \in A \ C /\ B \subseteq C \cup {x}
  OBVIOUS
<1>2. IsFiniteSet(C)
  BY <1>1, FS_Subset
<1> HIDE DEF C
<1>3. /\ Cardinality(C) + 1 <= Cardinality(A)
      /\ IsFiniteSet(B) /\ Cardinality(B) <= Cardinality(C) + 1
  BY <1>1, <1>2, OneLess, OneMore
<1>4. /\ Cardinality(A) \in Nat /\ Cardinality(B) \in Nat
      /\ Cardinality(C) \in Nat
  BY <1>2, <1>3, FS_CardinalityType
<1>5. QED
  BY <1>3, <1>4

LEMMA ThreadSets ==
  ASSUME NEW S \in SUBSET Threads
  PROVE  /\ IsFiniteSet(S) /\ Cardinality(S) \in Nat
         /\ Cardinality(S) <= SemMax
<1>1. /\ IsFiniteSet(Threads) /\ SemMax \in Nat
      /\ Cardinality(Threads) <= SemMax
  BY Constants, CommandsAssumption
<1>2. IsFiniteSet(S) /\ Cardinality(S) <= Cardinality(Threads)
  BY <1>1, FS_Subset
<1>3. Cardinality(S) \in Nat /\ Cardinality(Threads) \in Nat
  BY <1>1, <1>2, FS_CardinalityType
<1>4. QED
  BY <1>1, <1>2, <1>3

\* What completes the request of t while the threads are at p: the driver thread
\* for a request that waits, or the thread itself.
Completes(t, p) ==
  /\ ButFor(t, p)
  /\ \/ p[t] = pc[t] /\ Active(t)
     \/ p[t] = "woken" /\ pc[t] = "completing"

\* The event of another interface does not notice.
LEMMA OthersCounted ==
  ASSUME TypeOK, NEW t \in Threads, NEW p, Wakes(t, p), Completes(t, p),
         NEW e \in Threads, e # eventOf[t], Counted(e)
  PROVE  Counted(e)'
<1>1. eventOf' = eventOf /\ sem'[e] = sem[e]
  BY DEF Wakes
<1>2. condition \in [Threads -> BOOLEAN]
  BY DEF TypeOK
<1>3. ASSUME NEW u \in Threads, eventOf[u] = e
      PROVE  pc'[u] = pc[u] /\ condition'[u] = condition[u]
  BY <1>2, <1>3 DEF Wakes, Completes, ButFor
<1>4. UNCHANGED <<Answered(e), Unanswered(e), Waiting(e)>>
  BY <1>1, <1>3 DEF Answered, Unanswered, Waiting
<1>5. QED
  BY <1>1, <1>4 DEF Counted

\* Its own event: nobody waits for it, and the post is counted ...
LEMMA PostCounted ==
  ASSUME TypeOK, NEW t \in Threads, NEW p, Completes(t, p),
         Complete(t, p), t \notin timedOut', Waiting(eventOf[t]) = {},
         Counted(eventOf[t])
  PROVE  Counted(eventOf[t])'
<1> DEFINE e == eventOf[t]
<1>1. /\ eventOf \in [Threads -> Threads] /\ sem \in [Threads -> 0..SemMax]
      /\ condition \in [Threads -> BOOLEAN] /\ SemMax \in Nat /\ e \in Threads
      /\ pc[t] # "idle"
  BY Constants DEF TypeOK, Completes, Active
<1>2. /\ pc' = p /\ eventOf' = eventOf
      /\ condition' = [condition EXCEPT ![t] = TRUE]
      /\ sem' = [sem EXCEPT ![e] = IF sem[e] < SemMax THEN sem[e] + 1 ELSE sem[e]]
  BY DEF Complete, Post
<1>3. /\ \A u \in Threads \ {t} : pc'[u] = pc[u] /\ condition'[u] = condition[u]
      /\ condition'[t] = TRUE /\ pc'[t] \in {pc[t], "woken"}
      /\ Active(t) => pc'[t] = pc[t]
  BY <1>1, <1>2 DEF Completes, ButFor, Active
<1>4. Waiting(e)' = {}
  BY <1>2, <1>3 DEF Waiting
<1> DEFINE A == Answered(e)
           U == Unanswered(e)
           B == {u \in Threads : eventOf[u] = e /\ condition'[u]
                   /\ pc'[u] \in {"queued", "posted", "waiting"}}
           V == {u \in Threads : eventOf[u] = e /\ ~condition'[u]
                   /\ pc'[u] \in Awake}
<1>5. Answered(e)' = B /\ Unanswered(e)' = V
  BY <1>2 DEF Answered, Unanswered
<1>6. /\ A \in SUBSET Threads /\ U \in SUBSET Threads
      /\ B \in SUBSET Threads /\ V \in SUBSET Threads
  BY DEF Answered, Unanswered
<1>7. B \subseteq A \cup {t} /\ U \subseteq V \cup {t}
  BY <1>3 DEF Answered, Unanswered
<1>8. t \in U => B \subseteq A
  BY <1>3 DEF Answered, Unanswered, Awake, Completes
<1>9. Cardinality(A) <= sem[e] + Cardinality(U)
  BY DEF Counted
<1> HIDE DEF A, U, B, V
<1>10. /\ IsFiniteSet(A) /\ IsFiniteSet(B) /\ IsFiniteSet(U) /\ IsFiniteSet(V)
       /\ Cardinality(A) \in Nat /\ Cardinality(B) \in Nat
       /\ Cardinality(U) \in Nat /\ Cardinality(V) \in Nat
       /\ Cardinality(B) <= SemMax
  BY <1>6, ThreadSets
<1>11. Cardinality(B) <= sem[e] + 1 + Cardinality(V)
  <2>1. CASE t \in U
    <3>1. Cardinality(B) <= Cardinality(A)
      BY <1>8, <1>10, <2>1, FS_Subset
    <3>2. Cardinality(U) <= Cardinality(V) + 1
      BY <1>7, <1>10, OneMore
    <3>3. QED
      BY <1>1, <1>9, <1>10, <3>1, <3>2
  <2>2. CASE t \notin U
    <3>1. Cardinality(B) <= Cardinality(A) + 1
      BY <1>7, <1>10, OneMore
    <3>2. Cardinality(U) <= Cardinality(V)
      BY <1>7, <1>10, <2>2, FS_Subset
    <3>3. QED
      BY <1>1, <1>9, <1>10, <3>1, <3>2
  <2>3. QED
    BY <2>1, <2>2
<1>12. Cardinality(B) <= sem'[e] + Cardinality(V)
  BY <1>1, <1>2, <1>10, <1>11
<1>13. eventOf[t]' = e
  BY <1>2
<1>14. QED
  BY <1>4, <1>5, <1>12, <1>13 DEF Counted

\* ... or the first that waits gets it.
LEMMA HandedCounted ==
  ASSUME TypeOK, NEW t \in Threads, NEW p \in [Threads -> Steps],
         Completes(t, p), Complete(t, p), t \notin timedOut',
         Waiting(eventOf[t]) # {}, Counted(eventOf[t])
  PROVE  Counted(eventOf[t])'
<1> DEFINE e == eventOf[t]
<1>1. /\ eventOf \in [Threads -> Threads] /\ sem \in [Threads -> 0..SemMax]
      /\ condition \in [Threads -> BOOLEAN] /\ SemMax \in Nat /\ e \in Threads
      /\ pc[t] # "idle"
  BY Constants DEF TypeOK, Completes, Active
<1>2. PICK w \in Threads :
        /\ pc[w] = "waiting" /\ eventOf[w] = e
        /\ pc' = [p EXCEPT ![w] = "woken"]
  <2>1. First(Waiting(e)) \in Waiting(e)
    <3>1. Waiting(e) \in SUBSET Threads
      BY DEF Waiting
    <3>2. QED
      BY <3>1, FirstIn
  <2>2. pc' = [p EXCEPT ![First(Waiting(e))] = "woken"]
    BY DEF Complete, Post
  <2>3. QED
    BY <2>1, <2>2 DEF Waiting
<1>3. /\ sem' = sem /\ eventOf' = eventOf
      /\ condition' = [condition EXCEPT ![t] = TRUE]
  BY DEF Complete, Post
<1>4. /\ \A u \in Threads \ {t, w} :
           pc'[u] = pc[u] /\ condition'[u] = condition[u]
      /\ condition'[t] = TRUE /\ pc'[w] = "woken"
      /\ w # t => condition'[w] = condition[w] /\ pc'[t] \in {pc[t], "woken"}
      /\ Active(t) /\ w # t => pc'[t] = pc[t]
      /\ w = t => ~condition[t]
  BY <1>1, <1>2, <1>3 DEF Completes, ButFor, Active
<1> DEFINE A == Answered(e)
           U == Unanswered(e)
           B == {u \in Threads : eventOf[u] = e /\ condition'[u]
                   /\ pc'[u] \in {"queued", "posted", "waiting"}}
           V == {u \in Threads : eventOf[u] = e /\ ~condition'[u]
                   /\ pc'[u] \in Awake}
<1>5. Answered(e)' = B /\ Unanswered(e)' = V
  BY <1>3 DEF Answered, Unanswered
<1>6. /\ A \in SUBSET Threads /\ U \in SUBSET Threads
      /\ B \in SUBSET Threads /\ V \in SUBSET Threads
  BY DEF Answered, Unanswered
<1>7. B \subseteq A \cup {t} /\ U \subseteq V \cup {t}
  BY <1>2, <1>4 DEF Answered, Unanswered, Awake
<1>8. t \in U \/ w = t => B \subseteq A
  BY <1>2, <1>4 DEF Answered, Unanswered, Awake, Completes
<1>9. /\ w # t /\ condition[w] => w \in A \ B
      /\ w # t /\ ~condition[w] => w \in V \ U
      /\ w = t => t \notin U
  BY <1>2, <1>4 DEF Answered, Unanswered, Awake
<1>10. Cardinality(A) <= Cardinality(U) /\ sem[e] = 0
  BY ThreadSets, <1>6 DEF Counted
<1> HIDE DEF A, U, B, V
<1>11. /\ IsFiniteSet(A) /\ IsFiniteSet(B) /\ IsFiniteSet(U) /\ IsFiniteSet(V)
       /\ Cardinality(A) \in Nat /\ Cardinality(B) \in Nat
       /\ Cardinality(U) \in Nat /\ Cardinality(V) \in Nat
  BY <1>6, ThreadSets
<1>12. Cardinality(B) <= Cardinality(V)
  <2>1. CASE w = t
    <3>1. B \subseteq A /\ U \subseteq V
      BY <1>7, <1>8, <1>9, <2>1
    <3>2. Cardinality(B) <= Cardinality(A) /\ Cardinality(U) <= Cardinality(V)
      BY <1>11, <3>1, FS_Subset
    <3>3. QED
      BY <1>10, <1>11, <3>2
  <2>2. CASE w # t /\ condition[w] /\ t \in U
    <3>1. Cardinality(B) + 1 <= Cardinality(A)
      BY <1>8, <1>9, <1>11, <2>2, OneLess
    <3>2. Cardinality(U) <= Cardinality(V) + 1
      BY <1>7, <1>11, OneMore
    <3>3. QED
      BY <1>10, <1>11, <3>1, <3>2
  <2>3. CASE w # t /\ condition[w] /\ t \notin U
    <3>1. Cardinality(B) <= Cardinality(A)
      BY <1>7, <1>9, <1>11, <2>3, Exchanged
    <3>2. Cardinality(U) <= Cardinality(V)
      BY <1>7, <1>11, <2>3, FS_Subset
    <3>3. QED
      BY <1>10, <1>11, <3>1, <3>2
  <2>4. CASE w # t /\ ~condition[w] /\ t \in U
    <3>1. Cardinality(B) <= Cardinality(A)
      BY <1>8, <1>11, <2>4, FS_Subset
    <3>2. Cardinality(U) <= Cardinality(V)
      BY <1>7, <1>9, <1>11, <2>4, Exchanged
    <3>3. QED
      BY <1>10, <1>11, <3>1, <3>2
  <2>5. CASE w # t /\ ~condition[w] /\ t \notin U
    <3>1. Cardinality(B) <= Cardinality(A) + 1
      BY <1>7, <1>11, OneMore
    <3>2. Cardinality(U) + 1 <= Cardinality(V)
      <4>1. U \subseteq V
        BY <1>7, <2>5
      <4>2. QED
        BY <1>9, <1>11, <2>5, <4>1, OneLess
    <3>3. QED
      BY <1>10, <1>11, <3>1, <3>2
  <2>6. QED
    BY <2>1, <2>2, <2>3, <2>4, <2>5
<1>13. eventOf[t]' = e /\ sem'[e] = 0
  BY <1>3, <1>10
<1>14. QED
  BY <1>5, <1>11, <1>12, <1>13 DEF Counted

LEMMA CompleteCounted ==
  ASSUME TypeOK, AllCounted, NEW t \in Threads,
         NEW p \in [Threads -> Steps], Completes(t, p), Complete(t, p),
         t \notin timedOut'
  PROVE  AllCounted'
<1>1. Wakes(t, p)
  <2>1. \A u \in Threads : pc[u] = "waiting" => p[u] = "waiting"
    BY DEF Completes, ButFor
  <2>2. QED
    BY <2>1, CompleteWakes
<1>2. eventOf \in [Threads -> Threads] /\ eventOf' = eventOf
  BY <1>1 DEF TypeOK, Wakes
<1>3. ASSUME NEW e \in Threads, e # eventOf[t] PROVE Counted(e)'
  BY <1>1, <1>3, OthersCounted DEF AllCounted
<1>4. Counted(eventOf[t])
  BY <1>2 DEF AllCounted
<1>5. Counted(eventOf[t])'
  BY <1>4, PostCounted, HandedCounted
<1>6. QED
  BY <1>2, <1>3, <1>5 DEF AllCounted

\* The steps that nobody counts.
LEMMA CountsStay ==
  ASSUME AllCounted, UNCHANGED <<eventOf, sem>>,
         \A u \in Threads :
           \/ UNCHANGED <<pc[u], condition[u]>>
           \/ /\ ~(condition[u] /\ pc[u] \in {"queued", "posted"})
              /\ pc[u] # "waiting" /\ pc'[u] # "waiting"
              /\ ~(condition'[u] /\ pc'[u] \in {"queued", "posted"})
              /\ (~condition'[u] /\ pc'[u] \in Awake)
                   <=> (~condition[u] /\ pc[u] \in Awake)
           \/ /\ condition'[u] = condition[u]
              /\ pc[u] = "queued" /\ pc'[u] = "posted"
  PROVE  AllCounted'
<1> SUFFICES ASSUME NEW e \in Threads PROVE Counted(e)'
  BY DEF AllCounted
<1>1. UNCHANGED <<Answered(e), Unanswered(e), Waiting(e)>>
  BY DEF Answered, Unanswered, Waiting, Awake
<1>2. Counted(e)
  BY DEF AllCounted
<1>3. QED
  BY <1>1, <1>2 DEF Counted

LEMMA WaitCounted ==
  ASSUME TypeOK, AllCounted, NEW t \in Threads, Wait(t)
  PROVE  AllCounted'
<1>1. /\ eventOf \in [Threads -> Threads] /\ sem \in [Threads -> 0..SemMax]
      /\ condition \in [Threads -> BOOLEAN] /\ pc \in [Threads -> Steps]
      /\ SemMax \in Nat /\ pc[t] = "posted" /\ eventOf[t] \in Threads
      /\ UNCHANGED <<eventOf, condition>>
  BY Constants DEF TypeOK, Wait
<1>2. ASSUME NEW e \in Threads, e # eventOf[t] PROVE Counted(e)'
  <2>1. sem'[e] = sem[e] /\ \A u \in Threads \ {t} : pc'[u] = pc[u]
    BY <1>1, <1>2 DEF Wait
  <2>2. UNCHANGED <<Answered(e), Unanswered(e), Waiting(e)>>
    BY <1>1, <1>2, <2>1 DEF Answered, Unanswered, Waiting
  <2>3. QED
    BY <2>1, <2>2 DEF AllCounted, Counted
<1> DEFINE e == eventOf[t]
<1>3. Counted(e) /\ e' = e
  BY <1>1 DEF AllCounted
<1>4. CASE sem[e] = 0
  <2>1. /\ sem' = sem /\ pc'[t] = "waiting"
        /\ \A u \in Threads \ {t} : pc'[u] = pc[u]
    BY <1>1, <1>4 DEF Wait
  <2>2. UNCHANGED <<Answered(e), Unanswered(e)>>
    BY <1>1, <2>1 DEF Answered, Unanswered, Awake
  <2>3. QED
    BY <1>1, <1>2, <1>3, <1>4, <2>1, <2>2 DEF AllCounted, Counted
<1>5. CASE sem[e] > 0
  <2>1. /\ sem'[e] = sem[e] - 1 /\ pc'[t] = "woken"
        /\ \A u \in Threads \ {t} : pc'[u] = pc[u]
    BY <1>1, <1>5 DEF Wait
  <2>2. Waiting(e)' = {}
    BY <1>1, <1>3, <1>5, <2>1 DEF Counted, Waiting
  <2> DEFINE A == Answered(e)
             U == Unanswered(e)
             B == {u \in Threads : eventOf[u] = e /\ condition[u]
                     /\ pc'[u] \in {"queued", "posted", "waiting"}}
             V == {u \in Threads : eventOf[u] = e /\ ~condition[u]
                     /\ pc'[u] \in Awake}
  <2>3. Answered(e)' = B /\ Unanswered(e)' = V
    BY <1>1 DEF Answered, Unanswered
  <2>4. /\ A \in SUBSET Threads /\ U \in SUBSET Threads
        /\ B \in SUBSET Threads /\ V \in SUBSET Threads
        /\ B \subseteq A /\ U \subseteq V
    BY <1>1, <2>1 DEF Answered, Unanswered, Awake
  <2>5. /\ condition[t] => t \in A \ B
        /\ ~condition[t] => t \in V \ U
    BY <1>1, <2>1 DEF Answered, Unanswered, Awake
  <2>6. Cardinality(A) <= sem[e] + Cardinality(U)
    BY <1>3 DEF Counted
  <2> HIDE DEF A, U, B, V
  <2>7. /\ IsFiniteSet(A) /\ IsFiniteSet(B) /\ IsFiniteSet(U)
        /\ IsFiniteSet(V)
        /\ Cardinality(A) \in Nat /\ Cardinality(B) \in Nat
        /\ Cardinality(U) \in Nat /\ Cardinality(V) \in Nat
    BY <2>4, ThreadSets
  <2>8. Cardinality(B) <= Cardinality(A) /\ Cardinality(U) <= Cardinality(V)
    BY <2>4, <2>7, FS_Subset
  <2>9. \/ Cardinality(B) + 1 <= Cardinality(A)
        \/ Cardinality(U) + 1 <= Cardinality(V)
    BY <2>4, <2>5, <2>7, OneLess
  <2>10. Cardinality(B) <= sem'[e] + Cardinality(V)
    BY <1>1, <2>1, <2>6, <2>7, <2>8, <2>9
  <2>11. Counted(e)'
    BY <1>3, <2>2, <2>3, <2>10 DEF Counted
  <2>12. QED
    BY <1>1, <1>2, <2>11 DEF AllCounted
<1>6. QED
  BY <1>1, <1>4, <1>5

LEMMA CountedStep == Inv /\ AllCounted /\ [Next]_vars => AllCounted'
<1> SUFFICES ASSUME Inv, AllCounted, [Next]_vars PROVE AllCounted'
  OBVIOUS
<1>a. /\ TypeOK /\ Tracked /\ DriverShape /\ AnswerIsCurrent
      /\ pc \in [Threads -> Steps] /\ condition \in [Threads -> BOOLEAN]
      /\ curr \in Nodes \cup {NULL}
      /\ pioctl \in [Nodes -> Threads \cup {NULL}]
  BY DEF Inv, Base, TypeOK
<1>1. CASE \/ UNCHANGED vars \/ \E t \in Threads : RequestNoBuffer(t)
           \/ WorkerStart \/ WorkerDebug \/ ReadRegs \/ AnswerHandled
           \/ CleanDone \/ SendNext \/ SendDone \/ AbandonDone \/ WorkerIdle
           \/ TimerExpires \/ Timeout \/ CardAnswers \/ CardNotifies
  <2>1. UNCHANGED <<eventOf, sem, pc, condition>>
    BY <1>1 DEF vars, callers, RequestNoBuffer, WorkerStart, WorkerDebug,
       ReadRegs, AnswerHandled, CleanDone, SendNext, SendDone, AbandonDone,
       WorkerIdle, TimerExpires, Timeout, CardAnswers, CardNotifies
  <2>2. QED
    BY <2>1, CountsStay
<1>2. ASSUME NEW t \in Threads,
             \/ Request(t) \/ QueueWork(t) \/ Return(t) \/ WokenTooEarly(t)
             \/ CancelCurrent(t) \/ CancelPending(t) \/ CancelNothing(t)
             \/ CancelFree(t)
      PROVE  AllCounted'
  <2>1. /\ UNCHANGED <<eventOf, sem>>
        /\ \A u \in Threads \ {t} : UNCHANGED <<pc[u], condition[u]>>
    BY <1>a, <1>2 DEF Request, QueueWork, Return, WokenTooEarly,
       CancelCurrent, CancelPending, CancelNothing, CancelFree
  <2>2. CASE Request(t)
    BY <1>a, <2>1, <2>2, CountsStay DEF Request, Tracked, Awake
  <2>3. CASE QueueWork(t)
    BY <1>a, <2>1, <2>3, CountsStay DEF QueueWork
  <2>4. CASE Return(t)
    BY <1>a, <2>1, <2>4, CountsStay DEF Return, Awake
  <2>5. CASE \/ WokenTooEarly(t) \/ CancelCurrent(t) \/ CancelPending(t)
             \/ CancelNothing(t) \/ CancelFree(t)
    <3>1. /\ pc[t] \in Awake /\ pc'[t] \in Awake
          /\ condition'[t] = condition[t]
      BY <1>a, <2>5 DEF WokenTooEarly, CancelCurrent, CancelPending,
         CancelNothing, CancelFree, Awake
    <3>2. QED
      BY <2>1, <3>1, CountsStay DEF Awake
  <2>6. QED
    BY <1>2, <2>2, <2>3, <2>4, <2>5
<1>3. ASSUME NEW t \in Threads, Wait(t) PROVE AllCounted'
  BY <1>a, <1>3, WaitCounted
<1>4. ASSUME NEW t \in Threads, CancelComplete(t) PROVE AllCounted'
  <2>1. PICK p : p = [pc EXCEPT ![t] = "woken"]
    OBVIOUS
  <2>2. /\ p \in [Threads -> Steps] /\ p[t] = "woken"
        /\ \A u \in Threads \ {t} : p[u] = pc[u]
        /\ pc[t] = "completing"
    BY <1>a, <1>4, <2>1 DEF Steps, CancelComplete
  <2>3. Complete(t, p) /\ t \notin timedOut'
    BY <1>4, <2>1 DEF CancelComplete
  <2>4. Completes(t, p)
    BY <2>2 DEF Completes, ButFor
  <2>5. QED
    BY <1>a, <2>2, <2>3, <2>4, CompleteCounted
<1>5. CASE AnswerCanceled
  <2>1. curr \in canceled /\ canceled \subseteq Nodes /\ Release(curr)
    BY <1>5 DEF AnswerCanceled, Inv, Base, TypeOK
  <2>2. pioctl[curr] = NULL
    BY <1>a, <2>1 DEF DriverShape
  <2>3. UNCHANGED <<eventOf, sem, pc, condition>>
    BY <2>1, <2>2 DEF Release
  <2>4. QED
    BY <2>3, CountsStay
<1>6. CASE AnswerInvalid \/ HandlerDone \/ SendFails
  <2>1. curr # NULL /\ curr \in Nodes /\ Release(curr)
        /\ timedOut' = timedOut \ {pioctl[curr]}
    BY <1>a, <1>6, Constants DEF TypeOK, AnswerIsCurrent, AnswerInvalid,
       HandlerDone, SendFails
  <2>2. CASE pioctl[curr] = NULL
    <3>1. UNCHANGED <<eventOf, sem, pc, condition>>
      BY <2>1, <2>2 DEF Release
    <3>2. QED
      BY <3>1, CountsStay
  <2>3. CASE pioctl[curr] # NULL
    <3>1. PICK t \in Threads : t = pioctl[curr]
      BY <1>a, <2>1, <2>3
    <3>2. Active(t) /\ Complete(t, pc) /\ t \notin timedOut'
      BY <1>a, <2>1, <2>3, <3>1 DEF Tracked, Release
    <3>3. Completes(t, pc)
      BY <3>2 DEF Completes, ButFor, Active
    <3>4. QED
      BY <1>a, <3>2, <3>3, CompleteCounted
  <2>4. QED
    BY <2>2, <2>3
<1>7. QED
  BY <1>1, <1>2, <1>3, <1>4, <1>5, <1>6 DEF Next, Proceed, Cancel, Worker

(***************************************************************************)
(* No answer stays unseen: while a thread waits whose request was          *)
(* answered, another of its interface is awake and will post their event.  *)
(***************************************************************************)
THEOREM AnswersSeen == Spec => []AnswerSeen
<1>1. Init => AllCounted
  <2> SUFFICES ASSUME Init, NEW e \in Threads PROVE Counted(e)
    BY DEF AllCounted
  <2>1. Answered(e) = {} /\ Unanswered(e) = {} /\ Waiting(e) = {} /\ sem[e] = 0
    BY DEF Init, Answered, Unanswered, Waiting, Awake
  <2>2. QED
    BY <2>1, FS_EmptySet DEF Counted
<1>2. ASSUME TypeOK, AllCounted PROVE AnswerSeen
  <2> SUFFICES ASSUME NEW t \in Threads, pc[t] = "waiting", condition[t],
                      Unanswered(eventOf[t]) = {}
               PROVE  FALSE
    BY DEF AnswerSeen
  <2> DEFINE e == eventOf[t]
  <2>1. e \in Threads /\ Counted(e)
    BY <1>2 DEF TypeOK, AllCounted
  <2>2. t \in Answered(e) /\ t \in Waiting(e)
    BY DEF Answered, Waiting
  <2>3. sem[e] = 0 /\ Cardinality(Answered(e)) <= 0
    BY <2>1, <2>2, FS_EmptySet DEF Counted
  <2>4. Answered(e) \in SUBSET Threads
    BY DEF Answered
  <2>5. IsFiniteSet(Answered(e)) /\ Cardinality(Answered(e)) \in Nat
    BY <2>4, ThreadSets
  <2>6. Cardinality(Answered(e)) = 0
    BY <2>3, <2>5
  <2>7. QED
    BY <2>2, <2>5, <2>6, FS_EmptySet
<1>3. Inv => TypeOK
  BY DEF Inv, Base
<1>4. QED
  BY <1>1, <1>2, <1>3, CountedStep, Invariance, PTL DEF Spec

-----------------------------------------------------------------------------
(***************************************************************************)
(* The main loop is due while anything waits for it.  An interrupt that is *)
(* pending leaves a run beyond the one that prints the registers; the port *)
(* for commands is busy only for the current command, so that the loop     *)
(* never ends before it has sent what it may.                              *)
(***************************************************************************)
InHand ==
  /\ wpc # "abandon"
  /\ regDbg => runs > 0
  /\ intPending => WorkDue
  /\ cmdSent => curr # NULL
  /\ wpc \in {"read", "handler", "clean"} => ~cmdSent
  /\ WorkComes

\* A run more is due, for the registers or for anything else.
LEMMA MoreDue ==
  ASSUME runs \in Nat, regDbg \in BOOLEAN, InHand,
         runs' = runs + 1
  PROVE  /\ regDbg' = regDbg => WorkDue'
         /\ regDbg' = TRUE /\ WorkDue => WorkDue'
         /\ runs' > 0
BY DEF InHand, WorkDue

CanWrite == "failing write" \notin MayHappen

LEMMA InHandStep ==
  ASSUME CanWrite, Inv, InHand, [Next]_vars
  PROVE  InHand'
<1>a. /\ TypeOK /\ DriverShape /\ AnswerIsCurrent
      /\ pending \in Seq(Nodes) /\ curr \in Nodes \cup {NULL}
      /\ pc \in [Threads -> Steps] /\ runs \in Nat
      /\ {intPending, regDbg, cmdSent} \subseteq BOOLEAN
  BY DEF Inv, Base, TypeOK
<1>b. ~SendFails /\ ~AbandonDone
  <2>1. ~SendFails
    BY Zenon DEF SendFails, CanWrite
  <2>2. QED
    BY <2>1 DEF AbandonDone, InHand
<1>1. CASE UNCHANGED vars \/ TimerExpires
  <2>1. UNCHANGED <<pending, curr, pc, wpc, runs, intPending, regDbg, cmdSent,
                    card, answer>>
    BY <1>1 DEF vars, queues, callers, driver, work, chip, TimerExpires
  <2>2. QED
    BY <2>1 DEF InHand, WorkComes, WorkDue
<1>2. ASSUME NEW t \in Threads, Request(t) PROVE InHand'
  <2>1. /\ UNCHANGED <<curr, wpc, runs, intPending, regDbg, cmdSent, card,
                       answer>>
        /\ pc'[t] = "queued"
    BY <1>a, <1>2 DEF Request, driver, work, chip
  <2>2. QED
    BY <2>1 DEF InHand, WorkComes, WorkDue
<1>3. ASSUME NEW t \in Threads, QueueWork(t) PROVE InHand'
  <2>1. /\ UNCHANGED <<pending, curr, wpc, intPending, regDbg, cmdSent, card,
                       answer>>
        /\ runs' = runs + 1
    BY <1>3 DEF QueueWork, queues, driver, chip
  <2>2. WorkDue' /\ runs' > 0
    BY <1>a, <2>1, MoreDue
  <2>3. QED
    BY <2>1, <2>2 DEF InHand, WorkComes
<1>4. ASSUME NEW t \in Threads,
             RequestNoBuffer(t) \/ Wait(t) \/ Return(t) \/ Cancel(t)
      PROVE  InHand'
  <2>1. /\ UNCHANGED <<curr, wpc, runs, intPending, regDbg, cmdSent, card,
                       answer>>
        /\ pending' # <<>> => pending # <<>>
    <3>1. CASE CancelPending(t)
      <4>1. PICK i \in DOMAIN pending : TRUE
        BY <3>1 DEF CancelPending
      <4>2. i \in 1..Len(pending) /\ Len(pending) \in Nat
        BY <1>a, LenProperties
      <4>3. pending # <<>>
        BY <4>2
      <4>4. QED
        BY <3>1, <4>3 DEF CancelPending, driver, work, chip
    <3>2. CASE ~CancelPending(t)
      BY <1>4, <3>2 DEF RequestNoBuffer, Wait, Return, Cancel, WokenTooEarly,
         CancelCurrent, CancelNothing, CancelFree, CancelComplete, queues,
         driver, work, chip
    <3>3. QED
      BY <3>1, <3>2
  <2>2. \A u \in Threads : pc[u] = "queued" => pc'[u] = "queued"
    <3>1. CASE CancelComplete(t)
      <4>1. PICK p : p = [pc EXCEPT ![t] = "woken"]
        OBVIOUS
      <4>2. /\ p \in [Threads -> Steps] /\ pc[t] = "completing"
            /\ \A u \in Threads \ {t} : p[u] = pc[u]
        BY <1>a, <3>1, <4>1 DEF Steps, CancelComplete
      <4>3. \A u \in Threads : pc[u] = "waiting" => p[u] = "waiting"
        BY <4>2
      <4>4. Wakes(t, p)
        BY <1>a, <3>1, <4>1, <4>2, <4>3, CompleteWakes DEF CancelComplete
      <4>5. QED
        BY <4>2, <4>4 DEF Wakes
    <3>2. CASE RequestNoBuffer(t)
      BY <3>2 DEF RequestNoBuffer, callers
    <3>3. CASE Wait(t) \/ Return(t) \/ (Cancel(t) /\ ~CancelComplete(t))
      <4>1. pc[t] # "queued" /\ \A u \in Threads \ {t} : pc'[u] = pc[u]
        BY <1>a, <3>3 DEF Wait, Return, Cancel, WokenTooEarly, CancelCurrent,
           CancelPending, CancelNothing, CancelFree
      <4>2. QED
        BY <4>1
    <3>4. QED
      BY <1>4, <3>1, <3>2, <3>3
  <2>3. QED
    BY <2>1, <2>2 DEF InHand, WorkComes, WorkDue
<1>5. CASE WorkerStart
  <2>1. /\ wpc = "idle" /\ ~regDbg /\ runs' = runs - 1 /\ intPending' = FALSE
        /\ wpc' = IF intPending THEN "regs" ELSE "loop"
        /\ UNCHANGED <<curr, regDbg, cmdSent, card, answer>>
    BY <1>5 DEF WorkerStart, queues, chip
  <2>2. QED
    BY <1>a, <2>1 DEF InHand, WorkComes, WorkDue
<1>6. CASE WorkerDebug
  <2>1. /\ wpc = "idle" /\ regDbg /\ regDbg' = FALSE /\ runs' = runs - 1
        /\ UNCHANGED <<pending, curr, pc, wpc, intPending, cmdSent, card,
                       answer>>
    BY <1>6 DEF WorkerDebug, queues, callers, driver, chip
  <2>2. WorkDue => WorkDue'
    BY <1>a, <2>1 DEF WorkDue
  <2>3. QED
    BY <2>1, <2>2 DEF InHand, WorkComes
<1>7. CASE ReadRegs
  <2>1. /\ wpc = "regs" /\ cmdSent' = (cmdSent /\ card # NULL)
        /\ wpc' = IF answer # NULL THEN "read" ELSE "loop"
        /\ UNCHANGED <<curr, runs, intPending, regDbg, card, answer>>
    BY <1>7 DEF ReadRegs, queues, work
  <2>2. answer # NULL => card = NULL
    BY <1>a DEF AnswerIsCurrent
  <2>3. QED
    BY <1>a, <2>1, <2>2, Constants DEF InHand, WorkComes, WorkDue
<1>8. CASE AnswerCanceled \/ AnswerInvalid \/ AnswerHandled
  <2>1. /\ wpc = "read" /\ wpc' \in {"clean", "handler"}
        /\ UNCHANGED <<runs, intPending, regDbg, cmdSent>>
    BY <1>8 DEF AnswerCanceled, AnswerInvalid, AnswerHandled, work
  <2>2. QED
    BY <2>1 DEF InHand, WorkComes, WorkDue
<1>9. CASE HandlerDone
  <2>1. /\ wpc = "handler" /\ wpc' = "clean"
        /\ UNCHANGED <<runs, intPending, regDbg, cmdSent>>
    BY <1>9 DEF HandlerDone, work, chip
  <2>2. QED
    BY <2>1 DEF InHand, WorkComes, WorkDue
<1>10. CASE CleanDone
  <2>1. /\ wpc = "clean" /\ wpc' = "loop" /\ curr' = NULL
        /\ UNCHANGED <<runs, intPending, regDbg, cmdSent>>
    BY <1>a, <1>10 DEF CleanDone, DriverShape, work, chip
  <2>2. QED
    BY <2>1 DEF InHand, WorkComes, WorkDue
<1>11. CASE SendNext
  <2>1. /\ wpc' = "send" /\ curr' = Head(pending) /\ pending # <<>>
        /\ UNCHANGED <<runs, intPending, regDbg>>
    BY <1>11 DEF SendNext, MaySend, work
  <2>2. curr' # NULL
    <3>1. Head(pending) \in Nodes
      BY <1>a, <2>1, HeadTailProperties
    <3>2. QED
      BY <2>1, <3>1, Constants
  <2>3. QED
    BY <2>1, <2>2 DEF InHand, WorkComes, WorkDue
<1>12. CASE SendDone
  <2>1. /\ wpc' = "loop" /\ card' = curr /\ curr # NULL
        /\ UNCHANGED <<curr, runs, intPending, regDbg, cmdSent>>
    BY <1>a, <1>12 DEF SendDone, TypeOK, queues, work
  <2>2. QED
    BY <2>1 DEF InHand, WorkComes, WorkDue
<1>13. CASE WorkerIdle
  <2>1. /\ wpc = "loop" /\ wpc' = "idle"
        /\ curr = NULL /\ pending # <<>> => cmdSent
        /\ UNCHANGED <<pending, curr, runs, intPending, regDbg, cmdSent, card,
                       answer>>
    BY <1>13 DEF WorkerIdle, MaySend, queues, work, chip
  <2>2. QED
    BY <2>1 DEF InHand, WorkComes, WorkDue
<1>14. CASE Timeout
  <2>1. /\ \/ UNCHANGED <<runs, regDbg>>
           \/ runs' = runs + 1 /\ regDbg' = TRUE
        /\ UNCHANGED <<pending, curr, pc, wpc, intPending, cmdSent, card,
                       answer>>
    BY <1>14 DEF Timeout, queues, driver, chip
  <2>2. (WorkDue => WorkDue') /\ (regDbg' => runs' > 0)
    <3>1. CASE UNCHANGED <<runs, regDbg>>
      BY <3>1 DEF InHand, WorkDue
    <3>2. CASE runs' = runs + 1 /\ regDbg' = TRUE
      BY <1>a, <3>2, MoreDue
    <3>3. QED
      BY <2>1, <3>1, <3>2
  <2>3. QED
    BY <2>1, <2>2 DEF InHand, WorkComes
<1>15. CASE CardAnswers \/ CardNotifies
  <2>1. /\ intPending' = TRUE /\ runs' = runs + 1 /\ regDbg' = regDbg
        /\ UNCHANGED <<pending, curr, pc, wpc, cmdSent>>
        /\ \/ card = curr /\ answer' = curr
           \/ UNCHANGED <<card, answer>>
    BY <1>a, <1>15 DEF CardAnswers, CardNotifies, Interrupt, queues, callers,
       driver, chip, AnswerIsCurrent
  <2>2. WorkDue' /\ runs' > 0
    BY <1>a, <2>1, MoreDue
  <2>3. QED
    BY <2>1, <2>2 DEF InHand, WorkComes
<1>16. QED
  BY <1>b, <1>1, <1>2, <1>3, <1>4, <1>5, <1>6, <1>7, <1>8, <1>9, <1>10, <1>11,
     <1>12, <1>13, <1>14, <1>15 DEF Next, Proceed, Worker

(***************************************************************************)
(* As long as every command can be written, nothing comes to rest that a   *)
(* request waits for: main_work is due while commands wait and none is     *)
(* current, the current one is with the driver thread or the card or its   *)
(* answer is announced, and no answer stays unseen.                        *)
(***************************************************************************)
THEOREM WorkIsInHand ==
  ASSUME "failing write" \notin MayHappen
  PROVE  Spec => []NothingStalls
<1>1. Init => InHand
  <2> SUFFICES ASSUME Init PROVE InHand
    OBVIOUS
  <2>1. /\ wpc = "idle" /\ ~regDbg /\ ~intPending /\ ~cmdSent
        /\ pending = <<>> /\ curr = NULL
    BY DEF Init
  <2>2. QED
    BY <2>1 DEF InHand, WorkComes
<1>2. Inv /\ InHand /\ [Next]_vars => InHand'
  BY InHandStep DEF CanWrite
<1>3. InHand /\ AnswerSeen => NothingStalls
  BY DEF InHand, NothingStalls
<1>4. QED
  BY <1>1, <1>2, <1>3, AnswersSeen, Invariance, PTL DEF Spec

=============================================================================
