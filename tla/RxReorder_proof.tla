--------------------------- MODULE RxReorder_proof ---------------------------
(***************************************************************************)
(* Proofs about the receive window, for windows and number spaces of every *)
(* size (a window is at most a quarter of the number space).  All but one  *)
(* are for a flush and handlers that never overlap: with an overlap the    *)
(* properties do not hold, see the run of RxOverlap.cfg.  LostByStaleMove  *)
(* is for any overlap, and says in which way alone packets are lost.       *)
(*                                                                         *)
(* The comparisons of the code are on numbers modulo MAX_TID_VALUE, the    *)
(* packets they stand for are not.  Distance relates them: the peer's      *)
(* window is never far from the receiver's, so that a number stands for    *)
(* one packet only, and Stale, Outside and SlotOf tell on which side of    *)
(* the window it is, and where.                                            *)
(***************************************************************************)
EXTENDS RxReorder, FiniteSetTheorems, TLAPS

Packets == Ids \X {"data", "fw"}
Stored == {i \in Slots : reorder[i] # NULL}

RxTypes ==
  rx \in [pc : {"idle", "until", "store", "scan", "done", "free"},
         kind : {"data", "bar", "fw", "addba", "delba"},
         n : Ids, i : 0..WinSize, no : 0..WinSize, to : 0..MaxSeq,
         base : Int, prev : 0..MaxSeq, yield : BOOLEAN]

FlTypes ==
  fl \in [pc : {"idle", "find", "aim", "count", "until"},
         last : Slots, i : 0..WinSize, no : 0..WinSize, to : 0..MaxSeq,
         base : Int]

Types ==
  /\ alive \in BOOLEAN /\ startWin \in 0..MaxSeq
  /\ reorder \in [Slots -> Packets \cup {NULL}] /\ forceNoDrop \in BOOLEAN
  /\ timerIsSet \in BOOLEAN /\ ticking \in BOOLEAN /\ flushes \in Nat
  /\ snd \in First..(Last + 1) /\ rxLast \in Ids \cup {NULL}
  /\ winBase \in Int /\ high \in Int /\ ahead \in Int
  /\ RxTypes /\ FlTypes

\* A handler and a flush exclude each other, and need an entry.
Exclusive ==
  /\ rx.pc = "idle" \/ fl.pc = "idle"
  /\ rx.pc # "idle" => alive
  /\ fl.pc \in {"aim", "count", "until"} => alive
  /\ ~alive => Stored = {}

\* The window stands for the packets from winBase on, and holds nothing else.
Sound ==
  alive =>
    /\ Mask(startWin) = Mask(winBase)
    /\ \A i \in Slots : reorder[i] # NULL =>
         reorder[i][1] = winBase + i /\ reorder[i][1] < snd + WinSize

\* The peer's window and the receiver's are near each other.
Distance ==
  /\ alive /\ rx.pc # "free" =>
       winBase <= snd + WinSize /\ snd + WinSize <= winBase + Half
  /\ rxLast # NULL => rxLast < snd + WinSize
  /\ rx.pc # "idle" /\ rx.kind \in {"data", "bar", "fw"} =>
       snd <= rx.n /\ rx.n < snd + WinSize

\* A move of the window to sequence number to, packet base, by no slots: the
\* slots that are not emptied stand for the same packets after it.
Aimed(to, base, no) ==
  /\ Mask(to) = Mask(base)
  /\ no = WinSize \/ base = winBase + no
  /\ to > startWin /\ base > winBase => base >= winBase + no

RxShape ==
  /\ rx.pc = "until" =>
       /\ rx.i <= rx.no /\ \A j \in Slots : j < rx.i => reorder[j] = NULL
       /\ Aimed(rx.to, rx.base, rx.no)
       /\ rx.kind = "delba" => rx.no = WinSize
       /\ rx.kind # "delba" => rx.base <= snd + WinSize
                               /\ snd + WinSize <= rx.base + Half
       /\ rx.kind \in {"data", "fw"} => rx.n = rx.base + WinSize - 1
  /\ rx.pc = "store" =>
       /\ rx.to = startWin /\ rx.kind \in {"data", "bar", "fw"}
       /\ rx.kind # "bar" => rx.n - winBase \in Slots
  /\ rx.pc = "scan" =>
       /\ \A j \in Slots : j < rx.i => reorder[j] = NULL
       /\ winBase + rx.i <= snd + WinSize
  /\ rx.pc \in {"scan", "done"} => rx.kind \in {"data", "bar", "fw"}
  /\ rx.pc = "free" => Stored = {}

FlShape ==
  /\ fl.pc \in {"find", "aim", "count"} => fl.i = 0
  /\ fl.pc \in {"aim", "count", "until"} =>
       /\ \A j \in Slots : j > fl.last => reorder[j] = NULL
       /\ winBase + fl.last < snd + WinSize
  /\ fl.pc \in {"count", "until"} =>
       /\ fl.to = Mask(startWin + fl.last + 1)
       /\ fl.base = winBase + fl.last + 1
  /\ fl.pc = "until" =>
       /\ fl.i <= fl.no /\ \A j \in Slots : j < fl.i => reorder[j] = NULL
       /\ Aimed(fl.to, fl.base, fl.no) /\ fl.last < fl.no

\* What waits has its timer.
TimerShape ==
  /\ timerIsSet => ticking \/ flushes > 0
  /\ fl.pc = "idle"
     /\ (rx.pc = "idle" \/ (rx.pc = "until" /\ rx.kind = "addba"))
     /\ Stored # {} => timerIsSet

\* How far the window has been emptied by the one who works on it.
Pos == IF rx.pc \in {"until", "scan"} THEN rx.i
       ELSE IF fl.pc = "until" THEN fl.i ELSE 0

\* What the stack got is before what is in the window, or was given ahead.
OrderShape ==
  /\ order # "broken"
  /\ alive => high <= ahead \/ high < winBase + Pos
  /\ ~alive => \/ high <= ahead
               \/ rxLast # NULL /\ rxLast = snd - 1 /\ high <= rxLast

Inv ==
  /\ Types /\ Exclusive /\ Sound /\ Distance /\ RxShape /\ FlShape
  /\ TimerShape /\ OrderShape /\ NothingLost

-----------------------------------------------------------------------------
\* Numbers modulo MAX_TID_VALUE.

LEMMA Constants ==
  /\ WinSize \in Nat /\ WinSize >= 2 /\ MaxSeq \in Nat \ {0}
  /\ Half \in Nat /\ MaxSeq = 2 * Half /\ 2 * WinSize <= Half
  /\ 4 * WinSize <= MaxSeq /\ MaxSeq < 65535
  /\ First \in Nat /\ Last \in Nat /\ First <= Last /\ Ids \subseteq Nat
  /\ Slots = 0..(WinSize - 1) /\ 0 \in Slots
<1>1. MaxSeq = 2 * (MaxSeq \div 2) + (MaxSeq % 2) /\ MaxSeq \div 2 \in Int
  BY RxReorderAssumption, Z3
<1>2. MaxSeq = 2 * Half /\ Half \in Int
  BY <1>1, RxReorderAssumption DEF Half
<1>3. QED
  BY <1>2, RxReorderAssumption DEF Ids, Slots

LEMMA SmallMultiple ==
  ASSUME NEW n \in Nat \ {0}, NEW d \in Int, n * d < n, n * d > -n
  PROVE  d = 0
<1>1. CASE d >= 1
  <2>1. n * d >= n
    BY <1>1, Z3
  <2>2. QED
    BY <2>1
<1>2. CASE d <= -1
  <2>1. n * d <= -n
    BY <1>2, Z3
  <2>2. QED
    BY <2>1
<1>3. QED
  BY <1>1, <1>2

LEMMA MaskSplit ==
  ASSUME NEW x \in Int
  PROVE  Mask(x) \in 0..(MaxSeq - 1) /\ \E c \in Int : x = MaxSeq * c + Mask(x)
<1>1. /\ x = MaxSeq * (x \div MaxSeq) + (x % MaxSeq)
      /\ x \div MaxSeq \in Int /\ x % MaxSeq \in 0..(MaxSeq - 1)
  <2>1. MaxSeq \in Nat \ {0}
    BY Constants
  <2>2. QED
    BY <2>1, Z3
<1>2. QED
  BY <1>1 DEF Mask

\* The remainder is the only number in its range that fits.
LEMMA MaskUnique ==
  ASSUME NEW x \in Int, NEW c \in Int, NEW r \in 0..(MaxSeq - 1),
         x = MaxSeq * c + r
  PROVE  Mask(x) = r
<1>0. MaxSeq \in Nat \ {0}
  BY Constants
<1>1. PICK q \in Int : x = MaxSeq * q + Mask(x)
  BY MaskSplit
<1> DEFINE s == Mask(x)
<1>2. s \in 0..(MaxSeq - 1) /\ x = MaxSeq * q + s
  BY <1>1, MaskSplit
<1> HIDE DEF s
<1>3. MaxSeq * (q - c) = MaxSeq * q - MaxSeq * c
  BY <1>0, Z3
<1>4. MaxSeq * (q - c) = r - s
  BY <1>0, <1>2, <1>3
<1>5. q - c = 0
  BY <1>0, <1>2, <1>4, SmallMultiple
<1>6. QED
  BY <1>0, <1>2, <1>4, <1>5 DEF s

\* What a number near the number space is masked to.
LEMMA MaskNear ==
  ASSUME NEW x \in (-MaxSeq)..(2 * MaxSeq - 1)
  PROVE  Mask(x) = IF x < 0 THEN x + MaxSeq
                   ELSE IF x < MaxSeq THEN x ELSE x - MaxSeq
<1>0. MaxSeq \in Nat \ {0}
  BY Constants
<1>1. CASE x < 0
  <2> DEFINE c == -1
             r == x + MaxSeq
  <2>1. c \in Int /\ r \in 0..(MaxSeq - 1) /\ x = MaxSeq * c + r
    BY <1>0, <1>1
  <2> HIDE DEF c, r
  <2>2. x \in Int
    BY <1>0
  <2>3. Mask(x) = r
    BY <2>1, <2>2, MaskUnique
  <2>4. QED
    BY <1>0, <1>1, <2>3 DEF r
<1>2. CASE x >= 0 /\ x < MaxSeq
  <2> DEFINE c == 0
             r == x
  <2>1. c \in Int /\ r \in 0..(MaxSeq - 1) /\ x = MaxSeq * c + r
    BY <1>0, <1>2
  <2> HIDE DEF c, r
  <2>2. x \in Int
    BY <1>0
  <2>3. Mask(x) = r
    BY <2>1, <2>2, MaskUnique
  <2>4. QED
    BY <1>0, <1>2, <2>3 DEF r
<1>3. CASE x >= MaxSeq
  <2> DEFINE c == 1
             r == x - MaxSeq
  <2>1. c \in Int /\ r \in 0..(MaxSeq - 1) /\ x = MaxSeq * c + r
    BY <1>0, <1>3
  <2> HIDE DEF c, r
  <2>2. x \in Int
    BY <1>0
  <2>3. Mask(x) = r
    BY <2>1, <2>2, MaskUnique
  <2>4. QED
    BY <1>0, <1>3, <2>3 DEF r
<1>4. QED
  BY <1>0, <1>1, <1>2, <1>3

LEMMA Congruent ==
  ASSUME NEW x \in Int, NEW y \in Int, Mask(x) = Mask(y)
  PROVE  \E c \in Int : x = y + MaxSeq * c
<1>0. MaxSeq \in Nat
  BY Constants
<1>1. PICK p \in Int : x = MaxSeq * p + Mask(x)
  BY MaskSplit
<1>2. PICK q \in Int : y = MaxSeq * q + Mask(y)
  BY MaskSplit
<1>3. MaxSeq * (p - q) = MaxSeq * p - MaxSeq * q
  BY <1>0, Z3
<1>4. MaxSeq * p \in Int /\ MaxSeq * q \in Int /\ Mask(x) \in Int
  BY <1>0, MaskSplit, Z3
<1>5. x = y + MaxSeq * (p - q) /\ p - q \in Int
  BY <1>1, <1>2, <1>3, <1>4
<1>6. QED
  BY <1>5

\* Numbers that stand for the same packet do so after the same step.
LEMMA MaskShift ==
  ASSUME NEW x \in Int, NEW y \in Int, Mask(x) = Mask(y), NEW d \in Int
  PROVE  Mask(x + d) = Mask(y + d)
<1>0. MaxSeq \in Nat
  BY Constants
<1>1. PICK c \in Int : x = y + MaxSeq * c
  BY Congruent
<1>2. y + d \in Int
  OBVIOUS
<1>3. PICK q \in Int : y + d = MaxSeq * q + Mask(y + d)
  BY <1>2, MaskSplit
<1>4. Mask(y + d) \in 0..(MaxSeq - 1)
  BY <1>2, MaskSplit
<1>5. MaxSeq * (q + c) = MaxSeq * q + MaxSeq * c
  BY <1>0, Z3
<1>6. MaxSeq * q \in Int /\ MaxSeq * c \in Int
  BY <1>0, Z3
<1>7. x + d = MaxSeq * (q + c) + Mask(y + d) /\ q + c \in Int /\ x + d \in Int
  BY <1>0, <1>1, <1>3, <1>4, <1>5, <1>6
<1>8. QED
  BY <1>4, <1>7, MaskUnique

\* The number of packet n, seen from a window that starts at s for packet b.
LEMMA NumberOf ==
  ASSUME NEW s \in 0..MaxSeq, NEW b \in Int, Mask(s) = Mask(b),
         NEW d \in (-Half)..(Half + WinSize)
  PROVE  Mask(b + d) = IF s + d < 0 THEN s + d + MaxSeq
                       ELSE IF s + d < MaxSeq THEN s + d ELSE s + d - MaxSeq
<1>1. Mask(s + d) = Mask(b + d)
  BY Constants, MaskShift
<1>2. s + d \in (-MaxSeq)..(2 * MaxSeq - 1)
  BY Constants
<1> DEFINE x == s + d
<1>3. x \in (-MaxSeq)..(2 * MaxSeq - 1)
  BY <1>2
<1> HIDE DEF x
<1>4. Mask(x) = IF x < 0 THEN x + MaxSeq
                ELSE IF x < MaxSeq THEN x ELSE x - MaxSeq
  BY <1>3, MaskNear
<1>5. Mask(b + d) = Mask(x)
  BY <1>1 DEF x
<1>6. x = s + d /\ s + d \in Int
  BY <1>3 DEF x
<1>7. QED
  BY <1>4, <1>5, <1>6, Constants

LEMMA MaskMask == ASSUME NEW x \in Int PROVE Mask(Mask(x)) = Mask(x)
<1> DEFINE m == Mask(x)
<1>1. m \in 0..(MaxSeq - 1)
  BY MaskSplit
<1> HIDE DEF m
<1>2. m \in (-MaxSeq)..(2 * MaxSeq - 1) /\ m < MaxSeq /\ ~(m < 0)
  BY <1>1, Constants
<1>3. Mask(m) = m
  BY <1>2, MaskNear
<1>4. QED
  BY <1>3 DEF m

-----------------------------------------------------------------------------
\* What the comparisons of mlan_11n_rxreorder_pkt find out about a packet
\* that is near the window.

Stands == startWin \in 0..MaxSeq /\ winBase \in Int /\ Mask(startWin) = Mask(winBase)

LEMMA StaleMeans ==
  ASSUME Stands, NEW d \in (-WinSize)..(Half - 1)
  PROVE  Stale(Mask(winBase + d)) <=> d < 0
<1> DEFINE s == startWin
           q == Mask(winBase + d)
           e == Mask(s + Half)
<1>1. s \in 0..MaxSeq
  BY DEF Stands
<1>2. q = IF s + d < 0 THEN s + d + MaxSeq
          ELSE IF s + d < MaxSeq THEN s + d ELSE s + d - MaxSeq
  <2>1. d \in (-Half)..(Half + WinSize)
    BY Constants
  <2>2. QED
    BY <2>1, NumberOf DEF Stands
<1>3. e = IF s + Half < MaxSeq THEN s + Half ELSE s + Half - MaxSeq
  <2> DEFINE x == s + Half
  <2>1. x \in (-MaxSeq)..(2 * MaxSeq - 1) /\ ~(x < 0)
    BY <1>1, Constants
  <2> HIDE DEF x
  <2>2. Mask(x) = IF x < MaxSeq THEN x ELSE x - MaxSeq
    BY <2>1, MaskNear
  <2>3. QED
    BY <1>1, <2>2, Constants DEF x
<1>4. Stale(q) <=> IF s + Half > MaxSeq - 1 THEN q >= e /\ q < s
                   ELSE q < s \/ q > s + Half
  BY DEF Stale
<1> HIDE DEF s, q, e
<1>5. QED
  <2>1. Stale(q) <=> d < 0
    <3>1. CASE s + Half > MaxSeq - 1
      BY <1>1, <1>2, <1>3, <1>4, <3>1, Constants
    <3>2. CASE ~(s + Half > MaxSeq - 1)
      BY <1>1, <1>2, <1>3, <1>4, <3>2, Constants
    <3>3. QED
      BY <3>1, <3>2
  <2>2. QED
    BY <2>1 DEF q

LEMMA OutsideMeans ==
  ASSUME Stands, NEW d \in (-WinSize)..(Half - 1)
  PROVE  Outside(Mask(winBase + d)) <=> d \notin Slots
<1> DEFINE s == startWin
           q == Mask(winBase + d)
           e == EndWin
<1>1. s \in 0..MaxSeq
  BY DEF Stands
<1>2. q = IF s + d < 0 THEN s + d + MaxSeq
          ELSE IF s + d < MaxSeq THEN s + d ELSE s + d - MaxSeq
  <2>1. d \in (-Half)..(Half + WinSize)
    BY Constants
  <2>2. QED
    BY <2>1, NumberOf DEF Stands
<1>3. e = IF s + WinSize - 1 < MaxSeq THEN s + WinSize - 1
          ELSE s + WinSize - 1 - MaxSeq
  <2> DEFINE x == s + WinSize - 1
  <2>1. x \in (-MaxSeq)..(2 * MaxSeq - 1) /\ ~(x < 0)
    BY <1>1, Constants
  <2>2. e = Mask(x)
    BY DEF EndWin
  <2> HIDE DEF x, e
  <2>3. Mask(x) = IF x < MaxSeq THEN x ELSE x - MaxSeq
    BY <2>1, MaskNear
  <2>4. QED
    BY <1>1, <2>2, <2>3, Constants DEF x
<1>4. Outside(q) <=> \/ e < s /\ q < s /\ q > e
                     \/ e > s /\ (q > e \/ q < s)
  BY DEF Outside
<1> HIDE DEF s, q, e
<1>5. Outside(q) <=> d \notin Slots
  <2>1. CASE s + WinSize - 1 < MaxSeq
    BY <1>1, <1>2, <1>3, <1>4, <2>1, Constants
  <2>2. CASE ~(s + WinSize - 1 < MaxSeq)
    BY <1>1, <1>2, <1>3, <1>4, <2>2, Constants
  <2>3. QED
    BY <2>1, <2>2
<1>6. QED
  BY <1>5 DEF q

LEMMA SlotMeans ==
  ASSUME Stands, NEW d \in Slots
  PROVE  SlotOf(Mask(winBase + d), startWin) = d
<1> DEFINE s == startWin
           q == Mask(winBase + d)
<1>1. s \in 0..MaxSeq
  BY DEF Stands
<1>2. q = IF s + d < 0 THEN s + d + MaxSeq
          ELSE IF s + d < MaxSeq THEN s + d ELSE s + d - MaxSeq
  <2>1. d \in (-Half)..(Half + WinSize)
    BY Constants
  <2>2. QED
    BY <2>1, NumberOf DEF Stands
<1>3. SlotOf(q, s) = IF q >= s THEN q - s ELSE q + MaxSeq - s
  BY DEF SlotOf
<1> HIDE DEF s, q
<1>4. SlotOf(q, s) = d
  BY <1>1, <1>2, <1>3, Constants
<1>5. QED
  BY <1>4 DEF s, q

LEMMA StartForMeans ==
  ASSUME NEW e \in Int
  PROVE  /\ StartFor(Mask(e)) = Mask(e - WinSize + 1)
         /\ StartFor(Mask(e)) \in 0..(MaxSeq - 1)
<1> DEFINE q == Mask(e)
           x == q + (1 - WinSize)
           to == StartFor(q)
<1>1. q \in 0..(MaxSeq - 1)
  BY MaskSplit
<1>2. to = IF x >= 0 THEN x ELSE x + MaxSeq
  BY <1>1, Constants DEF StartFor
<1>3. Mask(x) = Mask(e + (1 - WinSize))
  <2>1. Mask(q) = Mask(e)
    BY MaskMask
  <2>2. q \in Int /\ 1 - WinSize \in Int
    BY <1>1, Constants
  <2> HIDE DEF q
  <2>3. QED
    BY <2>1, <2>2, MaskShift
<1>4. x \in (-MaxSeq)..(2 * MaxSeq - 1) /\ x < MaxSeq
  BY <1>1, Constants
<1> HIDE DEF q, x, to
<1>5. Mask(x) = IF x < 0 THEN x + MaxSeq
                ELSE IF x < MaxSeq THEN x ELSE x - MaxSeq
  BY <1>4, MaskNear
<1>6. Mask(x) = to
  BY <1>2, <1>4, <1>5, Constants
<1>7. to \in 0..(MaxSeq - 1)
  BY <1>1, <1>2, Constants DEF x
<1>8. e + (1 - WinSize) = e - WinSize + 1
  BY Constants
<1>9. QED
  BY <1>3, <1>6, <1>7, <1>8 DEF q, to

\* A window that moves by less than its size keeps what it does not empty.
LEMMA MoveAims ==
  ASSUME Stands, NEW to \in 0..MaxSeq, NEW base \in Int, Mask(to) = Mask(base),
         base - winBase \in (-(2 * WinSize))..(MaxSeq - 1)
  PROVE  NoPktToSend(to) \in 1..WinSize /\ Aimed(to, base, NoPktToSend(to))
<1> DEFINE s == startWin
           b == winBase
           k == NoPktToSend(to)
<1>0. s \in 0..MaxSeq /\ b \in Int /\ Mask(s) = Mask(b)
  BY DEF Stands
<1>1. k = IF to > s THEN (IF to - s < WinSize THEN to - s ELSE WinSize)
          ELSE WinSize
  BY DEF NoPktToSend
<1>2. k \in 1..WinSize
  BY <1>0, <1>1, Constants
<1>3. PICK c \in Int : base - b = to - s + MaxSeq * c
  <2>1. PICK x \in Int : to = base + MaxSeq * x
    <3>1. to \in Int
      BY Constants
    <3>2. QED
      BY <3>1, Congruent
  <2>2. PICK y \in Int : s = b + MaxSeq * y
    <3>1. s \in Int
      BY <1>0, Constants
    <3>2. QED
      BY <1>0, <3>1, Congruent
  <2>3. MaxSeq * (y - x) = MaxSeq * y - MaxSeq * x
    BY Constants, Z3
  <2>4. MaxSeq * x \in Int /\ MaxSeq * y \in Int
    BY Constants, Z3
  <2>5. base - b = to - s + MaxSeq * (y - x) /\ y - x \in Int
    BY <1>0, <2>1, <2>2, <2>3, <2>4
  <2>6. QED
    BY <2>5
<1> HIDE DEF s, b, k
<1>4. k = WinSize \/ base = b + k
  <2>1. SUFFICES ASSUME k # WinSize PROVE base = b + k
    OBVIOUS
  <2>2. to > s /\ to - s < WinSize /\ k = to - s
    BY <1>1, <2>1
  <2>3. /\ MaxSeq * c = base - b - (to - s)
        /\ base - b - (to - s) < MaxSeq /\ base - b - (to - s) > -MaxSeq
    <3>1. MaxSeq * c \in Int
      BY Constants, Z3
    <3>2. base - b \in (-(2 * WinSize))..(MaxSeq - 1)
      BY DEF b
    <3>3. QED
      BY <1>0, <1>3, <2>2, <3>1, <3>2, Constants
  <2>4. c = 0
    BY <2>3, SmallMultiple, Constants
  <2>5. MaxSeq * c = 0
    BY <2>4, Constants
  <2>6. QED
    BY <1>0, <2>2, <2>3, <2>5, Constants
<1>5. to > s /\ base > b => base >= b + k
  <2>1. SUFFICES ASSUME to > s, base > b PROVE base >= b + k
    OBVIOUS
  <2>2. k <= to - s
    BY <1>0, <1>1, <2>1, Constants
  <2>3. c >= 0
    <3>1. SUFFICES ASSUME c <= -1 PROVE FALSE
      OBVIOUS
    <3>2. MaxSeq * c <= -MaxSeq
      BY <3>1, Constants, Z3
    <3>3. MaxSeq * c \in Int
      BY Constants, Z3
    <3>4. QED
      BY <1>0, <1>3, <2>1, <3>2, <3>3, Constants
  <2>4. MaxSeq * c >= 0 /\ MaxSeq * c \in Int
    BY <2>3, Constants, Z3
  <2>5. QED
    BY <1>0, <1>2, <1>3, <2>2, <2>4, Constants
<1>6. QED
  BY <1>2, <1>4, <1>5 DEF Aimed, s, b, k

-----------------------------------------------------------------------------
\* The slots.

LEMMA NullIsNoPacket == NULL \notin Packets /\ NULL \notin Ids
  BY RxReorderAssumption DEF Packets, Ids

\* The rotation moves every packet by the k slots that were emptied.
LEMMA Rotation ==
  ASSUME reorder \in [Slots -> Packets \cup {NULL}], NEW k \in 0..WinSize,
         \A j \in Slots : j < k => reorder[j] = NULL
  PROVE  /\ Rotated(k) \in [Slots -> Packets \cup {NULL}]
         /\ \A i \in Slots : Rotated(k)[i] # NULL =>
              i + k \in Slots /\ Rotated(k)[i] = reorder[i + k]
         /\ \A j \in Slots : reorder[j] # NULL =>
              j - k \in Slots /\ Rotated(k)[j - k] = reorder[j]
<1>1. \A i \in Slots :
        Rotated(k)[i] = IF i < WinSize - k THEN reorder[i + k]
                        ELSE IF i >= k THEN NULL ELSE reorder[i]
  BY DEF Rotated
<1>2. Rotated(k) \in [Slots -> Packets \cup {NULL}]
  <2>1. \A i \in Slots : i < WinSize - k => i + k \in Slots
    BY Constants
  <2>2. QED
    BY <2>1 DEF Rotated
<1>3. ASSUME NEW i \in Slots, Rotated(k)[i] # NULL
      PROVE  i + k \in Slots /\ Rotated(k)[i] = reorder[i + k]
  <2>1. CASE i < WinSize - k
    BY <1>1, <2>1, Constants
  <2>2. CASE ~(i < WinSize - k)
    <3>1. Rotated(k)[i] = IF i >= k THEN NULL ELSE reorder[i]
      BY <1>1, <2>2
    <3>2. i \in Nat /\ k \in Nat
      BY Constants
    <3>3. QED
      BY <1>3, <3>1, <3>2
  <2>3. QED
    BY <2>1, <2>2
<1>4. ASSUME NEW j \in Slots, reorder[j] # NULL
      PROVE  j - k \in Slots /\ Rotated(k)[j - k] = reorder[j]
  <2>1. ~(j < k)
    BY <1>4
  <2> DEFINE i == j - k
  <2>2. i \in Slots /\ i < WinSize - k /\ i + k = j
    BY <2>1, Constants
  <2> HIDE DEF i
  <2>3. Rotated(k)[i] = reorder[i + k]
    BY <1>1, <2>2
  <2>4. QED
    BY <2>2, <2>3 DEF i
<1>5. QED
  BY <1>2, <1>3, <1>4

LEMMA StoredFinite == IsFiniteSet(Stored) /\ Stored \subseteq Slots
<1>1. IsFiniteSet(Slots)
  BY Constants, FS_Interval
<1>2. Stored \subseteq Slots
  BY DEF Stored
<1>3. QED
  BY <1>1, <1>2, FS_Subset

\* Nothing is lost by the rotation.
LEMMA MoveKeeps ==
  ASSUME Types, NEW k \in 0..WinSize, NEW to, NEW base,
         \A j \in Slots : j < k => reorder[j] = NULL,
         MoveWindow(k, to, base)
  PROVE  /\ reorder' \in [Slots -> Packets \cup {NULL}]
         /\ \A i \in Slots : reorder'[i] # NULL =>
              i + k \in Slots /\ reorder'[i] = reorder[i + k]
         /\ Stored' = {} <=> Stored = {}
         /\ k = WinSize => Stored' = {}
         /\ NothingLost /\ held' = held => NothingLost'
<1>a. reorder \in [Slots -> Packets \cup {NULL}]
  BY DEF Types
<1>b. reorder' = Rotated(k)
  BY DEF MoveWindow
<1>1. /\ reorder' \in [Slots -> Packets \cup {NULL}]
      /\ \A i \in Slots : reorder'[i] # NULL =>
           i + k \in Slots /\ reorder'[i] = reorder[i + k]
      /\ \A j \in Slots : reorder[j] # NULL =>
           j - k \in Slots /\ reorder'[j - k] = reorder[j]
  BY <1>a, <1>b, Rotation
<1>2. k \in Nat /\ \A j \in Slots : j \in Nat
  BY Constants
<1> DEFINE f == [j \in Stored |-> j - k]
<1>3. \A j \in Stored : j - k \in Stored'
  BY <1>1 DEF Stored
<1>4. f \in Bijection(Stored, Stored')
  <2>1. f \in [Stored -> Stored']
    BY <1>3
  <2>2. \A i, j \in Stored : f[i] = f[j] => i = j
    BY <1>2 DEF Stored
  <2>3. \A i \in Stored' : \E j \in Stored : f[j] = i
    <3> SUFFICES ASSUME NEW i \in Stored' PROVE \E j \in Stored : f[j] = i
      OBVIOUS
    <3>1. i \in Slots /\ i + k \in Slots /\ reorder[i + k] # NULL
      BY <1>1 DEF Stored
    <3> DEFINE j == i + k
    <3>2. j \in Stored /\ j - k = i
      BY <1>2, <3>1 DEF Stored
    <3> HIDE DEF j
    <3>3. f[j] = i
      BY <3>2
    <3>4. QED
      BY <3>2, <3>3
  <2>4. QED
    BY <2>1, <2>2, <2>3 DEF Bijection, Injection, Surjection, IsInjective
<1>5. Cardinality(Stored') = Cardinality(Stored)
  <2>1. ExistsBijection(Stored, Stored')
    BY <1>4 DEF ExistsBijection
  <2>2. QED
    BY <2>1, StoredFinite, FS_Bijection
<1>6. Stored' = {} <=> Stored = {}
  BY <1>4 DEF Bijection, Injection, Surjection
<1>7. k = WinSize => Stored' = {}
  BY <1>1, Constants DEF Stored
<1>8. NothingLost /\ held' = held => NothingLost'
  BY <1>5 DEF NothingLost, Stored
<1>9. QED
  BY <1>1, <1>6, <1>7, <1>8

\* The packet of one slot is dispatched.
LEMMA EmptyKeeps ==
  ASSUME Types, Sound, alive, NothingLost, order # "broken",
         NEW i \in Slots, Empty(i), high <= ahead \/ high < winBase + i
  PROVE  /\ reorder' \in [Slots -> Packets \cup {NULL}]
         /\ \A j \in Slots : reorder'[j] = IF j = i THEN NULL ELSE reorder[j]
         /\ Stored' = Stored \ {i}
         /\ high' \in Int /\ order' # "broken"
         /\ high' <= ahead \/ high' < winBase + (i + 1)
         /\ NothingLost'
<1>a. /\ reorder \in [Slots -> Packets \cup {NULL}] /\ winBase \in Int
      /\ high \in Int /\ ahead \in Int /\ i \in Nat
  BY Constants DEF Types
<1>b. /\ reorder' = [reorder EXCEPT ![i] = NULL]
      /\ IF IsData(reorder[i]) THEN GiveToStack(reorder[i][1])
         ELSE UNCHANGED <<high, order>>
      /\ held' = IF reorder[i] = NULL THEN held ELSE held - 1
  BY DEF Empty
<1>1. /\ reorder' \in [Slots -> Packets \cup {NULL}]
      /\ \A j \in Slots : reorder'[j] = IF j = i THEN NULL ELSE reorder[j]
  BY <1>a, <1>b
<1>2. Stored' = Stored \ {i}
  BY <1>1 DEF Stored
<1>3. /\ high' \in Int /\ order' # "broken"
      /\ high' <= ahead \/ high' < winBase + (i + 1)
  <2>1. CASE IsData(reorder[i])
    <3> DEFINE n == reorder[i][1]
    <3>1. n = winBase + i
      BY <2>1 DEF IsData, Sound
    <3>2. GiveToStack(n)
      BY <1>b, <2>1
    <3> HIDE DEF n
    <3>3. n \in Int
      BY <1>a, <3>1
    <3>4. CASE n > high
      <4>0. ~(n <= high)
        BY <1>a, <3>3, <3>4
      <4>1. high' = n /\ order' = order
        BY <3>2, <3>4, <4>0 DEF GiveToStack
      <4>2. QED
        BY <1>a, <3>1, <4>1
    <3>5. CASE ~(n > high)
      <4>1. high <= ahead /\ n <= ahead /\ n <= high
        BY <1>a, <3>1, <3>3, <3>5
      <4>2. ~(n > ahead)
        BY <1>a, <3>3, <4>1
      <4>3. high' = high /\ order' = IF order = "kept" THEN "overtaken" ELSE order
        BY <3>2, <3>5, <4>2 DEF GiveToStack
      <4>4. QED
        BY <1>a, <4>1, <4>3
    <3>6. QED
      BY <3>4, <3>5
  <2>2. CASE ~IsData(reorder[i])
    <3>1. high' = high /\ order' = order
      BY <1>b, <2>2
    <3>2. QED
      BY <1>a, <3>1
  <2>3. QED
    BY <2>1, <2>2
<1>4. NothingLost'
  <2>1. held = Cardinality(Stored) /\ Cardinality(Stored) \in Nat
    BY StoredFinite, FS_CardinalityType DEF NothingLost, Stored
  <2>2. Cardinality(Stored') = IF i \in Stored THEN Cardinality(Stored) - 1
                                ELSE Cardinality(Stored)
    BY <1>2, StoredFinite, FS_RemoveElement
  <2>3. i \in Stored <=> reorder[i] # NULL
    BY DEF Stored
  <2>4. held' = Cardinality(Stored')
    BY <1>b, <2>1, <2>2, <2>3
  <2>5. QED
    BY <2>4 DEF NothingLost, Stored
<1>5. QED
  BY <1>1, <1>2, <1>3, <1>4

-----------------------------------------------------------------------------
\* A handler begins.

LEMMA WindowStands ==
  ASSUME Types, Sound, alive
  PROVE  Stands
  BY DEF Types, Sound, Stands

LEMMA Begins ==
  ASSUME Inv, alive, rx.pc = "idle", fl.pc = "idle",
         UNCHANGED <<alive, startWin, reorder, timer, fl, snd, winBase, stack,
                     ahead>>,
         forceNoDrop' \in BOOLEAN, rxLast' \in Ids \cup {NULL},
         rxLast' # NULL => rxLast' < snd + WinSize,
         RxTypes', RxShape', rx'.pc \in {"until", "store", "done"}, rx'.i = 0,
         rx'.kind \in {"data", "bar", "fw"} =>
           snd <= rx'.n /\ rx'.n < snd + WinSize
  PROVE  Inv'
<1>1. Types'
  BY DEF Inv, Types, timer, stack, FlTypes
<1>2. Exclusive'
  BY DEF Inv, Exclusive
<1>3. Sound' /\ NothingLost'
  BY DEF Inv, Sound, NothingLost, stack
<1>4. Distance'
  BY DEF Inv, Distance
<1>5. FlShape'
  BY DEF FlShape
<1>6. TimerShape'
  BY DEF Inv, TimerShape, timer, Stored
<1>7. OrderShape'
  <2>1. Pos' = 0 /\ Pos = 0
    BY DEF Pos
  <2>2. QED
    BY <2>1 DEF Inv, OrderShape, stack
<1>8. QED
  BY <1>1, <1>2, <1>3, <1>4, <1>5, <1>6, <1>7 DEF Inv

\* A handler's record at its beginning.
Started(pc, kind, n, no, to, base, prev) ==
  [pc |-> pc, kind |-> kind, n |-> n, i |-> 0, no |-> no, to |-> to,
   base |-> base, prev |-> prev, yield |-> FALSE]

LEMMA StartedTypes ==
  ASSUME NEW pc \in {"idle", "until", "store", "scan", "done", "free"},
         NEW kind \in {"data", "bar", "fw", "addba", "delba"}, NEW n \in Ids,
         NEW no \in 0..WinSize, NEW to \in 0..MaxSeq, NEW base \in Int,
         NEW prev \in 0..MaxSeq,
         rx' = Started(pc, kind, n, no, to, base, prev)
  PROVE  /\ RxTypes'
         /\ rx'.pc = pc /\ rx'.kind = kind /\ rx'.n = n /\ rx'.i = 0
         /\ rx'.no = no /\ rx'.to = to /\ rx'.base = base /\ rx'.prev = prev
<1>1. 0 \in 0..WinSize
  BY Constants
<1>2. QED
  BY <1>1 DEF Started, RxTypes

\* What a handler may be called with.
Arrives(kind, n) ==
  /\ kind \in {"data", "fw", "bar"} /\ n \in Ids
  /\ snd <= n /\ n < snd + WinSize /\ (kind = "bar" => n = snd)

LEMMA StaleStep ==
  ASSUME Inv, ~Overlap, NEW kind, NEW n, Arrives(kind, n), RxStale(kind, n)
  PROVE  Inv' /\ n < winBase
<1>1. /\ alive /\ rx.pc = "idle" /\ fl.pc = "idle"
      /\ UNCHANGED <<alive, startWin, reorder, timer, fl, snd, winBase, stack,
                     ahead>>
      /\ rxLast' = IF kind = "data" THEN n ELSE rxLast
      /\ forceNoDrop' = forceNoDrop /\ Stale(Mask(n))
      /\ rx' = [RxIdle EXCEPT !.pc = "done", !.kind = kind, !.n = n,
                              !.prev = startWin]
  BY DEF RxStale, Handle, RxMay
<1>2. /\ RxTypes' /\ rx'.pc = "done" /\ rx'.i = 0 /\ rx'.kind = kind
      /\ rx'.n = n
  <2>1. rx' = Started("done", kind, n, 0, 0, 0, startWin)
    BY <1>1 DEF RxIdle, Started
  <2>2. /\ kind \in {"data", "bar", "fw", "addba", "delba"} /\ n \in Ids
        /\ 0 \in 0..WinSize /\ 0 \in 0..MaxSeq /\ startWin \in 0..MaxSeq
    BY Constants DEF Arrives, Inv, Types
  <2>3. QED
    BY <2>1, <2>2, StartedTypes
<1>3. RxShape'
  BY <1>2 DEF RxShape, Arrives
<1>4. Inv'
  <2>1. /\ forceNoDrop' \in BOOLEAN /\ rxLast' \in Ids \cup {NULL}
        /\ rxLast' # NULL => rxLast' < snd + WinSize
    BY <1>1 DEF Inv, Types, Distance, Arrives
  <2>2. QED
    BY <1>1, <1>2, <1>3, <2>1, Begins DEF Arrives
<1>5. n < winBase
  <2> DEFINE d == n - winBase
  <2>1. d \in (-WinSize)..(Half - 1) /\ winBase + d = n
    <3>1. /\ winBase \in Int /\ snd \in Int /\ n \in Ids
          /\ snd <= n /\ n < snd + WinSize /\ winBase <= snd + WinSize
          /\ snd + WinSize <= winBase + Half
      BY <1>1, Constants DEF Inv, Types, Distance, Arrives
    <3>2. n \in Int /\ WinSize \in Int /\ Half \in Int
      BY <3>1, Constants
    <3>3. QED
      BY <3>1, <3>2
  <2>2. Stands
    BY <1>1, WindowStands DEF Inv
  <2> HIDE DEF d
  <2>3. Stale(Mask(winBase + d)) <=> d < 0
    BY <2>1, <2>2, StaleMeans
  <2>4. d < 0
    BY <1>1, <2>1, <2>3
  <2>5. QED
    BY <2>4, Constants DEF d, Inv, Types, Arrives
<1>6. QED
  BY <1>4, <1>5

LEMMA AcceptStep ==
  ASSUME Inv, ~Overlap, NEW kind, NEW n, Arrives(kind, n), RxAccept(kind, n)
  PROVE  Inv'
<1> DEFINE seq == SeqOf(kind, n)
           to == StartFor(seq)
           base == IF kind = "bar" THEN n ELSE n - WinSize + 1
           started == [RxIdle EXCEPT !.kind = kind, !.n = n, !.prev = startWin]
           e == IF kind = "bar" THEN n + WinSize - 1 ELSE n
           d == e - winBase
<1>1. /\ alive /\ rx.pc = "idle" /\ fl.pc = "idle"
      /\ UNCHANGED <<alive, startWin, reorder, timer, fl, snd, winBase, stack,
                     ahead>>
      /\ rxLast' = IF kind = "data" THEN n ELSE rxLast
      /\ forceNoDrop' = FALSE
      /\ rx' = IF Outside(seq)
               THEN [started EXCEPT !.pc = "until", !.to = to, !.base = base,
                                    !.no = NoPktToSend(to)]
               ELSE [started EXCEPT !.pc = "store", !.to = startWin]
  BY DEF RxAccept, Handle, RxMay
<1>2. /\ Stands /\ n \in Nat /\ snd \in Nat /\ winBase \in Int
      /\ snd <= n /\ n < snd + WinSize /\ (kind = "bar" => n = snd)
      /\ winBase <= snd + WinSize /\ snd + WinSize <= winBase + Half
      /\ startWin \in 0..MaxSeq
  <2>1. Stands /\ startWin \in 0..MaxSeq /\ winBase \in Int
    BY <1>1, WindowStands DEF Inv, Types
  <2>2. /\ n \in Ids /\ snd <= n /\ n < snd + WinSize
        /\ (kind = "bar" => n = snd)
    BY DEF Arrives
  <2>3. /\ winBase <= snd + WinSize /\ snd + WinSize <= winBase + Half
        /\ snd \in First..(Last + 1)
    BY <1>1 DEF Inv, Types, Distance
  <2>4. n \in Nat /\ snd \in Nat
    BY <2>2, <2>3, Constants
  <2>5. QED
    BY <2>1, <2>2, <2>3, <2>4
<1>3. e \in Int /\ winBase + d = e /\ d \in (-WinSize)..(Half - 1)
  <2>1. WinSize \in Nat /\ WinSize >= 2 /\ Half \in Nat
    BY Constants
  <2>2. e \in Int /\ snd <= e /\ e < snd + WinSize
    BY <1>2, <2>1
  <2> HIDE DEF e
  <2>3. QED
    BY <1>2, <2>1, <2>2
<1>4. seq = Mask(e)
  <2>1. CASE kind = "bar"
    <3> DEFINE m == Mask(n)
    <3>1. m \in 0..(MaxSeq - 1) /\ Mask(m) = Mask(n)
      BY <1>2, MaskSplit, MaskMask
    <3> HIDE DEF m
    <3>2. m \in Int /\ n \in Int /\ WinSize - 1 \in Int
      BY <1>2, <3>1, Constants
    <3>3. Mask(m + (WinSize - 1)) = Mask(n + (WinSize - 1))
      BY <3>1, <3>2, MaskShift
    <3>4. m + (WinSize - 1) = m + WinSize - 1 /\ n + (WinSize - 1) = n + WinSize - 1
      BY <3>2, Constants
    <3>5. SeqOf(kind, n) = Mask(m + WinSize - 1)
      BY <2>1 DEF SeqOf, m
    <3>6. QED
      BY <2>1, <3>3, <3>4, <3>5
  <2>2. CASE kind # "bar"
    BY <2>2 DEF SeqOf
  <2>3. QED
    BY <2>1, <2>2
<1>5. Outside(seq) <=> d \notin Slots
  <2> HIDE DEF d, e, seq
  <2>1. Outside(Mask(winBase + d)) <=> d \notin Slots
    BY <1>2, <1>3, OutsideMeans
  <2>2. QED
    BY <1>3, <1>4, <2>1
<1>6. /\ forceNoDrop' \in BOOLEAN /\ rxLast' \in Ids \cup {NULL}
      /\ rxLast' # NULL => rxLast' < snd + WinSize
  BY <1>1 DEF Inv, Types, Distance, Arrives
<1>7. CASE Outside(seq)
  <2>1. /\ rx'.pc = "until" /\ rx'.kind = kind /\ rx'.n = n /\ rx'.i = 0
        /\ rx'.to = to /\ rx'.base = base /\ rx'.no = NoPktToSend(to)
    BY <1>1, <1>7 DEF RxIdle
  <2>2. base = e - WinSize + 1 /\ base \in Int
    BY <1>2, Constants
  <2>3. to = Mask(base) /\ to \in 0..(MaxSeq - 1)
    <3>1. to = StartFor(Mask(e))
      BY <1>4
    <3> HIDE DEF to, e, base
    <3>2. QED
      BY <1>3, <2>2, <3>1, StartForMeans
  <2>4. Mask(to) = Mask(base)
    <3> HIDE DEF to, base
    <3>1. QED
      BY <2>2, <2>3, MaskMask
  <2>5. base - winBase \in (-(2 * WinSize))..(MaxSeq - 1) /\ to \in 0..MaxSeq
    BY <1>2, <1>3, <2>2, <2>3, Constants
  <2>6. NoPktToSend(to) \in 1..WinSize /\ Aimed(to, base, NoPktToSend(to))
    <3> HIDE DEF to, base
    <3>1. QED
      BY <1>2, <2>2, <2>4, <2>5, MoveAims
  <2>7. RxTypes'
    <3>1. NoPktToSend(to) \in 0..WinSize
      BY <2>6, Constants
    <3>2. rx' = Started("until", kind, n, NoPktToSend(to), to, base, startWin)
      BY <1>1, <1>7 DEF RxIdle, Started
    <3>3. kind \in {"data", "bar", "fw", "addba", "delba"} /\ n \in Ids
      BY DEF Arrives
    <3> HIDE DEF to, base
    <3>4. QED
      BY <1>2, <2>2, <2>5, <3>1, <3>2, <3>3, StartedTypes
  <2>8. base <= snd + WinSize /\ snd + WinSize <= base + Half
        /\ (kind # "bar" => n = base + WinSize - 1)
    BY <1>2, Constants
  <2> HIDE DEF to, base, e, d, seq, started
  <2>9. RxShape'
    <3>1. Aimed(rx.to, rx.base, rx.no)'
      BY <1>1, <2>1, <2>6 DEF Aimed
    <3>2. rx'.no \in 1..WinSize
      BY <2>1, <2>6
    <3>3. 0 <= rx'.no /\ \A j \in Slots : ~(j < 0)
      BY <3>2, Constants
    <3>4. rx'.kind \in {"data", "fw", "bar"}
      BY <2>1 DEF Arrives
    <3>5. QED
      BY <1>1, <2>1, <2>8, <3>1, <3>3, <3>4 DEF RxShape
  <2>10. QED
    BY <1>1, <1>2, <1>6, <2>1, <2>7, <2>9, Begins
<1>8. CASE ~Outside(seq)
  <2>1. /\ rx'.pc = "store" /\ rx'.kind = kind /\ rx'.n = n /\ rx'.i = 0
        /\ rx'.to = startWin
    BY <1>1, <1>8 DEF RxIdle
  <2>2. RxTypes'
    <3>1. rx' = Started("store", kind, n, 0, startWin, 0, startWin)
      BY <1>1, <1>8 DEF RxIdle, Started
    <3>2. /\ kind \in {"data", "bar", "fw", "addba", "delba"} /\ n \in Ids
          /\ 0 \in 0..WinSize
      BY Constants DEF Arrives
    <3>3. QED
      BY <1>2, <3>1, <3>2, StartedTypes
  <2>3. kind # "bar" => n - winBase \in Slots
    BY <1>5, <1>8
  <2> HIDE DEF to, base, e, d, seq, started
  <2>4. RxShape'
    BY <1>1, <2>1, <2>3 DEF RxShape, Arrives
  <2>5. QED
    BY <1>1, <1>2, <1>6, <2>1, <2>2, <2>4, Begins
<1>9. QED
  BY <1>7, <1>8

\* A request for the stream that has an entry, or for its end.
LEMMA CreateAgainStep == ASSUME Inv, ~Overlap, CreateAgain PROVE Inv'
<1> DEFINE to == Mask(snd)
           no == NoPktToSend(to)
<1>1. /\ alive /\ rx.pc = "idle" /\ fl.pc = "idle"
      /\ UNCHANGED <<alive, startWin, reorder, forceNoDrop, timer, fl, snd,
                     rxLast, winBase, stack, ahead>>
      /\ rx' = Started("until", "addba", First, no, to, snd, 0)
  BY DEF CreateAgain, RxMay, RxIdle, Started, entry, peer
<1>2. /\ Stands /\ snd \in Nat /\ winBase \in Int
      /\ winBase <= snd + WinSize /\ snd + WinSize <= winBase + Half
  BY <1>1, WindowStands, Constants DEF Inv, Types, Distance
<1>3. to \in 0..(MaxSeq - 1) /\ Mask(to) = Mask(snd)
  BY <1>2, MaskSplit, MaskMask
<1>4. /\ snd - winBase \in (-(2 * WinSize))..(MaxSeq - 1) /\ snd \in Int
      /\ to \in 0..MaxSeq
  BY <1>2, <1>3, Constants
<1>5. no \in 1..WinSize /\ Aimed(to, snd, no)
  <2> HIDE DEF to
  <2>1. QED
    BY <1>2, <1>3, <1>4, MoveAims
<1> HIDE DEF to, no
<1>6. no \in 0..WinSize /\ First \in Ids /\ 0 \in 0..MaxSeq
  BY <1>5, Constants DEF Ids
<1>7. /\ RxTypes' /\ rx'.pc = "until" /\ rx'.kind = "addba" /\ rx'.i = 0
      /\ rx'.no = no /\ rx'.to = to /\ rx'.base = snd
  BY <1>1, <1>4, <1>6, StartedTypes
<1>8. RxShape'
  <2>1. Aimed(rx.to, rx.base, rx.no)'
    BY <1>1, <1>5, <1>7 DEF Aimed
  <2>2. 0 <= no /\ \A j \in Slots : ~(j < 0)
    BY <1>5, Constants
  <2>3. snd <= snd + WinSize /\ snd + WinSize <= snd + Half
    BY <1>2, Constants
  <2>4. QED
    BY <1>1, <1>7, <2>1, <2>2, <2>3 DEF RxShape
<1>9. /\ forceNoDrop' \in BOOLEAN /\ rxLast' \in Ids \cup {NULL}
      /\ rxLast' # NULL => rxLast' < snd + WinSize
  BY <1>1 DEF Inv, Types, Distance
<1>10. QED
  BY <1>1, <1>7, <1>8, <1>9, Begins

LEMMA DeleteStep == ASSUME Inv, ~Overlap, Delete PROVE Inv'
<1> DEFINE x == startWin + WinSize
           to == Mask(x)
           base == winBase + WinSize
           no == NoPktToSend(to)
<1>1. /\ alive /\ rx.pc = "idle" /\ fl.pc = "idle"
      /\ UNCHANGED <<alive, startWin, reorder, forceNoDrop, timer, fl, snd,
                     rxLast, winBase, stack, ahead>>
      /\ rx' = Started("until", "delba", First, no, to, base, 0)
  BY DEF Delete, RxMay, RxIdle, Started, entry, peer
<1>2. Stands /\ startWin \in 0..MaxSeq /\ winBase \in Int
  BY <1>1, WindowStands DEF Inv, Types
<1>3. Mask(to) = Mask(base)
  <2>1. startWin \in Int /\ Mask(startWin) = Mask(winBase) /\ WinSize \in Int
    BY <1>2, Constants DEF Stands
  <2>2. Mask(x) = Mask(base)
    BY <1>2, <2>1, MaskShift
  <2>3. x \in Int
    BY <2>1
  <2> HIDE DEF x, base
  <2>4. QED
    BY <2>2, <2>3, MaskMask
<1>4. to = (IF x < MaxSeq THEN x ELSE x - MaxSeq) /\ to \in 0..MaxSeq
  <2>1. x \in (-MaxSeq)..(2 * MaxSeq - 1) /\ ~(x < 0)
    BY <1>2, Constants
  <2> HIDE DEF x
  <2>2. to = IF x < MaxSeq THEN x ELSE x - MaxSeq
    BY <2>1, MaskNear
  <2>3. QED
    BY <2>1, <2>2, Constants
<1>5. base \in Int /\ base - winBase \in (-(2 * WinSize))..(MaxSeq - 1)
  BY <1>2, Constants
<1>6. no \in 1..WinSize /\ Aimed(to, base, no)
  <2> HIDE DEF to, base
  <2>1. QED
    BY <1>2, <1>3, <1>4, <1>5, MoveAims
<1>7. no = WinSize
  <2> HIDE DEF to
  <2>1. to > startWin => ~(to - startWin < WinSize)
    BY <1>2, <1>4, Constants
  <2>2. QED
    BY <2>1 DEF NoPktToSend
<1> HIDE DEF to, no, base
<1>8. no \in 0..WinSize /\ First \in Ids /\ 0 \in 0..MaxSeq
  BY <1>6, Constants DEF Ids
<1>9. /\ RxTypes' /\ rx'.pc = "until" /\ rx'.kind = "delba" /\ rx'.i = 0
      /\ rx'.no = no /\ rx'.to = to /\ rx'.base = base
  BY <1>1, <1>4, <1>5, <1>8, StartedTypes
<1>10. RxShape'
  <2>1. Aimed(rx.to, rx.base, rx.no)'
    BY <1>1, <1>6, <1>9 DEF Aimed
  <2>2. 0 <= no /\ \A j \in Slots : ~(j < 0)
    BY <1>6, Constants
  <2>3. QED
    BY <1>1, <1>7, <1>9, <2>1, <2>2 DEF RxShape
<1>11. /\ forceNoDrop' \in BOOLEAN /\ rxLast' \in Ids \cup {NULL}
       /\ rxLast' # NULL => rxLast' < snd + WinSize
  BY <1>1 DEF Inv, Types, Distance
<1>12. QED
  BY <1>1, <1>9, <1>10, <1>11, Begins

LEMMA SetNoDropStep == ASSUME Inv, SetNoDrop PROVE Inv'
<1>1. /\ UNCHANGED <<alive, startWin, reorder, timer, rx, fl, peer, winBase,
                     stack, ahead>>
      /\ forceNoDrop' = TRUE
  BY DEF SetNoDrop
<1>2. Types'
  BY <1>1 DEF Inv, Types, timer, peer, stack, RxTypes, FlTypes
<1>3. Exclusive' /\ Sound' /\ Distance' /\ NothingLost' /\ OrderShape'
  BY <1>1 DEF Inv, Exclusive, Stored, Sound, Distance, NothingLost, OrderShape,
              Pos, peer, stack
<1>4. RxShape' /\ FlShape' /\ TimerShape'
  BY <1>1 DEF Inv, RxShape, FlShape, TimerShape, Aimed, Stored, peer, timer
<1>5. QED
  BY <1>2, <1>3, <1>4 DEF Inv

-----------------------------------------------------------------------------
\* A handler goes on.

LEMMA RxEmpties ==
  ASSUME Inv, rx.pc \in {"until", "scan"}, rx.i \in Slots, Empty(rx.i),
         rx' = [rx EXCEPT !.i = @ + 1, !.yield = IsData(reorder[rx.i])],
         UNCHANGED <<alive, startWin, forceNoDrop, timer, fl, peer, winBase,
                     ahead>>,
         rx.pc = "until" => rx.i < rx.no,
         rx.pc = "scan" => reorder[rx.i] # NULL
  PROVE  Inv'
<1> DEFINE i == rx.i
<1>1. alive /\ fl.pc = "idle" /\ Pos = i /\ i \in Slots /\ Empty(i)
  BY DEF Inv, Exclusive, Pos
<1>2. /\ rx'.pc = rx.pc /\ rx'.kind = rx.kind /\ rx'.n = rx.n
      /\ rx'.no = rx.no /\ rx'.to = rx.to /\ rx'.base = rx.base
      /\ rx'.i = i + 1
  BY DEF Inv, Types, RxTypes
<1>3. RxTypes'
  <2>1. i + 1 \in 0..WinSize
    BY <1>1, Constants
  <2>2. IsData(reorder[i]) \in BOOLEAN
    BY DEF IsData
  <2> HIDE DEF i
  <2>3. rx' = [rx EXCEPT !.i = i + 1, !.yield = IsData(reorder[i])]
    BY DEF i
  <2>4. QED
    BY <2>1, <2>2, <2>3 DEF Inv, Types, RxTypes
<1>4. /\ i \in Nat /\ winBase \in Int /\ snd \in Nat /\ WinSize \in Nat
      /\ rx.no \in Nat
  BY <1>1, Constants DEF Inv, Types, RxTypes
<1>5. high <= ahead \/ high < winBase + i
  BY <1>1 DEF Inv, OrderShape
<1> HIDE DEF i
<1>6. /\ reorder' \in [Slots -> Packets \cup {NULL}]
      /\ \A j \in Slots : reorder'[j] = IF j = i THEN NULL ELSE reorder[j]
      /\ Stored' = Stored \ {i}
      /\ high' \in Int /\ order' # "broken"
      /\ high' <= ahead \/ high' < winBase + (i + 1)
      /\ NothingLost'
  BY <1>1, <1>5, EmptyKeeps DEF Inv, OrderShape
<1>7. Types'
  BY <1>3, <1>6 DEF Inv, Types, timer, peer, FlTypes
<1>8. Exclusive'
  BY <1>1, <1>2 DEF Inv, Exclusive
<1>9. Sound'
  BY <1>6 DEF Inv, Sound, peer
<1>10. Distance'
  BY <1>2 DEF Inv, Distance, peer
<1>11. RxShape'
  <2>1. \A j \in Slots : j < i + 1 => reorder'[j] = NULL
    <3>1. \A j \in Slots : j < i => reorder[j] = NULL
      BY DEF Inv, RxShape, i
    <3>2. \A j \in 0..(WinSize - 1) : j < i + 1 => j < i \/ j = i
      BY <1>4
    <3>3. QED
      BY <1>6, <3>1, <3>2 DEF Slots
  <2>2. CASE rx.pc = "until"
    <3>1. i + 1 <= rx.no
      BY <1>4, <2>2 DEF i
    <3>2. Aimed(rx.to, rx.base, rx.no)'
      BY <1>2, <2>2 DEF Inv, RxShape, Aimed
    <3>3. QED
      BY <1>2, <2>1, <2>2, <3>1, <3>2 DEF Inv, RxShape, peer
  <2>3. CASE rx.pc = "scan"
    <3>1. reorder[i] # NULL
      BY <2>3 DEF i
    <3>2. winBase + i < snd + WinSize
      BY <1>1, <3>1 DEF Inv, Sound
    <3>3. winBase + (i + 1) <= snd + WinSize
      BY <1>4, <3>2
    <3>4. QED
      BY <1>2, <2>1, <2>3, <3>3 DEF Inv, RxShape, peer
  <2>4. QED
    BY <2>2, <2>3
<1>12. FlShape'
  BY <1>1 DEF FlShape
<1>13. TimerShape'
  BY <1>1, <1>2, <1>6 DEF Inv, TimerShape, timer
<1>14. OrderShape'
  <2>1. Pos' = i + 1
    BY <1>2 DEF Pos
  <2>2. QED
    BY <1>1, <1>6, <2>1 DEF OrderShape
<1>15. QED
  BY <1>6, <1>7, <1>8, <1>9, <1>10, <1>11, <1>12, <1>13, <1>14 DEF Inv

LEMMA RxUntilStep == ASSUME Inv, RxUntil PROVE Inv'
<1>1. rx.i \in 0..WinSize /\ rx.no \in 0..WinSize
  BY DEF Inv, Types, RxTypes
<1>2. rx.pc = "until" /\ rx.i < rx.no
  BY DEF RxUntil
<1>3. rx.i \in Slots
  BY <1>1, <1>2, Constants
<1>4. QED
  BY <1>2, <1>3, RxEmpties DEF RxUntil

LEMMA RxScanStep == ASSUME Inv, RxScan PROVE Inv'
<1>1. rx.i \in 0..WinSize
  BY DEF Inv, Types, RxTypes
<1>2. rx.pc = "scan" /\ rx.i < WinSize
  BY DEF RxScan
<1>3. rx.i \in Slots
  BY <1>1, <1>2, Constants
<1>4. QED
  BY <1>2, <1>3, RxEmpties DEF RxScan

\* The window is moved, by a handler or by the flush.
LEMMA Moved ==
  ASSUME Inv, alive, NEW k \in 0..WinSize, NEW to \in 0..MaxSeq,
         NEW base \in Int, \A j \in Slots : j < k => reorder[j] = NULL,
         Aimed(to, base, k), MoveWindow(k, to, base),
         NoteAhead(to, base) \/ (ahead' = ahead /\ base = winBase + k),
         high <= ahead \/ high < winBase + k,
         UNCHANGED <<alive, snd, stack>>
  PROVE  /\ startWin' = to /\ winBase' = base /\ ahead' \in Int
         /\ reorder' \in [Slots -> Packets \cup {NULL}]
         /\ Sound' /\ NothingLost' /\ order' # "broken"
         /\ Stored' = {} <=> Stored = {}
         /\ k = WinSize => Stored' = {}
         /\ high' <= ahead' \/ high' < winBase'
<1>1. /\ startWin' = to /\ winBase' = base /\ alive' /\ snd' = snd
      /\ high' = high /\ order' = order /\ held' = held
  BY DEF MoveWindow, stack
<1>2. /\ winBase \in Int /\ high \in Int /\ ahead \in Int
      /\ k \in Nat /\ \A j \in Slots : j \in Nat
  BY Constants DEF Inv, Types
<1>3. /\ reorder' \in [Slots -> Packets \cup {NULL}]
      /\ \A i \in Slots : reorder'[i] # NULL =>
           i + k \in Slots /\ reorder'[i] = reorder[i + k]
      /\ Stored' = {} <=> Stored = {}
      /\ k = WinSize => Stored' = {}
      /\ NothingLost'
  BY <1>1, MoveKeeps DEF Inv
<1>4. Sound'
  <2>1. Mask(to) = Mask(base)
    BY DEF Aimed
  <2>2. ASSUME NEW i \in Slots, reorder'[i] # NULL
        PROVE  reorder'[i][1] = base + i /\ reorder'[i][1] < snd + WinSize
    <3>1. k # WinSize
      BY <1>3, <2>2 DEF Stored
    <3>2. base = winBase + k
      BY <3>1 DEF Aimed
    <3> DEFINE j == i + k
    <3>3. j \in Slots /\ reorder'[i] = reorder[j]
      BY <1>3, <2>2
    <3> HIDE DEF j
    <3>4. reorder[j][1] = winBase + j /\ reorder[j][1] < snd + WinSize
      BY <2>2, <3>3 DEF Inv, Sound
    <3>5. winBase + j = base + i
      BY <1>2, <3>2 DEF j
    <3>6. QED
      BY <3>3, <3>4, <3>5
  <2>3. QED
    BY <1>1, <2>1, <2>2 DEF Sound
<1>5. ahead' \in Int /\ (high <= ahead' \/ high < base)
  <2>1. CASE ahead' = ahead /\ base = winBase + k
    BY <1>2, <2>1
  <2>2. CASE NoteAhead(to, base)
    <3>1. CASE (to <= startWin \/ base <= winBase) /\ high >= base /\ high > ahead
      BY <1>2, <2>2, <3>1 DEF NoteAhead
    <3>2. CASE ~((to <= startWin \/ base <= winBase) /\ high >= base /\ high > ahead)
      <4>1. ahead' = ahead
        BY <2>2, <3>2 DEF NoteAhead
      <4>2. to > startWin /\ base > winBase => base >= winBase + k
        BY DEF Aimed
      <4>3. startWin \in Int /\ to \in Int
        BY Constants DEF Inv, Types
      <4>4. QED
        BY <1>2, <3>2, <4>1, <4>2, <4>3
    <3>3. QED
      BY <3>1, <3>2
  <2>3. QED
    BY <2>1, <2>2
<1>6. order' # "broken"
  BY <1>1 DEF Inv, OrderShape
<1>7. QED
  BY <1>1, <1>3, <1>4, <1>5, <1>6

LEMMA RxMoveStep == ASSUME Inv, RxMove PROVE Inv'
<1> DEFINE no == rx.no
           to == rx.to
           base == rx.base
<1>1. /\ rx.pc = "until" /\ rx.i = no /\ MoveWindow(no, to, base)
      /\ NoteAhead(to, base)
      /\ UNCHANGED <<alive, forceNoDrop, timer, fl, peer, stack>>
  BY DEF RxMove
<1>2. /\ alive /\ fl.pc = "idle" /\ Pos = no
  BY <1>1 DEF Inv, Exclusive, Pos
<1>3. /\ no \in 0..WinSize /\ to \in 0..MaxSeq /\ base \in Int
      /\ Aimed(to, base, no) /\ \A j \in Slots : j < no => reorder[j] = NULL
      /\ rx.kind = "delba" => no = WinSize
      /\ rx.kind # "delba" => base <= snd + WinSize /\ snd + WinSize <= base + Half
      /\ rx.kind \in {"data", "fw"} => rx.n = base + WinSize - 1
      /\ rx.kind \in {"data", "bar", "fw", "addba", "delba"}
  BY <1>1 DEF Inv, Types, RxTypes, RxShape
<1>4. high <= ahead \/ high < winBase + no
  BY <1>2 DEF Inv, OrderShape
<1>5. UNCHANGED <<alive, snd, stack>>
  BY <1>1 DEF peer
<1>6. \/ rx.kind = "addba" /\ rx' = RxIdle
      \/ rx.kind = "delba" /\ rx' = [rx EXCEPT !.pc = "free", !.yield = FALSE]
      \/ /\ rx.kind \in {"data", "bar", "fw"}
         /\ rx' = [rx EXCEPT !.pc = "store", !.yield = FALSE]
  BY <1>3 DEF RxMove
<1> HIDE DEF no, to, base
<1>7. /\ startWin' = to /\ winBase' = base /\ ahead' \in Int
      /\ reorder' \in [Slots -> Packets \cup {NULL}]
      /\ Sound' /\ NothingLost' /\ order' # "broken"
      /\ Stored' = {} <=> Stored = {}
      /\ no = WinSize => Stored' = {}
      /\ high' <= ahead' \/ high' < winBase'
  BY <1>1, <1>2, <1>3, <1>4, <1>5, Moved
<1>8. /\ rx'.pc = "idle" \/ (rx'.pc \in {"free", "store"} /\ rx'.kind = rx.kind
                              /\ rx'.n = rx.n /\ rx'.to = to)
      /\ rx'.pc = "free" => rx.kind = "delba"
      /\ rx'.pc = "store" => rx.kind \in {"data", "bar", "fw"}
      /\ rx'.pc = "idle" => rx.kind = "addba"
  <2>1. RxTypes
    BY DEF Inv, Types
  <2>2. CASE rx.kind = "addba" /\ rx' = RxIdle
    BY <2>2 DEF RxIdle
  <2>3. CASE rx.kind = "delba" /\ rx' = [rx EXCEPT !.pc = "free", !.yield = FALSE]
    BY <2>1, <2>3 DEF RxTypes, to
  <2>4. CASE rx.kind \in {"data", "bar", "fw"}
             /\ rx' = [rx EXCEPT !.pc = "store", !.yield = FALSE]
    BY <2>1, <2>4 DEF RxTypes, to
  <2>5. QED
    BY <1>6, <2>2, <2>3, <2>4
<1>9. RxTypes'
  <2>1. CASE rx' = RxIdle
    <3>1. rx' = Started("idle", "data", First, 0, 0, 0, 0)
      BY <2>1 DEF RxIdle, Started
    <3>2. First \in Ids /\ 0 \in 0..WinSize /\ 0 \in 0..MaxSeq
      BY Constants DEF Ids
    <3>3. QED
      BY <3>1, <3>2, StartedTypes
  <2>2. RxTypes
    BY DEF Inv, Types
  <2>3. CASE rx' = [rx EXCEPT !.pc = "free", !.yield = FALSE]
    BY <2>2, <2>3 DEF RxTypes
  <2>4. CASE rx' = [rx EXCEPT !.pc = "store", !.yield = FALSE]
    BY <2>2, <2>4 DEF RxTypes
  <2>5. QED
    BY <1>6, <2>1, <2>3, <2>4
<1>10. Types'
  BY <1>1, <1>3, <1>5, <1>7, <1>9 DEF Inv, Types, FlTypes, timer, peer, stack
<1>11. Exclusive'
  BY <1>1, <1>2 DEF Exclusive
<1>12. Distance'
  BY <1>1, <1>3, <1>7, <1>8 DEF Inv, Distance, peer
<1>13. RxShape'
  <2>1. rx'.pc = "store" /\ rx'.kind # "bar" => rx'.n - winBase' \in Slots
    <3>1. SUFFICES ASSUME rx'.pc = "store", rx'.kind # "bar"
                   PROVE  rx'.n - winBase' \in Slots
      OBVIOUS
    <3>2. rx'.n = base + WinSize - 1 /\ winBase' = base
      BY <1>3, <1>7, <1>8, <3>1
    <3>3. QED
      BY <1>3, <3>2, Constants
  <2>2. rx'.pc = "free" => Stored' = {}
    BY <1>3, <1>7, <1>8
  <2>3. QED
    BY <1>7, <1>8, <2>1, <2>2 DEF RxShape
<1>14. FlShape'
  BY <1>1, <1>2 DEF FlShape
<1>15. TimerShape'
  BY <1>1, <1>2, <1>7, <1>8 DEF Inv, TimerShape, timer
<1>16. OrderShape'
  <2>1. Pos' = 0 /\ winBase' + 0 = winBase'
    BY <1>1, <1>2, <1>3, <1>7, <1>8 DEF Pos
  <2>2. QED
    BY <1>1, <1>2, <1>7, <2>1 DEF OrderShape
<1>17. QED
  BY <1>7, <1>10, <1>11, <1>12, <1>13, <1>14, <1>15, <1>16 DEF Inv

LEMMA RxStoreStep == ASSUME Inv, RxStore PROVE Inv'
<1> DEFINE d == rx.n - winBase
           p == <<rx.n, rx.kind>>
<1>1. /\ rx.pc = "store" /\ rx.kind # "bar" /\ alive /\ fl.pc = "idle"
      /\ rx.to = startWin /\ rx.kind \in {"data", "fw"} /\ d \in Slots
      /\ UNCHANGED <<alive, startWin, forceNoDrop, timer, fl, peer, winBase,
                     high, order, ahead>>
  BY DEF RxStore, Inv, Exclusive, RxShape
<1>2. /\ Stands /\ rx.n \in Ids /\ rx.n \in Int /\ winBase \in Int
      /\ reorder \in [Slots -> Packets \cup {NULL}] /\ winBase + d = rx.n
      /\ d \in Int
  <2>1. Stands
    BY <1>1, WindowStands DEF Inv
  <2>2. /\ rx.n \in Ids /\ winBase \in Int
        /\ reorder \in [Slots -> Packets \cup {NULL}]
    BY DEF Inv, Types, RxTypes
  <2>3. rx.n \in Int
    <3>1. \A m \in Ids : m \in Int
      BY Constants
    <3>2. QED
      BY <2>2, <3>1
  <2>4. winBase + d = rx.n /\ d \in Int
    BY <2>2, <2>3
  <2>5. QED
    BY <2>1, <2>2, <2>3, <2>4
<1>3. SlotOf(Mask(rx.n), rx.to) = d
  <2> HIDE DEF d
  <2>1. SlotOf(Mask(winBase + d), startWin) = d
    BY <1>1, <1>2, SlotMeans
  <2>2. QED
    BY <1>1, <1>2, <2>1
<1>4. IF reorder[d] = NULL
      THEN /\ reorder' = [reorder EXCEPT ![d] = p] /\ held' = held + 1
           /\ rx' = [rx EXCEPT !.pc = "scan", !.i = 0]
      ELSE rx' = [rx EXCEPT !.pc = "done"] /\ UNCHANGED <<reorder, held>>
  BY <1>3 DEF RxStore
<1>5. p \in Packets /\ p # NULL /\ p[1] = rx.n
  BY <1>1, <1>2, NullIsNoPacket DEF Packets
<1>6. rx.n < snd + WinSize
  BY <1>1 DEF Inv, Distance
<1> HIDE DEF d, p
<1>7. /\ rx'.pc \in {"scan", "done"} /\ rx'.n = rx.n /\ rx'.kind = rx.kind
      /\ rx'.pc = "scan" => rx'.i = 0
      /\ RxTypes'
  <2>1. 0 \in 0..WinSize
    BY Constants
  <2>2. RxTypes
    BY DEF Inv, Types
  <2>3. CASE rx' = [rx EXCEPT !.pc = "scan", !.i = 0]
    BY <2>1, <2>2, <2>3 DEF RxTypes
  <2>4. CASE rx' = [rx EXCEPT !.pc = "done"]
    BY <2>2, <2>4 DEF RxTypes
  <2>5. QED
    BY <1>4, <2>3, <2>4
<1>8. /\ reorder' \in [Slots -> Packets \cup {NULL}]
      /\ Sound' /\ NothingLost'
  <2>1. CASE reorder[d] = NULL
    <3>1. /\ reorder' \in [Slots -> Packets \cup {NULL}]
          /\ \A j \in Slots : reorder'[j] = IF j = d THEN p ELSE reorder[j]
      BY <1>1, <1>2, <1>4, <1>5, <2>1
    <3>2. Sound'
      BY <1>1, <1>2, <1>5, <1>6, <3>1 DEF Inv, Sound, peer
    <3>3. Stored' = Stored \cup {d} /\ d \notin Stored
      BY <1>1, <1>5, <2>1, <3>1 DEF Stored
    <3>4. Cardinality(Stored \cup {d}) = Cardinality(Stored) + 1
      BY <3>3, StoredFinite, FS_AddElement
    <3>5. held = Cardinality(Stored) /\ held' = held + 1
      BY <1>4, <2>1 DEF Inv, NothingLost, Stored
    <3>6. NothingLost'
      BY <3>3, <3>4, <3>5 DEF NothingLost, Stored
    <3>7. QED
      BY <3>1, <3>2, <3>6
  <2>2. CASE reorder[d] # NULL
    BY <1>1, <1>2, <1>4, <2>2 DEF Inv, Sound, NothingLost, peer
  <2>3. QED
    BY <2>1, <2>2
<1>9. Types'
  BY <1>1, <1>7, <1>8 DEF Inv, Types, FlTypes, timer, peer
<1>10. Exclusive'
  BY <1>1 DEF Exclusive
<1>11. Distance'
  BY <1>1, <1>7 DEF Inv, Distance, peer
<1>12. RxShape'
  <2>1. \A j \in Slots : ~(j < 0)
    BY Constants
  <2>2. winBase + 0 <= snd + WinSize
    <3>1. winBase <= snd + WinSize /\ winBase + 0 = winBase
      BY <1>1, <1>2 DEF Inv, Distance
    <3>2. QED
      BY <3>1
  <2>3. QED
    BY <1>1, <1>7, <2>1, <2>2 DEF RxShape, peer
<1>13. FlShape'
  BY <1>1 DEF FlShape
<1>14. TimerShape'
  BY <1>1, <1>7 DEF Inv, TimerShape, timer
<1>15. OrderShape'
  <2>1. Pos' = 0 /\ Pos = 0
    BY <1>1, <1>7 DEF Pos
  <2>2. QED
    BY <1>1, <2>1 DEF Inv, OrderShape
<1>16. QED
  BY <1>8, <1>9, <1>10, <1>11, <1>12, <1>13, <1>14, <1>15 DEF Inv

LEMMA RxBarStep == ASSUME Inv, RxBar PROVE Inv'
<1>1. /\ rx.pc = "store" /\ rx.kind = "bar" /\ alive /\ fl.pc = "idle"
      /\ rx' = [rx EXCEPT !.pc = "scan", !.i = 0]
      /\ UNCHANGED <<alive, startWin, reorder, forceNoDrop, timer, fl, peer,
                     winBase, stack, ahead>>
  BY DEF RxBar, Inv, Exclusive, entry
<1>2. /\ rx'.pc = "scan" /\ rx'.n = rx.n /\ rx'.kind = rx.kind /\ rx'.i = 0
      /\ RxTypes'
  <2>1. 0 \in 0..WinSize
    BY Constants
  <2>2. QED
    BY <1>1, <2>1 DEF Inv, Types, RxTypes
<1>3. Types'
  BY <1>1, <1>2 DEF Inv, Types, FlTypes, timer, peer, stack
<1>4. Exclusive' /\ Sound' /\ NothingLost'
  BY <1>1 DEF Inv, Exclusive, Sound, NothingLost, peer, stack
<1>5. Distance'
  BY <1>1, <1>2 DEF Inv, Distance, peer
<1>6. RxShape'
  <2>1. \A j \in Slots : ~(j < 0)
    BY Constants
  <2>2. winBase + 0 <= snd + WinSize
    <3>1. winBase <= snd + WinSize /\ winBase + 0 = winBase
      BY <1>1 DEF Inv, Distance, Types
    <3>2. QED
      BY <3>1
  <2>3. QED
    BY <1>1, <1>2, <2>1, <2>2 DEF RxShape, peer
<1>7. FlShape' /\ TimerShape'
  BY <1>1, <1>2 DEF Inv, FlShape, TimerShape, timer
<1>8. OrderShape'
  <2>1. Pos' = 0 /\ Pos = 0
    BY <1>1, <1>2 DEF Pos
  <2>2. QED
    BY <1>1, <2>1 DEF Inv, OrderShape, stack
<1>9. QED
  BY <1>3, <1>4, <1>5, <1>6, <1>7, <1>8 DEF Inv

LEMMA RxScannedStep == ASSUME Inv, RxScanned PROVE Inv'
<1> DEFINE i == rx.i
           x == startWin + i
           to == Mask(x)
           base == winBase + i
<1>1. /\ rx.pc = "scan" /\ alive /\ fl.pc = "idle" /\ Pos = i
      /\ MoveWindow(i, to, base)
      /\ rx' = [rx EXCEPT !.pc = "done", !.yield = FALSE]
      /\ UNCHANGED <<alive, forceNoDrop, timer, fl, peer, stack, ahead>>
  BY DEF RxScanned, Inv, Exclusive, Pos
<1>2. /\ i \in 0..WinSize /\ \A j \in Slots : j < i => reorder[j] = NULL
      /\ winBase \in Int /\ startWin \in 0..MaxSeq /\ snd \in Nat
      /\ winBase <= snd + WinSize /\ snd + WinSize <= winBase + Half
      /\ base <= snd + WinSize /\ rx.kind \in {"data", "bar", "fw"}
  BY <1>1, Constants DEF Inv, Types, RxTypes, RxShape, Distance
<1>3. base \in Int /\ i \in Int /\ x \in Int /\ Mask(x) = Mask(base)
  <2>1. base \in Int /\ i \in Int /\ x \in Int
    BY <1>2, Constants
  <2>2. startWin \in Int /\ Mask(startWin) = Mask(winBase)
    BY <1>1, <1>2, Constants DEF Inv, Sound
  <2> HIDE DEF i
  <2>3. QED
    BY <1>2, <2>1, <2>2, MaskShift
<1>4. to \in 0..(MaxSeq - 1) /\ Mask(to) = Mask(base)
  <2> HIDE DEF x, base
  <2>1. QED
    BY <1>3, MaskSplit, MaskMask
<1>5. to \in 0..MaxSeq /\ (base > winBase => base >= winBase + i)
  <2>1. winBase \in Int /\ i \in Int
    BY <1>2, <1>3
  <2>2. base >= winBase + i
    BY <2>1
  <2> HIDE DEF x, base
  <2>3. QED
    BY <1>4, <2>2, Constants
<1>6. Aimed(to, base, i)
  BY <1>3, <1>4, <1>5 DEF Aimed
<1>7. (high <= ahead \/ high < winBase + i) /\ base = winBase + i
  BY <1>1 DEF Inv, OrderShape
<1>8. snd + WinSize <= base + Half
  BY <1>2, Constants
<1>9. UNCHANGED <<alive, snd, stack>> /\ ahead' = ahead
  BY <1>1 DEF peer
<1> HIDE DEF i, x, to, base
<1>10. /\ startWin' = to /\ winBase' = base
       /\ reorder' \in [Slots -> Packets \cup {NULL}]
       /\ Sound' /\ NothingLost' /\ order' # "broken"
       /\ high' <= ahead' \/ high' < winBase'
  BY <1>1, <1>2, <1>3, <1>5, <1>6, <1>7, <1>9, Moved
<1>11. /\ rx'.pc = "done" /\ rx'.kind = rx.kind /\ rx'.n = rx.n /\ RxTypes'
  BY <1>1 DEF Inv, Types, RxTypes
<1>12. Types'
  BY <1>1, <1>3, <1>5, <1>9, <1>10, <1>11
     DEF Inv, Types, FlTypes, timer, peer, stack
<1>13. Exclusive'
  BY <1>1 DEF Exclusive
<1>14. Distance'
  BY <1>1, <1>2, <1>8, <1>10, <1>11 DEF Inv, Distance, peer
<1>15. RxShape' /\ FlShape'
  BY <1>1, <1>2, <1>11 DEF RxShape, FlShape
<1>16. TimerShape'
  BY <1>1, <1>11 DEF Inv, TimerShape, timer
<1>17. OrderShape'
  <2>1. Pos' = 0 /\ winBase' + 0 = winBase'
    BY <1>1, <1>3, <1>10, <1>11 DEF Pos
  <2>2. QED
    BY <1>1, <1>10, <2>1 DEF OrderShape
<1>18. QED
  BY <1>10, <1>12, <1>13, <1>14, <1>15, <1>16, <1>17 DEF Inv

\* The handler's record and the flush's when nobody works on the window.
LEMMA IdleTypes ==
  /\ rx' = RxIdle => RxTypes' /\ rx'.pc = "idle"
  /\ fl' = FlIdle => FlTypes' /\ fl'.pc = "idle"
<1>1. /\ First \in Ids /\ 0 \in 0..WinSize /\ 0 \in 0..MaxSeq /\ 0 \in Slots
  BY Constants DEF Ids
<1>2. ASSUME rx' = RxIdle PROVE RxTypes' /\ rx'.pc = "idle"
  <2>1. rx' = Started("idle", "data", First, 0, 0, 0, 0)
    BY <1>2 DEF RxIdle, Started
  <2>2. QED
    BY <1>1, <2>1, StartedTypes
<1>3. ASSUME fl' = FlIdle PROVE FlTypes' /\ fl'.pc = "idle"
  BY <1>1, <1>3 DEF FlIdle, FlTypes
<1>4. QED
  BY <1>2, <1>3

LEMMA RxDoneStep == ASSUME Inv, RxDone PROVE Inv'
<1>1. /\ rx.pc = "done" /\ alive /\ fl.pc = "idle" /\ rx' = RxIdle
      /\ UNCHANGED <<alive, startWin, reorder, forceNoDrop, flushes, stray, fl,
                     peer, winBase, stack, ahead>>
      /\ \/ timerIsSet' = TRUE /\ ticking' = TRUE
         \/ timerIsSet /\ UNCHANGED <<timerIsSet, ticking>>
  BY DEF RxDone, Inv, Exclusive, entry
<1>2. RxTypes' /\ rx'.pc = "idle"
  BY <1>1, IdleTypes
<1>3. Types'
  BY <1>1, <1>2 DEF Inv, Types, FlTypes, peer, stack
<1>4. Exclusive' /\ Sound' /\ NothingLost'
  BY <1>1, <1>2 DEF Inv, Exclusive, Sound, NothingLost, peer, stack
<1>5. Distance'
  BY <1>1, <1>2 DEF Inv, Distance, peer
<1>6. RxShape' /\ FlShape'
  BY <1>1, <1>2 DEF RxShape, FlShape
<1>7. TimerShape'
  <2>1. timerIsSet' /\ (ticking' \/ flushes' > 0)
    BY <1>1 DEF Inv, TimerShape
  <2>2. QED
    BY <2>1 DEF TimerShape
<1>8. OrderShape'
  <2>1. Pos' = 0 /\ Pos = 0
    BY <1>1, <1>2 DEF Pos
  <2>2. QED
    BY <1>1, <2>1 DEF Inv, OrderShape, stack
<1>9. QED
  BY <1>3, <1>4, <1>5, <1>6, <1>7, <1>8 DEF Inv

LEMMA RxFreeStep == ASSUME Inv, RxFree PROVE Inv'
<1>1. /\ rx.pc = "free" /\ Stored = {} /\ rx' = RxIdle /\ fl' = FlIdle
      /\ alive' = FALSE /\ timerIsSet' = FALSE /\ ticking' = FALSE
      /\ flushes' = 0 /\ ahead' = high
      /\ UNCHANGED <<startWin, reorder, forceNoDrop, peer, winBase, stack>>
  BY DEF RxFree, Inv, RxShape
<1>2. RxTypes' /\ rx'.pc = "idle" /\ FlTypes' /\ fl'.pc = "idle"
  BY <1>1, IdleTypes
<1>3. Types'
  BY <1>1, <1>2 DEF Inv, Types, peer, stack
<1>4. Exclusive' /\ Sound' /\ NothingLost'
  BY <1>1, <1>2 DEF Inv, Exclusive, Stored, Sound, NothingLost, stack
<1>5. Distance'
  BY <1>1, <1>2 DEF Inv, Distance, peer
<1>6. RxShape' /\ FlShape' /\ TimerShape'
  BY <1>1, <1>2 DEF RxShape, FlShape, TimerShape, Stored
<1>7. OrderShape'
  <2>1. high <= high
    BY DEF Inv, Types
  <2>2. QED
    BY <1>1, <2>1 DEF Inv, OrderShape, stack
<1>8. QED
  BY <1>3, <1>4, <1>5, <1>6, <1>7 DEF Inv

LEMMA RxDirectStep ==
  ASSUME Inv, ~Overlap, NEW n, Arrives("data", n), RxDirect(n)
  PROVE  Inv'
<1>1. /\ ~alive /\ rx.pc = "idle" /\ fl.pc = "idle" /\ Stored = {}
      /\ GiveToStack(n) /\ rxLast' = n /\ snd' = n + 1
      /\ UNCHANGED <<alive, startWin, reorder, forceNoDrop, timer, rx, fl,
                     winBase, held, ahead>>
  BY DEF RxDirect, RxMay, Inv, Exclusive, entry
<1>2. /\ n \in Ids /\ n \in Nat /\ snd \in Nat /\ snd <= n
      /\ high \in Int /\ ahead \in Int
  BY Constants DEF Arrives, Inv, Types
<1>3. /\ high' \in Int /\ order' # "broken"
      /\ high' <= ahead \/ high' <= n
  <2>1. CASE n > high
    <3>1. ~(n <= high)
      BY <1>2, <2>1
    <3>2. high' = n /\ order' = order
      BY <1>1, <2>1, <3>1 DEF GiveToStack
    <3>3. QED
      BY <1>2, <3>2 DEF Inv, OrderShape
  <2>2. CASE ~(n > high)
    <3>1. n <= high
      BY <1>2, <2>2
    <3>2. high <= ahead
      <4>1. ASSUME rxLast # NULL, rxLast = snd - 1, high <= rxLast PROVE FALSE
        BY <1>2, <3>1, <4>1
      <4>2. QED
        BY <1>1, <4>1 DEF Inv, OrderShape
    <3>3. ~(n > ahead)
      BY <1>2, <3>1, <3>2
    <3>4. high' = high /\ order' = IF order = "kept" THEN "overtaken" ELSE order
      BY <1>1, <2>2, <3>3 DEF GiveToStack
    <3>5. order # "broken"
      BY DEF Inv, OrderShape
    <3>6. QED
      BY <1>2, <3>2, <3>4, <3>5
  <2>3. QED
    BY <2>1, <2>2
<1>4. Types'
  <2>1. n + 1 \in First..(Last + 1)
    BY <1>2, Constants DEF Ids
  <2>2. QED
    BY <1>1, <1>2, <1>3, <2>1 DEF Inv, Types, timer, RxTypes, FlTypes
<1>5. Exclusive' /\ Sound' /\ NothingLost'
  BY <1>1 DEF Inv, Exclusive, Stored, Sound, NothingLost
<1>6. Distance'
  <2>1. n < (n + 1) + WinSize
    BY <1>2, Constants
  <2>2. QED
    BY <1>1, <2>1 DEF Distance
<1>7. RxShape' /\ FlShape' /\ TimerShape'
  BY <1>1 DEF Inv, RxShape, FlShape, TimerShape, Stored, timer
<1>8. OrderShape'
  <2>1. n # NULL /\ n = (n + 1) - 1
    BY <1>2, NullIsNoPacket
  <2>2. QED
    BY <1>1, <1>3, <2>1 DEF OrderShape
<1>9. QED
  BY <1>4, <1>5, <1>6, <1>7, <1>8 DEF Inv

LEMMA CreateStep == ASSUME Inv, ~Overlap, Create PROVE Inv'
<1> DEFINE seen == LastSeq # 65535 /\ LastSeq >= Mask(snd)
           to == IF seen THEN LastSeq + 1 ELSE Mask(snd)
           base == IF seen THEN rxLast + 1 ELSE snd
<1>1. /\ ~alive /\ rx.pc = "idle" /\ fl.pc = "idle" /\ Stored = {}
      /\ rxLast # NULL => Near(rxLast + 1)
      /\ alive' = TRUE /\ startWin' = to /\ winBase' = base
      /\ reorder' = [i \in Slots |-> NULL]
      /\ forceNoDrop' = FALSE /\ timerIsSet' = FALSE /\ ticking' = FALSE
      /\ UNCHANGED <<flushes, stray, rx, fl, peer, stack, ahead>>
  BY DEF Create, RxMay, Inv, Exclusive
<1>2. /\ snd \in Nat /\ high \in Int /\ ahead \in Int
      /\ rxLast # NULL => rxLast \in Nat /\ rxLast < snd + WinSize
      /\ high <= ahead \/ (rxLast # NULL /\ rxLast = snd - 1 /\ high <= rxLast)
  BY <1>1, Constants DEF Inv, Types, Distance, OrderShape
<1>3. /\ base \in Int /\ to \in 0..MaxSeq /\ Mask(to) = Mask(base)
      /\ base <= snd + WinSize /\ snd + WinSize <= base + Half
      /\ high <= ahead \/ high < base
  <2>1. CASE seen
    <3>1. rxLast # NULL /\ LastSeq = Mask(rxLast)
      BY <2>1 DEF LastSeq
    <3>2. /\ rxLast \in Nat /\ rxLast < snd + WinSize /\ Near(rxLast + 1)
          /\ base = rxLast + 1
      BY <1>1, <1>2, <2>1, <3>1
    <3> DEFINE m == Mask(rxLast)
    <3>3. m \in 0..(MaxSeq - 1) /\ Mask(m) = Mask(rxLast)
      BY <3>2, MaskSplit, MaskMask
    <3>4. to = m + 1
      BY <2>1, <3>1
    <3> HIDE DEF m, to, base
    <3>5. Mask(m + 1) = Mask(rxLast + 1) /\ m + 1 \in 0..MaxSeq
      BY <3>2, <3>3, MaskShift, Constants
    <3>6. /\ base <= snd + WinSize /\ snd + WinSize <= base + Half
          /\ high <= ahead \/ high < base
      BY <1>2, <3>2, Constants DEF Near
    <3>7. QED
      BY <3>2, <3>4, <3>5, <3>6
  <2>2. CASE ~seen
    <3>1. to = Mask(snd) /\ base = snd
      BY <2>2
    <3> HIDE DEF seen, to, base
    <3>2. Mask(snd) \in 0..(MaxSeq - 1) /\ Mask(Mask(snd)) = Mask(snd)
      BY <1>2, MaskSplit, MaskMask
    <3>3. Mask(snd) \in 0..MaxSeq
      BY <3>2, Constants
    <3>4. /\ snd <= snd + WinSize /\ snd + WinSize <= snd + Half
          /\ high <= ahead \/ high < snd
      BY <1>2, Constants
    <3>5. QED
      BY <1>2, <3>1, <3>2, <3>3, <3>4
  <2>3. QED
    BY <2>1, <2>2
<1> HIDE DEF seen, to, base
<1>4. Types'
  BY <1>1, <1>3 DEF Inv, Types, RxTypes, FlTypes, peer, stack
<1>5. Stored' = {} /\ \A i \in Slots : reorder'[i] = NULL
  BY <1>1 DEF Stored
<1>6. Exclusive' /\ Sound'
  BY <1>1, <1>3, <1>5 DEF Inv, Exclusive, Sound
<1>7. NothingLost'
  <2>1. held = Cardinality(Stored) /\ held' = held
    BY <1>1 DEF Inv, NothingLost, Stored, stack
  <2>2. held' = Cardinality(Stored')
    BY <1>1, <1>5, <2>1
  <2>3. QED
    BY <2>2 DEF NothingLost, Stored
<1>8. Distance'
  BY <1>1, <1>3 DEF Inv, Distance, peer
<1>9. RxShape' /\ FlShape' /\ TimerShape'
  BY <1>1, <1>5 DEF RxShape, FlShape, TimerShape
<1>10. OrderShape'
  <2>1. Pos' = 0 /\ base + 0 = base
    BY <1>1, <1>3 DEF Pos
  <2>2. QED
    BY <1>1, <1>3, <2>1 DEF Inv, OrderShape, stack
<1>11. QED
  BY <1>4, <1>6, <1>7, <1>8, <1>9, <1>10 DEF Inv

-----------------------------------------------------------------------------
\* The timer and the peer.

LEMMA TimerExpiresStep == ASSUME Inv, ~Overlap, TimerExpires PROVE Inv'
<1>1. /\ rx.pc = "idle" /\ flushes' = flushes + 1 /\ ticking' = FALSE
      /\ UNCHANGED <<alive, startWin, reorder, forceNoDrop, timerIsSet, rx, fl,
                     peer, winBase, stack, ahead>>
  BY DEF TimerExpires, LowMay, entry
<1>2. flushes' \in Nat /\ flushes' > 0
  BY <1>1 DEF Inv, Types
<1>3. Types'
  <2>1. RxTypes' /\ FlTypes'
    BY <1>1 DEF Inv, Types, RxTypes, FlTypes
  <2>2. QED
    BY <1>1, <1>2, <2>1 DEF Inv, Types, peer, stack
<1>4. Exclusive' /\ Sound' /\ NothingLost' /\ Distance' /\ OrderShape'
  BY <1>1 DEF Inv, Exclusive, Stored, Sound, NothingLost, Distance, OrderShape,
              Pos, peer, stack
<1>5. RxShape' /\ FlShape'
  BY <1>1 DEF Inv, RxShape, FlShape, Aimed, Stored, peer
<1>6. TimerShape'
  BY <1>1, <1>2 DEF Inv, TimerShape, Stored
<1>7. QED
  BY <1>3, <1>4, <1>5, <1>6 DEF Inv

LEMMA PeerMovesStep == ASSUME Inv, PeerMoves PROVE Inv'
<1>1. /\ alive /\ rx.pc = "idle" /\ snd < Last /\ snd' = snd + 1
      /\ snd + 1 + WinSize <= winBase + Half
      /\ UNCHANGED <<alive, startWin, reorder, forceNoDrop, timer, rx, fl,
                     rxLast, winBase, stack, ahead>>
  BY DEF PeerMoves, entry
<1>2. /\ snd \in Nat /\ snd >= First /\ winBase \in Int
      /\ rxLast # NULL => rxLast \in Nat
      /\ snd' = snd + 1 /\ snd' \in First..(Last + 1) /\ snd' \in Nat
  BY <1>1, Constants DEF Inv, Types
<1>3. Types'
  BY <1>1, <1>2 DEF Inv, Types, RxTypes, FlTypes, timer, stack
<1>4. Exclusive' /\ NothingLost' /\ OrderShape'
  BY <1>1 DEF Inv, Exclusive, Stored, NothingLost, OrderShape, Pos, stack
<1>5. Sound'
  <2>1. ASSUME NEW i \in Slots, reorder[i] # NULL
        PROVE  reorder[i][1] = winBase + i /\ reorder[i][1] < snd' + WinSize
    <3>1. /\ reorder[i][1] = winBase + i /\ winBase + i < snd + WinSize
      BY <1>1, <2>1 DEF Inv, Sound
    <3>2. winBase + i < snd' + WinSize
      BY <1>2, <3>1, Constants
    <3>3. QED
      BY <3>1, <3>2
  <2>2. QED
    BY <1>1, <2>1 DEF Inv, Sound
<1>6. Distance'
  <2>1. /\ winBase <= snd + WinSize /\ (rxLast # NULL => rxLast < snd + WinSize)
    BY <1>1 DEF Inv, Distance
  <2>2. /\ winBase <= snd' + WinSize /\ snd' + WinSize <= winBase + Half
        /\ rxLast # NULL => rxLast < snd' + WinSize
    BY <1>1, <1>2, <2>1, Constants
  <2>3. QED
    BY <1>1, <2>2 DEF Distance
<1>7. RxShape' /\ TimerShape'
  BY <1>1 DEF Inv, RxShape, TimerShape, Stored, timer
<1>8. FlShape'
  <2>1. fl.last \in Int
    BY Constants DEF Inv, Types, FlTypes
  <2>2. winBase + fl.last < snd + WinSize => winBase + fl.last < snd' + WinSize
    BY <1>2, <2>1, Constants
  <2>3. QED
    BY <1>1, <2>2 DEF Inv, FlShape, Aimed
<1>9. QED
  BY <1>3, <1>4, <1>5, <1>6, <1>7, <1>8 DEF Inv

-----------------------------------------------------------------------------
\* The flush.

\* A step of the flush on its own record only.
LEMMA FlushWorks ==
  ASSUME Inv, rx.pc = "idle", FlTypes', FlShape',
         UNCHANGED <<alive, startWin, reorder, forceNoDrop, timerIsSet, ticking,
                     flushes, rx, peer, winBase, stack, ahead>>,
         fl'.pc \in {"aim", "count", "until"} => alive,
         fl'.pc = "idle" => Stored = {},
         fl'.pc = "until" => fl'.i = 0, fl.pc # "until"
  PROVE  Inv'
<1>1. Types'
  BY DEF Inv, Types, RxTypes, peer, stack
<1>2. Exclusive' /\ Sound' /\ NothingLost' /\ Distance'
  BY DEF Inv, Exclusive, Stored, Sound, NothingLost, Distance, peer, stack
<1>3. RxShape'
  BY DEF RxShape
<1>4. TimerShape'
  BY DEF Inv, TimerShape, Stored
<1>5. OrderShape'
  <2>1. Pos' = 0 /\ Pos = 0
    BY DEF Pos
  <2>2. QED
    BY <2>1 DEF Inv, OrderShape, peer, stack
<1>6. QED
  BY <1>1, <1>2, <1>3, <1>4, <1>5 DEF Inv

LEMMA FlushBeginStep == ASSUME Inv, ~Overlap, FlushBegin PROVE Inv'
<1>1. /\ rx.pc = "idle" /\ fl.pc = "idle" /\ flushes > 0
      /\ flushes' = flushes - 1 /\ timerIsSet' = FALSE
      /\ fl' = [FlIdle EXCEPT !.pc = "find"]
      /\ UNCHANGED <<alive, startWin, reorder, forceNoDrop, ticking, rx, peer,
                     winBase, stack, ahead>>
  BY DEF FlushBegin, LowMay, entry
<1>2. flushes' \in Nat
  BY <1>1 DEF Inv, Types
<1>3. FlTypes' /\ fl'.pc = "find" /\ fl'.i = 0
  <2>1. 0 \in 0..WinSize /\ 0 \in 0..MaxSeq /\ 0 \in Slots
    BY Constants
  <2>2. QED
    BY <1>1, <2>1 DEF FlIdle, FlTypes
<1>4. Types'
  BY <1>1, <1>2, <1>3 DEF Inv, Types, RxTypes, peer, stack
<1>5. Exclusive' /\ Sound' /\ NothingLost' /\ Distance'
  BY <1>1, <1>3 DEF Inv, Exclusive, Stored, Sound, NothingLost, Distance, peer,
                    stack
<1>6. RxShape' /\ FlShape' /\ TimerShape'
  BY <1>1, <1>3 DEF RxShape, FlShape, TimerShape
<1>7. OrderShape'
  <2>1. Pos' = 0 /\ Pos = 0
    BY <1>1, <1>3 DEF Pos
  <2>2. QED
    BY <1>1, <2>1 DEF Inv, OrderShape, peer, stack
<1>8. QED
  BY <1>4, <1>5, <1>6, <1>7 DEF Inv

LEMMA FlushFindStep == ASSUME Inv, ~Overlap, FlushFind PROVE Inv'
<1>1. /\ rx.pc = "idle" /\ fl.pc = "find" /\ fl.i = 0
      /\ UNCHANGED <<alive, startWin, reorder, forceNoDrop, timerIsSet, ticking,
                     flushes, rx, peer, winBase, stack, ahead>>
  <2>1. /\ rx.pc = "idle" /\ fl.pc = "find"
        /\ UNCHANGED <<alive, startWin, reorder, forceNoDrop, timerIsSet,
                       ticking, flushes, rx, peer, winBase, stack, ahead>>
    BY Zenon DEF FlushFind, LowMay, entry, timer
  <2>2. fl.i = 0
    BY <2>1 DEF Inv, FlShape
  <2>3. QED
    BY <2>1, <2>2
<1>2. CASE fl' = FlIdle /\ Stored = {}
  <2>1. FlTypes' /\ fl'.pc = "idle"
    BY <1>2, IdleTypes
  <2>2. FlShape'
    BY <2>1 DEF FlShape
  <2>3. QED
    BY <1>1, <1>2, <2>1, <2>2, FlushWorks
<1>3. ASSUME NEW i \in Slots, reorder[i] # NULL,
             \A j \in Slots : j > i => reorder[j] = NULL,
             fl' = [fl EXCEPT !.pc = "aim", !.last = i]
      PROVE  Inv'
  <2>1. alive
    BY <1>3 DEF Inv, Exclusive, Stored
  <2>2. winBase + i < snd + WinSize
    BY <1>3, <2>1 DEF Inv, Sound
  <2>3. FlTypes' /\ fl'.pc = "aim" /\ fl'.last = i /\ fl'.i = 0
    BY <1>1, <1>3 DEF Inv, Types, FlTypes
  <2>4. FlShape'
    BY <1>1, <1>3, <2>2, <2>3 DEF FlShape, peer
  <2>5. QED
    BY <1>1, <2>1, <2>3, <2>4, FlushWorks
<1>4. CASE fl' = FlIdle /\ \A i \in Slots : reorder[i] = NULL
  <2>1. Stored = {}
    BY <1>4 DEF Stored
  <2>2. QED
    BY <1>2, <1>4, <2>1
<1>5. QED
  BY <1>3, <1>4, Zenon DEF FlushFind

LEMMA FlushAimStep == ASSUME Inv, ~Overlap, FlushAim PROVE Inv'
<1> DEFINE to == Mask(startWin + fl.last + 1)
           base == winBase + fl.last + 1
<1>1. /\ rx.pc = "idle" /\ fl.pc = "aim" /\ fl.i = 0 /\ alive
      /\ fl' = [fl EXCEPT !.pc = "count", !.to = to, !.base = base]
      /\ UNCHANGED <<alive, startWin, reorder, forceNoDrop, timerIsSet, ticking,
                     flushes, rx, peer, winBase, stack, ahead>>
  BY DEF FlushAim, LowMay, entry, timer, Inv, FlShape, Exclusive
<1>2. to \in 0..MaxSeq /\ base \in Int
  <2>1. startWin + fl.last + 1 \in Int /\ base \in Int
    BY Constants DEF Inv, Types, FlTypes
  <2>2. to \in 0..(MaxSeq - 1)
    BY <2>1, MaskSplit
  <2> HIDE DEF to, base
  <2>3. QED
    BY <2>1, <2>2, Constants
<1>3. /\ FlTypes' /\ fl'.pc = "count" /\ fl'.last = fl.last /\ fl'.i = 0
      /\ fl'.to = to /\ fl'.base = base
  <2> HIDE DEF to, base
  <2>1. QED
    BY <1>1, <1>2 DEF Inv, Types, FlTypes
<1>4. FlShape'
  BY <1>1, <1>3 DEF Inv, FlShape, peer
<1>5. QED
  BY <1>1, <1>3, <1>4, FlushWorks

LEMMA FlushCountStep == ASSUME Inv, ~Overlap, FlushCount PROVE Inv'
<1> DEFINE to == fl.to
           base == fl.base
           no == NoPktToSend(to)
           d == fl.last + 1
<1>1. /\ rx.pc = "idle" /\ fl.pc = "count" /\ fl.i = 0 /\ alive
      /\ fl' = [fl EXCEPT !.pc = "until", !.no = no]
      /\ UNCHANGED <<alive, startWin, reorder, forceNoDrop, timerIsSet, ticking,
                     flushes, rx, peer, winBase, stack, ahead>>
  BY DEF FlushCount, LowMay, entry, timer, Inv, FlShape, Exclusive
<1>2. /\ to = Mask(startWin + fl.last + 1) /\ base = winBase + fl.last + 1
      /\ to \in 0..MaxSeq /\ base \in Int /\ fl.last \in Slots
  BY <1>1 DEF Inv, FlShape, Types, FlTypes
<1>3. Stands /\ startWin \in 0..MaxSeq /\ winBase \in Int
  BY <1>1, WindowStands DEF Inv, Types
<1>4. /\ d \in Int /\ startWin \in Int /\ fl.last \in Int /\ startWin + d \in Int
      /\ startWin + fl.last + 1 = startWin + d /\ winBase + fl.last + 1 = winBase + d
      /\ d \in 1..WinSize
  <2>1. fl.last \in 0..(WinSize - 1) /\ WinSize \in Nat
    BY <1>2, Constants
  <2>2. startWin \in Int /\ winBase \in Int
    BY <1>3
  <2>3. QED
    BY <2>1, <2>2
<1> HIDE DEF to, base, no, d
<1>5. Mask(to) = Mask(base)
  <2>1. Mask(startWin) = Mask(winBase)
    BY <1>3 DEF Stands
  <2>2. Mask(startWin + d) = Mask(winBase + d)
    BY <1>3, <1>4, <2>1, MaskShift
  <2> DEFINE x == startWin + d
  <2>3. x \in Int /\ to = Mask(x) /\ Mask(x) = Mask(base)
    BY <1>2, <1>4, <2>2
  <2> HIDE DEF x
  <2>4. QED
    BY <2>3, MaskMask
<1>6. base - winBase \in (-(2 * WinSize))..(MaxSeq - 1)
  <2>1. base - winBase = d
    BY <1>2, <1>3, <1>4
  <2>2. d \in (-(2 * WinSize))..(MaxSeq - 1)
    BY <1>4, Constants
  <2>3. QED
    BY <2>1, <2>2
<1>7. no \in 1..WinSize /\ Aimed(to, base, no)
  BY <1>2, <1>3, <1>5, <1>6, MoveAims DEF no
<1>8. fl.last < no
  <2>1. no = WinSize \/ base = winBase + no
    BY <1>7 DEF Aimed
  <2>2. no = WinSize \/ no = d
    BY <1>2, <1>3, <1>4, <1>7, <2>1
  <2>3. QED
    BY <1>4, <2>2, Constants DEF d
<1>9. /\ FlTypes' /\ fl'.pc = "until" /\ fl'.last = fl.last /\ fl'.i = 0
      /\ fl'.to = to /\ fl'.base = base /\ fl'.no = no
  <2>1. no \in 0..WinSize
    BY <1>7, Constants
  <2>2. QED
    BY <1>1, <2>1 DEF Inv, Types, FlTypes, to, base
<1>10. FlShape'
  <2>1. Aimed(fl.to, fl.base, fl.no)'
    BY <1>1, <1>7, <1>9 DEF Aimed
  <2>2. 0 <= no /\ \A j \in Slots : ~(j < 0)
    BY <1>7, Constants
  <2>3. fl.last < no /\ \A j \in Slots : j > fl.last => reorder[j] = NULL
    BY <1>1, <1>8 DEF Inv, FlShape
  <2>4. winBase + fl.last < snd + WinSize
    BY <1>1 DEF Inv, FlShape
  <2>5. QED
    BY <1>1, <1>2, <1>9, <2>1, <2>2, <2>3, <2>4 DEF FlShape, peer
<1>11. QED
  BY <1>1, <1>9, <1>10, FlushWorks

LEMMA FlushUntilStep == ASSUME Inv, ~Overlap, FlushUntil PROVE Inv'
<1> DEFINE i == fl.i
<1>1. /\ rx.pc = "idle" /\ fl.pc = "until" /\ alive /\ Pos = i /\ i < fl.no
      /\ Empty(i) /\ fl' = [fl EXCEPT !.i = i + 1]
      /\ UNCHANGED <<alive, startWin, forceNoDrop, timer, rx, peer, winBase, ahead>>
  BY DEF FlushUntil, LowMay, Inv, Exclusive, Pos
<1>2. i \in 0..WinSize /\ fl.no \in 0..WinSize /\ winBase \in Int
  BY DEF Inv, Types, FlTypes
<1>3. i \in Slots /\ i \in Nat /\ i + 1 \in 0..WinSize /\ i + 1 <= fl.no
  <2> DEFINE no == fl.no
  <2>1. i < no /\ i \in 0..WinSize /\ no \in 0..WinSize
    BY <1>1, <1>2
  <2> HIDE DEF i, no
  <2>2. i \in Slots /\ i \in Nat /\ i + 1 \in 0..WinSize /\ i + 1 <= no
    BY <2>1, Constants
  <2>3. QED
    BY <2>2 DEF no
<1>4. high <= ahead \/ high < winBase + i
  BY <1>1 DEF Inv, OrderShape
<1>5. /\ FlTypes' /\ fl'.pc = "until" /\ fl'.last = fl.last /\ fl'.i = i + 1
      /\ fl'.no = fl.no /\ fl'.to = fl.to /\ fl'.base = fl.base
  <2> HIDE DEF i
  <2>1. QED
    BY <1>1, <1>3 DEF Inv, Types, FlTypes
<1> HIDE DEF i
<1>6. /\ reorder' \in [Slots -> Packets \cup {NULL}]
      /\ \A j \in Slots : reorder'[j] = IF j = i THEN NULL ELSE reorder[j]
      /\ Stored' = Stored \ {i}
      /\ high' \in Int /\ order' # "broken"
      /\ high' <= ahead \/ high' < winBase + (i + 1)
      /\ NothingLost'
  BY <1>1, <1>3, <1>4, EmptyKeeps DEF Inv, OrderShape
<1>7. Types'
  BY <1>1, <1>5, <1>6 DEF Inv, Types, timer, peer, RxTypes
<1>8. Exclusive'
  BY <1>1 DEF Exclusive
<1>9. Sound'
  BY <1>1, <1>6 DEF Inv, Sound, peer
<1>10. Distance'
  BY <1>1 DEF Inv, Distance, peer
<1>11. RxShape'
  BY <1>1 DEF RxShape
<1>12. FlShape'
  <2>1. \A j \in Slots : j < i + 1 => reorder'[j] = NULL
    <3>1. \A j \in Slots : j < i => reorder[j] = NULL
      BY <1>1 DEF Inv, FlShape, i
    <3>2. \A j \in Slots : j < i + 1 => j < i \/ j = i
      BY <1>3, Constants
    <3>3. QED
      BY <1>6, <3>1, <3>2
  <2>2. \A j \in Slots : j > fl.last => reorder'[j] = NULL
    BY <1>1, <1>6 DEF Inv, FlShape
  <2>3. Aimed(fl.to, fl.base, fl.no)'
    BY <1>1, <1>5 DEF Inv, FlShape, Aimed
  <2>4. QED
    BY <1>1, <1>3, <1>5, <2>1, <2>2, <2>3 DEF Inv, FlShape, peer
<1>13. TimerShape'
  BY <1>1, <1>5 DEF Inv, TimerShape, timer
<1>14. OrderShape'
  <2>1. Pos' = i + 1
    BY <1>1, <1>5 DEF Pos
  <2>2. QED
    BY <1>1, <1>6, <2>1 DEF OrderShape
<1>15. QED
  BY <1>6, <1>7, <1>8, <1>9, <1>10, <1>11, <1>12, <1>13, <1>14 DEF Inv

LEMMA FlushMoveStep == ASSUME Inv, ~Overlap, FlushMove PROVE Inv'
<1> DEFINE no == fl.no
           to == fl.to
           base == fl.base
<1>1. /\ rx.pc = "idle" /\ fl.pc = "until" /\ alive /\ Pos = no /\ fl.i = no
      /\ MoveWindow(no, to, base) /\ NoteAhead(to, base) /\ fl' = FlIdle
      /\ UNCHANGED <<alive, forceNoDrop, timer, rx, peer, stack>>
  BY DEF FlushMove, LowMay, Inv, Exclusive, Pos
<1>2. /\ no \in 0..WinSize /\ to \in 0..MaxSeq /\ base \in Int
      /\ fl.last \in Slots /\ winBase \in Int /\ snd \in Nat
      /\ Aimed(to, base, no) /\ base = winBase + fl.last + 1 /\ fl.last < no
      /\ winBase + fl.last < snd + WinSize
      /\ \A j \in Slots : j < no => reorder[j] = NULL
      /\ \A j \in Slots : j > fl.last => reorder[j] = NULL
      /\ winBase <= snd + WinSize /\ snd + WinSize <= winBase + Half
  BY <1>1, Constants DEF Inv, Types, FlTypes, FlShape, Distance
<1>3. high <= ahead \/ high < winBase + no
  BY <1>1 DEF Inv, OrderShape
<1>4. UNCHANGED <<alive, snd, stack>>
  BY <1>1 DEF peer
<1>5. Stored = {}
  <2>1. \A j \in Slots : j < no \/ j > fl.last
    BY <1>2, Constants
  <2>2. QED
    BY <1>2, <2>1 DEF Stored
<1>6. base <= snd + WinSize /\ snd + WinSize <= base + Half
  BY <1>2, Constants
<1> HIDE DEF no, to, base
<1>7. /\ startWin' = to /\ winBase' = base /\ ahead' \in Int
      /\ reorder' \in [Slots -> Packets \cup {NULL}]
      /\ Sound' /\ NothingLost' /\ order' # "broken"
      /\ Stored' = {} <=> Stored = {}
      /\ high' <= ahead' \/ high' < winBase'
  BY <1>1, <1>2, <1>3, <1>4, Moved
<1>8. FlTypes' /\ fl'.pc = "idle"
  BY <1>1, IdleTypes
<1>9. Types'
  BY <1>1, <1>2, <1>4, <1>7, <1>8 DEF Inv, Types, RxTypes, timer, peer, stack
<1>10. Exclusive'
  BY <1>1, <1>8 DEF Exclusive
<1>11. Distance'
  BY <1>1, <1>6, <1>7 DEF Inv, Distance, peer
<1>12. RxShape' /\ FlShape'
  BY <1>1, <1>8 DEF RxShape, FlShape
<1>13. TimerShape'
  BY <1>1, <1>5, <1>7 DEF Inv, TimerShape, timer
<1>14. OrderShape'
  <2>1. Pos' = 0 /\ winBase' + 0 = winBase'
    BY <1>1, <1>2, <1>7, <1>8 DEF Pos
  <2>2. QED
    BY <1>1, <1>7, <2>1 DEF OrderShape
<1>15. QED
  BY <1>7, <1>9, <1>10, <1>11, <1>12, <1>13, <1>14 DEF Inv

\* A step that leaves alone all but stray, or everything.
LEMMA OtherStep ==
  ASSUME Inv, UNCHANGED <<entry, timerIsSet, ticking, flushes, rx, fl, peer,
                          winBase, stack, ahead>>
  PROVE  Inv'
<1>1. Types'
  BY DEF Inv, Types, RxTypes, FlTypes, entry, peer, stack
<1>2. Exclusive' /\ Sound' /\ NothingLost' /\ Distance' /\ OrderShape'
  BY DEF Inv, Exclusive, Stored, Sound, NothingLost, Distance, OrderShape,
         Pos, entry, peer, stack
<1>3. RxShape' /\ FlShape' /\ TimerShape'
  BY DEF Inv, RxShape, FlShape, TimerShape, Aimed, Stored, entry, peer
<1>4. QED
  BY <1>1, <1>2, <1>3 DEF Inv

-----------------------------------------------------------------------------
LEMMA InitInv == Init => Inv
<1> SUFFICES ASSUME Init PROVE Inv
  OBVIOUS
<1>1. /\ First \in Ids /\ 0 \in 0..WinSize /\ 0 \in 0..MaxSeq /\ 0 \in Slots
      /\ First \in First..(Last + 1) /\ First \in Int /\ First - 1 \in Int
      /\ First - 1 <= First - 1
  BY Constants DEF Ids
<1>2. rx = RxIdle /\ fl = FlIdle
  BY DEF Init
<1>3. RxTypes /\ rx.pc = "idle" /\ FlTypes /\ fl.pc = "idle"
  BY <1>1, <1>2 DEF RxIdle, FlIdle, RxTypes, FlTypes
<1>4. Types
  BY <1>1, <1>3 DEF Init, Types
<1>5. Stored = {}
  BY DEF Init, Stored
<1>6. Exclusive /\ Sound /\ RxShape /\ FlShape /\ TimerShape
  BY <1>3, <1>5 DEF Init, Exclusive, Sound, RxShape, FlShape, TimerShape
<1>7. Distance /\ OrderShape
  BY <1>1, <1>3 DEF Init, Distance, OrderShape
<1>8. NothingLost
  BY <1>5, FS_EmptySet DEF Init, NothingLost, Stored
<1>9. QED
  BY <1>4, <1>6, <1>7, <1>8 DEF Inv

\* What the peer sends has arrived by the rules.
LEMMA SentArrives ==
  ASSUME Inv
  PROVE  /\ \A n \in Sent : Arrives("data", n) /\ Arrives("fw", n)
         /\ snd \in Ids => Arrives("bar", snd)
<1>1. snd \in Ids => snd <= snd /\ snd < snd + WinSize
  BY Constants
<1>2. QED
  BY <1>1 DEF Sent, Arrives

LEMMA NextInv == ASSUME Inv, ~Overlap, [Next]_vars PROVE Inv'
<1>1. ASSUME NEW kind, NEW n, Arrives(kind, n), Receive(kind, n) PROVE Inv'
  BY <1>1, StaleStep, AcceptStep DEF Receive
<1>2. ASSUME NEW n \in Sent, Receive("data", n) \/ RxDirect(n) PROVE Inv'
  BY <1>1, <1>2, SentArrives, RxDirectStep
<1>3. ASSUME NEW n \in Sent, Receive("fw", n) PROVE Inv'
  BY <1>1, <1>3, SentArrives
<1>4. ASSUME snd \in Ids, Receive("bar", snd) PROVE Inv'
  BY <1>1, <1>4, SentArrives
<1>5. CASE SetNoDrop \/ CreateAgain \/ Delete \/ Create
  BY <1>5, SetNoDropStep, CreateAgainStep, DeleteStep, CreateStep
<1>6. CASE RxStep
  BY <1>6, RxUntilStep, RxMoveStep, RxStoreStep, RxBarStep, RxScanStep,
     RxScannedStep, RxDoneStep, RxFreeStep DEF RxStep
<1>7. CASE FlushStep
  <2>1. CASE FlushStray
    BY <2>1, OtherStep DEF FlushStray
  <2>2. QED
    BY <1>7, <2>1, FlushBeginStep, FlushFindStep, FlushAimStep, FlushCountStep,
       FlushUntilStep, FlushMoveStep DEF FlushStep
<1>8. CASE TimerExpires \/ PeerMoves
  BY <1>8, TimerExpiresStep, PeerMovesStep
<1>9. CASE UNCHANGED vars
  BY <1>9, OtherStep DEF vars, timer
<1>10. QED
  BY <1>2, <1>3, <1>4, <1>5, <1>6, <1>7, <1>8, <1>9 DEF Next

\* The inductive invariant of mlan_11n_rxreorder.c: the window, the peer's
\* window and what a handler or the flush is about to do to the slots fit
\* together after every step, as long as a flush and a handler never overlap.
THEOREM Invariance == ASSUME ~Overlap PROVE Spec => []Inv
<1>1. Inv /\ [Next]_vars => Inv'
  BY NextInv
<1>2. QED
  BY InitInv, <1>1, PTL DEF Spec

\* When no handler and no flush works on the entry, start_win is the number of
\* the packet the window starts with and rx_reorder_ptr[i] holds, if anything,
\* the packet i after it: SlotOf, StartFor and the rotation never put a packet
\* of one lap of the number space where one of another is looked for.
THEOREM SlotsAreSound == ASSUME ~Overlap PROVE Spec => []SlotSound
<1>1. Inv => SlotSound
  BY DEF Inv, Types, Sound, SlotSound
<1>2. QED
  BY Invariance, <1>1, PTL

\* wlan_11n_dispatch_pkt is called with the packets in the order of their
\* numbers, but for those given up ahead of the window's new start.
THEOREM StackInOrder == ASSUME ~Overlap PROVE Spec => []InOrder
<1>1. Inv => InOrder
  BY DEF Inv, OrderShape, InOrder
<1>2. QED
  BY Invariance, <1>1, PTL

\* mlan_11n_rxreorder_timer_restart at the end of every handler is enough:
\* what a handler leaves in the window has a timer that runs, or whose flush
\* is queued.
THEOREM TimerAlwaysCovers == ASSUME ~Overlap PROVE Spec => []TimerCovers
<1>1. Inv => TimerCovers
  BY DEF Inv, TimerShape, TimerCovers, Stored
<1>2. QED
  BY Invariance, <1>1, PTL

\* A packet is dropped as too old only when it is before the window: the
\* comparisons of mlan_11n_rxreorder_pkt, on numbers modulo MAX_TID_VALUE,
\* never take a packet of the peer's window for one of the past.
THEOREM OnlyOldDropped == ASSUME ~Overlap PROVE Spec => FreshKept
<1> DEFINE Drops == rx.pc = "idle" /\ rx'.pc = "done"
<1>1. ASSUME Inv, [Next]_vars, Drops PROVE rx'.n < winBase
  <2>1. ASSUME NEW kind, NEW n, Arrives(kind, n), Receive(kind, n)
        PROVE  rx'.n < winBase
    <3>1. CASE RxStale(kind, n)
      <4>1. rx'.n = n
        BY <3>1 DEF RxStale, RxIdle
      <4>2. QED
        BY <1>1, <2>1, <3>1, <4>1, StaleStep
    <3>2. CASE RxAccept(kind, n)
      BY <1>1, <3>2 DEF RxAccept, RxIdle
    <3>3. QED
      BY <2>1, <3>1, <3>2 DEF Receive
  <2>2. ASSUME NEW n \in Sent, Receive("data", n) \/ RxDirect(n)
        PROVE  rx'.n < winBase
    BY <1>1, <2>1, <2>2, SentArrives DEF RxDirect
  <2>3. ASSUME NEW n \in Sent, Receive("fw", n) PROVE rx'.n < winBase
    BY <1>1, <2>1, <2>3, SentArrives
  <2>4. ASSUME snd \in Ids, Receive("bar", snd) PROVE rx'.n < winBase
    BY <1>1, <2>1, <2>4, SentArrives
  <2>5. ~(SetNoDrop \/ CreateAgain \/ Delete \/ Create)
    <3>1. ~SetNoDrop /\ ~Create
      BY <1>1 DEF SetNoDrop, Create
    <3>2. ~CreateAgain
      BY <1>1 DEF CreateAgain, RxIdle
    <3>3. ~Delete
      BY <1>1 DEF Delete, RxIdle
    <3>4. QED
      BY <3>1, <3>2, <3>3
  <2>6. ~RxStep
    BY <1>1 DEF RxStep, RxUntil, RxMove, RxStore, RxBar, RxScan, RxScanned,
                RxDone, RxFree
  <2>7. ~(TimerExpires \/ FlushStep \/ PeerMoves)
    BY <1>1, Zenon DEF TimerExpires, FlushStep, FlushBegin, FlushFind, FlushAim,
                FlushCount, FlushUntil, FlushMove, FlushStray, PeerMoves
  <2>8. ~UNCHANGED vars
    BY <1>1 DEF vars
  <2>9. QED
    BY <1>1, <2>2, <2>3, <2>4, <2>5, <2>6, <2>7, <2>8 DEF Next
<1>2. Inv /\ [Next]_vars =>
        [\A n \in Ids : rx.pc = "idle" /\ rx'.pc = "done" /\ rx'.n = n
                          => n < winBase]_vars
  BY <1>1
<1>3. QED
  BY Invariance, <1>2, PTL DEF Spec, FreshKept

-----------------------------------------------------------------------------
(***************************************************************************)
(* The slots implement ReorderWindow.                                      *)
(***************************************************************************)
Waiting == {reorder[i] : i \in Slots} \ {NULL}

\* What waits in a window is known by its slot.
LEMMA WaitsInSlot ==
  ASSUME Types, Sound, alive
  PROVE  /\ \A p \in Waiting : \E i \in Slots : p = reorder[i] /\ p # NULL
         /\ \A i \in Slots : reorder[i] # NULL =>
              /\ reorder[i] \in Waiting /\ reorder[i][1] = winBase + i
              /\ \A j \in Slots : reorder[j] = reorder[i] => j = i
<1>1. winBase \in Int /\ \A i \in Slots : i \in Int
  BY Constants DEF Types
<1>2. ASSUME NEW i \in Slots, reorder[i] # NULL, NEW j \in Slots,
             reorder[j] = reorder[i]
      PROVE  j = i
  <2>1. reorder[i][1] = winBase + i /\ reorder[j][1] = winBase + j
    BY <1>2 DEF Sound
  <2>2. winBase + i = winBase + j
    BY <1>2, <2>1
  <2>3. winBase \in Int /\ i \in Int /\ j \in Int
    BY <1>1
  <2>4. QED
    BY <2>2, <2>3
<1>3. QED
  BY <1>2 DEF Waiting, Sound

\* A slot is emptied, the ones before it are empty.
LEMMA WindowEmpties ==
  ASSUME Inv, alive, NEW i \in Slots, Empty(i),
         \A j \in Slots : j < i => reorder[j] = NULL,
         UNCHANGED <<alive, winBase>>
  PROVE  [Window!Next]_(Window!vars)
<1> DEFINE p == reorder[i]
<1>1. /\ reorder' = [reorder EXCEPT ![i] = NULL]
      /\ IF IsData(p) THEN GiveToStack(p[1]) ELSE UNCHANGED <<high, order>>
  BY DEF Empty
<1>2. /\ reorder \in [Slots -> Packets \cup {NULL}] /\ winBase \in Int
      /\ \A j \in Slots : j \in Int
  BY Constants DEF Inv, Types
<1>3. CASE p = NULL
  <2>1. reorder' = reorder
    BY <1>1, <1>2, <1>3
  <2>2. high' = high
    BY <1>1, <1>3 DEF IsData
  <2>3. QED
    BY <2>1, <2>2 DEF Window!vars
<1>4. CASE p # NULL
  <2>1. /\ p \in Waiting /\ p[1] = winBase + i
        /\ \A j \in Slots : reorder[j] = p => j = i
    BY <1>4, WaitsInSlot DEF Inv
  <2>2. ASSUME NEW q \in Waiting PROVE p[1] <= q[1]
    <3>1. PICK j \in Slots : q = reorder[j] /\ q # NULL
      BY WaitsInSlot DEF Inv
    <3>2. q[1] = winBase + j /\ ~(j < i)
      BY <3>1, WaitsInSlot DEF Inv
    <3>3. winBase + i <= winBase + j
      BY <1>2, <3>2
    <3>4. QED
      BY <2>1, <3>2, <3>3
  <2>3. Waiting' = Waiting \ {p}
    <3>1. \A j \in Slots : reorder'[j] = IF j = i THEN NULL ELSE reorder[j]
      BY <1>1, <1>2
    <3> HIDE DEF p
    <3>2. ASSUME NEW q PROVE q \in Waiting' <=> q \in Waiting \ {p}
      BY <1>4, <2>1, <3>1 DEF Waiting, p
    <3>3. QED
      BY <3>2
  <2>4. high' = IF p[2] = "data" /\ p[1] > high THEN p[1] ELSE high
    BY <1>1, <1>4 DEF IsData, GiveToStack
  <2> HIDE DEF p
  <2>5. Window!Leave(p)
    BY <2>2, <2>3, <2>4 DEF Window!Leave, Waiting
  <2>6. \E q \in Waiting : Window!Leave(q)
    BY <2>1, <2>5 DEF Window!Leave
  <2>7. QED
    BY <2>6 DEF Window!Next, Waiting
<1>5. QED
  BY <1>3, <1>4

\* The window is moved.
LEMMA WindowMoves ==
  ASSUME Inv, Inv', alive, NEW k \in 0..WinSize, NEW to, NEW base,
         \A j \in Slots : j < k => reorder[j] = NULL,
         MoveWindow(k, to, base), UNCHANGED <<alive, high>>
  PROVE  Window!Move
<1>1. reorder \in [Slots -> Packets \cup {NULL}] /\ winBase' \in Int
  BY DEF Inv, Types
<1>2. reorder' = Rotated(k)
  BY DEF MoveWindow
<1>3. /\ \A i \in Slots : reorder'[i] # NULL =>
           i + k \in Slots /\ reorder'[i] = reorder[i + k]
      /\ \A j \in Slots : reorder[j] # NULL =>
           j - k \in Slots /\ reorder'[j - k] = reorder[j]
  BY <1>1, <1>2, Rotation
<1>4. ASSUME NEW q PROVE q \in Waiting' <=> q \in Waiting
  <2>1. ASSUME q \in Waiting' PROVE q \in Waiting
    BY <1>3, <2>1 DEF Waiting
  <2>2. ASSUME q \in Waiting PROVE q \in Waiting'
    BY <1>3, <2>2 DEF Waiting
  <2>3. QED
    BY <2>1, <2>2
<1>5. Waiting' = Waiting
  BY <1>4
<1>6. ASSUME NEW q \in Waiting' PROVE q[1] \in winBase'..(winBase' + WinSize - 1)
  <2>1. PICK i \in Slots : q = reorder'[i] /\ q # NULL
    BY DEF Waiting
  <2>2. q[1] = winBase' + i
    BY <2>1 DEF Inv, Sound
  <2> DEFINE b == winBase'
  <2>3. b \in Int /\ q[1] = b + i /\ i \in 0..(WinSize - 1)
    BY <1>1, <2>2, Constants
  <2> HIDE DEF b
  <2>4. q[1] \in b..(b + WinSize - 1)
    BY <2>3, Constants
  <2>5. QED
    BY <2>4 DEF b
<1>7. QED
  BY <1>1, <1>5, <1>6 DEF Window!Move, Window!Within, Waiting

\* A packet is put into its slot.
LEMMA WindowStores ==
  ASSUME Inv, RxStore
  PROVE  [Window!Next]_(Window!vars)
<1> DEFINE d == rx.n - winBase
           p == <<rx.n, rx.kind>>
<1>1. /\ rx.pc = "store" /\ rx.kind # "bar" /\ alive /\ rx.to = startWin
      /\ rx.kind \in {"data", "fw"} /\ d \in Slots
      /\ UNCHANGED <<alive, winBase, high>>
  BY DEF RxStore, Inv, Exclusive, RxShape
<1>2. /\ Stands /\ rx.n \in Ids /\ rx.n \in Int /\ winBase \in Int
      /\ reorder \in [Slots -> Packets \cup {NULL}]
  <2>1. Stands
    BY <1>1, WindowStands DEF Inv
  <2>2. /\ rx.n \in Ids /\ winBase \in Int
        /\ reorder \in [Slots -> Packets \cup {NULL}]
    BY DEF Inv, Types, RxTypes
  <2>3. \A m \in Ids : m \in Int
    BY Constants
  <2>4. QED
    BY <2>1, <2>2, <2>3
<1>3. winBase + d = rx.n
  BY <1>2
<1>4. SlotOf(Mask(rx.n), rx.to) = d
  <2> HIDE DEF d
  <2>1. SlotOf(Mask(winBase + d), startWin) = d
    BY <1>1, <1>2, SlotMeans
  <2>2. QED
    BY <1>1, <1>3, <2>1
<1>5. IF reorder[d] = NULL THEN reorder' = [reorder EXCEPT ![d] = p]
      ELSE reorder' = reorder
  BY <1>4 DEF RxStore
<1>6. p \in Packets /\ p # NULL /\ p[1] = rx.n
  BY <1>1, <1>2, NullIsNoPacket DEF Packets
<1>7. rx.n \in winBase..(winBase + WinSize - 1)
  BY <1>1, <1>2, Constants
<1> HIDE DEF d
<1>8. CASE reorder[d] = NULL
  <2>1. \A j \in Slots : reorder'[j] = IF j = d THEN p ELSE reorder[j]
    BY <1>1, <1>2, <1>5, <1>8
  <2>2. ASSUME NEW q \in Waiting PROVE q[1] # p[1]
    <3>1. PICK j \in Slots : q = reorder[j] /\ q # NULL
      BY <1>1, WaitsInSlot DEF Inv
    <3>2. q[1] = winBase + j /\ j # d /\ j \in Int /\ d \in Int
      BY <1>1, <1>8, <3>1, WaitsInSlot, Constants DEF Inv
    <3>3. QED
      BY <1>2, <1>3, <1>6, <3>2
  <2> HIDE DEF p
  <2>3. ASSUME NEW q PROVE q \in Waiting' <=> q \in Waiting \cup {p}
    BY <1>1, <1>6, <1>8, <2>1 DEF Waiting
  <2>4. Waiting' = Waiting \cup {p}
    BY <2>3
  <2>5. Window!Store(p)
    BY <1>1, <1>6, <1>7, <2>2, <2>4 DEF Window!Store, Window!Within, Waiting
  <2>6. \E n \in winBase..(winBase + WinSize - 1), kind \in {"data", "fw"} :
          Window!Store(<<n, kind>>)
    BY <1>1, <1>7, <2>5 DEF p, Window!Store
  <2>7. QED
    BY <2>6 DEF Window!Next, Window!Within
<1>9. CASE reorder[d] # NULL
  BY <1>1, <1>5, <1>9 DEF Window!vars
<1>10. QED
  BY <1>8, <1>9

\* The slots below the index of whoever empties the window are empty.
LEMMA WindowHandled ==
  ASSUME Inv, Inv', ~Overlap, RxStep
  PROVE  [Window!Next]_(Window!vars)
<1>1. rx.i \in 0..WinSize /\ rx.no \in 0..WinSize
  BY DEF Inv, Types, RxTypes
<1>2. rx.pc # "idle" => alive
  BY DEF Inv, Exclusive
<1>3. CASE RxUntil
  <2>1. /\ alive /\ rx.i < rx.no /\ Empty(rx.i)
        /\ \A j \in Slots : j < rx.i => reorder[j] = NULL
        /\ UNCHANGED <<alive, winBase>>
    BY <1>2, <1>3 DEF RxUntil, Inv, RxShape
  <2>2. rx.i \in Slots
    BY <1>1, <2>1, Constants
  <2>3. QED
    BY <2>1, <2>2, WindowEmpties
<1>4. CASE RxScan
  <2>1. /\ alive /\ rx.i < WinSize /\ Empty(rx.i)
        /\ \A j \in Slots : j < rx.i => reorder[j] = NULL
        /\ UNCHANGED <<alive, winBase>>
    BY <1>2, <1>4 DEF RxScan, Inv, RxShape
  <2>2. rx.i \in Slots
    BY <1>1, <2>1, Constants
  <2>3. QED
    BY <2>1, <2>2, WindowEmpties
<1>5. CASE RxMove
  <2>1. /\ alive /\ MoveWindow(rx.no, rx.to, rx.base)
        /\ \A j \in Slots : j < rx.no => reorder[j] = NULL
        /\ UNCHANGED <<alive, high>>
    BY <1>2, <1>5 DEF RxMove, Inv, RxShape, stack
  <2>2. Window!Move
    BY <1>1, <2>1, WindowMoves
  <2>3. QED
    BY <2>2 DEF Window!Next
<1>6. CASE RxScanned
  <2>1. /\ alive
        /\ MoveWindow(rx.i, Mask(startWin + rx.i), winBase + rx.i)
        /\ \A j \in Slots : j < rx.i => reorder[j] = NULL
        /\ UNCHANGED <<alive, high>>
    BY <1>2, <1>6 DEF RxScanned, Inv, RxShape, stack
  <2>2. Window!Move
    BY <1>1, <2>1, WindowMoves
  <2>3. QED
    BY <2>2 DEF Window!Next
<1>7. CASE RxFree
  <2>1. /\ alive /\ alive' = FALSE /\ Stored = {}
        /\ UNCHANGED <<reorder, winBase, high>>
    BY <1>2, <1>7 DEF RxFree, Inv, RxShape, stack
  <2>2. Waiting = {}
    BY <2>1 DEF Waiting, Stored
  <2>3. Window!Close
    BY <2>1, <2>2 DEF Window!Close, Waiting
  <2>4. QED
    BY <2>3 DEF Window!Next
<1>8. CASE RxBar \/ RxDone
  BY <1>8 DEF RxBar, RxDone, entry, stack, Window!vars
<1>9. QED
  BY <1>3, <1>4, <1>5, <1>6, <1>7, <1>8, WindowStores DEF RxStep

LEMMA WindowFlushed ==
  ASSUME Inv, Inv', ~Overlap, FlushStep
  PROVE  [Window!Next]_(Window!vars)
<1>1. fl.i \in 0..WinSize /\ fl.no \in 0..WinSize
  BY DEF Inv, Types, FlTypes
<1>2. fl.pc = "until" => alive
  BY DEF Inv, Exclusive
<1>3. CASE FlushUntil
  <2>1. /\ alive /\ fl.i < fl.no /\ Empty(fl.i)
        /\ \A j \in Slots : j < fl.i => reorder[j] = NULL
        /\ UNCHANGED <<alive, winBase>>
    BY <1>2, <1>3 DEF FlushUntil, Inv, FlShape
  <2>2. fl.i \in Slots
    BY <1>1, <2>1, Constants
  <2>3. QED
    BY <2>1, <2>2, WindowEmpties
<1>4. CASE FlushMove
  <2>1. /\ alive /\ MoveWindow(fl.no, fl.to, fl.base)
        /\ \A j \in Slots : j < fl.no => reorder[j] = NULL
        /\ UNCHANGED <<alive, high>>
    BY <1>2, <1>4 DEF FlushMove, Inv, FlShape, stack
  <2>2. Window!Move
    BY <1>1, <2>1, WindowMoves
  <2>3. QED
    BY <2>2 DEF Window!Next
<1>5. CASE FlushBegin \/ FlushFind \/ FlushAim \/ FlushCount \/ FlushStray
  BY <1>5 DEF FlushBegin, FlushFind, FlushAim, FlushCount, FlushStray, entry,
              stack, Window!vars
<1>6. QED
  BY <1>3, <1>4, <1>5 DEF FlushStep

LEMMA WindowStep ==
  ASSUME Inv, Inv', ~Overlap, [Next]_vars
  PROVE  [Window!Next]_(Window!vars)
<1>1. ASSUME NEW kind, NEW n, Receive(kind, n)
      PROVE  [Window!Next]_(Window!vars)
  BY <1>1 DEF Receive, RxStale, RxAccept, Handle, stack, Window!vars
<1>2. ASSUME NEW n \in Sent, RxDirect(n) PROVE [Window!Next]_(Window!vars)
  <2>1. /\ ~alive /\ GiveToStack(n)
        /\ UNCHANGED <<alive, reorder, winBase>>
    BY <1>2 DEF RxDirect, entry
  <2>2. n \in Int /\ high \in Int
    BY Constants DEF Sent, Inv, Types
  <2>3. high' \in Int /\ high' >= high
    BY <2>1, <2>2 DEF GiveToStack
  <2>4. Window!Pass
    BY <2>1, <2>3 DEF Window!Pass
  <2>5. QED
    BY <2>4 DEF Window!Next
<1>3. CASE Create
  <2>1. /\ ~alive /\ alive' = TRUE /\ high' = high /\ Stored = {}
        /\ reorder' = [i \in Slots |-> NULL]
    BY <1>3 DEF Create, Inv, Exclusive, stack
  <2>2. Waiting = {} /\ Waiting' = {}
    BY <2>1 DEF Waiting, Stored
  <2>3. winBase' \in Int
    BY DEF Inv, Types
  <2>4. Window!Open
    BY <2>1, <2>2, <2>3 DEF Window!Open, Waiting
  <2>5. QED
    BY <2>4 DEF Window!Next
<1>4. CASE SetNoDrop \/ CreateAgain \/ Delete
  BY <1>4 DEF SetNoDrop, CreateAgain, Delete, entry, stack, Window!vars
<1>5. CASE TimerExpires \/ PeerMoves \/ UNCHANGED vars
  BY <1>5 DEF TimerExpires, PeerMoves, vars, entry, stack, Window!vars
<1>6. QED
  BY <1>1, <1>2, <1>3, <1>4, <1>5, WindowHandled, WindowFlushed DEF Next

\* WindowSpec: whatever handlers, commands and flushes do to the slots, and
\* wherever the numbers wrap, the slots are a set of packets within the window
\* that it never moves away from, and that leave it with the least first.
THEOREM ImplementsWindow == ASSUME ~Overlap PROVE Spec => WindowSpec
<1>1. Init => Window!Init
  <2> SUFFICES ASSUME Init PROVE Window!Init
    OBVIOUS
  <2>1. {reorder[i] : i \in Slots} \ {NULL} = {}
    BY DEF Init
  <2>2. alive = FALSE /\ winBase \in Int /\ high \in Int
    BY Constants DEF Init
  <2>3. QED
    BY <2>1, <2>2 DEF Window!Init
<1>2. Inv /\ Inv' /\ [Next]_vars => [Window!Next]_(Window!vars)
  BY WindowStep
<1>3. QED
  BY <1>1, <1>2, Invariance, PTL DEF Spec, WindowSpec, Window!Spec

-----------------------------------------------------------------------------
(***************************************************************************)
(* A flush and handlers in any overlap.  The run of RxOverlap.cfg loses a  *)
(* packet then; what follows is that there is one way only to lose one.    *)
(***************************************************************************)
\* A thread moves the window past a slot that holds a packet: the other thread
\* stored it there, or rotated it there, after the first had emptied the slot.
StaleMove ==
  \/ RxMove /\ \E i \in Slots : i < rx.no /\ reorder[i] # NULL
  \/ RxScanned /\ \E i \in Slots : i < rx.i /\ reorder[i] # NULL
  \/ FlushMove /\ \E i \in Slots : i < fl.no /\ reorder[i] # NULL

\* The slot of packet n in a window that starts at to is one of the array.
Fits(n, to) == SlotOf(Mask(n), to) \in Slots

\* What a handler has settled before it stores a packet or frees the entry, and
\* what no step of a flush takes from it.
Settled ==
  /\ rx.pc # "idle" => alive
  /\ ~alive \/ rx.pc = "free" => Stored = {}
  /\ rx.pc = "until" /\ rx.kind = "delba" => rx.no = WinSize
  /\ rx.pc \in {"until", "store"} /\ rx.kind \in {"data", "fw"} =>
       Fits(rx.n, rx.to)
  /\ rx.pc = "store" => rx.kind \in {"data", "bar", "fw"}

Whole == Types /\ Settled /\ NothingLost

\* A number that is not outside the window has a slot in it.
LEMMA InsideFits ==
  ASSUME NEW q \in 0..(MaxSeq - 1), startWin \in 0..MaxSeq, ~Outside(q)
  PROVE  SlotOf(q, startWin) \in Slots
<1> DEFINE s == startWin
           e == EndWin
<1>1. s \in 0..MaxSeq
  OBVIOUS
<1>2. e = IF s + WinSize - 1 < MaxSeq THEN s + WinSize - 1
          ELSE s + WinSize - 1 - MaxSeq
  <2> DEFINE x == s + WinSize - 1
  <2>1. x \in (-MaxSeq)..(2 * MaxSeq - 1) /\ ~(x < 0)
    BY <1>1, Constants
  <2>2. e = Mask(x)
    BY DEF EndWin
  <2> HIDE DEF x, e
  <2>3. Mask(x) = IF x < MaxSeq THEN x ELSE x - MaxSeq
    BY <2>1, MaskNear
  <2>4. QED
    BY <1>1, <2>2, <2>3, Constants DEF x
<1>3. ~(e < s /\ q < s /\ q > e) /\ ~(e > s /\ (q > e \/ q < s))
  BY DEF Outside
<1>4. SlotOf(q, s) = IF q >= s THEN q - s ELSE q + MaxSeq - s
  BY DEF SlotOf
<1> HIDE DEF s, e
<1>5. SlotOf(q, s) \in Slots
  <2>1. CASE s + WinSize - 1 < MaxSeq
    BY <1>1, <1>2, <1>3, <1>4, <2>1, Constants
  <2>2. CASE ~(s + WinSize - 1 < MaxSeq)
    BY <1>1, <1>2, <1>3, <1>4, <2>2, Constants
  <2>3. QED
    BY <2>1, <2>2
<1>6. QED
  BY <1>5 DEF s

\* A packet that moves the window has the last slot of the window it makes.
LEMMA LastFits ==
  ASSUME NEW q \in 0..(MaxSeq - 1)
  PROVE  SlotOf(q, StartFor(q)) \in Slots
<1> DEFINE to == StartFor(q)
<1>1. to = IF q - WinSize + 1 >= 0 THEN q - WinSize + 1
           ELSE q + MaxSeq - WinSize + 1
  BY Constants DEF StartFor
<1>2. SlotOf(q, to) = IF q >= to THEN q - to ELSE q + MaxSeq - to
  BY DEF SlotOf
<1> HIDE DEF to
<1>3. SlotOf(q, to) \in Slots
  BY <1>1, <1>2, Constants
<1>4. QED
  BY <1>3 DEF to

\* No more slots are emptied than there are.
LEMMA CountFits ==
  ASSUME NEW to \in Int, startWin \in 0..MaxSeq
  PROVE  NoPktToSend(to) \in 0..WinSize
<1> DEFINE s == startWin
           k == NoPktToSend(to)
<1>1. k = IF to > s THEN (IF to - s < WinSize THEN to - s ELSE WinSize)
          ELSE WinSize
  BY DEF NoPktToSend
<1>2. s \in Int
  BY Constants
<1> HIDE DEF s, k
<1>3. k \in 0..WinSize
  BY <1>1, <1>2, Constants
<1>4. QED
  BY <1>3 DEF k

\* The count of payloads follows a slot that is emptied.
LEMMA EmptyCounts ==
  ASSUME Types, NothingLost, NEW i \in Slots, Empty(i)
  PROVE  /\ reorder' \in [Slots -> Packets \cup {NULL}]
         /\ Stored' = Stored \ {i} /\ high' \in Int /\ NothingLost'
<1>a. /\ reorder \in [Slots -> Packets \cup {NULL}] /\ high \in Int
  BY DEF Types
<1>b. /\ reorder' = [reorder EXCEPT ![i] = NULL]
      /\ IF IsData(reorder[i]) THEN GiveToStack(reorder[i][1])
         ELSE UNCHANGED <<high, order>>
      /\ held' = IF reorder[i] = NULL THEN held ELSE held - 1
  BY DEF Empty
<1>1. /\ reorder' \in [Slots -> Packets \cup {NULL}]
      /\ Stored' = Stored \ {i}
  BY <1>a, <1>b DEF Stored
<1>2. high' \in Int
  <2>1. CASE IsData(reorder[i])
    <3>1. reorder[i] \in Packets
      BY <1>a, <2>1 DEF IsData
    <3>2. reorder[i][1] \in Ids
      BY <3>1 DEF Packets
    <3> DEFINE n == reorder[i][1]
    <3>3. n \in Int
      <4>1. \A m \in Ids : m \in Int
        BY Constants
      <4>2. QED
        BY <3>2, <4>1
    <3>4. QED
      <4>1. high' = IF n > high THEN n ELSE high
        BY <1>b, <2>1 DEF GiveToStack
      <4> HIDE DEF n
      <4>2. QED
        BY <1>a, <3>3, <4>1
  <2>2. CASE ~IsData(reorder[i])
    BY <1>a, <1>b, <2>2
  <2>3. QED
    BY <2>1, <2>2
<1>3. NothingLost'
  <2>1. held = Cardinality(Stored) /\ Cardinality(Stored) \in Nat
    BY StoredFinite, FS_CardinalityType DEF NothingLost, Stored
  <2>2. Cardinality(Stored') = IF i \in Stored THEN Cardinality(Stored) - 1
                                ELSE Cardinality(Stored)
    BY <1>1, StoredFinite, FS_RemoveElement
  <2>3. i \in Stored <=> reorder[i] # NULL
    BY DEF Stored
  <2>4. held' = Cardinality(Stored')
    BY <1>b, <2>1, <2>2, <2>3
  <2>5. QED
    BY <2>4 DEF NothingLost, Stored
<1>4. QED
  BY <1>1, <1>2, <1>3


LEMMA SettledStays ==
  ASSUME Settled, UNCHANGED <<alive, rx>>, Stored = {} => Stored' = {}
  PROVE  Settled'
  BY DEF Settled, Fits

\* A handler begins, whatever the flush does.
LEMMA WholeBegins ==
  ASSUME Whole, alive, RxTypes', rx'.pc \in {"until", "store", "done"},
         UNCHANGED <<alive, startWin, reorder, timer, fl, snd, winBase, stack,
                     ahead>>,
         forceNoDrop' \in BOOLEAN, rxLast' \in Ids \cup {NULL},
         rx'.pc = "until" /\ rx'.kind = "delba" => rx'.no = WinSize,
         rx'.pc \in {"until", "store"} /\ rx'.kind \in {"data", "fw"} =>
           Fits(rx'.n, rx'.to),
         rx'.pc = "store" => rx'.kind \in {"data", "bar", "fw"}
  PROVE  Whole'
<1>1. Types'
  BY DEF Whole, Types, timer, stack, FlTypes
<1>2. Settled'
  BY DEF Settled, Fits
<1>3. NothingLost'
  BY DEF Whole, NothingLost, stack
<1>4. QED
  BY <1>1, <1>2, <1>3 DEF Whole

LEMMA WholeReceives ==
  ASSUME Whole, NEW kind \in {"data", "bar", "fw"}, NEW n \in Ids,
         Receive(kind, n)
  PROVE  Whole'
<1> DEFINE seq == SeqOf(kind, n)
           to == StartFor(seq)
           base == IF kind = "bar" THEN n ELSE n - WinSize + 1
           started == [RxIdle EXCEPT !.kind = kind, !.n = n, !.prev = startWin]
<1>1. /\ alive
      /\ UNCHANGED <<alive, startWin, reorder, timer, fl, snd, winBase, stack,
                     ahead>>
      /\ rxLast' = IF kind = "data" THEN n ELSE rxLast
  BY DEF Receive, RxStale, RxAccept, Handle
<1>2. /\ startWin \in 0..MaxSeq /\ n \in Int
      /\ rxLast' \in Ids \cup {NULL} /\ forceNoDrop \in BOOLEAN
      /\ kind \in {"data", "bar", "fw", "addba", "delba"}
      /\ 0 \in 0..WinSize /\ 0 \in 0..MaxSeq
  BY <1>1, Constants DEF Whole, Types
<1>3. CASE RxStale(kind, n)
  <2>1. rx' = Started("done", kind, n, 0, 0, 0, startWin)
    BY <1>3 DEF RxStale, RxIdle, Started
  <2>2. RxTypes' /\ rx'.pc = "done"
    BY <1>2, <2>1, StartedTypes
  <2>3. forceNoDrop' \in BOOLEAN
    BY <1>2, <1>3 DEF RxStale
  <2>4. QED
    BY <1>1, <1>2, <2>2, <2>3, WholeBegins
<1>4. CASE RxAccept(kind, n)
  <2>1. /\ forceNoDrop' = FALSE
        /\ rx' = IF Outside(seq)
                 THEN [started EXCEPT !.pc = "until", !.to = to, !.base = base,
                                      !.no = NoPktToSend(to)]
                 ELSE [started EXCEPT !.pc = "store", !.to = startWin]
    BY <1>4 DEF RxAccept
  <2>2. /\ to \in 0..(MaxSeq - 1) /\ base \in Int
        /\ kind # "bar" => seq = Mask(n) /\ seq \in 0..(MaxSeq - 1)
    <3>1. CASE kind = "bar"
      <4> DEFINE m == Mask(n)
                 e == m + WinSize - 1
      <4>1. e \in Int
        BY <1>2, MaskSplit, Constants
      <4>2. seq = Mask(e)
        BY <3>1 DEF SeqOf
      <4> HIDE DEF e, seq
      <4>3. StartFor(Mask(e)) \in 0..(MaxSeq - 1)
        BY <4>1, StartForMeans
      <4>4. QED
        BY <1>2, <3>1, <4>2, <4>3
    <3>2. CASE kind # "bar"
      <4>1. seq = Mask(n)
        BY <3>2 DEF SeqOf
      <4> HIDE DEF seq
      <4>2. StartFor(Mask(n)) \in 0..(MaxSeq - 1) /\ Mask(n) \in 0..(MaxSeq - 1)
        BY <1>2, StartForMeans, MaskSplit
      <4>3. n - WinSize + 1 \in Int
        BY <1>2, Constants
      <4>4. QED
        BY <3>2, <4>1, <4>2, <4>3
    <3>3. QED
      BY <3>1, <3>2
  <2>3. CASE Outside(seq)
    <3>1. rx' = Started("until", kind, n, NoPktToSend(to), to, base, startWin)
      BY <2>1, <2>3 DEF RxIdle, Started
    <3>2. kind # "bar" => Fits(n, to)
      <4> HIDE DEF seq
      <4>1. kind # "bar" => SlotOf(seq, StartFor(seq)) \in Slots
        BY <2>2, LastFits
      <4>2. QED
        BY <2>2, <4>1 DEF Fits
    <3> HIDE DEF to, base
    <3>3. to \in 0..MaxSeq /\ to \in Int
      BY <2>2, Constants
    <3> DEFINE no == NoPktToSend(to)
    <3>4. no \in 0..WinSize
      BY <1>2, <3>3, CountFits
    <3> HIDE DEF no
    <3>5. /\ RxTypes' /\ rx'.pc = "until" /\ rx'.kind = kind /\ rx'.n = n
          /\ rx'.to = to
      <4>1. rx' = Started("until", kind, n, no, to, base, startWin)
        BY <3>1 DEF no
      <4>2. /\ kind \in {"data", "bar", "fw", "addba", "delba"}
            /\ to \in 0..MaxSeq /\ base \in Int /\ startWin \in 0..MaxSeq
        BY <1>2, <2>2, <3>3
      <4> HIDE DEF seq, started
      <4>3. QED
        BY <3>4, <4>1, <4>2, StartedTypes
    <3>6. QED
      BY <1>1, <1>2, <2>1, <3>2, <3>5, WholeBegins
  <2>4. CASE ~Outside(seq)
    <3>1. rx' = Started("store", kind, n, 0, startWin, 0, startWin)
      BY <2>1, <2>4 DEF RxIdle, Started
    <3>2. kind # "bar" => Fits(n, startWin)
      <4> HIDE DEF seq
      <4>1. kind # "bar" => SlotOf(seq, startWin) \in Slots
        BY <1>2, <2>2, <2>4, InsideFits
      <4>2. QED
        BY <2>2, <4>1 DEF Fits
    <3>3. /\ RxTypes' /\ rx'.pc = "store" /\ rx'.kind = kind /\ rx'.n = n
          /\ rx'.to = startWin
      BY <1>2, <3>1, StartedTypes
    <3>4. QED
      BY <1>1, <1>2, <2>1, <3>2, <3>3, WholeBegins
  <2>5. QED
    BY <2>3, <2>4
<1>5. QED
  BY <1>3, <1>4 DEF Receive

\* The stream is asked for again, or given up.
LEMMA WholeAsks == ASSUME Whole, CreateAgain \/ Delete PROVE Whole'
<1> DEFINE x == startWin + WinSize
<1>1. /\ alive
      /\ UNCHANGED <<alive, startWin, reorder, forceNoDrop, timer, fl, snd,
                     rxLast, winBase, stack, ahead>>
      /\ \/ rx' = Started("until", "addba", First, NoPktToSend(Mask(snd)),
                          Mask(snd), snd, 0)
         \/ rx' = Started("until", "delba", First, NoPktToSend(Mask(x)),
                          Mask(x), winBase + WinSize, 0)
  BY DEF CreateAgain, Delete, RxIdle, Started, entry, peer
<1>2. /\ snd \in Int /\ startWin \in 0..MaxSeq /\ winBase + WinSize \in Int
      /\ x \in Int /\ First \in Ids /\ 0 \in 0..MaxSeq
      /\ forceNoDrop' \in BOOLEAN /\ rxLast' \in Ids \cup {NULL}
  BY <1>1, Constants DEF Whole, Types, Ids
<1>3. CASE rx' = Started("until", "addba", First, NoPktToSend(Mask(snd)),
                         Mask(snd), snd, 0)
  <2> DEFINE to == Mask(snd)
  <2>1. to \in 0..MaxSeq /\ to \in Int
    <3>1. to \in 0..(MaxSeq - 1)
      BY <1>2, MaskSplit
    <3> HIDE DEF to
    <3>2. QED
      BY <3>1, Constants
  <2>2. rx' = Started("until", "addba", First, NoPktToSend(to), to, snd, 0)
    BY <1>3
  <2> HIDE DEF to
  <2>3. NoPktToSend(to) \in 0..WinSize
    BY <1>2, <2>1, CountFits
  <2>4. RxTypes' /\ rx'.pc = "until" /\ rx'.kind = "addba"
    BY <1>2, <2>1, <2>2, <2>3, StartedTypes
  <2>5. QED
    BY <1>1, <1>2, <2>4, WholeBegins
<1>4. CASE rx' = Started("until", "delba", First, NoPktToSend(Mask(x)),
                         Mask(x), winBase + WinSize, 0)
  <2> DEFINE to == Mask(x)
  <2>1. to = (IF x < MaxSeq THEN x ELSE x - MaxSeq) /\ to \in 0..MaxSeq
    <3>1. x \in (-MaxSeq)..(2 * MaxSeq - 1) /\ ~(x < 0)
      BY <1>2, Constants
    <3> HIDE DEF x
    <3>2. to = IF x < MaxSeq THEN x ELSE x - MaxSeq
      BY <3>1, MaskNear
    <3>3. QED
      BY <3>1, <3>2, Constants
  <2>2. rx' = Started("until", "delba", First, NoPktToSend(to), to,
                      winBase + WinSize, 0)
    BY <1>4
  <2> HIDE DEF to
  <2>3. NoPktToSend(to) = WinSize
    <3>1. to > startWin => ~(to - startWin < WinSize)
      BY <1>2, <2>1, Constants
    <3>2. QED
      BY <3>1 DEF NoPktToSend
  <2>4. NoPktToSend(to) \in 0..WinSize
    BY <2>3, Constants
  <2>5. /\ RxTypes' /\ rx'.pc = "until" /\ rx'.kind = "delba"
        /\ rx'.no = NoPktToSend(to)
    BY <1>2, <2>1, <2>2, <2>4, StartedTypes
  <2>6. QED
    BY <1>1, <1>2, <2>3, <2>5, WholeBegins
<1>5. QED
  BY <1>1, <1>3, <1>4

\* A slot is emptied, by a handler or by the flush.
LEMMA WholeEmpties ==
  ASSUME Whole, NEW i \in Slots, Empty(i), RxTypes', FlTypes',
         /\ rx'.pc = rx.pc /\ rx'.kind = rx.kind /\ rx'.n = rx.n
         /\ rx'.no = rx.no /\ rx'.to = rx.to,
         UNCHANGED <<alive, startWin, forceNoDrop, timer, peer, winBase, ahead>>
  PROVE  Whole'
<1>1. /\ reorder' \in [Slots -> Packets \cup {NULL}]
      /\ Stored' = Stored \ {i} /\ high' \in Int /\ NothingLost'
  BY EmptyCounts DEF Whole
<1>2. Types'
  BY <1>1 DEF Whole, Types, timer, peer
<1>3. Settled'
  BY <1>1 DEF Whole, Settled, Fits
<1>4. QED
  BY <1>1, <1>2, <1>3 DEF Whole

\* The window is moved past empty slots, by a handler or by the flush.
LEMMA WholeMoves ==
  ASSUME Whole, NEW k \in 0..WinSize, NEW to \in 0..MaxSeq, NEW base \in Int,
         \A j \in Slots : j < k => reorder[j] = NULL,
         MoveWindow(k, to, base), NoteAhead(to, base) \/ ahead' = ahead,
         UNCHANGED <<alive, forceNoDrop, timer, peer, stack>>,
         RxTypes', FlTypes'
  PROVE  /\ Types' /\ NothingLost'
         /\ Stored = {} => Stored' = {}
         /\ k = WinSize => Stored' = {}
<1>1. /\ reorder' \in [Slots -> Packets \cup {NULL}]
      /\ Stored' = {} <=> Stored = {}
      /\ k = WinSize => Stored' = {}
      /\ NothingLost'
  BY MoveKeeps DEF Whole, stack
<1>2. ahead' \in Int
  BY DEF NoteAhead, Whole, Types
<1>3. startWin' = to /\ winBase' = base
  BY DEF MoveWindow
<1>4. Types'
  BY <1>1, <1>2, <1>3 DEF Whole, Types, timer, peer, stack
<1>5. QED
  BY <1>1, <1>4

LEMMA WholeHandles == ASSUME Whole, ~StaleMove, RxStep PROVE Whole'
<1>1. RxTypes /\ FlTypes /\ startWin \in 0..MaxSeq /\ winBase \in Int
  BY DEF Whole, Types
<1>2. rx.i \in 0..WinSize /\ rx.no \in 0..WinSize
  BY <1>1 DEF RxTypes
<1>3. CASE RxUntil \/ RxScan
  <2> DEFINE i == rx.i
  <2>1. /\ i \in Slots /\ Empty(i)
        /\ rx' = [rx EXCEPT !.i = i + 1, !.yield = IsData(reorder[i])]
        /\ UNCHANGED <<alive, startWin, forceNoDrop, timer, fl, peer, winBase,
                       ahead>>
    BY <1>2, <1>3, Constants DEF RxUntil, RxScan
  <2>2. i + 1 \in 0..WinSize /\ IsData(reorder[i]) \in BOOLEAN
    BY <2>1, Constants DEF IsData
  <2> HIDE DEF i
  <2>3. /\ RxTypes' /\ rx'.pc = rx.pc /\ rx'.kind = rx.kind /\ rx'.n = rx.n
        /\ rx'.no = rx.no /\ rx'.to = rx.to
    BY <1>1, <2>1, <2>2 DEF RxTypes
  <2>4. FlTypes'
    BY <1>1, <2>1 DEF FlTypes
  <2>5. QED
    BY <2>1, <2>3, <2>4, WholeEmpties
<1>4. CASE RxMove
  <2> DEFINE k == rx.no
             to == rx.to
             base == rx.base
  <2>1. /\ rx.pc = "until" /\ MoveWindow(k, to, base) /\ NoteAhead(to, base)
        /\ UNCHANGED <<alive, forceNoDrop, timer, fl, peer, stack>>
        /\ \A j \in Slots : j < k => reorder[j] = NULL
    BY <1>4 DEF RxMove, StaleMove
  <2>2. /\ k \in 0..WinSize /\ to \in 0..MaxSeq /\ base \in Int
        /\ rx.kind \in {"data", "bar", "fw", "addba", "delba"}
    BY <1>1 DEF RxTypes
  <2>3. \/ rx.kind = "addba" /\ rx' = RxIdle
        \/ rx.kind = "delba" /\ rx' = [rx EXCEPT !.pc = "free", !.yield = FALSE]
        \/ /\ rx.kind \in {"data", "bar", "fw"}
           /\ rx' = [rx EXCEPT !.pc = "store", !.yield = FALSE]
    BY <1>4, <2>2 DEF RxMove
  <2>4. /\ RxTypes'
        /\ rx'.pc = "idle" \/ (rx'.pc \in {"free", "store"} /\ rx'.n = rx.n
                                /\ rx'.kind = rx.kind /\ rx'.to = rx.to)
        /\ rx'.pc = "free" => rx.kind = "delba"
        /\ rx'.pc = "store" => rx.kind \in {"data", "bar", "fw"}
    <3>1. CASE rx' = RxIdle
      BY <3>1, IdleTypes
    <3>2. CASE rx.kind = "delba" /\ rx' = [rx EXCEPT !.pc = "free", !.yield = FALSE]
      BY <1>1, <3>2 DEF RxTypes
    <3>3. CASE rx.kind \in {"data", "bar", "fw"}
               /\ rx' = [rx EXCEPT !.pc = "store", !.yield = FALSE]
      BY <1>1, <3>3 DEF RxTypes
    <3>4. QED
      BY <2>3, <3>1, <3>2, <3>3
  <2>5. FlTypes'
    BY <1>1, <2>1 DEF FlTypes
  <2>6. Settled
    BY DEF Whole
  <2>7. alive /\ (rx.kind = "delba" => k = WinSize)
    BY <2>1, <2>6 DEF Settled
  <2> HIDE DEF k, to, base
  <2>8. Types' /\ NothingLost' /\ (k = WinSize => Stored' = {})
    BY <2>1, <2>2, <2>4, <2>5, WholeMoves
  <2>9. Settled'
    BY <2>1, <2>4, <2>6, <2>7, <2>8 DEF Settled, Fits
  <2>10. QED
    BY <2>8, <2>9 DEF Whole
<1>5. CASE RxScanned
  <2> DEFINE k == rx.i
             x == startWin + k
             to == Mask(x)
             base == winBase + k
  <2>1. /\ rx.pc = "scan" /\ MoveWindow(k, to, base)
        /\ rx' = [rx EXCEPT !.pc = "done", !.yield = FALSE]
        /\ UNCHANGED <<alive, forceNoDrop, timer, fl, peer, stack, ahead>>
        /\ \A j \in Slots : j < k => reorder[j] = NULL
    BY <1>5 DEF RxScanned, StaleMove
  <2>2. k \in 0..WinSize /\ x \in Int /\ base \in Int
    BY <1>1, <1>2, Constants
  <2>3. to \in 0..MaxSeq
    <3> HIDE DEF x
    <3>1. to \in 0..(MaxSeq - 1)
      BY <2>2, MaskSplit
    <3> HIDE DEF to
    <3>2. QED
      BY <3>1, Constants
  <2>4. RxTypes' /\ rx'.pc = "done"
    BY <1>1, <2>1 DEF RxTypes
  <2>5. FlTypes'
    BY <1>1, <2>1 DEF FlTypes
  <2> HIDE DEF k, x, to, base
  <2>6. Types' /\ NothingLost' /\ (Stored = {} => Stored' = {})
    BY <2>1, <2>2, <2>3, <2>4, <2>5, WholeMoves
  <2>7. Settled'
    BY <2>1, <2>4, <2>6 DEF Whole, Settled
  <2>8. QED
    BY <2>6, <2>7 DEF Whole
<1>6. CASE RxStore
  <2> DEFINE slot == SlotOf(Mask(rx.n), rx.to)
             p == <<rx.n, rx.kind>>
  <2>1. /\ rx.pc = "store" /\ rx.kind # "bar"
        /\ IF reorder[slot] = NULL
           THEN /\ reorder' = [reorder EXCEPT ![slot] = p] /\ held' = held + 1
                /\ rx' = [rx EXCEPT !.pc = "scan", !.i = 0]
           ELSE rx' = [rx EXCEPT !.pc = "done"] /\ UNCHANGED <<reorder, held>>
        /\ UNCHANGED <<alive, startWin, forceNoDrop, timer, fl, peer, winBase,
                       high, order, ahead>>
    BY <1>6 DEF RxStore
  <2>2. alive /\ slot \in Slots /\ rx.kind \in {"data", "fw"}
    BY <2>1 DEF Whole, Settled, Fits
  <2>3. p \in Packets /\ p # NULL
    BY <1>1, <2>2, NullIsNoPacket DEF Packets, RxTypes
  <2>4. reorder \in [Slots -> Packets \cup {NULL}] /\ held = Cardinality(Stored)
    BY DEF Whole, Types, NothingLost, Stored
  <2> HIDE DEF slot, p
  <2>5. RxTypes' /\ rx'.pc \in {"scan", "done"}
    <3>1. 0 \in 0..WinSize
      BY Constants
    <3>2. CASE rx' = [rx EXCEPT !.pc = "scan", !.i = 0]
      BY <1>1, <3>1, <3>2 DEF RxTypes
    <3>3. CASE rx' = [rx EXCEPT !.pc = "done"]
      BY <1>1, <3>3 DEF RxTypes
    <3>4. QED
      BY <2>1, <3>2, <3>3
  <2>6. reorder' \in [Slots -> Packets \cup {NULL}] /\ NothingLost'
    <3>1. CASE reorder[slot] = NULL
      <4>1. /\ reorder' \in [Slots -> Packets \cup {NULL}]
            /\ Stored' = Stored \cup {slot} /\ slot \notin Stored
        BY <2>1, <2>2, <2>3, <2>4, <3>1 DEF Stored
      <4>2. Cardinality(Stored \cup {slot}) = Cardinality(Stored) + 1
        BY <4>1, StoredFinite, FS_AddElement
      <4>3. held' = Cardinality(Stored')
        BY <2>1, <2>4, <3>1, <4>1, <4>2
      <4>4. QED
        BY <4>1, <4>3 DEF NothingLost, Stored
    <3>2. CASE reorder[slot] # NULL
      BY <2>1, <2>4, <3>2 DEF NothingLost, Stored
    <3>3. QED
      BY <3>1, <3>2
  <2>7. FlTypes'
    BY <1>1, <2>1 DEF FlTypes
  <2>8. Types'
    BY <2>1, <2>5, <2>6, <2>7 DEF Whole, Types, timer, peer
  <2>9. Settled'
    BY <2>1, <2>2, <2>5 DEF Settled
  <2>10. QED
    BY <2>6, <2>8, <2>9 DEF Whole
<1>7. CASE RxBar \/ RxDone
  <2>1. /\ rx' = [rx EXCEPT !.pc = "scan", !.i = 0] \/ rx' = RxIdle
        /\ timerIsSet' \in BOOLEAN /\ ticking' \in BOOLEAN /\ rx.pc # "idle"
        /\ UNCHANGED <<entry, flushes, fl, peer, winBase, stack, ahead>>
    BY <1>7 DEF RxBar, RxDone, timer, Whole, Types
  <2>2. RxTypes' /\ rx'.pc \in {"scan", "idle"}
    <3>1. 0 \in 0..WinSize
      BY Constants
    <3>2. CASE rx' = [rx EXCEPT !.pc = "scan", !.i = 0]
      BY <1>1, <3>1, <3>2 DEF RxTypes
    <3>3. QED
      BY <2>1, <3>2, IdleTypes
  <2>3. Types' /\ NothingLost'
    BY <2>1, <2>2 DEF Whole, Types, FlTypes, NothingLost, entry, peer, stack
  <2>4. Settled'
    BY <2>1, <2>2 DEF Whole, Settled, Stored, entry
  <2>5. QED
    BY <2>3, <2>4 DEF Whole
<1>8. CASE RxFree
  <2>1. /\ rx.pc = "free" /\ rx' = RxIdle /\ fl' = FlIdle /\ alive' = FALSE
        /\ timerIsSet' = FALSE /\ ticking' = FALSE /\ flushes' = 0
        /\ ahead' = high
        /\ UNCHANGED <<startWin, reorder, forceNoDrop, peer, winBase, stack>>
    BY <1>8 DEF RxFree
  <2>2. RxTypes' /\ rx'.pc = "idle" /\ FlTypes'
    BY <2>1, IdleTypes
  <2>3. Types' /\ NothingLost'
    BY <2>1, <2>2 DEF Whole, Types, NothingLost, peer, stack
  <2>4. Settled'
    BY <2>1, <2>2 DEF Whole, Settled, Stored
  <2>5. QED
    BY <2>3, <2>4 DEF Whole
<1>9. QED
  BY <1>3, <1>4, <1>5, <1>6, <1>7, <1>8 DEF RxStep

\* The flush, whatever a handler does.
LEMMA WholeFlushes == ASSUME Whole, ~StaleMove, FlushStep PROVE Whole'
<1>1. /\ RxTypes /\ FlTypes /\ startWin \in 0..MaxSeq /\ winBase \in Int
      /\ fl.i \in 0..WinSize /\ fl.no \in 0..WinSize /\ fl.last \in Slots
  BY DEF Whole, Types, FlTypes
<1>2. /\ 0 \in 0..WinSize /\ 0 \in 0..MaxSeq /\ 0 \in Slots
      /\ WinSize \in Nat /\ \A j \in Slots : j \in Int
  BY Constants
\* A step of the flush on its own record and the timer only.
<1>3. ASSUME FlTypes', timerIsSet' \in BOOLEAN, flushes' \in Nat,
             UNCHANGED <<entry, ticking, rx, peer, winBase, stack, ahead>>
      PROVE  Whole'
  <2>1. Types'
    BY <1>3 DEF Whole, Types, RxTypes, entry, peer, stack
  <2>2. NothingLost'
    BY <1>3 DEF Whole, NothingLost, entry, stack
  <2>3. Stored' = Stored /\ Settled
    BY <1>3 DEF Stored, entry, Whole
  <2>4. Settled'
    BY <1>3, <2>3, SettledStays DEF entry
  <2>5. QED
    BY <2>1, <2>2, <2>4 DEF Whole
<1>4. CASE FlushBegin
  <2>1. /\ flushes > 0 /\ flushes' = flushes - 1 /\ timerIsSet' = FALSE
        /\ fl' = [FlIdle EXCEPT !.pc = "find"]
        /\ UNCHANGED <<entry, ticking, rx, peer, winBase, stack, ahead>>
    BY <1>4 DEF FlushBegin
  <2>2. FlTypes' /\ flushes' \in Nat
    BY <1>2, <2>1 DEF FlIdle, FlTypes, Whole, Types
  <2>3. QED
    BY <1>3, <2>1, <2>2
<1>5. CASE FlushFind \/ FlushAim \/ FlushCount \/ FlushStray
  <2>1. /\ UNCHANGED <<entry, timerIsSet, ticking, flushes, rx, peer, winBase,
                       stack, ahead>>
        /\ timerIsSet' \in BOOLEAN /\ flushes' \in Nat
    BY <1>5, Zenon DEF FlushFind, FlushAim, FlushCount, FlushStray, timer,
                       Whole, Types
  <2>2. CASE FlushFind
    <3>1. ASSUME NEW i \in Slots, fl' = [fl EXCEPT !.pc = "aim", !.last = i]
          PROVE  FlTypes'
      BY <1>1, <3>1 DEF FlTypes
    <3>2. FlTypes'
      BY <2>2, <3>1, IdleTypes DEF FlushFind
    <3>3. QED
      BY <1>3, <2>1, <3>2
  <2>3. CASE FlushAim
    <3> DEFINE x == startWin + fl.last + 1
               to == Mask(x)
               base == winBase + fl.last + 1
    <3>1. x \in Int /\ base \in Int
      BY <1>1, <1>2, Constants
    <3>2. fl' = [fl EXCEPT !.pc = "count", !.to = to, !.base = base]
      BY <2>3 DEF FlushAim
    <3> HIDE DEF x, base
    <3>2a. to \in 0..(MaxSeq - 1)
      BY <3>1, MaskSplit
    <3> HIDE DEF to
    <3>3. to \in 0..MaxSeq
      BY <3>2a, Constants
    <3>4. FlTypes'
      BY <1>1, <3>1, <3>2, <3>3 DEF FlTypes
    <3>5. QED
      BY <1>3, <2>1, <3>4
  <2>4. CASE FlushCount
    <3> DEFINE no == NoPktToSend(fl.to)
    <3>1. fl.to \in Int
      BY <1>1, Constants DEF FlTypes
    <3>2. no \in 0..WinSize
      BY <1>1, <3>1, CountFits
    <3>3. fl' = [fl EXCEPT !.pc = "until", !.no = no]
      BY <2>4 DEF FlushCount
    <3> HIDE DEF no
    <3>4. FlTypes'
      BY <1>1, <3>2, <3>3 DEF FlTypes
    <3>5. QED
      BY <1>3, <2>1, <3>4
  <2>5. CASE FlushStray
    <3>1. FlTypes'
      BY <1>1, <2>5 DEF FlushStray, FlTypes
    <3>2. QED
      BY <1>3, <2>1, <3>1
  <2>6. QED
    BY <1>5, <2>2, <2>3, <2>4, <2>5
<1>6. CASE FlushUntil
  <2> DEFINE i == fl.i
  <2>1. /\ i < fl.no /\ Empty(i) /\ fl' = [fl EXCEPT !.i = i + 1]
        /\ UNCHANGED <<alive, startWin, forceNoDrop, timer, rx, peer, winBase,
                       ahead>>
    BY <1>6 DEF FlushUntil
  <2>2. i \in Slots /\ i + 1 \in 0..WinSize
    <3> DEFINE no == fl.no
    <3>1. i < no /\ i \in 0..WinSize /\ no \in 0..WinSize
      BY <1>1, <2>1
    <3> HIDE DEF i, no
    <3>2. QED
      BY <3>1, Constants
  <2> HIDE DEF i
  <2>3. FlTypes'
    BY <1>1, <2>1, <2>2 DEF FlTypes
  <2>4. RxTypes'
    BY <1>1, <2>1 DEF RxTypes
  <2>5. QED
    BY <2>1, <2>2, <2>3, <2>4, WholeEmpties
<1>7. CASE FlushMove
  <2> DEFINE k == fl.no
             to == fl.to
             base == fl.base
  <2>1. /\ MoveWindow(k, to, base) /\ NoteAhead(to, base) /\ fl' = FlIdle
        /\ UNCHANGED <<alive, forceNoDrop, timer, rx, peer, stack>>
        /\ \A j \in Slots : j < k => reorder[j] = NULL
    BY <1>7 DEF FlushMove, StaleMove
  <2>2. k \in 0..WinSize /\ to \in 0..MaxSeq /\ base \in Int
    BY <1>1 DEF FlTypes
  <2>3. FlTypes' /\ RxTypes'
    BY <1>1, <2>1, IdleTypes DEF RxTypes
  <2> HIDE DEF k, to, base
  <2>4. Types' /\ NothingLost' /\ (Stored = {} => Stored' = {})
    BY <2>1, <2>2, <2>3, WholeMoves
  <2>5. Settled'
    BY <2>1, <2>4, SettledStays DEF Whole
  <2>6. QED
    BY <2>4, <2>5 DEF Whole
<1>8. QED
  BY <1>4, <1>5, <1>6, <1>7 DEF FlushStep

\* What has nothing to do with the slots.
LEMMA WholeOther ==
  ASSUME Whole,
         \/ \E n \in Sent : RxDirect(n)
         \/ Create \/ SetNoDrop \/ TimerExpires \/ PeerMoves \/ UNCHANGED vars
  PROVE  Whole'
<1>1. /\ Types /\ Settled /\ NothingLost
      /\ snd \in Int /\ snd \in First..(Last + 1)
      /\ high \in Int /\ \A n \in Ids : n \in Int
  BY Constants DEF Whole, Types
<1>2. ASSUME NEW n \in Sent, RxDirect(n) PROVE Whole'
  <2>1. /\ GiveToStack(n) /\ rxLast' = n /\ snd' = n + 1
        /\ UNCHANGED <<entry, timer, rx, fl, winBase, held, ahead>>
    BY <1>2 DEF RxDirect
  <2>2. n \in Ids /\ n \in Int /\ n + 1 \in First..(Last + 1)
    BY <1>2, Constants DEF Sent, Ids
  <2>3. high' \in Int
    BY <1>1, <2>1, <2>2 DEF GiveToStack
  <2>4. Types'
    BY <1>1, <2>1, <2>2, <2>3 DEF Types, entry, timer, RxTypes, FlTypes
  <2>5. Settled' /\ NothingLost'
    BY <1>1, <2>1, SettledStays DEF NothingLost, entry, Stored
  <2>6. QED
    BY <2>4, <2>5 DEF Whole
<1>3. CASE Create
  <2> DEFINE seen == LastSeq # 65535 /\ LastSeq >= Mask(snd)
             to == IF seen THEN LastSeq + 1 ELSE Mask(snd)
             base == IF seen THEN rxLast + 1 ELSE snd
  <2>1. /\ ~alive /\ rx.pc = "idle" /\ alive' = TRUE /\ startWin' = to
        /\ winBase' = base /\ reorder' = [i \in Slots |-> NULL]
        /\ forceNoDrop' = FALSE /\ timerIsSet' = FALSE /\ ticking' = FALSE
        /\ UNCHANGED <<flushes, stray, rx, fl, peer, stack, ahead>>
    BY <1>3 DEF Create
  <2>2. to \in 0..MaxSeq /\ base \in Int
    <3>1. CASE seen
      <4>1. rxLast # NULL /\ LastSeq = Mask(rxLast)
        BY <3>1 DEF LastSeq
      <4>2. rxLast \in Int
        BY <1>1, <4>1 DEF Types
      <4> DEFINE m == Mask(rxLast)
      <4>3. m \in 0..(MaxSeq - 1)
        BY <4>2, MaskSplit
      <4>4. to = m + 1 /\ base = rxLast + 1
        BY <3>1, <4>1
      <4> HIDE DEF m, to, base
      <4>5. QED
        BY <4>2, <4>3, <4>4, Constants
    <3>2. CASE ~seen
      <4>1. to = Mask(snd) /\ base = snd
        BY <3>2
      <4> HIDE DEF seen, to, base
      <4>2. Mask(snd) \in 0..(MaxSeq - 1)
        BY <1>1, MaskSplit
      <4>3. QED
        BY <1>1, <4>1, <4>2, Constants
    <3>3. QED
      BY <3>1, <3>2
  <2> HIDE DEF seen, to, base
  <2>3. Stored = {} /\ Stored' = {}
    BY <1>1, <2>1 DEF Settled, Stored
  <2>4. Types'
    BY <1>1, <2>1, <2>2 DEF Types, RxTypes, FlTypes, peer, stack
  <2>5. held = Cardinality(Stored) /\ held' = held
    BY <1>1, <2>1 DEF NothingLost, Stored, stack
  <2>6. held' = Cardinality(Stored')
    BY <2>3, <2>5
  <2>7. NothingLost'
    BY <2>6 DEF NothingLost, Stored
  <2>8. Settled'
    BY <2>1, <2>3 DEF Settled
  <2>9. QED
    BY <2>4, <2>7, <2>8 DEF Whole
<1>4. CASE SetNoDrop \/ TimerExpires \/ PeerMoves \/ UNCHANGED vars
  <2>1. /\ UNCHANGED <<alive, startWin, reorder, timerIsSet, rx, fl, rxLast,
                       winBase, stack, ahead>>
        /\ forceNoDrop' \in BOOLEAN /\ ticking' \in BOOLEAN
    BY <1>1, <1>4 DEF SetNoDrop, TimerExpires, PeerMoves, vars, entry, timer,
                      peer, Types
  <2>2. flushes' \in Nat
    BY <1>1, <1>4 DEF SetNoDrop, TimerExpires, PeerMoves, vars, timer, Types
  <2>3. snd' \in First..(Last + 1)
    <3>1. PeerMoves => snd' \in First..(Last + 1)
      BY <1>1, Constants DEF PeerMoves
    <3>2. QED
      BY <1>1, <1>4, <3>1 DEF SetNoDrop, TimerExpires, vars, peer
  <2>4. Types'
    BY <1>1, <2>1, <2>2, <2>3 DEF Types, RxTypes, FlTypes, stack
  <2>5. Settled' /\ NothingLost'
    BY <1>1, <2>1, SettledStays DEF NothingLost, stack, Stored
  <2>6. QED
    BY <2>4, <2>5 DEF Whole
<1>5. QED
  BY <1>2, <1>3, <1>4

LEMMA WholeInv ==
  /\ Init => Whole
  /\ Whole /\ [Next]_vars /\ ~StaleMove => Whole'
<1>1. ASSUME Init PROVE Whole
  <2>1. Inv /\ rx.pc = "idle"
    BY <1>1, InitInv DEF Init, RxIdle
  <2>2. QED
    BY <2>1 DEF Inv, Exclusive, Whole, Settled
<1>2. ASSUME Whole, [Next]_vars, ~StaleMove PROVE Whole'
  <2>1. ASSUME NEW n \in Sent, Receive("data", n) \/ Receive("fw", n)
        PROVE  Whole'
    BY <1>2, <2>1, WholeReceives DEF Sent
  <2>2. ASSUME snd \in Ids, Receive("bar", snd) PROVE Whole'
    BY <1>2, <2>2, WholeReceives
  <2>3. CASE RxStep
    BY <1>2, <2>3, WholeHandles
  <2>4. CASE FlushStep
    BY <1>2, <2>4, WholeFlushes
  <2>5. CASE CreateAgain \/ Delete
    BY <1>2, <2>5, WholeAsks
  <2>6. QED
    BY <1>2, <2>1, <2>2, <2>3, <2>4, <2>5, WholeOther DEF Next
<1>3. QED
  BY <1>1, <1>2

\* Whatever a flush and handlers do to the slots between each other's steps, a
\* packet is lost in one way only: one of them empties slots, the other fills
\* one of these again, and the first moves the window past it.  No handler
\* stores over a packet or outside the array, none is dispatched twice, and no
\* entry is freed or created over one.
THEOREM LostByStaleMove == Spec /\ [][~StaleMove]_vars => []NothingLost
<1>1. Whole => NothingLost
  BY DEF Whole
<1>2. Whole /\ [Next]_vars /\ [~StaleMove]_vars => Whole'
  <2>1. ASSUME Whole, UNCHANGED vars PROVE Whole'
    BY <2>1, WholeOther
  <2>2. QED
    BY <2>1, WholeInv
<1>3. QED
  BY <1>1, <1>2, WholeInv, PTL DEF Spec
=============================================================================
