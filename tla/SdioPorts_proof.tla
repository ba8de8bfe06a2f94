--------------------------- MODULE SdioPorts_proof ---------------------------
(***************************************************************************)
(* Proofs about the data ports, for rings of every size and any number of  *)
(* packets: no port is written while it holds a packet, whatever fails,    *)
(* and while nothing fails the packets pass in order, both ways.           *)
(*                                                                         *)
(* The argument for the order is the same for both rings: packet i is in   *)
(* the port that i steps from the first lead to, the writer's index is the *)
(* port of the next packet to be written and the reader's that of the next *)
(* to be read.  The host's own indexes and the card's never meet in the    *)
(* state; what ties them is the number of packets on either side.          *)
(***************************************************************************)
EXTENDS SdioPorts, SequenceTheorems, TLAPS

\* The port of packet i in a ring of n ports.
PortOf(i, n) == ((i - 1) % n) + 1

\* Ring f of n ports holds the packets from a + 1 to b, each in its port.
Holds(f, a, b, n) ==
  /\ a <= b
  /\ \A p \in 1..n : f[p] # 0 => f[p] \in (a + 1)..b /\ PortOf(f[p], n) = p
  /\ \A i \in (a + 1)..b : f[PortOf(i, n)] = i

-----------------------------------------------------------------------------
\* The ring.

LEMMA SmallMultiple ==
  ASSUME NEW n \in Nat \ {0}, NEW d \in Int, n * d < n, n * d > -n
  PROVE  d = 0
<1>1. CASE d >= 1
  <2>1. n * d >= n
    BY <1>1, Z3
  <2>2. QED
    BY <2>1
<1>2. CASE d <= -1
  <2>1. n * d <= -n
    BY <1>2, Z3
  <2>2. QED
    BY <2>1
<1>3. QED
  BY <1>1, <1>2

LEMMA ModNext ==
  ASSUME NEW x \in Nat, NEW n \in Nat \ {0}
  PROVE  (x + 1) % n = IF (x % n) + 1 = n THEN 0 ELSE (x % n) + 1
<1>1. /\ x = n * (x \div n) + (x % n)
      /\ x \div n \in Int /\ x % n \in 0..(n - 1)
  BY Z3
<1>2. /\ x + 1 = n * ((x + 1) \div n) + ((x + 1) % n)
      /\ (x + 1) \div n \in Int /\ (x + 1) % n \in 0..(n - 1)
  BY Z3
<1> DEFINE q == x \div n
           r == x % n
           k == (x + 1) \div n
           s == (x + 1) % n
<1>3. /\ q \in Int /\ k \in Int /\ r \in 0..(n - 1) /\ s \in 0..(n - 1)
      /\ x = n * q + r /\ x + 1 = n * k + s
  BY <1>1, <1>2
<1> HIDE DEF q, r, k, s
<1>4. n * k - n * q = r + 1 - s
  BY <1>3, Z3
<1>5. n * k - n * q = n * (k - q)
  BY <1>3, Z3
<1>6. CASE r + 1 < n
  <2>1. k - q = 0
    BY <1>3, <1>4, <1>5, <1>6, SmallMultiple
  <2>2. s = r + 1
    BY <1>3, <1>4, <1>5, <2>1
  <2>3. QED
    BY <1>6, <2>2, <1>3 DEF r, s
<1>7. CASE r + 1 = n
  <2>1. n * (k - q - 1) = -s
    <3>1. n * (k - q - 1) = n * (k - q) - n
      BY <1>3, Z3
    <3>2. QED
      BY <3>1, <1>3, <1>4, <1>5, <1>7
  <2>2. k - q - 1 = 0
    BY <2>1, <1>3, SmallMultiple
  <2>3. s = 0
    BY <2>1, <2>2, <1>3
  <2>4. QED
    BY <1>7, <2>3 DEF r, s
<1>8. QED
  BY <1>3, <1>6, <1>7

\* The step of either index is the step to the next packet's port.
LEMMA PortNext ==
  ASSUME NEW i \in Nat \ {0}, NEW n \in Nat \ {0}
  PROVE  /\ PortOf(i, n) \in 1..n
         /\ After(PortOf(i, n), n + 1) = PortOf(i + 1, n)
<1>1. i - 1 \in Nat
  OBVIOUS
<1>2. (i - 1) % n \in 0..(n - 1)
  BY <1>1, Z3
<1>3. (i - 1 + 1) % n = IF ((i - 1) % n) + 1 = n THEN 0 ELSE ((i - 1) % n) + 1
  BY <1>1, ModNext
<1>4. i - 1 + 1 = i + 1 - 1
  OBVIOUS
<1>5. QED
  BY <1>2, <1>3, <1>4 DEF PortOf, After

LEMMA IndexNext ==
  ASSUME NEW i \in Nat, NEW end \in Nat, end - 1 \in Nat \ {0}
  PROVE  After(PortOf(i + 1, end - 1), end) = PortOf(i + 1 + 1, end - 1)
<1>1. i + 1 \in Nat \ {0} /\ end - 1 + 1 = end
  OBVIOUS
<1>2. QED
  BY <1>1, PortNext

LEMMA FirstPort == ASSUME NEW n \in Nat \ {0} PROVE PortOf(1, n) = 1
<1>1. 0 % n = 0
  <2>1. /\ 0 = n * (0 \div n) + (0 % n)
        /\ 0 \div n \in Int /\ 0 % n \in 0..(n - 1)
    BY Z3
  <2>2. 0 \div n = 0
    BY <2>1, SmallMultiple
  <2>3. QED
    BY <2>1, <2>2
<1>2. QED
  BY <1>1 DEF PortOf

\* Writing the next packet to its port, which is free.
LEMMA RingPut ==
  ASSUME NEW n \in Nat \ {0}, NEW S, 1..n \subseteq S, NEW f \in [S -> Nat],
         NEW a \in Nat, NEW b \in Nat, Holds(f, a, b, n),
         f[PortOf(b + 1, n)] = 0
  PROVE  Holds([f EXCEPT ![PortOf(b + 1, n)] = b + 1], a, b + 1, n)
<1> DEFINE g == [f EXCEPT ![PortOf(b + 1, n)] = b + 1]
<1>1. PortOf(b + 1, n) \in 1..n
  BY PortNext
<1>2. \A i \in (a + 1)..b : PortOf(i, n) \in 1..n
  <2> TAKE i \in (a + 1)..b
  <2>1. i \in Nat \ {0}
    OBVIOUS
  <2>2. QED
    BY <2>1, PortNext
<1>3. \A i \in (a + 1)..b : PortOf(i, n) # PortOf(b + 1, n)
  <2>1. \A i \in (a + 1)..b : f[PortOf(i, n)] = i /\ i # 0
    BY DEF Holds
  <2>2. QED
    BY <2>1
<1>4. \A p \in 1..n : g[p] = IF p = PortOf(b + 1, n) THEN b + 1 ELSE f[p]
  BY <1>1
<1> HIDE DEF g
<1>5. \A i \in (a + 1)..(b + 1) : g[PortOf(i, n)] = i
  <2> SUFFICES ASSUME NEW i \in (a + 1)..(b + 1) PROVE g[PortOf(i, n)] = i
    OBVIOUS
  <2>1. CASE i = b + 1
    BY <2>1, <1>1, <1>4
  <2>2. CASE i \in (a + 1)..b
    BY <2>2, <1>2, <1>3, <1>4 DEF Holds
  <2>3. QED
    BY <2>1, <2>2
<1>6. \A p \in 1..n : g[p] # 0 =>
        g[p] \in (a + 1)..(b + 1) /\ PortOf(g[p], n) = p
  <2> SUFFICES ASSUME NEW p \in 1..n, g[p] # 0
               PROVE  g[p] \in (a + 1)..(b + 1) /\ PortOf(g[p], n) = p
    OBVIOUS
  <2>1. CASE p = PortOf(b + 1, n)
    BY <2>1, <1>1, <1>4 DEF Holds
  <2>2. CASE p # PortOf(b + 1, n)
    BY <2>2, <1>4 DEF Holds
  <2>3. QED
    BY <2>1, <2>2
<1>7. Holds(g, a, b + 1, n)
  BY <1>5, <1>6 DEF Holds
<1>8. QED
  BY <1>7 DEF g

\* Emptying the port of the next packet to be read: it holds that packet.
LEMMA RingTake ==
  ASSUME NEW n \in Nat \ {0}, NEW S, 1..n \subseteq S, NEW f \in [S -> Nat],
         NEW a \in Nat, NEW b \in Nat, Holds(f, a, b, n),
         f[PortOf(a + 1, n)] # 0
  PROVE  /\ a + 1 <= b
         /\ f[PortOf(a + 1, n)] = a + 1
         /\ Holds([f EXCEPT ![PortOf(a + 1, n)] = 0], a + 1, b, n)
<1> DEFINE g == [f EXCEPT ![PortOf(a + 1, n)] = 0]
<1>1. PortOf(a + 1, n) \in 1..n
  BY PortNext
<1>2. a + 1 <= b /\ f[PortOf(a + 1, n)] = a + 1
  BY <1>1 DEF Holds
<1>3. \A p \in 1..n : g[p] = IF p = PortOf(a + 1, n) THEN 0 ELSE f[p]
  BY <1>1
<1> HIDE DEF g
<1>4. \A i \in (a + 2)..b : PortOf(i, n) \in 1..n
  <2>1. \A i \in Nat \ {0} : PortOf(i, n) \in 1..n
    BY PortNext
  <2>2. \A i \in (a + 2)..b : i \in Nat \ {0}
    OBVIOUS
  <2>3. QED
    BY <2>1, <2>2
<1>5. \A i \in (a + 2)..b : g[PortOf(i, n)] = i
  <2> SUFFICES ASSUME NEW i \in (a + 2)..b PROVE g[PortOf(i, n)] = i
    OBVIOUS
  <2>1. f[PortOf(i, n)] = i /\ i # a + 1
    BY DEF Holds
  <2>2. QED
    BY <2>1, <1>2, <1>3, <1>4
<1>6. \A p \in 1..n : g[p] # 0 =>
        g[p] \in (a + 2)..b /\ PortOf(g[p], n) = p
  <2> SUFFICES ASSUME NEW p \in 1..n, g[p] # 0
               PROVE  g[p] \in (a + 2)..b /\ PortOf(g[p], n) = p
    OBVIOUS
  <2>1. g[p] = f[p] /\ p # PortOf(a + 1, n)
    BY <1>3
  <2>2. f[p] \in (a + 1)..b /\ PortOf(f[p], n) = p
    BY <2>1 DEF Holds
  <2>3. f[p] # a + 1
    BY <2>1, <2>2
  <2>4. QED
    BY <2>1, <2>2, <2>3
<1>7. Holds(g, a + 1, b, n)
  BY <1>2, <1>5, <1>6 DEF Holds
<1>8. QED
  BY <1>2, <1>7 DEF g

\* What happens at port 0 does not matter to the ring.
LEMMA RingKept ==
  ASSUME NEW n \in Nat \ {0}, NEW f, NEW g, NEW a \in Nat, NEW b \in Nat,
         Holds(f, a, b, n), \A p \in 1..n : g[p] = f[p]
  PROVE  Holds(g, a, b, n)
<1>1. \A i \in (a + 1)..b : PortOf(i, n) \in 1..n
  <2> TAKE i \in (a + 1)..b
  <2>1. i \in Nat \ {0}
    OBVIOUS
  <2>2. QED
    BY <2>1, PortNext
<1>2. \A i \in (a + 1)..b : g[PortOf(i, n)] = i
  BY <1>1 DEF Holds
<1>3. \A p \in 1..n : g[p] # 0 =>
        g[p] \in (a + 1)..b /\ PortOf(g[p], n) = p
  BY DEF Holds
<1>4. QED
  BY <1>2, <1>3 DEF Holds

-----------------------------------------------------------------------------
\* The inductive invariant.

\* What the host believes of the ports, then and in the copy it has not yet
\* looked at, was true and only the host can change it.
BitmapsSound ==
  /\ \A p \in wrBitmap : wr[p] = 0
  /\ \A p \in rdBitmap : rd[p] # 0
  /\ pc = "int" => /\ \A p \in regs.wr : wr[p] = 0
                   /\ \A p \in regs.rd : rd[p] # 0

\* The queue holds the last of the packets that were sent; the others were
\* written, or were to be.
Written == sent - Len(queue)

QueueNumbered ==
  /\ Len(queue) <= sent
  /\ \A i \in 1..Len(queue) : queue[i] = Written + i

\* Both rings in step, while no transfer fails.
TxInStep ==
  /\ taken = [i \in 1..Len(taken) |-> i]
  /\ Holds(wr, Len(taken), Written, EndPort - 1)
  /\ currWr = PortOf(Written + 1, EndPort - 1)
  /\ cardWr = PortOf(Len(taken) + 1, EndPort - 1)

RxInStep ==
  /\ got = [i \in 1..Len(got) |-> i]
  /\ Holds(rd, Len(got), filled, MaxPort - 1)
  /\ currRd = PortOf(Len(got) + 1, MaxPort - 1)
  /\ cardRd = PortOf(filled + 1, MaxPort - 1)

InStep == ~failed => TxInStep /\ RxInStep

Inv == TypeOK /\ BitmapsSound /\ QueueNumbered /\ InStep

\* The sizes of the rings.
LEMMA Sizes ==
  /\ EndPort - 1 \in Nat \ {0} /\ MaxPort - 1 \in Nat \ {0}
  /\ WrPorts = 1..(EndPort - 1) /\ 1..(MaxPort - 1) \subseteq RdPorts
  /\ RdPorts = 0..(MaxPort - 1)
  /\ 1 \in WrPorts /\ 1 \in RdPorts /\ 0 \in RdPorts
  /\ \A p \in WrPorts : After(p, EndPort) \in WrPorts
  /\ \A p \in RdPorts \ {0} : After(p, MaxPort) \in RdPorts
  BY SdioPortsAssumption DEF WrPorts, RdPorts, After

LEMMA InitInv == Init => Inv
<1> SUFFICES ASSUME Init PROVE Inv
  OBVIOUS
<1>1. TypeOK
  <2>1. /\ queue \in Seq(1..MaxTx) /\ taken \in Seq(1..MaxTx)
        /\ got \in Seq(Nat)
    BY DEF Init
  <2>2. wr \in [WrPorts -> 0..MaxTx] /\ rd \in [RdPorts -> Nat]
    BY SdioPortsAssumption DEF Init
  <2>3. regs \in [wr : SUBSET WrPorts, rd : SUBSET RdPorts]
    BY DEF Init
  <2>4. /\ {requeued, dataSent, failed} \subseteq BOOLEAN
        /\ (pc = "send" => queue # <<>>)
    BY DEF Init
  <2>5. /\ currWr \in WrPorts /\ currRd \in RdPorts
        /\ cardWr \in WrPorts /\ cardRd \in RdPorts
    BY Sizes DEF Init
  <2>6. sent \in 0..MaxTx /\ filled \in 0..MaxRx
    BY SdioPortsAssumption DEF Init
  <2>7. QED
    BY <2>1, <2>2, <2>3, <2>4, <2>5, <2>6 DEF Init, TypeOK
<1>2. BitmapsSound /\ QueueNumbered
  BY DEF Init, BitmapsSound, QueueNumbered, Written
<1>3. InStep
  <2>1. PortOf(1, EndPort - 1) = 1 /\ PortOf(1, MaxPort - 1) = 1
    BY Sizes, FirstPort
  <2>2. TxInStep
    BY <2>1, Sizes DEF Init, TxInStep, Holds, Written
  <2>3. RxInStep
    BY <2>1, Sizes DEF Init, RxInStep, Holds
  <2>4. QED
    BY <2>2, <2>3 DEF InStep
<1>4. QED
  BY <1>1, <1>2, <1>3 DEF Inv

LEMMA TypeStep == TypeOK /\ [Next]_vars => TypeOK'
<1> SUFFICES ASSUME TypeOK, [Next]_vars PROVE TypeOK'
  OBVIOUS
<1>a. /\ wr \in [WrPorts -> 0..MaxTx] /\ rd \in [RdPorts -> Nat]
      /\ currWr \in WrPorts /\ currRd \in RdPorts
      /\ cardWr \in WrPorts /\ cardRd \in RdPorts
      /\ queue \in Seq(1..MaxTx) /\ (pc = "send" => queue # <<>>)
      /\ taken \in Seq(1..MaxTx) /\ got \in Seq(Nat)
      /\ sent \in 0..MaxTx /\ rdBitmap \subseteq RdPorts
  BY DEF TypeOK
<1>1. CASE Queue
  <2>1. queue' \in Seq(1..MaxTx) /\ queue' # <<>> /\ sent' \in 0..MaxTx
    <3>1. sent + 1 \in 1..MaxTx /\ queue' = Append(queue, sent + 1)
      BY <1>1, <1>a, SdioPortsAssumption DEF Queue
    <3>2. /\ Append(queue, sent + 1) \in Seq(1..MaxTx)
          /\ Append(queue, sent + 1) # <<>>
      BY <3>1, <1>a, AppendProperties, SMTT(30)
    <3>3. sent' = sent + 1 /\ sent + 1 \in 0..MaxTx
      BY <3>1, <1>1, <1>a DEF Queue
    <3>4. QED
      BY <3>1, <3>2, <3>3
  <2>2. QED
    BY <1>1, <2>1 DEF Queue, rx, int, card, TypeOK
<1>2. CASE ReadRegs
  BY <1>2 DEF ReadRegs, tx, rx, history, TypeOK
<1>3. CASE ProcessInt
  BY <1>3 DEF ProcessInt, ThenSend, card, history, TypeOK
<1>4. CASE Upload
  <2> PICK p \in RdPorts : Upload!(p)
    BY <1>4 DEF Upload
  <2>1. currRd' \in RdPorts /\ rdBitmap' \subseteq RdPorts
    BY <1>a, Sizes DEF TakeRdPort, RdPort
  <2>2. rd' \in [RdPorts -> Nat] /\ got' \in Seq(Nat)
    BY <1>a
  <2>3. QED
    BY <2>1, <2>2 DEF TakeRdPort, tx, int, TypeOK
<1>5. CASE UploadFails
  <2> PICK p \in RdPorts : UploadFails!(p)
    BY <1>5 DEF UploadFails
  <2>1. currRd' \in RdPorts /\ rdBitmap' \subseteq RdPorts
    BY <1>a, Sizes DEF TakeRdPort, RdPort
  <2>2. rd' \in [RdPorts -> Nat]
    <3>1. [rd EXCEPT ![p] = 0] \in [RdPorts -> Nat]
      BY <1>a
    <3>2. QED
      BY <3>1, <1>a
  <2>3. QED
    BY <2>1, <2>2 DEF ThenSend, tx, int, history, TypeOK
<1>6. CASE UploadsEnd
  BY <1>6 DEF UploadsEnd, ThenSend, tx, rx, int, card, history, TypeOK
<1>7. CASE StartSend
  BY <1>7 DEF StartSend, tx, rx, int, card, history, TypeOK
<1>8. CASE NoWrPort
  BY <1>8 DEF NoWrPort, rx, int, card, history, TypeOK
<1>9. CASE Write
  <2>1. queue # <<>> /\ Head(queue) \in 1..MaxTx
        /\ Tail(queue) \in Seq(1..MaxTx)
    <3>1. queue # <<>>
      BY <1>9, <1>a DEF Write, TakeWrPort
    <3>2. QED
      BY <3>1, <1>a, HeadTailProperties
  <2>2. wr' \in [WrPorts -> 0..MaxTx]
    <3>1. Head(queue) \in 0..MaxTx
      BY <2>1
    <3>2. wr' = [wr EXCEPT ![currWr] = Head(queue)]
      BY <1>9 DEF Write
    <3>3. QED
      BY <3>1, <3>2, <1>a
  <2>3. QED
    BY <1>9, <2>1, <2>2, Sizes
       DEF Write, TakeWrPort, NextSend, rx, int, TypeOK
<1>10. CASE WriteFails
  <2>1. queue # <<>> /\ Head(queue) \in 1..MaxTx
        /\ Tail(queue) \in Seq(1..MaxTx)
    <3>1. queue # <<>>
      BY <1>10, <1>a DEF WriteFails, TakeWrPort
    <3>2. QED
      BY <3>1, <1>a, HeadTailProperties
  <2>2. wr' \in [WrPorts -> 0..MaxTx]
    <3>1. Head(queue) \in 0..MaxTx
      BY <2>1
    <3>2. [wr EXCEPT ![currWr] = Head(queue)] \in [WrPorts -> 0..MaxTx]
      BY <3>1, <1>a
    <3>3. wr' \in {wr, [wr EXCEPT ![currWr] = Head(queue)]}
      BY <1>10 DEF WriteFails
    <3>4. QED
      BY <3>2, <3>3, <1>a
  <2>3. QED
    BY <1>10, <2>1, <2>2, Sizes
       DEF WriteFails, TakeWrPort, NextSend, rx, int, TypeOK
<1>11. CASE CardTakes
  <2>1. wr[cardWr] \in 1..MaxTx
    BY <1>11, <1>a DEF CardTakes
  <2>2. wr' \in [WrPorts -> 0..MaxTx] /\ taken' \in Seq(1..MaxTx)
    BY <1>11, <2>1, <1>a, SdioPortsAssumption DEF CardTakes
  <2>3. QED
    BY <1>11, <2>2, Sizes DEF CardTakes, tx, rx, int, TypeOK
<1>12. CASE CardFills
  <2>1. cardRd' \in RdPorts
    BY <1>12, <1>a, SdioPortsAssumption DEF CardFills, After, RdPorts
  <2>2. QED
    BY <1>12, <2>1, SdioPortsAssumption DEF CardFills, tx, rx, int, TypeOK
<1>13. CASE CardAnswers
  BY <1>13, Sizes DEF CardAnswers, tx, rx, int, history, TypeOK
<1>14. CASE UNCHANGED vars
  BY <1>14 DEF vars, tx, rx, int, card, history, TypeOK
<1>15. QED
  BY <1>1, <1>2, <1>3, <1>4, <1>5, <1>6, <1>7, <1>8, <1>9, <1>10, <1>11,
     <1>12, <1>13, <1>14
     DEF Next, MainProcess, Card

\* What later steps need of the types.
LEMMA Types ==
  TypeOK =>
    /\ wr \in [WrPorts -> 0..MaxTx] /\ wr \in [WrPorts -> Nat]
    /\ rd \in [RdPorts -> Nat]
    /\ currWr \in WrPorts /\ currRd \in RdPorts
    /\ cardWr \in WrPorts /\ cardRd \in RdPorts
    /\ wrBitmap \subseteq WrPorts /\ rdBitmap \subseteq RdPorts
    /\ regs.wr \subseteq WrPorts /\ regs.rd \subseteq RdPorts
    /\ queue \in Seq(1..MaxTx) /\ (pc = "send" => queue # <<>>)
    /\ taken \in Seq(1..MaxTx) /\ got \in Seq(Nat)
    /\ sent \in Nat /\ filled \in Nat
<1> SUFFICES ASSUME TypeOK PROVE Types!2
  OBVIOUS
<1>1. wr \in [WrPorts -> Nat]
  BY SdioPortsAssumption DEF TypeOK
<1>2. QED
  BY <1>1 DEF TypeOK

LEMMA BitmapsStep ==
  TypeOK /\ BitmapsSound /\ [Next]_vars => BitmapsSound'
<1> SUFFICES ASSUME TypeOK, BitmapsSound, [Next]_vars PROVE BitmapsSound'
  OBVIOUS
<1>a. Types!2
  BY Types
<1>1. CASE Queue
  BY <1>1 DEF Queue, rx, int, card, BitmapsSound
<1>2. CASE ReadRegs
  BY <1>2, <1>a DEF ReadRegs, tx, rx, BitmapsSound
<1>3. CASE ProcessInt
  BY <1>3 DEF ProcessInt, ThenSend, card, BitmapsSound
<1>4. CASE Upload
  <2> PICK p \in RdPorts : Upload!(p)
    BY <1>4 DEF Upload
  <2>1. \A o \in rdBitmap' : o # p /\ o \in rdBitmap
    BY DEF TakeRdPort
  <2>2. \A o \in rdBitmap' : rd'[o] # 0
    BY <2>1, <1>a DEF BitmapsSound
  <2>3. QED
    BY <2>2 DEF TakeRdPort, tx, int, BitmapsSound
<1>5. CASE UploadFails
  <2> PICK p \in RdPorts : UploadFails!(p)
    BY <1>5 DEF UploadFails
  <2>1. \A o \in rdBitmap' : o # p /\ o \in rdBitmap
    BY DEF TakeRdPort
  <2>2. \A o \in rdBitmap' : rd'[o] # 0
    BY <2>1, <1>a DEF BitmapsSound
  <2>3. QED
    BY <2>2 DEF TakeRdPort, ThenSend, tx, int, BitmapsSound
<1>6. CASE UploadsEnd
  BY <1>6 DEF UploadsEnd, ThenSend, tx, rx, int, card, BitmapsSound
<1>7. CASE StartSend
  BY <1>7 DEF StartSend, tx, rx, int, card, BitmapsSound
<1>8. CASE NoWrPort
  BY <1>8 DEF NoWrPort, rx, int, card, BitmapsSound
<1>9. CASE Write
  <2>1. \A p \in wrBitmap' : wr'[p] = 0
    BY <1>9, <1>a DEF Write, TakeWrPort, BitmapsSound
  <2>2. QED
    BY <1>9, <2>1 DEF Write, TakeWrPort, NextSend, rx, int, BitmapsSound
<1>10. CASE WriteFails
  <2>1. \A p \in wrBitmap' : p # currWr /\ p \in wrBitmap
    BY <1>10 DEF WriteFails, TakeWrPort
  <2>2. \A p \in wrBitmap' : wr'[p] = 0
    BY <1>10, <2>1, <1>a DEF WriteFails, BitmapsSound
  <2>3. QED
    BY <1>10, <2>2 DEF WriteFails, TakeWrPort, NextSend, rx, int, BitmapsSound
<1>11. CASE CardTakes
  <2>1. \A p \in WrPorts : wr[p] = 0 => wr'[p] = 0
    BY <1>11, <1>a DEF CardTakes
  <2>2. QED
    BY <1>11, <2>1, <1>a DEF CardTakes, tx, rx, int, BitmapsSound
<1>12. CASE CardFills
  <2>1. \A p \in RdPorts : rd[p] # 0 => rd'[p] # 0
    BY <1>12, <1>a DEF CardFills
  <2>2. QED
    BY <1>12, <2>1, <1>a DEF CardFills, tx, rx, int, BitmapsSound
<1>13. CASE CardAnswers
  <2>1. \A p \in RdPorts : rd[p] # 0 => rd'[p] # 0
    BY <1>13, <1>a DEF CardAnswers
  <2>2. QED
    BY <1>13, <2>1, <1>a DEF CardAnswers, tx, rx, int, BitmapsSound
<1>14. CASE UNCHANGED vars
  BY <1>14 DEF vars, tx, rx, int, card, BitmapsSound
<1>15. QED
  BY <1>1, <1>2, <1>3, <1>4, <1>5, <1>6, <1>7, <1>8, <1>9, <1>10, <1>11,
     <1>12, <1>13, <1>14
     DEF Next, MainProcess, Card

\* A packet that leaves the queue is the next after those that have left it.
LEMMA HeadIsNext ==
  ASSUME TypeOK, QueueNumbered, queue # <<>>, queue' = Tail(queue),
         sent' = sent
  PROVE  /\ Head(queue) = Written + 1
         /\ Written' = Written + 1
         /\ QueueNumbered'
<1>a. queue \in Seq(1..MaxTx) /\ sent \in Nat
  BY Types
<1>1. /\ Len(queue) \in Nat \ {0} /\ Len(Tail(queue)) = Len(queue) - 1
      /\ Head(queue) = queue[1]
      /\ \A i \in 1..Len(Tail(queue)) : Tail(queue)[i] = queue[i + 1]
  BY <1>a, HeadTailProperties
<1>2. Head(queue) = Written + 1 /\ Written' = Written + 1
  BY <1>1, <1>a DEF QueueNumbered, Written
<1>3. Len(queue') <= sent'
  BY <1>1, <1>a DEF QueueNumbered
<1>4. \A i \in 1..Len(queue') : queue'[i] = Written' + i
  <2> SUFFICES ASSUME NEW i \in 1..Len(queue')
               PROVE  queue'[i] = Written' + i
    OBVIOUS
  <2>1. i + 1 \in 1..Len(queue) /\ queue'[i] = queue[i + 1]
    BY <1>1
  <2>2. queue[i + 1] = Written + (i + 1)
    BY <2>1 DEF QueueNumbered
  <2>3. Written \in Int
    BY <1>a, <1>1 DEF Written
  <2>4. QED
    BY <2>1, <2>2, <2>3, <1>2
<1>5. QED
  BY <1>2, <1>3, <1>4 DEF QueueNumbered

LEMMA NumberedStep ==
  TypeOK /\ QueueNumbered /\ [Next]_vars => QueueNumbered'
<1> SUFFICES ASSUME TypeOK, QueueNumbered, [Next]_vars PROVE QueueNumbered'
  OBVIOUS
<1>a. queue \in Seq(1..MaxTx) /\ sent \in Nat /\ Len(queue) \in Nat
  BY Types
<1>1. CASE Queue
  <2>1. /\ Len(queue') = Len(queue) + 1
        /\ \A i \in 1..Len(queue) : queue'[i] = queue[i]
        /\ queue'[Len(queue) + 1] = sent + 1
    BY <1>1, <1>a, AppendProperties DEF Queue
  <2>2. Written' = Written /\ sent' = sent + 1
    BY <2>1, <1>1, <1>a DEF Queue, Written
  <2>3. \A i \in 1..Len(queue') : queue'[i] = Written' + i
    <3> TAKE i \in 1..Len(queue')
    <3>1. CASE i = Len(queue) + 1
      BY <3>1, <2>1, <2>2, <1>a DEF Written
    <3>2. CASE i \in 1..Len(queue)
      BY <3>2, <2>1, <2>2 DEF QueueNumbered
    <3>3. QED
      BY <3>1, <3>2, <2>1, <1>a
  <2>4. QED
    BY <2>1, <2>2, <2>3, <1>a DEF QueueNumbered
<1>2. CASE Write \/ WriteFails
  <2>1. queue # <<>> /\ queue' = Tail(queue) /\ sent' = sent
    BY <1>2, Types DEF Write, WriteFails, TakeWrPort, NextSend
  <2>2. QED
    BY <2>1, HeadIsNext
<1>3. CASE queue' = queue /\ sent' = sent
  BY <1>3 DEF QueueNumbered, Written
<1>4. QED
  BY <1>1, <1>2, <1>3
     DEF Next, MainProcess, Card, ReadRegs, ProcessInt, Upload, UploadFails,
         UploadsEnd, StartSend, NoWrPort, CardTakes, CardFills, CardAnswers,
         vars, tx, history

\* The sequence of the packets that passed, and the next one.
LEMMA Extend ==
  ASSUME NEW S, NEW q \in Seq(S), q = [i \in 1..Len(q) |-> i]
  PROVE  /\ Len(Append(q, Len(q) + 1)) = Len(q) + 1
         /\ Append(q, Len(q) + 1) = [i \in 1..(Len(q) + 1) |-> i]
<1>1. Len(q) \in Nat
  OBVIOUS
<1> DEFINE r == Append(q, Len(q) + 1)
<1>2. r = [i \in 1..(Len(q) + 1) |->
             IF i = Len(q) + 1 THEN Len(q) + 1 ELSE q[i]]
  OBVIOUS
<1>3. \A i \in 1..(Len(q) + 1) :
        (IF i = Len(q) + 1 THEN Len(q) + 1 ELSE q[i]) = i
  <2> TAKE i \in 1..(Len(q) + 1)
  <2>1. CASE i = Len(q) + 1
    BY <2>1
  <2>2. CASE i \in 1..Len(q)
    <3>1. q[i] = i
      BY <2>2
    <3>2. QED
      BY <3>1, <2>2, <1>1
  <2>3. QED
    BY <2>1, <2>2, <1>1
<1>4. QED
  BY <1>1, <1>2, <1>3

LEMMA InStepStep ==
  TypeOK /\ BitmapsSound /\ QueueNumbered /\ InStep /\ [Next]_vars => InStep'
<1> SUFFICES ASSUME TypeOK, BitmapsSound, QueueNumbered, InStep, [Next]_vars,
                    ~failed'
             PROVE  TxInStep' /\ RxInStep'
  BY DEF InStep
<1>a. Types!2
  BY Types
<1>b. ~failed
  BY DEF Next, MainProcess, Card, Queue, ReadRegs, ProcessInt, Upload,
         UploadFails, UploadsEnd, StartSend, NoWrPort, Write, WriteFails,
         CardTakes, CardFills, CardAnswers, vars
<1>c. TxInStep /\ RxInStep
  BY <1>b DEF InStep
<1>d. /\ Len(queue) \in Nat /\ Len(taken) \in Nat /\ Len(got) \in Nat
      /\ Written \in Nat
  BY <1>a DEF QueueNumbered, Written
<1>1. CASE Queue
  <2>1. Written' = Written
    BY <1>1, <1>a, <1>d, AppendProperties DEF Queue, Written
  <2>2. QED
    BY <1>1, <1>c, <2>1 DEF Queue, rx, int, card, TxInStep, RxInStep
<1>2. CASE ReadRegs \/ ProcessInt \/ UploadsEnd \/ StartSend \/ NoWrPort
           \/ UNCHANGED vars
  <2>1. UNCHANGED <<queue, sent, wr, rd, taken, got, filled, currWr, currRd,
                    cardWr, cardRd>>
    BY <1>2 DEF ReadRegs, ProcessInt, UploadsEnd, StartSend, NoWrPort, vars,
                tx, rx, card, history
  <2>2. QED
    BY <2>1, <1>c DEF TxInStep, RxInStep, Written
<1>3. CASE Upload
  <2> PICK p \in RdPorts : Upload!(p)
    BY <1>3 DEF Upload
  <2>1. TxInStep'
    BY <1>c DEF TxInStep, Written, tx
  <2>2. p \in rdBitmap /\ (p = 0 \/ p = currRd) /\ rd[p] # 0
    BY DEF TakeRdPort, RdPort, BitmapsSound
  <2>3. CASE p = 0
    <3>1. \A o \in 1..(MaxPort - 1) : rd'[o] = rd[o]
      BY <2>3, <1>a, Sizes
    <3>2. Holds(rd', Len(got), filled, MaxPort - 1)
      BY <3>1, <1>a, <1>c, <1>d, Sizes, RingKept DEF RxInStep
    <3>3. QED
      BY <2>1, <2>3, <3>2, <1>c DEF RxInStep, TakeRdPort
  <2>4. CASE p # 0
    <3>1. p = PortOf(Len(got) + 1, MaxPort - 1)
      BY <2>2, <2>4, <1>c DEF RxInStep
    <3>2. /\ rd[p] = Len(got) + 1
          /\ Holds(rd', Len(got) + 1, filled, MaxPort - 1)
      BY <3>1, <2>2, <1>a, <1>c, <1>d, Sizes, RingTake DEF RxInStep
    <3>3. /\ got' = Append(got, Len(got) + 1) /\ Len(got') = Len(got) + 1
          /\ got' = [i \in 1..Len(got') |-> i]
      BY <2>4, <3>2, <1>a, <1>c, Extend DEF RxInStep
    <3>4. currRd' = PortOf(Len(got) + 1 + 1, MaxPort - 1)
      BY <2>4, <3>1, <1>d, Sizes, IndexNext, SdioPortsAssumption
         DEF TakeRdPort
    <3>5. QED
      BY <2>1, <3>2, <3>3, <3>4, <1>c DEF RxInStep
  <2>5. QED
    BY <2>3, <2>4
<1>4. CASE Write
  <2>1. RxInStep'
    BY <1>4, <1>c DEF Write, RxInStep, rx
  <2>2. queue # <<>> /\ queue' = Tail(queue) /\ sent' = sent
    BY <1>4, <1>a DEF Write, TakeWrPort, NextSend
  <2>3. Head(queue) = Written + 1 /\ Written' = Written + 1
    BY <2>2, HeadIsNext
  <2>4. /\ currWr = PortOf(Written + 1, EndPort - 1) /\ wr[currWr] = 0
        /\ wr' = [wr EXCEPT ![currWr] = Written + 1]
    BY <1>4, <1>c, <2>3 DEF Write, TakeWrPort, TxInStep, BitmapsSound
  <2>5. Holds(wr', Len(taken), Written + 1, EndPort - 1)
    BY <2>4, <1>a, <1>c, <1>d, Sizes, RingPut DEF TxInStep
  <2>6. currWr' = PortOf(Written + 1 + 1, EndPort - 1)
    BY <1>4, <2>4, <1>d, Sizes, IndexNext, SdioPortsAssumption
       DEF Write, TakeWrPort
  <2>7. QED
    BY <1>4, <2>1, <2>3, <2>5, <2>6, <1>c DEF Write, TxInStep
<1>5. CASE CardTakes
  <2>1. RxInStep'
    BY <1>5, <1>c DEF CardTakes, RxInStep, rx
  <2>2. cardWr = PortOf(Len(taken) + 1, EndPort - 1) /\ wr[cardWr] # 0
    BY <1>5, <1>c DEF CardTakes, TxInStep
  <2>3. /\ wr[cardWr] = Len(taken) + 1
        /\ Holds(wr', Len(taken) + 1, Written, EndPort - 1)
    <3>1. wr' = [wr EXCEPT ![PortOf(Len(taken) + 1, EndPort - 1)] = 0]
      BY <1>5, <2>2 DEF CardTakes
    <3>2. Holds(wr, Len(taken), Written, EndPort - 1)
      BY <1>c DEF TxInStep
    <3>3. 1..(EndPort - 1) \subseteq WrPorts
      BY Sizes
    <3>4. QED
      BY <2>2, <3>1, <3>2, <3>3, <1>a, <1>d, Sizes, RingTake
  <2>4. /\ Len(taken') = Len(taken) + 1
        /\ taken' = [i \in 1..Len(taken') |-> i]
    BY <1>5, <2>3, <1>a, <1>c, Extend DEF CardTakes, TxInStep
  <2>5. cardWr' = PortOf(Len(taken) + 1 + 1, EndPort - 1)
    BY <1>5, <2>2, <1>d, Sizes, IndexNext, SdioPortsAssumption DEF CardTakes
  <2>6. UNCHANGED <<queue, sent, currWr>>
    BY <1>5 DEF CardTakes, tx
  <2>7. QED
    BY <2>1, <2>3, <2>4, <2>5, <2>6, <1>c DEF TxInStep, Written
<1>6. CASE CardFills
  <2>1. TxInStep'
    BY <1>6, <1>c DEF CardFills, TxInStep, Written, tx
  <2>2. /\ cardRd = PortOf(filled + 1, MaxPort - 1) /\ rd[cardRd] = 0
        /\ rd' = [rd EXCEPT ![cardRd] = filled + 1] /\ filled' = filled + 1
    BY <1>6, <1>c DEF CardFills, RxInStep
  <2>3. Holds(rd', Len(got), filled + 1, MaxPort - 1)
    BY <2>2, <1>a, <1>c, <1>d, Sizes, RingPut DEF RxInStep
  <2>4. cardRd' = PortOf(filled + 1 + 1, MaxPort - 1)
    BY <1>6, <2>2, <1>a, Sizes, IndexNext, SdioPortsAssumption DEF CardFills
  <2>5. QED
    BY <1>6, <2>1, <2>2, <2>3, <2>4, <1>c DEF CardFills, RxInStep, rx
<1>7. CASE CardAnswers
  <2>1. \A o \in 1..(MaxPort - 1) : rd'[o] = rd[o]
    BY <1>7, <1>a, Sizes DEF CardAnswers
  <2>2. Holds(rd', Len(got), filled, MaxPort - 1)
    BY <2>1, <1>a, <1>c, <1>d, Sizes, RingKept DEF RxInStep
  <2>3. QED
    BY <1>7, <2>2, <1>c DEF CardAnswers, TxInStep, RxInStep, Written, tx, rx,
                            history
<1>8. ~UploadFails /\ ~WriteFails
  BY DEF UploadFails, WriteFails
<1>9. QED
  BY <1>1, <1>2, <1>3, <1>4, <1>5, <1>6, <1>7, <1>8
     DEF Next, MainProcess, Card

-----------------------------------------------------------------------------
\* The inductive invariant holds for rings of every size.
THEOREM Invariance == Spec => []Inv
<1>1. Inv /\ [Next]_vars => Inv'
  BY TypeStep, BitmapsStep, NumberedStep, InStepStep DEF Inv
<1>2. QED
  BY <1>1, InitInv, PTL DEF Spec

\* TypeOK: the indexes stay on the rings, the bitmaps in the masks.
THEOREM TypeCorrect == Spec => []TypeOK
<1>1. Inv => TypeOK
  BY DEF Inv
<1>2. QED
  BY <1>1, Invariance, PTL

\* NeverOverwrites: what the host takes for a free port is free, though it
\* looks at a copy of the registers, and whatever transfers fail.
THEOREM NoPortOverwritten == Spec => []NeverOverwrites
<1>1. Inv => NeverOverwrites
  BY DEF Inv, BitmapsSound, NeverOverwrites
<1>2. QED
  BY <1>1, Invariance, PTL

\* InOrder: while no transfer fails, both ways the packets pass in the order
\* in which they were sent, without a gap.
THEOREM PassedInOrder == Spec => []InOrder
<1>1. Inv => InOrder
  BY DEF Inv, InStep, TxInStep, RxInStep, InOrder
<1>2. QED
  BY <1>1, Invariance, PTL

-----------------------------------------------------------------------------
(***************************************************************************)
(* Nothing gets through twice, whatever fails: a packet that was written   *)
(* is in one port at most, or was taken, and never both.                   *)
(***************************************************************************)

\* Ports P of ring f and what has passed, s, hold different packets up to b.
Distinct(f, P, s, b) ==
  /\ IsInjective(s)
  /\ \A i \in 1..Len(s) : s[i] \in 1..b
  /\ \A p \in P : f[p] # 0 =>
       f[p] \in 1..b /\ \A i \in 1..Len(s) : s[i] # f[p]
  /\ \A p, o \in P : f[p] # 0 /\ f[p] = f[o] => p = o

Once ==
  /\ Distinct(wr, WrPorts, taken, Written)
  /\ Distinct(rd, 1..(MaxPort - 1), got, filled)
  /\ cardRd # 0

\* A new packet, in a port or lost on the way to it.
LEMMA DistinctPut ==
  ASSUME NEW S, NEW f \in [S -> Nat], NEW P \in SUBSET S, NEW s \in Seq(Nat),
         NEW b \in Nat, Distinct(f, P, s, b), NEW p \in P
  PROVE  /\ Distinct(f, P, s, b + 1)
         /\ Distinct([f EXCEPT ![p] = b + 1], P, s, b + 1)
<1> DEFINE g == [f EXCEPT ![p] = b + 1]
<1>1. \A x \in 1..b : x \in 1..(b + 1) /\ x # b + 1
  OBVIOUS
<1>2. Distinct(f, P, s, b + 1)
  BY <1>1 DEF Distinct
<1>3. Distinct(g, P, s, b + 1)
  <2>1. \A o \in P : g[o] = IF o = p THEN b + 1 ELSE f[o]
    OBVIOUS
  <2>2. \A i \in 1..Len(s) : s[i] \in 1..(b + 1) /\ s[i] # b + 1
    BY <1>1 DEF Distinct
  <2>3. \A o \in P : f[o] # b + 1
    BY <1>1 DEF Distinct
  <2>4. b + 1 \in 1..(b + 1)
    OBVIOUS
  <2> HIDE DEF g
  <2>5. \A o \in P : g[o] # 0 =>
          g[o] \in 1..(b + 1) /\ \A i \in 1..Len(s) : s[i] # g[o]
    BY <1>1, <2>1, <2>2, <2>4 DEF Distinct
  <2>6. \A q, o \in P : g[q] # 0 /\ g[q] = g[o] => q = o
    BY <2>1, <2>3 DEF Distinct
  <2>7. QED
    BY <2>2, <2>5, <2>6 DEF Distinct
<1>4. QED
  BY <1>2, <1>3

\* A port is emptied, and its packet passes or is lost.
LEMMA DistinctTake ==
  ASSUME NEW S, NEW f \in [S -> Nat], NEW P \in SUBSET S, NEW s \in Seq(Nat),
         NEW b \in Nat, Distinct(f, P, s, b), NEW p \in P, f[p] # 0
  PROVE  /\ Distinct([f EXCEPT ![p] = 0], P, s, b)
         /\ Distinct([f EXCEPT ![p] = 0], P, Append(s, f[p]), b)
<1> DEFINE g == [f EXCEPT ![p] = 0]
           r == Append(s, f[p])
<1>1. \A o \in P : g[o] = IF o = p THEN 0 ELSE f[o]
  OBVIOUS
<1>2. /\ Len(s) \in Nat /\ Len(r) = Len(s) + 1 /\ r \in Seq(Nat)
      /\ \A i \in 1..Len(r) : r[i] = IF i \in 1..Len(s) THEN s[i] ELSE f[p]
      /\ DOMAIN r = 1..Len(r) /\ DOMAIN s = 1..Len(s)
  OBVIOUS
<1> HIDE DEF g, r
<1>3. Distinct(g, P, s, b)
  BY <1>1 DEF Distinct
<1>4. \A i \in 1..Len(s) : s[i] # f[p]
  BY DEF Distinct
<1>5. IsInjective(r)
  BY <1>2, <1>4 DEF Distinct, IsInjective
<1>6. \A i \in 1..Len(r) : r[i] \in 1..b
  BY <1>2 DEF Distinct
<1>7. \A o \in P : g[o] # 0 =>
        g[o] \in 1..b /\ \A i \in 1..Len(r) : r[i] # g[o]
  BY <1>1, <1>2 DEF Distinct
<1>8. Distinct(g, P, r, b)
  BY <1>3, <1>5, <1>6, <1>7 DEF Distinct
<1>9. QED
  BY <1>3, <1>8 DEF g, r

LEMMA DistinctKept ==
  ASSUME NEW f, NEW g, NEW P, NEW s, NEW b, Distinct(f, P, s, b),
         \A p \in P : g[p] = f[p]
  PROVE  Distinct(g, P, s, b)
  BY DEF Distinct

LEMMA OnceStep ==
  ASSUME TypeOK, BitmapsSound, QueueNumbered, Once, [Next]_vars
  PROVE  Once'
<1>a. Types!2
  BY Types
<1>b. /\ Len(queue) \in Nat /\ Written \in Nat
      /\ taken \in Seq(Nat) /\ got \in Seq(Nat)
  <2>1. taken \in Seq(Nat)
    <3>1. taken \in [1..Len(taken) -> 1..MaxTx] /\ Len(taken) \in Nat
      BY <1>a, LenProperties
    <3>2. taken \in [1..Len(taken) -> Nat]
      BY <3>1, SdioPortsAssumption
    <3>3. QED
      BY <3>1, <3>2, SeqDef
  <2>2. QED
    BY <1>a, <2>1 DEF QueueNumbered, Written
<1>c. 1..(MaxPort - 1) \in SUBSET RdPorts
  BY Sizes
<1> DEFINE Tx == Distinct(wr, WrPorts, taken, Written)
           Rx == Distinct(rd, 1..(MaxPort - 1), got, filled)
<1>d. Tx /\ Rx /\ cardRd # 0
  BY DEF Once
<1>1. CASE Queue
  <2>1. Written' = Written
    BY <1>1, <1>a, <1>b, AppendProperties DEF Queue, Written
  <2>2. QED
    BY <1>1, <1>d, <2>1 DEF Queue, rx, int, card, Once
<1>2. CASE ReadRegs \/ ProcessInt \/ UploadsEnd \/ StartSend \/ NoWrPort
           \/ UNCHANGED vars
  <2>1. UNCHANGED <<queue, sent, wr, rd, taken, got, filled, cardRd>>
    BY <1>2 DEF ReadRegs, ProcessInt, UploadsEnd, StartSend, NoWrPort, vars,
                tx, rx, card, history
  <2>2. QED
    BY <2>1, <1>d DEF Once, Written
<1>3. CASE Upload \/ UploadFails
  <2>1. PICK p \in RdPorts :
          /\ TakeRdPort(p) /\ rd' \in {rd, [rd EXCEPT ![p] = 0]}
          /\ \/ got' = got
             \/ /\ p # 0 /\ got' = Append(got, rd[p])
                /\ rd' = [rd EXCEPT ![p] = 0]
    BY <1>3 DEF Upload, UploadFails, history
  <2>2. UNCHANGED <<wr, taken, queue, sent, filled, cardRd>>
    BY <1>3 DEF Upload, UploadFails, tx, history
  <2>3. rd[p] # 0
    BY <2>1 DEF TakeRdPort, RdPort, BitmapsSound
  <2>4. Tx'
    BY <1>d, <2>2 DEF Written
  <2>5. CASE p = 0
    <3>1. \A o \in 1..(MaxPort - 1) : rd'[o] = rd[o]
      <4>1. CASE rd' = rd
        BY <4>1
      <4>2. CASE rd' = [rd EXCEPT ![p] = 0]
        BY <4>2, <2>5, <1>a, Sizes
      <4>3. QED
        BY <2>1, <4>1, <4>2
    <3>2. Distinct(rd', 1..(MaxPort - 1), got, filled)
      BY <1>d, <3>1, DistinctKept
    <3>3. QED
      BY <2>1, <2>2, <2>4, <2>5, <3>2, <1>d DEF Once
  <2>6. CASE p # 0
    <3>1. p \in 1..(MaxPort - 1)
      BY <2>6, Sizes
    <3>2. /\ Distinct([rd EXCEPT ![p] = 0], 1..(MaxPort - 1), got, filled)
          /\ Distinct([rd EXCEPT ![p] = 0], 1..(MaxPort - 1),
                      Append(got, rd[p]), filled)
      BY <1>a, <1>c, <1>d, <2>3, <3>1, DistinctTake
    <3>3. Rx'
      BY <1>d, <2>1, <2>2, <3>2
    <3>4. QED
      BY <2>2, <2>4, <3>3, <1>d DEF Once
  <2>7. QED
    BY <2>5, <2>6
<1>4. CASE Write \/ WriteFails
  <2>1. /\ queue # <<>> /\ queue' = Tail(queue) /\ sent' = sent
        /\ wr' \in {wr, [wr EXCEPT ![currWr] = Head(queue)]}
        /\ UNCHANGED <<rd, taken, got, filled, cardRd>>
    BY <1>4, <1>a DEF Write, WriteFails, TakeWrPort, NextSend
  <2>2. Head(queue) = Written + 1 /\ Written' = Written + 1
    BY <2>1, HeadIsNext
  <2>3. Distinct(wr', WrPorts, taken, Written + 1)
    <3>1. wr' \in {wr, [wr EXCEPT ![currWr] = Written + 1]}
      BY <2>1, <2>2
    <3>2. WrPorts \in SUBSET WrPorts
      OBVIOUS
    <3>3. /\ wr \in [WrPorts -> Nat] /\ currWr \in WrPorts
          /\ taken \in Seq(Nat) /\ Written \in Nat
      BY <1>a, <1>b, SdioPortsAssumption
    <3>4. /\ Distinct(wr, WrPorts, taken, Written + 1)
          /\ Distinct([wr EXCEPT ![currWr] = Written + 1], WrPorts, taken,
                      Written + 1)
      BY <1>d, <3>2, <3>3, DistinctPut
    <3>5. QED
      BY <3>1, <3>4
  <2>4. QED
    BY <2>1, <2>2, <2>3, <1>d DEF Once
<1>5. CASE CardTakes
  <2>1. /\ wr[cardWr] # 0 /\ taken' = Append(taken, wr[cardWr])
        /\ wr' = [wr EXCEPT ![cardWr] = 0]
        /\ UNCHANGED <<queue, sent, rd, got, filled, cardRd>>
    BY <1>5 DEF CardTakes, tx
  <2>2. Distinct(wr', WrPorts, taken', Written)
    <3>1. WrPorts \in SUBSET WrPorts
      OBVIOUS
    <3>2. QED
      BY <1>a, <1>b, <1>d, <2>1, <3>1, DistinctTake
  <2>3. QED
    BY <2>1, <2>2, <1>d DEF Once, Written
<1>6. CASE CardFills
  <2>1. /\ rd' = [rd EXCEPT ![cardRd] = filled + 1] /\ filled' = filled + 1
        /\ UNCHANGED <<queue, sent, wr, taken, got>>
        /\ cardRd' = After(cardRd, MaxPort)
    BY <1>6 DEF CardFills, tx
  <2>2. cardRd \in 1..(MaxPort - 1) /\ cardRd' # 0
    BY <2>1, <1>a, <1>d, Sizes DEF After
  <2>3. Distinct(rd', 1..(MaxPort - 1), got, filled + 1)
    BY <1>a, <1>b, <1>c, <1>d, <2>1, <2>2, DistinctPut
  <2>4. QED
    BY <2>1, <2>2, <2>3, <1>d DEF Once, Written
<1>7. CASE CardAnswers
  <2>1. \A o \in 1..(MaxPort - 1) : rd'[o] = rd[o]
    BY <1>7, <1>a, Sizes DEF CardAnswers
  <2>2. Distinct(rd', 1..(MaxPort - 1), got, filled)
    BY <1>d, <2>1, DistinctKept
  <2>3. QED
    BY <1>7, <2>2, <1>d DEF CardAnswers, Once, Written, tx, history
<1>8. QED
  BY <1>1, <1>2, <1>3, <1>4, <1>5, <1>6, <1>7 DEF Next, MainProcess, Card

\* OnceOnly: whatever transfers fail, on either side of the bus, the card
\* takes no packet twice and the host gets none twice.
THEOREM PassedOnce == Spec => []OnceOnly
<1>1. Init => Once
  BY Sizes DEF Init, Once, Distinct, Written, IsInjective
<1>2. Inv /\ Once /\ [Next]_vars => Once'
  BY OnceStep DEF Inv
<1>3. Once => OnceOnly
  BY DEF Once, OnceOnly, Distinct
<1>4. QED
  BY <1>1, <1>2, <1>3, Invariance, PTL DEF Spec

-----------------------------------------------------------------------------
(***************************************************************************)
(* No packet goes back to its list while no transfer fails: a port is      *)
(* there for every packet that is tried.  If any port of the ring is free, *)
(* that of the next packet is, so that data_sent tells whether             *)
(* wlan_get_wr_port_data will find one.                                    *)
(***************************************************************************)

LEMMA ModUnique ==
  ASSUME NEW n \in Nat \ {0}, NEW x \in Nat, NEW c \in Int,
         NEW r \in 0..(n - 1), x = n * c + r
  PROVE  x % n = r
<1> DEFINE q == x \div n
           s == x % n
<1>1. x = n * q + s /\ q \in Int /\ s \in 0..(n - 1)
  BY Z3
<1> HIDE DEF q, s
<1>2. n * (q - c) = n * q - n * c
  BY <1>1, Z3
<1>3. n * q - n * c = r - s
  BY <1>1, Z3
<1>4. q - c = 0
  BY <1>1, <1>2, <1>3, SmallMultiple
<1>5. r = s
  BY <1>1, <1>3, <1>4
<1>6. QED
  BY <1>5 DEF s

\* Two packets with the same port are a round apart.
LEMMA RoundApart ==
  ASSUME NEW n \in Nat \ {0}, NEW i \in Nat \ {0}, NEW j \in Nat \ {0},
         i < j, PortOf(i, n) = PortOf(j, n)
  PROVE  j - i >= n
<1> DEFINE q == (i - 1) \div n
           r == (i - 1) % n
           k == (j - 1) \div n
<1>1. i - 1 = n * q + r /\ q \in Int /\ r \in 0..(n - 1)
  BY Z3
<1>2. (j - 1) % n = r
  <2>1. (j - 1) % n \in Int /\ (i - 1) % n \in Int
    BY Z3
  <2>2. ((i - 1) % n) + 1 = ((j - 1) % n) + 1
    BY DEF PortOf
  <2>3. QED
    BY <2>1, <2>2
<1>3. j - 1 = n * k + r /\ k \in Int
  <2>1. j - 1 = n * k + ((j - 1) % n) /\ k \in Int
    BY Z3
  <2>2. QED
    BY <2>1, <1>2
<1> HIDE DEF q, r, k
<1>4. n * (k - q) = n * k - n * q
  BY <1>1, <1>3, Z3
<1>5. n * (k - q) = j - i
  BY <1>1, <1>3, <1>4
<1>6. SUFFICES ASSUME j - i < n PROVE FALSE
  OBVIOUS
<1>7. k - q = 0
  BY <1>1, <1>3, <1>5, <1>6, SmallMultiple
<1>8. QED
  BY <1>1, <1>3, <1>5, <1>7

\* A round of packets has every port: how far packet i is from port p.
Ahead(i, p, n) ==
  IF p >= PortOf(i, n) THEN p - PortOf(i, n) ELSE p - PortOf(i, n) + n

LEMMA RoundHasPort ==
  ASSUME NEW n \in Nat \ {0}, NEW i \in Nat \ {0}, NEW p \in 1..n
  PROVE  Ahead(i, p, n) \in 0..(n - 1) /\ PortOf(i + Ahead(i, p, n), n) = p
<1> DEFINE q == (i - 1) \div n
           r == (i - 1) % n
           k == IF p - 1 >= r THEN p - 1 - r ELSE p - 1 - r + n
           c == IF p - 1 >= r THEN q ELSE q + 1
<1>1. i - 1 = n * q + r /\ q \in Int /\ r \in 0..(n - 1)
  BY Z3
<1> HIDE DEF q, r
<1>2. k \in 0..(n - 1) /\ c \in Int
  BY <1>1
<1>3. i + k - 1 = n * c + (p - 1)
  <2>1. n * (q + 1) = n * q + n
    BY <1>1, Z3
  <2>2. QED
    BY <1>1, <2>1
<1> HIDE DEF k, c
<1>4. (i + k - 1) % n = p - 1
  <2> DEFINE x == i + k - 1
             o == p - 1
  <2>1. x \in Nat /\ o \in 0..(n - 1) /\ x = n * c + o
    BY <1>2, <1>3
  <2> HIDE DEF x, o
  <2>2. x % n = o
    BY <1>2, <2>1, ModUnique, SMTT(30)
  <2>3. QED
    BY <2>2 DEF x, o
<1>5. PortOf(i + k, n) = p
  <2>1. i + k - 1 + 1 = i + k /\ p - 1 + 1 = p
    BY <1>2
  <2>2. PortOf(i + k, n) = ((i + k - 1) % n) + 1
    BY <1>2 DEF PortOf
  <2>3. QED
    BY <1>4, <2>1, <2>2
<1>6. k = Ahead(i, p, n)
  <2>1. PortOf(i, n) = r + 1
    BY DEF PortOf, r
  <2>2. QED
    BY <1>1, <2>1 DEF Ahead, k
<1>7. QED
  BY <1>2, <1>5, <1>6

\* If the port of the next packet is taken, every port is.
LEMMA NextIsFree ==
  ASSUME NEW n \in Nat \ {0}, NEW f, NEW a \in Nat, NEW b \in Nat,
         NEW p \in 1..n
  PROVE  Holds(f, a, b, n) /\ f[p] = 0 => f[PortOf(b + 1, n)] = 0
<1>1. SUFFICES ASSUME Holds(f, a, b, n), f[PortOf(b + 1, n)] # 0
               PROVE  f[p] # 0
  OBVIOUS
<1>2. PortOf(b + 1, n) \in 1..n
  BY PortNext
<1>3. PICK j \in (a + 1)..b : PortOf(j, n) = PortOf(b + 1, n)
  BY <1>1, <1>2 DEF Holds
<1>4. j \in Nat \ {0} /\ b + 1 \in Nat \ {0} /\ j < b + 1
  OBVIOUS
<1>5. b + 1 - j >= n
  BY <1>3, <1>4, RoundApart
<1> DEFINE k == Ahead(j, p, n)
<1>6. k \in 0..(n - 1) /\ PortOf(j + k, n) = p
  BY <1>4, RoundHasPort
<1> HIDE DEF k
<1>7. j + k \in (a + 1)..b /\ j + k # 0
  BY <1>5, <1>6
<1>8. f[p] = j + k
  BY <1>1, <1>6, <1>7 DEF Holds
<1>9. QED
  BY <1>7, <1>8

\* What data_sent and the bitmaps say, while no transfer fails.
PortThere ==
  /\ ~requeued
  /\ ~dataSent => currWr \in wrBitmap
  /\ pc = "send" => ~dataSent
  /\ pc = "int" => /\ wrBitmap \subseteq regs.wr
                   /\ regs.wr # {} => currWr \in regs.wr

AllCompleted == \A i \in 1..Written : i \in completed

Kept == ~failed => PortThere /\ AllCompleted

LEMMA KeptStep ==
  ASSUME Inv, Kept, [Next]_vars
  PROVE  Kept'
<1> SUFFICES ASSUME ~failed' PROVE PortThere' /\ AllCompleted'
  BY DEF Kept
<1>a. Types!2 /\ TypeOK /\ requeued \in BOOLEAN /\ dataSent \in BOOLEAN
  BY Types DEF Inv, TypeOK
<1>b. ~failed /\ ~UploadFails /\ ~WriteFails
  BY DEF Next, MainProcess, Card, Queue, ReadRegs, ProcessInt, Upload,
         UploadFails, UploadsEnd, StartSend, NoWrPort, Write, WriteFails,
         CardTakes, CardFills, CardAnswers, vars
<1>c. PortThere /\ AllCompleted /\ BitmapsSound /\ QueueNumbered /\ TxInStep
  BY <1>b DEF Kept, Inv, InStep
<1>d. Len(queue) \in Nat /\ Len(taken) \in Nat /\ Written \in Nat
  BY <1>a, <1>c DEF QueueNumbered, Written
<1>1. CASE Queue
  <2>1. Written' = Written
    BY <1>1, <1>a, <1>d, AppendProperties DEF Queue, Written
  <2>2. QED
    BY <1>1, <1>c, <2>1 DEF Queue, rx, int, card, PortThere, AllCompleted
<1>2. CASE ReadRegs
  <2>1. AllCompleted' /\ UNCHANGED <<requeued, dataSent, wrBitmap, currWr>>
    BY <1>2, <1>c DEF ReadRegs, tx, history, AllCompleted, Written
  <2>2. regs'.wr = {p \in WrPorts : wr[p] = 0} /\ pc' = "int"
    BY <1>2 DEF ReadRegs
  <2>3. wrBitmap \subseteq regs'.wr
    BY <2>2, <1>a, <1>c DEF BitmapsSound
  <2>4. ASSUME NEW p \in regs'.wr PROVE currWr \in regs'.wr
    <3>1. /\ Holds(wr, Len(taken), Written, EndPort - 1)
          /\ currWr = PortOf(Written + 1, EndPort - 1)
      BY <1>c DEF TxInStep
    <3>2. /\ p \in 1..(EndPort - 1) /\ wr[p] = 0
          /\ wr \in [1..(EndPort - 1) -> Nat] /\ EndPort - 1 \in Nat \ {0}
      BY <2>2, <2>4, <1>a, Sizes
    <3>3. wr[currWr] = 0
      BY <1>d, <3>1, <3>2, NextIsFree
    <3>4. QED
      BY <2>2, <3>3, <1>a
  <2>5. QED
    BY <2>1, <2>2, <2>3, <2>4, <1>c DEF PortThere
<1>3. CASE ProcessInt
  <2>1. AllCompleted' /\ UNCHANGED <<requeued, currWr>>
    BY <1>3, <1>c DEF ProcessInt, history, AllCompleted, Written
  <2>2. pc' = "send" => ~dataSent'
    <3>1. CASE "up" \in ireg
      BY <1>3, <3>1 DEF ProcessInt
    <3>2. CASE "up" \notin ireg
      <4>1. pc' = ThenSend(dataSent')
        BY <1>3, <3>2 DEF ProcessInt
      <4>2. QED
        BY <4>1 DEF ThenSend
    <3>3. QED
      BY <3>1, <3>2
  <2>3. pc' # "int"
    <3>1. pc' = "upload" \/ pc' = ThenSend(dataSent')
      BY <1>3 DEF ProcessInt
    <3>2. QED
      BY <3>1 DEF ThenSend
  <2>4. ~dataSent' => currWr \in wrBitmap'
    <3>1. CASE "dn" \in ireg
      BY <1>3, <1>c, <3>1 DEF ProcessInt, PortThere
    <3>2. CASE "dn" \notin ireg
      BY <1>3, <1>c, <3>2 DEF ProcessInt, PortThere
    <3>3. QED
      BY <3>1, <3>2
  <2>5. QED
    BY <2>1, <2>2, <2>3, <2>4, <1>c DEF PortThere
<1>4. CASE Upload \/ CardTakes \/ CardFills \/ CardAnswers \/ UNCHANGED vars
  <2>1. /\ UNCHANGED <<queue, sent, completed>>
        /\ UNCHANGED <<requeued, dataSent, wrBitmap, currWr, regs, pc>>
    BY <1>4 DEF Upload, CardTakes, CardFills, CardAnswers, vars, tx, int,
                history
  <2>2. QED
    BY <2>1, <1>c DEF PortThere, AllCompleted, Written
<1>5. CASE UploadsEnd \/ StartSend
  <2>1. /\ UNCHANGED <<queue, sent, completed>>
        /\ UNCHANGED <<requeued, dataSent, wrBitmap, currWr>>
        /\ pc' # "int" /\ (pc' = "send" => ~dataSent)
    BY <1>5 DEF UploadsEnd, StartSend, ThenSend, tx, history
  <2>2. QED
    BY <2>1, <1>c DEF PortThere, AllCompleted, Written
<1>6. CASE NoWrPort
  BY <1>6, <1>c DEF NoWrPort, PortThere
<1>7. CASE Write
  <2>1. /\ queue # <<>> /\ queue' = Tail(queue) /\ sent' = sent
        /\ ~requeued' /\ completed' = completed \cup {Head(queue)}
    BY <1>7, <1>a, <1>c DEF Write, TakeWrPort, NextSend, PortThere
  <2>2. Head(queue) = Written + 1 /\ Written' = Written + 1
    BY <1>a, <1>c, <2>1, HeadIsNext
  <2>3. AllCompleted'
    BY <1>c, <1>d, <2>1, <2>2 DEF AllCompleted
  <2>4. /\ ~dataSent' => currWr' \in wrBitmap'
        /\ pc' # "int"
    BY <1>7 DEF Write, NextSend
  <2>5. pc' = "send" => ~dataSent'
    BY <1>7 DEF Write, NextSend
  <2>6. QED
    BY <2>1, <2>3, <2>4, <2>5 DEF PortThere
<1>8. QED
  BY <1>b, <1>1, <1>2, <1>3, <1>4, <1>5, <1>6, <1>7
     DEF Next, MainProcess, Card

\* NoneForgotten: while no transfer fails, every packet that has left its
\* list was completed by wlan_send_single_packet; none is put back for
\* wlan_send_processed_packet, which would send it and not free it.
THEOREM EveryPacketCompleted == Spec => []NoneForgotten
<1>1. Init => Kept
  BY DEF Init, Kept, PortThere, AllCompleted, Written
<1>2. Inv /\ Kept /\ [Next]_vars => Kept'
  BY KeptStep
<1>3. Inv /\ Kept => NoneForgotten
  <2> SUFFICES ASSUME Inv, Kept, ~failed, NEW i \in 1..sent
               PROVE  i \in completed \/ i \in Range(queue)
    BY DEF NoneForgotten
  <2>1. /\ queue \in Seq(1..MaxTx) /\ sent \in Nat /\ Len(queue) \in Nat
        /\ DOMAIN queue = 1..Len(queue)
    BY Types DEF Inv
  <2>2. CASE i <= Written
    BY <2>1, <2>2 DEF Kept, AllCompleted
  <2>3. CASE ~(i <= Written)
    <3>1. i - Written \in 1..Len(queue)
      BY <2>1, <2>3 DEF Written
    <3>2. queue[i - Written] = i
      BY <2>1, <3>1 DEF Inv, QueueNumbered, Written
    <3>3. QED
      BY <2>1, <3>1, <3>2 DEF Range
  <2>4. QED
    BY <2>2, <2>3
<1>4. QED
  BY <1>1, <1>2, <1>3, Invariance, PTL DEF Spec

-----------------------------------------------------------------------------
(***************************************************************************)
(* Either direction implements PacketChannel.                              *)
(***************************************************************************)

\* The packets in ports P of ring f.
Ports(f, P) == {f[p] : p \in P} \ {0}

\* The packets in the list are the last that were sent.
LEMMA QueueRange ==
  ASSUME TypeOK, QueueNumbered
  PROVE  Range(queue) = (Written + 1)..sent
<1>1. /\ queue \in Seq(1..MaxTx) /\ sent \in Nat /\ Len(queue) \in Nat
      /\ DOMAIN queue = 1..Len(queue)
  BY Types
<1>2. ASSUME NEW x \in Range(queue) PROVE x \in (Written + 1)..sent
  <2>1. PICK i \in 1..Len(queue) : queue[i] = x
    BY <1>1 DEF Range
  <2>2. QED
    BY <1>1, <2>1 DEF QueueNumbered, Written
<1>3. ASSUME NEW x \in (Written + 1)..sent PROVE x \in Range(queue)
  <2>1. x - Written \in 1..Len(queue)
    BY <1>1 DEF QueueNumbered, Written
  <2>2. queue[x - Written] = x
    BY <1>1, <2>1 DEF QueueNumbered, Written
  <2>3. QED
    BY <1>1, <2>1, <2>2 DEF Range
<1>4. QED
  BY <1>2, <1>3

TxFlight == ((Written + 1)..sent) \cup Ports(wr, WrPorts)
RxFlight == Ports(rd, RdPorts \ {0})

\* What is needed of the state before and after a step.
Safe == TypeOK /\ BitmapsSound /\ QueueNumbered /\ InStep /\ Once

TxKnown ==
  /\ Range(queue) \cup Ports(wr, WrPorts) = TxFlight
  /\ Written \in Nat /\ sent \in Nat /\ Written <= sent
  /\ \A x \in Ports(wr, WrPorts) : x \in 1..Written

LEMMA TxFacts == Safe => TxKnown
<1> SUFFICES ASSUME Safe PROVE TxKnown
  OBVIOUS
<1>1. Range(queue) = (Written + 1)..sent
  BY QueueRange DEF Safe
<1>2. Written \in Nat /\ sent \in Nat /\ Written <= sent
  <2>1. sent \in Nat /\ Len(queue) \in Nat
    BY Types DEF Safe
  <2>2. QED
    BY <2>1 DEF Safe, QueueNumbered, Written
<1>3. \A x \in Ports(wr, WrPorts) : x \in 1..Written
  BY DEF Safe, Once, Distinct, Ports
<1>4. QED
  BY <1>1, <1>2, <1>3 DEF TxFlight, TxKnown

LEMMA TxFactsNext == Safe' => TxKnown'
  BY TxFacts, PTL

LEMMA ToCardStep ==
  ASSUME Safe, Safe', [Next]_vars
  PROVE  [ToCard!Next]_(ToCard!vars)
<1> DEFINE flight == Range(queue) \cup Ports(wr, WrPorts)
<1>a. Types!2
  BY Types DEF Safe
<1>b. /\ flight = TxFlight /\ flight' = TxFlight'
      /\ Written \in Nat /\ sent \in Nat /\ Written <= sent
      /\ Written' \in Nat /\ sent' \in Nat /\ Written' <= sent'
      /\ \A x \in Ports(wr, WrPorts) : x \in 1..Written
  BY TxFacts, TxFactsNext DEF TxKnown
<1>e. /\ wr \in [WrPorts -> Nat] /\ WrPorts \in SUBSET WrPorts
      /\ currWr \in WrPorts /\ cardWr \in WrPorts
      /\ Len(taken) \in Nat
  BY <1>a
<1>c. flight = Range(queue) \cup ({wr[p] : p \in WrPorts} \ {0})
  BY DEF Ports
<1>d. flight' = Range(queue') \cup ({wr'[p] : p \in WrPorts} \ {0})
  BY DEF Ports
<1> HIDE DEF flight
<1>s. ASSUME TxFlight' = TxFlight, UNCHANGED <<sent, taken, failed>>
      PROVE  UNCHANGED ToCard!vars
  BY <1>s, <1>b, <1>c, <1>d DEF ToCard!vars
<1>1. CASE Queue
  <2>1. /\ sent' = sent + 1 /\ UNCHANGED <<wr, taken, failed>>
        /\ queue' = Append(queue, sent + 1)
    BY <1>1 DEF Queue, card
  <2>2. Written' = Written
    BY <2>1, <1>a, AppendProperties DEF Written
  <2>3. TxFlight' = TxFlight \cup {sent + 1}
    BY <1>b, <2>1, <2>2 DEF TxFlight
  <2>4. ToCard!Send
    BY <1>b, <1>c, <1>d, <2>1, <2>3 DEF ToCard!Send
  <2>5. QED
    BY <2>4 DEF ToCard!Next
<1>2. CASE Write \/ WriteFails
  <2>1. /\ queue # <<>> /\ queue' = Tail(queue) /\ sent' = sent
        /\ currWr \in wrBitmap
        /\ wr' \in {wr, [wr EXCEPT ![currWr] = Head(queue)]}
        /\ UNCHANGED taken
        /\ \/ wr' = [wr EXCEPT ![currWr] = Head(queue)] /\ failed' = failed
           \/ ~failed /\ failed'
    BY <1>2, <1>a DEF Write, WriteFails, TakeWrPort, NextSend
  <2>2. Head(queue) = Written + 1 /\ Written' = Written + 1
    BY <2>1, HeadIsNext DEF Safe
  <2>3. CASE wr' = [wr EXCEPT ![currWr] = Head(queue)]
    <3>1. wr[currWr] = 0
      BY <2>1 DEF Safe, BitmapsSound
    <3>2. Written + 1 \in Nat \ {0}
      BY <1>b
    <3>3. Ports(wr', WrPorts) = Ports(wr, WrPorts) \cup {Written + 1}
      <4>1. \A o \in WrPorts :
              wr'[o] = IF o = currWr THEN Written + 1 ELSE wr[o]
        BY <1>e, <2>2, <2>3
      <4>2. Written + 1 # 0 /\ currWr \in WrPorts
        BY <1>e, <3>2
      <4>3. QED
        BY <3>1, <4>1, <4>2 DEF Ports
    <3>4. TxFlight' = TxFlight
      BY <1>b, <2>1, <2>2, <3>3 DEF TxFlight
    <3>5. CASE failed' = failed
      BY <1>s, <2>1, <3>4, <3>5
    <3>6. CASE ~failed /\ failed'
      <4>1. failed' = TRUE
        BY <1>2, <2>1, <3>6 DEF Write, WriteFails
      <4>2. ToCard!Fail
        BY <1>b, <1>c, <1>d, <2>1, <3>4, <3>6, <4>1 DEF ToCard!Fail
      <4>3. QED
        BY <4>2 DEF ToCard!Next
    <3>7. QED
      BY <2>1, <3>5, <3>6
  <2>4. CASE wr' = wr /\ ~failed /\ failed'
    <3>1. Written + 1 \in TxFlight
      BY <1>b, <2>1, <2>2 DEF TxFlight
    <3>2. TxFlight' = TxFlight \ {Written + 1}
      BY <1>b, <2>1, <2>2, <2>4 DEF TxFlight
    <3>3. failed' = TRUE
      BY <1>2, <2>4 DEF Write, WriteFails
    <3>4. ToCard!Fail
      BY <1>b, <1>c, <1>d, <2>1, <2>4, <3>1, <3>2, <3>3 DEF ToCard!Fail
    <3>5. QED
      BY <3>4 DEF ToCard!Next
  <2>5. QED
    BY <2>1, <2>3, <2>4
<1>3. CASE UploadFails
  <2>1. /\ UNCHANGED <<queue, sent, wr, taken>> /\ ~failed /\ failed' = TRUE
    BY <1>3 DEF UploadFails, tx, history
  <2>2. ToCard!Fail
    BY <1>c, <1>d, <2>1 DEF ToCard!Fail
  <2>3. QED
    BY <2>2 DEF ToCard!Next
<1>4. CASE CardTakes
  <2> DEFINE p == wr[cardWr]
  <2>1. /\ p # 0 /\ taken' = Append(taken, p)
        /\ wr' = [wr EXCEPT ![cardWr] = 0]
        /\ UNCHANGED <<queue, sent, failed>>
    BY <1>4 DEF CardTakes, tx
  <2>2. Ports(wr', WrPorts) = Ports(wr, WrPorts) \ {p}
    <3>1. \A q, o \in WrPorts : wr[q] # 0 /\ wr[q] = wr[o] => q = o
      BY DEF Safe, Once, Distinct
    <3>2. \A o \in WrPorts : wr'[o] = IF o = cardWr THEN 0 ELSE wr[o]
      BY <1>e, <2>1
    <3>3. cardWr \in WrPorts
      BY <1>e
    <3>4. QED
      BY <2>1, <3>1, <3>2, <3>3 DEF Ports
  <2>3. p \in Ports(wr, WrPorts)
    BY <1>a, <2>1 DEF Ports
  <2>4. ~failed => \A q \in TxFlight : p <= q
    <3> SUFFICES ASSUME ~failed, NEW q \in TxFlight PROVE p <= q
      OBVIOUS
    <3>1. TxInStep
      BY DEF Safe, InStep
    <3>2. EndPort - 1 \in Nat \ {0} /\ wr \in [1..(EndPort - 1) -> Nat]
          /\ Len(taken) \in Nat /\ 1..(EndPort - 1) = WrPorts
      BY <1>e, Sizes
    <3>3. p = Len(taken) + 1
      <4>1. 1..(EndPort - 1) \subseteq WrPorts /\ wr \in [WrPorts -> Nat]
            /\ wr[PortOf(Len(taken) + 1, EndPort - 1)] # 0
        BY <1>a, <2>1, <3>1, <3>2 DEF TxInStep
      <4>2. Holds(wr, Len(taken), Written, EndPort - 1)
        BY <3>1 DEF TxInStep
      <4>3. wr[PortOf(Len(taken) + 1, EndPort - 1)] = Len(taken) + 1
        BY <1>b, <3>2, <4>1, <4>2, RingTake
      <4>4. QED
        BY <3>1, <4>3 DEF TxInStep
    <3>4. CASE q \in Ports(wr, WrPorts)
      <4>1. q \in (Len(taken) + 1)..Written
        BY <3>1, <3>2, <3>4 DEF TxInStep, Holds, Ports
      <4>2. QED
        BY <1>b, <3>2, <3>3, <4>1
    <3>5. CASE q \in (Written + 1)..sent
      BY <1>b, <2>3, <3>5
    <3>6. QED
      BY <3>4, <3>5 DEF TxFlight
  <2>5. p \in 1..Written
    BY <1>b, <2>3
  <2> HIDE DEF p
  <2>6. Written' = Written
    BY <2>1 DEF Written
  <2>7. TxFlight' = TxFlight \ {p} /\ p \in TxFlight
    <3>1. p \notin (Written + 1)..sent
      BY <1>b, <2>5
    <3>2. sent' = sent
      BY <2>1
    <3>3. QED
      BY <2>2, <2>3, <2>6, <3>1, <3>2 DEF TxFlight
  <2>8. /\ failed \/ \A q \in flight : p <= q
        /\ taken' = Append(taken, p) /\ flight' = flight \ {p}
        /\ UNCHANGED <<sent, failed>>
    BY <1>b, <2>1, <2>4, <2>7
  <2>9. p \in flight
    BY <1>b, <2>7
  <2>10. \E q \in flight : ToCard!Receive(q)
    BY <1>c, <1>d, <2>8, <2>9 DEF ToCard!Receive
  <2>11. QED
    BY <1>c, <2>10 DEF ToCard!Next
<1>5. CASE \/ ReadRegs \/ ProcessInt \/ Upload \/ UploadsEnd \/ StartSend
           \/ NoWrPort \/ CardFills \/ CardAnswers \/ UNCHANGED vars
  <2>1. UNCHANGED <<queue, sent, wr, taken, failed>>
    BY <1>5 DEF ReadRegs, ProcessInt, Upload, UploadsEnd, StartSend, NoWrPort,
                CardFills, CardAnswers, vars, tx, card, history
  <2>2. TxFlight' = TxFlight
    BY <2>1 DEF TxFlight, Written
  <2>3. QED
    BY <1>s, <2>1, <2>2
<1>6. QED
  BY <1>1, <1>2, <1>3, <1>4, <1>5 DEF Next, MainProcess, Card

RxKnown ==
  /\ rd \in [RdPorts -> Nat] /\ cardRd \in RdPorts \ {0}
  /\ filled \in Nat /\ Len(got) \in Nat
  /\ \A x \in RxFlight : x \in 1..filled
  /\ \A p, o \in RdPorts \ {0} : rd[p] # 0 /\ rd[p] = rd[o] => p = o
  /\ \A p \in rdBitmap : rd[p] # 0

LEMMA RxFacts == Safe => RxKnown
<1> SUFFICES ASSUME Safe PROVE RxKnown
  OBVIOUS
<1>1. /\ rd \in [RdPorts -> Nat] /\ cardRd \in RdPorts
      /\ filled \in Nat /\ Len(got) \in Nat
  BY Types DEF Safe
<1>2. 1..(MaxPort - 1) = RdPorts \ {0}
  BY Sizes
<1>3. \A p, o \in RdPorts \ {0} : rd[p] # 0 /\ rd[p] = rd[o] => p = o
  BY <1>2 DEF Safe, Once, Distinct
<1>4. \A x \in RxFlight : x \in 1..filled
  BY <1>2 DEF Safe, Once, Distinct, RxFlight, Ports
<1>5. cardRd # 0 /\ \A p \in rdBitmap : rd[p] # 0
  BY DEF Safe, Once, BitmapsSound
<1>6. QED
  BY <1>1, <1>3, <1>4, <1>5 DEF RxKnown

\* A packet that the host reads in step with the card is the oldest.
LEMMA OldestRead ==
  ASSUME Safe, ~failed, rd[currRd] # 0
  PROVE  rd[currRd] = Len(got) + 1 /\ \A q \in RxFlight : rd[currRd] <= q
<1>1. RxInStep
  BY DEF Safe, InStep
<1>2. /\ MaxPort - 1 \in Nat \ {0} /\ 1..(MaxPort - 1) \subseteq RdPorts
      /\ rd \in [RdPorts -> Nat] /\ Len(got) \in Nat /\ filled \in Nat
      /\ 1..(MaxPort - 1) = RdPorts \ {0}
  <2>1. rd \in [RdPorts -> Nat] /\ Len(got) \in Nat /\ filled \in Nat
    BY RxFacts DEF RxKnown
  <2>2. QED
    BY <2>1, Sizes
<1>3. Holds(rd, Len(got), filled, MaxPort - 1)
  BY <1>1 DEF RxInStep
<1>4. rd[PortOf(Len(got) + 1, MaxPort - 1)] # 0
  BY <1>1 DEF RxInStep
<1>5. rd[PortOf(Len(got) + 1, MaxPort - 1)] = Len(got) + 1
  BY <1>2, <1>3, <1>4, RingTake
<1>6. rd[currRd] = Len(got) + 1
  BY <1>1, <1>5 DEF RxInStep
<1>7. ASSUME NEW q \in RxFlight PROVE q \in (Len(got) + 1)..filled
  BY <1>2, <1>3 DEF Holds, RxFlight, Ports
<1>8. QED
  BY <1>2, <1>6, <1>7

LEMMA FromCardStep ==
  ASSUME Safe, Safe', [Next]_vars
  PROVE  [FromCard!Next]_(FromCard!vars)
<1>a. RxKnown
  BY RxFacts
<1>c. RxFlight = {rd[p] : p \in RdPorts \ {0}} \ {0}
  BY DEF RxFlight, Ports
<1>d. RxFlight' = {rd'[p] : p \in RdPorts \ {0}} \ {0}
  BY DEF RxFlight, Ports
<1>s. ASSUME \A p \in RdPorts \ {0} : rd'[p] = rd[p],
             UNCHANGED <<filled, got, failed>>
      PROVE  UNCHANGED FromCard!vars
  <2>1. RxFlight' = RxFlight
    BY <1>s, <1>c, <1>d
  <2>2. QED
    BY <1>s, <1>c, <1>d, <2>1 DEF FromCard!vars
<1>1. CASE Upload
  <2>1. PICK p \in RdPorts :
          /\ p \in RdPort /\ rd' = [rd EXCEPT ![p] = 0]
          /\ got' = IF p = 0 THEN got ELSE Append(got, rd[p])
          /\ UNCHANGED <<filled, failed>>
    BY <1>1 DEF Upload, TakeRdPort
  <2>2. CASE p = 0
    BY <1>a, <1>s, <2>1, <2>2 DEF RxKnown
  <2>3. CASE p # 0
    <3> DEFINE x == rd[p]
    <3>1. p = currRd /\ p \in rdBitmap
      BY <2>1, <2>3 DEF RdPort
    <3>2. x # 0
      BY <1>a, <3>1 DEF RxKnown
    <3>3. failed \/ \A q \in RxFlight : x <= q
      BY <3>1, <3>2, OldestRead
    <3>4. x \in RxFlight
      BY <1>c, <2>3, <3>2
    <3>5. RxFlight' = RxFlight \ {x}
      <4>1. \A o \in RdPorts \ {0} : rd'[o] = IF o = p THEN 0 ELSE rd[o]
        BY <1>a, <2>1 DEF RxKnown
      <4>2. \A q, o \in RdPorts \ {0} : rd[q] # 0 /\ rd[q] = rd[o] => q = o
        BY <1>a DEF RxKnown
      <4>3. p \in RdPorts \ {0}
        BY <2>3
      <4> HIDE DEF x
      <4>4. x = rd[p]
        BY DEF x
      <4>5. QED
        BY <1>c, <1>d, <3>2, <4>1, <4>2, <4>3, <4>4
    <3>6. got' = Append(got, x) /\ UNCHANGED <<filled, failed>>
      BY <2>1, <2>3
    <3> HIDE DEF x
    <3>7. \E q \in RxFlight : FromCard!Receive(q)
      BY <1>c, <1>d, <3>3, <3>4, <3>5, <3>6 DEF FromCard!Receive
    <3>8. QED
      BY <1>c, <3>7 DEF FromCard!Next
  <2>4. QED
    BY <2>2, <2>3
<1>2. CASE UploadFails
  <2>1. PICK p \in RdPorts :
          /\ p \in RdPort /\ rd' \in {rd, [rd EXCEPT ![p] = 0]}
          /\ ~failed /\ failed' = TRUE /\ UNCHANGED <<got, filled>>
    BY <1>2 DEF UploadFails, TakeRdPort, history
  <2>2. p \in rdBitmap /\ rd[p] # 0
    BY <1>a, <2>1 DEF RdPort, RxKnown
  <2>3. RxFlight' = RxFlight \/ \E x \in RxFlight : RxFlight' = RxFlight \ {x}
    <3>1. CASE rd' = rd
      BY <1>c, <1>d, <3>1
    <3>2. CASE rd' = [rd EXCEPT ![p] = 0]
      <4>1. \A o \in RdPorts : rd'[o] = IF o = p THEN 0 ELSE rd[o]
        BY <1>a, <3>2 DEF RxKnown
      <4>2. CASE p = 0
        BY <1>c, <1>d, <4>1, <4>2
      <4>3. CASE p # 0
        <5>1. \A q, o \in RdPorts \ {0} : rd[q] # 0 /\ rd[q] = rd[o] => q = o
          BY <1>a DEF RxKnown
        <5>2. RxFlight' = RxFlight \ {rd[p]}
          BY <1>c, <1>d, <2>2, <4>1, <4>3, <5>1
        <5>3. rd[p] \in RxFlight
          BY <1>c, <2>2, <4>3
        <5>4. QED
          BY <5>2, <5>3
      <4>4. QED
        BY <4>2, <4>3
    <3>3. QED
      BY <2>1, <3>1, <3>2
  <2>4. FromCard!Fail
    BY <1>c, <1>d, <2>1, <2>3 DEF FromCard!Fail
  <2>5. QED
    BY <2>4 DEF FromCard!Next
<1>3. CASE WriteFails
  <2>1. UNCHANGED <<rd, got, filled>> /\ ~failed /\ failed' = TRUE
    BY <1>3 DEF WriteFails
  <2>2. FromCard!Fail
    BY <1>c, <1>d, <2>1 DEF FromCard!Fail
  <2>3. QED
    BY <2>2 DEF FromCard!Next
<1>4. CASE CardFills
  <2>1. /\ rd[cardRd] = 0 /\ filled' = filled + 1
        /\ rd' = [rd EXCEPT ![cardRd] = filled + 1]
        /\ UNCHANGED <<got, failed>>
    BY <1>4 DEF CardFills
  <2>2. \A o \in RdPorts \ {0} :
          rd'[o] = IF o = cardRd THEN filled + 1 ELSE rd[o]
    BY <1>a, <2>1 DEF RxKnown
  <2>3. cardRd \in RdPorts \ {0} /\ filled + 1 # 0
    BY <1>a DEF RxKnown
  <2>4. RxFlight' = RxFlight \cup {filled + 1}
    BY <1>c, <1>d, <2>1, <2>2, <2>3
  <2>5. FromCard!Send
    BY <1>c, <1>d, <2>1, <2>4 DEF FromCard!Send
  <2>6. QED
    BY <2>5 DEF FromCard!Next
<1>5. CASE CardAnswers
  <2>1. UNCHANGED <<got, filled, failed>> /\ rd' = [rd EXCEPT ![0] = 1]
    BY <1>5 DEF CardAnswers, history
  <2>2. \A p \in RdPorts \ {0} : rd'[p] = rd[p]
    BY <1>a, <2>1 DEF RxKnown
  <2>3. QED
    BY <1>s, <2>1, <2>2
<1>6. CASE \/ Queue \/ ReadRegs \/ ProcessInt \/ UploadsEnd \/ StartSend
           \/ NoWrPort \/ Write \/ CardTakes \/ UNCHANGED vars
  <2>1. UNCHANGED <<rd, got, filled, failed>>
    BY <1>6 DEF Queue, ReadRegs, ProcessInt, UploadsEnd, StartSend, NoWrPort,
                Write, CardTakes, vars, card, history
  <2>2. QED
    BY <1>s, <2>1
<1>7. QED
  BY <1>1, <1>2, <1>3, <1>4, <1>5, <1>6 DEF Next, MainProcess, Card

LEMMA SafeHolds == Spec => []Safe
<1>1. Init => Once
  BY Sizes DEF Init, Once, Distinct, Written, IsInjective
<1>2. Inv /\ Once /\ [Next]_vars => Once'
  BY OnceStep DEF Inv
<1>3. Inv /\ Once => Safe
  BY DEF Inv, Safe
<1>4. QED
  BY <1>1, <1>2, <1>3, Invariance, PTL DEF Spec

\* ChannelSpec: whatever transfers fail, the lists and the ports are, either
\* way, a channel that delivers each packet once at most, in order while no
\* transfer fails, and loses one at most.
THEOREM ImplementsChannels == Spec => ChannelSpec
<1>1. Init => ToCard!Init /\ FromCard!Init
  <2> SUFFICES ASSUME Init PROVE ToCard!Init /\ FromCard!Init
    OBVIOUS
  <2>1. /\ Range(queue) = {} /\ {wr[p] : p \in WrPorts} \ {0} = {}
        /\ {rd[p] : p \in RdPorts \ {0}} \ {0} = {}
    BY DEF Init, Range
  <2>2. QED
    BY <2>1 DEF Init, ToCard!Init, FromCard!Init
<1>2. Safe /\ Safe' /\ [Next]_vars =>
        [ToCard!Next]_(ToCard!vars) /\ [FromCard!Next]_(FromCard!vars)
  BY ToCardStep, FromCardStep
<1>3. QED
  BY <1>1, <1>2, SafeHolds, PTL DEF Spec, ChannelSpec, ToCard!Spec,
                                    FromCard!Spec

-----------------------------------------------------------------------------
(***************************************************************************)
(* No interrupt is lost.  What is announced is in the status register of   *)
(* the card or in the copy; what is not announced is known: the bitmap of  *)
(* free ports is complete, and the ring from the card is empty once the    *)
(* host has stopped at its index.                                          *)
(***************************************************************************)
Announced == status \cup ireg

Notified ==
  /\ "dn" \notin Announced => \A p \in WrPorts : wr[p] = 0 => p \in wrBitmap
  /\ pc = "int" /\ "dn" \notin status =>
       \A p \in WrPorts : wr[p] = 0 => p \in regs.wr
  /\ dataSent => "dn" \in Announced \/ currWr \notin wrBitmap
  /\ "up" \notin Announced =>
       \A p \in RdPorts : rd[p] # 0 => pc = "upload" /\ p \in rdBitmap
  /\ pc = "int" /\ "up" \notin status =>
       \A p \in RdPorts : rd[p] # 0 => p \in regs.rd
  /\ pc # "int" => ireg = {}

LEMMA NotifiedStep ==
  ASSUME Safe, ~failed => Notified, [Next]_vars
  PROVE  ~failed' => Notified'
<1> SUFFICES ASSUME ~failed' PROVE Notified'
  OBVIOUS
<1>a. Types!2
  BY Types DEF Safe
<1>e. /\ wr \in [WrPorts -> Nat] /\ rd \in [RdPorts -> Nat]
      /\ currWr \in WrPorts /\ cardWr \in WrPorts
      /\ currRd \in RdPorts /\ cardRd \in RdPorts
  BY <1>a
<1>b. ~failed /\ ~UploadFails /\ ~WriteFails
  BY DEF Next, MainProcess, Card, Queue, ReadRegs, ProcessInt, Upload,
         UploadFails, UploadsEnd, StartSend, NoWrPort, Write, WriteFails,
         CardTakes, CardFills, CardAnswers, vars
<1>c. Notified /\ RxInStep
  BY <1>b DEF Safe, InStep
<1>1. CASE Queue \/ UNCHANGED vars
  BY <1>1, <1>c DEF Queue, vars, tx, rx, int, card, Notified, Announced
<1>2. CASE ReadRegs
  <2>1. /\ pc = "idle" /\ ireg' = ireg \cup status /\ status' = {}
        /\ regs'.wr = {p \in WrPorts : wr[p] = 0}
        /\ regs'.rd = {p \in RdPorts : rd[p] # 0}
        /\ pc' = "int"
        /\ UNCHANGED <<wr, rd, wrBitmap, rdBitmap, dataSent, currWr>>
    BY <1>2 DEF ReadRegs, tx, rx
  <2>2. QED
    BY <1>c, <2>1 DEF Notified, Announced
<1>3. CASE ProcessInt
  <2>1. /\ pc = "int" /\ ireg' = {} /\ pc' # "int"
        /\ UNCHANGED <<wr, rd, regs, status, currWr>>
    BY <1>3 DEF ProcessInt, ThenSend, card
  <2>2. /\ "dn" \in ireg => wrBitmap' = regs.wr /\
                            dataSent' = (dataSent /\ regs.wr = {})
        /\ "dn" \notin ireg => UNCHANGED <<wrBitmap, dataSent>>
    BY <1>3 DEF ProcessInt
  <2>3. /\ "up" \in ireg => rdBitmap' = regs.rd /\ pc' = "upload"
        /\ "up" \notin ireg => UNCHANGED rdBitmap
    BY <1>3 DEF ProcessInt
  <2>4. ASSUME "dn" \notin status
        PROVE  \A p \in WrPorts : wr[p] = 0 => p \in wrBitmap'
    <3>1. CASE "dn" \in ireg
      BY <1>c, <2>1, <2>2, <2>4, <3>1 DEF Notified
    <3>2. CASE "dn" \notin ireg
      BY <1>c, <2>2, <2>4, <3>2 DEF Notified, Announced
    <3>3. QED
      BY <3>1, <3>2
  <2>5. ASSUME "up" \notin status
        PROVE  \A p \in RdPorts : rd[p] # 0 =>
                 pc' = "upload" /\ p \in rdBitmap'
    <3>1. CASE "up" \in ireg
      BY <1>c, <2>1, <2>3, <2>5, <3>1 DEF Notified
    <3>2. CASE "up" \notin ireg
      BY <1>c, <2>1, <2>3, <2>5, <3>2 DEF Notified, Announced
    <3>3. QED
      BY <3>1, <3>2
  <2>6. dataSent' => "dn" \in status \/ currWr \notin wrBitmap'
    <3>1. CASE "dn" \in ireg
      BY <2>2, <3>1
    <3>2. CASE "dn" \notin ireg
      BY <1>c, <2>2, <3>2 DEF Notified, Announced
    <3>3. QED
      BY <3>1, <3>2
  <2>7. Announced' = status
    BY <2>1 DEF Announced
  <2>8. QED
    BY <2>1, <2>4, <2>5, <2>6, <2>7 DEF Notified
<1>4. CASE Upload
  <2>1. PICK p \in RdPorts :
          /\ pc = "upload" /\ rdBitmap' = rdBitmap \ {p}
          /\ rd' = [rd EXCEPT ![p] = 0]
          /\ UNCHANGED <<tx, int, pc, wr, status>>
    BY <1>4 DEF Upload, TakeRdPort
  <2>2. \A o \in RdPorts : rd'[o] = IF o = p THEN 0 ELSE rd[o]
    BY <1>e, <2>1
  <2>3. QED
    BY <1>c, <2>1, <2>2 DEF Notified, Announced, tx, int
<1>5. CASE UploadsEnd
  <2>1. /\ pc = "upload" /\ RdPort = {} /\ pc' \notin {"int", "upload"}
        /\ UNCHANGED <<tx, rx, int, card>>
    BY <1>5 DEF UploadsEnd, ThenSend
  <2>2. 0 \notin rdBitmap /\ currRd \notin rdBitmap
    <3>1. 0 \notin rdBitmap
      BY <2>1 DEF RdPort
    <3>2. QED
      BY <2>1, <3>1 DEF RdPort
  <2>3. ASSUME "up" \notin Announced PROVE \A p \in RdPorts : rd[p] = 0
    <3>1. \A p \in RdPorts : rd[p] # 0 => p \in rdBitmap
      BY <1>c, <2>3 DEF Notified
    <3>2. rd[0] = 0 /\ rd[currRd] = 0
      BY <1>e, <2>2, <3>1, Sizes
    <3>3. /\ Holds(rd, Len(got), filled, MaxPort - 1)
          /\ currRd = PortOf(Len(got) + 1, MaxPort - 1)
      BY <1>c DEF RxInStep
    <3>4. Len(got) \in Nat /\ filled \in Nat
      BY <1>a
    <3>5. ~(Len(got) + 1 <= filled)
      <4> SUFFICES ASSUME Len(got) + 1 <= filled PROVE FALSE
        OBVIOUS
      <4>1. Len(got) + 1 \in (Len(got) + 1)..filled
        BY <3>4
      <4>2. rd[PortOf(Len(got) + 1, MaxPort - 1)] = Len(got) + 1
        BY <3>3, <4>1 DEF Holds
      <4>3. QED
        BY <3>2, <3>3, <3>4, <4>2
    <3>6. \A p \in 1..(MaxPort - 1) : rd[p] = 0
      BY <3>3, <3>4, <3>5 DEF Holds
    <3>7. QED
      BY <3>2, <3>6, Sizes
  <2>4. QED
    BY <1>c, <2>1, <2>3 DEF Notified, Announced, tx, rx, int, card
<1>6. CASE StartSend
  <2>1. pc = "idle" /\ pc' = "send" /\ UNCHANGED <<tx, rx, int, card>>
    BY <1>6 DEF StartSend
  <2>2. QED
    BY <1>c, <2>1 DEF Notified, Announced, tx, rx, int, card
<1>7. CASE NoWrPort
  <2>1. /\ pc = "send" /\ pc' = "idle" /\ currWr \notin wrBitmap
        /\ UNCHANGED <<wrBitmap, currWr, rx, int, card>>
    BY <1>7 DEF NoWrPort
  <2>2. QED
    BY <1>c, <2>1 DEF Notified, Announced, rx, int, card
<1>8. CASE Write
  <2>1. /\ pc = "send" /\ pc' \in {"idle", "send"} /\ queue # <<>>
        /\ currWr \in wrBitmap /\ wrBitmap' = wrBitmap \ {currWr}
        /\ wr' = [wr EXCEPT ![currWr] = Head(queue)]
        /\ dataSent' = (currWr' \notin wrBitmap')
        /\ UNCHANGED <<rx, int, rd, status>>
    BY <1>8, <1>a DEF Write, TakeWrPort, NextSend
  <2>2. Head(queue) # 0
    <3>1. queue \in Seq(1..MaxTx) /\ queue # <<>>
      BY <1>a, <2>1
    <3>2. Head(queue) \in 1..MaxTx
      BY <3>1, HeadTailProperties
    <3>3. QED
      BY <3>2, Sizes
  <2>3. \A p \in WrPorts : wr'[p] = IF p = currWr THEN Head(queue) ELSE wr[p]
    BY <1>e, <2>1
  <2>4. \A p \in WrPorts : wr'[p] = 0 => wr[p] = 0 /\ p # currWr
    BY <2>2, <2>3
  <2>5. UNCHANGED Announced
    BY <2>1 DEF Announced, int
  <2>6. /\ "dn" \notin Announced' => \A p \in WrPorts : wr'[p] = 0 => p \in wrBitmap'
        /\ dataSent' => "dn" \in Announced' \/ currWr' \notin wrBitmap'
    BY <1>c, <2>1, <2>4, <2>5 DEF Notified
  <2>7. /\ pc # "int" /\ pc # "upload" /\ pc' # "int" /\ ireg' = {}
        /\ UNCHANGED <<rd, rdBitmap>>
    BY <1>c, <2>1 DEF Notified, rx, int
  <2>8. QED
    BY <1>c, <2>5, <2>6, <2>7 DEF Notified
<1>9. CASE CardTakes
  <2>1. /\ status' = status \cup {"dn"} /\ UNCHANGED <<tx, rx, int, pc, rd>>
    BY <1>9 DEF CardTakes
  <2>2. QED
    BY <1>c, <2>1 DEF Notified, Announced, tx, rx, int
<1>10. CASE CardFills \/ CardAnswers
  <2>1. /\ status' = status \cup {"up"} /\ UNCHANGED <<tx, rx, int, pc, wr>>
    BY <1>10 DEF CardFills, CardAnswers
  <2>2. QED
    BY <1>c, <2>1 DEF Notified, Announced, tx, rx, int
<1>11. QED
  BY <1>b, <1>1, <1>2, <1>3, <1>4, <1>5, <1>6, <1>7, <1>8, <1>9, <1>10
     DEF Next, MainProcess, Card

\* NeverStuck: while no transfer fails, a host that waits, waits for something:
\* the card has what it is to take, or what it did is announced and not yet
\* looked at.  With a card that goes on this is what EveryPacketArrives
\* rests on.
THEOREM HostNeverStuck == Spec => []NeverStuck
<1>1. Init => Notified
  BY DEF Init, Notified, Announced
<1>2. Safe /\ (~failed => Notified) /\ [Next]_vars => (~failed' => Notified')
  BY NotifiedStep
<1>3. Safe /\ (~failed => Notified) => NeverStuck
  <2> SUFFICES ASSUME Safe, Notified, ~failed PROVE NeverStuck
    BY DEF NeverStuck
  <2>1. ASSUME dataSent, "dn" \notin Announced PROVE wr[cardWr] # 0
    <3>1. currWr \in WrPorts /\ wr[currWr] # 0
      BY <2>1, Types DEF Notified, Safe
    <3>2. /\ Holds(wr, Len(taken), Written, EndPort - 1)
          /\ cardWr = PortOf(Len(taken) + 1, EndPort - 1)
      BY DEF Safe, InStep, TxInStep
    <3>3. Len(taken) \in Nat /\ Written \in Nat
      BY Types, TxFacts DEF Safe, TxKnown
    <3>4. wr[currWr] \in (Len(taken) + 1)..Written
      BY <3>1, <3>2, Sizes DEF Holds
    <3>5. Len(taken) + 1 \in (Len(taken) + 1)..Written
      BY <3>3, <3>4
    <3>6. QED
      BY <3>2, <3>3, <3>5 DEF Holds
  <2>2. ASSUME NEW p \in RdPorts, rd[p] # 0, "up" \notin Announced
        PROVE  pc = "upload"
    BY <2>2 DEF Notified
  <2>3. QED
    BY <2>1, <2>2 DEF NeverStuck, Announced
<1>4. QED
  BY <1>1, <1>2, <1>3, SafeHolds, PTL DEF Spec
=============================================================================
