------------------------------ MODULE SdioPorts -------------------------------
(***************************************************************************)
(* The data ports of the SDIO interface (mlan_sdio.c), with the part of    *)
(* the transmit path that uses them (mlan_wmm.c, mlan_txrx.c).             *)
(*                                                                         *)
(* Host and card share a ring of one-packet ports each way.  The host      *)
(* learns from a copy of the card's registers which ports it may write and *)
(* which it must read, and walks either ring with an index of its own.     *)
(* Port 0, for commands, their answers and events, is here only because    *)
(* wlan_get_rd_port serves it first; PowerSave has its protocol.  The      *)
(* queue stands for one receiver's WMM list; the bypass list, which uses   *)
(* the ports the same way, is left out.  Aggregation over ports            *)
(* (SDIO_MULTI_PORT_*_AGGR) is not built.                                  *)
(*                                                                         *)
(* The card is not part of the sources.  It is modelled from what the      *)
(* driver relies on: "FW expects the driver to use the write bitmap        *)
(* sequentially" (mlan_wmm.c:1152), it takes and fills its ports one after *)
(* the other, tells either by an interrupt status, and a read of the       *)
(* registers clears that status.                                           *)
(*                                                                         *)
(* Packets are numbered in the order of their senders, to which the        *)
(* history variables refer: what the card took and the host got, which     *)
(* packets were completed (freed), and whether a transfer has failed.      *)
(***************************************************************************)
EXTENDS Integers, Sequences, Functions

CONSTANTS MaxPort,   \* MAX_PORT: one past the last port the host reads
          EndPort,   \* mp_end_port: one past the last port the host writes
          MaxTx,     \* bound of the model: packets the host sends
          MaxRx      \* bound of the model: packets the card sends

ASSUME SdioPortsAssumption ==
  /\ MaxPort \in Nat /\ EndPort \in 2..MaxPort
  /\ MaxTx \in Nat /\ MaxRx \in Nat

VARIABLES queue,     \* packets to send, in their list
          requeued,  \* its head has MLAN_BUF_FLAG_REQUEUED_PKT
          wrBitmap,  \* mp_wr_bitmap under mp_data_port_mask
          rdBitmap,  \* mp_rd_bitmap
          currWr,    \* curr_wr_port
          currRd,    \* curr_rd_port
          dataSent,  \* data_sent
          ireg,      \* sdio_ireg
          regs,      \* the bitmaps in mp_regs
          pc,        \* main process: "idle", "int", "upload" or "send"
          wr,        \* card: the packet in each port it takes from, or 0
          rd,        \* card: the packet in each port it fills, or 0
          cardWr,    \* card: the port it takes from next
          cardRd,    \* card: the port it fills next
          status,    \* HOST_INT_STATUS_REG: "dn" and "up"
          sent,      \* history: packets the host has queued
          taken,     \* history: packets the card took, in order
          filled,    \* history: packets the card sent
          got,       \* history: packets the host got, in order
          completed, \* history: packets completed
          failed     \* history: a transfer has failed

tx == <<queue, requeued, wrBitmap, currWr, dataSent>>
rx == <<rdBitmap, currRd>>
int == <<ireg, regs>>
card == <<wr, rd, cardWr, cardRd, status>>
history == <<sent, taken, filled, got, completed>>
vars == <<tx, rx, int, pc, card, history, failed>>

WrPorts == 1..(EndPort - 1)      \* mp_data_port_mask
RdPorts == 0..(MaxPort - 1)      \* CTRL_PORT_MASK | DATA_PORT_MASK

After(port, end) == IF port + 1 = end THEN 1 ELSE port + 1

Init ==
  /\ queue = <<>> /\ requeued = FALSE
  /\ wrBitmap = {} /\ rdBitmap = {} /\ currWr = 1 /\ currRd = 1
  /\ dataSent = TRUE
  /\ ireg = {} /\ regs = [wr |-> {}, rd |-> {}] /\ pc = "idle"
  /\ wr = [p \in WrPorts |-> 0] /\ rd = [p \in RdPorts |-> 0]
  /\ cardWr = 1 /\ cardRd = 1
  /\ status = {"dn"}             \* the ports are there to be written
  /\ sent = 0 /\ taken = <<>> /\ filled = 0 /\ got = <<>>
  /\ completed = {} /\ failed = FALSE

-----------------------------------------------------------------------------
\* The senders.

Queue ==
  /\ sent < MaxTx
  /\ sent' = sent + 1
  /\ queue' = Append(queue, sent + 1)
  /\ UNCHANGED <<requeued, wrBitmap, currWr, dataSent, rx, int, pc, card,
                 taken, filled, got, completed, failed>>

-----------------------------------------------------------------------------
\* The main process: interrupts, then the uploads, then what is queued.

\* mlan_interrupt, wlan_interrupt: one transfer reads all the registers.
ReadRegs ==
  /\ pc = "idle"
  /\ status # {}
  /\ ireg' = ireg \cup status
  /\ regs' = [wr |-> {p \in WrPorts : wr[p] = 0},
              rd |-> {p \in RdPorts : rd[p] # 0}]
  /\ status' = {}
  /\ pc' = "int"
  /\ UNCHANGED <<tx, rx, wr, rd, cardWr, cardRd, history, failed>>

\* The loop goes on to what is queued, if there is any and it may be sent.
ThenSend(busy) == IF queue # <<>> /\ ~busy THEN "send" ELSE "idle"

\* wlan_process_int_status up to the uploads: the bitmaps are replaced by
\* those of the copy.
ProcessInt ==
  /\ pc = "int"
  /\ ireg' = {}
  /\ IF "dn" \in ireg
     THEN /\ wrBitmap' = regs.wr
          /\ dataSent' = (dataSent /\ regs.wr = {})
     ELSE UNCHANGED <<wrBitmap, dataSent>>
  /\ IF "up" \in ireg
     THEN rdBitmap' = regs.rd /\ pc' = "upload"
     ELSE UNCHANGED rdBitmap /\ pc' = ThenSend(dataSent')
  /\ UNCHANGED <<queue, requeued, currWr, currRd, regs, card, history,
                 failed>>

\* Mutant: any port that is ready.
RdPortAny == IF 0 \in rdBitmap THEN {0} ELSE rdBitmap

\* wlan_get_rd_port.
RdPort == IF 0 \in rdBitmap THEN {0} ELSE rdBitmap \cap {currRd}

\* Mutant: the reading ring as long as the writing one.
TakeRdPortShort(p) ==
  /\ pc = "upload"
  /\ p \in RdPort
  /\ rdBitmap' = rdBitmap \ {p}
  /\ currRd' = IF p = 0 THEN currRd ELSE After(p, EndPort)

\* One turn of the upload loop that gets a port, up to its transfer.
TakeRdPort(p) ==
  /\ pc = "upload"
  /\ p \in RdPort
  /\ rdBitmap' = rdBitmap \ {p}
  /\ currRd' = IF p = 0 THEN currRd ELSE After(p, MaxPort)

\* The rest of the turn; the port is the card's again.
Upload ==
  \E p \in RdPorts :
    /\ TakeRdPort(p)
    /\ rd' = [rd EXCEPT ![p] = 0]
    /\ got' = IF p = 0 THEN got ELSE Append(got, rd[p])
    /\ UNCHANGED <<tx, int, pc, wr, cardWr, cardRd, status, sent, taken,
                   filled, completed, failed>>

\* No buffer, or a failed transfer: the uploads are given up.  The packet
\* may have gone with the transfer or still be in its port.
UploadFails ==
  \E p \in RdPorts :
    /\ ~failed
    /\ TakeRdPort(p)
    /\ rd' \in {rd, [rd EXCEPT ![p] = 0]}
    /\ failed' = TRUE
    /\ pc' = ThenSend(dataSent)
    /\ UNCHANGED <<tx, int, wr, cardWr, cardRd, status, history>>

UploadsEnd ==
  /\ pc = "upload"
  /\ RdPort = {}
  /\ pc' = ThenSend(dataSent)
  /\ UNCHANGED <<tx, rx, int, card, history, failed>>

\* The work function runs for a sender, without an interrupt.
StartSend ==
  /\ pc = "idle"
  /\ queue # <<>> /\ ~dataSent
  /\ pc' = "send"
  /\ UNCHANGED <<tx, rx, int, card, history, failed>>

\* Mutant: the port's bit is left set.
TakeWrPortKeeps ==
  /\ pc = "send"
  /\ currWr \in wrBitmap
  /\ wrBitmap' = wrBitmap
  /\ currWr' = After(currWr, EndPort)

\* Mutant: the writing ring as long as the reading one.
TakeWrPortLong ==
  /\ pc = "send"
  /\ currWr \in wrBitmap
  /\ wrBitmap' = wrBitmap \ {currWr}
  /\ currWr' = After(currWr, MaxPort)

\* wlan_get_wr_port_data gets a port for the head of the queue.
TakeWrPort ==
  /\ pc = "send"
  /\ currWr \in wrBitmap
  /\ wrBitmap' = wrBitmap \ {currWr}
  /\ currWr' = After(currWr, EndPort)

\* It gets none: the packet goes back to the head of its list.
NoWrPort ==
  /\ pc = "send"
  /\ currWr \notin wrBitmap
  /\ dataSent' = TRUE
  /\ requeued' = TRUE
  /\ pc' = "idle"
  /\ UNCHANGED <<queue, wrBitmap, currWr, rx, int, card, history, failed>>

\* wlan_wmm_process_tx goes on while it may.
NextSend ==
  /\ queue' = Tail(queue)
  /\ requeued' = FALSE
  /\ pc' = IF queue' # <<>> /\ ~dataSent' THEN "send" ELSE "idle"

\* Mutant: after a packet that was written there may be another.
WriteGoesOn ==
  /\ TakeWrPort
  /\ wr' = [wr EXCEPT ![currWr] = Head(queue)]
  /\ dataSent' = FALSE
  /\ completed' = IF requeued THEN completed ELSE completed \cup {Head(queue)}
  /\ NextSend
  /\ UNCHANGED <<rx, int, rd, cardWr, cardRd, status, sent, taken, filled,
                 got, failed>>

\* wlan_sdio_host_to_card from wlan_send_single_packet, which completes the
\* packet, or from wlan_send_processed_packet, which does not.
Write ==
  /\ TakeWrPort
  /\ wr' = [wr EXCEPT ![currWr] = Head(queue)]
  /\ dataSent' = (currWr' \notin wrBitmap')
  /\ completed' = IF requeued THEN completed ELSE completed \cup {Head(queue)}
  /\ NextSend
  /\ UNCHANGED <<rx, int, rd, cardWr, cardRd, status, sent, taken, filled,
                 got, failed>>

\* The transfer fails, for the host at least; the port stays taken.
WriteFails ==
  /\ ~failed
  /\ TakeWrPort
  /\ wr' \in {wr, [wr EXCEPT ![currWr] = Head(queue)]}
  /\ dataSent' = FALSE
  /\ completed' = completed \cup {Head(queue)}
  /\ failed' = TRUE
  /\ NextSend
  /\ UNCHANGED <<rx, int, rd, cardWr, cardRd, status, sent, taken, filled,
                 got>>

MainProcess ==
  \/ ReadRegs \/ ProcessInt \/ Upload \/ UploadFails \/ UploadsEnd
  \/ StartSend \/ NoWrPort \/ Write \/ WriteFails

-----------------------------------------------------------------------------
\* The card.

CardTakes ==
  /\ wr[cardWr] # 0
  /\ taken' = Append(taken, wr[cardWr])
  /\ wr' = [wr EXCEPT ![cardWr] = 0]
  /\ cardWr' = After(cardWr, EndPort)
  /\ status' = status \cup {"dn"}
  /\ UNCHANGED <<tx, rx, int, pc, rd, cardRd, sent, filled, got, completed,
                 failed>>

CardFills ==
  /\ filled < MaxRx
  /\ rd[cardRd] = 0
  /\ filled' = filled + 1
  /\ rd' = [rd EXCEPT ![cardRd] = filled + 1]
  /\ cardRd' = After(cardRd, MaxPort)
  /\ status' = status \cup {"up"}
  /\ UNCHANGED <<tx, rx, int, pc, wr, cardWr, sent, taken, got, completed,
                 failed>>

\* An answer or an event, at port 0.
CardAnswers ==
  /\ rd[0] = 0
  /\ rd' = [rd EXCEPT ![0] = 1]
  /\ status' = status \cup {"up"}
  /\ UNCHANGED <<tx, rx, int, pc, wr, cardWr, cardRd, history, failed>>

Card == CardTakes \/ CardFills \/ CardAnswers

Next == Queue \/ MainProcess \/ Card

\* The main process runs and the card takes what it is given (PowerSave has
\* what wakes either of them); the card need not send.
Fairness == WF_vars(MainProcess) /\ WF_vars(CardTakes)

Spec == Init /\ [][Next]_vars /\ Fairness

-----------------------------------------------------------------------------
TypeOK ==
  /\ queue \in Seq(1..MaxTx)
  /\ {requeued, dataSent, failed} \subseteq BOOLEAN
  /\ wrBitmap \subseteq WrPorts /\ rdBitmap \subseteq RdPorts
  /\ currWr \in WrPorts /\ currRd \in RdPorts
  /\ ireg \subseteq {"dn", "up"}
  /\ regs \in [wr : SUBSET WrPorts, rd : SUBSET RdPorts]
  /\ pc \in {"idle", "int", "upload", "send"}
  /\ (pc = "send" => queue # <<>>)
  /\ wr \in [WrPorts -> 0..MaxTx] /\ rd \in [RdPorts -> Nat]
  /\ cardWr \in WrPorts /\ cardRd \in RdPorts
  /\ status \subseteq {"dn", "up"}
  /\ sent \in 0..MaxTx /\ filled \in 0..MaxRx
  /\ taken \in Seq(1..MaxTx) /\ got \in Seq(Nat)
  /\ completed \subseteq 1..MaxTx

\* The host never writes to a port whose packet the card has not yet taken,
\* though it decides by a copy of the registers (mlan_sdio.c:1328), failed
\* transfers or not.
NeverOverwrites == \A p \in wrBitmap : wr[p] = 0

\* Both sides walk the rings in step (mlan_sdio.c:188, 231): while no transfer
\* fails, the card takes the packets, and the host gets them, in the order in
\* which they were sent, without a gap.
InOrder ==
  failed \/ /\ taken = [i \in 1..Len(taken) |-> i]
            /\ got = [i \in 1..Len(got) |-> i]

\* Whatever fails, no packet gets through twice.
OnceOnly == IsInjective(taken) /\ IsInjective(got)

\* While no transfer fails, every packet that has left its list is completed:
\* none is put back to be sent by wlan_send_processed_packet, which frees
\* only what it fails to send (mlan_wmm.c:904-915).
NoneForgotten ==
  failed \/ \A i \in 1..sent : i \in completed \/ i \in Range(queue)

\* The host never waits for an interrupt that does not come.  While no transfer
\* fails: if data_sent keeps it from writing, a free port is announced, or the
\* card has a packet at the port it takes from next; and unless it is
\* uploading, a packet in any port from the card is announced.
NeverStuck ==
  failed \/
    /\ dataSent => "dn" \in status \cup ireg \/ wr[cardWr] # 0
    /\ (\E p \in RdPorts : rd[p] # 0) =>
         "up" \in status \cup ireg \/ pc = "upload"

\* Either direction implements PacketChannel: the packets in a list or a port
\* are the ones in flight, and none is received twice, out of order or, but
\* for one that a failed transfer costs, lost.
ToCard == INSTANCE PacketChannel WITH
  flight <- Range(queue) \cup ({wr[p] : p \in WrPorts} \ {0}), got <- taken
FromCard == INSTANCE PacketChannel WITH
  flight <- {rd[p] : p \in RdPorts \ {0}} \ {0}, sent <- filled

ChannelSpec == ToCard!Spec /\ FromCard!Spec

\* While no transfer fails, every packet is taken by the card in the end: the
\* host never waits for an interrupt that does not come.  And the host gets
\* whatever the card sends, however often port 0 is served before.
EveryPacketArrives ==
  \/ <>[](Len(taken) = sent) /\ <>[](Len(got) = filled)
  \/ <>failed
=============================================================================
