----------------------------- MODULE RxReorder ------------------------------
(***************************************************************************)
(* net/wlan_src/mlan/mlan_11n_rxreorder.c: the receive window of one block *)
(* ack stream.  The peer numbers its packets modulo MAX_TID_VALUE and      *)
(* sends them from a window of its own; the driver keeps the ones that     *)
(* arrive early in rx_reorder_ptr[], whose index 0 stands for start_win,   *)
(* and gives them to the network stack in order.  A timer flushes what has *)
(* waited too long.                                                        *)
(*                                                                         *)
(* Two threads work on an entry: the driver thread (the MOAL work queue,   *)
(* the higher priority) handles packets, BARs and commands, the timer      *)
(* tasklet runs wlan_flush_data.  rx_pkt_lock protects one access to the   *)
(* slots, not a handler: the tasklet is preempted anywhere, and runs       *)
(* inside a handler that blocks while it hands a packet to the stack.      *)
(*                                                                         *)
(* A packet is known by its number n in the peer's stream, its sequence    *)
(* number is n % MaxSeq.  high, ahead, order and held are history          *)
(* variables, no guard reads them.  winBase is one for the driver; only    *)
(* the peer, which keeps near the receiver's window, is guarded by it.     *)
(***************************************************************************)
EXTENDS Integers, FiniteSets

CONSTANTS MaxSeq,     \* MAX_TID_VALUE, 4096 on target
          WinSize,    \* win_size of the stream
          First,      \* bounds of the model on the packets of the peer
          Last,
          MaxFlushes, \* bound of the model on the flushes queued at once
          Events,     \* what the peer and the host do, see Next
          Overlap,    \* FALSE: a flush and a handler never overlap
          NULL

ASSUME RxReorderAssumption ==
  /\ WinSize \in Nat /\ WinSize > 1
  /\ MaxSeq \in Nat /\ MaxSeq % 2 = 0 /\ 4 * WinSize <= MaxSeq
  /\ MaxSeq < 65535
  /\ First \in Nat /\ Last \in Nat /\ First <= Last
  /\ MaxFlushes \in Nat \ {0}
  /\ Events \subseteq {"bar", "fw", "nodrop", "addba", "delba"}
  /\ Overlap \in BOOLEAN
  /\ NULL \notin First..Last \cup ((First..Last) \X {"data", "fw"})

Slots == 0..(WinSize - 1)
Ids == First..Last
Half == MaxSeq \div 2              \* TWOPOW11
Mask(x) == x % MaxSeq              \* x & (MAX_TID_VALUE - 1)

VARIABLES alive,       \* the stream has an entry in rx_reorder_tbl_ptr
          startWin,    \* start_win
          reorder,     \* rx_reorder_ptr
          forceNoDrop, \* force_no_drop
          timerIsSet,  \* timer_context.timer_is_set
          ticking,     \* the OS timer under it is running
          flushes,     \* its expiries queued for the timer tasklet
          stray,       \* one of them is queued for an entry that was freed
          rx,          \* the driver thread inside a handler
          fl,          \* the tasklet inside wlan_flush_data
          snd,         \* the peer's window starts here
          rxLast,      \* the packet rx_seq[tid] comes from, or NULL
          winBase,     \* history: the packet startWin stands for
          high,        \* history: the latest packet given to the stack
          ahead,       \* history: latest packet given ahead of the window
          order,       \* history: "kept", "overtaken" or "broken"
          held         \* history: payloads stored and not dispatched

entry == <<alive, startWin, reorder, forceNoDrop>>
timer == <<timerIsSet, ticking, flushes, stray>>
peer == <<snd, rxLast>>
stack == <<high, order, held>>
vars == <<entry, timer, rx, fl, peer, winBase, stack, ahead>>

RxIdle == [pc |-> "idle", kind |-> "data", n |-> First, i |-> 0, no |-> 0,
           to |-> 0, base |-> 0, prev |-> 0, yield |-> FALSE]
FlIdle == [pc |-> "idle", last |-> 0, i |-> 0, no |-> 0, to |-> 0, base |-> 0]

Init ==
  /\ alive = FALSE /\ startWin = 0 /\ forceNoDrop = FALSE
  /\ reorder = [i \in Slots |-> NULL]
  /\ timerIsSet = FALSE /\ ticking = FALSE /\ flushes = 0 /\ stray = FALSE
  /\ rx = RxIdle /\ fl = FlIdle
  /\ snd = First /\ rxLast = NULL
  /\ winBase = First
  /\ high = First - 1 /\ ahead = First - 1 /\ order = "kept"
  /\ held = 0

-----------------------------------------------------------------------------
(***************************************************************************)
(* The arithmetic of mlan_11n_rxreorder_pkt.                               *)
(***************************************************************************)
\* Mutant: the comparison without the wrap of the number space.
StaleNoWrap(seq) == seq < startWin \/ seq > startWin + Half

Stale(seq) ==
  IF startWin + Half > MaxSeq - 1
  THEN seq >= Mask(startWin + Half) /\ seq < startWin
  ELSE seq < startWin \/ seq > startWin + Half

EndWin == Mask(startWin + WinSize - 1)

Outside(seq) ==
  \/ EndWin < startWin /\ seq < startWin /\ seq > EndWin
  \/ EndWin > startWin /\ (seq > EndWin \/ seq < startWin)

\* Mutant: one off.
StartForLate(seq) == Mask(seq + MaxSeq - WinSize + 2)

\* The start of the window that ends with seq.
StartFor(seq) ==
  IF seq - WinSize + 1 >= 0
  THEN seq - WinSize + 1
  ELSE MaxSeq - (WinSize - seq) + 1

\* The slot of seq in a window that starts at sw.
SlotOf(seq, sw) == IF seq >= sw THEN seq - sw ELSE seq + MaxSeq - sw

\* Mutant: the whole window, however far it moves.
NoPktAll(to) == WinSize

\* The slots that wlan_11n_dispatch_pkt_until_start_win empties.
NoPktToSend(to) ==
  IF to > startWin
  THEN IF to - startWin < WinSize THEN to - startWin ELSE WinSize
  ELSE WinSize

\* Mutant: the slot a packet was moved from is not cleared.
RotatedUncleared(k) ==
  [i \in Slots |-> IF i < WinSize - k THEN reorder[i + k] ELSE reorder[i]]

\* The rotation after the first k slots were emptied.
Rotated(k) ==
  [i \in Slots |-> IF i < WinSize - k THEN reorder[i + k]
                   ELSE IF i >= k THEN NULL ELSE reorder[i]]

-----------------------------------------------------------------------------
(***************************************************************************)
(* wlan_11n_dispatch_pkt, and what it does to the packets' order.          *)
(***************************************************************************)
GiveToStack(n) ==
  /\ high' = IF n > high THEN n ELSE high
  /\ order' = CASE n > high -> order
                [] n <= high /\ n > ahead -> "broken"
                [] OTHER -> IF order = "kept" THEN "overtaken" ELSE order

IsData(p) == p # NULL /\ p[2] = "data"

\* Slot i is emptied under rx_pkt_lock, its packet dispatched after it.
Empty(i) ==
  LET p == reorder[i]
  IN /\ reorder' = [reorder EXCEPT ![i] = NULL]
     /\ IF IsData(p) THEN GiveToStack(p[1]) ELSE UNCHANGED <<high, order>>
     /\ held' = IF p = NULL THEN held ELSE held - 1

\* The window is moved after its first k slots were emptied.
MoveWindow(k, to, base) ==
  /\ reorder' = Rotated(k)
  /\ startWin' = to
  /\ winBase' = base

\* A window that was emptied as a whole although it moves by less: it was asked
\* for again, or moves back, or past the end of the number space.
NoteAhead(to, base) ==
  ahead' = IF (to <= startWin \/ base <= winBase) /\ high >= base /\ high > ahead
           THEN high ELSE ahead

\* The driver thread takes the CPU from the tasklet and from the kernel's timer
\* task whenever it is ready; they run when it waits, for an event or in the
\* stack.
RxMay == Overlap \/ fl.pc = "idle"
LowMay == rx.pc = "idle" \/ (Overlap /\ rx.yield)

-----------------------------------------------------------------------------
(***************************************************************************)
(* mlan_11n_rxreorder_pkt(seq_num, pkt_type): kind is "data", "bar" or, for *)
(* a packet the firmware reports dropped, "fw".                            *)
(***************************************************************************)
SeqOf(kind, n) == IF kind = "bar" THEN Mask(Mask(n) + WinSize - 1) ELSE Mask(n)

Handle(kind, n) ==
  /\ alive /\ rx.pc = "idle" /\ RxMay
  /\ rxLast' = IF kind = "data" THEN n ELSE rxLast
  /\ UNCHANGED <<alive, startWin, reorder, timer, fl, snd, winBase, stack,
                 ahead>>

RxStale(kind, n) ==
  /\ Handle(kind, n)
  /\ ~forceNoDrop /\ Stale(Mask(n))
  /\ rx' = [RxIdle EXCEPT !.pc = "done", !.kind = kind, !.n = n,
                          !.prev = startWin]
  /\ UNCHANGED forceNoDrop

RxAccept(kind, n) ==
  LET seq == SeqOf(kind, n)
      to == StartFor(seq)
      started == [RxIdle EXCEPT !.kind = kind, !.n = n, !.prev = startWin]
  IN /\ Handle(kind, n)
     /\ forceNoDrop \/ ~Stale(Mask(n))
     /\ forceNoDrop' = FALSE
     /\ rx' = IF Outside(seq)
              THEN [started EXCEPT !.pc = "until", !.to = to,
                      !.base = IF kind = "bar" THEN n ELSE n - WinSize + 1,
                      !.no = NoPktToSend(to)]
              ELSE [started EXCEPT !.pc = "store", !.to = startWin]

\* wlan_11n_dispatch_pkt_until_start_win in the driver thread.
RxUntil ==
  /\ rx.pc = "until" /\ rx.i < rx.no
  /\ Empty(rx.i)
  /\ rx' = [rx EXCEPT !.i = @ + 1, !.yield = IsData(reorder[rx.i])]
  /\ UNCHANGED <<alive, startWin, forceNoDrop, timer, fl, peer, winBase, ahead>>

RxMove ==
  /\ rx.pc = "until" /\ rx.i = rx.no
  /\ MoveWindow(rx.no, rx.to, rx.base)
  /\ NoteAhead(rx.to, rx.base)
  /\ rx' = CASE rx.kind = "addba" -> RxIdle
             [] rx.kind = "delba" -> [rx EXCEPT !.pc = "free", !.yield = FALSE]
             [] OTHER -> [rx EXCEPT !.pc = "store", !.yield = FALSE]
  /\ UNCHANGED <<alive, forceNoDrop, timer, fl, peer, stack>>

RxStore ==
  LET slot == SlotOf(Mask(rx.n), rx.to)
  IN /\ rx.pc = "store" /\ rx.kind # "bar"
     /\ IF reorder[slot] = NULL
        THEN /\ reorder' = [reorder EXCEPT ![slot] = <<rx.n, rx.kind>>]
             /\ held' = held + 1
             /\ rx' = [rx EXCEPT !.pc = "scan", !.i = 0]
        ELSE /\ rx' = [rx EXCEPT !.pc = "done"]    \* "Drop Duplicate Pkt"
             /\ UNCHANGED <<reorder, held>>
     /\ UNCHANGED <<alive, startWin, forceNoDrop, timer, fl, peer, winBase,
                    high, order, ahead>>

RxBar ==
  /\ rx.pc = "store" /\ rx.kind = "bar"
  /\ rx' = [rx EXCEPT !.pc = "scan", !.i = 0]
  /\ UNCHANGED <<entry, timer, fl, peer, winBase, stack, ahead>>

\* wlan_11n_scan_and_dispatch
RxScan ==
  /\ rx.pc = "scan" /\ rx.i < WinSize /\ reorder[rx.i] # NULL
  /\ Empty(rx.i)
  /\ rx' = [rx EXCEPT !.i = @ + 1, !.yield = IsData(reorder[rx.i])]
  /\ UNCHANGED <<alive, startWin, forceNoDrop, timer, fl, peer, winBase, ahead>>

RxScanned ==
  /\ rx.pc = "scan"
  /\ rx.i < WinSize => reorder[rx.i] = NULL
  /\ MoveWindow(rx.i, Mask(startWin + rx.i), winBase + rx.i)
  /\ rx' = [rx EXCEPT !.pc = "done", !.yield = FALSE]
  /\ UNCHANGED <<alive, forceNoDrop, timer, fl, peer, stack, ahead>>

\* Mutant: the timer is started only when the window has moved.
RxDoneMoved ==
  /\ rx.pc = "done"
  /\ IF rx.prev # startWin
     THEN timerIsSet' = TRUE /\ ticking' = TRUE
     ELSE UNCHANGED <<timerIsSet, ticking>>
  /\ rx' = RxIdle
  /\ UNCHANGED <<entry, flushes, stray, fl, peer, winBase, stack, ahead>>

\* "done:", and mlan_11n_rxreorder_timer_restart.
RxDone ==
  /\ rx.pc = "done"
  /\ IF ~timerIsSet \/ rx.prev # startWin
     THEN timerIsSet' = TRUE /\ ticking' = TRUE
     ELSE UNCHANGED <<timerIsSet, ticking>>
  /\ rx' = RxIdle
  /\ UNCHANGED <<entry, flushes, stray, fl, peer, winBase, stack, ahead>>

\* A data packet of a stream without an entry goes straight to the stack.
RxDirect(n) ==
  /\ ~alive /\ rx.pc = "idle" /\ RxMay
  /\ GiveToStack(n)
  /\ rxLast' = n
  /\ snd' = n + 1
  /\ UNCHANGED <<entry, timer, rx, fl, winBase, held, ahead>>

-----------------------------------------------------------------------------
(***************************************************************************)
(* wlan_11n_create_rxreorder_tbl, wlan_11n_delete_rxreorder_tbl_entry and  *)
(* wlan_set_rxreorder_tbl_no_drop_flag in the driver thread.               *)
(***************************************************************************)
LastSeq == IF rxLast = NULL THEN 65535 ELSE Mask(rxLast)

\* What is received next is less than half the number space after base.
Near(base) == snd + WinSize <= base + Half

Create ==
  LET seen == LastSeq # 65535 /\ LastSeq >= Mask(snd)
  IN /\ ~alive /\ rx.pc = "idle" /\ RxMay
     /\ rxLast # NULL => Near(rxLast + 1)
     /\ alive' = TRUE
     /\ startWin' = IF seen THEN LastSeq + 1 ELSE Mask(snd)
     /\ winBase' = IF seen THEN rxLast + 1 ELSE snd
     /\ reorder' = [i \in Slots |-> NULL]
     /\ forceNoDrop' = FALSE
     /\ timerIsSet' = FALSE /\ ticking' = FALSE
     /\ UNCHANGED <<flushes, stray, rx, fl, peer, stack, ahead>>

\* A request for a stream that has an entry already.
CreateAgain ==
  /\ alive /\ rx.pc = "idle" /\ RxMay
  /\ rx' = [RxIdle EXCEPT !.pc = "until", !.kind = "addba", !.to = Mask(snd),
                          !.base = snd, !.no = NoPktToSend(Mask(snd))]
  /\ UNCHANGED <<entry, timer, fl, peer, winBase, stack, ahead>>

Delete ==
  LET to == Mask(startWin + WinSize)
  IN /\ alive /\ rx.pc = "idle" /\ RxMay
     /\ rx' = [RxIdle EXCEPT !.pc = "until", !.kind = "delba", !.to = to,
                             !.base = winBase + WinSize,
                             !.no = NoPktToSend(to)]
     /\ UNCHANGED <<entry, timer, fl, peer, winBase, stack, ahead>>

\* The timer is stopped and freed, then the entry.  An expiry the tasklet has
\* not handled yet stays queued; a flush under way goes on with freed memory,
\* which the model does not follow.
RxFree ==
  /\ rx.pc = "free"
  /\ alive' = FALSE
  /\ timerIsSet' = FALSE /\ ticking' = FALSE
  /\ stray' = (stray \/ flushes > 0)
  /\ flushes' = 0
  /\ fl' = FlIdle
  /\ ahead' = high
  /\ rx' = RxIdle
  /\ UNCHANGED <<startWin, reorder, forceNoDrop, peer, winBase, stack>>

SetNoDrop ==
  /\ alive /\ rx.pc = "idle" /\ RxMay
  /\ forceNoDrop' = TRUE
  /\ UNCHANGED <<alive, startWin, reorder, timer, rx, fl, peer, winBase, stack,
                 ahead>>

-----------------------------------------------------------------------------
(***************************************************************************)
(* The timer, and wlan_flush_data in the timer tasklet.                    *)
(***************************************************************************)
TimerExpires ==
  /\ ticking /\ LowMay /\ flushes < MaxFlushes
  /\ ticking' = FALSE
  /\ flushes' = flushes + 1
  /\ UNCHANGED <<entry, timerIsSet, stray, rx, fl, peer, winBase, stack, ahead>>

FlushBegin ==
  /\ fl.pc = "idle" /\ LowMay /\ flushes > 0
  /\ flushes' = flushes - 1
  /\ timerIsSet' = FALSE
  /\ fl' = [FlIdle EXCEPT !.pc = "find"]
  /\ UNCHANGED <<entry, ticking, stray, rx, peer, winBase, stack, ahead>>

\* wlan_11n_find_last_seqnum
FlushFind ==
  /\ fl.pc = "find" /\ LowMay
  /\ \/ /\ \A i \in Slots : reorder[i] = NULL
        /\ fl' = FlIdle
     \/ \E i \in Slots :
          /\ reorder[i] # NULL
          /\ \A j \in Slots : j > i => reorder[j] = NULL
          /\ fl' = [fl EXCEPT !.pc = "aim", !.last = i]
  /\ UNCHANGED <<entry, timer, rx, peer, winBase, stack, ahead>>

\* Mutant: the flush stops before the last packet.
FlushAimShort ==
  /\ fl.pc = "aim" /\ LowMay
  /\ fl' = [fl EXCEPT !.pc = "count", !.to = Mask(startWin + fl.last),
                      !.base = winBase + fl.last]
  /\ UNCHANGED <<entry, timer, rx, peer, winBase, stack, ahead>>

\* The argument start_win is computed, ...
FlushAim ==
  /\ fl.pc = "aim" /\ LowMay
  /\ fl' = [fl EXCEPT !.pc = "count", !.to = Mask(startWin + fl.last + 1),
                      !.base = winBase + fl.last + 1]
  /\ UNCHANGED <<entry, timer, rx, peer, winBase, stack, ahead>>

\* ... and compared with the entry's start_win.
FlushCount ==
  /\ fl.pc = "count" /\ LowMay
  /\ fl' = [fl EXCEPT !.pc = "until", !.no = NoPktToSend(fl.to)]
  /\ UNCHANGED <<entry, timer, rx, peer, winBase, stack, ahead>>

FlushUntil ==
  /\ fl.pc = "until" /\ LowMay /\ fl.i < fl.no
  /\ Empty(fl.i)
  /\ fl' = [fl EXCEPT !.i = @ + 1]
  /\ UNCHANGED <<alive, startWin, forceNoDrop, timer, rx, peer, winBase, ahead>>

FlushMove ==
  /\ fl.pc = "until" /\ LowMay /\ fl.i = fl.no
  /\ MoveWindow(fl.no, fl.to, fl.base)
  /\ NoteAhead(fl.to, fl.base)
  /\ fl' = FlIdle
  /\ UNCHANGED <<alive, forceNoDrop, timer, rx, peer, stack>>

\* An expiry of a timer whose entry was freed: wlan_flush_data is called with
\* freed memory.  What it does there is undefined and left out.
FlushStray ==
  /\ fl.pc = "idle" /\ LowMay /\ stray
  /\ stray' = FALSE
  /\ UNCHANGED <<entry, timerIsSet, ticking, flushes, rx, fl, peer, winBase,
                 stack, ahead>>

-----------------------------------------------------------------------------
(***************************************************************************)
(* The peer sends the packets of its window in any order and as often as   *)
(* it likes, moves the window when a packet was acknowledged or given up,  *)
(* and asks for the window to be moved with a BAR.  It does not get half   *)
(* the number space ahead of the receiver (Near).                          *)
(***************************************************************************)
PeerMoves ==
  /\ alive /\ rx.pc = "idle"
  /\ snd < Last
  /\ snd + 1 + WinSize <= winBase + Half
  /\ snd' = snd + 1
  /\ UNCHANGED <<entry, timer, rx, fl, rxLast, winBase, stack, ahead>>

Sent == {n \in Ids : snd <= n /\ n < snd + WinSize}

RxStep == RxUntil \/ RxMove \/ RxStore \/ RxBar \/ RxScan \/ RxScanned \/ RxDone \/ RxFree
FlushStep ==
  \/ FlushBegin \/ FlushFind \/ FlushAim \/ FlushCount \/ FlushUntil
  \/ FlushMove \/ FlushStray

Receive(kind, n) == RxStale(kind, n) \/ RxAccept(kind, n)

Next ==
  \/ \E n \in Sent : Receive("data", n) \/ RxDirect(n)
  \/ "fw" \in Events /\ \E n \in Sent : Receive("fw", n)
  \/ "bar" \in Events /\ snd \in Ids /\ Receive("bar", snd)
  \/ "nodrop" \in Events /\ SetNoDrop
  \/ "addba" \in Events /\ CreateAgain
  \/ "delba" \in Events /\ Delete
  \/ Create
  \/ RxStep \/ TimerExpires \/ FlushStep
  \/ PeerMoves

(***************************************************************************)
(* A handler runs to its end; the driver thread waits for its event again  *)
(* and again, so that the kernel's timer task and the tasklet get the CPU. *)
(* The peer may fall silent at any time.                                   *)
(***************************************************************************)
Fairness == WF_vars(RxStep) /\ SF_vars(TimerExpires) /\ SF_vars(FlushStep)

Spec == Init /\ [][Next]_vars /\ Fairness

-----------------------------------------------------------------------------
\* start_win is the number the window starts at (MAX_TID_VALUE may stand for
\* zero), and a packet waits in the slot of its number: rx_reorder_ptr[i]
\* holds the packet numbered start_win + i, of this lap of the number space.
SlotSound ==
  alive /\ rx.pc = "idle" /\ fl.pc = "idle" =>
    /\ startWin \in 0..MaxSeq /\ Mask(startWin) = Mask(winBase)
    /\ \A i \in Slots : reorder[i] # NULL => reorder[i][1] = winBase + i

\* The stack gets the packets in the order of their numbers.  A packet only
\* follows a later one that was given up ahead of the window's new start:
\* when the window moves past the end of the number space, moves back, or is
\* asked for again.
InOrder == order # "broken"

\* The same without the exceptions.
StrictOrder == order = "kept"

\* Only a packet before the window is dropped as too old.
FreshKept ==
  [][\A n \in Ids : rx.pc = "idle" /\ rx'.pc = "done" /\ rx'.n = n
                      => n < winBase]_vars

\* No stored packet is lost or given to the stack twice, whatever is stored,
\* emptied and rotated.  It is so if a flush and a handler exclude each other;
\* with an overlap one rotates away what the other has stored.
NothingLost == held = Cardinality({i \in Slots : reorder[i] # NULL})

\* The slots implement ReorderWindow: whatever handlers, flushes and rotations
\* do, the packets in them are a set that the window never moves away from, and
\* they leave it in the order of their numbers.
Window == INSTANCE ReorderWindow WITH
  Size <- WinSize, open <- alive, base <- winBase, latest <- high,
  waiting <- {reorder[i] : i \in Slots} \ {NULL}

WindowSpec == Window!Spec

\* While packets wait in the window and nobody works on it, its timer runs
\* or has expired and the flush is due.
TimerCovers ==
  alive /\ rx.pc = "idle" /\ fl.pc = "idle" /\ (\E i \in Slots : reorder[i] # NULL)
    => ticking \/ flushes > 0

\* No packet stays in the window for ever, even if the peer falls silent:
\* the window is empty again and again.
EveryPacketLeaves == []<>(\A i \in Slots : reorder[i] = NULL)
=============================================================================
