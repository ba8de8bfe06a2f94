----------------------------- MODULE PowerSave ------------------------------
(***************************************************************************)
(* The WLAN driver's main process and the power-save handshake: the work   *)
(* function of MOAL (moal_main.c), mlan_main_process (mlan_shim.c), the    *)
(* interrupt and upload handling of mlan_sdio.c and the sleep handshake of *)
(* mlan_cmdevt.c and mlan_sta_event.c, with the card's firmware.           *)
(*                                                                         *)
(* The main process is one thread.  Between two transfers it only reads    *)
(* and writes what nobody else touches, apart from the queues and the      *)
(* interrupt flag, so each step runs up to the next transfer or test of    *)
(* those.  Interrupts, senders and the firmware act between any two steps. *)
(*                                                                         *)
(* The firmware is not part of the sources.  It is modelled from what the  *)
(* driver relies on: its uploads wait at the ports until they are read,    *)
(* reading the registers clears the interrupt status, a card that sleeps   *)
(* takes no command and no packet, and wakes when HOST_POWER_UP is written *)
(* or when it likes, which it tells by an event.  In which order the data  *)
(* ports are used is the matter of SdioPorts: one stands for all those to  *)
(* the card, and those to the host are read in any order.                  *)
(* Host sleep, UAPSD, scans and command time-outs are left out.            *)
(*                                                                         *)
(* failed is a history variable: a transfer has failed.  At most one fails *)
(* of those that the card could have taken.                                *)
(*                                                                         *)
(* line is set by each new interrupt status and taken once: the handler    *)
(* acknowledges the interrupt and leaves it unmasked, so a status that     *)
(* stays set cannot keep it pending.                                       *)
(***************************************************************************)
EXTENDS Integers, FiniteSets

CONSTANTS MaxQueue,  \* bound of the model on either queue of the senders
          DataPorts  \* the data ports of the card

ASSUME PowerSaveAssumption ==
  /\ MaxQueue \in Nat \ {0}
  /\ "ctrl" \notin DataPorts

VARIABLES work,       \* main_work is queued on the MOAL work queue
          intPending, \* func->sdio_int_pending
          ps,         \* ps_state: "AWAKE", "PRE_SLEEP", "SLEEP_CFM", "SLEEP"
          wakeupReq,  \* pm_wakeup_card_req
          wakeupTry,  \* pm_wakeup_fw_try
          cmdSent,    \* cmd_sent
          dataSent,   \* data_sent
          currCmd,    \* curr_cmd is not null
          received,   \* of "resp", "event" and "data": cmd_resp_received,
                      \* event_received, data_received
          event,      \* event_cause: "sleep" or "awake" (or "none")
          cmds,       \* number of nodes in cmd_pending_q
          pkts,       \* number of packets in the bypass and WMM lists
          pc,         \* where the main process is: "idle", "regs", "upload",
                      \* "loop", "confirm", "presleep", "cmd" or "tx"
          rd,         \* mp_rd_bitmap: "ctrl" and data ports still to read
          psWas,      \* ps_state when the uploads began ("AWAKE" if none)
          fw,         \* firmware: "awake", "asked", "confirmed", "going"
                      \* or "asleep"
          ctrl,       \* what the control port has for the host: "sleep" or
                      \* "awake" (events), "resp", "confirmed" or "refused"
                      \* (answers), or "none"
          data,       \* the data ports that have a packet for the host
          status,     \* HOST_INT_STATUS_REG: "dn" and "up" interrupts
          line,       \* the card's interrupt is not yet taken
          wcmd,       \* the control port: "free", "cmd" or "confirm"
          wdata,      \* the data port has a packet of the host's
          busy,       \* the firmware works on a command
          powerUp,    \* HOST_POWER_UP is set
          failed      \* history, see above

shared == <<work, intPending, cmds, pkts>>
flags == <<ps, wakeupReq, wakeupTry, cmdSent, dataSent, currCmd>>
rx == <<received, event, rd, psWas>>
host == <<shared, flags, rx, pc>>
ports == <<ctrl, data, status, line, wcmd, wdata>>
card == <<fw, ports, busy, powerUp>>
vars == <<host, card, failed>>

Init ==
  /\ work = FALSE /\ intPending = FALSE /\ cmds = 0 /\ pkts = 0
  /\ ps = "AWAKE" /\ wakeupReq = FALSE /\ wakeupTry = FALSE
  /\ cmdSent = FALSE /\ dataSent = FALSE /\ currCmd = FALSE
  /\ received = {} /\ event = "none" /\ rd = {} /\ psWas = "AWAKE"
  /\ pc = "idle"
  /\ fw = "awake" /\ ctrl = "none" /\ data = {}
  /\ status = {} /\ line = FALSE /\ wcmd = "free" /\ wdata = FALSE
  /\ busy = FALSE /\ powerUp = FALSE
  /\ failed = FALSE

-----------------------------------------------------------------------------
\* The other contexts of the host.

\* SDIO_IRQHandler and woal_sdio_interrupt.
Interrupt ==
  /\ line
  /\ line' = FALSE
  /\ intPending' = TRUE
  /\ work' = TRUE
  /\ UNCHANGED <<cmds, pkts, flags, rx, pc, fw, ctrl, data, status, wcmd,
                 wdata, busy, powerUp, failed>>

\* A thread queues a command or a packet, and the main work.
SendCmd ==
  /\ cmds < MaxQueue
  /\ cmds' = cmds + 1
  /\ work' = TRUE
  /\ UNCHANGED <<intPending, pkts, flags, rx, pc, card, failed>>

SendPkt ==
  /\ pkts < MaxQueue
  /\ pkts' = pkts + 1
  /\ work' = TRUE
  /\ UNCHANGED <<intPending, cmds, flags, rx, pc, card, failed>>

-----------------------------------------------------------------------------
\* The main process.

\* woal_main_work_queue; mlan_interrupt takes the host out of SLEEP before
\* the registers are read.
StartWork ==
  /\ pc = "idle"
  /\ work
  /\ work' = FALSE
  /\ intPending' = FALSE
  /\ pc' = IF intPending THEN "regs" ELSE "loop"
  /\ IF intPending /\ ps = "SLEEP"
     THEN ps' = "AWAKE" /\ wakeupTry' = FALSE
     ELSE UNCHANGED <<ps, wakeupTry>>
  /\ UNCHANGED <<cmds, pkts, wakeupReq, cmdSent, dataSent, currCmd, rx, card,
                 failed>>

(***************************************************************************)
(* wlan_interrupt reads all registers at once, which clears the status;    *)
(* wlan_process_int_status then works on that copy of them, up to the      *)
(* uploads.  A command port that is free is seen at any interrupt.         *)
(***************************************************************************)
ReadRegs ==
  /\ pc = "regs"
  /\ status' = {}
  /\ dataSent' = (dataSent /\ ~("dn" \in status /\ ~wdata))
  /\ cmdSent' = (cmdSent /\ ~(status # {} /\ wcmd = "free"))
  /\ IF "up" \in status
     THEN /\ rd' = data \cup {p \in {"ctrl"} : ctrl # "none"}
          /\ psWas' = ps
          /\ pc' = "upload"
     ELSE pc' = "loop" /\ UNCHANGED <<rd, psWas>>
  /\ UNCHANGED <<shared, ps, wakeupReq, wakeupTry, currCmd, received, event,
                 fw, ctrl, data, line, wcmd, wdata, busy, powerUp, failed>>

\* The read failed: wlan_interrupt just returns.
ReadRegsFails ==
  /\ pc = "regs"
  /\ ~failed /\ failed' = TRUE
  /\ pc' = "loop"
  /\ UNCHANGED <<shared, flags, rx, card>>

\* Mutant: the host sleeps whatever the firmware's answer says.
TakeAnswerAlways(answer) ==
  /\ IF ps = "SLEEP_CFM" /\ ~currCmd /\ answer # "resp"
     THEN ps' = "SLEEP" /\ wakeupReq' = TRUE
     ELSE UNCHANGED <<ps, wakeupReq>>
  /\ received' = IF currCmd THEN received \cup {"resp"} ELSE received
  /\ UNCHANGED event

\* Mutant: the host forgets that it has to wake the card.
TakeAnswerNoReq(answer) ==
  /\ CASE ps = "SLEEP_CFM" /\ ~currCmd /\ answer = "confirmed" ->
            ps' = "SLEEP" /\ UNCHANGED wakeupReq
       [] ps = "SLEEP_CFM" /\ ~currCmd /\ answer = "refused" ->
            ps' = "AWAKE" /\ wakeupReq' = FALSE
       [] OTHER -> UNCHANGED <<ps, wakeupReq>>
  /\ received' = IF currCmd THEN received \cup {"resp"} ELSE received
  /\ UNCHANGED event

(***************************************************************************)
(* wlan_decode_rx_packet of a command's answer: with a command outstanding *)
(* it is that command's; otherwise, and only in SLEEP_CFM, it is looked at *)
(* by wlan_process_sleep_confirm_resp.                                     *)
(***************************************************************************)
TakeAnswer(answer) ==
  /\ CASE ps = "SLEEP_CFM" /\ ~currCmd /\ answer = "confirmed" ->
            ps' = "SLEEP" /\ wakeupReq' = TRUE
       [] ps = "SLEEP_CFM" /\ ~currCmd /\ answer = "refused" ->
            ps' = "AWAKE" /\ wakeupReq' = FALSE
       [] OTHER -> UNCHANGED <<ps, wakeupReq>>
  /\ received' = IF currCmd THEN received \cup {"resp"} ELSE received
  /\ UNCHANGED event

\* The control port comes first; its buffer is the firmware's again then.
UploadCtrl ==
  /\ pc = "upload"
  /\ "ctrl" \in rd
  /\ rd' = rd \ {"ctrl"}
  /\ ctrl' = "none"
  /\ IF ctrl \in {"sleep", "awake"}
     THEN /\ event' = ctrl
          /\ received' = received \cup {"event"}
          /\ UNCHANGED <<ps, wakeupReq>>
     ELSE TakeAnswer(ctrl)
  /\ UNCHANGED <<shared, wakeupTry, cmdSent, dataSent, currCmd, psWas, pc,
                 fw, data, status, line, wcmd, wdata, busy,
                 powerUp, failed>>

\* The data ports follow, one transfer each.
UploadData ==
  /\ pc = "upload"
  /\ "ctrl" \notin rd
  /\ \E port \in rd : rd' = rd \ {port} /\ data' = data \ {port}
  /\ received' = received \cup {"data"}
  /\ UNCHANGED <<shared, flags, event, psWas, pc, fw, ctrl, status,
                 line, wcmd, wdata, busy, powerUp, failed>>

\* No memory, or the transfer failed: the other ports are not read either, and
\* what was received before stays noted.
UploadFails ==
  /\ pc = "upload"
  /\ rd # {}
  /\ ~failed /\ failed' = TRUE
  /\ pc' = "loop" /\ psWas' = "AWAKE" /\ rd' = {}
  /\ UNCHANGED <<shared, flags, received, event, card>>

\* Mutant: data that came with the answer to the confirmation stays noted.
UploadEndsKeeping ==
  /\ pc = "upload"
  /\ rd = {}
  /\ pc' = "loop" /\ psWas' = "AWAKE"
  /\ UNCHANGED <<shared, flags, received, event, rd, card, failed>>

\* Data may have come together with the answer to the sleep confirmation.
UploadEnds ==
  /\ pc = "upload"
  /\ rd = {}
  /\ pc' = "loop" /\ psWas' = "AWAKE"
  /\ received' = IF psWas = "SLEEP_CFM" /\ ps = "SLEEP"
                 THEN received \ {"data"} ELSE received
  /\ UNCHANGED <<shared, flags, event, rd, card, failed>>

Queued == cmds > 0 \/ pkts > 0

WakeNeeded == ps = "SLEEP" /\ wakeupReq /\ ~wakeupTry /\ Queued

\* wlan_pm_wakeup_card, whose failure the main process does not look at.
WakeCard ==
  /\ pc = "loop"
  /\ WakeNeeded
  /\ wakeupTry' = TRUE
  /\ \/ powerUp' = TRUE /\ UNCHANGED failed
     \/ ~failed /\ failed' = TRUE /\ UNCHANGED powerUp
  /\ UNCHANGED <<shared, ps, wakeupReq, cmdSent, dataSent, currCmd, rx, pc,
                 fw, ports, busy>>

NothingToDo ==
  \/ wakeupTry
  \/ ps # "AWAKE"
  \/ (dataSent \/ pkts = 0) /\ (cmdSent \/ currCmd \/ cmds = 0)

\* Mutant: what was received does not keep the main process in its loop.
LeaveLoopReceived ==
  /\ pc = "loop"
  /\ ~WakeNeeded
  /\ NothingToDo
  /\ pc' = "idle"
  /\ UNCHANGED <<shared, flags, rx, card, failed>>

\* The break out of the loop, and the end of the main process.
LeaveLoop ==
  /\ pc = "loop"
  /\ ~WakeNeeded
  /\ received = {}
  /\ NothingToDo
  /\ pc' = "idle"
  /\ UNCHANGED <<shared, flags, rx, card, failed>>

\* Awake, and with something to send.
StayInLoop ==
  /\ pc = "loop"
  /\ ~WakeNeeded
  /\ received = {}
  /\ ~NothingToDo
  /\ pc' = "cmd"
  /\ UNCHANGED <<shared, flags, rx, card, failed>>

\* Something was received, so the card is awake.
PsReceived == IF ps = "SLEEP" THEN "AWAKE" ELSE ps

\* wlan_process_cmdresp, and what an event does to the power save state.
TakeReceived(newPs, next) ==
  /\ pc = "loop"
  /\ ~WakeNeeded
  /\ received # {}
  /\ received' = {} /\ event' = "none"
  /\ currCmd' = (currCmd /\ "resp" \notin received)
  /\ wakeupTry' = FALSE
  /\ ps' = newPs
  /\ pc' = next
  /\ UNCHANGED <<shared, cmdSent, dataSent, rd, psWas, card, failed>>

\* No event, or one that comes while the confirmation is unanswered.
NoEvent ==
  /\ event = "none" \/ PsReceived = "SLEEP_CFM"
  /\ TakeReceived(PsReceived, "presleep")
  /\ UNCHANGED wakeupReq

\* EVENT_PS_AWAKE.
AwakeEvent ==
  /\ event = "awake" /\ PsReceived # "SLEEP_CFM"
  /\ TakeReceived("AWAKE", "presleep")
  /\ wakeupReq' = FALSE

\* EVENT_PS_SLEEP; wlan_check_ps_cond follows at once.
SleepEvent ==
  /\ event = "sleep" /\ PsReceived # "SLEEP_CFM"
  /\ TakeReceived("PRE_SLEEP", "confirm")
  /\ UNCHANGED wakeupReq

\* A write to a port: a card that sleeps never takes it, another one does
\* unless this is the one fault modelled (after MAX_WRITE_IOMEM_RETRY).
Writes == fw # "asleep" /\ UNCHANGED failed
WriteFails == (fw = "asleep" \/ ~failed) /\ failed' = TRUE

\* Mutant: the confirmation does not wait for the command outstanding.
MayConfirmEarly == ps = "PRE_SLEEP" /\ ~cmdSent /\ received = {}

\* Mutant: the confirmation is tried when the event comes and never again.
MayConfirmOnce ==
  pc = "confirm" /\ ps = "PRE_SLEEP" /\ ~cmdSent /\ ~currCmd /\ received = {}

\* wlan_check_ps_cond.
MayConfirm == ps = "PRE_SLEEP" /\ ~cmdSent /\ ~currCmd /\ received = {}

\* Nothing is sent unless the host is awake.
AfterConfirm ==
  pc' = CASE pc = "confirm" -> "presleep"
          [] pc # "confirm" /\ ps = "AWAKE" -> "cmd"
          [] OTHER -> "loop"

\* wlan_dnld_sleep_confirm_cmd: from the event, and once more on each turn.
Confirm ==
  /\ pc \in {"confirm", "presleep"}
  /\ MayConfirm
  /\ AfterConfirm
  /\ \/ /\ Writes
        /\ wcmd' = "confirm" /\ cmdSent' = TRUE /\ ps' = "SLEEP_CFM"
     \/ /\ WriteFails
        /\ cmdSent' = FALSE
        /\ UNCHANGED <<wcmd, ps>>
  /\ UNCHANGED <<shared, wakeupReq, wakeupTry, dataSent, currCmd, rx, fw,
                 ctrl, data, status, line, wdata, busy, powerUp>>

NoConfirm ==
  /\ pc \in {"confirm", "presleep"}
  /\ ~MayConfirm
  /\ AfterConfirm
  /\ UNCHANGED <<shared, flags, rx, card, failed>>

\* wlan_exec_next_cmd, wlan_dnld_cmd_to_fw; a failed write completes the
\* command and leaves the loop.
ExecNextCmd ==
  /\ pc = "cmd"
  /\ ~cmdSent /\ ~currCmd /\ cmds > 0
  /\ cmds' = cmds - 1
  /\ \/ /\ Writes
        /\ wcmd' = "cmd" /\ cmdSent' = TRUE /\ currCmd' = TRUE
        /\ pc' = "tx"
     \/ /\ WriteFails
        /\ pc' = "idle"
        /\ UNCHANGED <<wcmd, cmdSent, currCmd>>
  /\ UNCHANGED <<work, intPending, pkts, ps, wakeupReq, wakeupTry, dataSent,
                 rx, fw, ctrl, data, status, line, wdata, busy, powerUp>>

NoNextCmd ==
  /\ pc = "cmd"
  /\ cmdSent \/ currCmd \/ cmds = 0
  /\ pc' = "tx"
  /\ UNCHANGED <<shared, flags, rx, card, failed>>

\* wlan_process_bypass_tx, wlan_wmm_process_tx: a packet whose write fails
\* is completed all the same.
ProcessTx ==
  /\ pc = "tx"
  /\ ~dataSent /\ pkts > 0
  /\ pkts' = pkts - 1
  /\ \/ Writes /\ wdata' = TRUE /\ dataSent' = TRUE
     \/ WriteFails /\ UNCHANGED <<wdata, dataSent>>
  /\ UNCHANGED <<work, intPending, cmds, ps, wakeupReq, wakeupTry, cmdSent,
                 currCmd, rx, pc, fw, ctrl, data, status, line, wcmd, busy,
                 powerUp>>

NoTx ==
  /\ pc = "tx"
  /\ dataSent \/ pkts = 0
  /\ pc' = "loop"
  /\ UNCHANGED <<shared, flags, rx, card, failed>>

MainProcess ==
  \/ StartWork \/ ReadRegs \/ ReadRegsFails
  \/ UploadCtrl \/ UploadData \/ UploadFails \/ UploadEnds
  \/ WakeCard \/ LeaveLoop \/ StayInLoop
  \/ NoEvent \/ AwakeEvent \/ SleepEvent
  \/ Confirm \/ NoConfirm
  \/ ExecNextCmd \/ NoNextCmd \/ ProcessTx \/ NoTx

-----------------------------------------------------------------------------
\* The firmware.
Raise(int) == status' = status \cup {int} /\ line' = TRUE

Upload(item) ==
  /\ ctrl = "none"
  /\ ctrl' = item
  /\ Raise("up")

FwTakesCmd ==
  /\ wcmd = "cmd" /\ fw # "asleep"
  /\ wcmd' = "free"
  /\ busy' = TRUE
  /\ UNCHANGED <<host, fw, ctrl, data, status, line, wdata, powerUp, failed>>

FwAnswers ==
  /\ busy /\ fw # "asleep"
  /\ busy' = FALSE
  /\ Upload("resp")
  /\ UNCHANGED <<host, fw, data, wcmd, wdata, powerUp, failed>>

FwTakesPkt ==
  /\ wdata /\ fw # "asleep"
  /\ wdata' = FALSE
  /\ Raise("dn")
  /\ UNCHANGED <<host, fw, ctrl, data, wcmd, busy, powerUp, failed>>

FwSendsPkt ==
  /\ fw \in {"awake", "asked", "confirmed"}
  /\ \E port \in DataPorts \ data : data' = data \cup {port}
  /\ Raise("up")
  /\ UNCHANGED <<host, fw, ctrl, wcmd, wdata, busy, powerUp, failed>>

FwAsksToSleep ==
  /\ fw = "awake"
  /\ fw' = "asked"
  /\ Upload("sleep")
  /\ UNCHANGED <<host, data, wcmd, wdata, busy, powerUp, failed>>

FwTakesConfirm ==
  /\ wcmd = "confirm" /\ fw = "asked"
  /\ wcmd' = "free"
  /\ fw' = "confirmed"
  /\ UNCHANGED <<host, ctrl, data, status, line, wdata, busy, powerUp, failed>>

FwConfirms ==
  /\ fw = "confirmed"
  /\ \/ fw' = "going" /\ Upload("confirmed")
     \/ fw' = "awake" /\ Upload("refused")
  /\ UNCHANGED <<host, data, wcmd, wdata, busy, powerUp, failed>>

\* It sleeps when the host has everything and it owes the host nothing.
FwSleeps ==
  /\ fw = "going"
  /\ ctrl = "none" /\ data = {} /\ status = {}
  /\ wcmd = "free" /\ ~wdata /\ ~busy
  /\ fw' = "asleep"
  /\ UNCHANGED <<host, ports, busy, powerUp, failed>>

FwWakes ==
  /\ fw = "asleep"
  /\ fw' = "awake"
  /\ powerUp' = FALSE
  /\ Upload("awake")
  /\ UNCHANGED <<host, data, wcmd, wdata, busy, failed>>

\* A card that is awake has nothing to wake up from.
FwIgnoresPowerUp ==
  /\ powerUp /\ fw \in {"awake", "asked", "confirmed"}
  /\ powerUp' = FALSE
  /\ UNCHANGED <<host, fw, ports, busy, failed>>

Firmware ==
  \/ FwTakesCmd \/ FwAnswers \/ FwTakesPkt \/ FwSendsPkt \/ FwAsksToSleep
  \/ FwTakesConfirm \/ FwConfirms \/ FwSleeps \/ FwWakes \/ FwIgnoresPowerUp

Next == MainProcess \/ Interrupt \/ SendCmd \/ SendPkt \/ Firmware

(***************************************************************************)
(* The work queue's thread runs (WorkQueue), interrupts are taken, and the *)
(* firmware goes on with what it was given and with what it has started;   *)
(* it need not send, ask to sleep, or wake by itself.                      *)
(***************************************************************************)
Fairness ==
  /\ WF_vars(MainProcess) /\ WF_vars(Interrupt)
  /\ WF_vars(FwTakesCmd) /\ WF_vars(FwAnswers) /\ WF_vars(FwTakesPkt)
  /\ WF_vars(FwTakesConfirm) /\ WF_vars(FwConfirms) /\ WF_vars(FwSleeps)
  /\ WF_vars(FwWakes /\ powerUp)

Spec == Init /\ [][Next]_vars /\ Fairness

-----------------------------------------------------------------------------
\* mlan_sdio.c:669-692 tells the two kinds of answers apart only by curr_cmd
\* and ps_state.  An answer that is about to be read belongs to what the host
\* waits for: a command's answer finds that command outstanding, the answer
\* to the sleep confirmation finds SLEEP_CFM and no command.
AnswerExpected ==
  /\ ctrl = "resp" => currCmd /\ ps # "SLEEP_CFM"
  /\ ctrl \in {"confirmed", "refused"} => ps = "SLEEP_CFM" /\ ~currCmd

\* mlan_sdio.c:728-730 keeps one event and curr_cmd one response: whatever is
\* uploaded finds the place of its kind empty.
NothingOverwritten ==
  pc = "upload" /\ "ctrl" \in rd =>
    /\ ctrl \in {"sleep", "awake"} => "event" \notin received
    /\ ctrl = "resp" => "resp" \notin received

\* A host that sleeps sleeps with a card that sleeps or is about to, unless the
\* card's interrupt is on its way: no wake-up of the card is missed, not even
\* after a failed transfer.
SleepsTogether ==
  ps = "SLEEP" /\ ~intPending /\ ~line => fw \in {"going", "asleep"}

\* The firmware or the card's interrupt will bring the main process back: it
\* has something of the host's in hand, or is to be woken up.
Returning ==
  \/ line \/ wcmd # "free" \/ busy \/ wdata \/ fw = "confirmed"
  \/ powerUp /\ fw \in {"going", "asleep"}

\* While no transfer fails, the main process leaves nothing behind when it
\* ends: with a command or a packet queued, or a firmware that asked to sleep,
\* the card will be heard of again.  mlan_main_process decides that from its
\* flags, of which the card's interrupts bring it copies that are out of date.
NoneStranded ==
  failed \/ (pc = "idle" /\ ~work /\ (Queued \/ fw = "asked") => Returning)

\* What is queued leaves the queue, whatever the sleep handshake is at, and the
\* firmware that asked to sleep is answered: the host wakes the card, or the
\* handshake ends.  A failed transfer may lose an interrupt or a wake-up for
\* good, and voids this.
EverythingMoves ==
  /\ cmds > 0 ~> (cmds < MaxQueue \/ failed)
  /\ pkts > 0 ~> (pkts < MaxQueue \/ failed)
  /\ fw = "asked" ~> (fw # "asked" \/ failed)

\* While no transfer fails, what the main process has received takes a sleeping
\* host out of SLEEP only if the card has woken up: not the data, from however
\* many ports, that came together with the answer to the sleep confirmation.
\* An upload that fails after such data leaves it noted, and the loop leaves
\* SLEEP for a card that goes to sleep.
SleepKeptInLoop ==
  [][~failed /\ pc = "loop" /\ ps = "SLEEP" /\ ps' = "AWAKE" =>
       fw \notin {"going", "asleep"}]_vars
=============================================================================
