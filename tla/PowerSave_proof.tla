-------------------------- MODULE PowerSave_proof ---------------------------
(***************************************************************************)
(* Proofs about the main process and the sleep handshake, for queues of    *)
(* every length, any set of data ports, any interleaving with interrupts,  *)
(* senders and firmware, and a failed transfer anywhere.                   *)
(*                                                                         *)
(* The driver tells the firmware's answers apart by its own flags.  The    *)
(* argument is that a command and a sleep confirmation are each in one     *)
(* place at a time, on the control port, with the firmware, on the way     *)
(* back or noted as received, as long as the flag says that it is          *)
(* outstanding, and that the two are never outstanding together.           *)
(***************************************************************************)
EXTENDS PowerSave, TLAPS

Answers == {"confirmed", "refused"}

Flags ==
  /\ work \in BOOLEAN /\ intPending \in BOOLEAN
  /\ wakeupReq \in BOOLEAN /\ wakeupTry \in BOOLEAN
  /\ cmdSent \in BOOLEAN /\ dataSent \in BOOLEAN /\ currCmd \in BOOLEAN
  /\ line \in BOOLEAN /\ wdata \in BOOLEAN
  /\ busy \in BOOLEAN /\ powerUp \in BOOLEAN /\ failed \in BOOLEAN

HostStates ==
  /\ cmds \in 0..MaxQueue /\ pkts \in 0..MaxQueue
  /\ ps \in {"AWAKE", "PRE_SLEEP", "SLEEP_CFM", "SLEEP"}
  /\ received \subseteq {"resp", "event", "data"}
  /\ event \in {"none", "sleep", "awake"}
  /\ rd \subseteq {"ctrl"} \cup DataPorts
  /\ psWas \in {"AWAKE", "PRE_SLEEP", "SLEEP_CFM", "SLEEP"}
  /\ pc \in {"idle", "regs", "upload", "loop", "confirm", "presleep", "cmd", "tx"}

CardStates ==
  /\ fw \in {"awake", "asked", "confirmed", "going", "asleep"}
  /\ ctrl \in {"none", "sleep", "awake", "resp"} \cup Answers
  /\ data \subseteq DataPorts
  /\ status \subseteq {"dn", "up"}
  /\ wcmd \in {"free", "cmd", "confirm"}

Types == Flags /\ HostStates /\ CardStates

\* A command outstanding is in one place.
CommandOnce ==
  /\ currCmd <=> wcmd = "cmd" \/ busy \/ ctrl = "resp" \/ "resp" \in received
  /\ wcmd = "cmd" => ~busy
  /\ wcmd = "cmd" \/ busy => ctrl # "resp"
  /\ wcmd = "cmd" \/ busy \/ ctrl = "resp" => "resp" \notin received

\* So is an unanswered sleep confirmation, and no command is outstanding then.
ConfirmOnce ==
  /\ ps = "SLEEP_CFM" <=> wcmd = "confirm" \/ fw = "confirmed" \/ ctrl \in Answers
  /\ wcmd = "confirm" => fw # "confirmed"
  /\ wcmd = "confirm" \/ fw = "confirmed" => ctrl \notin Answers
  /\ ps = "SLEEP_CFM" => ~currCmd
  /\ ctrl = "confirmed" => fw = "going"

\* What the main process knows where it is.  Data that came with the answer to
\* the sleep confirmation is noted in its loop only after a failed upload.
MainAt ==
  /\ pc \in {"cmd", "tx"} => ps = "AWAKE"
  /\ pc = "regs" => ps # "SLEEP"
  /\ pc \notin {"upload", "loop"} => received = {}
  /\ pc = "loop" /\ ps = "SLEEP" =>
       received \subseteq {"data"} /\ (received # {} => failed)
  /\ pc = "upload" /\ "ctrl" \in rd =>
       received = {} /\ psWas = ps /\ ps # "SLEEP" /\ ctrl # "none"
  /\ pc = "upload" /\ ps = "SLEEP" =>
       psWas = "SLEEP_CFM" /\ received \subseteq {"data"}

\* The firmware's wish to sleep is in one place until it has the confirmation.
AskedOnce ==
  /\ fw = "asked" <=>
       ctrl = "sleep" \/ event = "sleep" \/ ps = "PRE_SLEEP" \/ wcmd = "confirm"
  /\ ctrl = "sleep" =>
       event # "sleep" /\ ps # "PRE_SLEEP" /\ wcmd # "confirm"
  /\ event = "sleep" => ps # "PRE_SLEEP" /\ wcmd # "confirm"
  /\ wcmd = "confirm" => ps # "PRE_SLEEP"

\* What is on the way from a card that is awake meets no handshake.
AwakeKnown ==
  /\ event = "none" <=> "event" \notin received
  /\ ctrl \in {"awake", "refused"} => fw = "awake"
  /\ ctrl = "awake" \/ event = "awake" => ps \in {"AWAKE", "SLEEP"}

Inv ==
  /\ Types /\ CommandOnce /\ ConfirmOnce /\ MainAt /\ SleepsTogether
  /\ AskedOnce /\ AwakeKnown

-----------------------------------------------------------------------------
\* The types.

\* Every flag stays TRUE or FALSE.
LEMMA FlagsStep == ASSUME Types, Next PROVE Flags'
<1>1. CASE StartWork
  BY <1>1, ZenonT(40) DEF Types, Flags, StartWork, rx, ports, card
<1>2. CASE ReadRegs
  BY <1>2, ZenonT(40) DEF Types, Flags, ReadRegs, shared
<1>3. CASE ReadRegsFails
  BY <1>3, ZenonT(40) DEF Types, Flags, ReadRegsFails, shared, flags, rx, ports,
                     card
<1>4. CASE UploadCtrl
  <2>1. wakeupReq' = wakeupReq \/ wakeupReq' = TRUE \/ wakeupReq' = FALSE
    BY <1>4 DEF UploadCtrl, TakeAnswer
  <2>2. UNCHANGED <<work, intPending, wakeupTry, cmdSent, dataSent, currCmd,
                    line, wdata, busy, powerUp, failed>>
    BY <1>4 DEF UploadCtrl, shared
  <2>3. wakeupReq' \in BOOLEAN
    BY <2>1, ZenonT(40) DEF Types, Flags
  <2>4. QED
    BY <2>2, <2>3, ZenonT(40) DEF Types, Flags
<1>5. CASE UploadData
  BY <1>5, ZenonT(40) DEF Types, Flags, UploadData, shared, flags
<1>6. CASE UploadFails
  BY <1>6, ZenonT(40) DEF Types, Flags, UploadFails, shared, flags, ports, card
<1>7. CASE WakeCard
  BY <1>7, ZenonT(40) DEF Types, Flags, WakeCard, shared, rx, ports
<1>8. CASE NoEvent
  BY <1>8, ZenonT(40) DEF Types, Flags, NoEvent, TakeReceived, PsReceived, shared,
                     ports, card
<1>9. CASE AwakeEvent
  BY <1>9, ZenonT(40) DEF Types, Flags, AwakeEvent, TakeReceived, PsReceived,
                     shared, ports, card
<1>10. CASE SleepEvent
  BY <1>10, ZenonT(40) DEF Types, Flags, SleepEvent, TakeReceived, PsReceived,
                      shared, ports, card
<1>11. CASE Confirm
  BY <1>11, ZenonT(40) DEF Types, Flags, Confirm, Writes, WriteFails, shared, rx
<1>12. CASE ExecNextCmd
  BY <1>12, ZenonT(40) DEF Types, Flags, ExecNextCmd, Writes, WriteFails, rx
<1>13. CASE ProcessTx
  BY <1>13, ZenonT(40) DEF Types, Flags, ProcessTx, Writes, WriteFails, rx
<1>14. CASE Interrupt
  BY <1>14, ZenonT(40) DEF Types, Flags, Interrupt, flags, rx
<1>15. CASE SendCmd
  BY <1>15, ZenonT(40) DEF Types, Flags, SendCmd, flags, rx, ports, card
<1>16. CASE SendPkt
  BY <1>16, ZenonT(40) DEF Types, Flags, SendPkt, flags, rx, ports, card
<1>17. CASE FwTakesCmd
  BY <1>17, ZenonT(40) DEF Types, Flags, FwTakesCmd, shared, flags, rx, host
<1>18. CASE FwTakesPkt
  BY <1>18, ZenonT(40) DEF Types, Flags, FwTakesPkt, Raise, shared, flags, rx,
                      host
<1>19. CASE FwIgnoresPowerUp
  BY <1>19, ZenonT(40) DEF Types, Flags, FwIgnoresPowerUp, shared, flags, rx,
                      host, ports
<1>20. CASE FwAnswers
  BY <1>20, ZenonT(40) DEF Types, Flags, FwAnswers, Upload, Raise, shared, flags,
                      rx, host
<1>21. CASE FwSendsPkt
  BY <1>21, ZenonT(40) DEF Types, Flags, FwSendsPkt, Raise, shared, flags, rx,
                      host
<1>22. CASE FwAsksToSleep
  BY <1>22, ZenonT(40) DEF Types, Flags, FwAsksToSleep, Upload, Raise, shared,
                      flags, rx, host
<1>23. CASE FwConfirms
  <2>1. /\ line' = TRUE
        /\ UNCHANGED <<work, intPending, wakeupReq, wakeupTry, cmdSent, dataSent,
                       currCmd, wdata, busy, powerUp, failed>>
    BY <1>23 DEF FwConfirms, Upload, Raise, host, shared, flags
  <2>2. QED
    BY <2>1, ZenonT(40) DEF Types, Flags
<1>24. CASE FwWakes
  BY <1>24, ZenonT(40) DEF Types, Flags, FwWakes, Upload, Raise, shared, flags,
                      rx, host
<1>25. CASE UploadEnds \/ LeaveLoop \/ StayInLoop \/ NoConfirm \/ NoNextCmd
            \/ NoTx \/ FwTakesConfirm \/ FwSleeps
  BY <1>25 DEF Types, Flags, UploadEnds, LeaveLoop, StayInLoop, NoConfirm,
               NoNextCmd, NoTx, FwTakesConfirm, FwSleeps, AfterConfirm,
               shared, flags, rx, host, ports, card
<1>26. QED
  BY <1>1, <1>2, <1>3, <1>4, <1>5, <1>6, <1>7, <1>8, <1>9, <1>10, <1>11,
     <1>12, <1>13, <1>14, <1>15, <1>16, <1>17, <1>18, <1>19, <1>20, <1>21,
     <1>22, <1>23, <1>24, <1>25
     DEF Next, MainProcess, Firmware

\* The host's queues are within their bound, and its states are named ones.
LEMMA HostStatesStep == ASSUME Types, Next PROVE HostStates'
<1>1. CASE StartWork
  BY <1>1 DEF Types, HostStates, StartWork, rx, ports, card
<1>2. CASE ReadRegs
  BY <1>2 DEF Types, HostStates, CardStates, ReadRegs, shared
<1>3. CASE ReadRegsFails
  BY <1>3 DEF Types, HostStates, ReadRegsFails, shared, flags, rx, ports,
              card
<1>4. CASE UploadCtrl
  BY <1>4 DEF Types, HostStates, UploadCtrl, TakeAnswer, shared
<1>5. CASE UploadData
  BY <1>5 DEF Types, HostStates, UploadData, shared, flags
<1>6. CASE UploadFails
  BY <1>6 DEF Types, HostStates, UploadFails, shared, flags, ports, card
<1>7. CASE UploadEnds
  BY <1>7 DEF Types, HostStates, UploadEnds, shared, flags, ports, card
<1>8. CASE LeaveLoop
  BY <1>8 DEF Types, HostStates, LeaveLoop, shared, flags, rx, ports, card
<1>9. CASE StayInLoop
  BY <1>9 DEF Types, HostStates, StayInLoop, shared, flags, rx, ports, card
<1>10. CASE NoEvent
  BY <1>10 DEF Types, HostStates, NoEvent, TakeReceived, PsReceived, shared,
               ports, card
<1>11. CASE AwakeEvent
  BY <1>11 DEF Types, HostStates, AwakeEvent, TakeReceived, PsReceived,
               shared, ports, card
<1>12. CASE SleepEvent
  BY <1>12 DEF Types, HostStates, SleepEvent, TakeReceived, PsReceived,
               shared, ports, card
<1>13. CASE Confirm
  BY <1>13 DEF Types, HostStates, Confirm, AfterConfirm, Writes, WriteFails,
               shared, rx
<1>14. CASE NoConfirm
  BY <1>14 DEF Types, HostStates, NoConfirm, AfterConfirm, shared, flags, rx,
               ports, card
<1>15. CASE ExecNextCmd
  BY <1>15, PowerSaveAssumption DEF Types, HostStates, ExecNextCmd, Writes,
                                    WriteFails, rx
<1>16. CASE NoNextCmd
  BY <1>16 DEF Types, HostStates, NoNextCmd, shared, flags, rx, ports, card
<1>17. CASE ProcessTx
  BY <1>17, PowerSaveAssumption DEF Types, HostStates, ProcessTx, Writes,
                                    WriteFails, rx
<1>18. CASE NoTx
  BY <1>18 DEF Types, HostStates, NoTx, shared, flags, rx, ports, card
<1>19. CASE SendCmd
  BY <1>19, PowerSaveAssumption DEF Types, HostStates, SendCmd, flags, rx,
                                    ports, card
<1>20. CASE SendPkt
  BY <1>20, PowerSaveAssumption DEF Types, HostStates, SendPkt, flags, rx,
                                    ports, card
<1>21. CASE WakeCard \/ Interrupt
  BY <1>21 DEF Types, HostStates, WakeCard, Interrupt, shared, flags, rx,
               ports
<1>22. CASE FwTakesCmd \/ FwTakesPkt \/ FwTakesConfirm \/ FwIgnoresPowerUp
            \/ FwAnswers \/ FwSendsPkt \/ FwAsksToSleep \/ FwConfirms
            \/ FwSleeps \/ FwWakes
  <2>1. UNCHANGED host
    BY <1>22 DEF FwTakesCmd, FwTakesPkt, FwTakesConfirm, FwIgnoresPowerUp,
                 FwAnswers, FwSendsPkt, FwAsksToSleep, FwConfirms, FwSleeps,
                 FwWakes, Upload, Raise
  <2>2. QED
    BY <2>1 DEF Types, HostStates, host, shared, flags, rx
<1>23. QED
  BY <1>1, <1>2, <1>3, <1>4, <1>5, <1>6, <1>7, <1>8, <1>9, <1>10, <1>11,
     <1>12, <1>13, <1>14, <1>15, <1>16, <1>17, <1>18, <1>19, <1>20, <1>21,
     <1>22
     DEF Next, MainProcess, Firmware

\* So are the card's.
LEMMA CardStatesStep == ASSUME Types, Next PROVE CardStates'
<1>1. CASE ReadRegs
  BY <1>1 DEF Types, CardStates, ReadRegs, shared
<1>2. CASE UploadCtrl
  BY <1>2 DEF Types, CardStates, UploadCtrl, TakeAnswer, shared
<1>3. CASE Confirm
  BY <1>3 DEF Types, CardStates, Confirm, Writes, WriteFails, shared, rx
<1>4. CASE ExecNextCmd
  BY <1>4 DEF Types, CardStates, ExecNextCmd, Writes, WriteFails, rx
<1>5. CASE FwTakesCmd
  BY <1>5 DEF Types, CardStates, FwTakesCmd, shared, flags, rx, host
<1>6. CASE FwTakesPkt
  BY <1>6 DEF Types, CardStates, FwTakesPkt, Raise, shared, flags, rx, host
<1>7. CASE FwTakesConfirm
  BY <1>7 DEF Types, CardStates, FwTakesConfirm, shared, flags, rx, host
<1>8. CASE FwAnswers
  BY <1>8 DEF Types, CardStates, Answers, FwAnswers, Upload, Raise, shared,
              flags, rx, host
<1>9. CASE FwSendsPkt
  BY <1>9 DEF Types, CardStates, FwSendsPkt, Raise, shared, flags, rx, host
<1>10. CASE FwAsksToSleep
  BY <1>10 DEF Types, CardStates, Answers, FwAsksToSleep, Upload, Raise,
               shared, flags, rx, host
<1>11. CASE FwConfirms
  BY <1>11 DEF Types, CardStates, Answers, FwConfirms, Upload, Raise, shared,
               flags, rx, host
<1>12. CASE FwSleeps
  BY <1>12 DEF Types, CardStates, FwSleeps, shared, flags, rx, host, ports
<1>13. CASE FwWakes
  BY <1>13 DEF Types, CardStates, Answers, FwWakes, Upload, Raise, shared,
               flags, rx, host
<1>14. CASE StartWork \/ ReadRegsFails \/ UploadData \/ UploadFails
            \/ UploadEnds \/ WakeCard \/ LeaveLoop \/ StayInLoop \/ NoEvent
            \/ AwakeEvent \/ SleepEvent \/ NoConfirm \/ NoNextCmd \/ ProcessTx
            \/ NoTx \/ Interrupt \/ SendCmd \/ SendPkt \/ FwIgnoresPowerUp
  BY <1>14 DEF Types, CardStates, StartWork, ReadRegsFails, UploadData,
               UploadFails, UploadEnds, WakeCard, LeaveLoop, StayInLoop,
               NoEvent, AwakeEvent, SleepEvent, NoConfirm, NoNextCmd,
               ProcessTx, NoTx, Interrupt, SendCmd, SendPkt,
               FwIgnoresPowerUp, TakeReceived, PsReceived, AfterConfirm,
               Writes, WriteFails, shared, flags, rx, host, ports, card
<1>15. QED
  BY <1>1, <1>2, <1>3, <1>4, <1>5, <1>6, <1>7, <1>8, <1>9, <1>10, <1>11,
     <1>12, <1>13, <1>14
     DEF Next, MainProcess, Firmware

-----------------------------------------------------------------------------
\* The parts of the invariant.

\* A command moves from place to place, and the flag goes when it has arrived.
LEMMA CommandOnceStep == ASSUME Inv, Next PROVE CommandOnce'
<1>1. CASE UploadCtrl
  BY <1>1 DEF Inv, CommandOnce, Types, CardStates, ConfirmOnce, MainAt,
              UploadCtrl, TakeAnswer, Answers, shared
<1>2. CASE UploadData
  BY <1>2 DEF Inv, CommandOnce, UploadData, shared, flags
<1>3. CASE UploadEnds
  BY <1>3 DEF Inv, CommandOnce, UploadEnds, shared, flags, ports, card
<1>4. CASE NoEvent
  BY <1>4 DEF Inv, CommandOnce, NoEvent, TakeReceived, PsReceived, shared,
              ports, card
<1>5. CASE AwakeEvent
  BY <1>5 DEF Inv, CommandOnce, AwakeEvent, TakeReceived, PsReceived, shared,
              ports, card
<1>6. CASE SleepEvent
  BY <1>6 DEF Inv, CommandOnce, SleepEvent, TakeReceived, PsReceived, shared,
              ports, card
<1>7. CASE Confirm
  BY <1>7 DEF Inv, CommandOnce, Confirm, MayConfirm, AfterConfirm, Writes,
              WriteFails, shared, rx
<1>8. CASE ExecNextCmd
  BY <1>8 DEF Inv, CommandOnce, ExecNextCmd, Writes, WriteFails, rx
<1>9. CASE FwTakesCmd
  BY <1>9 DEF Inv, CommandOnce, FwTakesCmd, shared, flags, rx, host
<1>10. CASE FwTakesConfirm
  BY <1>10 DEF Inv, CommandOnce, FwTakesConfirm, shared, flags, rx, host
<1>11. CASE FwAnswers
  BY <1>11 DEF Inv, CommandOnce, FwAnswers, Upload, Raise, shared, flags, rx,
               host
<1>12. CASE FwAsksToSleep
  BY <1>12 DEF Inv, CommandOnce, FwAsksToSleep, Upload, Raise, shared, flags,
               rx, host
<1>13. CASE FwConfirms
  BY <1>13 DEF Inv, CommandOnce, FwConfirms, Upload, Raise, shared, flags,
               rx, host
<1>14. CASE FwWakes
  BY <1>14 DEF Inv, CommandOnce, FwWakes, Upload, Raise, shared, flags, rx,
               host
<1>15. CASE StartWork \/ ReadRegs \/ ReadRegsFails \/ UploadFails \/ WakeCard
            \/ LeaveLoop \/ StayInLoop \/ NoConfirm \/ NoNextCmd \/ ProcessTx
            \/ NoTx \/ Interrupt \/ SendCmd \/ SendPkt \/ FwTakesPkt
            \/ FwIgnoresPowerUp \/ FwSendsPkt \/ FwSleeps
  BY <1>15 DEF Inv, CommandOnce, StartWork, ReadRegs, ReadRegsFails,
               UploadFails, WakeCard, LeaveLoop, StayInLoop, NoConfirm,
               NoNextCmd, ProcessTx, NoTx, Interrupt, SendCmd, SendPkt,
               FwTakesPkt, FwIgnoresPowerUp, FwSendsPkt, FwSleeps,
               AfterConfirm, Writes, WriteFails, Raise, shared, flags, rx,
               host, ports, card
<1>16. QED
  BY <1>1, <1>2, <1>3, <1>4, <1>5, <1>6, <1>7, <1>8, <1>9, <1>10, <1>11,
     <1>12, <1>13, <1>14, <1>15
     DEF Next, MainProcess, Firmware

\* So does the confirmation; PRE_SLEEP is left for it without a command.
LEMMA ConfirmOnceStep == ASSUME Inv, Next PROVE ConfirmOnce'
<1>1. CASE StartWork
  BY <1>1 DEF Inv, ConfirmOnce, StartWork, Answers, rx, ports, card
<1>2. CASE UploadCtrl
  BY <1>2 DEF Inv, ConfirmOnce, UploadCtrl, TakeAnswer, Answers, shared
<1>3. CASE NoEvent
  BY <1>3 DEF Inv, ConfirmOnce, NoEvent, TakeReceived, PsReceived, Answers,
              shared, ports, card
<1>4. CASE AwakeEvent
  BY <1>4 DEF Inv, ConfirmOnce, AwakeEvent, TakeReceived, PsReceived,
              Answers, shared, ports, card
<1>5. CASE SleepEvent
  BY <1>5 DEF Inv, ConfirmOnce, SleepEvent, TakeReceived, PsReceived,
              Answers, shared, ports, card
<1>6. CASE Confirm
  BY <1>6 DEF Inv, ConfirmOnce, Confirm, MayConfirm, AfterConfirm, Writes,
              WriteFails, Answers, shared, rx
<1>7. CASE ExecNextCmd
  BY <1>7 DEF Inv, ConfirmOnce, MainAt, ExecNextCmd, Writes, WriteFails,
              Answers, rx
<1>8. CASE FwTakesCmd
  BY <1>8 DEF Inv, ConfirmOnce, FwTakesCmd, Answers, shared, flags, rx, host
<1>9. CASE FwTakesConfirm
  BY <1>9 DEF Inv, ConfirmOnce, FwTakesConfirm, Answers, shared, flags, rx,
              host
<1>10. CASE FwAnswers
  BY <1>10 DEF Inv, ConfirmOnce, FwAnswers, Upload, Raise, Answers, shared,
               flags, rx, host
<1>11. CASE FwAsksToSleep
  BY <1>11 DEF Inv, ConfirmOnce, FwAsksToSleep, Upload, Raise, Answers,
               shared, flags, rx, host
<1>12. CASE FwConfirms
  BY <1>12 DEF Inv, ConfirmOnce, FwConfirms, Upload, Raise, Answers, shared,
               flags, rx, host
<1>13. CASE FwSleeps
  BY <1>13 DEF Inv, ConfirmOnce, FwSleeps, Answers, shared, flags, rx, host,
               ports
<1>14. CASE FwWakes
  BY <1>14 DEF Inv, ConfirmOnce, FwWakes, Upload, Raise, Answers, shared,
               flags, rx, host
<1>15. CASE ReadRegs \/ ReadRegsFails \/ UploadData \/ UploadFails
            \/ UploadEnds \/ WakeCard \/ LeaveLoop \/ StayInLoop \/ NoConfirm
            \/ NoNextCmd \/ ProcessTx \/ NoTx \/ Interrupt \/ SendCmd
            \/ SendPkt \/ FwTakesPkt \/ FwIgnoresPowerUp \/ FwSendsPkt
  BY <1>15 DEF Inv, ConfirmOnce, ReadRegs, ReadRegsFails, UploadData,
               UploadFails, UploadEnds, WakeCard, LeaveLoop, StayInLoop,
               NoConfirm, NoNextCmd, ProcessTx, NoTx, Interrupt, SendCmd,
               SendPkt, FwTakesPkt, FwIgnoresPowerUp, FwSendsPkt,
               AfterConfirm, Writes, WriteFails, Raise, shared, flags, rx,
               host, ports, card
<1>16. QED
  BY <1>1, <1>2, <1>3, <1>4, <1>5, <1>6, <1>7, <1>8, <1>9, <1>10, <1>11,
     <1>12, <1>13, <1>14, <1>15
     DEF Next, MainProcess, Firmware

\* The main process finds what it left, whatever the others do meanwhile.
LEMMA MainAtStep == ASSUME Inv, Next PROVE MainAt'
<1>1. CASE StartWork
  BY <1>1 DEF Inv, MainAt, StartWork, rx, ports, card
<1>2. CASE ReadRegs
  BY <1>2, PowerSaveAssumption
     DEF Inv, Types, CardStates, MainAt, ReadRegs, shared
<1>3. CASE ReadRegsFails
  BY <1>3 DEF Inv, MainAt, ReadRegsFails, shared, flags, rx, ports, card
<1>4. CASE UploadCtrl
  BY <1>4 DEF Inv, MainAt, UploadCtrl, TakeAnswer, shared
<1>5. CASE UploadData
  BY <1>5 DEF Inv, MainAt, UploadData, shared, flags
<1>6. CASE UploadFails
  BY <1>6 DEF Inv, MainAt, UploadFails, shared, flags, ports, card
<1>7. CASE UploadEnds
  BY <1>7 DEF Inv, MainAt, UploadEnds, shared, flags, ports, card
<1>8. CASE LeaveLoop
  BY <1>8 DEF Inv, MainAt, LeaveLoop, shared, flags, rx, ports, card
<1>9. CASE StayInLoop
  BY <1>9 DEF Inv, MainAt, StayInLoop, NothingToDo, shared, flags, rx, ports,
              card
<1>10. CASE NoEvent
  BY <1>10 DEF Inv, MainAt, NoEvent, TakeReceived, PsReceived, shared, ports,
               card
<1>11. CASE AwakeEvent
  BY <1>11 DEF Inv, MainAt, AwakeEvent, TakeReceived, PsReceived, shared,
               ports, card
<1>12. CASE SleepEvent
  BY <1>12 DEF Inv, MainAt, SleepEvent, TakeReceived, PsReceived, shared,
               ports, card
<1>13. CASE Confirm
  BY <1>13 DEF Inv, MainAt, Confirm, MayConfirm, AfterConfirm, Writes,
               WriteFails, shared, rx
<1>14. CASE NoConfirm
  BY <1>14 DEF Inv, MainAt, NoConfirm, AfterConfirm, shared, flags, rx,
               ports, card
<1>15. CASE ExecNextCmd
  BY <1>15 DEF Inv, MainAt, ExecNextCmd, Writes, WriteFails, rx
<1>16. CASE NoNextCmd
  BY <1>16 DEF Inv, MainAt, NoNextCmd, shared, flags, rx, ports, card
<1>17. CASE NoTx
  BY <1>17 DEF Inv, MainAt, NoTx, shared, flags, rx, ports, card
<1>18. CASE FwAnswers
  BY <1>18 DEF Inv, MainAt, FwAnswers, Upload, Raise, shared, flags, rx, host
<1>19. CASE FwAsksToSleep
  BY <1>19 DEF Inv, MainAt, FwAsksToSleep, Upload, Raise, shared, flags, rx,
               host
<1>20. CASE FwConfirms
  BY <1>20 DEF Inv, MainAt, FwConfirms, Upload, Raise, shared, flags, rx,
               host
<1>21. CASE FwWakes
  BY <1>21 DEF Inv, MainAt, FwWakes, Upload, Raise, shared, flags, rx, host
<1>22. CASE WakeCard \/ ProcessTx \/ Interrupt \/ SendCmd \/ SendPkt
            \/ FwTakesCmd \/ FwTakesPkt \/ FwTakesConfirm \/ FwIgnoresPowerUp
            \/ FwSendsPkt \/ FwSleeps
  BY <1>22 DEF Inv, MainAt, WakeCard, ProcessTx, Interrupt, SendCmd, SendPkt,
               FwTakesCmd, FwTakesPkt, FwTakesConfirm, FwIgnoresPowerUp,
               FwSendsPkt, FwSleeps, Writes, WriteFails, Raise, shared,
               flags, rx, host, ports, card
<1>23. QED
  BY <1>1, <1>2, <1>3, <1>4, <1>5, <1>6, <1>7, <1>8, <1>9, <1>10, <1>11,
     <1>12, <1>13, <1>14, <1>15, <1>16, <1>17, <1>18, <1>19, <1>20, <1>21,
     <1>22
     DEF Next, MainProcess, Firmware

\* A card that wakes raises its interrupt, and one about to sleep is quiet.
LEMMA SleepsTogetherStep == ASSUME Inv, Next PROVE SleepsTogether'
<1>1. CASE StartWork
  BY <1>1 DEF Inv, SleepsTogether, StartWork, rx, ports, card
<1>2. CASE UploadCtrl
  BY <1>2 DEF Inv, SleepsTogether, ConfirmOnce, UploadCtrl, TakeAnswer,
              shared
<1>3. CASE NoEvent
  BY <1>3 DEF Inv, SleepsTogether, NoEvent, TakeReceived, PsReceived, shared,
              ports, card
<1>4. CASE AwakeEvent
  BY <1>4 DEF Inv, SleepsTogether, AwakeEvent, TakeReceived, PsReceived,
              shared, ports, card
<1>5. CASE SleepEvent
  BY <1>5 DEF Inv, SleepsTogether, SleepEvent, TakeReceived, PsReceived,
              shared, ports, card
<1>6. CASE Confirm
  BY <1>6 DEF Inv, SleepsTogether, Confirm, MayConfirm, AfterConfirm, Writes,
              WriteFails, shared, rx
<1>7. CASE Interrupt
  BY <1>7 DEF Inv, SleepsTogether, Interrupt, flags, rx
<1>8. CASE FwTakesPkt
  BY <1>8 DEF Inv, SleepsTogether, FwTakesPkt, Raise, shared, flags, rx, host
<1>9. CASE FwTakesConfirm
  BY <1>9 DEF Inv, SleepsTogether, FwTakesConfirm, shared, flags, rx, host
<1>10. CASE FwAnswers
  BY <1>10 DEF Inv, SleepsTogether, FwAnswers, Upload, Raise, shared, flags,
               rx, host
<1>11. CASE FwSendsPkt
  BY <1>11 DEF Inv, SleepsTogether, FwSendsPkt, Raise, shared, flags, rx,
               host
<1>12. CASE FwAsksToSleep
  BY <1>12 DEF Inv, SleepsTogether, FwAsksToSleep, Upload, Raise, shared,
               flags, rx, host
<1>13. CASE FwConfirms
  BY <1>13 DEF Inv, SleepsTogether, FwConfirms, Upload, Raise, shared, flags,
               rx, host
<1>14. CASE FwSleeps
  BY <1>14 DEF Inv, SleepsTogether, FwSleeps, shared, flags, rx, host, ports
<1>15. CASE FwWakes
  BY <1>15 DEF Inv, SleepsTogether, FwWakes, Upload, Raise, shared, flags,
               rx, host
<1>16. CASE ReadRegs \/ ReadRegsFails \/ UploadData \/ UploadFails
            \/ UploadEnds \/ WakeCard \/ LeaveLoop \/ StayInLoop \/ NoConfirm
            \/ ExecNextCmd \/ NoNextCmd \/ ProcessTx \/ NoTx \/ SendCmd
            \/ SendPkt \/ FwTakesCmd \/ FwIgnoresPowerUp
  BY <1>16 DEF Inv, SleepsTogether, ReadRegs, ReadRegsFails, UploadData,
               UploadFails, UploadEnds, WakeCard, LeaveLoop, StayInLoop,
               NoConfirm, ExecNextCmd, NoNextCmd, ProcessTx, NoTx, SendCmd,
               SendPkt, FwTakesCmd, FwIgnoresPowerUp, AfterConfirm, Writes,
               WriteFails, shared, flags, rx, host, ports, card
<1>17. QED
  BY <1>1, <1>2, <1>3, <1>4, <1>5, <1>6, <1>7, <1>8, <1>9, <1>10, <1>11,
     <1>12, <1>13, <1>14, <1>15, <1>16
     DEF Next, MainProcess, Firmware

\* So does the wish to sleep, from the event to PRE_SLEEP and the confirmation.
LEMMA AskedOnceStep == ASSUME Inv, Next PROVE AskedOnce'
<1>1. CASE StartWork
  BY <1>1 DEF Inv, AskedOnce, StartWork, rx, ports, card
<1>2. CASE UploadCtrl
  BY <1>2 DEF Inv, AskedOnce, MainAt, AwakeKnown, UploadCtrl, TakeAnswer,
              shared
<1>3. CASE NoEvent
  BY <1>3 DEF Inv, AskedOnce, ConfirmOnce, AwakeKnown, Answers, NoEvent,
              TakeReceived, PsReceived, shared, ports, card
<1>4. CASE AwakeEvent
  BY <1>4 DEF Inv, AskedOnce, AwakeKnown, AwakeEvent, TakeReceived,
              PsReceived, shared, ports, card
<1>5. CASE SleepEvent
  BY <1>5 DEF Inv, AskedOnce, SleepEvent, TakeReceived, PsReceived, shared,
              ports, card
<1>6. CASE Confirm
  BY <1>6 DEF Inv, AskedOnce, Confirm, MayConfirm, AfterConfirm, Writes,
              WriteFails, shared, rx
<1>7. CASE ExecNextCmd
  BY <1>7 DEF Inv, AskedOnce, ConfirmOnce, MainAt, ExecNextCmd, Writes,
              WriteFails, rx
<1>8. CASE FwTakesCmd
  BY <1>8 DEF Inv, AskedOnce, FwTakesCmd, shared, flags, rx, host
<1>9. CASE FwTakesConfirm
  BY <1>9 DEF Inv, AskedOnce, FwTakesConfirm, shared, flags, rx, host
<1>10. CASE FwAnswers
  BY <1>10 DEF Inv, AskedOnce, FwAnswers, Upload, Raise, shared, flags, rx,
               host
<1>11. CASE FwAsksToSleep
  BY <1>11 DEF Inv, AskedOnce, FwAsksToSleep, Upload, Raise, shared, flags,
               rx, host
<1>12. CASE FwConfirms
  BY <1>12 DEF Inv, AskedOnce, FwConfirms, Upload, Raise, shared, flags, rx,
               host
<1>13. CASE FwSleeps
  BY <1>13 DEF Inv, AskedOnce, FwSleeps, shared, flags, rx, host, ports
<1>14. CASE FwWakes
  BY <1>14 DEF Inv, AskedOnce, FwWakes, Upload, Raise, shared, flags, rx,
               host
<1>15. CASE ReadRegs \/ ReadRegsFails \/ UploadData \/ UploadFails
            \/ UploadEnds \/ WakeCard \/ LeaveLoop \/ StayInLoop \/ NoConfirm
            \/ NoNextCmd \/ ProcessTx \/ NoTx \/ Interrupt \/ SendCmd
            \/ SendPkt \/ FwTakesPkt \/ FwIgnoresPowerUp \/ FwSendsPkt
  BY <1>15 DEF Inv, AskedOnce, ReadRegs, ReadRegsFails, UploadData,
               UploadFails, UploadEnds, WakeCard, LeaveLoop, StayInLoop,
               NoConfirm, NoNextCmd, ProcessTx, NoTx, Interrupt, SendCmd,
               SendPkt, FwTakesPkt, FwIgnoresPowerUp, FwSendsPkt,
               AfterConfirm, Writes, WriteFails, Raise, shared, flags, rx,
               host, ports, card
<1>16. QED
  BY <1>1, <1>2, <1>3, <1>4, <1>5, <1>6, <1>7, <1>8, <1>9, <1>10, <1>11,
     <1>12, <1>13, <1>14, <1>15
     DEF Next, MainProcess, Firmware

\* A card that wakes finds neither PRE_SLEEP nor an unanswered confirmation.
LEMMA AwakeKnownStep == ASSUME Inv, Next PROVE AwakeKnown'
<1>1. CASE StartWork
  BY <1>1 DEF Inv, AwakeKnown, StartWork, rx, ports, card
<1>2. CASE UploadCtrl
  BY <1>2 DEF Inv, AwakeKnown, UploadCtrl, TakeAnswer, shared
<1>3. CASE UploadData
  BY <1>3 DEF Inv, AwakeKnown, UploadData, shared, flags
<1>4. CASE UploadEnds
  BY <1>4 DEF Inv, AwakeKnown, UploadEnds, shared, flags, ports, card
<1>5. CASE NoEvent
  BY <1>5 DEF Inv, AwakeKnown, NoEvent, TakeReceived, PsReceived, shared,
              ports, card
<1>6. CASE AwakeEvent
  BY <1>6 DEF Inv, AwakeKnown, AwakeEvent, TakeReceived, PsReceived, shared,
              ports, card
<1>7. CASE SleepEvent
  BY <1>7 DEF Inv, AwakeKnown, AskedOnce, SleepEvent, TakeReceived,
              PsReceived, shared, ports, card
<1>8. CASE Confirm
  BY <1>8 DEF Inv, AwakeKnown, Confirm, MayConfirm, AfterConfirm, Writes,
              WriteFails, shared, rx
<1>9. CASE FwTakesConfirm
  BY <1>9 DEF Inv, AwakeKnown, FwTakesConfirm, shared, flags, rx, host
<1>10. CASE FwAnswers
  BY <1>10 DEF Inv, AwakeKnown, FwAnswers, Upload, Raise, shared, flags, rx,
               host
<1>11. CASE FwAsksToSleep
  BY <1>11 DEF Inv, AwakeKnown, FwAsksToSleep, Upload, Raise, shared, flags,
               rx, host
<1>12. CASE FwConfirms
  BY <1>12 DEF Inv, AwakeKnown, FwConfirms, Upload, Raise, shared, flags, rx,
               host
<1>13. CASE FwSleeps
  BY <1>13 DEF Inv, AwakeKnown, FwSleeps, shared, flags, rx, host, ports
<1>14. CASE FwWakes
  BY <1>14 DEF Inv, AwakeKnown, ConfirmOnce, AskedOnce, Types, HostStates,
               Answers, FwWakes, Upload, Raise, shared, flags, rx, host
<1>15. CASE ReadRegs \/ ReadRegsFails \/ UploadFails \/ WakeCard \/ LeaveLoop
            \/ StayInLoop \/ NoConfirm \/ ExecNextCmd \/ NoNextCmd
            \/ ProcessTx \/ NoTx \/ Interrupt \/ SendCmd \/ SendPkt
            \/ FwTakesCmd \/ FwTakesPkt \/ FwIgnoresPowerUp \/ FwSendsPkt
  BY <1>15 DEF Inv, AwakeKnown, ReadRegs, ReadRegsFails, UploadFails,
               WakeCard, LeaveLoop, StayInLoop, NoConfirm, ExecNextCmd,
               NoNextCmd, ProcessTx, NoTx, Interrupt, SendCmd, SendPkt,
               FwTakesCmd, FwTakesPkt, FwIgnoresPowerUp, FwSendsPkt,
               AfterConfirm, Writes, WriteFails, Raise, shared, flags, rx,
               host, ports, card
<1>16. QED
  BY <1>1, <1>2, <1>3, <1>4, <1>5, <1>6, <1>7, <1>8, <1>9, <1>10, <1>11,
     <1>12, <1>13, <1>14, <1>15
     DEF Next, MainProcess, Firmware

LEMMA StutterStep == ASSUME Inv, UNCHANGED vars PROVE Inv'
  BY DEF Inv, Types, Flags, HostStates, CardStates, CommandOnce, ConfirmOnce,
         MainAt, SleepsTogether, AskedOnce, AwakeKnown, vars, host, card,
         shared, flags, rx, ports

LEMMA InitInv == Init => Inv
<1> SUFFICES ASSUME Init PROVE Inv
  OBVIOUS
<1>1. Flags
  BY ZenonT(40) DEF Init, Flags
<1>2. HostStates /\ CardStates
  BY PowerSaveAssumption DEF Init, HostStates, CardStates
<1>3. CommandOnce /\ ConfirmOnce /\ MainAt /\ SleepsTogether /\ AskedOnce
      /\ AwakeKnown
  BY DEF Init, CommandOnce, ConfirmOnce, MainAt, SleepsTogether, AskedOnce,
         AwakeKnown, Answers
<1>4. QED
  BY <1>1, <1>2, <1>3 DEF Inv, Types

LEMMA NextInv == ASSUME Inv, [Next]_vars PROVE Inv'
<1>1. CASE Next
  <2>1. Types'
    BY <1>1, FlagsStep, HostStatesStep, CardStatesStep DEF Inv, Types
  <2>2. QED
    BY <1>1, <2>1, CommandOnceStep, ConfirmOnceStep, MainAtStep,
       SleepsTogetherStep, AskedOnceStep, AwakeKnownStep DEF Inv
<1>2. CASE UNCHANGED vars
  BY <1>2, StutterStep
<1>3. QED
  BY <1>1, <1>2

-----------------------------------------------------------------------------
\* The inductive invariant of the main process with interrupts, senders, the
\* firmware and failed transfers.
THEOREM Invariance == Spec => []Inv
<1>1. Inv /\ [Next]_vars => Inv'
  BY NextInv
<1>2. QED
  BY InitInv, <1>1, PTL DEF Spec

\* The type invariant of the driver's flags and states and of the card's.
THEOREM TypeCorrect == Spec => []Types
<1>1. Inv => Types
  BY DEF Inv
<1>2. QED
  BY Invariance, <1>1, PTL

\* wlan_decode_rx_packet, which has curr_cmd and ps_state only to tell what an
\* upload of the command port answers, always tells it right.
THEOREM AnswersAreExpected == Spec => []AnswerExpected
<1>1. Inv => AnswerExpected
  BY DEF Inv, CommandOnce, ConfirmOnce, AnswerExpected, Answers
<1>2. QED
  BY Invariance, <1>1, PTL

\* An event_cause or a response that was not worked on yet is never written
\* over by the next upload: the main process does not read the registers
\* again before it has emptied what it received.
THEOREM UploadsFindRoom == Spec => []NothingOverwritten
<1>1. Inv => NothingOverwritten
  BY DEF Inv, MainAt, NothingOverwritten
<1>2. QED
  BY Invariance, <1>1, PTL

\* The host does not sleep beside a card that is awake, unless the interrupt
\* that will take it out of SLEEP is pending.
THEOREM HostSleepsWithCard == Spec => []SleepsTogether
<1>1. Inv => SleepsTogether
  BY DEF Inv
<1>2. QED
  BY Invariance, <1>1, PTL

\* What firmware that asked to sleep waits for is always in one place: the
\* event on its way, event_cause, PRE_SLEEP, or the confirmation on its way.
\* No failed transfer and no other event loses it or doubles it.
THEOREM SleepRequestKept == Spec => []AskedOnce
<1>1. Inv => AskedOnce
  BY DEF Inv
<1>2. QED
  BY Invariance, <1>1, PTL

\* While no transfer fails, the main loop takes the host out of SLEEP only for
\* a card that woke up.  What data came with the answer to the sleep
\* confirmation, on any of the ports, was dropped from the notes (mlan_sdio.c),
\* and no other is there.
THEOREM SleepIsKept == Spec => SleepKeptInLoop
<1>1. ASSUME Inv, [Next]_vars, ~failed, pc = "loop", ps = "SLEEP"
      PROVE  ps' # "AWAKE"
  <2>1. received = {}
    BY <1>1 DEF Inv, MainAt
  <2>2. CASE MainProcess
    BY <1>1, <2>1, <2>2
       DEF MainProcess, StartWork, ReadRegs, ReadRegsFails, UploadCtrl,
           UploadData, UploadFails, UploadEnds, WakeCard, LeaveLoop,
           StayInLoop, NoEvent, AwakeEvent, SleepEvent, TakeReceived, Confirm,
           NoConfirm, ExecNextCmd, NoNextCmd, ProcessTx, NoTx, flags
  <2>3. CASE Interrupt \/ SendCmd \/ SendPkt \/ Firmware
    BY <1>1, <2>3
       DEF Interrupt, SendCmd, SendPkt, Firmware, FwTakesCmd, FwAnswers,
           FwTakesPkt, FwSendsPkt, FwAsksToSleep, FwTakesConfirm, FwConfirms,
           FwSleeps, FwWakes, FwIgnoresPowerUp, host, flags
  <2>4. CASE UNCHANGED vars
    BY <1>1, <2>4 DEF vars, host, flags
  <2>5. QED
    BY <1>1, <2>2, <2>3, <2>4 DEF Next
<1>2. Inv /\ [Next]_vars =>
        [~failed /\ pc = "loop" /\ ps = "SLEEP" /\ ps' = "AWAKE" =>
           fw \notin {"going", "asleep"}]_vars
  BY <1>1
<1>3. QED
  BY Invariance, <1>2, PTL DEF Spec, SleepKeptInLoop

-----------------------------------------------------------------------------
\* As long as no transfer fails: what is raised, outstanding and asked for
\* brings the main process back.

\* Whatever the card has for the host is announced or being read.
Raised ==
  /\ intPending => work
  /\ status # {} => line \/ intPending \/ pc = "regs"
  /\ ctrl # "none" => "up" \in status \/ (pc = "upload" /\ "ctrl" \in rd)
  /\ data # {} => "up" \in status \/ (pc = "upload" /\ data \subseteq rd)

\* data_sent and cmd_sent are set only for what the card has or has just had.
Outstanding ==
  /\ dataSent => wdata \/ "dn" \in status
  /\ cmdSent => wcmd # "free" \/ busy \/ fw = "confirmed" \/ status # {}
  /\ cmdSent => currCmd \/ ps = "SLEEP_CFM"
  /\ pc = "upload" /\ "ctrl" \in rd /\ ctrl \in Answers \cup {"resp"} => ~cmdSent
  /\ "resp" \in received => ~cmdSent

\* A sleeping host is to wake the card for what is queued, and a card that was
\* told to wake up is about to, or has told of it.
Waking ==
  /\ ps = "SLEEP" => wakeupReq
  /\ wakeupTry =>
       /\ ps = "SLEEP"
       /\ line \/ intPending \/ (powerUp /\ fw \in {"going", "asleep"})

\* A confirmation that is due waits for a command, and the main process ends
\* when it has nothing to do.
AtRest ==
  /\ ps = "PRE_SLEEP" => currCmd \/ pc \in {"confirm", "presleep"}
  /\ pc = "idle" /\ ~work => NothingToDo /\ ~WakeNeeded

Moving == Raised /\ Outstanding /\ Waking /\ AtRest

\* A status or a full port has its interrupt, and an interrupt its work.
LEMMA RaisedStep ==
  ASSUME Inv, Moving, Next, ~failed'
  PROVE  Raised'
<1>1. CASE StartWork
  BY <1>1 DEF Inv, Moving, Raised, StartWork, rx, ports, card
<1>2. CASE ReadRegs
  BY <1>2 DEF Inv, Moving, Raised, ReadRegs, shared
<1>3. CASE UploadCtrl
  BY <1>3, PowerSaveAssumption
     DEF Inv, Types, CardStates, Moving, Raised, UploadCtrl, TakeAnswer, shared
<1>4. CASE UploadData
  BY <1>4 DEF Inv, Moving, Raised, UploadData, shared, flags
<1>5. CASE UploadEnds
  BY <1>5 DEF Inv, Moving, Raised, UploadEnds, shared, flags, ports, card
<1>6. CASE NoEvent
  BY <1>6 DEF Inv, Moving, Raised, NoEvent, TakeReceived, PsReceived, shared,
             ports, card
<1>7. CASE AwakeEvent
  BY <1>7 DEF Inv, Moving, Raised, AwakeEvent, TakeReceived, PsReceived,
             shared, ports, card
<1>8. CASE SleepEvent
  BY <1>8 DEF Inv, Moving, Raised, SleepEvent, TakeReceived, PsReceived,
             shared, ports, card
<1>9. CASE Confirm
  BY <1>9 DEF Inv, Moving, Raised, Confirm, MayConfirm, AfterConfirm, Writes,
             WriteFails, shared, rx
<1>10. CASE ExecNextCmd
  BY <1>10 DEF Inv, Moving, Raised, ExecNextCmd, Writes, WriteFails, rx
<1>11. CASE Interrupt
  BY <1>11 DEF Inv, Moving, Raised, Interrupt, flags, rx
<1>12. CASE FwAnswers
  BY <1>12 DEF Inv, Moving, Raised, FwAnswers, Upload, Raise, shared, flags,
              rx, host
<1>13. CASE FwTakesPkt
  BY <1>13 DEF Inv, Moving, Raised, FwTakesPkt, Raise, shared, flags, rx, host
<1>14. CASE FwSendsPkt
  BY <1>14 DEF Inv, Moving, Raised, FwSendsPkt, Raise, shared, flags, rx, host
<1>15. CASE FwAsksToSleep
  BY <1>15 DEF Inv, Moving, Raised, FwAsksToSleep, Upload, Raise, shared,
              flags, rx, host
<1>16. CASE FwConfirms
  BY <1>16 DEF Inv, Moving, Raised, FwConfirms, Upload, Raise, shared, flags,
              rx, host
<1>17. CASE FwWakes
  BY <1>17 DEF Inv, Moving, Raised, FwWakes, Upload, Raise, shared, flags, rx,
              host
<1>18. CASE WakeCard \/ LeaveLoop \/ StayInLoop
            \/ NoConfirm \/ NoNextCmd \/ ProcessTx
            \/ NoTx \/ SendCmd \/ SendPkt
            \/ FwTakesCmd \/ FwTakesConfirm \/ FwSleeps
            \/ FwIgnoresPowerUp \/ ReadRegsFails \/ UploadFails
  BY <1>18 DEF Inv, Moving, Raised, WakeCard, LeaveLoop, StayInLoop,
            NoConfirm, NoNextCmd, ProcessTx, NoTx, SendCmd, SendPkt,
            FwTakesCmd, FwTakesConfirm, FwSleeps, FwIgnoresPowerUp,
            ReadRegsFails, UploadFails, WakeNeeded, shared, rx, ports, flags,
            card, NothingToDo, MayConfirm, AfterConfirm, Writes, WriteFails,
            host
<1>19. QED
  BY <1>1, <1>2, <1>3, <1>4, <1>5, <1>6, <1>7, <1>8, <1>9, <1>10, <1>11,
     <1>12, <1>13, <1>14, <1>15, <1>16, <1>17, <1>18
     DEF Next, MainProcess, Firmware

\* What is marked as sent is with the card until its status says otherwise.
LEMMA OutstandingStep ==
  ASSUME Inv, Moving, Next, ~failed'
  PROVE  Outstanding'
<1>1. CASE StartWork
  BY <1>1 DEF Inv, Moving, Outstanding, StartWork, rx, ports, card
<1>2. CASE ReadRegs
  BY <1>2 DEF Inv, Moving, Outstanding, CommandOnce, ConfirmOnce, Answers,
             Raised, Types, CardStates, ReadRegs, shared
<1>3. CASE UploadCtrl
  BY <1>3 DEF Inv, Moving, Outstanding, Types, CardStates, Answers, MainAt,
             UploadCtrl, TakeAnswer, shared
<1>4. CASE UploadData
  BY <1>4 DEF Inv, Moving, Outstanding, UploadData, shared, flags
<1>5. CASE UploadEnds
  BY <1>5 DEF Inv, Moving, Outstanding, UploadEnds, shared, flags, ports, card
<1>6. CASE NoEvent
  BY <1>6 DEF Inv, Moving, Outstanding, MainAt, NoEvent, TakeReceived,
             PsReceived, shared, ports, card
<1>7. CASE AwakeEvent
  BY <1>7 DEF Inv, Moving, Outstanding, MainAt, AwakeEvent, TakeReceived,
             PsReceived, shared, ports, card
<1>8. CASE SleepEvent
  BY <1>8 DEF Inv, Moving, Outstanding, MainAt, AskedOnce, ConfirmOnce,
             SleepEvent, TakeReceived, PsReceived, shared, ports, card
<1>9. CASE Confirm
  BY <1>9 DEF Inv, Moving, Outstanding, MainAt, Confirm, MayConfirm,
             AfterConfirm, Writes, WriteFails, shared, rx
<1>10. CASE ExecNextCmd
  BY <1>10 DEF Inv, Moving, Outstanding, MainAt, ExecNextCmd, Writes,
              WriteFails, rx
<1>11. CASE ProcessTx
  BY <1>11 DEF Inv, Moving, Outstanding, ProcessTx, Writes, WriteFails, rx
<1>12. CASE FwTakesCmd
  BY <1>12 DEF Inv, Moving, Outstanding, FwTakesCmd, shared, flags, rx, host
<1>13. CASE FwAnswers
  BY <1>13 DEF Inv, Moving, Outstanding, MainAt, ConfirmOnce, CommandOnce,
              FwAnswers, Upload, Raise, shared, flags, rx, host
<1>14. CASE FwTakesPkt
  BY <1>14 DEF Inv, Moving, Outstanding, FwTakesPkt, Raise, shared, flags, rx,
              host
<1>15. CASE FwSendsPkt
  BY <1>15 DEF Inv, Moving, Outstanding, FwSendsPkt, Raise, shared, flags, rx,
              host
<1>16. CASE FwAsksToSleep
  BY <1>16 DEF Inv, Moving, Outstanding, Answers, FwAsksToSleep, Upload,
              Raise, shared, flags, rx, host
<1>17. CASE FwTakesConfirm
  BY <1>17 DEF Inv, Moving, Outstanding, FwTakesConfirm, shared, flags, rx,
              host
<1>18. CASE FwConfirms
  BY <1>18 DEF Inv, Moving, Outstanding, MainAt, FwConfirms, Upload, Raise,
              shared, flags, rx, host
<1>19. CASE FwWakes
  BY <1>19 DEF Inv, Moving, Outstanding, Answers, FwWakes, Upload, Raise,
              shared, flags, rx, host
<1>20. CASE WakeCard \/ LeaveLoop \/ StayInLoop
            \/ NoConfirm \/ NoNextCmd \/ NoTx
            \/ Interrupt \/ SendCmd \/ SendPkt
            \/ FwSleeps \/ FwIgnoresPowerUp \/ ReadRegsFails
            \/ UploadFails
  BY <1>20 DEF Inv, Moving, Outstanding, WakeCard, LeaveLoop, StayInLoop,
            NoConfirm, NoNextCmd, NoTx, Interrupt, SendCmd, SendPkt, FwSleeps,
            FwIgnoresPowerUp, ReadRegsFails, UploadFails, WakeNeeded, shared,
            rx, ports, flags, card, NothingToDo, MayConfirm, AfterConfirm,
            host
<1>21. QED
  BY <1>1, <1>2, <1>3, <1>4, <1>5, <1>6, <1>7, <1>8, <1>9, <1>10, <1>11,
     <1>12, <1>13, <1>14, <1>15, <1>16, <1>17, <1>18, <1>19, <1>20
     DEF Next, MainProcess, Firmware

\* A sleeping host may wake the card, and does so until the card is heard of.
LEMMA WakingStep ==
  ASSUME Inv, Moving, Next, ~failed'
  PROVE  Waking'
<1>1. CASE StartWork
  BY <1>1 DEF Inv, Moving, Waking, StartWork, rx, ports, card
<1>2. CASE UploadCtrl
  BY <1>2 DEF Inv, Moving, Waking, UploadCtrl, TakeAnswer, shared
<1>3. CASE WakeCard
  BY <1>3 DEF Inv, Moving, Waking, SleepsTogether, WakeCard, WakeNeeded,
             shared, rx, ports
<1>4. CASE NoEvent
  BY <1>4 DEF Inv, Moving, Waking, NoEvent, TakeReceived, PsReceived, shared,
             ports, card
<1>5. CASE AwakeEvent
  BY <1>5 DEF Inv, Moving, Waking, AwakeEvent, TakeReceived, PsReceived,
             shared, ports, card
<1>6. CASE SleepEvent
  BY <1>6 DEF Inv, Moving, Waking, SleepEvent, TakeReceived, PsReceived,
             shared, ports, card
<1>7. CASE Confirm
  BY <1>7 DEF Inv, Moving, Waking, Confirm, MayConfirm, AfterConfirm, Writes,
             WriteFails, shared, rx
<1>8. CASE Interrupt
  BY <1>8 DEF Inv, Moving, Waking, Interrupt, flags, rx
<1>9. CASE FwAnswers
  BY <1>9 DEF Inv, Moving, Waking, FwAnswers, Upload, Raise, shared, flags,
             rx, host
<1>10. CASE FwTakesPkt
  BY <1>10 DEF Inv, Moving, Waking, FwTakesPkt, Raise, shared, flags, rx, host
<1>11. CASE FwSendsPkt
  BY <1>11 DEF Inv, Moving, Waking, FwSendsPkt, Raise, shared, flags, rx, host
<1>12. CASE FwAsksToSleep
  BY <1>12 DEF Inv, Moving, Waking, FwAsksToSleep, Upload, Raise, shared,
              flags, rx, host
<1>13. CASE FwConfirms
  BY <1>13 DEF Inv, Moving, Waking, FwConfirms, Upload, Raise, shared, flags,
              rx, host
<1>14. CASE FwSleeps
  BY <1>14 DEF Inv, Moving, Waking, FwSleeps, shared, flags, rx, host, ports
<1>15. CASE FwWakes
  BY <1>15 DEF Inv, Moving, Waking, FwWakes, Upload, Raise, shared, flags, rx,
              host
<1>16. CASE FwIgnoresPowerUp
  BY <1>16 DEF Inv, Moving, Waking, FwIgnoresPowerUp, shared, flags, rx, host,
              ports
<1>17. CASE ReadRegs \/ UploadData \/ UploadEnds
            \/ LeaveLoop \/ StayInLoop \/ NoConfirm
            \/ ExecNextCmd \/ NoNextCmd \/ ProcessTx
            \/ NoTx \/ SendCmd \/ SendPkt
            \/ FwTakesCmd \/ FwTakesConfirm \/ ReadRegsFails
            \/ UploadFails
  BY <1>17 DEF Inv, Moving, Waking, ReadRegs, UploadData, UploadEnds,
            LeaveLoop, StayInLoop, NoConfirm, ExecNextCmd, NoNextCmd,
            ProcessTx, NoTx, SendCmd, SendPkt, FwTakesCmd, FwTakesConfirm,
            ReadRegsFails, UploadFails, shared, flags, ports, card, rx,
            NothingToDo, MayConfirm, AfterConfirm, Writes, WriteFails, host
<1>18. QED
  BY <1>1, <1>2, <1>3, <1>4, <1>5, <1>6, <1>7, <1>8, <1>9, <1>10, <1>11,
     <1>12, <1>13, <1>14, <1>15, <1>16, <1>17
     DEF Next, MainProcess, Firmware

\* The main process ends with nothing to do, and others who make it more work
\* queue it again.
LEMMA AtRestStep ==
  ASSUME Inv, Moving, Next, ~failed'
  PROVE  AtRest'
<1>1. CASE StartWork
  BY <1>1 DEF Inv, Moving, AtRest, NothingToDo, WakeNeeded, Queued, StartWork,
             rx, ports, card
<1>2. CASE UploadCtrl
  BY <1>2 DEF Inv, Moving, AtRest, NothingToDo, WakeNeeded, Queued, AskedOnce,
             MainAt, UploadCtrl, TakeAnswer, shared
<1>3. CASE LeaveLoop
  BY <1>3 DEF Inv, Moving, AtRest, NothingToDo, WakeNeeded, Queued, LeaveLoop,
             shared, flags, rx, ports, card
<1>4. CASE NoEvent
  BY <1>4 DEF Inv, Moving, AtRest, NothingToDo, WakeNeeded, Queued,
             ConfirmOnce, MainAt, NoEvent, TakeReceived, PsReceived, shared,
             ports, card
<1>5. CASE AwakeEvent
  BY <1>5 DEF Inv, Moving, AtRest, NothingToDo, WakeNeeded, Queued,
             AwakeEvent, TakeReceived, PsReceived, shared, ports, card
<1>6. CASE SleepEvent
  BY <1>6 DEF Inv, Moving, AtRest, NothingToDo, WakeNeeded, Queued,
             SleepEvent, TakeReceived, PsReceived, shared, ports, card
<1>7. CASE Confirm
  BY <1>7 DEF Inv, Moving, AtRest, NothingToDo, WakeNeeded, Queued, MainAt,
             Outstanding, Confirm, MayConfirm, AfterConfirm, Writes,
             WriteFails, shared, rx
<1>8. CASE NoConfirm
  BY <1>8 DEF Inv, Moving, AtRest, NothingToDo, WakeNeeded, Queued, MainAt,
             Outstanding, NoConfirm, MayConfirm, AfterConfirm, shared, flags,
             rx, ports, card
<1>9. CASE ExecNextCmd
  BY <1>9 DEF Inv, Moving, AtRest, NothingToDo, WakeNeeded, Queued, MainAt,
             ExecNextCmd, Writes, WriteFails, rx
<1>10. CASE ProcessTx
  BY <1>10 DEF Inv, Moving, AtRest, NothingToDo, WakeNeeded, Queued,
              ProcessTx, Writes, WriteFails, rx
<1>11. CASE ReadRegs \/ UploadData \/ UploadEnds
            \/ WakeCard \/ StayInLoop \/ NoNextCmd
            \/ NoTx \/ Interrupt \/ SendCmd
            \/ SendPkt \/ FwTakesCmd \/ FwAnswers
            \/ FwTakesPkt \/ FwSendsPkt \/ FwAsksToSleep
            \/ FwTakesConfirm \/ FwConfirms \/ FwSleeps
            \/ FwWakes \/ FwIgnoresPowerUp \/ ReadRegsFails
            \/ UploadFails
  BY <1>11 DEF Inv, Moving, AtRest, NothingToDo, WakeNeeded, Queued, ReadRegs,
            UploadData, UploadEnds, WakeCard, StayInLoop, NoNextCmd, NoTx,
            Interrupt, SendCmd, SendPkt, FwTakesCmd, FwAnswers, FwTakesPkt,
            FwSendsPkt, FwAsksToSleep, FwTakesConfirm, FwConfirms, FwSleeps,
            FwWakes, FwIgnoresPowerUp, ReadRegsFails, UploadFails, shared,
            flags, ports, card, rx, host, Upload, Raise
<1>12. QED
  BY <1>1, <1>2, <1>3, <1>4, <1>5, <1>6, <1>7, <1>8, <1>9, <1>10, <1>11
     DEF Next, MainProcess, Firmware

LEMMA MovingStep ==
  ASSUME Inv, failed \/ Moving, [Next]_vars
  PROVE  (failed \/ Moving)'
<1>1. CASE failed'
  BY <1>1
<1>2. CASE Next /\ ~failed'
  <2>1. Moving
    BY <1>2 DEF Next, MainProcess, Firmware, StartWork, ReadRegs,
       ReadRegsFails, UploadCtrl, UploadData, UploadFails, UploadEnds,
       WakeCard, LeaveLoop, StayInLoop, NoEvent, AwakeEvent, SleepEvent,
       TakeReceived, Confirm, NoConfirm, ExecNextCmd, NoNextCmd, ProcessTx,
       NoTx, Writes, WriteFails, Interrupt, SendCmd, SendPkt, FwTakesCmd,
       FwAnswers, FwTakesPkt, FwSendsPkt, FwAsksToSleep, FwTakesConfirm,
       FwConfirms, FwSleeps, FwWakes, FwIgnoresPowerUp
  <2>2. QED
    BY <1>2, <2>1, RaisedStep, OutstandingStep, WakingStep, AtRestStep
       DEF Moving
<1>3. CASE UNCHANGED vars
  BY <1>3 DEF Moving, Raised, Outstanding, Waking, AtRest, NothingToDo,
              WakeNeeded, Queued, vars, host, card, shared, flags, rx, ports
<1>4. QED
  BY <1>1, <1>2, <1>3

LEMMA MovingInit == Init => Moving
  BY DEF Init, Moving, Raised, Outstanding, Waking, AtRest, NothingToDo,
         WakeNeeded, Queued, Answers

\* At rest with something queued, or with a firmware that asked to sleep, each
\* reason to rest is one for which the card is heard of again.
LEMMA RestReturns ==
  ASSUME Inv, Moving, pc = "idle", ~work, Queued \/ fw = "asked"
  PROVE  Returning
<1> SUFFICES ASSUME ~Returning PROVE FALSE
  OBVIOUS
<1>1. /\ ~line /\ ~intPending /\ wcmd = "free" /\ ~busy /\ ~wdata
      /\ fw # "confirmed"
  BY DEF Returning, Moving, Raised, Inv, Types, CardStates
<1>2. status = {} /\ ctrl = "none" /\ received = {} /\ event = "none"
  BY <1>1 DEF Moving, Raised, Inv, MainAt, AwakeKnown
<1>3. ~dataSent /\ ~cmdSent /\ ~currCmd
  BY <1>1, <1>2 DEF Moving, Outstanding, Inv, CommandOnce
<1>4. ~wakeupTry
  BY <1>1 DEF Returning, Moving, Waking
<1>5. ps # "PRE_SLEEP" /\ ps # "SLEEP_CFM"
  BY <1>1, <1>2, <1>3 DEF Moving, AtRest, Inv, ConfirmOnce, Answers
<1>6. fw # "asked"
  BY <1>1, <1>2, <1>5 DEF Inv, AskedOnce
<1>7. CASE ps = "SLEEP"
  BY <1>4, <1>6, <1>7 DEF Moving, Waking, AtRest, WakeNeeded
<1>8. CASE ps = "AWAKE"
  BY <1>3, <1>4, <1>6, <1>8
     DEF Moving, AtRest, NothingToDo, Queued, Inv, Types, HostStates
<1>9. QED
  BY <1>5, <1>7, <1>8 DEF Inv, Types, HostStates

\* The safety half of EverythingMoves: no order of interrupts,
\* events and sends makes the main process end with something left to do and
\* no card to bring it back, although it decides by copies of the card's
\* registers and by flags that outlive what they stand for.
THEOREM NothingStranded == Spec => []NoneStranded
<1> DEFINE J == Inv /\ (failed \/ Moving)
<1>1. Init => J
  BY InitInv, MovingInit
<1>2. J /\ [Next]_vars => J'
  BY NextInv, MovingStep
<1>3. J => NoneStranded
  BY RestReturns DEF NoneStranded
<1>4. QED
  BY <1>1, <1>2, <1>3, PTL DEF Spec
=============================================================================
