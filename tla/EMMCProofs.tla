---- MODULE EMMCProofs ----
(***************************************************************************)
(* The SD card driver, whatever the hardware does and whichever calls fail. *)
(*                                                                          *)
(* First part: a data command uses the unit the card is addressed in and a  *)
(* known block size.  Second part: what may still go on on the data lines   *)
(* at each place of the driver, which blocks a transfer has moved when it   *)
(* ends, and from that the refinement of BlockDevice.                       *)
(***************************************************************************)
EXTENDS EMMCProperties, SequenceTheorems, TLAPS

Fields == {"initialized", "cardRCA", "cardSupportsSDHC", "v2_later", "cardRemoval", "blockSize",
           "blocksToTransfer", "lastCmdSuccess", "lastError", "lastR0"}

(* The members the argument is about; the others change at every command. *)
Kept == {"initialized", "cardRCA", "cardSupportsSDHC", "blockSize", "blocksToTransfer"}

Assigned == dev.cardRCA = "assigned"

UnitKnown == dev.cardSupportsSDHC = HighCapacity

(* Places of cardReset after the card told its kind, and after it got its address. *)
Identified == {"CMD2", "CMD3", "CMD7", "CMD16", "SCR", "ACMD6"}

Addressed == {"CMD7", "CMD16", "SCR", "ACMD6"}

(* An address is only kept together with the right unit; every place of the driver that  *)
(* leads to a data command has both, and 8 is the block size only while SCR is read.     *)
Inv ==
    /\ DOMAIN dev = Fields
    /\ place \in Places
    /\ from \in {"init", "ensure", "retry"}
    /\ dev.cardRCA \in {"assigned", "CARD_RCA_INVALID"}
    /\ dev.initialized /\ Assigned => UnitKnown
    /\ place \in Identified => UnitKnown
    /\ place \in Addressed => Assigned
    /\ place \in EnsurePlaces \cup {"data"} => dev.initialized /\ Assigned
    /\ place \in ResetPlaces /\ from # "init" => dev.initialized
    /\ dev.blockSize \in {0, 8, 512}
    /\ dev.blockSize = 8 => place = "SCR"
    /\ place \in {"ACMD6", "data"} => dev.blockSize = 512

(* A step that leaves the place and the members of Kept alone. *)
Keeps ==
    /\ place' = place
    /\ from' = from
    /\ DOMAIN dev' = DOMAIN dev
    /\ \A f \in Kept : dev'[f] = dev[f]

(* Nothing inside issueCommand touches them. *)
LEMMA IssueKeeps ==
    ASSUME Inv, IssueCommand
    PROVE  Keeps
<1> USE DEF Keeps, Fields, Kept, Stay
<1>0. DOMAIN dev = Fields
  BY DEF Inv
<1>1. CASE HandleInterrupts
  <2>1. \/ dev' = dev
        \/ dev' = [dev EXCEPT !.cardRemoval = TRUE, !.lastCmdSuccess = FALSE]
    BY <1>1, Zenon DEF HandleInterrupts
  <2>2. place' = place /\ from' = from
    BY <1>1 DEF HandleInterrupts
  <2> QED
    BY <1>0, <2>1, <2>2
<1>2. CASE IssueCommandInt
  <2>1. \A c, r : Answered(c, r) => DOMAIN dev' = DOMAIN dev /\ \A f \in Kept : dev'[f] = dev[f]
    BY <1>0 DEF Answered
  <2>2. \A e : Failing(e) => DOMAIN dev' = DOMAIN dev /\ \A f \in Kept : dev'[f] = dev[f]
    BY <1>0 DEF Failing
  <2> HIDE DEF Kept
  <2>3. CASE TooManyBlocks
    BY <1>0, <2>3 DEF TooManyBlocks, Kept
  <2>4. CASE Issuing /\ \E c, r : Answered(c, r)
    BY <2>1, <2>4 DEF Issuing
  <2>5. CASE Issuing /\ \E e : Failing(e)
    BY <2>2, <2>5 DEF Issuing
  <2>6. CardAnswers \/ CardStillBusy \/ CardBecomesReady =>
           Issuing /\ ((\E c, r : Answered(c, r)) \/ \E e : Failing(e))
    <3>1. CardAnswers =>
             Issuing /\ (Answered(Command, card) \/ Answered(Command, "bad") \/ Failing("other"))
      BY DEF CardAnswers
    <3>2. CardStillBusy => Issuing /\ Answered(Command, "busy")
      BY DEF CardStillBusy
    <3>3. CardBecomesReady => Issuing /\ Answered(Command, "ready")
      BY DEF CardBecomesReady
    <3> QED
      BY <3>1, <3>2, <3>3
  <2>7. NoAnswer \/ NotIssued => Issuing /\ \E e : Failing(e)
    BY Zenon DEF NoAnswer, NotIssued
  <2>8. AnswerLost => Issuing /\ ((\E c, r : Answered(c, r)) \/ \E e : Failing(e))
    BY Zenon DEF AnswerLost
  <2> QED
    BY <1>2, <2>3, <2>4, <2>5, <2>6, <2>7, <2>8 DEF IssueCommandInt
<1>3. CASE MoveBlock
  BY <1>0, <1>3 DEF MoveBlock
<1>4. CASE BlockFails
  BY <1>0, <1>4 DEF BlockFails, WaitFails, Failing
<1>5. CASE Complete
  BY <1>0, <1>5 DEF Complete
<1>6. CASE CompleteFails
  BY <1>0, <1>6 DEF CompleteFails, WaitFails, Failing
<1> QED
  BY <1>1, <1>2, <1>3, <1>4, <1>5, <1>6 DEF IssueCommand

LEMMA KeepsInv ==
    ASSUME Inv, Keeps
    PROVE  Inv'
BY DEF Inv, Keeps, Kept, Assigned, UnitKnown

(* A reset that fails leads back to its caller or to another attempt. *)
LEMMA FailedInv ==
    ASSUME Inv, place \in ResetPlaces, NEW code, ResetFailed(code),
           DOMAIN dev' = Fields,
           dev'.cardRCA \in {"assigned", "CARD_RCA_INVALID"},
           dev'.initialized = dev.initialized,
           dev'.cardRCA = "assigned" /\ dev'.initialized => dev'.cardSupportsSDHC = HighCapacity,
           dev'.blockSize \in {0, 512}
    PROVE  Inv'
<1>1. \/ place' = "idle" /\ from' = from
      \/ place' = "controller" /\ from' = "init"
  BY DEF ResetFailed, Return, StartReset, Issue
<1> QED
  BY <1>1 DEF Inv, Assigned, UnitKnown, Identified, Addressed, EnsurePlaces, ResetPlaces, Places

(* The wait of switchClockRate: the driver stays where it is. *)
LEMMA InhibitedInv ==
    ASSUME Inv, place = "ACMD41", phase' = "inhibited", UNCHANGED place, Stay,
           dev' = [dev EXCEPT !.cardSupportsSDHC = HighCapacity]
    PROVE  Inv'
<1>1. /\ DOMAIN dev' = Fields /\ dev'.cardSupportsSDHC = HighCapacity
      /\ \A f \in Fields \ {"cardSupportsSDHC"} : dev'[f] = dev[f]
  BY DEF Inv, Fields
<1> QED
  BY <1>1 DEF Inv, Assigned, UnitKnown, Identified, Addressed, EnsurePlaces, Fields, Stay

(* A step within cardReset, to a place that asks no more than is known. *)
LEMMA ProceedInv ==
    ASSUME Inv, place \in ResetPlaces, NEW p \in ResetPlaces, Proceed(p),
           DOMAIN dev' = Fields,
           dev'.cardRCA \in {"assigned", "CARD_RCA_INVALID"},
           dev'.initialized = dev.initialized,
           dev'.cardRCA = "assigned" /\ dev'.initialized => dev'.cardSupportsSDHC = HighCapacity,
           p \in Identified => dev'.cardSupportsSDHC = HighCapacity,
           p \in Addressed => dev'.cardRCA = "assigned",
           dev'.blockSize \in {0, 8, 512},
           dev'.blockSize = 8 => p = "SCR",
           p = "ACMD6" => dev'.blockSize = 512
    PROVE  Inv'
<1>1. place' = p /\ from' = from
  BY DEF Proceed, Issue, Stay
<1>2. p \notin EnsurePlaces \cup {"data"} /\ p \in Places
  BY DEF ResetPlaces, EnsurePlaces, Places
<1> QED
  BY <1>1, <1>2 DEF Inv, Assigned, UnitKnown

(* One step per decision of cardReset. *)
LEMMA ResetInv ==
    ASSUME Inv, CardReset
    PROVE  Inv'
<1> USE DEF Fields, Identified, Addressed, ResetPlaces
<1>a. /\ DOMAIN dev = Fields
      /\ dev.cardRCA \in {"assigned", "CARD_RCA_INVALID"}
      /\ dev.cardRCA = "assigned" /\ dev.initialized => dev.cardSupportsSDHC = HighCapacity
      /\ place \in Identified => dev.cardSupportsSDHC = HighCapacity
      /\ place \in Addressed => dev.cardRCA = "assigned"
      /\ dev.blockSize \in {0, 8, 512}
      /\ dev.blockSize = 8 => place = "SCR"
      /\ place = "ACMD6" => dev.blockSize = 512
  BY DEF Inv, Assigned, UnitKnown
<1>1. CASE ResetController
  <2>1. CASE /\ Proceed("CMD0")
             /\ dev' = [dev EXCEPT !.cardSupportsSDHC = FALSE, !.cardRCA = "CARD_RCA_INVALID",
                                   !.lastError = "none", !.lastCmdSuccess = FALSE,
                                   !.lastR0 = "none", !.blocksToTransfer = 0,
                                   !.blockSize = 0, !.cardRemoval = FALSE]
    <3>1. /\ DOMAIN dev' = Fields /\ dev'.cardRCA = "CARD_RCA_INVALID"
          /\ dev'.initialized = dev.initialized /\ dev'.blockSize = 0
      BY <1>a, <2>1
    <3> QED
      BY <1>1, <2>1, <3>1, ProceedInv DEF ResetController
  <2>2. CASE ResetFailed(1) /\ UNCHANGED dev
    BY <1>1, <1>a, <2>2, FailedInv DEF ResetController
  <2> QED
    BY <1>1, <2>1, <2>2 DEF ResetController
<1>2. CASE AfterSimple
  BY <1>2, <1>a, FailedInv, ProceedInv DEF AfterSimple, NextPlace, Decide
<1>3. CASE AfterCMD8
  <2>1. /\ place = "CMD8"
        /\ \/ ResetFailed(1) /\ UNCHANGED dev
           \/ Proceed("CMD5") /\ \E v \in BOOLEAN : dev' = [dev EXCEPT !.v2_later = v]
    BY <1>3 DEF AfterCMD8, Decide
  <2> QED
    BY <2>1, <1>a, FailedInv, ProceedInv
<1>4. CASE AfterCMD5
  BY <1>4, <1>a, FailedInv, ProceedInv DEF AfterCMD5, Decide
<1>5. CASE AfterACMD41
  <2>1. place = "ACMD41"
    BY <1>5 DEF AfterACMD41, Decide
  <2>2. CASE UNCHANGED dev /\ (ResetFailed(1) \/ Proceed("ACMD41"))
    BY <2>1, <2>2, <1>a, FailedInv, ProceedInv
  <2>3. CASE dev' = [dev EXCEPT !.cardSupportsSDHC = HighCapacity] /\ SwitchClockRate
    BY <2>1, <2>3, <1>a, InhibitedInv, ProceedInv DEF SwitchClockRate
  <2> QED
    BY <1>5, <2>2, <2>3 DEF AfterACMD41
<1>6. CASE AfterCMD3
  BY <1>6, <1>a, FailedInv, ProceedInv DEF AfterCMD3, Decide
<1>7. CASE AfterCMD7
  <2>1. place = "CMD7"
    BY <1>7 DEF AfterCMD7, Decide
  <2>2. CASE ResetFailed(1) /\ UNCHANGED dev
    BY <2>1, <2>2, <1>a, FailedInv
  <2>3. CASE ReadSCR
    BY <2>1, <2>3, <1>a, ProceedInv DEF ReadSCR
  <2>4. CASE Proceed("CMD16") /\ UNCHANGED dev
    BY <2>1, <2>4, <1>a, ProceedInv
  <2> QED
    BY <1>7, <2>2, <2>3, <2>4 DEF AfterCMD7
<1>8. CASE AfterCMD16
  <2>1. place = "CMD16"
    BY <1>8 DEF AfterCMD16, Decide
  <2>2. CASE ResetFailed(1) /\ UNCHANGED dev
    BY <2>1, <2>2, <1>a, FailedInv
  <2>3. CASE ReadSCR
    BY <2>1, <2>3, <1>a, ProceedInv DEF ReadSCR
  <2> QED
    BY <1>8, <2>2, <2>3 DEF AfterCMD16
<1>9. CASE AfterSCR
  <2>1. place = "SCR"
    BY <1>9 DEF AfterSCR, Decide
  <2>2. /\ DOMAIN dev' = Fields /\ dev'.blockSize = 512
        /\ \A f \in Fields \ {"blockSize"} : dev'[f] = dev[f]
    BY <1>9, <1>a DEF AfterSCR, SD_BLOCK_SIZE
  <2> QED
    BY <1>9, <2>1, <2>2, <1>a, FailedInv, ProceedInv DEF AfterSCR
<1>10. CASE AfterACMD6
  <2>1. place = "ACMD6"
    BY <1>10 DEF AfterACMD6, Decide
  <2>2. CASE from = "init"
    <3>1. /\ place' = "idle" /\ from' = from
          /\ dev' = [dev EXCEPT !.initialized = TRUE]
      BY <1>10, <2>2 DEF AfterACMD6, Return
    <3> QED
      BY <2>1, <3>1, <1>a DEF Inv, Assigned, UnitKnown, EnsurePlaces, Places
  <2>3. CASE from # "init"
    <3>1. place' \in {"status", "recheck"} /\ from' = from /\ dev' = dev
      BY <1>10, <2>3 DEF AfterACMD6, Proceed, Issue, Stay, Inv
    <3> QED
      BY <2>1, <2>3, <3>1, <1>a DEF Inv, Assigned, UnitKnown, EnsurePlaces, Places
  <2> QED
    BY <2>2, <2>3
<1> QED
  BY <1>1, <1>2, <1>3, <1>4, <1>5, <1>6, <1>7, <1>8, <1>9, <1>10 DEF CardReset

LEMMA DataModeInv ==
    ASSUME Inv, DataMode
    PROVE  Inv'
<1> USE DEF Inv, Fields, Assigned, UnitKnown, Identified, Addressed, EnsurePlaces, ResetPlaces,
            Places, Stay, Proceed, Issue, Decide, Return, StartReset, SD_BLOCK_SIZE, GiveUp,
            DoDataCommand
<1>1. CASE AfterStatus
  BY <1>1 DEF AfterStatus
<1>2. CASE AfterSelect
  BY <1>2 DEF AfterSelect
<1>3. CASE AfterStop
  BY <1>3 DEF AfterStop
<1>4. CASE AfterRecheck
  BY <1>4 DEF AfterRecheck
<1>5. CASE AfterData
  BY <1>5 DEF AfterData
<1> QED
  BY <1>1, <1>2, <1>3, <1>4, <1>5 DEF DataMode

(* The beginnings of calls; every other step. *)
LEMMA StepInv ==
    ASSUME Inv, [Next]_vars
    PROVE  Inv'
<1> USE DEF Inv, Fields, Identified, Addressed, EnsurePlaces, ResetPlaces, Places
<1>1. CASE BeginInit
  <2>1. /\ dev' = dev
        /\ \/ place' = "controller" /\ from' = "init"
           \/ place' = place /\ from' = from
    BY <1>1 DEF BeginInit, StartReset, Issue
  <2>2. place = "idle"
    BY <1>1 DEF BeginInit, Begin
  <2> QED
    BY <2>1, <2>2 DEF Assigned, UnitKnown
<1>2. CASE Refuse
  BY <1>2 DEF Refuse, Assigned, UnitKnown
<1>3. CASE BeginTransfer
  <2>1. /\ dev' = dev /\ dev.initialized
        /\ \/ place' = "controller" /\ from' = "ensure"
           \/ place' = "status" /\ from' = from /\ dev.cardRCA # "CARD_RCA_INVALID"
    BY <1>3 DEF BeginTransfer, StartReset, Issue
  <2>2. place = "idle"
    BY <1>3 DEF BeginTransfer, Begin
  <2> QED
    BY <2>1, <2>2 DEF Assigned, UnitKnown
<1>4. CASE Driver
  BY <1>4, IssueKeeps, KeepsInv, ResetInv, DataModeInv DEF Driver
<1>5. CASE HardwareStep
  BY <1>5 DEF HardwareStep, control, Assigned, UnitKnown
<1>6. CASE UNCHANGED vars
  BY <1>6 DEF vars, control, Assigned, UnitKnown
<1> QED
  BY <1>1, <1>2, <1>3, <1>4, <1>5, <1>6 DEF Next

(* WellAddressed: a data command carries an address in the unit of the card and a known   *)
(* block size, in every behaviour of every instance.                                      *)
THEOREM AlwaysWellAddressed == Spec => []WellAddressed
<1>1. Init => Inv
  BY DEF Init, Inv, Fields, Assigned, UnitKnown, Identified, Addressed, EnsurePlaces,
         ResetPlaces, Places
<1>2. Inv /\ [Next]_vars => Inv'
  BY StepInv
<1>3. Inv => WellAddressed
  BY DEF Inv, WellAddressed, UnitKnown, SD_BLOCK_SIZE
<1> QED
  BY <1>1, <1>2, <1>3, PTL DEF Spec

-----------------------------------------------------------------------------
(* Where the driver is.                                                      *)

AppPlaces == {"inquiry", "ACMD41", "SCR", "ACMD6"}

(* Places whose command uses the data lines, and whose answer the driver waits the lines *)
(* for.                                                                                  *)
LinePlaces == {"SCR", "data"}

BusyPlaces == {"CMD7", "select", "stop"}

(* The driver is somewhere while a call is pending, and a transfer's call is known there. *)
Flow ==
    /\ place = "idle" <=> phase = "idle"
    /\ place = "idle" <=> answer # "pending"
    /\ place = "controller" => phase = "interrupts"
    /\ phase = "prefix" => place \in AppPlaces
    /\ phase = "data" => place \in LinePlaces
    /\ phase = "complete" => place \in LinePlaces \cup BusyPlaces
    /\ place \in EnsurePlaces \cup {"data"} => call \in Requests
    /\ place \in ResetPlaces /\ from # "init" => call \in Requests
    /\ place \in ResetPlaces /\ from = "init" => call = InitCall
    /\ place \in ResetPlaces \ {"controller", "SCR", "ACMD6"} => dev.blockSize = 0
    /\ place = "SCR" => dev.blocksToTransfer = 1 /\ dev.blockSize = 8
    /\ place = "data" => dev.blocksToTransfer = call.count
    /\ answer = "pending" /\ call.op = "write" => BlocksOf(call) \X {call.value} \subseteq doubtful

(* The data lines are busy with nothing. *)
Stuck == [NoTransfer EXCEPT !.kind = "stuck"]

(* Nothing can end on the data lines. *)
Settled == transfer.kind \in {"none", "stuck"}

(* Places whose command starts nothing on lines that were settled. *)
Calm == {"CMD0", "CMD8", "CMD5", "inquiry", "ACMD41", "CMD2", "CMD3", "CMD16", "ACMD6", "recheck"}

(* Places whose command starts something on lines that were settled. *)
Fresh == {"CMD7", "SCR", "select"}

(* What may still be going on on the data lines.  A card that says it is in tran is at   *)
(* most busy, and then the driver does not get to a data command; only the attempts of   *)
(* one data command find what the attempts before them left.                             *)
Lines ==
    /\ card \in {"ready", "ident", "stby"} => Settled
    /\ card = "tran" => Settled \/ transfer.kind = "busy"
    /\ transfer.kind = "busy" =>
          place \in {"select", "stop"} \/ dev.cardRCA # "assigned" \/ dev.blockSize = 0
    /\ place \in Calm => Settled
    /\ place \in Fresh =>
          /\ phase \in {"interrupts", "prefix", "command"} => Settled
          /\ phase \in {"prefix", "command"} =>
                flags \cap {"transferComplete", "readReady", "writeReady"} = {}
          /\ phase \in {"data", "complete"} /\ "transferComplete" \in flags => Settled
          /\ phase = "decide" /\ dev.lastCmdSuccess => Settled
    /\ place = "status" /\ phase = "decide" /\ dev.lastCmdSuccess =>
          /\ dev.lastR0 = "tran" => Settled \/ transfer.kind = "busy"
          /\ dev.lastR0 = "stby" => Settled

(* The kind of transfer a data command starts. *)
Expected == IF place = "SCR" THEN "register" ELSE call.op

InBuffer == IF transfer.kind = "write" /\ transfer.fifo # Empty THEN 1 ELSE 0

(* The blocks before the next one are stored. *)
StoredBefore(block) == \A b \in call.block .. block - 1 : disk[b] = call.value

(* A transfer the current data command started, in this attempt or an earlier one. *)
Stream ==
    place = "data" =>
        /\ Settled \/ transfer.kind = call.op
        /\ transfer.kind = call.op =>
              /\ transfer.block + transfer.left = call.block + call.count
              /\ call.block <= transfer.block
        /\ transfer.kind = "write" =>
              /\ StoredBefore(transfer.block)
              /\ transfer.fifo # Empty => transfer.fifo = call.value

(* The card has all of a write. *)
Done == call.op = "write" => StoredBefore(call.block + call.count)

(* What was read so far is what the card holds. *)
Faithful == call.op = "read" => \A i \in 1 .. Len(moved) : moved[i] = disk[call.block + i - 1]

(* Where a data command is in its transfer: a completion that is latched, be it one of an *)
(* earlier attempt, is one of a transfer that stored everything.                          *)
Progress ==
    /\ place = "data" /\ phase \in {"command", "data", "complete"} /\ "transferComplete" \in flags => Done
    /\ place \in LinePlaces /\ phase \in {"command", "data"} /\ flags \cap Errors = {} =>
          /\ "readReady" \in flags => transfer.kind \in {"read", "register"} /\ transfer.fifo # Empty
          /\ "writeReady" \in flags => transfer.kind = "write" /\ transfer.fifo = Empty /\ transfer.left > 0
    /\ phase = "data" =>
          /\ Len(moved) < dev.blocksToTransfer
          /\ Settled \/ transfer.kind = Expected
          /\ transfer.kind # Expected => flags \cap Errors # {}
          /\ transfer.kind = Expected => transfer.left - InBuffer = dev.blocksToTransfer - Len(moved)
    /\ place = "data" /\ phase = "data" /\ transfer.kind = "read" /\ transfer.fifo # Empty =>
          transfer.fifo = disk[transfer.block]
    /\ place = "data" /\ phase \in {"data", "complete"} => Faithful
    /\ phase = "complete" /\ place \in LinePlaces =>
          /\ Len(moved) = dev.blocksToTransfer
          /\ transfer.kind = Expected => transfer.left - InBuffer = 0
    /\ place = "data" /\ phase = "decide" /\ dev.lastCmdSuccess =>
          Done /\ Faithful /\ Len(moved) = call.count

(* A block in the buffer of a write is one that may be stored, or that is already. *)
Pending ==
    /\ transfer.fifo # Empty => transfer.left > 0
    /\ transfer.kind \in {"read", "write"} => transfer.block + transfer.left <= NumBlocks
    /\ transfer.kind = "write" /\ transfer.fifo # Empty =>
          <<transfer.block, transfer.fifo>> \in doubtful \/ disk[transfer.block] = transfer.fifo

-----------------------------------------------------------------------------
(* Types                                                                     *)

(* A request, and the initialisation, as the record they are. *)
LEMMA CallType ==
    ASSUME TypeOK
    PROVE  /\ call.op \in {"init", "read", "write"}
           /\ call.block \in Nat
           /\ call.count \in Nat
           /\ call \in Requests =>
                 /\ call.op \in {"read", "write"}
                 /\ call.value \in Values
                 /\ call.block \in Blocks
                 /\ call.count > 0
                 /\ call.block + call.count <= NumBlocks
<1>1. CASE call = InitCall
  <2>1. call.op = "init" /\ call.block = 0 /\ call.count = 0
    BY <1>1 DEF InitCall
  <2>2. call \notin Requests
    BY <2>1, RequestAssumption DEF Transfer
  <2> QED
    BY <2>1, <2>2
<1>2. CASE call \in Requests
  <2>1. call \in Transfer /\ call.count > 0 /\ call.block + call.count <= NumBlocks
    BY <1>2, RequestAssumption
  <2> QED
    BY <2>1, CardAssumption DEF Transfer, Blocks
<1> QED
  BY <1>1, <1>2 DEF TypeOK

(* The variables of the driver that issuing a command changes. *)
IssueTypes ==
    /\ dev' \in Members
    /\ phase' \in Phases
    /\ moved' \in Seq(Values \cup {"register"})

LEMMA FailingType ==
    ASSUME TypeOK, NEW error \in {"none", "cmdTimeout", "other"}, Failing(error)
    PROVE  IssueTypes
BY DEF TypeOK, Failing, Phases, IssueTypes, Members

LEMMA AnsweredType ==
    ASSUME TypeOK, NEW c, NEW response \in Responses, Answered(c, response)
    PROVE  IssueTypes
<1>1. (IsData(c) \/ IsBusy(c)) \in BOOLEAN
  BY DEF IsData, IsBusy
<1>2. dev' = [dev EXCEPT !.lastCmdSuccess = FALSE, !.lastR0 = dev.lastR0]
        \/ dev' = [dev EXCEPT !.lastCmdSuccess = TRUE, !.lastR0 = dev.lastR0]
        \/ dev' = [dev EXCEPT !.lastCmdSuccess = FALSE, !.lastR0 = response]
        \/ dev' = [dev EXCEPT !.lastCmdSuccess = TRUE, !.lastR0 = response]
  BY <1>1 DEF Answered
<1>3. phase' \in Phases
  BY DEF Answered, Phases
<1>4. moved' \in Seq(Values \cup {"register"})
  BY DEF Answered, TypeOK
<1> QED
  BY <1>2, <1>3, <1>4 DEF TypeOK, IssueTypes, Members

(* A command leads the card from state to state. *)
LEMMA TakesType ==
    ASSUME SDTypeOK, NEW c \in Commands, c = "GO_IDLE_STATE" \/ Understands(c), CardTakes(c)
    PROVE  card' \in Present \cup {"gone"} /\ wide' \in [card : BOOLEAN, host : BOOLEAN]
<1>1. CardWide(c) \in BOOLEAN
  BY DEF CardWide, SDTypeOK
<1>2. wide' \in [card : BOOLEAN, host : BOOLEAN]
  BY <1>1 DEF CardTakes, SDTypeOK
<1>3. CASE card = "gone"
  <2>1. card' = card
    BY <1>3 DEF CardTakes
  <2> QED
    BY <2>1, <1>3, <1>2
<1>4. CASE card \in Present
  <2>1. card \in DOMAIN Moves[c] /\ card # "gone"
    BY <1>4 DEF Understands, Moves, Present
  <2>2. \A s \in DOMAIN Moves[c] : Moves[c][s] \in Present
    BY DEF Moves, Present, Commands
  <2>3. card' = Moves[c][card]
    BY <2>1 DEF CardTakes
  <2>4. card' \in Present
    BY <2>1, <2>2, <2>3
  <2> QED
    BY <1>2, <2>4
<1> QED
  BY <1>3, <1>4 DEF SDTypeOK

(* What starts on the data lines. *)
LEMMA StartedType ==
    ASSUME TypeOK, NEW c, Start(c)
    PROVE  transfer' \in Transfers
<1>1. Address \in Nat
  BY CallType DEF Address, SD_BLOCK_SIZE
<1>2. Address \div SD_BLOCK_SIZE \in Nat
  BY <1>1 DEF SD_BLOCK_SIZE
<1>3. dev.blocksToTransfer \in Nat
  BY DEF TypeOK, Members
<1> QED
  BY <1>1, <1>2, <1>3 DEF Start, Started, Transfers, NoTransfer, TypeOK, SDTypeOK

(* The start of a command. *)
LEMMA CommandTypes ==
    ASSUME TypeOK, place \notin {"idle", "controller"}, IssueCommandInt
    PROVE  TypeOK'
<1>1. Command \in Commands
  BY DEF Command, CommandAt, Commands, Moves, TypeOK, Places, ResetPlaces, EnsurePlaces
<1>2. ASSUME Issuing, card' \in Present \cup {"gone"}, wide' \in [card : BOOLEAN, host : BOOLEAN],
             transfer' \in Transfers, faults' \in 0 .. MaxFaults, IssueTypes
      PROVE  TypeOK'
  <2>1. SDTypeOK'
    BY <1>2 DEF Issuing, TypeOK, SDTypeOK
  <2> QED
    BY <2>1, <1>2 DEF Issuing, Stay, TypeOK, IssueTypes
<1>3. /\ card \in Present \cup {"gone"}
      /\ wide \in [card : BOOLEAN, host : BOOLEAN]
      /\ transfer \in Transfers
      /\ faults \in 0 .. MaxFaults
      /\ card \in Responses \cup {"gone"} /\ "busy" \in Responses /\ "bad" \in Responses
      /\ "ready" \in Responses
      /\ CardIgnores => card' = card /\ wide' = wide
      /\ NoFault => faults' = faults
  BY DEF TypeOK, SDTypeOK, Responses, CardIgnores, NoFault, Present
<1>4. \A p : Fault(p) => faults' \in 0 .. MaxFaults
  BY <1>3, CardAssumption DEF Fault
<1>5. Understands(Command) => card \in Responses
  BY <1>1, <1>3 DEF Understands, Moves, Commands, Present
<1>6. [NoTransfer EXCEPT !.kind = "stuck"] \in Transfers
  BY DEF NoTransfer, Transfers
<1>7. CASE CardAnswers
  <2>1. card' \in Present \cup {"gone"} /\ wide' \in [card : BOOLEAN, host : BOOLEAN]
    BY <1>1, <1>3, <1>7, TakesType DEF CardAnswers, TypeOK
  <2>2. transfer' \in Transfers
    BY <1>7, StartedType DEF CardAnswers
  <2>3. faults' \in 0 .. MaxFaults
    BY <1>3, <1>4, <1>7 DEF CardAnswers
  <2>4. ASSUME Answered(Command, card) PROVE IssueTypes
    <3>1. CASE card \in Responses
      BY <2>4, <3>1, AnsweredType
    <3>2. CASE card \notin Responses
      <4>1. Command = "GO_IDLE_STATE"
        BY <1>5, <1>7, <3>2 DEF CardAnswers
      <4>2. Answered(Command, "bad")
        BY <2>4, <4>1 DEF Answered
      <4> QED
        BY <1>3, <4>2, AnsweredType
    <3> QED
      BY <3>1, <3>2
  <2>5. Answered(Command, "bad") => IssueTypes
    BY <1>3, AnsweredType
  <2>6. Failing("other") => IssueTypes
    BY FailingType
  <2>7. IssueTypes
    BY <1>7, <2>4, <2>5, <2>6 DEF CardAnswers
  <2> QED
    BY <1>2, <1>7, <2>1, <2>2, <2>3, <2>7 DEF CardAnswers
<1>8. CASE CardStillBusy
  BY <1>2, <1>3, <1>8, AnsweredType DEF CardStillBusy
<1>9. CASE CardBecomesReady
  <2>1. card' \in Present \cup {"gone"} /\ wide' \in [card : BOOLEAN, host : BOOLEAN]
    BY <1>1, <1>9, TakesType DEF CardBecomesReady, TypeOK
  <2> QED
    BY <1>2, <1>3, <1>9, <2>1, AnsweredType DEF CardBecomesReady
<1>10. CASE NoAnswer
  <2>1. IssueTypes
    BY <1>10, FailingType DEF NoAnswer
  <2>2. faults' \in 0 .. MaxFaults
    BY <1>3, <1>4, <1>10 DEF NoAnswer
  <2> QED
    BY <1>2, <1>3, <1>10, <2>1, <2>2 DEF NoAnswer
<1>11. CASE AnswerLost
  <2>1. faults' \in 0 .. MaxFaults
    BY <1>4, <1>11 DEF AnswerLost
  <2>2. CASE CardIgnores /\ UNCHANGED transfer /\ Answered(Command, card)
    BY <1>2, <1>3, <1>5, <1>11, <2>1, <2>2, AnsweredType DEF AnswerLost
  <2>3. CASE CardTakes(Command) /\ Failing("other")
    <3>1. card' \in Present \cup {"gone"} /\ wide' \in [card : BOOLEAN, host : BOOLEAN]
      BY <1>1, <1>11, <2>3, TakesType DEF AnswerLost, TypeOK
    <3>2. transfer' \in Transfers
      BY <1>3, <1>6, <1>11, Zenon DEF AnswerLost
    <3>3. IssueTypes
      BY <2>3, FailingType
    <3> QED
      BY <1>2, <1>11, <2>1, <3>1, <3>2, <3>3 DEF AnswerLost
  <2> QED
    BY <1>11, <2>2, <2>3 DEF AnswerLost
<1>12. CASE NotIssued
  <2>1. IssueTypes
    BY <1>12, FailingType DEF NotIssued
  <2> QED
    BY <1>2, <1>3, <1>12, <2>1 DEF NotIssued
<1>13. CASE TooManyBlocks
  <2>1. SDTypeOK'
    BY <1>13 DEF TooManyBlocks, sdVars, TypeOK, SDTypeOK
  <2> QED
    BY <2>1, <1>13 DEF TooManyBlocks, Stay, TypeOK, Members, Phases
<1> QED
  BY <1>7, <1>8, <1>9, <1>10, <1>11, <1>12, <1>13 DEF IssueCommandInt

(* The transfer after a block of it. *)
LEMMA Advances ==
    ASSUME TypeOK, transfer.left > 0,
           transfer' = [transfer EXCEPT !.block = @ + 1, !.left = @ - 1, !.fifo = Empty]
    PROVE  /\ transfer' \in Transfers
           /\ transfer'.kind = transfer.kind
           /\ transfer'.block = transfer.block + 1
           /\ transfer'.left = transfer.left - 1
           /\ transfer'.fifo = Empty
<1>1. transfer \in Transfers
  BY DEF TypeOK, SDTypeOK
<1>2. transfer.block + 1 \in Nat /\ transfer.left - 1 \in Nat
  BY <1>1 DEF Transfers
<1>3. transfer' = [kind |-> transfer.kind, block |-> transfer.block + 1,
                   left |-> transfer.left - 1, fifo |-> Empty]
  BY <1>1 DEF Transfers
<1> QED
  BY <1>1, <1>2, <1>3 DEF Transfers

(* The rest of issueCommand.  A block is moved only when there is one. *)
LEMMA WaitTypes ==
    ASSUME TypeOK, NEW events, NoFault \/ WaitElapses(events), WaitFails(events)
    PROVE  TypeOK'
<1>1. \A p : Fault(p) => faults' \in 0 .. MaxFaults
  BY CardAssumption DEF TypeOK, SDTypeOK, Fault
<1>2. faults' \in 0 .. MaxFaults
  BY <1>1 DEF NoFault, WaitElapses, LineFault, TypeOK, SDTypeOK
<1>3. SDTypeOK'
  BY <1>2 DEF WaitFails, TypeOK, SDTypeOK
<1>4. IssueTypes
  BY FailingType DEF WaitFails
<1> QED
  BY <1>3, <1>4 DEF WaitFails, TypeOK, IssueTypes, Stay

(* The reset of the data lines leaves nothing on them that can end. *)
LEMMA ResetDatTypes ==
    ASSUME TypeOK, ResetDat
    PROVE  /\ transfer' \in Transfers /\ faults' \in 0 .. MaxFaults
           /\ transfer' = NoTransfer \/ transfer' = [NoTransfer EXCEPT !.kind = "stuck"]
<1>1. NoTransfer \in Transfers /\ [NoTransfer EXCEPT !.kind = "stuck"] \in Transfers
  BY DEF NoTransfer, Transfers
<1> QED
  BY <1>1, CardAssumption DEF ResetDat, Fault, NoFault, TypeOK, SDTypeOK

LEMMA InterruptsTypes ==
    ASSUME TypeOK, HandleInterrupts
    PROVE  TypeOK'
<1>1. transfer' \in Transfers /\ faults' \in 0 .. MaxFaults
  BY ResetDatTypes DEF HandleInterrupts, TypeOK, SDTypeOK
<1>2. SDTypeOK'
  BY <1>1 DEF HandleInterrupts, TypeOK, SDTypeOK
<1>3. dev' \in Members /\ phase' \in Phases
  BY DEF HandleInterrupts, TypeOK, Members, Phases
<1> QED
  BY <1>2, <1>3 DEF HandleInterrupts, Stay, TypeOK

LEMMA CompleteTypes ==
    ASSUME TypeOK, Complete
    PROVE  TypeOK'
<1>1. SDTypeOK'
  BY DEF Complete, TypeOK, SDTypeOK
<1> QED
  BY <1>1 DEF Complete, Stay, TypeOK, Members, Phases

LEMMA MoveTypes ==
    ASSUME TypeOK, MoveBlock,
           Command = "WRITE" => call \in Requests,
           Command # "WRITE" => transfer.fifo # Empty /\ transfer.left > 0
    PROVE  TypeOK'
<1>1. CASE Command = "WRITE"
  <2>1. call.value \in Values
    BY <1>1, CallType
  <2>2. SDTypeOK'
    BY <1>1, <2>1 DEF MoveBlock, TypeOK, SDTypeOK, Transfers
  <2>3. moved' \in Seq(Values \cup {"register"})
    BY <1>1, <2>1 DEF MoveBlock, TypeOK
  <2> QED
    BY <2>2, <2>3 DEF MoveBlock, Stay, TypeOK, Phases
<1>2. CASE Command # "WRITE"
  <2>1. transfer.fifo \in Values \cup {"register"}
    BY <1>2 DEF TypeOK, SDTypeOK, Transfers
  <2>a. transfer' \in Transfers
    BY <1>2, Advances DEF MoveBlock
  <2>2. SDTypeOK'
    BY <1>2, <2>a DEF MoveBlock, TypeOK, SDTypeOK
  <2>3. moved' \in Seq(Values \cup {"register"})
    BY <1>2, <2>1 DEF MoveBlock, TypeOK
  <2> QED
    BY <2>2, <2>3 DEF MoveBlock, Stay, TypeOK, Phases
<1> QED
  BY <1>1, <1>2

(* A decision of the driver: it goes on, gives up or starts over. *)
LEMMA ProceedType ==
    ASSUME TypeOK, SDTypeOK', dev' \in Members, moved' = moved, NEW p \in Places, Proceed(p)
    PROVE  TypeOK'
BY DEF TypeOK, Proceed, Issue, Stay, Phases

LEMMA ReturnType ==
    ASSUME TypeOK, SDTypeOK', dev' \in Members, moved' = moved,
           NEW result \in {"ok", "failed"}, Return(result)
    PROVE  TypeOK'
BY DEF TypeOK, Return, Phases, Places

LEMMA FailedType ==
    ASSUME TypeOK, SDTypeOK', dev' \in Members, moved' = moved, NEW code, ResetFailed(code)
    PROVE  TypeOK'
<1>1. CASE Return("failed")
  BY <1>1, ReturnType
<1>2. CASE ~Return("failed")
  <2>1. /\ tries' = tries - 1 /\ tries > 1
        /\ StartReset("init")
        /\ UNCHANGED <<call, answer, doubtful>>
    BY <1>2 DEF ResetFailed
  <2> QED
    BY <2>1 DEF TypeOK, StartReset, Issue, Places, ResetPlaces, Phases
<1> QED
  BY <1>1, <1>2

LEMMA ResetTypes ==
    ASSUME TypeOK, CardReset
    PROVE  TypeOK'
<1>1. /\ {"CMD0", "CMD5", "CMD7", "CMD16", "SCR", "ACMD6", "inquiry", "ACMD41", "CMD2",
          "status", "recheck"} \subseteq Places
      /\ dev \in Members /\ SDTypeOK
  BY DEF Places, ResetPlaces, EnsurePlaces, TypeOK
<1>2. \A p : Fault(p) => faults' \in 0 .. MaxFaults
  BY CardAssumption DEF TypeOK, SDTypeOK, Fault
<1>3. UNCHANGED sdVars => SDTypeOK'
  BY <1>1 DEF sdVars, SDTypeOK
<1>a. ReadSCR => dev' \in Members
  <2>1. ASSUME dev' = [dev EXCEPT !.blockSize = 8, !.blocksToTransfer = 1] PROVE dev' \in Members
    BY <1>1, <2>1 DEF Members
  <2> QED
    BY <2>1 DEF ReadSCR
<1>4. CASE ResetController
  <2>1. faults' \in 0 .. MaxFaults
    BY <1>2, <1>4 DEF ResetController, NoFault, TypeOK, SDTypeOK
  <2>2. NoTransfer \in Transfers
    BY DEF NoTransfer, Transfers
  <2>3. SDTypeOK'
    BY <1>4, <2>1, <2>2 DEF ResetController, TypeOK, SDTypeOK
  <2>4. CASE Proceed("CMD0")
    <3>1. \/ dev' = dev
          \/ dev' = [dev EXCEPT !.cardSupportsSDHC = FALSE, !.cardRCA = "CARD_RCA_INVALID",
                                !.lastError = "none", !.lastCmdSuccess = FALSE,
                                !.lastR0 = "none", !.blocksToTransfer = 0,
                                !.blockSize = 0, !.cardRemoval = FALSE]
      BY <1>4 DEF ResetController
    <3> DEFINE d == [dev EXCEPT !.cardSupportsSDHC = FALSE, !.cardRCA = "CARD_RCA_INVALID",
                                !.lastError = "none", !.lastCmdSuccess = FALSE]
    <3>2. /\ d \in Members /\ "none" \in Responses
          /\ \/ dev' = dev
             \/ dev' = [d EXCEPT !.lastR0 = "none", !.blocksToTransfer = 0, !.blockSize = 0,
                                !.cardRemoval = FALSE]
      BY <1>1, <3>1 DEF Members, Responses
    <3> HIDE DEF d
    <3>3. [d EXCEPT !.lastR0 = "none", !.blocksToTransfer = 0, !.blockSize = 0,
                    !.cardRemoval = FALSE] \in Members
      BY <3>2 DEF Members
    <3>4. dev' \in Members
      BY <1>1, <3>2, <3>3
    <3> QED
      BY <1>1, <1>4, <2>3, <2>4, <3>4, ProceedType DEF ResetController
  <2>5. CASE ResetFailed(1) /\ dev' = dev
    BY <1>1, <1>4, <2>3, <2>5, FailedType DEF ResetController
  <2> QED
    BY <1>4, <2>4, <2>5 DEF ResetController
<1>5. CASE AfterSimple
  BY <1>1, <1>3, <1>5, ProceedType, FailedType DEF AfterSimple, Decide, NextPlace, Places, ResetPlaces
<1>6. CASE AfterCMD8
  <2>1. faults' \in 0 .. MaxFaults
    BY <1>2, <1>6 DEF AfterCMD8, NoFault, TypeOK, SDTypeOK
  <2>2. SDTypeOK'
    BY <1>1, <1>6, <2>1 DEF AfterCMD8, SDTypeOK
  <2>3. moved' = moved
    BY <1>6 DEF AfterCMD8, Decide
  <2>4. \/ ResetFailed(1) /\ dev' = dev
        \/ Proceed("CMD5") /\ \E v \in BOOLEAN : dev' = [dev EXCEPT !.v2_later = v]
    BY <1>6 DEF AfterCMD8
  <2>5. dev' \in Members
    BY <1>1, <2>4 DEF Members
  <2> QED
    BY <1>1, <2>2, <2>3, <2>4, <2>5, ProceedType, FailedType
<1>7. CASE AfterCMD5
  <2>1. faults' \in 0 .. MaxFaults
    BY <1>2, <1>7 DEF AfterCMD5, NoFault, TypeOK, SDTypeOK
  <2>2. SDTypeOK'
    BY <1>1, <1>7, <2>1 DEF AfterCMD5, SDTypeOK
  <2> QED
    BY <1>1, <1>7, <2>2, ProceedType, FailedType DEF AfterCMD5, Decide
<1>8. CASE AfterACMD41
  <2>1. dev' \in Members
    BY <1>1, <1>8, CardAssumption DEF AfterACMD41, Members
  <2>2. faults' \in 0 .. MaxFaults
    BY <1>2, <1>8 DEF AfterACMD41, SwitchClockRate, NoFault, TypeOK, SDTypeOK
  <2>3. SDTypeOK'
    BY <1>1, <1>8, <2>2 DEF AfterACMD41, SDTypeOK
  <2>4. CASE phase' = "inhibited" /\ UNCHANGED <<place, moved>> /\ Stay
    BY <2>1, <2>3, <2>4 DEF TypeOK, Stay, Phases
  <2> QED
    BY <1>1, <1>8, <2>1, <2>3, <2>4, ProceedType, FailedType
       DEF AfterACMD41, SwitchClockRate, Decide
<1>9. CASE AfterCMD3
  <2>1. dev' \in Members
    BY <1>1, <1>9 DEF AfterCMD3, Members
  <2> QED
    BY <1>1, <1>3, <1>9, <2>1, ProceedType, FailedType DEF AfterCMD3, Decide
<1>10. CASE AfterCMD7
  <2>1. dev' \in Members
    BY <1>1, <1>a, <1>10 DEF AfterCMD7
  <2> QED
    BY <1>1, <1>3, <1>10, <2>1, ProceedType, FailedType DEF AfterCMD7, ReadSCR, Decide
<1>11. CASE AfterCMD16
  <2>1. dev' \in Members
    BY <1>1, <1>a, <1>11 DEF AfterCMD16
  <2> QED
    BY <1>1, <1>3, <1>11, <2>1, ProceedType, FailedType DEF AfterCMD16, ReadSCR, Decide
<1>12. CASE AfterSCR
  <2>1. dev' \in Members
    BY <1>1, <1>12 DEF AfterSCR, Members
  <2> QED
    BY <1>1, <1>3, <1>12, <2>1, ProceedType, FailedType DEF AfterSCR, Decide
<1>13. CASE AfterACMD6
  <2>1. OK \in BOOLEAN
    BY <1>1 DEF OK, Members
  <2>2. SDTypeOK'
    BY <1>1, <1>13, <2>1 DEF AfterACMD6, SDTypeOK
  <2>3. moved' = moved /\ from \in {"init", "ensure", "retry"}
    BY <1>13 DEF AfterACMD6, Decide, TypeOK
  <2>4. \/ Return("ok") /\ dev' = [dev EXCEPT !.initialized = TRUE]
        \/ Proceed("status") /\ dev' = dev
        \/ Proceed("recheck") /\ dev' = dev
    BY <1>13, <2>3 DEF AfterACMD6
  <2>5. dev' \in Members
    BY <1>1, <2>4 DEF Members
  <2> QED
    BY <1>1, <2>2, <2>3, <2>4, <2>5, ProceedType, ReturnType
<1> QED
  BY <1>4, <1>5, <1>6, <1>7, <1>8, <1>9, <1>10, <1>11, <1>12, <1>13 DEF CardReset

LEMMA DataModeTypes ==
    ASSUME TypeOK, DataMode
    PROVE  TypeOK'
<1>1. UNCHANGED sdVars => SDTypeOK'
  BY DEF sdVars, TypeOK, SDTypeOK
<1>2. moved' = moved
  BY DEF DataMode, AfterStatus, AfterSelect, AfterStop, AfterRecheck, AfterData, Decide
<1>3. ASSUME SDTypeOK', GiveUp PROVE TypeOK'
  <2>1. dev' \in Members
    BY <1>3 DEF GiveUp, TypeOK, Members
  <2> QED
    BY <1>2, <1>3, <2>1, ReturnType DEF GiveUp
<1>4. ASSUME SDTypeOK', DoDataCommand PROVE TypeOK'
  <2>1. dev' \in Members
    BY <1>4, CallType DEF DoDataCommand, TypeOK, Members
  <2> QED
    BY <1>2, <1>4, <2>1, ReturnType DEF DoDataCommand, Issue, TypeOK, Phases, Places
<1>5. ASSUME SDTypeOK', dev' = dev, NEW p \in EnsurePlaces, Proceed(p) PROVE TypeOK'
  BY <1>2, <1>5, ProceedType DEF TypeOK, Places
<1>6. CASE AfterStatus
  <2>1. CASE StartReset("retry") /\ UNCHANGED <<call, answer, tries, doubtful, dev>>
    BY <1>1, <1>2, <1>6, <2>1
      DEF AfterStatus, StartReset, Issue, TypeOK, Phases, Places, ResetPlaces
  <2> QED
    BY <1>1, <1>3, <1>4, <1>5, <1>6, <2>1 DEF AfterStatus, EnsurePlaces
<1>7. CASE AfterSelect
  BY <1>1, <1>3, <1>5, <1>7 DEF AfterSelect, EnsurePlaces
<1>8. CASE AfterStop
  <2>1. NoTransfer \in Transfers
    BY DEF NoTransfer, Transfers
  <2>2. SDTypeOK'
    BY <1>8, <2>1, ResetDatTypes DEF AfterStop, TypeOK, SDTypeOK
  <2> QED
    BY <1>3, <1>5, <1>8, <2>2 DEF AfterStop, EnsurePlaces
<1>9. CASE AfterRecheck
  BY <1>1, <1>3, <1>4, <1>9 DEF AfterRecheck
<1>10. CASE AfterData
  <2>1. CASE Issue("data") /\ tries' = tries + 1 /\ UNCHANGED <<call, answer, from, doubtful, dev>>
             /\ tries + 1 < max_retries
    BY <1>1, <1>2, <1>10, <2>1
      DEF AfterData, Issue, TypeOK, Phases, Places, max_retries
  <2>2. CASE Return("ok") /\ dev' = dev
    BY <1>1, <1>2, <1>10, <2>2, ReturnType DEF AfterData, TypeOK
  <2> QED
    BY <1>1, <1>3, <1>10, <2>1, <2>2 DEF AfterData
<1> QED
  BY <1>6, <1>7, <1>8, <1>9, <1>10 DEF DataMode

LEMMA BeginTypes ==
    ASSUME TypeOK, BeginInit \/ Refuse \/ BeginTransfer
    PROVE  TypeOK'
<1>1. SDTypeOK'
  <2>1. CASE BeginInit
    <3>1. faults' \in 0 .. MaxFaults
      BY <2>1, CardAssumption DEF BeginInit, NoFault, Fault, TypeOK, SDTypeOK
    <3> QED
      BY <2>1, <3>1 DEF BeginInit, TypeOK, SDTypeOK
  <2>2. CASE Refuse \/ BeginTransfer
    BY <2>2 DEF Refuse, BeginTransfer, sdVars, TypeOK, SDTypeOK
  <2> QED
    BY <2>1, <2>2
<1>2. <<>> \in Seq(Values \cup {"register"})
  BY EmptySeq
<1>3. CASE BeginInit
  BY <1>1, <1>2, <1>3
    DEF BeginInit, Begin, StartReset, Issue, TypeOK, Places, ResetPlaces, Phases
<1>4. CASE Refuse
  BY <1>1, <1>2, <1>4 DEF Refuse, Begin, TypeOK
<1>5. CASE BeginTransfer
  <2>1. PICK r \in Requests :
            /\ Begin(r)
            /\ doubtful' = IF r.op = "write" THEN doubtful \cup (BlocksOf(r) \X {r.value})
                           ELSE doubtful
    BY <1>5 DEF BeginTransfer
  <2>2. r \in Transfer /\ r.count > 0 /\ r.block + r.count <= NumBlocks
    BY RequestAssumption
  <2>3. BlocksOf(r) \subseteq Blocks /\ r.value \in Values
    BY <2>2, CardAssumption DEF BlocksOf, Blocks, Transfer
  <2>4. doubtful' \subseteq (Blocks \X Values)
    BY <2>1, <2>3 DEF TypeOK
  <2>5. call' \in Requests /\ moved' = <<>>
    BY <2>1 DEF Begin
  <2>6. place' \in Places /\ phase' \in Phases /\ from' \in {"init", "ensure", "retry"}
    BY <1>5 DEF BeginTransfer, StartReset, Issue, TypeOK, Places, ResetPlaces, EnsurePlaces, Phases
  <2> QED
    BY <1>1, <1>2, <1>5, <2>4, <2>5, <2>6 DEF BeginTransfer, TypeOK
<1> QED
  BY <1>3, <1>4, <1>5

(* A transfer has the block it programs. *)
LEMMA Programs ==
    ASSUME TypeOK, Pending, transfer.kind = "write", transfer.fifo # Empty
    PROVE  /\ transfer.left > 0
           /\ transfer.block \in Blocks
           /\ transfer.fifo \in Values
<1>1. transfer \in Transfers /\ disk \in [Blocks -> Values] /\ doubtful \subseteq (Blocks \X Values)
  BY DEF TypeOK, SDTypeOK
<1>2. transfer.left > 0 /\ transfer.block + transfer.left <= NumBlocks
  BY DEF Pending
<1>3. transfer.block \in Blocks
  BY <1>1, <1>2, CardAssumption DEF Transfers, Blocks
<1>4. <<transfer.block, transfer.fifo>> \in doubtful \/ disk[transfer.block] = transfer.fifo
  BY DEF Pending
<1> QED
  BY <1>1, <1>2, <1>3, <1>4

LEMMA HardwareTypes ==
    ASSUME TypeOK, Pending, HardwareStep
    PROVE  TypeOK'
<1>1. SDTypeOK => SDTypeOK'
  <2> SUFFICES ASSUME SDTypeOK PROVE SDTypeOK'
    OBVIOUS
  <2>1. \A p : Fault(p) => faults' \in 0 .. MaxFaults
    BY CardAssumption DEF SDTypeOK, Fault
  <2>2. NoTransfer \in Transfers
    BY DEF NoTransfer, Transfers
  <2>3. CASE BlockArrives
    <3>1. transfer.kind = "register" \/ transfer.block \in Blocks
      BY <2>3, CardAssumption DEF BlockArrives, Moving, Pending, SDTypeOK, Transfers, Blocks
    <3>2. transfer' \in Transfers
      BY <2>3, <3>1 DEF BlockArrives, SDTypeOK, Transfers
    <3> QED
      BY <2>3, <3>2 DEF BlockArrives, SDTypeOK, Flags
  <2>4. CASE RoomForBlock
    BY <2>4 DEF RoomForBlock, SDTypeOK, Flags
  <2>5. CASE BlockProgrammed
    <3>1. transfer.kind = "write" /\ transfer.fifo # Empty
      BY <2>5 DEF BlockProgrammed, Moving
    <3>2. transfer' \in Transfers /\ disk' \in [Blocks -> Values]
      BY <2>5, <3>1, Advances, Programs DEF BlockProgrammed, SDTypeOK
    <3> QED
      BY <2>5, <3>2 DEF BlockProgrammed, SDTypeOK
  <2>6. CASE TransferEnds
    <3>1. faults' \in 0 .. MaxFaults /\ flags' \subseteq Flags
      BY <2>1, <2>6 DEF TransferEnds, NoFault, LineFault, SDTypeOK, Flags, Errors
    <3> QED
      BY <2>2, <2>6, <3>1 DEF TransferEnds, SDTypeOK, Present
  <2>7. CASE TransferFails
    <3>1. faults' \in 0 .. MaxFaults /\ flags' \subseteq Flags
      BY <2>1, <2>7 DEF TransferFails, NoFault, LineFault, SDTypeOK, Flags
    <3>2. transfer' \in Transfers
      BY <2>7 DEF TransferFails, NoTransfer, Transfers
    <3> QED
      BY <2>7, <3>1, <3>2 DEF TransferFails, SDTypeOK, Present
  <2>8. CASE CardRemoved
    BY <2>1, <2>8 DEF CardRemoved, SDTypeOK, Flags
  <2>9. CASE CardInserted
    BY <2>9 DEF CardInserted, SDTypeOK, Present
  <2> QED
    BY <2>3, <2>4, <2>5, <2>6, <2>7, <2>8, <2>9 DEF HardwareStep, Hardware
<1> QED
  BY <1>1 DEF HardwareStep, control, TypeOK

-----------------------------------------------------------------------------
(* What the start of a command does                                          *)

(* The command is refused, lost or answered, and nothing starts on the data lines. *)
NothingStarts ==
    /\ transfer' = transfer
    /\ moved' = moved
    /\ card' = card \/ place \in Calm
    /\ \/ phase' = "decide" /\ ~dev'.lastCmdSuccess
       \/ phase = "prefix" /\ phase' = "command" /\ flags \cap Errors = {}
       \/ /\ phase = "command" /\ phase' = "decide"
          /\ place \notin LinePlaces \cup BusyPlaces
          /\ place = "status" => dev'.lastR0 = card

(* The card takes a command that uses the data lines. *)
LinesStart ==
    /\ phase = "command"
    /\ place \in LinePlaces \cup BusyPlaces
    /\ place # "stop" => transfer.kind = "none"
    /\ card' \in IF place \in LinePlaces THEN {"data", "rcv"} ELSE {"tran"}
    /\ \/ Start(Command)
       \/ transfer' = [NoTransfer EXCEPT !.kind = "stuck"]
    /\ \/ phase' = "decide" /\ ~dev'.lastCmdSuccess /\ moved' = moved
       \/ /\ Start(Command)
          /\ flags \cap Errors = {}
          /\ place \in LinePlaces => phase' = "data" /\ moved' = <<>>
          /\ place \in BusyPlaces => phase' = "complete" /\ moved' = moved

(* Which command it is. *)
LEMMA CommandIs ==
    ASSUME TypeOK, Flow, phase \in {"prefix", "command"}
    PROVE  /\ place \in Places \ {"idle", "controller"}
           /\ Command \in Commands
           /\ Command = "APP_CMD" <=> phase = "prefix"
           /\ IsData(Command) <=> phase = "command" /\ place \in LinePlaces
           /\ IsBusy(Command) <=> phase = "command" /\ place \in BusyPlaces
           /\ Command = "GO_IDLE_STATE" <=> phase = "command" /\ place = "CMD0"
           /\ Command = "SELECT_CARD" <=> phase = "command" /\ place \in {"CMD7", "select"}
           /\ phase = "prefix" => place \in AppPlaces
<1>1. place \in Places \ {"idle", "controller"}
  BY DEF TypeOK, Flow
<1>2. phase = "prefix" => place \in AppPlaces
  BY DEF Flow
<1>3. CASE phase = "prefix"
  <2>1. Command = "APP_CMD"
    BY <1>2, <1>3 DEF Command, AppPlaces
  <2> QED
    BY <1>1, <1>2, <1>3, <2>1 DEF Commands, Moves, IsData, IsBusy
<1>4. CASE phase = "command" /\ place = "data"
  BY <1>1, <1>4 DEF Command, Commands, Moves, IsData, IsBusy, LinePlaces, BusyPlaces
<1>5. CASE phase = "command" /\ place # "data"
  <2>1. Command = CommandAt[place]
    BY <1>5 DEF Command
  <2> QED
    BY <1>1, <1>5, <2>1 DEF CommandAt, Commands, Moves, IsData, IsBusy, LinePlaces, BusyPlaces,
                            Places, ResetPlaces, EnsurePlaces
<1> QED
  BY <1>1, <1>2, <1>3, <1>4, <1>5

(* The commands that leave the card where it is, and those that bring it to tran or beyond. *)
LEMMA TakesIs ==
    ASSUME TypeOK, Flow, phase \in {"prefix", "command"},
           Command = "GO_IDLE_STATE" \/ Understands(Command), CardTakes(Command)
    PROVE  /\ card' = card \/ place \in Calm \/ IsData(Command) \/ IsBusy(Command)
           /\ IsData(Command) => card' \in {"data", "rcv"}
           /\ IsBusy(Command) => card' = "tran"
<1>1. CASE Command = "APP_CMD"
  <2>1. card \in {"idle", "stby", "tran", "data", "rcv"}
    BY <1>1 DEF Understands, Moves
  <2>2. card' = card
    BY <1>1, <2>1 DEF CardTakes, Moves
  <2> QED
    BY <1>1, <2>2 DEF IsData, IsBusy
<1>2. CASE Command = "SEND_STATUS"
  <2>1. card \in {"stby", "tran", "data", "rcv"}
    BY <1>2 DEF Understands, Moves
  <2>2. card' = card
    BY <1>2, <2>1 DEF CardTakes, Moves
  <2> QED
    BY <1>2, <2>2 DEF IsData, IsBusy
<1>3. CASE IsData(Command)
  <2>1. card = "tran"
    BY <1>3 DEF Understands, Moves, IsData
  <2>2. card' \in {"data", "rcv"}
    BY <1>3, <2>1 DEF CardTakes, Moves, IsData
  <2> QED
    BY <1>3, <2>2 DEF IsData, IsBusy
<1>4. CASE IsBusy(Command)
  <2>1. CASE Command = "SELECT_CARD"
    <3>1. card = "stby"
      BY <2>1 DEF Understands, Moves
    <3>2. card' = "tran"
      BY <2>1, <3>1 DEF CardTakes, Moves
    <3> QED
      BY <2>1, <3>2 DEF IsBusy, IsData
  <2>2. CASE Command = "STOP_TRANSMISSION"
    <3>1. card \in {"data", "rcv"}
      BY <2>2 DEF Understands, Moves
    <3>2. card' = "tran"
      BY <2>2, <3>1 DEF CardTakes, Moves
    <3> QED
      BY <2>2, <3>2 DEF IsBusy, IsData
  <2> QED
    BY <1>4, <2>1, <2>2 DEF IsBusy
<1>5. CASE /\ Command \notin {"APP_CMD", "SEND_STATUS"}
           /\ ~IsData(Command) /\ ~IsBusy(Command)
  <2>1. phase = "command" /\ place \notin {"idle", "controller"} \cup LinePlaces \cup BusyPlaces
    BY <1>5, CommandIs
  <2>2. place \in Calm \cup {"status"}
    BY <2>1 DEF Calm, LinePlaces, BusyPlaces, TypeOK, Places, ResetPlaces, EnsurePlaces
  <2>3. place = "status" => Command = "SEND_STATUS"
    BY <2>1 DEF Command, CommandAt
  <2> QED
    BY <1>5, <2>2, <2>3
<1> QED
  BY <1>1, <1>2, <1>3, <1>4, <1>5

(* A command that does not use the lines starts nothing there. *)
LEMMA StartsNothing ==
    ASSUME NEW c, ~IsData(c), ~IsBusy(c), Start(c)
    PROVE  transfer' = transfer
BY DEF Start, Started, IsData, IsBusy

(* An answer, to the phase that follows it. *)
LEMMA AnswerLeads ==
    ASSUME TypeOK, Flow, phase \in {"prefix", "command"}, NEW response, Answered(Command, response)
    PROVE  /\ phase = "prefix" => phase' = "command" /\ moved' = moved
           /\ phase = "command" =>
                 /\ place \in LinePlaces => phase' = "data" /\ moved' = <<>>
                 /\ place \in BusyPlaces => phase' = "complete" /\ moved' = moved
                 /\ place \notin LinePlaces \cup BusyPlaces =>
                       /\ phase' = "decide" /\ moved' = moved
                       /\ place # "CMD0" => dev'.lastR0 = response
<1>1. /\ Command = "APP_CMD" <=> phase = "prefix"
      /\ IsData(Command) <=> phase = "command" /\ place \in LinePlaces
      /\ IsBusy(Command) <=> phase = "command" /\ place \in BusyPlaces
      /\ Command = "GO_IDLE_STATE" <=> phase = "command" /\ place = "CMD0"
  BY CommandIs
<1>2. CASE phase = "prefix"
  BY <1>1, <1>2 DEF Answered
<1>3. CASE phase = "command" /\ place \in LinePlaces
  BY <1>1, <1>3 DEF Answered, LinePlaces, BusyPlaces
<1>4. CASE phase = "command" /\ place \in BusyPlaces
  BY <1>1, <1>4 DEF Answered, LinePlaces, BusyPlaces
<1>5. CASE phase = "command" /\ place \notin LinePlaces \cup BusyPlaces
  <2>1. phase' = "decide" /\ moved' = moved
    BY <1>1, <1>5 DEF Answered
  <2>2. ASSUME place # "CMD0" PROVE dev'.lastR0 = response
    <3>1. Command # "GO_IDLE_STATE"
      BY <1>1, <2>2
    <3>2. dev' = [dev EXCEPT !.lastCmdSuccess = ~(IsData(Command) \/ IsBusy(Command)), !.lastR0 = response]
      BY <3>1 DEF Answered
    <3> QED
      BY <3>2 DEF TypeOK, Members
  <2> QED
    BY <1>5, <2>1, <2>2
<1> QED
  BY <1>2, <1>3, <1>4, <1>5

(* The start of a command, without its effect on the card and the lines, *)
LEMMA CommandFrame ==
    ASSUME IssueCommandInt
    PROVE  /\ phase \in {"prefix", "command"}
           /\ UNCHANGED <<running, disk, place>> /\ Stay
           /\ flags' = flags \ Errors \/ flags' = flags
BY Zenon DEF IssueCommandInt, CardAnswers, CardStillBusy, CardBecomesReady, NoAnswer, AnswerLost,
             NotIssued, TooManyBlocks, Issuing, sdVars

(* and with it. *)
LEMMA CommandOutcome ==
    ASSUME TypeOK, Flow, IssueCommandInt
    PROVE  NothingStarts \/ LinesStart
<1>1. phase \in {"prefix", "command"}
  BY CommandFrame
<1>4. \A error : Failing(error) => phase' = "decide" /\ ~dev'.lastCmdSuccess /\ moved' = moved
  BY DEF Failing, TypeOK, Members
<1>5. CardIgnores => card' = card
  BY DEF CardIgnores
<1>6. CASE NoAnswer \/ NotIssued
  BY <1>4, <1>5, <1>6 DEF NoAnswer, NotIssued, NothingStarts
<1>7. CASE TooManyBlocks
  BY <1>7 DEF TooManyBlocks, sdVars, NothingStarts, TypeOK, Members
<1>8. CASE CardStillBusy \/ CardBecomesReady
  <2>1. place = "ACMD41" /\ phase = "command" /\ transfer' = transfer
    BY <1>8 DEF CardStillBusy, CardBecomesReady
  <2>2. \E r : Answered(Command, r)
    BY <1>8, Zenon DEF CardStillBusy, CardBecomesReady
  <2>3. place \in Calm /\ place # "status" /\ place \notin LinePlaces \cup BusyPlaces
    BY <2>1 DEF Calm, LinePlaces, BusyPlaces
  <2>4. phase' = "decide" /\ moved' = moved
    BY <1>1, <2>1, <2>2, <2>3, AnswerLeads
  <2> QED
    BY <2>1, <2>3, <2>4 DEF NothingStarts
<1>9. (CardAnswers \/ AnswerLost) /\ place # "stop" /\ (IsData(Command) \/ IsBusy(Command))
        => transfer.kind = "none"
  <2>1. CardAnswers \/ AnswerLost => ~Inhibited(Command)
    BY DEF CardAnswers, AnswerLost
  <2>2. IsBusy(Command) /\ place # "stop" => Command = "SELECT_CARD"
    BY <1>1, CommandIs DEF BusyPlaces
  <2> QED
    BY <2>1, <2>2 DEF Inhibited
<1>10. CASE CardAnswers
  <2>1. CardIgnores \/ (CardTakes(Command) /\ place # "inquiry")
    <3>1. place = "inquiry" => CardIgnores
      BY <1>10 DEF CardAnswers
    <3>2. place # "inquiry" => CardTakes(Command)
      BY <1>10 DEF CardAnswers
    <3> QED
      BY <3>1, <3>2
  <2>2. Command = "GO_IDLE_STATE" \/ Understands(Command)
    BY <1>10 DEF CardAnswers
  <2>3. Start(Command)
    BY <1>10 DEF CardAnswers
  <2>4. \/ Failing("other")
        \/ flags \cap Errors = {} /\ Answered(Command, card)
        \/ /\ flags \cap Errors = {} /\ Answered(Command, "bad")
           /\ place \in {"CMD8", "CMD3", "CMD7"}
    BY <1>10 DEF CardAnswers, Undisturbed
  <2>5. CASE ~(IsData(Command) \/ IsBusy(Command))
    <3>1. transfer' = transfer
      BY <2>3, <2>5, StartsNothing
    <3>2. card' = card \/ place \in Calm
      BY <1>1, <1>5, <2>1, <2>2, <2>5, TakesIs
    <3>3. CASE Failing("other")
      BY <1>4, <3>1, <3>2, <3>3 DEF NothingStarts
    <3>4. CASE phase = "prefix" /\ ~Failing("other")
      BY <1>1, <2>4, <3>1, <3>2, <3>4, AnswerLeads DEF NothingStarts
    <3>5. CASE phase = "command" /\ ~Failing("other")
      <4>1. place \notin LinePlaces \cup BusyPlaces
        BY <1>1, <2>5, <3>5, CommandIs
      <4>2. phase' = "decide" /\ moved' = moved
        BY <1>1, <2>4, <3>5, <4>1, AnswerLeads
      <4>3. place = "status" => dev'.lastR0 = card
        BY <1>1, <2>4, <3>5, <4>1, AnswerLeads
      <4> QED
        BY <3>1, <3>2, <3>5, <4>1, <4>2, <4>3 DEF NothingStarts
    <3> QED
      BY <1>1, <3>3, <3>4, <3>5
  <2>6. CASE IsData(Command) \/ IsBusy(Command)
    <3>1. phase = "command" /\ place \in LinePlaces \cup BusyPlaces
      BY <1>1, <2>6, CommandIs
    <3>2. card' \in IF place \in LinePlaces THEN {"data", "rcv"} ELSE {"tran"}
      <4>1. place # "inquiry"
        BY <3>1 DEF LinePlaces, BusyPlaces
      <4>2. CardTakes(Command)
        BY <1>10, <4>1 DEF CardAnswers
      <4> QED
        BY <1>1, <2>2, <3>1, <4>2, TakesIs, CommandIs
    <3>3. CASE Failing("other")
      BY <1>4, <1>9, <1>10, <2>3, <2>6, <3>1, <3>2, <3>3 DEF LinesStart
    <3>4. CASE ~Failing("other")
      <4>1. /\ place \in LinePlaces => phase' = "data" /\ moved' = <<>>
            /\ place \in BusyPlaces => phase' = "complete" /\ moved' = moved
        BY <1>1, <2>4, <3>1, <3>4, AnswerLeads
      <4>2. flags \cap Errors = {}
        BY <2>4, <3>4
      <4> QED
        BY <1>9, <1>10, <2>3, <2>6, <3>1, <3>2, <4>1, <4>2 DEF LinesStart
    <3> QED
      BY <3>3, <3>4
  <2> QED
    BY <2>5, <2>6
<1>11. CASE AnswerLost
  <2>1. CASE Command = "GO_IDLE_STATE"
    <3>1. CardIgnores /\ transfer' = transfer /\ Answered(Command, card)
      BY <1>11, <2>1 DEF AnswerLost
    <3>2. phase = "command" /\ place = "CMD0"
      BY <1>1, <2>1, CommandIs
    <3>3. place \notin LinePlaces \cup BusyPlaces
      BY <3>2 DEF LinePlaces, BusyPlaces
    <3>4. phase' = "decide" /\ moved' = moved
      BY <1>1, <3>1, <3>2, <3>3, AnswerLeads
    <3> QED
      BY <1>5, <3>1, <3>2, <3>3, <3>4 DEF NothingStarts
  <2>2. CASE Command # "GO_IDLE_STATE"
    <3>1. /\ CardTakes(Command) /\ Understands(Command)
          /\ transfer' = IF IsData(Command) \/ IsBusy(Command)
                         THEN [NoTransfer EXCEPT !.kind = "stuck"] ELSE transfer
          /\ phase' = "decide" /\ ~dev'.lastCmdSuccess /\ moved' = moved
      BY <1>4, <1>11, <2>2 DEF AnswerLost
    <3>2. CASE IsData(Command) \/ IsBusy(Command)
      <4>1. phase = "command" /\ place \in LinePlaces \cup BusyPlaces
        BY <1>1, <3>2, CommandIs
      <4>2. card' \in IF place \in LinePlaces THEN {"data", "rcv"} ELSE {"tran"}
        BY <1>1, <3>1, <4>1, TakesIs, CommandIs
      <4> QED
        BY <1>9, <1>11, <3>1, <3>2, <4>1, <4>2 DEF LinesStart
    <3>3. CASE ~(IsData(Command) \/ IsBusy(Command))
      <4>1. card' = card \/ place \in Calm
        BY <1>1, <3>1, <3>3, TakesIs
      <4> QED
        BY <3>1, <3>3, <4>1 DEF NothingStarts
    <3> QED
      BY <3>2, <3>3
  <2> QED
    BY <2>1, <2>2
<1> QED
  BY <1>6, <1>7, <1>8, <1>10, <1>11 DEF IssueCommandInt

-----------------------------------------------------------------------------
(* Flow is inductive.                                                        *)

(* Inside issueCommand the driver stays where it is. *)
LEMMA FlowStays ==
    ASSUME TypeOK, Flow, Keeps, Stay, place \notin {"idle", "controller"},
           phase' # "idle",
           phase' = "prefix" => place \in AppPlaces,
           phase' = "data" => place \in LinePlaces,
           phase' = "complete" => place \in LinePlaces \cup BusyPlaces
    PROVE  Flow'
<1>1. /\ place' = place /\ call' = call /\ answer' = answer /\ from' = from /\ doubtful' = doubtful
      /\ dev'.blockSize = dev.blockSize /\ dev'.blocksToTransfer = dev.blocksToTransfer
  BY DEF Keeps, Kept, Stay
<1> QED
  BY <1>1 DEF Flow, BlocksOf

LEMMA FlowIssue ==
    ASSUME TypeOK, Inv, Flow, IssueCommand
    PROVE  Flow'
<1>1. Keeps
  BY IssueKeeps
<1>2. CASE HandleInterrupts
  <2>1. /\ Stay /\ place \notin {"idle", "controller"}
        /\ phase' \in {"decide", "prefix", "command"}
        /\ phase' = "prefix" => place \in AppPlaces
    BY <1>2 DEF HandleInterrupts, Flow, IS_APP_CMD, AppPlaces
  <2> QED
    BY <1>1, <2>1, FlowStays
<1>3. CASE IssueCommandInt
  <2>1. Stay /\ phase \in {"prefix", "command"}
    BY <1>3, CommandFrame
  <2>2. place \notin {"idle", "controller"}
    BY <2>1 DEF Flow
  <2>3. \/ phase' \in {"decide", "command"}
        \/ phase' = "data" /\ place \in LinePlaces
        \/ phase' = "complete" /\ place \in BusyPlaces
    BY <1>3, CommandOutcome DEF NothingStarts, LinesStart
  <2> QED
    BY <1>1, <2>1, <2>2, <2>3, FlowStays
<1>4. CASE MoveBlock
  <2>1. Stay /\ phase = "data" /\ phase' \in {"data", "complete"}
    BY <1>4 DEF MoveBlock
  <2>2. place \in LinePlaces
    BY <2>1 DEF Flow
  <2> QED
    BY <1>1, <2>1, <2>2, FlowStays DEF LinePlaces
<1>5. CASE BlockFails \/ Complete \/ CompleteFails
  <2>1. Stay /\ phase \in {"data", "complete"} /\ phase' = "decide"
    BY <1>5 DEF BlockFails, Complete, CompleteFails, WaitFails, Failing
  <2>2. place \notin {"idle", "controller"}
    BY <2>1 DEF Flow
  <2> QED
    BY <1>1, <2>1, <2>2, FlowStays
<1> QED
  BY <1>2, <1>3, <1>4, <1>5 DEF IssueCommand

(* A decision leads to the next place, *)
LEMMA FlowProceeds ==
    ASSUME TypeOK, Flow, place # "idle", NEW p \in Places \ {"idle"}, Issue(p),
           UNCHANGED <<call, answer, doubtful>>,
           p \in EnsurePlaces \cup {"data"} => call \in Requests,
           p \in ResetPlaces => IF from' = "init" THEN call = InitCall ELSE call \in Requests,
           p \in ResetPlaces \ {"controller", "SCR", "ACMD6"} => dev'.blockSize = 0,
           p = "SCR" => dev'.blocksToTransfer = 1 /\ dev'.blockSize = 8,
           p = "data" => dev'.blocksToTransfer = call.count
    PROVE  Flow'
BY DEF Flow, Issue, BlocksOf

(* or out of the call. *)
LEMMA FlowReturns ==
    ASSUME NEW result \in {"ok", "failed"}, Return(result)
    PROVE  Flow'
BY DEF Flow, Return, ResetPlaces, EnsurePlaces

LEMMA FlowResets ==
    ASSUME TypeOK, Flow, place \in ResetPlaces, NEW code, ResetFailed(code)
    PROVE  Flow'
<1>1. CASE Return("failed")
  BY <1>1, FlowReturns
<1>2. CASE ~Return("failed")
  <2>1. /\ from = "init" /\ StartReset("init") /\ UNCHANGED <<call, answer, doubtful>>
    BY <1>2 DEF ResetFailed
  <2>2. call = InitCall
    BY <2>1 DEF Flow
  <2>3. place # "idle" /\ "controller" \in Places \ {"idle"} /\ "controller" \notin EnsurePlaces \cup {"data"}
    BY DEF ResetPlaces, EnsurePlaces, Places
  <2> QED
    BY <2>1, <2>2, <2>3, FlowProceeds DEF StartReset
<1> QED
  BY <1>1, <1>2

(* Within cardReset the caller and the call stay. *)
LEMMA FlowContinues ==
    ASSUME TypeOK, Flow, place \in ResetPlaces, NEW p \in ResetPlaces, Proceed(p),
           p \notin {"controller", "SCR", "ACMD6"} => dev'.blockSize = 0,
           p = "SCR" => dev'.blocksToTransfer = 1 /\ dev'.blockSize = 8
    PROVE  Flow'
<1>1. Issue(p) /\ UNCHANGED <<call, answer, from, doubtful>>
  BY DEF Proceed, Stay
<1>2. place # "idle" /\ p \in Places \ {"idle"} /\ p \notin EnsurePlaces \cup {"data"}
  BY DEF ResetPlaces, EnsurePlaces, Places
<1>3. IF from = "init" THEN call = InitCall ELSE call \in Requests
  BY DEF Flow
<1> QED
  BY <1>1, <1>2, <1>3, FlowProceeds

LEMMA FlowReset ==
    ASSUME TypeOK, Flow, CardReset
    PROVE  Flow'
<1>1. dev \in Members
  BY DEF TypeOK
<1>2. place \in ResetPlaces \ {"controller", "SCR", "ACMD6"} => dev.blockSize = 0
  BY DEF Flow
<1>3. CASE ResetController
  <2>1. CASE ResetFailed(1)
    BY <1>3, <2>1, FlowResets DEF ResetController, ResetPlaces
  <2>2. CASE Proceed("CMD0") /\ ~ResetFailed(1)
    <3>1. dev'.blockSize = 0
      BY <1>1, <1>3, <2>2 DEF ResetController, Members
    <3> QED
      BY <1>3, <2>2, <3>1, FlowContinues DEF ResetController, ResetPlaces
  <2> QED
    BY <1>3, <2>1, <2>2 DEF ResetController
<1>4. CASE AfterSimple
  BY <1>2, <1>4, FlowResets, FlowContinues DEF AfterSimple, Decide, NextPlace, ResetPlaces
<1>5. CASE AfterCMD8
  <2>1. /\ place = "CMD8"
        /\ \/ ResetFailed(1)
           \/ Proceed("CMD5") /\ \E v \in BOOLEAN : dev' = [dev EXCEPT !.v2_later = v]
    BY <1>5 DEF AfterCMD8, Decide
  <2>2. Proceed("CMD5") => ResetFailed(1) \/ dev'.blockSize = 0
    BY <1>1, <1>2, <2>1 DEF ResetPlaces, Members
  <2> QED
    BY <2>1, <2>2, FlowResets, FlowContinues DEF ResetPlaces
<1>6. CASE AfterCMD5
  BY <1>2, <1>6, FlowResets, FlowContinues DEF AfterCMD5, Decide, ResetPlaces
<1>7. CASE AfterACMD41
  <2>1. dev'.blockSize = 0
    BY <1>1, <1>2, <1>7 DEF AfterACMD41, Decide, ResetPlaces, Members
  <2> QED
    <3>1. CASE phase' = "inhibited" /\ UNCHANGED place /\ Stay
      BY <1>1, <1>7, <2>1, <3>1
         DEF AfterACMD41, Decide, Flow, Stay, BlocksOf, ResetPlaces, EnsurePlaces
    <3> QED
      BY <1>7, <2>1, <3>1, FlowResets, FlowContinues
         DEF AfterACMD41, SwitchClockRate, Decide, ResetPlaces
<1>8. CASE AfterCMD3
  <2>1. dev'.blockSize = 0
    BY <1>1, <1>2, <1>8 DEF AfterCMD3, Decide, ResetPlaces, Members
  <2> QED
    BY <1>8, <2>1, FlowResets, FlowContinues DEF AfterCMD3, Decide, ResetPlaces
<1>9. ASSUME ReadSCR, place \in ResetPlaces PROVE Flow'
  <2>1. dev'.blockSize = 8 /\ dev'.blocksToTransfer = 1
    BY <1>1, <1>9 DEF ReadSCR, Members
  <2> QED
    BY <1>9, <2>1, FlowContinues DEF ReadSCR, ResetPlaces
<1>10. CASE AfterCMD7
  BY <1>2, <1>9, <1>10, FlowResets, FlowContinues DEF AfterCMD7, Decide, ResetPlaces
<1>11. CASE AfterCMD16
  BY <1>9, <1>11, FlowResets DEF AfterCMD16, Decide, ResetPlaces
<1>12. CASE AfterSCR
  BY <1>12, FlowResets, FlowContinues DEF AfterSCR, Decide, ResetPlaces
<1>13. CASE AfterACMD6
  <2>1. CASE from = "init"
    BY <1>13, <2>1, FlowReturns DEF AfterACMD6
  <2>2. CASE from # "init"
    <3>1. call \in Requests /\ place # "idle"
      BY <1>13, <2>2 DEF AfterACMD6, Decide, Flow, ResetPlaces
    <3>2. \E p \in {"status", "recheck"} : Proceed(p)
      BY <1>13, <2>2, Zenon DEF AfterACMD6, TypeOK
    <3>3. PICK p \in {"status", "recheck"} : Proceed(p)
      BY <3>2
    <3>4. Issue(p) /\ UNCHANGED <<call, answer, doubtful>>
      BY <3>3 DEF Proceed, Stay
    <3>5. p \in Places \ {"idle"} /\ p \notin ResetPlaces \cup {"SCR", "data"}
      BY DEF Places, EnsurePlaces, ResetPlaces
    <3> QED
      BY <3>1, <3>4, <3>5, FlowProceeds
  <2> QED
    BY <2>1, <2>2
<1> QED
  BY <1>3, <1>4, <1>5, <1>6, <1>7, <1>8, <1>10, <1>11, <1>12, <1>13 DEF CardReset

LEMMA FlowDataMode ==
    ASSUME TypeOK, Flow, DataMode
    PROVE  Flow'
<1>1. call \in Requests /\ place # "idle" /\ place \in EnsurePlaces \cup {"data"}
  BY DEF DataMode, AfterStatus, AfterSelect, AfterStop, AfterRecheck, AfterData, Decide,
         EnsurePlaces, Flow
<1>2. GiveUp => Flow'
  BY FlowReturns DEF GiveUp
<1>3. ASSUME NEW p \in EnsurePlaces, Proceed(p) PROVE Flow'
  <2>1. Issue(p) /\ UNCHANGED <<call, answer, doubtful>>
    BY <1>3 DEF Proceed, Stay
  <2>2. p \in Places \ {"idle"} /\ p \notin ResetPlaces \cup {"SCR", "data"}
    BY DEF Places, EnsurePlaces, ResetPlaces
  <2> QED
    BY <1>1, <2>1, <2>2, FlowProceeds
<1>4. ASSUME Issue("data"), UNCHANGED <<call, answer, doubtful>>, dev'.blocksToTransfer = call.count
      PROVE  Flow'
  <2>1. "data" \in Places \ {"idle"} /\ "data" \notin ResetPlaces
    BY DEF Places, ResetPlaces
  <2> QED
    BY <1>1, <1>4, <2>1, FlowProceeds
<1>5. DoDataCommand => Flow'
  <2>1. [dev EXCEPT !.blocksToTransfer = call.count].blocksToTransfer = call.count
    BY DEF TypeOK, Members
  <2> QED
    BY <1>4, <2>1, FlowReturns DEF DoDataCommand
<1>6. CASE AfterStatus
  <2>1. CASE StartReset("retry") /\ UNCHANGED <<call, answer, doubtful>>
    <3>1. "controller" \in Places \ {"idle"} /\ "controller" \notin EnsurePlaces
      BY DEF Places, ResetPlaces, EnsurePlaces
    <3> QED
      BY <1>1, <2>1, <3>1, FlowProceeds DEF StartReset
  <2> QED
    BY <1>2, <1>3, <1>5, <1>6, <2>1 DEF AfterStatus, EnsurePlaces
<1>7. CASE AfterSelect \/ AfterStop
  BY <1>2, <1>3, <1>7 DEF AfterSelect, AfterStop, EnsurePlaces
<1>8. CASE AfterRecheck
  BY <1>2, <1>5, <1>8 DEF AfterRecheck
<1>9. CASE AfterData
  <2>1. place = "data" => dev.blocksToTransfer = call.count
    BY DEF Flow
  <2> QED
    BY <1>2, <1>4, <1>9, <2>1, FlowReturns DEF AfterData, Decide
<1> QED
  BY <1>6, <1>7, <1>8, <1>9 DEF DataMode

LEMMA FlowBegin ==
    ASSUME TypeOK, Flow, BeginInit \/ Refuse \/ BeginTransfer
    PROVE  Flow'
<1>1. place = "idle" /\ phase = "idle" /\ answer # "pending"
  BY DEF BeginInit, Refuse, BeginTransfer, Begin, Flow
<1>2. CASE BeginInit
  <2>1. \/ /\ place' = "controller" /\ phase' = "interrupts" /\ from' = "init"
           /\ answer' = "pending" /\ call' = InitCall
        \/ place' = "idle" /\ phase' = "idle" /\ answer' = "failed"
    BY <1>1, <1>2 DEF BeginInit, Begin, StartReset, Issue
  <2> QED
    BY <2>1 DEF Flow, ResetPlaces, EnsurePlaces, InitCall
<1>3. CASE Refuse
  <2>1. place' = "idle" /\ phase' = "idle" /\ answer' = "failed"
    BY <1>1, <1>3 DEF Refuse
  <2> QED
    BY <2>1 DEF Flow, ResetPlaces, EnsurePlaces
<1>4. CASE BeginTransfer
  <2>1. PICK r \in Requests :
            /\ Begin(r)
            /\ doubtful' = IF r.op = "write" THEN doubtful \cup (BlocksOf(r) \X {r.value})
                           ELSE doubtful
    BY <1>4 DEF BeginTransfer
  <2>2. call' = r
    BY <2>1 DEF Begin
  <2>3. \/ place' = "controller" /\ phase' = "interrupts" /\ from' = "ensure"
        \/ place' = "status" /\ phase' = "interrupts"
    BY <1>4 DEF BeginTransfer, StartReset, Issue
  <2>4. answer' = "pending"
    BY <1>4 DEF BeginTransfer
  <2>5. call'.op = "write" => BlocksOf(call') \X {call'.value} \subseteq doubtful'
    BY <2>1, <2>2
  <2>6. BlocksOf(call') = BlocksOf(call)'
    BY DEF BlocksOf
  <2> QED
    BY <2>2, <2>3, <2>4, <2>5, <2>6 DEF Flow, ResetPlaces, EnsurePlaces
<1> QED
  BY <1>2, <1>3, <1>4

LEMMA FlowStep ==
    ASSUME TypeOK, Inv, Flow, Next
    PROVE  Flow'
<1>1. CASE HardwareStep
  BY <1>1 DEF HardwareStep, control, Flow, BlocksOf
<1> QED
  BY <1>1, FlowIssue, FlowReset, FlowDataMode, FlowBegin DEF Next, Driver

-----------------------------------------------------------------------------
(* What is on the data lines                                                 *)

DataInv == Lines /\ Stream /\ Progress /\ Pending

(* A decision leaves the data lines alone, or resets them. *)
LEMMA DecisionKeeps ==
    ASSUME DataInv, Flow', phase' \in {"interrupts", "idle"},
           UNCHANGED <<card, disk>>,
           transfer' = transfer \/ transfer' = NoTransfer \/ transfer' = Stuck,
           transfer'.kind = "busy" =>
               place' \in {"select", "stop"} \/ dev'.cardRCA # "assigned" \/ dev'.blockSize = 0,
           place' \in Calm \cup Fresh => Settled',
           place' = "data" => Settled' \/ (place = "data" /\ UNCHANGED <<call, transfer>>),
           \/ doubtful \subseteq doubtful'
           \/ transfer.kind = "write" /\ transfer.fifo # Empty => disk[transfer.block] = transfer.fifo
    PROVE  DataInv'
<1>1. Lines'
  <2>1. Settled => Settled'
    BY DEF Settled, NoTransfer, Stuck
  <2>2. transfer'.kind # "busy" => Settled' \/ transfer'.kind = transfer.kind
    BY DEF Settled, NoTransfer, Stuck
  <2> QED
    BY <2>1, <2>2 DEF DataInv, Lines, Settled, Calm, Fresh
<1>2. Stream'
  <2> SUFFICES ASSUME place' = "data" PROVE Stream'
    BY DEF Stream
  <2>1. CASE Settled'
    <3>1. call' \in Requests
      BY DEF Flow
    <3>2. call'.op \in {"read", "write"}
      BY <3>1, RequestAssumption DEF Transfer
    <3> QED
      BY <2>1, <3>2 DEF Stream, Settled
  <2>2. CASE place = "data" /\ UNCHANGED <<call, transfer>>
    BY <2>2 DEF DataInv, Stream, Settled, StoredBefore
  <2> QED
    BY <2>1, <2>2
<1>3. Progress'
  BY DEF Progress
<1>4. Pending'
  BY DEF DataInv, Pending, NoTransfer, Stuck
<1> QED
  BY <1>1, <1>2, <1>3, <1>4 DEF DataInv

LEMMA InterruptsKeep ==
    ASSUME TypeOK, Flow, DataInv, Flow', HandleInterrupts
    PROVE  DataInv'
<1>1. /\ flags' = {}
      /\ transfer' = transfer \/ transfer' = NoTransfer \/ transfer' = Stuck
      /\ UNCHANGED <<card, disk, place, moved, call, doubtful>>
      /\ dev'.cardRCA = dev.cardRCA /\ dev'.blockSize = dev.blockSize
      /\ \/ phase' = "decide" /\ ~dev'.lastCmdSuccess
         \/ phase' \in {"prefix", "command"}
      /\ phase = "interrupts"
  BY DEF HandleInterrupts, ResetDat, Stuck, Stay, TypeOK, Members
<1>2. Lines'
  BY <1>1 DEF DataInv, Lines, Settled, NoTransfer, Stuck, Calm, Fresh
<1>3. Stream'
  <2> SUFFICES ASSUME place' = "data" PROVE Stream'
    BY DEF Stream
  <2>1. CASE transfer' = transfer
    BY <1>1, <2>1 DEF DataInv, Stream, Settled, StoredBefore
  <2>2. CASE transfer' = NoTransfer \/ transfer' = Stuck
    <3>1. call' \in Requests
      BY DEF Flow
    <3>2. call'.op \in {"read", "write"}
      BY <3>1, RequestAssumption DEF Transfer
    <3> QED
      BY <2>2, <3>2 DEF Stream, Settled, NoTransfer, Stuck
  <2> QED
    BY <1>1, <2>1, <2>2
<1>4. Progress'
  BY <1>1 DEF Progress
<1>5. Pending'
  BY <1>1 DEF DataInv, Pending, NoTransfer, Stuck
<1> QED
  BY <1>2, <1>3, <1>4, <1>5 DEF DataInv

LEMMA NothingStartsKeeps ==
    ASSUME TypeOK, Inv, Flow, DataInv, IssueCommandInt, NothingStarts
    PROVE  DataInv'
<1>1. /\ flags' = flags \/ flags' = flags \ Errors
      /\ UNCHANGED <<transfer, disk, place, moved, call, doubtful>>
      /\ phase \in {"prefix", "command"}
  BY CommandFrame DEF NothingStarts, Stay
<1>2. dev'.cardRCA = dev.cardRCA /\ dev'.blockSize = dev.blockSize
  BY IssueKeeps DEF IssueCommand, Keeps, Kept
<1>3. card' = card \/ place \in Calm
  BY DEF NothingStarts
<1>4. \/ phase' = "decide" /\ ~dev'.lastCmdSuccess
      \/ phase = "prefix" /\ phase' = "command" /\ flags \cap Errors = {}
      \/ /\ phase = "command" /\ phase' = "decide"
         /\ place \notin LinePlaces \cup BusyPlaces
         /\ place = "status" => dev'.lastR0 = card
  BY DEF NothingStarts
<1>5. Settled' <=> Settled
  BY <1>1 DEF Settled
<1>6. Lines'
  BY <1>1, <1>2, <1>3, <1>4, <1>5 DEF DataInv, Lines, Calm, Fresh, LinePlaces, BusyPlaces
<1>7. Stream'
  BY <1>1 DEF DataInv, Stream, Settled, StoredBefore
<1>8. Progress'
  <2>1. phase = "prefix" => place \in {"inquiry", "ACMD41", "SCR", "ACMD6"}
    BY DEF Flow, AppPlaces
  <2>2. CASE phase' = "command"
    <3>1. place \in LinePlaces => flags \cap {"transferComplete", "readReady", "writeReady"} = {}
      BY <1>4, <2>1, <2>2 DEF DataInv, Lines, Fresh, LinePlaces
    <3>2. place # "data"
      BY <1>4, <2>1, <2>2
    <3> QED
      BY <1>1, <2>2, <3>1, <3>2 DEF Progress
  <2>3. CASE phase' = "decide"
    BY <1>1, <1>4, <2>1, <2>3 DEF Progress, LinePlaces
  <2> QED
    BY <1>4, <2>2, <2>3
<1>9. Pending'
  BY <1>1 DEF DataInv, Pending
<1> QED
  BY <1>6, <1>7, <1>8, <1>9 DEF DataInv

(* What the controller starts: the end of busy, the register, *)
LEMMA StartsBusy ==
    ASSUME NEW c, IsBusy(c), Start(c)
    PROVE  /\ transfer'.kind = "busy"
           /\ transfer'.left = 0
           /\ transfer'.fifo = Empty
BY DEF Start, Started, IsBusy, NoTransfer

LEMMA StartsRegister ==
    ASSUME Start("SEND_SCR")
    PROVE  /\ transfer'.kind = "register"
           /\ transfer'.left = 1
           /\ transfer'.fifo = Empty
BY DEF Start, Started, NoTransfer

(* or the blocks of the call, whatever the unit of the address. *)
LEMMA StartsCall ==
    ASSUME TypeOK, Inv, Flow, place = "data", phase = "command", Start(Command)
    PROVE  /\ transfer'.kind = call.op
           /\ transfer'.block = call.block
           /\ transfer'.left = call.count
           /\ transfer'.fifo = Empty
<1>1. /\ call.op \in {"read", "write"}
      /\ call.block \in Nat /\ call.count \in Nat
      /\ call.block + call.count <= NumBlocks
  BY CallType DEF Flow
<1>2. dev.cardSupportsSDHC = HighCapacity /\ dev.blocksToTransfer = call.count
  BY DEF Inv, UnitKnown, Assigned, Flow
<1>3. (IF HighCapacity THEN Address ELSE Address \div SD_BLOCK_SIZE) = call.block
  BY <1>1, <1>2 DEF Address, SD_BLOCK_SIZE
<1>4. Command = IF call.op = "write" THEN "WRITE" ELSE "READ"
  BY DEF Command
<1>5. CASE call.op = "write"
  <2>1. transfer' = [kind |-> "write", block |-> call.block, left |-> call.count, fifo |-> Empty]
    BY <1>1, <1>2, <1>3, <1>4, <1>5 DEF Start, Started
  <2> QED
    BY <1>5, <2>1
<1>6. CASE call.op = "read"
  <2>1. transfer' = [kind |-> "read", block |-> call.block, left |-> call.count, fifo |-> Empty]
    BY <1>1, <1>2, <1>3, <1>4, <1>6 DEF Start, Started
  <2> QED
    BY <1>6, <2>1
<1> QED
  BY <1>1, <1>5, <1>6

LEMMA LinesStartKeeps ==
    ASSUME TypeOK, Inv, Flow, DataInv, IssueCommandInt, LinesStart
    PROVE  DataInv'
<1>1. /\ flags' \subseteq flags
      /\ UNCHANGED <<disk, place, call, doubtful>>
  BY CommandFrame DEF Stay
<1>2. /\ dev'.cardRCA = dev.cardRCA /\ dev'.blockSize = dev.blockSize
      /\ dev'.blocksToTransfer = dev.blocksToTransfer
  BY IssueKeeps DEF IssueCommand, Keeps, Kept
<1>3. /\ phase = "command"
      /\ place \in LinePlaces \cup BusyPlaces
      /\ place # "stop" => transfer.kind = "none"
      /\ card' \in IF place \in LinePlaces THEN {"data", "rcv"} ELSE {"tran"}
      /\ \/ Start(Command)
         \/ transfer' = [NoTransfer EXCEPT !.kind = "stuck"]
  BY DEF LinesStart
<1>4. \/ phase' = "decide" /\ ~dev'.lastCmdSuccess
      \/ /\ Start(Command) /\ flags \cap Errors = {}
         /\ place \in LinePlaces => phase' = "data" /\ moved' = <<>>
         /\ place \in BusyPlaces => phase' = "complete"
  BY DEF LinesStart
<1>5. /\ IsBusy(Command) <=> place \in BusyPlaces
      /\ place = "SCR" => Command = "SEND_SCR"
  BY <1>3, CommandIs DEF Command, CommandAt
(* What is on the lines afterwards. *)
<1>6. transfer'.kind = "stuck" =>
          transfer'.fifo = Empty /\ transfer'.left = 0
  <2>1. CASE transfer' = [NoTransfer EXCEPT !.kind = "stuck"]
    BY <2>1 DEF NoTransfer
  <2>2. CASE Start(Command)
    BY <2>2, <1>3, <1>5, StartsBusy, StartsRegister, StartsCall, CallType
      DEF LinePlaces, BusyPlaces, Flow
  <2> QED
    BY <1>3, <2>1, <2>2
<1>7. \/ transfer'.kind = "stuck"
      \/ /\ place \in BusyPlaces
         /\ transfer'.kind = "busy" /\ transfer'.left = 0 /\ transfer'.fifo = Empty
      \/ /\ place = "SCR"
         /\ transfer'.kind = "register" /\ transfer'.left = 1 /\ transfer'.fifo = Empty
      \/ /\ place = "data"
         /\ transfer'.kind = call.op /\ transfer'.block = call.block
         /\ transfer'.left = call.count /\ transfer'.fifo = Empty
  <2>1. CASE transfer' = [NoTransfer EXCEPT !.kind = "stuck"]
    BY <2>1 DEF NoTransfer
  <2>2. CASE Start(Command)
    BY <2>2, <1>3, <1>5, StartsBusy, StartsRegister, StartsCall DEF LinePlaces, BusyPlaces
  <2> QED
    BY <1>3, <2>1, <2>2
<1>8. place \in LinePlaces /\ phase' = "data" => transfer'.kind = Expected
  BY <1>4, <1>3, <1>5, StartsRegister, StartsCall DEF Expected, LinePlaces
<1>9. place \in LinePlaces /\ phase' = "data" =>
          flags \cap {"readReady", "writeReady"} = {} /\ flags \cap Errors = {}
  <2>1. place \in LinePlaces => transfer.kind = "none"
    BY <1>3 DEF LinePlaces
  <2>2. place \in LinePlaces /\ flags \cap Errors = {} =>
            /\ "readReady" \in flags => transfer.kind \in {"read", "register"}
            /\ "writeReady" \in flags => transfer.kind = "write"
    BY <1>3 DEF DataInv, Progress
  <2> QED
    BY <1>4, <2>1, <2>2
<1>10. Lines'
  <2>1. transfer'.kind = "busy" => place \in BusyPlaces
    BY <1>7, <1>3, CallType DEF LinePlaces, BusyPlaces, Flow
  <2>2. place = "CMD7" => dev.blockSize = 0
    BY DEF Flow, ResetPlaces
  <2>3. place \in Fresh => "transferComplete" \notin flags
    BY <1>3 DEF DataInv, Lines
  <2>4. card' = "tran" => transfer'.kind \in {"stuck", "busy"}
    BY <1>3, <1>7 DEF LinePlaces
  <2> QED
    BY <1>1, <1>2, <1>3, <1>4, <2>1, <2>2, <2>3, <2>4
      DEF Lines, Settled, Calm, Fresh, LinePlaces, BusyPlaces
<1>11. Stream'
  <2> SUFFICES ASSUME place = "data" PROVE Stream'
    BY <1>1 DEF Stream
  <2>1. call.op \in {"read", "write"} /\ call.block \in Nat /\ call.count \in Nat
    BY CallType DEF Flow
  <2>2. CASE transfer'.kind = "stuck"
    BY <1>1, <2>1, <2>2 DEF Stream, Settled
  <2>3. CASE /\ transfer'.kind = call.op /\ transfer'.block = call.block
             /\ transfer'.left = call.count /\ transfer'.fifo = Empty
    <3>1. StoredBefore(transfer.block)'
      BY <1>1, <2>1, <2>3 DEF StoredBefore
    <3> QED
      BY <1>1, <2>1, <2>3, <3>1 DEF Stream, Settled
  <2> QED
    BY <1>7, <2>2, <2>3 DEF BusyPlaces
<1>12. Progress'
  <2>1. CASE phase' = "decide" /\ ~dev'.lastCmdSuccess
    BY <2>1 DEF Progress
  <2>2. CASE place \in BusyPlaces /\ phase' = "complete"
    BY <1>1, <2>2 DEF Progress, BusyPlaces, LinePlaces
  <2>3. CASE place \in LinePlaces /\ phase' = "data"
    <3>1. moved' = <<>> /\ Len(moved') = 0
      BY <1>4, <2>3
    <3>2. dev.blocksToTransfer \in Nat \ {0}
      BY <2>3, CallType DEF Flow, LinePlaces
    <3>3. transfer'.kind = Expected /\ Expected' = Expected
      BY <1>1, <1>8, <2>3 DEF Expected
    <3>4. transfer'.left = dev.blocksToTransfer /\ transfer'.fifo = Empty
      BY <2>3, <3>3, <1>7, CallType DEF Expected, Flow, LinePlaces, BusyPlaces
    <3>5. InBuffer' = 0
      BY <3>4 DEF InBuffer
    <3>6. place = "data" /\ "transferComplete" \in flags' => Done'
      <4>1. place = "data" /\ "transferComplete" \in flags' => Done
        BY <1>1, <1>3 DEF DataInv, Progress
      <4> QED
        BY <1>1, <4>1 DEF Done, StoredBefore
    <3>7. Faithful'
      BY <3>1 DEF Faithful
    <3> QED
      BY <1>1, <1>2, <1>9, <2>3, <3>1, <3>2, <3>3, <3>4, <3>5, <3>6, <3>7 DEF Progress
  <2> QED
    BY <1>3, <1>4, <2>1, <2>2, <2>3
<1>13. Pending'
  <2>1. transfer'.fifo = Empty
    BY <1>6, <1>7
  <2>2. transfer'.kind \in {"read", "write"} => transfer'.block + transfer'.left <= NumBlocks
    BY <1>7, CallType DEF Flow, BusyPlaces
  <2> QED
    BY <2>1, <2>2 DEF Pending
<1> QED
  BY <1>10, <1>11, <1>12, <1>13 DEF DataInv

(* A wait that fails leaves everything to the caller. *)
LEMMA WaitFailsKeeps ==
    ASSUME TypeOK, Inv, DataInv, BlockFails \/ CompleteFails
    PROVE  DataInv'
<1>1. /\ UNCHANGED <<transfer, card, disk, place, call, doubtful>>
      /\ phase' = "decide" /\ ~dev'.lastCmdSuccess
  BY DEF BlockFails, CompleteFails, WaitFails, Failing, Stay, TypeOK, Members
<1>2. dev'.cardRCA = dev.cardRCA /\ dev'.blockSize = dev.blockSize
  BY IssueKeeps DEF IssueCommand, Keeps, Kept
<1>3. Lines'
  BY <1>1, <1>2 DEF DataInv, Lines, Settled, Calm, Fresh
<1>4. Stream'
  BY <1>1 DEF DataInv, Stream, Settled, StoredBefore
<1>5. Progress'
  BY <1>1 DEF Progress
<1>6. Pending'
  BY <1>1 DEF DataInv, Pending
<1> QED
  BY <1>3, <1>4, <1>5, <1>6 DEF DataInv

(* A transfer that is complete has moved everything. *)
LEMMA CompleteKeeps ==
    ASSUME TypeOK, Inv, Flow, DataInv, Complete
    PROVE  DataInv'
<1>1. /\ UNCHANGED <<transfer, card, disk, place, moved, call, doubtful>>
      /\ phase = "complete" /\ phase' = "decide"
      /\ "transferComplete" \in flags
  BY DEF Complete, Stay
<1>2. dev'.cardRCA = dev.cardRCA /\ dev'.blockSize = dev.blockSize
  BY IssueKeeps DEF IssueCommand, Keeps, Kept
<1>3. place \in LinePlaces \cup BusyPlaces
  BY <1>1 DEF Flow
<1>4. Lines'
  BY <1>1, <1>2, <1>3 DEF DataInv, Lines, Settled, Calm, Fresh, LinePlaces, BusyPlaces
<1>5. Stream'
  BY <1>1 DEF DataInv, Stream, Settled, StoredBefore
<1>6. Progress'
  <2>1. place = "data" => Done /\ Faithful /\ Len(moved) = call.count
    BY <1>1 DEF DataInv, Progress, LinePlaces, Flow
  <2>2. place = "data" => Done' /\ Faithful' /\ Len(moved') = call'.count
    BY <1>1, <2>1 DEF Done, Faithful, StoredBefore
  <2> QED
    BY <1>1, <2>2 DEF Progress
<1>7. Pending'
  BY <1>1 DEF DataInv, Pending
<1> QED
  BY <1>4, <1>5, <1>6, <1>7 DEF DataInv

(* When a block may be moved, the transfer is the expected one. *)
LEMMA ReadyToMove ==
    ASSUME TypeOK, Flow, DataInv, MoveBlock
    PROVE  /\ phase = "data" /\ place \in LinePlaces
           /\ Command = "WRITE" <=> (place = "data" /\ call.op = "write")
           /\ transfer.kind = Expected
           /\ transfer.left > 0
           /\ Command = "WRITE" => transfer.fifo = Empty
           /\ Command # "WRITE" => transfer.fifo # Empty /\ transfer.kind # "write"
           /\ transfer.left - InBuffer = dev.blocksToTransfer - Len(moved)
           /\ Len(moved) < dev.blocksToTransfer
<1>1. phase = "data" /\ Ready \in flags /\ flags \cap Errors = {}
  BY DEF MoveBlock
<1>2. place \in LinePlaces
  BY <1>1 DEF Flow
<1>3. Command = "WRITE" <=> (place = "data" /\ call.op = "write")
  BY <1>1, <1>2 DEF Command, CommandAt, LinePlaces
<1>4. transfer.kind = Expected
  BY <1>1 DEF DataInv, Progress
<1>5. /\ transfer.left - InBuffer = dev.blocksToTransfer - Len(moved)
      /\ Len(moved) < dev.blocksToTransfer
  BY <1>1, <1>4 DEF DataInv, Progress
<1>6. CASE Command = "WRITE"
  <2>1. transfer.fifo = Empty /\ transfer.left > 0
    BY <1>1, <1>2, <1>6 DEF Ready, DataInv, Progress
  <2> QED
    BY <1>1, <1>2, <1>3, <1>4, <1>5, <1>6, <2>1
<1>7. CASE Command # "WRITE"
  <2>1. transfer.fifo # Empty /\ transfer.kind \in {"read", "register"}
    BY <1>1, <1>2, <1>7 DEF Ready, DataInv, Progress
  <2>2. transfer.left > 0
    BY <2>1 DEF DataInv, Pending
  <2> QED
    BY <1>1, <1>2, <1>3, <1>4, <1>5, <1>7, <2>1, <2>2
<1> QED
  BY <1>6, <1>7

(* A block goes into the buffer of a write, *)
LEMMA MoveOutKeeps ==
    ASSUME TypeOK, Inv, Flow, DataInv, MoveBlock, Command = "WRITE"
    PROVE  DataInv'
<1>1. /\ phase = "data" /\ place = "data" /\ call.op = "write" /\ transfer.kind = "write"
      /\ transfer.left > 0 /\ transfer.fifo = Empty
      /\ transfer.left - InBuffer = dev.blocksToTransfer - Len(moved)
      /\ Len(moved) < dev.blocksToTransfer
  BY ReadyToMove DEF Expected
<1>2. call \in Requests /\ answer = "pending"
  BY <1>1 DEF Flow
<1>3. /\ call.value \in Values /\ call.value # Empty
      /\ call.block \in Nat /\ call.count \in Nat
  BY <1>2, CallType, CardAssumption
<1>4. /\ transfer \in Transfers /\ moved \in Seq(Values \cup {"register"})
      /\ dev.blocksToTransfer \in Nat
  BY DEF TypeOK, SDTypeOK, Members
<1>5. /\ transfer' = [transfer EXCEPT !.fifo = call.value]
      /\ moved' = Append(moved, call.value)
      /\ flags' = flags \ {"writeReady"} /\ flags \cap Errors = {}
      /\ UNCHANGED <<card, disk, dev, place, call, answer, doubtful>>
      /\ phase' = IF Len(moved') = dev.blocksToTransfer THEN "complete" ELSE "data"
  BY DEF MoveBlock, Ready, Stay
<1>6. /\ transfer'.kind = "write" /\ transfer'.block = transfer.block
      /\ transfer'.left = transfer.left /\ transfer'.fifo = call.value
  BY <1>1, <1>4, <1>5 DEF Transfers
<1>7. Len(moved') = Len(moved) + 1
  BY <1>3, <1>4, <1>5
<1>8. transfer'.left - InBuffer' = dev.blocksToTransfer - Len(moved')
  BY <1>1, <1>3, <1>4, <1>6, <1>7 DEF InBuffer, Transfers
<1>9. Lines'
  BY <1>1, <1>5, <1>6 DEF DataInv, Lines, Settled, Calm, Fresh
<1>10. Stream'
  BY <1>1, <1>5, <1>6 DEF DataInv, Stream, Settled, StoredBefore
<1>11. Progress'
  <2>1. "readReady" \notin flags'
    BY <1>1, <1>5 DEF DataInv, Progress, LinePlaces
  <2>2. "transferComplete" \in flags' => Done'
    BY <1>1, <1>5 DEF DataInv, Progress, Done, StoredBefore
  <2>3. Faithful'
    BY <1>1, <1>5 DEF Faithful
  <2>4. phase' = "data" => Len(moved') < dev'.blocksToTransfer
    BY <1>1, <1>4, <1>5, <1>7
  <2>5. Expected' = "write"
    BY <1>1, <1>5 DEF Expected
  <2>6. phase' = "complete" => Len(moved') = dev'.blocksToTransfer /\ transfer'.left - InBuffer' = 0
    BY <1>4, <1>5, <1>7, <1>8
  <2>7. phase' \in {"data", "complete"}
    BY <1>5
  <2> QED
    BY <1>1, <1>5, <1>6, <1>8, <2>1, <2>2, <2>3, <2>4, <2>5, <2>6, <2>7 DEF Progress
<1>12. Pending'
  <2>1. transfer.block + transfer.left = call.block + call.count /\ call.block <= transfer.block
    BY <1>1 DEF DataInv, Stream
  <2>2. transfer.block \in BlocksOf(call)
    BY <1>1, <1>3, <1>4, <2>1 DEF BlocksOf, Transfers
  <2>3. <<transfer.block, call.value>> \in doubtful
    BY <1>1, <1>2, <2>2 DEF Flow
  <2> QED
    BY <1>1, <1>5, <1>6, <2>3 DEF DataInv, Pending
<1> QED
  BY <1>9, <1>10, <1>11, <1>12 DEF DataInv

(* The block of the card a transfer is at, from what is left of it. *)
LEMMA BlockOfIndex ==
    ASSUME NEW block \in Nat, NEW left \in Nat, NEW first \in Nat, NEW count \in Nat, NEW n \in Nat,
           block + left = first + count, left = count - n
    PROVE  block = first + n
OBVIOUS

(* or out of the buffer of a read. *)
LEMMA MoveInKeeps ==
    ASSUME TypeOK, Inv, Flow, DataInv, MoveBlock, Command # "WRITE"
    PROVE  DataInv'
<1>1. /\ phase = "data" /\ place \in LinePlaces
      /\ transfer.kind = Expected /\ transfer.kind # "write"
      /\ transfer.left > 0 /\ transfer.fifo # Empty
      /\ transfer.left - InBuffer = dev.blocksToTransfer - Len(moved)
      /\ Len(moved) < dev.blocksToTransfer
  BY ReadyToMove
<1>2. /\ transfer \in Transfers /\ moved \in Seq(Values \cup {"register"})
      /\ dev.blocksToTransfer \in Nat
      /\ call.block \in Nat /\ call.count \in Nat
  BY CallType DEF TypeOK, SDTypeOK, Members
<1>3. /\ moved' = Append(moved, transfer.fifo)
      /\ transfer' = [transfer EXCEPT !.block = @ + 1, !.left = @ - 1, !.fifo = Empty]
      /\ flags' = flags \ {"readReady"} /\ flags \cap Errors = {}
      /\ UNCHANGED <<card, disk, dev, place, call, answer, doubtful>>
      /\ phase' = IF Len(moved') = dev.blocksToTransfer THEN "complete" ELSE "data"
  BY DEF MoveBlock, Ready, Stay
<1>4. /\ transfer'.kind = transfer.kind /\ transfer'.block = transfer.block + 1
      /\ transfer'.left = transfer.left - 1 /\ transfer'.fifo = Empty
  BY <1>1, <1>3, Advances
<1>5. transfer.fifo \in Values \cup {"register"}
  BY <1>1, <1>2 DEF Transfers
<1>6. Len(moved') = Len(moved) + 1 /\ Len(moved) \in Nat
  BY <1>2, <1>3, <1>5
<1>7. InBuffer = 0 /\ InBuffer' = 0
  BY <1>1, <1>4 DEF InBuffer
<1>8. /\ transfer.left = dev.blocksToTransfer - Len(moved)
      /\ transfer'.left - InBuffer' = dev.blocksToTransfer - Len(moved')
  BY <1>1, <1>2, <1>4, <1>6, <1>7 DEF Transfers
<1>9. Lines'
  BY <1>1, <1>3, <1>4 DEF DataInv, Lines, Settled, Calm, Fresh
<1>10. Stream'
  <2> SUFFICES ASSUME place = "data" PROVE Stream'
    BY <1>3 DEF Stream
  <2>1. transfer.kind = call.op
    BY <1>1 DEF Expected
  <2>2. /\ transfer.block + transfer.left = call.block + call.count
        /\ call.block <= transfer.block
    BY <2>1 DEF DataInv, Stream
  <2>3. /\ transfer'.block + transfer'.left = call.block + call.count
        /\ call.block <= transfer'.block
    BY <1>2, <1>4, <2>2 DEF Transfers
  <2> QED
    BY <1>1, <1>3, <1>4, <2>1, <2>3 DEF Stream, Settled
<1>11. Progress'
  <2>1. "readReady" \notin flags' /\ "writeReady" \notin flags'
    BY <1>1, <1>3 DEF DataInv, Progress
  <2>2. place = "data" /\ "transferComplete" \in flags' => Done'
    BY <1>1, <1>3 DEF DataInv, Progress, Done, StoredBefore
  <2>3. place = "data" => Faithful'
    <3> SUFFICES ASSUME place = "data", call.op = "read", NEW i \in 1 .. Len(moved')
                 PROVE  moved'[i] = disk[call.block + i - 1]
      BY <1>3 DEF Faithful
    <3>1. CASE i <= Len(moved)
      <4>1. moved'[i] = moved[i]
        BY <1>2, <1>3, <1>5, <3>1
      <4>2. Faithful
        BY <1>1 DEF DataInv, Progress
      <4> QED
        BY <1>6, <3>1, <4>1, <4>2 DEF Faithful
    <3>2. CASE i = Len(moved) + 1
      <4>1. moved'[i] = transfer.fifo
        BY <1>2, <1>3, <1>5, <3>2
      <4>2. transfer.kind = "read"
        BY <1>1 DEF Expected
      <4>3. transfer.fifo = disk[transfer.block]
        BY <1>1, <4>2 DEF DataInv, Progress
      <4>4. transfer.block + transfer.left = call.block + call.count
        BY <4>2 DEF DataInv, Stream
      <4>5. dev.blocksToTransfer = call.count
        BY DEF Flow
      <4>6. transfer.block = call.block + i - 1
        <5>1. transfer.block \in Nat /\ transfer.left \in Nat
          BY <1>2 DEF Transfers
        <5>2. transfer.left = call.count - Len(moved)
          BY <1>8, <4>5
        <5>3. call.block \in Nat /\ call.count \in Nat /\ Len(moved) \in Nat
          BY <1>2, <1>6
        <5>4. transfer.block = call.block + Len(moved)
          BY <4>4, <5>1, <5>2, <5>3, BlockOfIndex, SMTT(60)
        <5> QED
          BY <3>2, <5>3, <5>4
      <4> QED
        BY <4>1, <4>3, <4>6
    <3> QED
      BY <1>6, <3>1, <3>2
  <2>4. phase' = "data" => Len(moved') < dev'.blocksToTransfer
    BY <1>1, <1>2, <1>3, <1>6
  <2>5. Expected' = Expected
    BY <1>3 DEF Expected
  <2>6. phase' = "complete" => Len(moved') = dev'.blocksToTransfer /\ transfer'.left - InBuffer' = 0
    BY <1>2, <1>3, <1>6, <1>8
  <2>7. phase' \in {"data", "complete"}
    BY <1>3
  <2> QED
    BY <1>1, <1>3, <1>4, <1>8, <2>1, <2>2, <2>3, <2>4, <2>5, <2>6, <2>7 DEF Progress
<1>12. Pending'
  <2>1. transfer'.block + transfer'.left = transfer.block + transfer.left
    BY <1>2, <1>4 DEF Transfers
  <2> QED
    BY <1>4, <2>1 DEF DataInv, Pending
<1> QED
  BY <1>9, <1>10, <1>11, <1>12 DEF DataInv

LEMMA MoveKeeps ==
    ASSUME TypeOK, Inv, Flow, DataInv, MoveBlock
    PROVE  DataInv'
BY MoveOutKeeps, MoveInKeeps

(* Inside issueCommand. *)
LEMMA IssueData ==
    ASSUME TypeOK, Inv, Flow, DataInv, Flow', IssueCommand
    PROVE  DataInv'
<1>1. CASE IssueCommandInt
  BY <1>1, CommandOutcome, NothingStartsKeeps, LinesStartKeeps
<1> QED
  BY <1>1, InterruptsKeep, MoveKeeps, WaitFailsKeeps, CompleteKeeps DEF IssueCommand

(* The driver gives the call up, or starts a reset. *)
LEMMA ReturnKeeps ==
    ASSUME TypeOK, Inv, Flow, DataInv, Flow',
           \/ place' = "idle" /\ phase' = "idle"
           \/ place' = "controller" /\ phase' = "interrupts",
           UNCHANGED <<card, disk>>,
           transfer' = transfer \/ transfer' = NoTransfer \/ transfer' = Stuck,
           transfer'.kind = "busy" => dev'.cardRCA # "assigned" \/ dev'.blockSize = 0,
           doubtful' = doubtful
    PROVE  DataInv'
BY DecisionKeeps DEF Calm, Fresh

(* What a failed reset leaves behind. *)
LEMMA ResetFailedKeeps ==
    ASSUME TypeOK, Inv, Flow, DataInv, Flow', NEW code, ResetFailed(code),
           UNCHANGED <<card, disk>>,
           transfer' = transfer \/ transfer' = NoTransfer \/ transfer' = Stuck,
           transfer'.kind = "busy" => dev'.cardRCA # "assigned" \/ dev'.blockSize = 0
    PROVE  DataInv'
<1>1. /\ \/ place' = "idle" /\ phase' = "idle"
         \/ place' = "controller" /\ phase' = "interrupts"
      /\ doubtful' = doubtful
  BY DEF ResetFailed, Return, StartReset, Issue
<1> QED
  BY <1>1, ReturnKeeps

(* The lines are settled when the reset goes on. *)
LEMMA ProceedKeeps ==
    ASSUME TypeOK, Inv, Flow, DataInv, Flow', NEW p, Proceed(p), p # "data",
           UNCHANGED <<card, disk>>,
           transfer' = transfer \/ transfer' = NoTransfer \/ transfer' = Stuck,
           Settled'
    PROVE  DataInv'
<1>1. place' = p /\ phase' = "interrupts" /\ doubtful' = doubtful
  BY DEF Proceed, Issue, Stay
<1>2. transfer'.kind # "busy"
  BY DEF Settled
<1> QED
  BY <1>1, <1>2, DecisionKeeps

LEMMA ResetData ==
    ASSUME TypeOK, Inv, Flow, DataInv, Flow', CardReset
    PROVE  DataInv'
<1>1. CASE ResetController
  <2>1. transfer' = NoTransfer /\ Settled' /\ UNCHANGED <<card, disk>>
    BY <1>1 DEF ResetController, Settled, NoTransfer
  <2>2. transfer'.kind # "busy"
    BY <2>1 DEF NoTransfer
  <2> QED
    BY <1>1, <2>1, <2>2, ResetFailedKeeps, ProceedKeeps DEF ResetController
<1>2. place \in Calm \/ (place \in Fresh /\ phase = "decide" /\ OK) => Settled
  BY DEF DataInv, Lines, OK
<1>3. ASSUME UNCHANGED <<card, disk, transfer>>, Settled,
             (\E code : ResetFailed(code)) \/ (\E p : p # "data" /\ Proceed(p))
      PROVE  DataInv'
  <2>1. Settled' /\ transfer'.kind # "busy"
    BY <1>3 DEF Settled
  <2> QED
    BY <1>3, <2>1, ResetFailedKeeps, ProceedKeeps
<1>a. CASE AfterACMD41 /\ phase' = "inhibited" /\ place' = place /\ Stay
  <2>1. UNCHANGED <<card, disk, transfer, flags, moved, doubtful, call>> /\ place = "ACMD41"
    BY <1>a DEF AfterACMD41, Decide, Stay
  <2>2. Settled /\ Settled'
    BY <1>2, <2>1 DEF Calm, Settled
  <2> QED
    BY <1>a, <2>1, <2>2 DEF DataInv, Lines, Stream, Progress, Pending, Settled, Calm, Fresh,
                            LinePlaces
<1>4. CASE \/ AfterSimple \/ AfterCMD8 \/ AfterCMD5 \/ AfterCMD3 \/ AfterCMD16
           \/ AfterACMD41 /\ phase' # "inhibited"
  <2>1. UNCHANGED <<card, disk, transfer>> /\ place \in Calm
    BY <1>4 DEF AfterSimple, AfterCMD8, AfterCMD5, AfterACMD41, AfterCMD3, AfterCMD16, Decide,
                NextPlace, Calm, sdVars
  <2>2. (\E code : ResetFailed(code)) \/ (\E p : p # "data" /\ Proceed(p))
    <3>1. CASE AfterSimple
      BY <3>1 DEF AfterSimple, NextPlace
    <3>2. CASE AfterCMD8
      BY <3>2 DEF AfterCMD8
    <3>3. CASE AfterCMD5
      BY <3>3 DEF AfterCMD5
    <3>4. CASE AfterCMD3 \/ AfterCMD16
      BY <3>4 DEF AfterCMD3, AfterCMD16, ReadSCR
    <3>5. CASE AfterACMD41 /\ phase' # "inhibited"
      BY <3>5 DEF AfterACMD41, SwitchClockRate
    <3> QED
      BY <1>4, <3>1, <3>2, <3>3, <3>4, <3>5
  <2> QED
    BY <1>2, <1>3, <2>1, <2>2
<1>5. CASE AfterCMD7
  <2>1. UNCHANGED <<card, disk, transfer>> /\ place = "CMD7" /\ phase = "decide"
    BY <1>5 DEF AfterCMD7, Decide, sdVars
  <2>2. CASE OK
    <3>1. (\E code : ResetFailed(code)) \/ (\E p : p # "data" /\ Proceed(p))
      BY <1>5 DEF AfterCMD7, ReadSCR
    <3> QED
      BY <1>2, <1>3, <2>1, <2>2, <3>1 DEF Fresh
  <2>3. CASE ~OK
    <3>1. ResetFailed(1) /\ dev' = dev
      BY <1>5, <2>3 DEF AfterCMD7
    <3>2. transfer'.kind = "busy" => dev'.cardRCA # "assigned" \/ dev'.blockSize = 0
      BY <2>1, <3>1 DEF DataInv, Lines
    <3> QED
      BY <2>1, <3>1, <3>2, ResetFailedKeeps
  <2> QED
    BY <2>2, <2>3
<1>6. CASE AfterSCR
  <2>1. UNCHANGED <<card, disk, transfer>> /\ place = "SCR" /\ phase = "decide"
    BY <1>6 DEF AfterSCR, Decide, sdVars
  <2>2. CASE OK
    <3>1. Proceed("ACMD6")
      BY <1>6, <2>2 DEF AfterSCR
    <3> QED
      BY <1>2, <1>3, <2>1, <2>2, <3>1 DEF Fresh
  <2>3. CASE ~OK
    <3>1. ResetFailed(2)
      BY <1>6, <2>3 DEF AfterSCR
    <3>2. dev.cardRCA = "assigned" /\ dev.blockSize = 8
      BY <2>1 DEF Inv, Addressed, Assigned, Flow
    <3>3. transfer'.kind # "busy"
      BY <2>1, <3>2 DEF DataInv, Lines
    <3> QED
      BY <2>1, <3>1, <3>3, ResetFailedKeeps
  <2> QED
    BY <2>2, <2>3
<1>7. CASE AfterACMD6
  <2>1. UNCHANGED <<card, disk, transfer>> /\ place = "ACMD6" /\ Settled
    BY <1>2, <1>7 DEF AfterACMD6, Decide, Calm
  <2>2. CASE Return("ok")
    <3>1. place' = "idle" /\ phase' = "idle"
      BY <2>2 DEF Return
    <3>2. transfer'.kind \notin {"busy", "write"}
      BY <2>1 DEF Settled
    <3> QED
      BY <2>1, <3>1, <3>2, DecisionKeeps DEF Calm, Fresh
  <2>3. CASE Proceed("status") \/ Proceed("recheck")
    BY <1>3, <2>1, <2>3
  <2> QED
    BY <1>7, <2>2, <2>3 DEF AfterACMD6, TypeOK
<1>8. CASE AfterACMD41 /\ phase' = "inhibited"
  <2>1. \A p : Issue(p) => phase' = "interrupts"
    BY DEF Issue
  <2>2. \A c : ResetFailed(c) => phase' \in {"interrupts", "idle"}
    BY DEF ResetFailed, Return, StartReset, Issue
  <2> QED
    BY <1>8, <1>a, <2>1, <2>2 DEF AfterACMD41, SwitchClockRate, Proceed
<1> QED
  BY <1>1, <1>4, <1>5, <1>6, <1>7, <1>8 DEF CardReset

(* A data command finds the lines settled, or what its earlier attempts left. *)
LEMMA DataModeData ==
    ASSUME TypeOK, Inv, Flow, DataInv, Flow', DataMode
    PROVE  DataInv'
<1>1. /\ UNCHANGED <<card, disk>>
      /\ transfer' = transfer \/ transfer' = NoTransfer \/ transfer' = Stuck
      /\ phase = "decide"
  BY DEF DataMode, AfterStatus, AfterSelect, AfterStop, AfterRecheck, AfterData, Decide, sdVars,
         ResetDat, Stuck
<1>2. GiveUp => DataInv'
  <2>1. ASSUME GiveUp PROVE dev'.cardRCA # "assigned"
    BY <2>1 DEF GiveUp, TypeOK, Members
  <2>2. ASSUME GiveUp PROVE place' = "idle" /\ phase' = "idle" /\ doubtful' = doubtful
    BY <2>2 DEF GiveUp, Return
  <2> QED
    BY <1>1, <2>1, <2>2, ReturnKeeps
<1>3. ASSUME DoDataCommand, Settled, transfer' = transfer PROVE DataInv'
  <2>1. CASE dev.blockSize = 0
    <3>1. place' = "idle" /\ phase' = "idle" /\ doubtful' = doubtful /\ dev'.blockSize = 0
      BY <1>3, <2>1 DEF DoDataCommand, Return, TypeOK, Members
    <3> QED
      BY <1>1, <3>1, ReturnKeeps
  <2>2. CASE dev.blockSize # 0
    <3>1. place' = "data" /\ phase' = "interrupts" /\ doubtful' = doubtful
      BY <1>3, <2>2 DEF DoDataCommand, Issue
    <3>2. Settled' /\ transfer'.kind # "busy"
      BY <1>3 DEF Settled
    <3> QED
      BY <1>1, <3>1, <3>2, DecisionKeeps
  <2> QED
    BY <2>1, <2>2
<1>4. place \in Calm \/ (place \in Fresh /\ OK) => Settled
  BY <1>1 DEF DataInv, Lines, OK
<1>5. ASSUME Settled, transfer' = transfer, NEW p, p # "data", Proceed(p) PROVE DataInv'
  <2>1. Settled'
    BY <1>5 DEF Settled
  <2> QED
    BY <1>1, <1>5, <2>1, ProceedKeeps
<1>6. CASE AfterStatus
  <2>1. place = "status" /\ transfer' = transfer
    BY <1>6 DEF AfterStatus, Decide, sdVars
  <2>2. /\ dev.cardRCA = "assigned"
        /\ transfer.kind = "busy" => dev.blockSize = 0
    BY <2>1 DEF Inv, EnsurePlaces, Assigned, DataInv, Lines
  <2>3. OK =>
          /\ dev.lastR0 = "tran" => Settled \/ transfer.kind = "busy"
          /\ dev.lastR0 = "stby" => Settled
    BY <1>1, <2>1 DEF DataInv, Lines, OK
  <2>4. CASE OK /\ dev.lastR0 = "tran"
    <3>1. DoDataCommand
      BY <1>6, <2>4 DEF AfterStatus
    <3>2. CASE dev.blockSize = 0
      <4>1. place' = "idle" /\ phase' = "idle" /\ doubtful' = doubtful /\ dev'.blockSize = 0
        BY <3>1, <3>2 DEF DoDataCommand, Return, TypeOK, Members
      <4> QED
        BY <1>1, <4>1, ReturnKeeps
    <3>3. CASE dev.blockSize # 0
      BY <1>3, <2>1, <2>2, <2>3, <2>4, <3>1, <3>3
    <3> QED
      BY <3>2, <3>3
  <2>5. CASE OK /\ dev.lastR0 = "stby"
    <3>1. Proceed("select")
      BY <1>6, <2>5 DEF AfterStatus
    <3> QED
      BY <1>5, <2>1, <2>3, <2>5, <3>1
  <2>6. CASE OK /\ dev.lastR0 = "data"
    <3>1. Proceed("stop")
      BY <1>6, <2>6 DEF AfterStatus
    <3>2. place' = "stop" /\ phase' = "interrupts" /\ doubtful' = doubtful
      BY <3>1 DEF Proceed, Issue, Stay
    <3> QED
      BY <1>1, <2>1, <3>2, DecisionKeeps DEF Calm, Fresh
  <2>7. CASE OK /\ dev.lastR0 \notin {"tran", "stby", "data"}
    <3>1. StartReset("retry") /\ UNCHANGED <<doubtful, dev>>
      BY <1>6, <2>7 DEF AfterStatus
    <3>2. place' = "controller" /\ phase' = "interrupts"
      BY <3>1 DEF StartReset, Issue
    <3> QED
      BY <1>1, <2>1, <2>2, <3>1, <3>2, ReturnKeeps
  <2>8. CASE ~OK
    BY <1>2, <1>6, <2>8 DEF AfterStatus
  <2> QED
    BY <2>4, <2>5, <2>6, <2>7, <2>8
<1>7. CASE AfterSelect
  <2>1. place = "select" /\ transfer' = transfer
    BY <1>7 DEF AfterSelect, Decide, sdVars
  <2>2. CASE OK
    BY <1>4, <1>5, <1>7, <2>1, <2>2 DEF AfterSelect, Fresh
  <2>3. CASE ~OK
    BY <1>2, <1>7, <2>3 DEF AfterSelect
  <2> QED
    BY <2>2, <2>3
<1>8. CASE AfterStop
  <2>1. CASE OK
    <3>1. (transfer' = NoTransfer \/ transfer' = Stuck) /\ Proceed("recheck")
      BY <1>8, <2>1 DEF AfterStop, ResetDat, Stuck
    <3>2. Settled'
      BY <3>1 DEF Settled, NoTransfer, Stuck
    <3> QED
      BY <1>1, <3>1, <3>2, ProceedKeeps
  <2>2. CASE ~OK
    BY <1>2, <1>8, <2>2 DEF AfterStop
  <2> QED
    BY <2>1, <2>2
<1>9. CASE AfterRecheck
  <2>1. place = "recheck" /\ transfer' = transfer
    BY <1>9 DEF AfterRecheck, Decide, sdVars
  <2> QED
    BY <1>2, <1>3, <1>4, <1>9, <2>1 DEF AfterRecheck, Calm
<1>10. CASE AfterData
  <2>1. place = "data" /\ transfer' = transfer
    BY <1>10 DEF AfterData, Decide, sdVars
  <2>2. CASE Issue("data") /\ UNCHANGED <<call, doubtful, dev>>
    <3>1. place' = "data" /\ phase' = "interrupts"
      BY <2>2 DEF Issue
    <3>2. transfer.kind = "busy" => dev.cardRCA # "assigned" \/ dev.blockSize = 0
      BY <2>1 DEF DataInv, Lines
    <3> QED
      BY <1>1, <2>1, <2>2, <3>1, <3>2, DecisionKeeps DEF Calm, Fresh
  <2>3. CASE OK
    <3>1. Return("ok") /\ dev' = dev
      BY <1>10, <2>3 DEF AfterData
    <3>2. place' = "idle" /\ phase' = "idle"
      BY <3>1 DEF Return
    <3>3. transfer.kind = "busy" => dev.cardRCA # "assigned" \/ dev.blockSize = 0
      BY <2>1 DEF DataInv, Lines
    <3>4. ASSUME transfer.kind = "write", transfer.fifo # Empty
          PROVE  disk[transfer.block] = transfer.fifo
      <4>1. call \in Requests
        BY <2>1 DEF Flow
      <4>2. call.op = "write"
        BY <2>1, <3>4 DEF DataInv, Stream, Settled
      <4>3. /\ transfer.block + transfer.left = call.block + call.count
            /\ call.block <= transfer.block
            /\ transfer.fifo = call.value
        BY <2>1, <3>4, <4>2 DEF DataInv, Stream
      <4>4. StoredBefore(call.block + call.count)
        BY <1>1, <2>1, <2>3, <4>2 DEF DataInv, Progress, Done, OK
      <4>5. transfer.left > 0
        BY <3>4 DEF DataInv, Pending
      <4>6. /\ call.block \in Nat /\ call.count \in Nat
            /\ transfer.block \in Nat /\ transfer.left \in Nat
        BY CallType DEF TypeOK, SDTypeOK, Transfers
      <4>7. transfer.block \in call.block .. call.block + call.count - 1
        BY <4>3, <4>5, <4>6
      <4> QED
        BY <4>3, <4>4, <4>6, <4>7 DEF StoredBefore
    <3> QED
      BY <1>1, <2>1, <3>1, <3>2, <3>3, <3>4, DecisionKeeps DEF Calm, Fresh
  <2> QED
    BY <1>2, <1>10, <2>2, <2>3 DEF AfterData
<1> QED
  BY <1>6, <1>7, <1>8, <1>9, <1>10 DEF DataMode

LEMMA BeginData ==
    ASSUME TypeOK, Inv, Flow, DataInv, Flow', BeginInit \/ Refuse \/ BeginTransfer
    PROVE  DataInv'
<1>1. /\ UNCHANGED <<card, disk, transfer, dev>>
      /\ place = "idle" /\ phase = "idle"
      /\ doubtful \subseteq doubtful'
  BY DEF BeginInit, Refuse, BeginTransfer, Begin, sdVars, Flow
<1>2. transfer.kind = "busy" => dev.cardRCA # "assigned" \/ dev.blockSize = 0
  BY <1>1 DEF DataInv, Lines
<1>3. /\ phase' \in {"interrupts", "idle"}
      /\ place' \in {"idle", "controller", "status"}
  BY <1>1 DEF BeginInit, Refuse, BeginTransfer, StartReset, Issue
<1> QED
  BY <1>1, <1>2, <1>3, DecisionKeeps DEF Calm, Fresh

-----------------------------------------------------------------------------
(* The hardware's steps                                                      *)

DriverStays == UNCHANGED <<dev, control, moved, doubtful>>

(* While something moves on the lines, the driver is not at a place that needs them free. *)
LEMMA MovingAway ==
    ASSUME DataInv, ~Settled
    PROVE  /\ place \notin Calm
           /\ place \in Fresh => phase \notin {"interrupts", "prefix", "command"}
           /\ place \in Fresh /\ phase \in {"data", "complete"} => "transferComplete" \notin flags
           /\ place \in Fresh => ~(phase = "decide" /\ dev.lastCmdSuccess)
BY DEF DataInv, Lines

(* A step that leaves the kind of transfer, and the events Lines looks at, alone. *)
LEMMA LinesHold ==
    ASSUME DataInv, DriverStays, ~Settled, card' = card,
           transfer'.kind = transfer.kind,
           "transferComplete" \in flags' => "transferComplete" \in flags
    PROVE  Lines'
<1>1. UNCHANGED <<dev, place, phase>>
  BY DEF DriverStays, control
<1>2. ~Settled'
  BY DEF Settled
<1> QED
  BY <1>1, <1>2, MovingAway DEF DataInv, Lines

(* A step after which nothing moves any more. *)
LEMMA LinesSettle ==
    ASSUME DataInv, DriverStays, ~Settled, Settled'
    PROVE  Lines'
<1>1. UNCHANGED <<dev, place, phase>>
  BY DEF DriverStays, control
<1>2. transfer'.kind # "busy"
  BY DEF Settled
<1> QED
  BY <1>1, <1>2, MovingAway DEF Lines

LEMMA StreamSettles ==
    ASSUME TypeOK, Flow, DriverStays, Settled'
    PROVE  Stream'
<1> SUFFICES ASSUME place = "data" PROVE Stream'
  BY DEF Stream, DriverStays, control
<1>1. call' = call /\ call.op \in {"read", "write"}
  BY CallType DEF Flow, DriverStays, control
<1> QED
  BY <1>1 DEF Stream, Settled

(* The next block of a read arrives. *)
LEMMA ArriveKeeps ==
    ASSUME TypeOK, Inv, Flow, DataInv, DriverStays, BlockArrives
    PROVE  DataInv'
<1>1. /\ transfer.kind \in {"read", "register"}
      /\ transfer.left > 0 /\ transfer.fifo = Empty
      /\ transfer' = [transfer EXCEPT !.fifo = IF transfer.kind = "register" THEN "register"
                                               ELSE disk[transfer.block]]
      /\ flags' = flags \cup {"readReady"}
      /\ UNCHANGED <<card, disk>>
  BY DEF BlockArrives, Moving
<1>2. UNCHANGED <<dev, place, phase, call, moved, doubtful>>
  BY DEF DriverStays, control
<1>3. transfer \in Transfers /\ disk \in [Blocks -> Values]
  BY DEF TypeOK, SDTypeOK
<1>4. transfer.kind = "read" => transfer.block \in Blocks
  BY <1>1, <1>3, CardAssumption DEF DataInv, Pending, Transfers, Blocks
<1>5. /\ transfer'.kind = transfer.kind /\ transfer'.block = transfer.block
      /\ transfer'.left = transfer.left
      /\ transfer'.fifo # Empty
      /\ transfer.kind = "read" => transfer'.fifo = disk[transfer.block]
  BY <1>1, <1>3, <1>4, CardAssumption DEF Transfers
<1>6. Lines'
  BY <1>1, <1>2, <1>5, LinesHold DEF Settled
<1>7. Stream'
  BY <1>1, <1>2, <1>5 DEF DataInv, Stream, Settled
<1>8. Progress'
  <2>1. "writeReady" \in flags /\ place \in LinePlaces /\ phase \in {"command", "data"} =>
            flags \cap Errors # {}
    BY <1>1 DEF DataInv, Progress
  <2>2. flags \cap Errors # {} <=> flags' \cap Errors # {}
    BY <1>1 DEF Errors
  <2>3. Done' <=> Done
    BY <1>1, <1>2 DEF Done, StoredBefore
  <2>4. Faithful' <=> Faithful
    BY <1>1, <1>2 DEF Faithful
  <2>5. InBuffer' = InBuffer /\ Expected' = Expected
    BY <1>1, <1>2, <1>5 DEF InBuffer, Expected
  <2>6. "transferComplete" \in flags' <=> "transferComplete" \in flags
    BY <1>1
  <2>7. /\ "writeReady" \in flags' <=> "writeReady" \in flags
        /\ transfer.kind \in {"read", "register"}
    BY <1>1
  <2> QED
    BY <1>1, <1>2, <1>5, <2>1, <2>2, <2>3, <2>4, <2>5, <2>6, <2>7 DEF DataInv, Progress, Settled
<1>9. Pending'
  BY <1>1, <1>2, <1>5 DEF DataInv, Pending
<1> QED
  BY <1>6, <1>7, <1>8, <1>9 DEF DataInv

(* There is room for the next block of a write. *)
LEMMA RoomKeeps ==
    ASSUME TypeOK, Inv, Flow, DataInv, DriverStays, RoomForBlock
    PROVE  DataInv'
<1>1. /\ transfer.kind = "write" /\ transfer.left > 0 /\ transfer.fifo = Empty
      /\ flags' = flags \cup {"writeReady"}
      /\ UNCHANGED <<transfer, card, disk>>
  BY DEF RoomForBlock, Moving
<1>2. UNCHANGED <<dev, place, phase, call, moved, doubtful>>
  BY DEF DriverStays, control
<1>3. Lines'
  BY <1>1, LinesHold DEF Settled
<1>4. Stream'
  BY <1>1, <1>2 DEF DataInv, Stream, Settled, StoredBefore
<1>5. Progress'
  <2>1. "readReady" \in flags /\ place \in LinePlaces /\ phase \in {"command", "data"} =>
            flags \cap Errors # {}
    BY <1>1 DEF DataInv, Progress
  <2>2. flags \cap Errors # {} <=> flags' \cap Errors # {}
    BY <1>1 DEF Errors
  <2>3. Done' <=> Done
    BY <1>1, <1>2 DEF Done, StoredBefore
  <2>4. Faithful' <=> Faithful
    BY <1>1, <1>2 DEF Faithful
  <2>5. InBuffer' = InBuffer /\ Expected' = Expected
    BY <1>1, <1>2 DEF InBuffer, Expected
  <2>6. /\ "transferComplete" \in flags' <=> "transferComplete" \in flags
        /\ "readReady" \in flags' <=> "readReady" \in flags
    BY <1>1
  <2> QED
    BY <1>1, <1>2, <2>1, <2>2, <2>3, <2>4, <2>5, <2>6 DEF DataInv, Progress, Settled
<1>6. Pending'
  BY <1>1, <1>2 DEF DataInv, Pending
<1> QED
  BY <1>3, <1>4, <1>5, <1>6 DEF DataInv

(* A block is programmed: one the call, or a failed write before it, wants there. *)
LEMMA ProgramKeeps ==
    ASSUME TypeOK, Inv, Flow, DataInv, DriverStays, BlockProgrammed
    PROVE  DataInv'
<1>1. /\ transfer.kind = "write" /\ transfer.fifo # Empty
      /\ disk' = [disk EXCEPT ![transfer.block] = transfer.fifo]
      /\ transfer' = [transfer EXCEPT !.block = @ + 1, !.left = @ - 1, !.fifo = Empty]
      /\ UNCHANGED <<flags, card>>
  BY DEF BlockProgrammed, Moving
<1>2. UNCHANGED <<dev, place, phase, call, moved, doubtful>>
  BY DEF DriverStays, control
<1>3. transfer.left > 0 /\ transfer.block \in Blocks /\ transfer.fifo \in Values
  BY <1>1, Programs DEF DataInv
<1>4. /\ transfer'.kind = transfer.kind
      /\ transfer'.block = transfer.block + 1
      /\ transfer'.left = transfer.left - 1
      /\ transfer'.fifo = Empty
  BY <1>1, <1>3, Advances
<1>5. /\ transfer.block \in Nat /\ transfer.left \in Nat
      /\ disk \in [Blocks -> Values] /\ call.block \in Nat /\ call.count \in Nat
  BY CallType DEF TypeOK, SDTypeOK, Transfers
<1>6. ASSUME place = "data"
      PROVE  /\ call.op = "write" /\ transfer.fifo = call.value
             /\ transfer.block + transfer.left = call.block + call.count
             /\ call.block <= transfer.block
             /\ StoredBefore(transfer.block)
  BY <1>1, <1>6 DEF DataInv, Stream, Settled
<1>7. ASSUME place = "data", NEW b, disk[b] = call.value \/ b = transfer.block, b \in Blocks
      PROVE  disk'[b] = call.value
  BY <1>1, <1>5, <1>6, <1>7
<1>8. ASSUME place = "data", Done PROVE Done'
  <2> SUFFICES ASSUME NEW b \in call.block .. call.block + call.count - 1
               PROVE  disk'[b] = call.value
    BY <1>2, <1>5 DEF Done, StoredBefore
  <2>1. disk[b] = call.value
    BY <1>5, <1>6, <1>8 DEF Done, StoredBefore
  <2>2. b \in Blocks
    <3>1. call.block + call.count <= NumBlocks
      BY <1>8, CallType DEF Flow
    <3> QED
      BY <1>5, <3>1, CardAssumption DEF Blocks
  <2> QED
    BY <1>7, <1>8, <2>1, <2>2
<1>9. Lines'
  BY <1>1, <1>4, LinesHold DEF Settled
<1>10. Stream'
  <2> SUFFICES ASSUME place = "data" PROVE Stream'
    BY <1>2 DEF Stream
  <2>1. /\ transfer'.block + transfer'.left = call.block + call.count
        /\ call.block <= transfer'.block
    BY <1>4, <1>5, <1>6
  <2>2. StoredBefore(transfer.block)'
    <3> SUFFICES ASSUME NEW b \in call.block .. transfer.block
                 PROVE  disk'[b] = call.value
      BY <1>2, <1>4, <1>5 DEF StoredBefore
    <3>1. b \in Blocks
      BY <1>3, <1>5, CardAssumption DEF Blocks
    <3>2. b = transfer.block \/ b \in call.block .. transfer.block - 1
      BY <1>5
    <3>3. disk[b] = call.value \/ b = transfer.block
      BY <1>6, <3>2 DEF StoredBefore
    <3> QED
      BY <1>7, <3>1, <3>3
  <2> QED
    BY <1>1, <1>2, <1>4, <1>6, <2>1, <2>2 DEF Stream, Settled
<1>11. Progress'
  <2>1. flags \cap {"readReady", "writeReady"} # {} /\ place \in LinePlaces
          /\ phase \in {"command", "data"} => flags \cap Errors # {}
    BY <1>1 DEF DataInv, Progress
  <2>2. place = "data" => Faithful'
    BY <1>2, <1>6 DEF Faithful
  <2>3. transfer'.left - InBuffer' = transfer.left - InBuffer /\ Expected' = Expected
    BY <1>1, <1>2, <1>4, <1>5 DEF InBuffer, Expected
  <2>4. transfer'.kind = "write"
    BY <1>1, <1>4
  <2> QED
    BY <1>1, <1>2, <1>4, <1>8, <2>1, <2>2, <2>3, <2>4 DEF DataInv, Progress, Settled
<1>12. Pending'
  BY <1>1, <1>4, <1>5 DEF DataInv, Pending
<1> QED
  BY <1>9, <1>10, <1>11, <1>12 DEF DataInv

(* A transfer ends only after its last block. *)
LEMMA EndKeeps ==
    ASSUME TypeOK, Inv, Flow, DataInv, DriverStays, TransferEnds
    PROVE  DataInv'
<1>1. /\ transfer.kind \in {"read", "register", "write", "busy"}
      /\ transfer.left = 0
      /\ transfer' = NoTransfer
      /\ flags \subseteq flags' /\ flags' \subseteq flags \cup {"transferComplete"} \cup Errors
      /\ disk' = disk
  BY DEF TransferEnds, Moving, Errors
<1>2. UNCHANGED <<dev, place, phase, call, moved, doubtful>>
  BY DEF DriverStays, control
<1>3. Settled' /\ ~Settled
  BY <1>1 DEF Settled, NoTransfer
<1>4. Lines'
  BY <1>3, LinesSettle
<1>5. Stream'
  BY <1>3, StreamSettles
<1>6. Progress'
  <2>1. place = "data" => Done
    <3> SUFFICES ASSUME place = "data", call.op = "write" PROVE StoredBefore(call.block + call.count)
      BY DEF Done
    <3>1. transfer.kind = "write"
      BY <1>3 DEF DataInv, Stream
    <3>2. transfer.block + transfer.left = call.block + call.count
      BY <3>1 DEF DataInv, Stream
    <3>3. transfer.block = call.block + call.count
      BY <1>1, <3>2 DEF TypeOK, SDTypeOK, Transfers
    <3> QED
      BY <3>1, <3>3 DEF DataInv, Stream
  <2>2. Done' <=> Done
    BY <1>1, <1>2 DEF Done, StoredBefore
  <2>3. Faithful' <=> Faithful
    BY <1>1, <1>2 DEF Faithful
  <2>4. transfer.fifo = Empty
    BY <1>1 DEF DataInv, Pending
  <2>5. InBuffer = 0
    BY <2>4 DEF InBuffer
  <2>6. place \in LinePlaces /\ phase \in {"command", "data"} /\ flags' \cap Errors = {} =>
            flags' \cap {"readReady", "writeReady"} = {}
    BY <1>1, <2>4 DEF DataInv, Progress, Errors
  <2>7. phase = "data" => flags' \cap Errors # {}
    <3> SUFFICES ASSUME phase = "data" PROVE flags \cap Errors # {}
      BY <1>1
    <3>1. dev.blocksToTransfer \in Nat /\ Len(moved) \in Nat
      BY DEF TypeOK, Members
    <3>2. transfer.kind # Expected
      BY <1>1, <2>5, <3>1 DEF DataInv, Progress
    <3> QED
      BY <3>2 DEF DataInv, Progress
  <2>8. transfer'.kind = "none" /\ place \in LinePlaces => transfer'.kind # Expected'
    BY <1>2, CallType DEF Expected, Flow, LinePlaces
  <2>9. transfer'.kind = "none"
    BY <1>1 DEF NoTransfer
  <2>10. phase = "data" => place \in LinePlaces
    BY DEF Flow
  <2>11. phase \in {"data", "complete"} /\ place \in LinePlaces => transfer'.kind # Expected'
    BY <2>8, <2>9
  <2> QED
    BY <1>2, <1>3, <2>1, <2>2, <2>3, <2>6, <2>7, <2>9, <2>10, <2>11 DEF DataInv, Progress
<1>7. Pending'
  BY <1>1 DEF Pending, NoTransfer
<1> QED
  BY <1>4, <1>5, <1>6, <1>7 DEF DataInv

(* A transfer fails. *)
LEMMA FailKeeps ==
    ASSUME TypeOK, Inv, Flow, DataInv, DriverStays, TransferFails
    PROVE  DataInv'
<1>1. /\ transfer.kind \in {"read", "register", "write", "busy"}
      /\ transfer'.kind \in {"none", "stuck"} /\ transfer'.fifo = Empty
      /\ \E e \in Errors : flags' = flags \cup {e}
      /\ disk' = disk
  BY DEF TransferFails, NoTransfer
<1>2. UNCHANGED <<dev, place, phase, call, moved, doubtful>>
  BY DEF DriverStays, control
<1>3. Settled' /\ ~Settled
  BY <1>1 DEF Settled
<1>4. Lines'
  BY <1>3, LinesSettle
<1>5. Stream'
  BY <1>3, StreamSettles
<1>6. Progress'
  <2>1. flags' \cap Errors # {}
    BY <1>1
  <2>2. "transferComplete" \in flags' => "transferComplete" \in flags
    BY <1>1 DEF Errors
  <2>3. Done' <=> Done
    BY <1>1, <1>2 DEF Done, StoredBefore
  <2>4. Faithful' <=> Faithful
    BY <1>1, <1>2 DEF Faithful
  <2>5. place \in LinePlaces => transfer'.kind # Expected'
    BY <1>1, <1>2, CallType DEF Expected, Flow, LinePlaces
  <2>6. transfer'.kind # "read"
    BY <1>1
  <2>7. phase = "data" => place \in LinePlaces
    BY DEF Flow
  <2> QED
    BY <1>2, <1>3, <2>1, <2>2, <2>3, <2>4, <2>5, <2>6, <2>7 DEF DataInv, Progress
<1>7. Pending'
  BY <1>1 DEF Pending
<1> QED
  BY <1>4, <1>5, <1>6, <1>7 DEF DataInv

(* The card leaves its socket, or is put back. *)
LEMMA SocketKeeps ==
    ASSUME TypeOK, DataInv, DriverStays, CardRemoved \/ CardInserted
    PROVE  DataInv'
<1>1. /\ UNCHANGED <<transfer, disk>>
      /\ card' \in {"gone", "idle"}
      /\ flags \subseteq flags' /\ flags' \subseteq flags \cup {"removal"}
  BY DEF CardRemoved, CardInserted
<1>2. UNCHANGED <<dev, place, phase, call, moved, doubtful>>
  BY DEF DriverStays, control
<1>3. Lines'
  BY <1>1, <1>2 DEF DataInv, Lines, Settled
<1>4. Stream'
  BY <1>1, <1>2 DEF DataInv, Stream, Settled, StoredBefore
<1>5. Progress'
  <2>1. flags' \cap Errors = flags \cap Errors
    BY <1>1 DEF Errors
  <2>2. \A f \in {"transferComplete", "readReady", "writeReady"} : f \in flags' <=> f \in flags
    BY <1>1
  <2>3. (Done' <=> Done) /\ (Faithful' <=> Faithful) /\ InBuffer' = InBuffer /\ Expected' = Expected
    BY <1>1, <1>2 DEF Done, StoredBefore, Faithful, InBuffer, Expected
  <2> QED
    BY <1>1, <1>2, <2>1, <2>2, <2>3 DEF DataInv, Progress, Settled
<1>6. Pending'
  BY <1>1, <1>2 DEF DataInv, Pending
<1> QED
  BY <1>3, <1>4, <1>5, <1>6 DEF DataInv

LEMMA HardwareData ==
    ASSUME TypeOK, Inv, Flow, DataInv, HardwareStep
    PROVE  DataInv'
BY ArriveKeeps, RoomKeeps, ProgramKeeps, EndKeeps, FailKeeps, SocketKeeps
   DEF HardwareStep, Hardware, DriverStays

-----------------------------------------------------------------------------
(* The theorems                                                              *)

IInv == Inv /\ TypeOK /\ Flow /\ DataInv

LEMMA InitIInv == Init => IInv
<1> SUFFICES ASSUME Init PROVE IInv
  OBVIOUS
<1>1. Inv
  BY DEF Init, Inv, Fields, Assigned, UnitKnown, Identified, Addressed, EnsurePlaces,
         ResetPlaces, Places
<1>2. TypeOK
  <2>1. SDTypeOK
    <3>1. NoTransfer \in Transfers
      BY DEF NoTransfer, Transfers
    <3>2. wide \in [card : BOOLEAN, host : BOOLEAN]
      BY DEF Init, SDInit
    <3>3. faults \in 0 .. MaxFaults /\ card \in Present \cup {"gone"}
      BY CardAssumption DEF Init, SDInit, Present
    <3> QED
      BY <3>1, <3>2, <3>3 DEF Init, SDInit, SDTypeOK
  <2>2. dev \in Members
    BY DEF Init, Members, Responses
  <2>3. moved \in Seq(Values \cup {"register"})
    BY EmptySeq DEF Init
  <2> QED
    BY <2>1, <2>2, <2>3 DEF Init, TypeOK, Places, Phases
<1>3. Flow
  BY DEF Init, Flow, ResetPlaces, EnsurePlaces
<1>4. DataInv
  BY DEF Init, SDInit, NoTransfer, DataInv, Lines, Stream, Progress, Pending, Settled, Calm, Fresh
<1> QED
  BY <1>1, <1>2, <1>3, <1>4 DEF IInv

LEMMA TypeStep ==
    ASSUME IInv, Next
    PROVE  TypeOK'
<1> USE DEF IInv
<1>1. CASE IssueCommandInt
  <2>1. place \notin {"idle", "controller"}
    BY <1>1, CommandFrame DEF Flow
  <2> QED
    BY <1>1, <2>1, CommandTypes
<1>2. CASE MoveBlock
  <2>1. Command = "WRITE" => call \in Requests
    BY <1>2, ReadyToMove DEF Flow
  <2> QED
    BY <1>2, <2>1, ReadyToMove, MoveTypes
<1>3. CASE BlockFails
  <2>1. PICK events : (NoFault \/ WaitElapses(events)) /\ WaitFails(events)
    BY <1>3 DEF BlockFails
  <2> QED
    BY <2>1, WaitTypes
<1>4. CASE CompleteFails
  <2>1. PICK events : (NoFault \/ WaitElapses(events)) /\ WaitFails(events)
    BY <1>4 DEF CompleteFails
  <2> QED
    BY <2>1, WaitTypes
<1>5. CASE HardwareStep
  BY <1>5, HardwareTypes DEF DataInv
<1> QED
  BY <1>1, <1>2, <1>3, <1>4, <1>5, InterruptsTypes, CompleteTypes, ResetTypes, DataModeTypes, BeginTypes
     DEF Next, Driver, IssueCommand

LEMMA StepIInv == IInv /\ [Next]_vars => IInv'
<1> SUFFICES ASSUME IInv, [Next]_vars PROVE IInv'
  OBVIOUS
<1>1. CASE Next
  <2>1. Inv'
    BY StepInv DEF IInv
  <2>2. TypeOK'
    BY <1>1, TypeStep
  <2>3. Flow'
    BY <1>1, FlowStep DEF IInv
  <2>4. DataInv'
    BY <1>1, <2>3, IssueData, ResetData, DataModeData, BeginData, HardwareData
       DEF IInv, Next, Driver
  <2> QED
    BY <2>1, <2>2, <2>3, <2>4 DEF IInv
<1>2. CASE UNCHANGED vars
  BY <1>2 DEF vars, sdVars, control, IInv, Inv, Assigned, UnitKnown, TypeOK, SDTypeOK, Flow, BlocksOf,
              DataInv, Lines, Stream, Progress, Pending, Settled, StoredBefore, Done, Faithful,
              Expected, InBuffer
<1> QED
  BY <1>1, <1>2

LEMMA AlwaysIInv == Spec => []IInv
BY InitIInv, StepIInv, PTL DEF Spec

(* BlocksAccounted: in every behaviour, while blocks move, driver and controller agree on *)
(* the direction and on how many are left.                                                *)
THEOREM AlwaysBlocksAccounted == Spec => []BlocksAccounted
<1>1. IInv => BlocksAccounted
  <2> SUFFICES ASSUME IInv, phase = "data", transfer.kind \in {"read", "register", "write"}
               PROVE  /\ transfer.kind = CASE Command = "READ"     -> "read"
                                           [] Command = "WRITE"    -> "write"
                                           [] Command = "SEND_SCR" -> "register"
                      /\ transfer.left - InBuffer = dev.blocksToTransfer - Len(moved)
    BY DEF BlocksAccounted, InBuffer
  <2>1. transfer.kind = Expected
    BY DEF IInv, DataInv, Progress, Settled
  <2>2. transfer.left - InBuffer = dev.blocksToTransfer - Len(moved)
    BY <2>1 DEF IInv, DataInv, Progress
  <2>3. place \in LinePlaces /\ (place = "data" => call.op \in {"read", "write"})
    BY CallType DEF IInv, Flow
  <2>4. Command = IF place = "SCR" THEN "SEND_SCR" ELSE IF call.op = "write" THEN "WRITE" ELSE "READ"
    BY <2>3 DEF Command, CommandAt, LinePlaces
  <2> QED
    BY <2>1, <2>2, <2>3, <2>4 DEF Expected, LinePlaces
<1> QED
  BY <1>1, AlwaysIInv, PTL

(* What BlockDevice calls the result. *)
Result == IF answer = "ok" /\ call.op = "read" THEN moved ELSE <<>>

(* The outcomes of a step of the driver for the call in progress. *)
CallGoesOn == UNCHANGED <<disk, doubtful, call, answer>>

CallFails == answer' = "failed" /\ UNCHANGED <<disk, doubtful, call>>

CallSucceeds ==
    /\ answer' = "ok"
    /\ doubtful' = {}
    /\ UNCHANGED <<disk, call, moved>>
    /\ call.op # "init" => Done /\ Faithful /\ Len(moved) = call.count

LEMMA DriverOutcome ==
    ASSUME IInv, Driver
    PROVE  answer = "pending" /\ (CallGoesOn \/ CallFails \/ CallSucceeds)
<1> USE DEF IInv
<1>1. \A code : ResetFailed(code) =>
          /\ UNCHANGED <<doubtful, call>>
          /\ answer' = answer \/ answer' = "failed"
  BY DEF ResetFailed, Return
<1>2. \A p : Proceed(p) => UNCHANGED <<doubtful, call, answer>>
  BY DEF Proceed, Stay
<1>3. place # "idle" => answer = "pending"
  BY DEF Flow
<1>4. CASE IssueCommand
  <2>1. UNCHANGED <<disk, doubtful, call, answer>>
    BY <1>4, CommandFrame
       DEF IssueCommand, HandleInterrupts, MoveBlock, BlockFails, Complete, CompleteFails, WaitFails, Stay
  <2>2. phase # "idle"
    BY <1>4, CommandFrame
       DEF IssueCommand, HandleInterrupts, MoveBlock, BlockFails, Complete, CompleteFails
  <2> QED
    BY <1>3, <2>1, <2>2 DEF Flow, CallGoesOn
<1>5. CASE CardReset
  <2>1. disk' = disk /\ place # "idle"
    BY <1>5 DEF CardReset, ResetController, AfterSimple, AfterCMD8, AfterCMD5, AfterACMD41,
                AfterCMD3, AfterCMD7, AfterCMD16, AfterSCR, AfterACMD6, Decide, sdVars, NextPlace
  <2>2. CASE AfterACMD6
    <3>1. CASE from = "init"
      <4>1. Return("ok") /\ moved' = moved
        BY <2>2, <3>1 DEF AfterACMD6, Decide
      <4>2. call.op = "init"
        BY <2>2, <3>1 DEF AfterACMD6, Decide, Flow, ResetPlaces, InitCall
      <4> QED
        BY <1>3, <2>1, <4>1, <4>2 DEF Return, CallSucceeds
    <3>2. CASE from # "init"
      <4>1. \E p : Proceed(p)
        BY <2>2, <3>2 DEF AfterACMD6, TypeOK
      <4> QED
        BY <1>2, <1>3, <2>1, <4>1 DEF CallGoesOn
    <3> QED
      BY <3>1, <3>2
  <2>3. CASE ~AfterACMD6
    <3>1. (\E code : ResetFailed(code)) \/ (\E p : Proceed(p)) \/ Stay
      <4>1. CASE ResetController
        BY <4>1 DEF ResetController
      <4>2. CASE AfterSimple
        BY <4>2 DEF AfterSimple, NextPlace
      <4>3. CASE AfterCMD8
        BY <4>3 DEF AfterCMD8
      <4>4. CASE AfterCMD5
        BY <4>4 DEF AfterCMD5
      <4>5. CASE AfterCMD3 \/ AfterCMD7 \/ AfterCMD16 \/ AfterSCR
        BY <4>5 DEF AfterCMD3, AfterCMD7, AfterCMD16, AfterSCR, ReadSCR
      <4>6. CASE AfterACMD41
        BY <4>6 DEF AfterACMD41, SwitchClockRate
      <4> QED
        BY <1>5, <2>3, <4>1, <4>2, <4>3, <4>4, <4>5, <4>6 DEF CardReset
    <3>2. Stay => UNCHANGED <<doubtful, call, answer>>
      BY DEF Stay
    <3> QED
      BY <1>1, <1>2, <1>3, <2>1, <3>1, <3>2 DEF CallGoesOn, CallFails
  <2> QED
    BY <2>2, <2>3
<1>6. CASE DataMode
  <2>1. disk' = disk /\ moved' = moved /\ place # "idle" /\ call \in Requests
    BY <1>6 DEF DataMode, AfterStatus, AfterSelect, AfterStop, AfterRecheck, AfterData, Decide,
                sdVars, Flow, EnsurePlaces
  <2>2. CASE GiveUp
    BY <1>3, <2>1, <2>2 DEF GiveUp, Return, CallFails
  <2>3. CASE DoDataCommand
    BY <1>3, <2>1, <2>3 DEF DoDataCommand, Return, CallFails, CallGoesOn
  <2>4. CASE \E p : Proceed(p)
    BY <1>2, <1>3, <2>1, <2>4 DEF CallGoesOn
  <2>5. CASE UNCHANGED <<call, answer, doubtful>>
    BY <1>3, <2>1, <2>5 DEF CallGoesOn
  <2>6. CASE AfterData /\ OK
    <3>1. Return("ok")
      BY <2>6 DEF AfterData
    <3>2. Done /\ Faithful /\ Len(moved) = call.count
      BY <2>6 DEF AfterData, Decide, OK, DataInv, Progress
    <3> QED
      BY <1>3, <2>1, <3>1, <3>2 DEF Return, CallSucceeds
  <2>7. CASE AfterData /\ ~OK
    BY <2>2, <2>5, <2>7 DEF AfterData
  <2>8. CASE AfterStatus
    BY <2>2, <2>3, <2>4, <2>5, <2>8 DEF AfterStatus
  <2>9. CASE AfterSelect \/ AfterStop \/ AfterRecheck
    BY <2>2, <2>3, <2>4, <2>9 DEF AfterSelect, AfterStop, AfterRecheck
  <2> QED
    BY <1>6, <2>6, <2>7, <2>8, <2>9 DEF DataMode
<1> QED
  BY <1>4, <1>5, <1>6 DEF Driver

(* A call that succeeds has done what it promises. *)
LEMMA SuccessIsSucceed ==
    ASSUME IInv, answer = "pending", CallSucceeds
    PROVE  Device!Succeed
<1>1. /\ call.op \in {"init", "read", "write"} /\ call.block \in Nat /\ call.count \in Nat
      /\ moved \in Seq(Values \cup {"register"})
  BY CallType DEF IInv, TypeOK
<1>2. ASSUME NEW p \in Device!Pairs(call) PROVE disk[p[1]] = p[2]
  <2>1. call.op = "write" /\ p \in (call.block .. call.block + call.count - 1) \X {call.value}
    BY <1>2 DEF Device!Pairs
  <2>2. StoredBefore(call.block + call.count)
    BY <2>1 DEF CallSucceeds, Done
  <2> QED
    BY <1>1, <2>1, <2>2 DEF StoredBefore
<1>3. ASSUME call.op = "read" PROVE moved = Device!Contents(call)
  <2>1. Len(moved) = call.count /\ Faithful
    BY <1>3 DEF CallSucceeds
  <2>2. /\ DOMAIN moved = 1 .. call.count
        /\ \A i \in 1 .. call.count : moved[i] = disk[call.block + i - 1]
    BY <1>1, <1>3, <2>1 DEF Faithful
  <2>3. moved = [i \in 1 .. call.count |-> moved[i]]
    BY <1>1, <2>2
  <2> QED
    BY <2>2, <2>3 DEF Device!Contents
<1> QED
  BY <1>2, <1>3 DEF CallSucceeds, Device!Succeed

(* Every step is one of BlockDevice, or invisible there. *)
LEMMA StepIsDeviceStep ==
    ASSUME IInv, Next
    PROVE  [Device!Next]_(Device!vars)
<1>1. CASE BeginInit \/ Refuse \/ BeginTransfer
  <2>1. place = "idle" /\ answer # "pending"
    BY <1>1 DEF BeginInit, Refuse, BeginTransfer, Begin, IInv, Flow
  <2>2. call' \in Requests \cup {InitCall} /\ moved' = <<>> /\ disk' = disk
    BY <1>1 DEF BeginInit, Refuse, BeginTransfer, Begin, sdVars
  <2>3. answer' \in {"pending", "failed"}
    BY <1>1 DEF BeginInit, Refuse, BeginTransfer
  <2>4. doubtful' = IF answer' = "pending" THEN doubtful \cup Device!Pairs(call') ELSE doubtful
    <3>1. CASE BeginInit
      <4>1. doubtful' = doubtful /\ call' = InitCall
        BY <3>1 DEF BeginInit, Begin
      <4>2. Device!Pairs(call') = {}
        BY <4>1 DEF Device!Pairs, InitCall
      <4> QED
        BY <4>1, <4>2
    <3>2. CASE Refuse
      BY <3>2 DEF Refuse
    <3>3. CASE BeginTransfer
      BY <3>3 DEF BeginTransfer, Begin, Device!Pairs, BlocksOf
    <3> QED
      BY <1>1, <3>1, <3>2, <3>3
  <2> QED
    BY <2>1, <2>2, <2>3, <2>4 DEF Device!Next, Device!Begin
<1>2. CASE Driver
  <2>1. answer = "pending" /\ (CallGoesOn \/ CallFails \/ CallSucceeds)
    BY <1>2, DriverOutcome
  <2>2. CASE CallGoesOn
    BY <2>1, <2>2 DEF CallGoesOn, Device!vars
  <2>3. CASE CallFails
    BY <2>1, <2>3 DEF CallFails, Device!Next, Device!Fail
  <2>4. CASE CallSucceeds
    BY <2>1, <2>4, SuccessIsSucceed DEF Device!Next
  <2> QED
    BY <2>1, <2>2, <2>3, <2>4
<1>3. CASE HardwareStep
  <2>1. UNCHANGED <<doubtful, call, answer, moved>>
    BY <1>3 DEF HardwareStep, control
  <2>2. CASE disk' = disk
    BY <2>1, <2>2 DEF Device!vars
  <2>3. CASE BlockProgrammed
    <3>1. /\ transfer.kind = "write" /\ transfer.fifo # Empty
          /\ disk' = [disk EXCEPT ![transfer.block] = transfer.fifo]
      BY <2>3 DEF BlockProgrammed, Moving
    <3>2. \/ <<transfer.block, transfer.fifo>> \in doubtful
          \/ disk[transfer.block] = transfer.fifo
      BY <3>1 DEF IInv, DataInv, Pending
    <3>3. CASE <<transfer.block, transfer.fifo>> \in doubtful
      <4>1. \E p \in doubtful : disk' = [disk EXCEPT ![p[1]] = p[2]]
        BY <3>1, <3>3
      <4> QED
        BY <2>1, <4>1 DEF Device!Next, Device!Store
    <3>4. CASE disk[transfer.block] = transfer.fifo
      <4>1. disk' = disk
        BY <3>1, <3>4 DEF IInv, TypeOK, SDTypeOK
      <4> QED
        BY <2>2, <4>1
    <3> QED
      BY <3>2, <3>3, <3>4
  <2>4. BlockProgrammed \/ disk' = disk
    BY <1>3 DEF HardwareStep, Hardware, BlockArrives, RoomForBlock, TransferEnds, TransferFails,
                CardRemoved, CardInserted
  <2> QED
    BY <2>2, <2>3, <2>4
<1> QED
  BY <1>1, <1>2, <1>3 DEF Next

(* IsBlockDevice: whatever commands, answers and blocks are lost and whenever the card is *)
(* pulled out, a call that succeeds did what it promises and leaves nothing in doubt, and *)
(* only blocks of calls that failed are ever stored behind a caller's back.               *)
THEOREM DriverIsBlockDevice == Spec => IsBlockDevice
<1>1. Init => Device!Init
  BY DEF Init, Device!Init, InitCall
<1>2. IInv /\ [Next]_vars => [Device!Next]_(Device!vars)
  <2> SUFFICES ASSUME IInv, [Next]_vars PROVE [Device!Next]_(Device!vars)
    OBVIOUS
  <2>1. CASE Next
    BY <2>1, StepIsDeviceStep
  <2>2. CASE UNCHANGED vars
    BY <2>2 DEF vars, sdVars, control, Device!vars
  <2> QED
    BY <2>1, <2>2
<1> QED
  BY <1>1, <1>2, AlwaysIInv, PTL DEF Spec, IsBlockDevice, Device!Spec

====
