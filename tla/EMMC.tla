---- MODULE EMMC ----
(***************************************************************************)
(* The driver of the SD card, src/storage/EMMC.cpp: one thread that issues  *)
(* commands, polls EMMC_INTERRUPT with timeouts and decides from the       *)
(* outcome, beside the hardware of SDCard.                                  *)
(*                                                                          *)
(* A place is a call of issueCommand (or the controller reset).  At each the *)
(* driver goes through the phases of issueCommand:                          *)
(*   interrupts  handleInterrupts                                           *)
(*   prefix      issueCommandInt of CMD55, before an application command    *)
(*   command     issueCommandInt up to the response                         *)
(*   data        the loop over the blocks                                   *)
(*   complete    the wait for transfer complete                             *)
(*   decide      back in the caller, which looks at lastCmdSuccess          *)
(*   inhibited   in the wait of switchClockRate, for good                   *)
(* The built configuration: no 1.8 V, no high speed, four data lines.       *)
(***************************************************************************)
EXTENDS SDCard

CONSTANTS
    Requests,       \* the reads and writes callers make
    MaxTransfer     \* most blocks of a command (0xffff)

VARIABLES
    dev,        \* the members of EMMCDevice the control depends on
    call,       \* the call being served, or the last one
    answer,     \* what it returned, "pending" before that
    place,      \* where the driver is
    phase,      \* and in which phase of it
    from,       \* who called cardReset
    tries,      \* retry_count of doDataCommand, nTries of cardInit
    moved,      \* blocks moved by the command so far: buf
    doubtful    \* history: the blocks of writes that may still be stored

control == <<call, answer, place, phase, from, tries>>

vars == <<sdVars, dev, control, moved, doubtful>>

InitCall == [op |-> "init", block |-> 0, count |-> 0, value |-> Empty, aligned |-> TRUE]

(* The caller's buffer starts at a multiple of four, or does not. *)
Transfer == [op : {"read", "write"}, block : Blocks, count : Nat, value : Values,
             aligned : BOOLEAN]

ASSUME RequestAssumption ==
    /\ MaxTransfer \in Nat \ {0}
    /\ Requests \subseteq Transfer
    /\ \A r \in Requests : r.count > 0 /\ r.block + r.count <= NumBlocks

ResetPlaces == {"controller", "CMD0", "CMD8", "CMD5", "inquiry", "ACMD41", "CMD2", "CMD3",
                "CMD7", "CMD16", "SCR", "ACMD6"}

EnsurePlaces == {"status", "select", "stop", "recheck"}

Places == ResetPlaces \cup EnsurePlaces \cup {"data", "idle"}

Phases == {"interrupts", "prefix", "command", "data", "complete", "decide", "inhibited", "idle"}

Responses == Present \cup {"none", "bad", "busy"}

(* The values the members of EMMCDevice take. *)
Members ==
    [initialized      : BOOLEAN,
     cardRCA          : {"assigned", "CARD_RCA_INVALID"},
     cardSupportsSDHC : BOOLEAN,
     v2_later         : BOOLEAN,
     cardRemoval      : BOOLEAN,
     blockSize        : {0, 8, SD_BLOCK_SIZE},
     blocksToTransfer : Nat,
     lastCmdSuccess   : BOOLEAN,
     lastError        : {"none", "cmdTimeout", "other"},
     lastR0           : Responses]

TypeOK ==
    /\ SDTypeOK
    /\ dev \in Members
    /\ call \in Requests \cup {InitCall}
    /\ answer \in {"pending", "ok", "failed"}
    /\ place \in Places
    /\ phase \in Phases
    /\ from \in {"init", "ensure", "retry"}
    /\ tries \in 0 .. 3
    /\ moved \in Seq(Values \cup {"register"})
    /\ doubtful \subseteq (Blocks \X Values)

(* A static EMMCDevice: zeroes, so that even cardRCA is an address. *)
Init ==
    /\ SDInit
    /\ dev = [initialized |-> FALSE, cardRCA |-> "assigned", cardSupportsSDHC |-> FALSE,
              v2_later |-> FALSE, cardRemoval |-> FALSE, blockSize |-> 0,
              blocksToTransfer |-> 0, lastCmdSuccess |-> FALSE, lastError |-> "none",
              lastR0 |-> "none"]
    /\ call = InitCall
    /\ answer = "failed"
    /\ place = "idle"
    /\ phase = "idle"
    /\ from = "init"
    /\ tries = 0
    /\ moved = <<>>
    /\ doubtful = {}

----
(* Where the driver goes next. *)

Issue(p) ==
    /\ place' = p
    /\ phase' = "interrupts"

BlocksOf(r) == r.block .. r.block + r.count - 1

Return(result) ==
    /\ place' = "idle"
    /\ phase' = "idle"
    /\ answer' = result
    /\ doubtful' = IF result = "ok" THEN {} ELSE doubtful
    /\ UNCHANGED <<call, from, tries>>

StartReset(caller) ==
    /\ Issue("controller")
    /\ from' = caller

(* cardReset returned -1, or -2, on which only cardInit tries again. *)
ResetFailed(code) ==
    IF from = "init" /\ code = 2 /\ tries > 1
    THEN /\ tries' = tries - 1
         /\ StartReset("init")
         /\ UNCHANGED <<call, answer, doubtful>>
    ELSE Return("failed")

Stay == UNCHANGED <<call, answer, from, tries, doubtful>>

----
(* issueCommand *)

CommandAt == [CMD0 |-> "GO_IDLE_STATE", CMD8 |-> "SEND_IF_COND", CMD5 |-> "IO_SET_OP_COND",
              inquiry |-> "SD_SEND_OP_COND", ACMD41 |-> "SD_SEND_OP_COND",
              CMD2 |-> "ALL_SEND_CID", CMD3 |-> "SEND_RELATIVE_ADDR", CMD7 |-> "SELECT_CARD",
              CMD16 |-> "SET_BLOCKLEN", SCR |-> "SEND_SCR", ACMD6 |-> "SET_BUS_WIDTH",
              status |-> "SEND_STATUS", select |-> "SELECT_CARD",
              stop |-> "STOP_TRANSMISSION", recheck |-> "SEND_STATUS"]

Command ==
    CASE phase = "prefix"  -> "APP_CMD"
      [] place = "data"    -> IF call.op = "write" THEN "WRITE" ELSE "READ"
      [] OTHER             -> CommandAt[place]

IS_APP_CMD == place \in {"inquiry", "ACMD41", "SCR", "ACMD6"}

IsData(c) == c \in {"READ", "WRITE", "SEND_SCR"}

(* Responses of type R1b. *)
IsBusy(c) == c \in {"SELECT_CARD", "STOP_TRANSMISSION"}

(* The data lines are taken; only an abort command does without them. *)
Inhibited(c) ==
    /\ transfer.kind # "none"
    /\ IsData(c) \/ c = "SELECT_CARD"

(* The reset of the data lines may run out of time, with the lines still busy; both  *)
(* callers ignore that.                                                              *)
ResetDat ==
    \/ transfer' = NoTransfer /\ NoFault
    \/ transfer' = [NoTransfer EXCEPT !.kind = "stuck"] /\ Fault("resetDat")

(* Every event is cleared.  A block nobody waited for resets the data lines. *)
HandleInterrupts ==
    /\ phase = "interrupts"
    /\ place # "controller"
    /\ flags' = {}
    /\ IF flags \cap {"readReady", "writeReady"} # {} THEN ResetDat
       ELSE UNCHANGED <<transfer, faults>>
    /\ LET removed == dev.cardRemoval \/ "removal" \in flags
       IN  IF removed
           THEN /\ dev' = [dev EXCEPT !.cardRemoval = TRUE, !.lastCmdSuccess = FALSE]
                /\ phase' = "decide"
           ELSE /\ phase' = IF IS_APP_CMD THEN "prefix" ELSE "command"
                /\ UNCHANGED dev
    /\ UNCHANGED <<running, card, disk, wide, place, moved>> /\ Stay

(* The command fails before any data moves. *)
Failing(error) ==
    /\ dev' = [dev EXCEPT !.lastCmdSuccess = FALSE, !.lastError = error]
    /\ phase' = "decide"
    /\ UNCHANGED moved

\* A variant of the start of a command that goes on where the attempt before it stopped.
AnsweredResuming(c, response) ==
    /\ moved' = moved
    /\ phase' = CASE c = "APP_CMD" -> "command"
                  [] IsData(c)     -> "data"
                  [] IsBusy(c)     -> "complete"
                  [] OTHER         -> "decide"
    /\ dev' = [dev EXCEPT !.lastCmdSuccess = ~(IsData(c) \/ IsBusy(c)),
                          !.lastR0 = IF c = "GO_IDLE_STATE" THEN @ ELSE response]

(* The response arrived: on to the data, to the end of busy, or back. *)
Answered(c, response) ==
    /\ moved' = IF IsData(c) THEN <<>> ELSE moved
    /\ phase' = CASE c = "APP_CMD" -> "command"
                  [] IsData(c)     -> "data"
                  [] IsBusy(c)     -> "complete"
                  [] OTHER         -> "decide"
    /\ dev' = [dev EXCEPT !.lastCmdSuccess = ~(IsData(c) \/ IsBusy(c)),
                          !.lastR0 = IF c = "GO_IDLE_STATE" THEN @ ELSE response]

Address == IF dev.cardSupportsSDHC THEN call.block ELSE call.block * SD_BLOCK_SIZE

Start(c) == transfer' = Started(c, Address, dev.blocksToTransfer)

(* issueCommandInt up to the response.  CMD0 has none, and succeeds whatever the card does. *)
(* Errors of an earlier transfer that were latched since handleInterrupts spoil a command, *)
(* and are cleared.                                                                        *)
Issuing ==
    /\ phase \in {"prefix", "command"}
    /\ dev.blocksToTransfer <= MaxTransfer
    /\ flags' = flags \ Errors
    /\ UNCHANGED <<running, disk, place>> /\ Stay

Undisturbed == flags \cap Errors = {}

CardAnswers ==
    /\ Issuing
    /\ running /\ ~Inhibited(Command)
    /\ Command = "GO_IDLE_STATE" \/ Understands(Command)
    /\ ~(place = "ACMD41" /\ phase = "command")
    /\ IF place = "inquiry" THEN CardIgnores ELSE CardTakes(Command)
    /\ Start(Command)
    /\ \/ ~Undisturbed /\ Failing("other") /\ NoFault
       \/ Undisturbed /\ Answered(Command, card) /\ NoFault
       \/ /\ Undisturbed /\ place \in {"CMD8", "CMD3", "CMD7"} /\ Fault(place)
          /\ Answered(Command, "bad")

(* The initialisation ACMD41: the card may still be busy.  One that needs 30 bit block *)
(* addresses stays busy for a host that does not offer them.                           *)
CardStillBusy ==
    /\ Issuing
    /\ running /\ place = "ACMD41" /\ phase = "command" /\ Understands(Command)
    /\ CardIgnores /\ UNCHANGED transfer /\ NoFault
    /\ Answered(Command, "busy")

CardBecomesReady ==
    /\ Issuing
    /\ running /\ place = "ACMD41" /\ phase = "command" /\ Understands(Command)
    /\ HighCapacity => dev.v2_later
    /\ CardTakes(Command) /\ UNCHANGED transfer /\ NoFault
    /\ Answered(Command, "ready")

(* The card does not answer, and the controller reports a command timeout; or the command *)
(* is lost on its way, or drowned in noise.                                               *)
NoAnswer ==
    /\ Issuing
    /\ running /\ ~Inhibited(Command)
    /\ Command # "GO_IDLE_STATE"
    /\ \/ ~Understands(Command) /\ NoFault /\ Failing("cmdTimeout")
       \/ /\ Fault(place)
          /\ \E error \in {"cmdTimeout", "other"} : Failing(error)
    /\ CardIgnores /\ UNCHANGED transfer

(* The card obeyed and its answer is lost; of CMD0 the command itself is. *)
AnswerLost ==
    /\ Issuing
    /\ running /\ ~Inhibited(Command)
    /\ Understands(Command)
    /\ Fault(place)
    /\ IF Command = "GO_IDLE_STATE"
       THEN CardIgnores /\ UNCHANGED transfer /\ Answered(Command, card)
       ELSE /\ CardTakes(Command)
            /\ transfer' = IF IsData(Command) \/ IsBusy(Command)
                           THEN [NoTransfer EXCEPT !.kind = "stuck"] ELSE transfer
            /\ Failing("other")

(* The controller takes no command: the clock is off or the data lines are in use. *)
NotIssued ==
    /\ Issuing
    /\ ~running \/ Inhibited(Command)
    /\ CardIgnores /\ UNCHANGED transfer /\ NoFault
    /\ Failing(IF Undisturbed THEN "none" ELSE "other")

TooManyBlocks ==
    /\ phase \in {"prefix", "command"}
    /\ dev.blocksToTransfer > MaxTransfer
    /\ dev' = [dev EXCEPT !.lastCmdSuccess = FALSE]
    /\ phase' = "decide"
    /\ UNCHANGED <<sdVars, place, moved>> /\ Stay

IssueCommandInt ==
    \/ CardAnswers \/ CardStillBusy \/ CardBecomesReady \/ NoAnswer \/ AnswerLost
    \/ NotIssued \/ TooManyBlocks

(* timeoutWait for an event that is not there runs out: for good reason, or because the *)
(* hardware was slow.                                                                   *)
WaitElapses(events) ==
    /\ flags \cap events = {}
    /\ IF LinesDead THEN NoFault ELSE LineFault

WaitFails(events) ==
    /\ flags' = flags \ events
    /\ Failing(IF flags \cap Errors = {} THEN "none" ELSE "other")
    /\ UNCHANGED <<running, transfer, card, disk, wide, place>> /\ Stay

Ready == IF Command = "WRITE" THEN "writeReady" ELSE "readReady"

(* The buffer of the loop over the blocks; the kernel stops at any other. *)
BufferAligned == place = "data" => call.aligned

MoveBlock ==
    /\ phase = "data" /\ BufferAligned
    /\ Ready \in flags /\ flags \cap Errors = {}
    /\ flags' = flags \ {Ready}
    /\ IF Command = "WRITE"
       THEN /\ moved' = Append(moved, call.value)
            /\ transfer' = [transfer EXCEPT !.fifo = call.value]
       ELSE /\ moved' = Append(moved, transfer.fifo)
            /\ transfer' = [transfer EXCEPT !.block = @ + 1, !.left = @ - 1, !.fifo = Empty]
    /\ phase' = IF Len(moved') = dev.blocksToTransfer THEN "complete" ELSE "data"
    /\ UNCHANGED <<running, card, disk, wide, faults, dev, place>> /\ Stay

BlockFails ==
    /\ phase = "data" /\ BufferAligned
    /\ \/ flags \cap Errors # {} /\ NoFault
       \/ WaitElapses({Ready} \cup Errors)
    /\ WaitFails({Ready} \cup Errors)

\* A variant that takes a data timeout alone for the end of the transfer.
CompleteOnTimeout ==
    /\ phase = "complete"
    /\ flags \cap {"transferComplete", "dataTimeout"} # {} /\ "dataCRC" \notin flags
    /\ flags' = flags \ ({"transferComplete"} \cup Errors)
    /\ dev' = [dev EXCEPT !.lastCmdSuccess = TRUE]
    /\ phase' = "decide"
    /\ UNCHANGED <<running, transfer, card, disk, wide, faults, place, moved>> /\ Stay

(* Transfer complete overrides a data timeout. *)
Complete ==
    /\ phase = "complete"
    /\ "transferComplete" \in flags /\ "dataCRC" \notin flags
    /\ flags' = flags \ ({"transferComplete"} \cup Errors)
    /\ dev' = [dev EXCEPT !.lastCmdSuccess = TRUE]
    /\ phase' = "decide"
    /\ UNCHANGED <<running, transfer, card, disk, wide, faults, place, moved>> /\ Stay

CompleteFails ==
    /\ phase = "complete"
    /\ \/ NoFault /\ \/ "dataCRC" \in flags
                     \/ "dataTimeout" \in flags /\ "transferComplete" \notin flags
       \/ WaitElapses({"transferComplete"} \cup Errors)
    /\ WaitFails({"transferComplete"} \cup Errors)

IssueCommand ==
    \/ HandleInterrupts \/ IssueCommandInt \/ MoveBlock \/ BlockFails \/ Complete \/ CompleteFails

----
(* cardReset *)

Decide(p) ==
    /\ place = p
    /\ phase = "decide"
    /\ UNCHANGED moved

OK == dev.lastCmdSuccess

(* The macros TIMEOUT and CMD_TIMEOUT. *)
TIMEOUT == ~OK /\ dev.lastError = "none"

CMD_TIMEOUT == ~OK /\ dev.lastError = "cmdTimeout"

Proceed(p) ==
    /\ Issue(p)
    /\ Stay

(* The controller is reset, its clock set, and the structure prepared; without a card, or *)
(* when the controller does not come back, the clock stays off and the structure as it is. *)
ResetController ==
    /\ place = "controller"
    /\ transfer' = NoTransfer
    /\ flags' = {}
    /\ wide' = [wide EXCEPT !.host = FALSE]
    /\ \/ /\ card # "gone" /\ NoFault
          /\ running' = TRUE
          /\ dev' = [dev EXCEPT !.cardSupportsSDHC = FALSE, !.cardRCA = "CARD_RCA_INVALID",
                                !.lastError = "none", !.lastCmdSuccess = FALSE,
                                !.lastR0 = "none", !.blocksToTransfer = 0,
                                !.blockSize = 0, !.cardRemoval = FALSE]
          /\ Proceed("CMD0")
       \/ /\ IF card = "gone" THEN NoFault ELSE Fault("controller")
          /\ running' = FALSE
          /\ ResetFailed(1)
          /\ UNCHANGED dev
    /\ UNCHANGED <<card, disk, moved>>

(* CMD0, the inquiry ACMD41, CMD2 and CMD16 just have to succeed. *)
NextPlace == [CMD0 |-> "CMD8", inquiry |-> "ACMD41", CMD2 |-> "CMD3"]

AfterSimple ==
    \E p \in DOMAIN NextPlace :
        /\ Decide(p)
        /\ IF OK THEN Proceed(NextPlace[p]) ELSE ResetFailed(1)
        /\ UNCHANGED <<sdVars, dev>>

(* resetCmd after a command timeout may fail itself. *)
AfterCMD8 ==
    /\ Decide("CMD8")
    /\ LET next(v2) == /\ Proceed("CMD5")
                       /\ dev' = [dev EXCEPT !.v2_later = v2]
           fail == ResetFailed(1) /\ UNCHANGED dev
       IN  \/ OK /\ dev.lastR0 # "bad" /\ next(TRUE) /\ NoFault
           \/ OK /\ dev.lastR0 = "bad" /\ fail /\ NoFault
           \/ (TIMEOUT \/ CMD_TIMEOUT) /\ next(FALSE) /\ NoFault
           \/ CMD_TIMEOUT /\ fail /\ Fault("resetCmd")
           \/ ~(OK \/ TIMEOUT \/ CMD_TIMEOUT) /\ fail /\ NoFault
    /\ UNCHANGED <<running, flags, transfer, card, disk, wide>>

(* Only a card that does not answer CMD5 is a memory card. *)
AfterCMD5 ==
    /\ Decide("CMD5")
    /\ \/ (TIMEOUT \/ CMD_TIMEOUT) /\ Proceed("inquiry") /\ NoFault
       \/ CMD_TIMEOUT /\ ResetFailed(1) /\ Fault("resetCmd")
       \/ ~(TIMEOUT \/ CMD_TIMEOUT) /\ ResetFailed(1) /\ NoFault
    /\ UNCHANGED <<running, flags, transfer, card, disk, wide, dev>>

(* The wait for the command and data lines has no bound: a controller that keeps them is *)
(* waited for, for good.  A clock without a divider is left as it is, unnoticed.         *)
SwitchClockRate ==
    \/ transfer.kind = "none" /\ Proceed("CMD2") /\ NoFault
    \/ phase' = "inhibited" /\ UNCHANGED place /\ Stay /\ Fault("clock")

AfterACMD41 ==
    /\ Decide("ACMD41")
    /\ \/ ~OK /\ ResetFailed(1) /\ UNCHANGED dev /\ NoFault
       \/ OK /\ dev.lastR0 = "busy" /\ Proceed("ACMD41") /\ UNCHANGED dev /\ NoFault
       \/ /\ OK /\ dev.lastR0 # "busy"
          /\ dev' = [dev EXCEPT !.cardSupportsSDHC = HighCapacity]
          /\ SwitchClockRate
    /\ UNCHANGED <<running, flags, transfer, card, disk, wide>>

(* The address is recorded before the error bits of the answer are looked at. *)
AfterCMD3 ==
    /\ Decide("CMD3")
    /\ IF ~OK THEN ResetFailed(1) /\ UNCHANGED dev
       ELSE /\ dev' = [dev EXCEPT !.cardRCA = "assigned"]
            /\ IF dev.lastR0 = "bad" THEN ResetFailed(1) ELSE Proceed("CMD7")
    /\ UNCHANGED sdVars

(* The register is read with blocks of its own size. *)
ReadSCR ==
    /\ Proceed("SCR")
    /\ dev' = [dev EXCEPT !.blockSize = 8, !.blocksToTransfer = 1]

AfterCMD7 ==
    /\ Decide("CMD7")
    /\ IF ~OK \/ dev.lastR0 = "bad" THEN ResetFailed(1) /\ UNCHANGED dev
       ELSE IF dev.cardSupportsSDHC THEN ReadSCR
       ELSE Proceed("CMD16") /\ UNCHANGED dev
    /\ UNCHANGED sdVars

AfterCMD16 ==
    /\ Decide("CMD16")
    /\ IF OK THEN ReadSCR ELSE ResetFailed(1) /\ UNCHANGED dev
    /\ UNCHANGED sdVars

AfterSCR ==
    /\ Decide("SCR")
    /\ dev' = [dev EXCEPT !.blockSize = SD_BLOCK_SIZE]
    /\ IF OK THEN Proceed("ACMD6") ELSE ResetFailed(2)
    /\ UNCHANGED sdVars

(* The end of cardReset, with four data lines if the card agreed; cardInit, or either call *)
(* in ensureDataMode, goes on.                                                             *)
AfterACMD6 ==
    /\ Decide("ACMD6")
    /\ wide' = [wide EXCEPT !.host = OK]
    /\ flags' = {}
    /\ CASE from = "init"   -> Return("ok") /\ dev' = [dev EXCEPT !.initialized = TRUE]
         [] from = "ensure" -> Proceed("status") /\ UNCHANGED dev
         [] from = "retry"  -> Proceed("recheck") /\ UNCHANGED dev
    /\ UNCHANGED <<running, transfer, card, disk, faults>>

CardReset ==
    \/ ResetController \/ AfterSimple \/ AfterCMD8 \/ AfterCMD5 \/ AfterACMD41
    \/ AfterCMD3 \/ AfterCMD7 \/ AfterCMD16 \/ AfterSCR \/ AfterACMD6

----
(* init, and ensureDataMode and doDataCommand under doRead and doWrite *)

Begin(r) ==
    /\ place = "idle"
    /\ call' = r
    /\ moved' = <<>>

BeginInit ==
    /\ Begin(InitCall)
    /\ ~dev.initialized
    /\ \/ /\ StartReset("init") /\ NoFault
          /\ tries' = 3
          /\ answer' = "pending"
       \/ /\ Fault("power")
          /\ answer' = "failed"
          /\ UNCHANGED <<place, phase, from, tries>>
    /\ UNCHANGED <<running, flags, transfer, card, disk, wide, dev, doubtful>>

(* A device that was not initialised refuses. *)
Refuse ==
    /\ ~dev.initialized
    /\ \E r \in Requests : Begin(r)
    /\ answer' = "failed"
    /\ UNCHANGED <<sdVars, dev, place, phase, from, tries, doubtful>>

(* ensureDataMode starts, with a reset when there is no address. *)
BeginTransfer ==
    /\ dev.initialized
    /\ \E r \in Requests :
        /\ Begin(r)
        /\ doubtful' = IF r.op = "write" THEN doubtful \cup (BlocksOf(r) \X {r.value})
                       ELSE doubtful
    /\ answer' = "pending"
    /\ tries' = 0
    /\ IF dev.cardRCA = "CARD_RCA_INVALID" THEN StartReset("ensure")
       ELSE Issue("status") /\ UNCHANGED from
    /\ UNCHANGED <<sdVars, dev>>

\* A variant that never asks whether the buffer is a multiple of the block size.
DoDataCommandUnsized ==
    /\ dev' = [dev EXCEPT !.blocksToTransfer = call.count]
    /\ Issue("data")
    /\ tries' = 0
    /\ UNCHANGED <<call, answer, from, doubtful>>

(* doDataCommand up to its loop.  Without a block size (0: AArch64 divides to 0) every *)
(* buffer is refused as no exact multiple.                                             *)
DoDataCommand ==
    IF dev.blockSize = 0
    THEN /\ dev' = [dev EXCEPT !.blocksToTransfer = 0]
         /\ Return("failed")
    ELSE /\ dev' = [dev EXCEPT !.blocksToTransfer = call.count]
         /\ Issue("data")
         /\ tries' = 0
         /\ UNCHANGED <<call, answer, from, doubtful>>

\* A variant that keeps the address of a card it gave up on.
GiveUpKeeping ==
    /\ Return("failed")
    /\ UNCHANGED dev

GiveUp ==
    /\ dev' = [dev EXCEPT !.cardRCA = "CARD_RCA_INVALID"]
    /\ Return("failed")

AfterStatus ==
    /\ Decide("status")
    /\ IF ~OK THEN GiveUp
       ELSE CASE dev.lastR0 = "tran" -> DoDataCommand
              [] dev.lastR0 = "stby" -> Proceed("select") /\ UNCHANGED dev
              [] dev.lastR0 = "data" -> Proceed("stop") /\ UNCHANGED dev
              [] OTHER -> /\ StartReset("retry")
                          /\ UNCHANGED <<call, answer, tries, doubtful, dev>>
    /\ UNCHANGED sdVars

AfterSelect ==
    /\ Decide("select")
    /\ IF OK THEN Proceed("recheck") /\ UNCHANGED dev ELSE GiveUp
    /\ UNCHANGED sdVars

(* The transmission was cancelled: resetDat. *)
AfterStop ==
    /\ Decide("stop")
    /\ IF OK THEN Proceed("recheck") /\ UNCHANGED dev ELSE GiveUp
    /\ IF OK THEN ResetDat ELSE UNCHANGED <<transfer, faults>>
    /\ UNCHANGED <<running, flags, card, disk, wide>>

AfterRecheck ==
    /\ Decide("recheck")
    /\ IF OK /\ dev.lastR0 = "tran" THEN DoDataCommand ELSE GiveUp
    /\ UNCHANGED sdVars

(* Three attempts, then the address is forgotten so that the next call starts over. *)
max_retries == 3

\* A variant that forgets to count attempts.
AfterDataUncounted ==
    /\ Decide("data")
    /\ IF OK THEN Return("ok") /\ UNCHANGED dev
       ELSE Issue("data") /\ UNCHANGED <<call, answer, from, tries, doubtful, dev>>
    /\ UNCHANGED sdVars

AfterData ==
    /\ Decide("data")
    /\ IF OK THEN Return("ok") /\ UNCHANGED dev
       ELSE IF tries + 1 < max_retries
       THEN /\ Issue("data")
            /\ tries' = tries + 1
            /\ UNCHANGED <<call, answer, from, doubtful, dev>>
       ELSE GiveUp
    /\ UNCHANGED sdVars

DataMode == AfterStatus \/ AfterSelect \/ AfterStop \/ AfterRecheck \/ AfterData

----
Driver == IssueCommand \/ CardReset \/ DataMode

(* The hardware's steps leave the driver alone. *)
HardwareStep == Hardware /\ UNCHANGED <<dev, control, moved, doubtful>>

Next == BeginInit \/ Refuse \/ BeginTransfer \/ Driver \/ HardwareStep

Spec == Init /\ [][Next]_vars

====
