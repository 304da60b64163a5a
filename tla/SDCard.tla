---- MODULE SDCard ----
(***************************************************************************)
(* The SD card and the SDHCI host controller, as src/storage/EMMC.cpp uses  *)
(* them.  Neither is code of the repository: every definition here is read  *)
(* off the registers the driver polls and writes and the states it expects. *)
(*                                                                          *)
(* The driver and the hardware run concurrently.  A command and its answer  *)
(* are one step: the driver waits half a second or more for a response the  *)
(* controller resolves within microseconds.  What uses the data lines is    *)
(* not: blocks move, and the card programs them, while the driver polls.    *)
(***************************************************************************)
EXTENDS Naturals, Sequences

CONSTANTS
    NumBlocks,       \* blocks of the card
    Values,          \* contents of a block
    Empty,           \* nothing in the data buffer
    HighCapacity,    \* an SDHC card: addressed by block, not by byte
    MaxFaults,       \* how often the hardware misbehaves (bounds the runs)
    FaultyPlaces     \* where it may: places of the driver, "bus", "busy", "socket"

ASSUME CardAssumption ==
    /\ NumBlocks \in Nat \ {0}
    /\ Empty \notin Values \cup {"register"}
    /\ HighCapacity \in BOOLEAN
    /\ MaxFaults \in Nat

VARIABLES
    running,    \* the clock runs and events reach EMMC_INTERRUPT
    flags,      \* events latched in EMMC_INTERRUPT
    transfer,   \* what the controller does with the data lines
    card,       \* current state of the card, "gone" when there is none
    disk,       \* the blocks of the card
    wide,       \* who uses four data lines
    faults      \* misbehaviours so far

sdVars == <<running, flags, transfer, card, disk, wide, faults>>

SD_BLOCK_SIZE == 512

Blocks == 0 .. NumBlocks - 1

Errors == {"dataTimeout", "dataCRC"}

Flags == Errors \cup {"readReady", "writeReady", "transferComplete", "removal"}

(* States of a card in its socket; 3, 4, 5 and 6 of CURRENT_STATE are stby, tran, data, rcv. *)
Present == {"idle", "ready", "ident", "stby", "tran", "data", "rcv"}

(* "stuck" keeps the data lines busy until they are reset. *)
Transfers == [kind  : {"none", "read", "register", "write", "busy", "stuck"},
              block : Nat,                         \* next block of the card
              left  : Nat,                         \* blocks to come
              fifo  : Values \cup {Empty, "register"}]

NoTransfer == [kind |-> "none", block |-> 0, left |-> 0, fifo |-> Empty]

SDTypeOK ==
    /\ running \in BOOLEAN
    /\ flags \subseteq Flags
    /\ transfer \in Transfers
    /\ card \in Present \cup {"gone"}
    /\ disk \in [Blocks -> Values]
    /\ wide \in [card : BOOLEAN, host : BOOLEAN]
    /\ faults \in 0 .. MaxFaults

(* Power on: the firmware leaves the controller off and the card unidentified. *)
SDInit ==
    /\ running = FALSE
    /\ flags = {}
    /\ transfer = NoTransfer
    /\ card = "idle"
    /\ disk \in [Blocks -> Values]
    /\ wide = [card |-> FALSE, host |-> FALSE]
    /\ faults = 0

Fault(place) ==
    /\ place \in FaultyPlaces
    /\ faults < MaxFaults
    /\ faults' = faults + 1

NoFault == UNCHANGED faults

(* Trouble on the data lines: during a transfer, or while the card is busy. *)
LineFault == Fault(IF transfer.kind = "busy" THEN "busy" ELSE "bus")

----
(* The states in which the card answers a command, and the states that lead to.  A *)
(* memory card never answers IO_SET_OP_COND.  After SD_SEND_OP_COND it may still be busy. *)
Moves ==
    LET stays(S) == [s \in S |-> s]
    IN  [GO_IDLE_STATE      |-> [s \in Present |-> "idle"],
         SEND_IF_COND       |-> stays({"idle"}),
         IO_SET_OP_COND     |-> stays({}),
         APP_CMD            |-> stays({"idle", "stby", "tran", "data", "rcv"}),
         SD_SEND_OP_COND    |-> [idle |-> "ready"],
         ALL_SEND_CID       |-> [ready |-> "ident"],
         SEND_RELATIVE_ADDR |-> [ident |-> "stby", stby |-> "stby"],
         SELECT_CARD        |-> [stby |-> "tran"],
         SET_BLOCKLEN       |-> stays({"tran"}),
         SEND_SCR           |-> [tran |-> "data"],
         SET_BUS_WIDTH      |-> stays({"tran"}),
         SEND_STATUS        |-> stays({"stby", "tran", "data", "rcv"}),
         STOP_TRANSMISSION  |-> [data |-> "tran", rcv |-> "tran"],
         READ               |-> [tran |-> "data"],
         WRITE              |-> [tran |-> "rcv"]]

Commands == DOMAIN Moves

Understands(c) == card \in DOMAIN Moves[c]

(* What the controller starts on the data lines when the card takes the command.  A card *)
(* asked for blocks it does not have sends nothing, and the lines stay busy.             *)
Started(c, address, count) ==
    LET block == IF HighCapacity THEN address ELSE address \div SD_BLOCK_SIZE
        data(k) == IF block + count <= NumBlocks
                   THEN [kind |-> k, block |-> block, left |-> count, fifo |-> Empty]
                   ELSE [NoTransfer EXCEPT !.kind = "stuck"]
    IN  CASE c = "READ"     -> data("read")
          [] c = "WRITE"    -> data("write")
          [] c = "SEND_SCR" -> [NoTransfer EXCEPT !.kind = "register", !.left = 1]
          [] c \in {"SELECT_CARD", "STOP_TRANSMISSION"} -> [NoTransfer EXCEPT !.kind = "busy"]
          [] OTHER          -> transfer

(* The width the card uses afterwards. *)
CardWide(c) == CASE c = "GO_IDLE_STATE" -> FALSE
                 [] c = "SET_BUS_WIDTH" -> TRUE
                 [] OTHER               -> wide.card

(* The card executes the command; the controller may or may not see its answer. *)
CardTakes(c) ==
    /\ card' = IF card = "gone" THEN card ELSE Moves[c][card]
    /\ wide' = [wide EXCEPT !.card = CardWide(c)]

CardIgnores == UNCHANGED <<card, wide>>

----
(* The hardware's own steps. *)

Moving(kinds) ==
    /\ transfer.kind \in kinds
    /\ card # "gone"
    /\ running

(* Both sides drive the same number of lines. *)
InStep == wide.card = wide.host

(* The next block of a read is in the buffer. *)
BlockArrives ==
    /\ Moving({"read", "register"}) /\ InStep
    /\ transfer.left > 0
    /\ transfer.fifo = Empty
    /\ transfer' = [transfer EXCEPT !.fifo = IF transfer.kind = "register" THEN "register"
                                             ELSE disk[transfer.block]]
    /\ flags' = flags \cup {"readReady"}
    /\ UNCHANGED <<running, card, disk, wide, faults>>

(* There is room in the buffer for the next block of a write. *)
RoomForBlock ==
    /\ Moving({"write"})
    /\ transfer.left > 0
    /\ transfer.fifo = Empty
    /\ "writeReady" \notin flags
    /\ flags' = flags \cup {"writeReady"}
    /\ UNCHANGED <<running, transfer, card, disk, wide, faults>>

(* The card programs the block in the buffer. *)
BlockProgrammed ==
    /\ Moving({"write"}) /\ InStep
    /\ transfer.fifo # Empty
    /\ disk' = [disk EXCEPT ![transfer.block] = transfer.fifo]
    /\ transfer' = [transfer EXCEPT !.block = @ + 1, !.left = @ - 1, !.fifo = Empty]
    /\ UNCHANGED <<running, flags, card, wide, faults>>

(* The last block moved, or the card is no longer busy; the controller ends a transfer of *)
(* several blocks itself (AUTO_CMD12).  Its data timeout may have run out just before.    *)
TransferEnds ==
    /\ Moving({"read", "register", "write", "busy"})
    /\ transfer.left = 0
    /\ transfer' = NoTransfer
    /\ card' = "tran"
    /\ \/ flags' = flags \cup {"transferComplete"} /\ NoFault
       \/ flags' = flags \cup {"transferComplete", "dataTimeout"} /\ LineFault
    /\ UNCHANGED <<running, disk, wide>>

(* The transfer fails: the card is gone, the widths differ, or the bus is disturbed.  The *)
(* lines may stay busy, and the card may still wait for the rest of the transfer.         *)
TransferFails ==
    /\ running
    /\ transfer.kind \in {"read", "register", "write", "busy"}
    /\ \/ card = "gone" /\ NoFault
       \/ ~InStep /\ transfer.kind # "busy" /\ NoFault
       \/ LineFault
    /\ \E e \in Errors : flags' = flags \cup {e}
    /\ \E k \in {"none", "stuck"} : transfer' = [NoTransfer EXCEPT !.kind = k]
    /\ card' \in IF card = "gone" THEN {card} ELSE {card, "tran"}
    /\ UNCHANGED <<running, disk, wide>>

CardRemoved ==
    /\ Fault("socket")
    /\ card # "gone"
    /\ card' = "gone"
    /\ flags' = IF running THEN flags \cup {"removal"} ELSE flags
    /\ wide' = [wide EXCEPT !.card = FALSE]
    /\ UNCHANGED <<running, transfer, disk>>

(* The same card is put back. *)
CardInserted ==
    /\ card = "gone"
    /\ card' = "idle"
    /\ UNCHANGED <<running, flags, transfer, disk, wide, faults>>

Hardware ==
    \/ BlockArrives \/ RoomForBlock \/ BlockProgrammed \/ TransferEnds \/ TransferFails
    \/ CardRemoved \/ CardInserted

(* Nothing will happen on the data lines any more. *)
LinesDead == ~running \/ transfer.kind \in {"none", "stuck"}

====
