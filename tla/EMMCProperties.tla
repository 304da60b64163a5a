---- MODULE EMMCProperties ----
(***************************************************************************)
(* What is claimed of the SD card driver.                                   *)
(***************************************************************************)
EXTENDS EMMC

(* The driver keeps the promises of BlockDevice.  A transfer that outlives the attempt *)
(* that started it is the danger: its blocks, or its completion, could be taken for    *)
(* those of a later command.                                                           *)
Device == INSTANCE BlockDevice WITH
              request <- call,
              result  <- IF answer = "ok" /\ call.op = "read" THEN moved ELSE <<>>

IsBlockDevice == Device!Spec

(* While blocks move, the driver and the controller agree how many are left, and on    *)
(* the direction: neither waits for a block the other does not expect.                 *)
BlocksAccounted ==
    phase = "data" /\ transfer.kind \in {"read", "register", "write"} =>
        LET inBuffer == IF transfer.kind = "write" /\ transfer.fifo # Empty THEN 1 ELSE 0
        IN  /\ transfer.kind = CASE Command = "READ"     -> "read"
                                 [] Command = "WRITE"    -> "write"
                                 [] Command = "SEND_SCR" -> "register"
            /\ transfer.left - inBuffer = dev.blocksToTransfer - Len(moved)

(* A data command carries an address in the unit of the card in the socket, and the    *)
(* block size is known, however the initialisation before it went.                     *)
WellAddressed ==
    place = "data" => /\ dev.cardSupportsSDHC = HighCapacity
                      /\ dev.blockSize = SD_BLOCK_SIZE

----
(* The hardware gets on with what it started, somebody puts the card back, a busy card *)
(* gets ready, and the driver runs.                                                    *)
Fairness ==
    /\ WF_vars(Driver)
    /\ WF_vars(HardwareStep /\ faults' = faults)
    /\ SF_vars(CardBecomesReady)

FairSpec == Spec /\ Fairness

(* Callers initialise the device and go on using it. *)
BusySpec == FairSpec /\ WF_vars(BeginInit /\ answer' = "pending") /\ SF_vars(BeginTransfer)

(* The loop around ACMD41 when the answer to CMD8 was lost: a card that needs 30 bit    *)
(* block addresses stays busy for a driver that does not offer them, and the loop has  *)
(* no bound.                                                                            *)
KeptWaiting == place = "ACMD41" /\ HighCapacity /\ ~dev.v2_later

(* A reset inside ensureDataMode that failed after the address was recorded and before *)
(* the block size was: later calls take the card for initialised and are refused.      *)
HalfPrepared == dev.cardRCA = "assigned" /\ dev.blockSize = 0

(* The wait of switchClockRate for a controller that never frees the command or data    *)
(* lines, which has no bound either.                                                    *)
Inhibition == phase = "inhibited"

(* The assertion on the buffer of a data command stopped the kernel. *)
Stopped == phase = "data" /\ ~BufferAligned

(* Every call returns, whatever the hardware does: the two loops without a bound and    *)
(* the assertion on the caller's buffer are all that can keep one.                      *)
CallsReturn == answer = "pending" ~> answer # "pending" \/ KeptWaiting \/ Inhibition \/ Stopped

(* Once the hardware behaves, calls succeed again, unless the driver is in one of the   *)
(* loops, stopped, or left with a structure half prepared.                              *)
Recovers ==
    \/ []<>(answer = "ok" /\ call.op # "init")
    \/ <>[]KeptWaiting
    \/ <>[]Inhibition
    \/ <>[]Stopped
    \/ <>[]HalfPrepared

====
