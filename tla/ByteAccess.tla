---- MODULE ByteAccess ----
(***************************************************************************)
(* Bytes on a device of whole blocks: read and write at an offset,          *)
(* readBytes and writeBytes at the end of src/storage/EMMC.cpp.  One step   *)
(* per access of the device, each of which may fail; a write that fails may *)
(* have stored any of its blocks (what BlockDevice promises).  Blocks that   *)
(* go to or come from the caller's buffer directly must lie on a word       *)
(* boundary there: doDataCommand asserts it once the card has taken the     *)
(* command.  One call per behaviour: nothing but the disk is kept between    *)
(* calls.                                                                    *)
(***************************************************************************)
EXTENDS Integers

CONSTANTS
    SD_BLOCK_SIZE,
    Size,           \* bytes of the device
    Byte,           \* what a byte may be
    Disks,          \* contents of the device to start from
    Calls           \* the calls: operation, bytes, byte_offset, the data to write, and the
                    \* address of the caller's buffer

Positions == 0 .. Size - 1

ASSUME DeviceAssumption ==
    /\ SD_BLOCK_SIZE \in Nat \ {0}
    /\ Size \in Nat
    /\ Disks \subseteq [Positions -> Byte]

ASSUME CallAssumption ==
    \A c \in Calls :
        /\ c.op \in {"read", "write"}
        /\ c.bytes \in Nat /\ c.byte_offset \in Nat /\ c.address \in Nat
        /\ c.byte_offset + c.bytes <= Size
        /\ \A i \in 0 .. c.bytes - 1 : c.data[i] \in Byte

VARIABLES
    disk,
    call,
    buffer,         \* the caller's buffer of a read
    stage,          \* the next access, "done", "failed", or "stopped" by an assertion
    lba,            \* where the block of the next access starts
    byte_offset,    \* first byte of that block that is meant
    bytes,          \* bytes still to move
    total,          \* bytes moved
    block,          \* read_buffer, write_buffer
    original        \* history: the disk at the beginning

vars == <<disk, call, buffer, stage, lba, byte_offset, bytes, total, block, original>>

Stages == {"start", "whole", "read", "fetch", "put", "body", "done", "failed", "stopped"}

Offsets == 0 .. SD_BLOCK_SIZE - 1

TypeOK ==
    /\ disk \in [Positions -> Byte] /\ original \in [Positions -> Byte]
    /\ call \in Calls
    /\ stage \in Stages
    /\ lba \in Int
    /\ byte_offset \in Offsets
    /\ bytes \in 0 .. call.bytes /\ total \in 0 .. call.bytes

Init ==
    /\ disk \in Disks
    /\ call \in Calls
    /\ buffer = [i \in 0 .. call.bytes - 1 |-> 0]
    /\ stage = "start"
    /\ byte_offset = call.byte_offset % SD_BLOCK_SIZE
    /\ lba = call.byte_offset - byte_offset
    /\ bytes = call.bytes
    /\ total = 0
    /\ block = [k \in Offsets |-> 0]
    /\ original = disk

\* A variant that forgets that the bytes may start inside the block.
ToMoveWhole == IF SD_BLOCK_SIZE < bytes THEN SD_BLOCK_SIZE ELSE bytes

(* The bytes of the call that lie in the block of the next access. *)
ToMove == IF SD_BLOCK_SIZE - byte_offset < bytes THEN SD_BLOCK_SIZE - byte_offset ELSE bytes

(* Aligned calls go to the device at once; writeBytes starts with the block that is only *)
(* written from byte_offset on.                                                          *)
Start ==
    /\ stage = "start"
    /\ stage' = IF byte_offset = 0 /\ bytes % SD_BLOCK_SIZE = 0 THEN "whole"
                ELSE IF call.op = "read" THEN IF bytes = 0 THEN "done" ELSE "read"
                ELSE IF byte_offset # 0 \/ bytes < SD_BLOCK_SIZE THEN "fetch"
                ELSE "body"
    /\ UNCHANGED <<disk, call, buffer, lba, byte_offset, bytes, total, block, original>>

Fail ==
    /\ stage' = "failed"
    /\ UNCHANGED <<call, buffer, lba, byte_offset, bytes, total, block, original>>

FailUnchanged == Fail /\ UNCHANGED disk

(* What is at byte n of the caller's buffer can be handed to the device. *)
Aligned(n) == (call.address + n) % 4 = 0

(* The assertion that it is; the card has not stored anything yet. *)
Stop(n) ==
    /\ ~Aligned(n)
    /\ stage' = "stopped"
    /\ UNCHANGED <<disk, call, buffer, lba, byte_offset, bytes, total, block, original>>

(* The device itself refuses a transfer of no blocks. *)
ReadWhole ==
    /\ stage = "whole" /\ call.op = "read"
    /\ \/ FailUnchanged
       \/ bytes > 0 /\ Stop(0)
       \/ /\ bytes > 0 /\ Aligned(0)
          /\ buffer' = [i \in 0 .. bytes - 1 |-> disk[lba + i]]
          /\ stage' = "done"
          /\ UNCHANGED <<disk, call, lba, byte_offset, bytes, total, block, original>>

(* data[0 .. n - 1] stored at position at. *)
Stored(at, n, data) == [p \in Positions |-> IF p \in at .. at + n - 1 THEN data[p - at] ELSE disk[p]]

WriteWhole ==
    /\ stage = "whole" /\ call.op = "write"
    /\ \/ FailUnchanged
       \/ bytes > 0 /\ Stop(0)
       \/ /\ bytes > 0 /\ Aligned(0)
          /\ disk' = Stored(lba, bytes, call.data)
          /\ stage' = "done"
          /\ UNCHANGED <<call, buffer, lba, byte_offset, bytes, total, block, original>>
       \/ Aligned(0) /\ \E S \in SUBSET {k \in 0 .. bytes - 1 : k % SD_BLOCK_SIZE = 0} :
             /\ disk' = [p \in Positions |->
                            IF \E k \in S : p - lba \in k .. k + SD_BLOCK_SIZE - 1
                            THEN call.data[p - lba] ELSE disk[p]]
             /\ Fail

(* One round of the loop of readBytes. *)
ReadBlock ==
    /\ stage = "read"
    /\ \/ FailUnchanged
       \/ /\ buffer' = [i \in DOMAIN buffer |->
                           IF i \in total .. total + ToMove - 1
                           THEN disk[lba + byte_offset + i - total] ELSE buffer[i]]
          /\ total' = total + ToMove
          /\ bytes' = bytes - ToMove
          /\ byte_offset' = 0
          /\ lba' = lba + SD_BLOCK_SIZE
          /\ stage' = IF bytes' = 0 THEN "done" ELSE "read"
          /\ UNCHANGED <<disk, call, block, original>>

\* A variant that does not read what surrounds the data.
FetchNothing ==
    /\ stage = "fetch"
    /\ block' = [k \in Offsets |->
                    IF k \in byte_offset .. byte_offset + ToMove - 1
                    THEN call.data[total + k - byte_offset] ELSE 0]
    /\ stage' = "put"
    /\ UNCHANGED <<disk, call, buffer, lba, byte_offset, bytes, total, original>>

(* A block that is only written in part is read first, at the start and at the end. *)
Fetch ==
    /\ stage = "fetch"
    /\ \/ FailUnchanged
       \/ /\ block' = [k \in Offsets |->
                          IF k \in byte_offset .. byte_offset + ToMove - 1
                          THEN call.data[total + k - byte_offset]
                          ELSE IF lba + k \in Positions THEN disk[lba + k] ELSE 0]
          /\ stage' = "put"
          /\ UNCHANGED <<disk, call, buffer, lba, byte_offset, bytes, total, original>>

(* On to the next block. *)
Advance ==
    /\ total' = total + ToMove
    /\ bytes' = bytes - ToMove
    /\ byte_offset' = 0
    /\ lba' = lba + SD_BLOCK_SIZE
    /\ stage' = IF bytes' = 0 THEN "done" ELSE IF bytes' < SD_BLOCK_SIZE THEN "fetch" ELSE "body"
    /\ UNCHANGED <<call, buffer, block, original>>

Put ==
    /\ stage = "put"
    /\ disk' \in {disk, Stored(lba, SD_BLOCK_SIZE, block)}
    /\ \/ Fail
       \/ disk' = Stored(lba, SD_BLOCK_SIZE, block) /\ Advance

(* A block that is written as a whole comes straight from the caller, whose data is where  *)
(* the partial block before it ended.                                                       *)
Body ==
    /\ stage = "body"
    /\ \/ FailUnchanged
       \/ Stop(total)
       \/ LET data  == [k \in Offsets |-> call.data[total + k]]
              after == Stored(lba, SD_BLOCK_SIZE, data)
          IN  /\ Aligned(total)
              /\ disk' \in {disk, after}
              /\ Fail \/ (disk' = after /\ Advance)

Next == Start \/ ReadWhole \/ WriteWhole \/ ReadBlock \/ Fetch \/ Put \/ Body

Spec == Init /\ [][Next]_vars

----
(* Whatever fails and when, no byte outside the call's range changes, and reads change *)
(* none: partly covered blocks are written back with what surrounds the data.          *)
OthersUntouched ==
    \A p \in Positions :
        \/ disk[p] = original[p]
        \/ /\ call.op = "write"
           /\ p \in call.byte_offset .. call.byte_offset + call.bytes - 1

(* Where the call covers a whole block of the device that is off a word boundary in the    *)
(* caller's buffer.                                                                         *)
OffBoundary(n) ==
    /\ n + SD_BLOCK_SIZE <= call.bytes
    /\ (call.byte_offset + n) % SD_BLOCK_SIZE = 0
    /\ ~Aligned(n)

(* A call that succeeds moved every byte to its place, across all splits into blocks; one   *)
(* stops the kernel only if a whole block of it is OffBoundary.                             *)
Delivered ==
    /\ stage = "done" =>
          \A i \in 0 .. call.bytes - 1 :
              IF call.op = "read" THEN buffer[i] = original[call.byte_offset + i]
              ELSE disk[call.byte_offset + i] = call.data[i]
    /\ stage = "stopped" => \E n \in 0 .. call.bytes : OffBoundary(n)

====
