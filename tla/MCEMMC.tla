---- MODULE MCEMMC ----
(***************************************************************************)
(* Small instances of the SD card driver for TLC.                           *)
(***************************************************************************)
EXTENDS EMMCProperties

R(op, block, count, value) ==
    [op |-> op, block |-> block, count |-> count, value |-> value, aligned |-> TRUE]

Unaligned(r) == [r EXCEPT !.aligned = FALSE]

(* Two blocks: single block and overlapping double transfers of two values; and all of *)
(* three blocks, more than a command may move.                                         *)
Small == {R("read", 0, 2, "old"), R("read", 1, 1, "old"),
          R("write", 0, 2, "new"), R("write", 1, 1, "old"),
          R("read", 0, 3, "old")}

(* One read and one write, and a read into a buffer that is not aligned. *)
Tiny == {R("read", 0, 1, "old"), R("write", 0, 1, "new"), Unaligned(R("read", 0, 1, "old"))}

(* Faults the driver can get out of. *)
SomePlaces == (Places \ {"idle"}) \cup {"bus", "busy", "socket", "resetCmd", "resetDat", "power"}

AllPlaces == SomePlaces \cup {"clock"}

====
