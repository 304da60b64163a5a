---- MODULE MCByteAccess ----
(***************************************************************************)
(* All calls on a device of three small blocks whose bytes all differ, or    *)
(* one call of a routine without state.                                      *)
(***************************************************************************)
EXTENDS ByteAccess, Routines

Bytes == -20 .. 20

OneDisk == {[p \in Positions |-> -1 - p]}

AllCalls ==
    {[op |-> o, bytes |-> n, byte_offset |-> a, address |-> b, data |-> [i \in Positions |-> i + 1]] :
        o \in {"read", "write"}, n \in 0 .. Size, a \in 0 .. Size, b \in {0, 1}}

Inside == {c \in AllCalls : c.byte_offset + c.bytes <= Size}

----
Pieces == {"a", "b", ".", "..", ""}

PathsOf(n) == UNION {[1 .. k -> Pieces] : k \in 1 .. n}

SomePaths ==
    {[cwd |-> c, path |-> p, further |-> f] :
        c \in {EmptyPath, RootPath, <<"", "a">>, <<"", "a", "b">>}, p \in PathsOf(4), f \in PathsOf(2)}

SomeMemory == [p \in 0 .. 39 |-> p + 1]

SomeCopies == {[dest |-> d, src |-> s, n |-> n] : d \in 0 .. 17, s \in 0 .. 17, n \in 0 .. 18}

SomeFills == {[dest |-> d, c |-> c, n |-> n] : d \in 0 .. 9, c \in {-1, 0, 127, 128, 255}, n \in 0 .. 26}

(* In units of 100 kHz: base clocks up to 250 MHz, the rates the driver asks for. *)
SomeClocks ==
    {[base |-> b, target |-> t] : b \in 1 .. 2500, t \in {1, 2, 4, 250, 500, 1000, 2080}}

SomeBauds ==
    {[clockrate |-> c, baud |-> b] :
        c \in {3000000, 24000000, 48000000, 54000000},
        b \in {300, 1200, 9600, 38400, 57600, 115200, 230400, 460800, 921600, 1000000} \cup 2000 .. 2100}

(* Reads up to a whole turn of the lower half apart. *)
SomeTimes ==
    {at \in [1 .. 5 -> 0 .. 11] : at[5] - at[1] < 4 /\ \A i \in 1 .. 4 : at[i] <= at[i + 1]}

----
Idle ==
    /\ disk \in Disks /\ original = disk
    /\ call = CHOOSE c \in Calls : c.op = "read" /\ c.bytes = 0 /\ c.address = 0
    /\ buffer = <<>>
    /\ stage = "failed"
    /\ lba = 0 /\ byte_offset = 0 /\ bytes = 0 /\ total = 0
    /\ block = [k \in Offsets |-> 0]

MCInit == (Init /\ routine = "none" /\ job = <<>>) \/ (Idle /\ RoutineInit)

MCSpec == MCInit /\ [][Next /\ UNCHANGED <<routine, job>>]_<<vars, routine, job>>

====
