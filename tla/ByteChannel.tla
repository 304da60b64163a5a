---------------------------- MODULE ByteChannel ----------------------------
(***************************************************************************)
(* What either direction of the console promises: bytes come out in the    *)
(* order they went in, each once, and a channel that loses one says so and  *)
(* hands out no more.                                                      *)
(***************************************************************************)
EXTENDS Sequences, SequencesExt

CONSTANTS Bytes, None

VARIABLES
    queue,    \* the bytes that are in and not yet out
    last,     \* the byte that came out last
    sound     \* whether all bytes that went in come out

Init == queue = <<>> /\ last = None /\ sound = TRUE

Put == /\ \E byte \in Bytes : queue' = Append(queue, byte)
       /\ UNCHANGED <<last, sound>>

Take == /\ sound
        /\ queue # <<>>
        /\ last' = Head(queue)
        /\ queue' = Tail(queue)
        /\ UNCHANGED sound

Lose == /\ \E i \in DOMAIN queue : queue' = RemoveAt(queue, i)
        /\ sound' = FALSE
        /\ UNCHANGED last

Next == Put \/ Take \/ Lose

Spec == Init /\ [][Next]_<<queue, last, sound>>
=============================================================================
