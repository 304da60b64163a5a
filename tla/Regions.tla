------------------------------- MODULE Regions -------------------------------
(***************************************************************************)
(* What a heap promises: every region it hands out is aligned, lies behind  *)
(* the start of the heap and shares no byte with one that is still held.    *)
(***************************************************************************)
EXTENDS Integers

CONSTANTS Start, MEMORY_ALIGN, Sizes

VARIABLE live    \* the regions held: [ptr, size]

Apart(r, s) == r.ptr + r.size <= s.ptr \/ s.ptr + s.size <= r.ptr

Init == live = {}

\* One more region is held, wherever the heap likes.
Allocate ==
    \E region \in live' \ live :
        /\ live' = live \union {region}
        /\ region.size \in Sizes
        /\ region.ptr >= Start
        /\ region.ptr % MEMORY_ALIGN = 0
        /\ \A held \in live : Apart(region, held)

Free == \E held \in live : live' = live \ {held}

Spec == Init /\ [][Allocate \/ Free]_live
=============================================================================
