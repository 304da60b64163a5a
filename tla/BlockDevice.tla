---- MODULE BlockDevice ----
(***************************************************************************)
(* What the SD card driver promises its callers, with hardware that loses   *)
(* commands, answers and blocks and a card that can be pulled out: a call   *)
(* may fail, and a failed write may have stored any of its blocks, and may  *)
(* still store them, until a later call succeeds.  A call that succeeds     *)
(* leaves nothing in doubt: a write has stored all of its blocks, a read    *)
(* returns what the card holds, and no block changes behind them.           *)
(***************************************************************************)
EXTENDS Naturals, Sequences

CONSTANTS Requests, InitCall

VARIABLES
    disk,       \* the blocks
    doubtful,   \* pairs <<block, value>> that may still be stored
    request,    \* the call in progress, or the last one
    answer,     \* "pending", "ok" or "failed"
    result      \* what a successful read returned

vars == <<disk, doubtful, request, answer, result>>

Pairs(r) == IF r.op = "write" THEN (r.block .. r.block + r.count - 1) \X {r.value} ELSE {}

Contents(r) == [i \in 1 .. r.count |-> disk[r.block + i - 1]]

Init ==
    /\ doubtful = {}
    /\ request = InitCall
    /\ answer = "failed"
    /\ result = <<>>

(* A call begins, or is refused at once. *)
Begin ==
    /\ answer # "pending"
    /\ request' \in Requests \cup {InitCall}
    /\ answer' \in {"pending", "failed"}
    /\ doubtful' = IF answer' = "pending" THEN doubtful \cup Pairs(request') ELSE doubtful
    /\ result' = <<>>
    /\ UNCHANGED disk

(* A block of a write reaches the card. *)
Store ==
    /\ \E p \in doubtful : disk' = [disk EXCEPT ![p[1]] = p[2]]
    /\ UNCHANGED <<doubtful, request, answer, result>>

Succeed ==
    /\ answer = "pending"
    /\ answer' = "ok"
    /\ \A p \in Pairs(request) : disk[p[1]] = p[2]
    /\ result' = IF request.op = "read" THEN Contents(request) ELSE <<>>
    /\ doubtful' = {}
    /\ UNCHANGED <<disk, request>>

Fail ==
    /\ answer = "pending"
    /\ answer' = "failed"
    /\ UNCHANGED <<disk, doubtful, request, result>>

Next == Begin \/ Store \/ Succeed \/ Fail

Spec == Init /\ [][Next]_vars

====
