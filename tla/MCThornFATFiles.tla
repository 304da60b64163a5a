---------------------------- MODULE MCThornFATFiles ----------------------------
(***************************************************************************)
(* Two files on four blocks of two bytes.                                   *)
(***************************************************************************)
EXTENDS ThornFATFiles

CONSTANTS x, y

MCFiles == {x, y}

Op(op, name) == [op |-> op, name |-> name]
Truncate(name, size) == [op |-> "truncate", name |-> name, size |-> size]
WriteTo(name, offset, bytes) == [op |-> "write", name |-> name, offset |-> offset, bytes |-> bytes]

\* Writes that are small, start inside a block, leave a gap or take three blocks.
MCCalls ==
    {Op(op, n) : op \in {"create", "remove"}, n \in MCFiles}
    \union {Truncate(n, 0) : n \in MCFiles} \union {Truncate(x, 1), Truncate(y, 2)}
    \union {WriteTo(x, 0, <<1, 2, 3>>), WriteTo(x, 1, <<4, 5, 6>>),
            WriteTo(y, 0, <<7, 8, 9, 10, 11>>)}

\* The bytes of free blocks and freed entries do not influence what follows.
Relevant ==
    <<fat, listed, todo, call, content, cuts,
      [s \in Slots |-> IF slots[s].start = FREE THEN NoEntry ELSE slots[s]],
      [p \in Addresses |-> IF fat[p \div BlockSize] = FREE THEN 0 ELSE data[p]]>>
=============================================================================
