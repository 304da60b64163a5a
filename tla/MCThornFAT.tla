------------------------------ MODULE MCThornFAT ------------------------------
(* Instances of ThornFAT for TLC: two names, paths of at most two components, and a
   name that is too long. *)
EXTENDS ThornFATProperties, TLC

CONSTANTS a, b, long

ShortNames == {a, b}
MCNames == ShortNames \union {long}
AllPaths == {<<>>, <<long>>} \union {<<x>> : x \in ShortNames}
            \union {<<x, y>> : x, y \in ShortNames}
FewPaths == {<<>>, <<a>>, <<b>>, <<a, b>>, <<long>>}

\* Bytes that read as nothing, and bytes that forge an entry.
MCContents == {Nothing, [name |-> a, type |-> "file", start |-> RootBlock + 1, length |-> 1]}

NameSymmetry == Permutations(ShortNames)

\* What can still influence a call: ret can only through a panic, of a freed entry
\* only that it is free, and the times not at all.
Relevant == <<fat, root, Calls,
              [o \in Offsets |-> IF disk[o].start = FREE THEN Nothing ELSE disk[o]]>>

\* Disciplined callers never see more than the live entries and the first entry
\* of each live directory.
LiveView ==
    LET live == Live
        dirs == {o \in live : EntryAt(o).type = "dir"}
        firsts == {EntryAt(o).start * EntriesPerBlock : o \in dirs}
    IN  <<fat, root, Calls, {<<o, disk[o]>> : o \in live},
          {<<o, disk[o].name, disk[o].start>> : o \in firsts}>>
=============================================================================
