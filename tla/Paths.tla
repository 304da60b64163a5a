---- MODULE Paths ----
(***************************************************************************)
(* Paths: src/fs/FS.cpp, splitToList in src/util.cpp and the path helpers   *)
(* of src/fs/tfat/ThornFATUtil.cpp.  A path is the sequence of what stands   *)
(* between its slashes: "/a/b" is <<"", "a", "b">>, "/" is <<"", "">> and    *)
(* the empty string is <<"">>.                                               *)
(***************************************************************************)
EXTENDS Naturals, Sequences, SequencesExt

EmptyPath == <<"">>
RootPath  == <<"", "">>

(* path.front() == '/' *)
IsAbsolute(path) == Len(path) > 1 /\ Head(path) = ""

(* one + '/' + other *)
Joined(one, other) == one \o other

(* splitToList with condense: empty pieces go, but for the one before the first slash. *)
SplitToList(path) ==
    LET out[n \in 0 .. Len(path)] ==
            IF n = 0 THEN <<>>
            ELSE IF n > 1 /\ path[n] = "" THEN out[n - 1]
            ELSE Append(out[n - 1], path[n])
    IN  IF path = EmptyPath THEN <<>> ELSE out[Len(path)]

\* A variant whose ".." only takes itself away.
SimplifiedShort(pieces) ==
    LET kept[n \in 0 .. Len(pieces)] ==
            IF n = 0 THEN <<>>
            ELSE IF pieces[n] \in {"", ".", ".."} THEN kept[n - 1]
            ELSE Append(kept[n - 1], pieces[n])
    IN  kept[Len(pieces)]

(* A turn of the loop of simplifyPath: what is before the iterator has been kept. *)
Turn(kept, piece) ==
    IF piece \in {"", "."} \/ (piece = ".." /\ kept = <<>>) THEN kept
    ELSE IF piece = ".." THEN Front(kept)
    ELSE Append(kept, piece)

(* The loop. *)
Simplified(pieces) ==
    LET kept[n \in 0 .. Len(pieces)] == IF n = 0 THEN <<>> ELSE Turn(kept[n - 1], pieces[n])
    IN  kept[Len(pieces)]

Absolute(names) == IF names = <<>> THEN RootPath ELSE EmptyPath \o names

SimplifyOne(path) == IF path = EmptyPath THEN RootPath ELSE Absolute(Simplified(SplitToList(path)))

(* simplifyPath with the working directory; the end of cwd is a slash only in "/". *)
SimplifyPath(cwd, path) ==
    LET base == IF cwd = EmptyPath THEN RootPath ELSE cwd
        full == IF IsAbsolute(path) THEN path
                ELSE IF Last(base) = "" THEN Joined(Front(base), path)
                ELSE Joined(base, path)
    IN  IF path = EmptyPath THEN base ELSE Absolute(Simplified(SplitToList(full)))

(* pathFirst: the first name and what is left. *)
PathFirst(path) ==
    LET rest == IF IsAbsolute(path) THEN Tail(path) ELSE path
    IN  [name |-> Head(rest),
         remainder |-> IF Tail(rest) \in {<<>>, EmptyPath} THEN EmptyPath ELSE EmptyPath \o Tail(rest)]

(* The names ThornFAT::find meets when it takes pathFirst until nothing remains. *)
Walked(path) ==
    LET left[n \in 0 .. Len(path)] ==
            IF n = 0 THEN path
            ELSE IF left[n - 1] = EmptyPath THEN EmptyPath
            ELSE PathFirst(left[n - 1]).remainder
        steps == Cardinality({n \in 0 .. Len(path) : left[n] # EmptyPath})
    IN  [n \in 1 .. steps |-> PathFirst(left[n - 1]).name]

(* A slash at the end does not count. *)
Unterminated(path) == IF Len(path) > 1 /\ Last(path) = "" THEN Front(path) ELSE path

PathLast(path) == Last(Unterminated(path))

PathParent(path) ==
    LET up == Front(Unterminated(path))
    IN  IF path \in {EmptyPath, RootPath} \/ up = EmptyPath THEN RootPath
        ELSE IF up = <<>> THEN EmptyPath
        ELSE up

----
(* For a canonical cwd: *)
Canonical(path) ==
    path = RootPath \/ (IsAbsolute(path) /\ \A i \in 2 .. Len(path) : path[i] \notin {"", ".", ".."})

(* What the shell's commands rely on when they simplify first and what the driver relies on *)
(* when it takes the result apart again: the result is canonical and stays as it is, going   *)
(* on from a simplified path is going on from the path itself, the parent is what ".." names, *)
(* and walking a path meets its names, the last of which is pathLast.                        *)
PathAgrees(cwd, path, further) ==
    LET simple == SimplifyPath(cwd, path)
        names  == IF simple = RootPath THEN <<"">> ELSE Tail(simple)
    IN  /\ Canonical(simple)
        /\ SimplifyOne(simple) = simple
        /\ path # EmptyPath /\ ~IsAbsolute(further) =>
               SimplifyPath(simple, further) = SimplifyPath(cwd, Joined(path, further))
        /\ PathParent(simple) = SimplifyPath(simple, <<"..">>)
        /\ Walked(simple) = names
        /\ PathLast(simple) = Last(names)

====
