------------------------------ MODULE FileTree ------------------------------
(***************************************************************************)
(* What the callers of a file system driver may rely on, without blocks,   *)
(* slots or tables: a tree of named files and directories.  A call either  *)
(* does what it is for to the path it is made with and returns "OK", or    *)
(* returns an error and leaves the tree alone.                             *)
(***************************************************************************)
EXTENDS Integers, Sequences, SequencesExt

CONSTANTS Paths, Sizes

VARIABLES
    tree,     \* the nodes: the paths that exist, each with its kind and length
    call,     \* the last call: its name and its arguments
    ret       \* what it returned

File(path, size) == [path |-> path, type |-> "file", length |-> size]
Directory(path) == [path |-> path, type |-> "dir", length |-> 0]
Empty == {Directory(<<>>)}

Existing(t) == {n.path : n \in t}
Directories(t) == {n.path : n \in {m \in t : m.type = "dir"}}
Files(t) == {n.path : n \in {m \in t : m.type = "file"}}
Under(t, dir) == {path \in Existing(t) : IsStrictPrefix(dir, path)}
Vacant(t) == {path \in Paths \ Existing(t) : Front(path) \in Directories(t)}

Delete(t, path) == {n \in t : n.path # path}

\* Everything at or under src is found under dest instead, replacing a file.
Move(t, src, dest) ==
    {IF IsPrefix(src, n.path)
     THEN [n EXCEPT !.path = dest \o SubSeq(@, Len(src) + 1, Len(@))]
     ELSE n : n \in Delete(t, dest)}

\* What truncate and write make of a file.
Resized(t, path, size) == Delete(t, path) \union {File(path, size)}
Lengthened(t, path, size) ==
    LET grown(n) == File(path, IF size > n.length THEN size ELSE n.length)
    IN  Delete(t, path) \union {grown(n) : n \in {m \in t : m.path = path}}

\* The calls that can succeed, each with the tree it then leaves behind.
Create(c, before, after) == \E path \in Vacant(before) :
    c = <<"create", path>> /\ after = before \union {File(path, 0)}
Mkdir(c, before, after) == \E path \in Vacant(before) :
    c = <<"mkdir", path>> /\ after = before \union {Directory(path)}
Unlink(c, before, after) == \E path \in Files(before) :
    c = <<"unlink", path>> /\ after = Delete(before, path)
Rmdir(c, before, after) == \E path \in Directories(before) \ {<<>>} :
    c = <<"rmdir", path>> /\ Under(before, path) = {} /\ after = Delete(before, path)
Truncate(c, before, after) == \E path \in Files(before), size \in Sizes :
    c = <<"truncate", path, size>> /\ after = Resized(before, path, size)
Write(c, before, after) == \E path \in Files(before), size \in Sizes :
    c = <<"write", path, size>> /\ after = Lengthened(before, path, size)
Rename(c, before, after) ==
    \E src \in Existing(before) \ {<<>>}, dest \in Vacant(before) \union Files(before) :
        c = <<"rename", src, dest>> /\ ~IsPrefix(src, dest) /\ after = Move(before, src, dest)

\* A look-up or a restart changes nothing; make starts over with an empty root.
LookUp(c, before, after) == \E path \in Existing(before) :
    c \in {<<"read", path>>, <<"utimens", path>>} /\ after = before
Restart(c, before, after) == c = <<"restart">> /\ after = before
Make(c, after) == c = <<"make">> /\ after = Empty

Succeeds(c, before, after) ==
    \/ Create(c, before, after) \/ Mkdir(c, before, after)
    \/ Unlink(c, before, after) \/ Rmdir(c, before, after)
    \/ Truncate(c, before, after) \/ Write(c, before, after)
    \/ Rename(c, before, after) \/ LookUp(c, before, after)
    \/ Restart(c, before, after) \/ Make(c, after)

Init == tree = Empty /\ call = <<"make">> /\ ret = "OK"

Next ==
    \E before \in {tree}, after \in {tree'} :
        IF ret' = "OK" THEN Succeeds(call', before, after) ELSE after = before

Spec == Init /\ [][Next]_<<tree, call, ret>>
=============================================================================
