------------------------------ MODULE Namespace ------------------------------
(***************************************************************************)
(* The file tree that the client's metadata operations read and change.    *)
(* The tree is the namenode's, modelled from what remove.go, rename.go,     *)
(* mkdir.go, perms.go, stat.go and file_writer.go ask of it; what is here   *)
(* is atomic, and the steps between two such calls are in Commands.         *)
(*                                                                         *)
(* A path is a sequence of names, the root the empty one.  A name is its    *)
(* place in the order of names.  Glob is a name made of a glob character.   *)
(***************************************************************************)
EXTENDS Integers, Sequences, FiniteSets, Functions

Path == Seq(Nat)
Root == <<>>
Glob == 0

Name(p) == p[Len(p)]
Parent(p) == SubSeq(p, 1, Len(p) - 1)

\* q is p or is below it.
Under(p, q) == Len(p) <= Len(q) /\ \A i \in 1 .. Len(p) : p[i] = q[i]
Related(p, q) == Under(p, q) \/ Under(q, p)

\* Where something goes that is put into a directory under its own name.
Into(dir, p) == IF p = Root THEN dir ELSE Append(dir, Name(p))

\* A file or directory.  data stands for a file's contents and is its size
\* (du adds it up); attrs are the attributes the client has set; open is a
\* file that the client has created and not yet completed.
Node(isDir, data, open) == [dir |-> isDir, data |-> data, attrs |-> {}, open |-> open]
Directory == Node(TRUE, 0, FALSE)

\* A node has these four fields.
IsNode(n) == DOMAIN n = {"dir", "data", "attrs", "open"}

IsDir(t, p) == p \in DOMAIN t /\ t[p].dir
IsFile(t, p) == p \in DOMAIN t /\ ~t[p].dir
HasParents(t) == \A p \in DOMAIN t \ {Root} : IsDir(t, Parent(p))

\* Finitely many paths, each with a node.
IsFiles(t) ==
    /\ DOMAIN t \subseteq Path /\ IsFiniteSet(DOMAIN t)
    /\ \A p \in DOMAIN t : IsNode(t[p])

IsTree(t) == IsDir(t, Root) /\ HasParents(t)

Put(t, p, node) == [q \in DOMAIN t \cup {p} |-> IF q = p THEN node ELSE t[q]]
Without(t, p) == [q \in {q \in DOMAIN t : ~Under(p, q)} |-> t[q]]
Below(t, p) == {q \in DOMAIN t : Under(p, q)}
Children(t, p) == {q \in DOMAIN t \ {Root} : Parent(q) = p}

\* The elements of a set in order.
Sorted(S, before(_, _)) ==
    CHOOSE s \in [1 .. Cardinality(S) -> S] :
        \A i, j \in 1 .. Cardinality(S) : i < j => before(s[i], s[j])

\* The names of a directory that come after a name.
NamesIn(t, p, after) == Sorted({Name(q) : q \in {c \in Children(t, p) : Name(c) > after}}, <)

-----------------------------------------------------------------------------
(* Errors.                                                                 *)

\* error.go: the exceptions that have a meaning in package os.
interpretException(e) ==
    CASE e = "FileNotFoundException" -> "NotExist"
      [] e = "AccessControlException" -> "Permission"
      [] e = "PathIsNotEmptyDirectoryException" -> "NotEmpty"
      [] OTHER -> e

-----------------------------------------------------------------------------
(* What the namenode does: the new tree, and an exception or "nil".         *)

Result(t, e) == [tree |-> t, err |-> e]

\* The exception for a path that cannot get an entry, because of its parent.
ParentProblem(t, p) ==
    IF Parent(p) \notin DOMAIN t THEN "FileNotFoundException"
    ELSE IF ~t[Parent(p)].dir THEN "ParentNotDirectoryException" ELSE "nil"

Delete(t, p, recursive) ==
    IF ~recursive /\ Children(t, p) # {}
    THEN Result(t, "PathIsNotEmptyDirectoryException")
    ELSE Result(Without(t, p), "nil")

\* mkdirs, with createParent; the ancestors that are missing are made too.
Mkdirs(t, p, createParent) ==
    LET above == {SubSeq(p, 1, i) : i \in 0 .. Len(p)}
        new == above \ DOMAIN t
    IN  IF \E q \in above : IsFile(t, q) THEN Result(t, "FileAlreadyExistsException")
        ELSE IF ~createParent /\ Parent(p) \notin DOMAIN t
        THEN Result(t, "FileNotFoundException")
        ELSE Result([q \in DOMAIN t \cup new |-> IF q \in new THEN Directory ELSE t[q]], "nil")

\* rename2 with overwriteDest.
Rename2(t, src, dst) ==
    IF src \notin DOMAIN t THEN Result(t, "FileNotFoundException")
    ELSE IF src = dst \/ src = Root \/ dst = Root THEN Result(t, "FileAlreadyExistsException")
    ELSE IF Under(src, dst) THEN Result(t, "IOException")
    ELSE IF ParentProblem(t, dst) # "nil" THEN Result(t, ParentProblem(t, dst))
    ELSE IF dst \in DOMAIN t /\ (t[dst].dir # t[src].dir \/ Children(t, dst) # {})
    THEN Result(t, "IOException")
    ELSE LET rest == Without(Without(t, src), dst)
             moved == {dst \o SubSeq(q, Len(src) + 1, Len(q)) : q \in Below(t, src)}
         IN  Result([q \in DOMAIN rest \cup moved |->
                        IF q \in moved THEN t[src \o SubSeq(q, Len(dst) + 1, Len(q))]
                        ELSE rest[q]], "nil")

\* setPermission, setOwner, setTimes
SetAttr(t, p, attr) ==
    IF p \notin DOMAIN t THEN Result(t, "FileNotFoundException")
    ELSE Result([t EXCEPT ![p].attrs = @ \cup {attr}], "nil")

\* create; flag 1 is CREATE, 3 is CREATE with OVERWRITE, without createParent.
CreateNode(t, p, flag) ==
    IF p # Root /\ ParentProblem(t, p) # "nil" THEN Result(t, ParentProblem(t, p))
    ELSE IF p \in DOMAIN t /\ (t[p].dir \/ flag = 1)
    THEN Result(t, "FileAlreadyExistsException")
    ELSE Result(Put(t, p, Node(FALSE, 0, TRUE)), "nil")

\* complete, by the client that has the file open.
Complete(t, p, data) ==
    IF IsFile(t, p) /\ t[p].open
    THEN Result([t EXCEPT ![p].open = FALSE, ![p].data = data], "nil")
    ELSE Result(t, "LeaseExpiredException")
=============================================================================
