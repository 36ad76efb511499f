----------------------------- MODULE CommandLine -----------------------------
(***************************************************************************)
(* What the commands of cmd/hdfs have in common: one command runs, call by  *)
(* call, against a namenode that others use at the same time and whose      *)
(* calls may fail; its paths are expanded first (paths.go).  The commands   *)
(* are in TreeCommands and CopyCommands.                                    *)
(***************************************************************************)
EXTENDS Namespace

CONSTANTS
    Invocations,    \* commands: [op, args, dest, flags]
    Trees,          \* trees of the namenode at the start
    LocalTrees,     \* local trees at the start; Root is put's source, get's destination
    Hidden,         \* names that begin with a dot
    RivalPaths,     \* paths that others create and remove
    MaxRivals,      \* bound: how many they create or remove
    MaxFaults       \* bound: calls that fail

Ops == {"rm", "remove", "mv", "mkdir", "touch", "chmod", "chown", "put", "putStdin",
        "copyToRemote", "get", "getmerge", "cat", "du", "ls", "section", "checksum", "df",
        "help", "usage"}

ASSUME CommandsAssumption ==
    /\ Invocations \subseteq
           [op : Ops, args : Seq(Path) \ {<<>>}, dest : Path, flags : SUBSET STRING]
    /\ \A t \in Trees : IsTree(t) /\ IsFiles(t)
    /\ \A t \in LocalTrees : DOMAIN t \subseteq Path
    /\ RivalPaths \subseteq Path /\ Hidden \subseteq Nat
    /\ MaxRivals \in Nat /\ MaxFaults \in Nat

VARIABLES
    tree,           \* the namenode's files
    local,          \* local files; data is a sequence of contents
    cmd,            \* the command
    ctl,            \* where it is, and its variables (see Begin)
    rivals, faults, \* counters for the bounds
    start,          \* history: the tree when the command began
    touched         \* history: paths that others created or removed since

vars == <<tree, local, cmd, ctl, rivals, faults, start, touched>>

RivalData == 50     \* contents of a file that another client wrote
Partial == 70       \* contents of a file that was not copied to its end
NoNode == [dir |-> FALSE, data |-> 0]

Has(flag) == flag \in cmd.flags

\* hasGlob
HasGlob(p) == \E i \in 1 .. Len(p) : p[i] = Glob

\* The label where the work on the next argument begins.
Body(op) ==
    CASE op \in {"chmod", "chown"} -> IF Has("R") THEN "walk" ELSE "visitStat"
      [] op \in {"put", "putStdin", "copyToRemote"} -> "putNext"
      [] OTHER -> op

\* The label after the last argument.
End(op) == CASE op = "cat" -> "copy" [] op = "ls" -> "lsDir" [] OTHER -> "done"

\* A command line that is refused at once: "usage" stands for an unknown
\* command, a mode or flags that make no sense, mv without a destination; the
\* destination of mv must have no glob.  "help" stands for a command line that
\* only has the usage printed, as one without the arguments it needs does.
Refused(c) == c.op = "usage" \/ (c.op = "mv" /\ HasGlob(c.dest))

\* ctl when a command begins: args are its expanded paths, work the
\* expansion still to be done, todo the arguments still to be done, walk the
\* paths of a walk still to be visited, info and frames what earlier calls
\* returned, out what has been printed.
Begin(c) ==
    [pc |-> CASE c.op = "help" \/ Refused(c) -> "done"
              [] c.op \in {"rm", "chmod", "chown", "du", "ls", "cat", "section", "checksum", "mv"}
                 -> "expand"
              [] c.op \in {"put", "putStdin"} -> "put"
              [] c.op = "copyToRemote" -> "putNext"
              [] c.op = "get" -> "getWalk"
              [] c.op = "getmerge" -> "mergeCreate"
              [] OTHER -> c.op,
     args |-> IF c.op \in {"mkdir", "touch", "remove"} THEN c.args ELSE <<>>,
     work |-> [i \in 1 .. Len(c.args) |-> [kind |-> "arg", path |-> c.args[i], mark |-> 0]],
     todo |-> IF c.op = "copyToRemote" THEN <<Root>> ELSE c.args,
     walk |-> <<c.args[1]>>, dest |-> c.dest, info |-> NoNode, frames |-> <<>>,
     status |-> IF Refused(c) THEN 1 ELSE 0, out |-> <<>>]

Init ==
    /\ cmd \in Invocations /\ tree \in Trees
    /\ local \in IF cmd.op \in {"put", "putStdin", "copyToRemote", "get", "getmerge"}
                 THEN LocalTrees ELSE {<<>>}
    /\ ctl = Begin(cmd)
    /\ rivals = 0 /\ faults = 0 /\ start = tree /\ touched = {}

-----------------------------------------------------------------------------
(* Control.                                                                *)

At(label) == ctl.pc = label
Goto(label) == [ctl EXCEPT !.pc = label]

\* fatal, and a panic
Fatal == [ctl EXCEPT !.pc = "done", !.status = 1]
Panic == [ctl EXCEPT !.pc = "done", !.status = 2]

\* The error is printed, and status set for the exit.
Failing(c) == [c EXCEPT !.status = 1]

\* The argument at hand, and on to the next one.
Cur == Head(ctl.todo)

NextArg(c) ==
    [c EXCEPT !.todo = Tail(@),
              !.pc = IF Len(c.todo) = 1 THEN End(cmd.op) ELSE Body(cmd.op),
              !.walk = IF Len(c.todo) > 1 /\ cmd.op \in {"chmod", "chown"}
                       THEN <<c.todo[2]>> ELSE @]

LocalStep(c) == ctl' = c /\ UNCHANGED <<tree, local, cmd, rivals, faults, start, touched>>

-----------------------------------------------------------------------------
(* Calls to the namenode.  K is what the caller does with the answer.       *)

CallFails == faults < MaxFaults /\ faults' = faults + 1
CallWorks == UNCHANGED faults

\* getFileInfo: Stat, Open, and the first call of most operations.
FileInfo(p) ==
    IF p \in DOMAIN tree THEN [err |-> "nil", dir |-> tree[p].dir, data |-> tree[p].data]
    ELSE [err |-> "NotExist", dir |-> FALSE, data |-> 0]

GetFileInfo(p, K(_)) ==
    /\ \/ CallWorks /\ ctl' = K(FileInfo(p))
       \/ CallFails /\ ctl' = K([err |-> "IOException", dir |-> FALSE, data |-> 0])
    /\ UNCHANGED <<tree, local, cmd, rivals, start, touched>>

\* The entries of a directory after a name, as Readdir returns them.
Listing(p, after) ==
    IF IsDir(tree, p)
    THEN [err |-> "nil", names |-> NamesIn(tree, p, after)]
    ELSE [err |-> "NotExist", names |-> <<>>]

GetListing(p, after, K(_)) ==
    /\ \/ CallWorks /\ ctl' = K(Listing(p, after))
       \/ CallFails /\ ctl' = K([err |-> "IOException", names |-> <<>>])
    /\ UNCHANGED <<tree, local, cmd, rivals, start, touched>>

\* A call that changes the tree.  It may fail before or after it had effect.
Execute(result, K(_)) ==
    /\ \/ CallWorks /\ tree' = result.tree /\ ctl' = K(interpretException(result.err))
       \/ CallFails /\ tree' \in {tree, result.tree} /\ ctl' = K("IOException")
    /\ UNCHANGED <<local, cmd, rivals, start, touched>>

-----------------------------------------------------------------------------
(* expandPaths and expandGlobs.                                             *)

Item == Head(ctl.work)
Expanding(kind) == At("expand") /\ ctl.work # <<>> /\ Item.kind = kind
Pop == [ctl EXCEPT !.work = Tail(@)]

\* The place of the first glob in a path; what is before it and after it.
SplitAt(p) == CHOOSE i \in 1 .. Len(p) : p[i] = Glob /\ \A j \in 1 .. (i - 1) : p[j] # Glob
GlobBase(p) == SubSeq(p, 1, SplitAt(p) - 1)
GlobRest(p) == SubSeq(p, SplitAt(p) + 1, Len(p))

\* All paths are expanded: the command proper.
ExpandDone ==
    /\ At("expand") /\ ctl.work = <<>>
    /\ LocalStep([ctl EXCEPT !.pc = IF cmd.op = "mv" THEN "mvDest" ELSE Body(cmd.op),
                             !.todo = ctl.args, !.walk = IF cmd.op \in {"chmod", "chown"}
                                                         THEN <<Head(ctl.args)>> ELSE <<>>])

ExpandPath ==
    /\ Expanding("arg")
    /\ LocalStep(IF HasGlob(Item.path)
                 THEN [ctl EXCEPT !.work = <<[Item EXCEPT !.kind = "glob"],
                                             [Item EXCEPT !.kind = "end", !.mark = Len(ctl.args)]>>
                                           \o Tail(@)]
                 ELSE [Pop EXCEPT !.args = Append(@, Item.path)])

\* Nothing matched.
ExpandEnd ==
    /\ Expanding("end")
    /\ LocalStep(IF Len(ctl.args) = Item.mark THEN Fatal ELSE Pop)

\* client.ReadDir(base)
ExpandOpen ==
    /\ Expanding("glob")
    /\ GetFileInfo(GlobBase(Item.path), LAMBDA r :
           IF r.err # "nil" \/ ~r.dir THEN Fatal ELSE Goto("expandList"))

NewPath(p, name) == GlobBase(p) \o <<name>> \o GlobRest(p)

\* What becomes of an entry: a path with a glob in it is expanded again if the
\* entry is a directory and skipped if not, another one is looked up.
EntryItem(name) ==
    LET p == NewPath(Item.path, name)
    IN  [kind |-> IF ~HasGlob(p) THEN "stat"
                  ELSE IF IsDir(tree, Append(GlobBase(Item.path), name)) THEN "glob" ELSE "skip",
         path |-> p, mark |-> 0]

ExpandList ==
    /\ At("expandList")
    /\ GetListing(GlobBase(Item.path), -1, LAMBDA r :
           IF r.err # "nil" THEN Fatal
           ELSE [ctl EXCEPT !.pc = "expand",
                            !.work = [i \in 1 .. Len(r.names) |-> EntryItem(r.names[i])]
                                     \o Tail(@)])

ExpandStat ==
    /\ Expanding("stat")
    /\ GetFileInfo(Item.path, LAMBDA r :
           IF r.err = "NotExist" THEN Pop
           ELSE IF r.err # "nil" THEN Fatal
           ELSE [Pop EXCEPT !.args = Append(@, Item.path)])

ExpandSkip == Expanding("skip") /\ LocalStep(Pop)

Expand ==
    \/ ExpandDone \/ ExpandPath \/ ExpandEnd
    \/ ExpandOpen \/ ExpandList \/ ExpandStat \/ ExpandSkip
=============================================================================
