------------------------------ MODULE Commands ------------------------------
(***************************************************************************)
(* A command of cmd/hdfs from its start to its exit, while other clients    *)
(* create and remove files between any two of its calls, and some of its    *)
(* calls fail.                                                              *)
(***************************************************************************)
EXTENDS CopyCommands

\* The command at work.
Client == Expand \/ TreeCommand \/ CopyCommand

\* Other clients.
RivalCreates(p) ==
    /\ p \notin DOMAIN tree /\ IsDir(tree, Parent(p))
    /\ \E node \in {Directory, Node(FALSE, RivalData, FALSE)} : tree' = Put(tree, p, node)

RivalRemoves(p) == p \in DOMAIN tree /\ tree' = Without(tree, p)

Rival(p) ==
    /\ ~At("done") /\ rivals < MaxRivals /\ rivals' = rivals + 1
    /\ RivalCreates(p) \/ RivalRemoves(p)
    /\ touched' = touched \cup {p}
    /\ UNCHANGED <<local, cmd, ctl, faults, start>>

\* The program has ended.
Exited == At("done") /\ UNCHANGED vars

Next == Client \/ (\E p \in RivalPaths : Rival(p)) \/ Exited

Spec == Init /\ [][Next]_vars

\* Calls return, so that the command goes on.
FairSpec == Spec /\ ([]<>At("done") \/ []<><<Client>>_vars)

-----------------------------------------------------------------------------
(* Properties.                                                             *)

\* Every variable keeps its type; the namenode's files form a tree, and only get
\* and df end with a panic.
TypeOK ==
    /\ IsTree(tree) /\ \A p \in DOMAIN tree : tree[p].attrs \subseteq {"mode", "owner", "times"}
    /\ ctl.status \in 0 .. 2 /\ (ctl.status = 2 => cmd.op \in {"get", "df"})
    /\ rivals \in 0 .. MaxRivals /\ faults \in 0 .. MaxFaults
    /\ touched \subseteq RivalPaths

\* What others did has nothing to do with a path.
Untouched(p) == \A q \in touched : ~Related(p, q)

Succeeded == At("done") /\ ctl.status = 0

\* A path that a pattern stands for.
Matches(pattern, p) ==
    Len(pattern) = Len(p) /\ \A i \in 1 .. Len(p) : pattern[i] \in {Glob, p[i]}

\* A path at or below a match of one of the command's arguments.
InArguments(p) ==
    \E i \in 1 .. Len(cmd.args), n \in 0 .. Len(p) : Matches(cmd.args[i], SubSeq(p, 1, n))

\* What a command may change: what its arguments name, and for some what is
\* below or above that.
MayChange(p) ==
    CASE cmd.op = "rm" -> InArguments(p)
      [] cmd.op \in {"chmod", "chown"} ->
            InArguments(p) /\ (Has("R") \/ \E i \in 1 .. Len(cmd.args) : Matches(cmd.args[i], p))
      [] cmd.op = "mv" -> InArguments(p) \/ Under(cmd.dest, p)
      [] cmd.op = "mkdir" -> \E i \in 1 .. Len(cmd.args) :
            IF Has("p") THEN Under(p, cmd.args[i]) ELSE p = cmd.args[i]
      [] cmd.op \in {"touch", "remove"} -> \E i \in 1 .. Len(cmd.args) : p = cmd.args[i]
      [] cmd.op \in {"put", "copyToRemote"} -> Under(cmd.dest, p)
      [] cmd.op = "putStdin" -> Under(p, cmd.dest)
      [] OTHER -> FALSE

\* A command changes nothing but what its arguments name: the paths it puts
\* together from globs, listings and destinations stay among them.
OnlyArguments ==
    [][rivals' = rivals =>
         \A p \in DOMAIN tree \cup DOMAIN tree' :
             (p \in DOMAIN tree /\ p \in DOMAIN tree' /\ tree[p] = tree'[p]) \/ MayChange(p)]_vars

\* What the commands check before they act holds when they do, if nobody else
\* changes it in between: without -r rm removes no directory, with -n mv
\* replaces nothing; Remove never removes a directory that has entries.  And no
\* command but rm and mv destroys or overwrites a file that it has not made
\* itself, even if the file appears after the command has looked for it.
ChecksHold ==
    [][rivals' = rivals =>
         \A p \in DOMAIN tree :
             /\ cmd.op = "rm" /\ ~Has("r") /\ IsDir(tree, p) /\ Untouched(p) => p \in DOMAIN tree'
             /\ cmd.op = "remove" /\ Children(tree, p) # {} => p \in DOMAIN tree'
             /\ cmd.op = "mv" /\ Has("n") /\ Untouched(p) /\ ~InArguments(p) =>
                    p \in DOMAIN tree' /\ tree'[p] = tree[p]
             /\ cmd.op \notin {"rm", "mv", "remove"} /\ IsFile(tree, p) /\ ~tree[p].open =>
                    p \in DOMAIN tree' /\ tree'[p].data = tree[p].data]_vars

\* Where mv has put a source.
Moved(s) == IF ctl.frames = <<"into">> THEN Into(cmd.dest, s) ELSE cmd.dest

\* An argument has become what the command is for.
Reached(p) ==
    CASE cmd.op \in {"rm", "remove"} -> p \notin DOMAIN tree
      [] cmd.op = "mkdir" -> IsDir(tree, p) \/ (Has("p") /\ IsFile(start, p))
      [] cmd.op = "touch" -> /\ p \in DOMAIN tree
                             /\ p \in DOMAIN start => "times" \in tree[p].attrs
      [] cmd.op = "chmod" -> p \in DOMAIN tree /\ "mode" \in tree[p].attrs
      [] cmd.op = "chown" -> p \in DOMAIN tree /\ "owner" \in tree[p].attrs
      [] cmd.op = "mv" -> \/ ~Untouched(Moved(p))
                          \/ \E i \in 1 .. Len(ctl.args) :
                                 ctl.args[i] # p /\ Related(Moved(ctl.args[i]), Moved(p))
                          \/ p \notin DOMAIN tree /\ tree[Moved(p)] = start[p]
      [] OTHER -> TRUE

\* An exit status of 0 is true for every argument that others have left alone,
\* whatever calls failed: rm has removed it, mkdir made it, and so on.  (Two
\* exceptions: mkdir -p over a file, and mv of several sources to one name.)
\* With -R and without failed calls it is true of everything below as well.
ExitHonest ==
    Succeeded => \A i \in 1 .. Len(ctl.args) :
        /\ Untouched(ctl.args[i]) => Reached(ctl.args[i])
        /\ faults = 0 /\ Has("R") =>
               \A p \in Below(start, ctl.args[i]) : Untouched(p) => Reached(p)

\* The contents of files, in order.
ContentsOf(paths) == [i \in 1 .. Len(paths) |-> start[paths[i]].data]

\* What get, getmerge and cat leave behind if they succeed.
FetchedRight ==
    CASE cmd.op = "get" ->
            \A p \in Below(start, cmd.args[1]) : Untouched(p) =>
                LET q == SubSeq(p, Len(cmd.args[1]) + 1, Len(p))
                IN  /\ q \in DOMAIN local /\ local[q].dir = start[p].dir
                    /\ ~start[p].dir => local[q].data = <<start[p].data>>
      [] cmd.op = "getmerge" -> touched = {} =>
            SelectSeq(ctl.out, LAMBDA d : d # Newline) =
                ContentsOf(SelectSeq(WalkChildren(cmd.args[1], NamesIn(start, cmd.args[1], -1)),
                                     LAMBDA p : ~start[p].dir))
      [] cmd.op = "cat" -> touched = {} => ctl.out = ContentsOf(ctl.args)
      [] OTHER -> TRUE

\* What put and CopyToRemote leave behind if no call failed and nothing was in
\* the way.
StoredRight ==
    cmd.op \in {"put", "copyToRemote"} /\ IsDir(start, Parent(ctl.dest)) =>
        \A q \in DOMAIN local :
            LET p == ctl.dest \o q
            IN  /\ \A n \in Len(ctl.dest) .. Len(p) : SubSeq(p, 1, n) \notin DOMAIN start
                /\ Untouched(p)
                => p \in DOMAIN tree /\ ~tree[p].open
                   /\ (~local[q].dir => tree[p].data = local[q].data[1])

\* A copy that succeeds is complete: get, getmerge and cat have everything that
\* others left alone, whatever failed; put has stored everything, if no call
\* failed and nothing was there before.
CopyFaithful == Succeeded => FetchedRight /\ (faults = 0 => StoredRight)

\* Without failures and changes du prints the size of all that is below its
\* arguments, as the namenode's own summary has it; ls that succeeds lists all
\* entries of its directories that others have left alone, without -a only
\* those whose names do not begin with a dot (printFiles).
ReportsRight ==
    /\ Succeeded /\ cmd.op = "du" /\ faults = 0 /\ touched = {} =>
           ctl.out = [i \in 1 .. Len(ctl.args) |-> Total(start, ctl.args[i])]
    /\ Succeeded /\ cmd.op = "ls" =>
           \A i \in 1 .. Len(ctl.args) : \A p \in Children(start, ctl.args[i]) :
               LET shown == Has("a") \/ Name(p) \notin Hidden
               IN  /\ shown /\ Untouched(p) => p \in Range(ctl.out)
                   /\ ~shown /\ p \in Range(ctl.out) => p \in Range(ctl.args)

\* Every command ends.
Terminates == <>At("done")

-----------------------------------------------------------------------------
(* Statements that do not hold (README, "Where the code differs").          *)

\* put that exits with 0 has stored the source.
PutStored ==
    Succeeded /\ cmd.op \in {"put", "putStdin"} =>
        \A q \in IF cmd.op = "put" THEN DOMAIN local ELSE {Root} :
            Untouched(ctl.dest \o q) =>
                ctl.dest \o q \in DOMAIN tree /\ ~tree[ctl.dest \o q].open

\* mkdir -p that exits with 0 has made a directory.
MkdirMade ==
    Succeeded /\ cmd.op = "mkdir" => \A i \in 1 .. Len(ctl.args) :
        Untouched(ctl.args[i]) => IsDir(tree, ctl.args[i])

\* mv that exits with 0 has lost no contents of its sources.
MvKeepsSources ==
    Succeeded /\ cmd.op = "mv" /\ touched = {} =>
        \A i \in 1 .. Len(ctl.args) : IsFile(start, ctl.args[i]) =>
            \E p \in DOMAIN tree : tree[p] = start[ctl.args[i]]

\* chmod -R that exits with 0 has visited everything, also if calls failed.
WalkCompleteAlways ==
    Succeeded /\ Has("R") /\ touched = {} =>
        \A i \in 1 .. Len(ctl.args) : \A p \in Below(start, ctl.args[i]) : Reached(p)

\* du that exits with 0 has printed the sizes, also if calls failed.
DuExact ==
    Succeeded /\ cmd.op = "du" /\ touched = {} =>
        ctl.out = [i \in 1 .. Len(ctl.args) |-> Total(start, ctl.args[i])]

\* No command panics.
NoPanic == ctl.status # 2

\* A command that checks for a directory, or for an existing destination, acts
\* only if it is so.
ChecksHoldAlways ==
    [][rivals' = rivals /\ cmd.op = "rm" /\ ~Has("r") =>
         \A p \in DOMAIN tree : IsDir(tree, p) => p \in DOMAIN tree']_vars
=============================================================================
