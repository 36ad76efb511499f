---------------------------- MODULE CopyCommands ----------------------------
(***************************************************************************)
(* The commands that carry contents: put, get, getmerge, cat, head, tail    *)
(* and checksum, with CopyToLocal and CopyToRemote of client.go, and the    *)
(* ones that report: du, ls and df.  A copy is one step here; how bytes are  *)
(* written and read is in FileWriter and FileReader.                        *)
(***************************************************************************)
EXTENDS TreeCommands

StdinData == 60     \* what is on the standard input
Newline == -1

\* Sequences of names in the order of a walk.
Before(p, q) ==
    \/ Under(p, q) /\ p # q
    \/ \E i \in 1 .. Len(p) : /\ i <= Len(q) /\ p[i] < q[i]
                              /\ \A j \in 1 .. (i - 1) : p[j] = q[j]

\* A step that changes a local file.
LocalFile(t, c) == local' = t /\ ctl' = c /\ UNCHANGED <<tree, cmd, rivals, faults, start, touched>>

-----------------------------------------------------------------------------
(* put, and CopyToRemote.                                                   *)

\* The order filepath.Walk visits the source in.
WalkOrder == Sorted(DOMAIN local, Before)

\* putFromFile: the source goes into an existing directory under its name.
\* putFromStdin: the destination must not exist.
PutStat ==
    /\ At("put")
    /\ GetFileInfo(cmd.dest, LAMBDA r :
           IF r.err \notin {"nil", "NotExist"} THEN Fatal
           ELSE IF cmd.op = "putStdin"
           THEN IF r.err = "nil" THEN Fatal
                ELSE [ctl EXCEPT !.todo = <<Root>>,
                                 !.pc = IF Len(cmd.dest) > 1 THEN "putParent" ELSE "putInfo"]
           ELSE IF r.err = "nil" /\ ~r.dir THEN Fatal
           ELSE [ctl EXCEPT !.dest = IF r.dir THEN Into(@, cmd.args[1]) ELSE @,
                            !.todo = WalkOrder,
                            !.pc = IF WalkOrder = <<>> THEN "done" ELSE "putNext"])

\* putFromStdin makes the directory above.
PutParentEnds(e) == IF e = "nil" THEN Goto("putInfo") ELSE Fatal
PutParentInfo == At("putParent") /\ MkdirInfo(Parent(cmd.dest), TRUE, "putMkdirs", PutParentEnds)
PutParentCall == At("putMkdirs") /\ Execute(Mkdirs(tree, Parent(cmd.dest), TRUE), PutParentEnds)

\* The next file or directory of the source, and where it goes.
PutPath == ctl.dest \o Cur
PutNext ==
    /\ At("putNext")
    /\ LocalStep(IF Cur \notin DOMAIN local THEN Fatal
                 ELSE Goto(IF cmd.op = "put" /\ local[Cur].dir THEN "putDir" ELSE "putInfo"))

\* putFromFile does not look at the error of Mkdir.
PutDirInfo == At("putDir") /\ MkdirInfo(PutPath, FALSE, "putDirCall", LAMBDA e : NextArg(ctl))
PutDirCall == At("putDirCall") /\ Execute(Mkdirs(tree, PutPath, FALSE), LAMBDA e : NextArg(ctl))

\* Create fails: putFromFile prints it and goes on, the others end.
PutFails(e) == IF cmd.op = "put" THEN NextArg(ctl) ELSE Fatal
PutInfo == At("putInfo") /\ CreateInfo(PutPath, "putCreate", PutFails)
PutCreate == At("putCreate") /\ CreateCall(PutPath, "putCopy", PutFails)

\* What io.Copy reads; a directory cannot be read.
PutData == IF cmd.op = "putStdin" THEN StdinData
           ELSE IF local[Cur].dir THEN Partial ELSE local[Cur].data[1]

\* io.Copy; only CopyToRemote returns its error.
PutCopied(data) ==
    [ctl EXCEPT !.pc = "putClose", !.info.data = data,
                !.status = IF data = Partial /\ cmd.op = "copyToRemote" THEN 1 ELSE @]

PutCopy ==
    /\ At("putCopy")
    /\ \/ CallWorks /\ ctl' = PutCopied(PutData)
       \/ CallFails /\ ctl' = PutCopied(Partial)
    /\ UNCHANGED <<tree, local, cmd, rivals, start, touched>>

\* The deferred Close, whose error nobody sees.
PutClose ==
    /\ At("putClose")
    /\ Execute(Complete(tree, PutPath, ctl.info.data), LAMBDA e : NextArg(ctl))

PutCommand ==
    \/ PutStat \/ PutParentInfo \/ PutParentCall \/ PutNext \/ PutDirInfo \/ PutDirCall
    \/ PutInfo \/ PutCreate \/ PutCopy \/ PutClose

-----------------------------------------------------------------------------
(* get, and CopyToLocal.                                                    *)

\* Where the path at hand goes, below the local destination.
GetPath == SubSeq(Head(ctl.walk), Len(cmd.args[1]) + 1, Len(Head(ctl.walk)))

GetOn(rest) == [ctl EXCEPT !.walk = rest, !.pc = IF rest = <<>> THEN "done" ELSE "getWalk"]

\* walk's Open; the visit uses the info even if there is none.
GetOpen ==
    /\ At("getWalk")
    /\ GetFileInfo(Head(ctl.walk), LAMBDA r :
           IF r.err # "nil" THEN Panic ELSE Goto(IF r.dir THEN "getMkdir" ELSE "getFile"))

LocalParent(p) == p = Root \/ IsDir(local, Parent(p))

\* os.Mkdir
GetMkdir ==
    /\ At("getMkdir")
    /\ IF GetPath \in DOMAIN local \/ ~LocalParent(GetPath) THEN LocalStep(Fatal)
       ELSE LocalFile(Put(local, GetPath, Directory), Goto("getList"))

\* Mutant: a listing that fails is taken for an empty one.
GetListQuiet ==
    /\ At("getList")
    /\ GetListing(Head(ctl.walk), -1, LAMBDA r :
           GetOn(WalkChildren(Head(ctl.walk), r.names) \o Tail(ctl.walk)))

\* walk's Readdirnames; if it fails, the second visit finds the directory made.
GetList ==
    /\ At("getList")
    /\ GetListing(Head(ctl.walk), -1, LAMBDA r :
           IF r.err # "nil" THEN Fatal
           ELSE GetOn(WalkChildren(Head(ctl.walk), r.names) \o Tail(ctl.walk)))

\* CopyToLocal: Open, os.Create, io.Copy.
GetFile ==
    /\ At("getFile")
    /\ GetFileInfo(Head(ctl.walk), LAMBDA r :
           IF r.err # "nil" THEN Fatal ELSE [ctl EXCEPT !.pc = "getCreate", !.info.dir = r.dir])

GetCreate ==
    /\ At("getCreate")
    /\ IF IsDir(local, GetPath) \/ ~LocalParent(GetPath) THEN LocalStep(Fatal)
       ELSE LocalFile(Put(local, GetPath, Node(FALSE, <<>>, FALSE)), Goto("getCopy"))

\* The contents of a file, or an error.
ReadFile(p) == IF IsFile(tree, p) THEN <<tree[p].data>> ELSE <<>>

Contents(p, K(_)) ==
    \/ CallWorks /\ K(ReadFile(p))
    \/ CallFails /\ K(<<>>)

GetCopy ==
    /\ At("getCopy")
    /\ Contents(Head(ctl.walk), LAMBDA d :
           IF d = <<>> \/ ctl.info.dir
           THEN ctl' = Fatal /\ UNCHANGED local
           ELSE ctl' = GetOn(Tail(ctl.walk)) /\ local' = [local EXCEPT ![GetPath].data = d])
    /\ UNCHANGED <<tree, cmd, rivals, start, touched>>

Get == GetOpen \/ GetMkdir \/ GetList \/ GetFile \/ GetCreate \/ GetCopy

-----------------------------------------------------------------------------
(* getmerge and cat; their files are opened first and then read in turn.    *)

\* The local file is made before anything is known of the source.
MergeCreate ==
    /\ At("mergeCreate")
    /\ IF IsDir(local, Root) THEN LocalStep(Fatal)
       ELSE LocalFile(Put(local, Root, Node(FALSE, <<>>, FALSE)), Goto("mergeOpen"))

MergeOpen ==
    /\ At("mergeOpen")
    /\ GetFileInfo(cmd.args[1], LAMBDA r :
           IF r.err # "nil" \/ ~r.dir THEN Fatal ELSE Goto("mergeList"))

\* The children that are not directories.
MergeList ==
    /\ At("mergeList")
    /\ GetListing(cmd.args[1], -1, LAMBDA r :
           IF r.err # "nil" THEN Fatal
           ELSE LET files == SelectSeq(WalkChildren(cmd.args[1], r.names),
                                       LAMBDA p : ~tree[p].dir)
                IN  [ctl EXCEPT !.todo = files, !.walk = <<>>,
                                !.pc = IF files = <<>> THEN "copy" ELSE "mergeFile"])

\* client.Open, for each.
MergeFile ==
    /\ At("mergeFile")
    /\ GetFileInfo(Cur, LAMBDA r :
           IF r.err # "nil" THEN Fatal
           ELSE [ctl EXCEPT !.todo = Tail(@), !.walk = Append(@, Cur),
                            !.pc = IF Len(ctl.todo) = 1 THEN "copy" ELSE "mergeFile"])

CatOpen ==
    /\ At("cat")
    /\ GetFileInfo(Cur, LAMBDA r :
           IF r.err # "nil" \/ r.dir THEN Fatal
           ELSE NextArg([ctl EXCEPT !.walk = Append(@, Cur)]))

\* io.Copy from the io.MultiReader, one file after the other.
CopyNext ==
    /\ At("copy")
    /\ IF ctl.walk = <<>> THEN LocalStep(Goto("done"))
       ELSE /\ Contents(Head(ctl.walk), LAMBDA d :
                   ctl' = IF d = <<>> THEN Fatal
                          ELSE [ctl EXCEPT !.walk = Tail(@),
                                           !.out = @ \o d \o (IF Has("n") THEN <<Newline>>
                                                              ELSE <<>>)])
            /\ UNCHANGED <<tree, local, cmd, rivals, start, touched>>

Merge == MergeCreate \/ MergeOpen \/ MergeList \/ MergeFile \/ CatOpen \/ CopyNext

-----------------------------------------------------------------------------
(* du.                                                                      *)

Frame(dir) == [dir |-> dir, kids |-> <<>>, last |-> -1, sum |-> 0]
Top == Head(ctl.frames)

DuStat ==
    /\ At("du")
    /\ GetFileInfo(Cur, LAMBDA r :
           IF r.err # "nil" THEN Failing(NextArg(ctl))
           ELSE IF ~r.dir THEN NextArg([ctl EXCEPT !.out = Append(@, r.data)])
           ELSE IF Has("s") THEN Goto("duSummary")
           ELSE [ctl EXCEPT !.pc = "duOpen", !.frames = <<Frame(Cur)>>])

\* The contents of all files at or below a path.
Total(t, p) == FoldFunction(+, 0, [q \in Below(t, p) |-> t[q].data])

\* GetContentSummary, and Size.
DuSummary ==
    /\ At("duSummary")
    /\ \/ /\ CallWorks
          /\ ctl' = IF Cur \in DOMAIN tree
                    THEN NextArg([ctl EXCEPT !.out = Append(@, Total(tree, Cur))])
                    ELSE Failing(NextArg(ctl))
       \/ CallFails /\ ctl' = Failing(NextArg(ctl))
    /\ UNCHANGED <<tree, local, cmd, rivals, start, touched>>

\* Mutant: the size of a directory is lost on the way up.
DuReturnDrops(v) ==
    IF Len(ctl.frames) = 1 THEN NextArg([ctl EXCEPT !.frames = <<>>, !.out = Append(@, v)])
    ELSE [ctl EXCEPT !.pc = "duChild", !.frames = Tail(@)]

\* duDir returns: to the caller, which adds the size to its own.
DuReturn(v) ==
    IF Len(ctl.frames) = 1 THEN NextArg([ctl EXCEPT !.frames = <<>>, !.out = Append(@, v)])
    ELSE LET up == ctl.frames[2]
         IN  [ctl EXCEPT !.pc = "duChild",
                         !.frames = <<[up EXCEPT !.sum = @ + v]>> \o SubSeq(@, 3, Len(@))]

\* duDir: an error is printed, and what has been added up returned.
DuOpen ==
    /\ At("duOpen")
    /\ GetFileInfo(Top.dir, LAMBDA r :
           IF r.err # "nil" THEN DuReturn(0) ELSE Goto("duList"))

\* Mutant: each listing starts over.
DuListAgain ==
    /\ At("duList")
    /\ GetListing(Top.dir, Top.last, LAMBDA r :
           IF r.err # "nil" \/ r.names = <<>> THEN DuReturn(Top.sum)
           ELSE [ctl EXCEPT !.pc = "duChild", !.frames[1].kids = r.names])

\* dirReader.Readdir(100), until there are no more.
DuList ==
    /\ At("duList")
    /\ GetListing(Top.dir, Top.last, LAMBDA r :
           IF r.err # "nil" \/ r.names = <<>> THEN DuReturn(Top.sum)
           ELSE [ctl EXCEPT !.pc = "duChild", !.frames[1].kids = r.names,
                            !.frames[1].last = r.names[Len(r.names)]])

\* The next child; one that cannot be looked up ends the directory.
DuChild ==
    /\ At("duChild")
    /\ IF Top.kids = <<>> THEN LocalStep(Goto("duList"))
       ELSE LET child == Append(Top.dir, Head(Top.kids))
                next == [ctl EXCEPT !.frames[1].kids = Tail(@)]
            IN  GetFileInfo(child, LAMBDA r :
                    IF r.err # "nil" THEN DuReturn(0)
                    ELSE IF r.dir THEN [next EXCEPT !.pc = "duOpen",
                                                    !.frames = <<Frame(child)>> \o @]
                    ELSE [next EXCEPT !.frames[1].sum = @ + r.data])

Du == DuStat \/ DuSummary \/ DuOpen \/ DuList \/ DuChild

-----------------------------------------------------------------------------
(* ls, head, tail, checksum and df.                                         *)

LsStat ==
    /\ At("ls")
    /\ GetFileInfo(Cur, LAMBDA r :
           IF r.err # "nil" THEN Fatal
           ELSE NextArg(IF r.dir THEN [ctl EXCEPT !.walk = Append(@, Cur)]
                        ELSE [ctl EXCEPT !.out = Append(@, Cur)]))

\* printDir, for each directory; info.data is the last name printed.
LsDir ==
    /\ At("lsDir")
    /\ IF ctl.walk = <<>> THEN LocalStep(Goto("done"))
       ELSE GetFileInfo(Head(ctl.walk), LAMBDA r :
                IF r.err # "nil" \/ ~r.dir THEN Fatal
                ELSE [ctl EXCEPT !.pc = IF Has("l") /\ Has("a") THEN "lsDot" ELSE "lsList",
                                 !.info.data = -1])

\* The lines for . and ..
LsDot ==
    \E here \in {"lsDot", "lsDotDot"} :
        /\ At(here)
        /\ GetFileInfo(IF here = "lsDot" \/ Head(ctl.walk) = Root THEN Head(ctl.walk)
                       ELSE Parent(Head(ctl.walk)), LAMBDA r :
               IF r.err # "nil" THEN Fatal
               ELSE Goto(IF here = "lsDot" THEN "lsDotDot" ELSE "lsList"))

\* printFiles leaves out the names that begin with a dot, unless there is -a.
LsShown(names) == SelectSeq(names, LAMBDA n : Has("a") \/ n \notin Hidden)

LsList ==
    /\ At("lsList")
    /\ GetListing(Head(ctl.walk), ctl.info.data, LAMBDA r :
           IF r.err # "nil" THEN Fatal
           ELSE IF r.names = <<>> THEN [ctl EXCEPT !.pc = "lsDir", !.walk = Tail(@)]
           ELSE [ctl EXCEPT !.info.data = r.names[Len(r.names)],
                            !.out = @ \o WalkChildren(Head(ctl.walk), LsShown(r.names))])

\* printSection; Sections has what it prints.
SectionOpen ==
    /\ At("section")
    /\ GetFileInfo(Cur, LAMBDA r :
           IF r.err # "nil" \/ r.dir THEN Failing(NextArg(ctl)) ELSE Goto("sectionRead"))

\* A read that fails is fatal in the search for lines, and goes unseen in the
\* copy that follows it, or that is all there is with -c.
SectionRead ==
    /\ At("sectionRead")
    /\ Contents(Cur, LAMBDA d : \/ ctl' = NextArg([ctl EXCEPT !.out = @ \o d])
                                \/ d = <<>> /\ ~Has("c") /\ ctl' = Fatal)
    /\ UNCHANGED <<tree, local, cmd, rivals, start, touched>>

ChecksumOpen ==
    /\ At("checksum")
    /\ GetFileInfo(Cur, LAMBDA r :
           IF r.err # "nil" \/ r.dir THEN Fatal ELSE Goto("checksumRead"))

\* FileReader.Checksum
ChecksumRead ==
    /\ At("checksumRead")
    /\ Contents(Cur, LAMBDA d :
           ctl' = IF d = <<>> THEN Fatal ELSE NextArg([ctl EXCEPT !.out = @ \o d]))
    /\ UNCHANGED <<tree, local, cmd, rivals, start, touched>>

\* StatFs; the use in percent of a file system without capacity is a panic.
Df ==
    /\ At("df")
    /\ \/ CallWorks /\ \E capacity \in {0, 4} : ctl' = IF capacity = 0 THEN Panic ELSE Goto("done")
       \/ CallFails /\ ctl' = Fatal
    /\ UNCHANGED <<tree, local, cmd, rivals, start, touched>>

Report ==
    \/ LsStat \/ LsDir \/ LsDot \/ LsList
    \/ SectionOpen \/ SectionRead \/ ChecksumOpen \/ ChecksumRead \/ Df

CopyCommand == PutCommand \/ Get \/ Merge \/ Du \/ Report
=============================================================================
