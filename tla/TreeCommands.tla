---------------------------- MODULE TreeCommands ----------------------------
(***************************************************************************)
(* The commands rm, mv, mkdir, touch, chmod and chown, Client.Remove, and   *)
(* the operations of the client they are made of: delete, Rename, mkdir,    *)
(* Create, CreateEmptyFile, Chmod, Chown, Chtimes and Walk.                 *)
(***************************************************************************)
EXTENDS CommandLine

-----------------------------------------------------------------------------
(* rm, and delete in remove.go.                                             *)

\* Mutant: errors other than a missing file pass with -f.
RmStatForce ==
    /\ At("rm")
    /\ GetFileInfo(Cur, LAMBDA r :
           IF r.err # "nil" /\ Has("f") THEN NextArg(ctl)
           ELSE IF r.err # "nil" \/ (r.dir /\ ~Has("r")) THEN Failing(NextArg(ctl))
           ELSE Goto("rmInfo"))

RmStat ==
    /\ At("rm")
    /\ GetFileInfo(Cur, LAMBDA r :
           IF r.err = "NotExist" /\ Has("f") THEN NextArg(ctl)
           ELSE IF r.err # "nil" \/ (r.dir /\ ~Has("r")) THEN Failing(NextArg(ctl))
           ELSE Goto("rmInfo"))

\* delete looks first.  What RemoveAll makes of a missing file is no error.
RmInfo ==
    /\ At("rmInfo")
    /\ GetFileInfo(Cur, LAMBDA r :
           CASE r.err = "nil" -> Goto("rmDelete")
             [] r.err = "NotExist" -> NextArg(ctl)
             [] OTHER -> Fatal)

RmDelete ==
    /\ At("rmDelete")
    /\ Execute(Delete(tree, Cur, TRUE), LAMBDA e :
           IF e \in {"nil", "NotExist"} THEN NextArg(ctl) ELSE Fatal)

\* Client.Remove: the file or empty directory named.
RemoveInfo ==
    /\ At("remove")
    /\ GetFileInfo(Cur, LAMBDA r : IF r.err = "nil" THEN Goto("removeDelete") ELSE Fatal)

RemoveDelete ==
    /\ At("removeDelete")
    /\ Execute(Delete(tree, Cur, FALSE), LAMBDA e : IF e = "nil" THEN NextArg(ctl) ELSE Fatal)

Rm == RmStat \/ RmInfo \/ RmDelete \/ RemoveInfo \/ RemoveDelete

-----------------------------------------------------------------------------
(* mv, and Rename in rename.go.                                             *)

\* The destination decides between moveInto and moveTo; frames tells which.
MvDest ==
    /\ At("mvDest")
    /\ GetFileInfo(cmd.dest, LAMBDA r :
           IF r.err \notin {"nil", "NotExist"} THEN Fatal
           ELSE IF r.err = "nil" /\ ~Has("T") /\ r.dir
           THEN [ctl EXCEPT !.pc = "mv", !.frames = <<"into">>]
           ELSE IF Len(ctl.args) > 1 THEN Fatal ELSE Goto("mv"))

\* Where the source at hand goes.
MvTarget == IF ctl.frames = <<"into">> THEN Into(cmd.dest, Cur) ELSE cmd.dest

\* moveTo: the source, then the destination.
MvSource ==
    /\ At("mv")
    /\ GetFileInfo(Cur, LAMBDA r :
           IF r.err # "nil" THEN Fatal ELSE [ctl EXCEPT !.pc = "mvTarget", !.info.dir = r.dir])

MvStatTarget ==
    /\ At("mvTarget")
    /\ GetFileInfo(MvTarget, LAMBDA r :
           IF r.err = "NotExist" THEN Goto("mvInfo")
           ELSE IF r.err # "nil" \/ (r.dir /\ ~ctl.info.dir) \/ Has("n") THEN Fatal
           ELSE Goto("mvInfo"))

\* Rename looks at the destination once more.
MvInfo ==
    /\ At("mvInfo")
    /\ GetFileInfo(MvTarget, LAMBDA r :
           IF r.err \in {"nil", "NotExist"} THEN Goto("mvRename") ELSE Fatal)

MvRename ==
    /\ At("mvRename")
    /\ Execute(Rename2(tree, Cur, MvTarget), LAMBDA e :
           IF e = "nil" THEN NextArg(ctl) ELSE Fatal)

Move == MvDest \/ MvSource \/ MvStatTarget \/ MvInfo \/ MvRename

-----------------------------------------------------------------------------
(* mkdir, and mkdir in mkdir.go.                                            *)

\* What mkdir makes of the file information it asks for first: "NotExist" lets
\* it go on, anything else is what it returns.
MkdirFinds(r, all) == IF r.err # "nil" THEN r.err ELSE IF all /\ r.dir THEN "nil" ELSE "Exist"

\* The operation's first call; K is what becomes of its error.
MkdirInfo(p, all, next, K(_)) ==
    GetFileInfo(p, LAMBDA r :
        IF MkdirFinds(r, all) = "NotExist" THEN Goto(next) ELSE K(MkdirFinds(r, all)))

\* With -p it is no error that the path exists.
MkdirEnds(e) == IF e = "nil" \/ (Has("p") /\ e = "Exist") THEN NextArg(ctl) ELSE Fatal

MkdirStat ==
    /\ At("mkdir")
    /\ IF HasGlob(Cur) THEN LocalStep(Fatal)
       ELSE MkdirInfo(Cur, Has("p"), "mkdirs", MkdirEnds)

MkdirCall ==
    /\ At("mkdirs")
    /\ Execute(Mkdirs(tree, Cur, Has("p")), MkdirEnds)

Mkdir == MkdirStat \/ MkdirCall

-----------------------------------------------------------------------------
(* touch, and Create, CreateEmptyFile and Chtimes.                          *)

\* Mutant: CREATE and OVERWRITE.
CreateFlagOverwrite == 3

CreateFlag == 1

\* Create: it looks, fetches the defaults (see FileWriter) and creates.
CreateFinds(r) == IF r.err = "nil" THEN "Exist" ELSE r.err

CreateInfo(p, next, K(_)) ==
    GetFileInfo(p, LAMBDA r : IF CreateFinds(r) = "NotExist" THEN Goto(next) ELSE K(CreateFinds(r)))

CreateFile(p) == CreateNode(tree, p, CreateFlag)

CreateCall(p, next, K(_)) ==
    Execute(CreateFile(p), LAMBDA e : IF e = "nil" THEN Goto(next) ELSE K(e))

TouchStat ==
    /\ At("touch")
    /\ IF HasGlob(Cur) THEN LocalStep(Fatal)
       ELSE GetFileInfo(Cur, LAMBDA r :
                CASE r.err = "nil" -> Goto("touchTimes")
                  [] r.err = "NotExist" /\ ~Has("c") -> Goto("touchInfo")
                  [] OTHER -> Fatal)

FatalOn(e) == IF e = "nil" THEN NextArg(ctl) ELSE Fatal

TouchTimes ==
    /\ At("touchTimes")
    /\ Execute(SetAttr(tree, Cur, "times"), FatalOn)

TouchInfo == At("touchInfo") /\ CreateInfo(Cur, "touchCreate", FatalOn)

TouchCreate == At("touchCreate") /\ CreateCall(Cur, "touchClose", FatalOn)

\* Close of a writer that has no block.
TouchClose ==
    /\ At("touchClose")
    /\ Execute(Complete(tree, Cur, 0), FatalOn)

Touch == TouchStat \/ TouchTimes \/ TouchInfo \/ TouchCreate \/ TouchClose

-----------------------------------------------------------------------------
(* chmod and chown, and Walk.                                               *)

\* Client.Chmod and Client.Chown
Chmod(p) == SetAttr(tree, p, "mode")
Chown(p) == SetAttr(tree, p, "owner")
Visit(p) == IF cmd.op = "chmod" THEN Chmod(p) ELSE Chown(p)

\* Without -R: an error of the visit only sets the status.
VisitStat ==
    /\ At("visitStat")
    /\ GetFileInfo(Cur, LAMBDA r : IF r.err # "nil" THEN Fatal ELSE Goto("visit"))

VisitOne ==
    /\ At("visit")
    /\ Execute(Visit(Cur), LAMBDA e : IF e = "nil" THEN NextArg(ctl) ELSE Failing(NextArg(ctl)))

\* Client.walk: Open, then the visit, whether or not Open failed.
WalkOpen ==
    /\ At("walk")
    /\ GetFileInfo(Head(ctl.walk), LAMBDA r : [ctl EXCEPT !.pc = "walkVisit", !.info.dir = r.dir])

\* The rest of the walk; when it is over, the next argument.
WalkOn(rest) ==
    IF rest = <<>> THEN NextArg(ctl) ELSE [ctl EXCEPT !.pc = "walk", !.walk = rest]

\* A visit that fails ends the walk.
WalkVisit ==
    /\ At("walkVisit")
    /\ Execute(Visit(Head(ctl.walk)), LAMBDA e :
           IF e # "nil" THEN Failing(NextArg(ctl))
           ELSE IF ctl.info.dir THEN Goto("walkList") ELSE WalkOn(Tail(ctl.walk)))

\* The children of a directory, which come next.
WalkChildren(dir, names) == [i \in 1 .. Len(names) |-> Append(dir, names[i])]

\* Mutant: the children are looked for at the root.
WalkListAtRoot ==
    /\ At("walkList")
    /\ GetListing(Head(ctl.walk), -1, LAMBDA r :
           IF r.err # "nil" THEN Goto("walkRevisit")
           ELSE WalkOn(WalkChildren(Root, r.names) \o Tail(ctl.walk)))

\* Readdirnames; if it fails the directory is visited again.
WalkList ==
    /\ At("walkList")
    /\ GetListing(Head(ctl.walk), -1, LAMBDA r :
           IF r.err # "nil" THEN Goto("walkRevisit")
           ELSE WalkOn(WalkChildren(Head(ctl.walk), r.names) \o Tail(ctl.walk)))

WalkRevisit ==
    /\ At("walkRevisit")
    /\ Execute(Visit(Head(ctl.walk)), LAMBDA e :
           IF e # "nil" THEN Failing(NextArg(ctl)) ELSE WalkOn(Tail(ctl.walk)))

Walk == VisitStat \/ VisitOne \/ WalkOpen \/ WalkVisit \/ WalkList \/ WalkRevisit

TreeCommand == Rm \/ Move \/ Mkdir \/ Touch \/ Walk
=============================================================================
