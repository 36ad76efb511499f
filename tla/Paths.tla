--------------------------------- MODULE Paths ---------------------------------
(***************************************************************************)
(* The arguments of the command line program (cmd/hdfs/paths.go) and the    *)
(* completion of a path (complete.go).  An argument is                      *)
(*     [bad, host, abs, parts, query]                                       *)
(* bad when it is no URL, host "" when it names none, parts the elements    *)
(* of its path, and query the elements after a question mark: url.Parse     *)
(* ends the path there.  A path is [abs, parts]; a name is a sequence of    *)
(* characters.                                                              *)
(***************************************************************************)
EXTENDS Integers, SequencesExt

Up == <<".", ".">>

\* path.Clean on a path whose elements are names and "..".
RECURSIVE CleanParts(_, _, _)
CleanParts(abs, done, parts) ==
    IF parts = <<>> THEN done
    ELSE IF Head(parts) # Up THEN CleanParts(abs, Append(done, Head(parts)), Tail(parts))
    ELSE IF done # <<>> /\ Last(done) # Up THEN CleanParts(abs, Front(done), Tail(parts))
    ELSE CleanParts(abs, IF abs THEN done ELSE Append(done, Up), Tail(parts))

Clean(p) == [abs |-> p.abs, parts |-> CleanParts(p.abs, <<>>, p.parts)]

Bad == [err |-> TRUE, paths |-> <<>>, namenode |-> ""]

\* normalizePaths; relative paths stay relative, which is not what the comment
\* on it says.
RECURSIVE NormalizeFrom(_, _, _)
NormalizeFrom(args, namenode, paths) ==
    IF args = <<>> THEN [err |-> FALSE, paths |-> paths, namenode |-> namenode]
    ELSE LET a == Head(args)
         IN  IF a.bad THEN Bad
             ELSE IF a.host # "" /\ namenode # "" /\ namenode # a.host THEN Bad
             ELSE NormalizeFrom(Tail(args), IF a.host # "" THEN a.host ELSE namenode,
                                Append(paths, Clean(a)))

normalizePaths(args) == NormalizeFrom(args, "", <<>>)

userDir(user) == <<<<"u", "s", "e", "r">>, user>>

\* Mutant: the path is put together without being cleaned.
AbsoluteAppended(p, user) == IF p.abs THEN p ELSE [abs |-> TRUE, parts |-> userDir(user) \o p.parts]

\* What expandPaths does to a path before it expands globs.
Absolute(p, user) == IF p.abs THEN p ELSE Clean([abs |-> TRUE, parts |-> userDir(user) \o p.parts])

\* The commands that expand their arguments, and how many of them: mv keeps its
\* last one, its destination, out of it.
Expanded(command, n) ==
    CASE command = "getClientAndExpandedPaths" -> 1 .. n
      [] command = "mv" -> 1 .. n - 1
      [] OTHER -> {}

\* The paths that a command uses: normalizePaths alone for mkdir, touch, put,
\* get and getmerge ("normalizePaths").
PathsUsed(command, args, user) ==
    LET n == normalizePaths(args)
    IN  [n EXCEPT !.paths = [i \in DOMAIN @ |-> IF i \in Expanded(command, Len(@))
                                                THEN Absolute(@[i], user) ELSE @[i]]]

-------------------------------------------------------------------------------
\* hasGlob; url.Parse leaves no question mark in a path.
HasGlobChar(name) ==
    \E i \in DOMAIN name : name[i] \in {"*", "["} /\ (i = 1 \/ name[i - 1] # "\\")

\* completePath: a fragment is a path, and whether a slash ends it.  Split
\* returns the directory that is listed, and the prefix of the names that are
\* printed.  No relative path is a directory of the namenode.
Split(fragment) ==
    LET full == Clean(fragment)
    IN  IF fragment.slash THEN [dir |-> full, prefix |-> <<>>]
        ELSE IF full.parts = <<>>
        THEN [dir |-> full, prefix |-> IF full.abs THEN <<>> ELSE <<".">>]
        ELSE [dir |-> [full EXCEPT !.parts = Front(@)], prefix |-> Last(full.parts)]

\* dirs maps the directories of the namenode to the names in them.
completePath(fragment, dirs) ==
    LET s == Split(fragment)
    IN  IF \E name \in ToSet(Clean(fragment).parts) : HasGlobChar(name) THEN {}
        ELSE IF ~s.dir.abs \/ s.dir.parts \notin DOMAIN dirs THEN {}
        ELSE {Append(s.dir.parts, name) : name \in {n \in dirs[s.dir.parts] : IsPrefix(s.prefix, n)}}
===============================================================================
