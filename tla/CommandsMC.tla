----------------------------- MODULE CommandsMC -----------------------------
(***************************************************************************)
(* Instances of Commands: names 1 to 3, two levels of directories and a     *)
(* tree with three.                                                         *)
(***************************************************************************)
EXTENDS Commands, TLC

\* A file's contents, different for each path.
Size(p) == IF Len(p) = 1 THEN p[1] ELSE IF Len(p) = 2 THEN 4 * p[1] + p[2] ELSE 40

\* A tree with some files and directories.
Tree(files, dirs) ==
    [p \in files \cup dirs \cup {Root} |->
        IF p \in files THEN Node(FALSE, Size(p), FALSE) ELSE Directory]

MCTrees ==
    {Tree({}, {}), Tree({<<1>>}, {}), Tree({<<2>>}, {<<1>>}),
     Tree({<<1>>, <<2>>}, {}), Tree({<<1>>}, {<<2>>}),
     Tree({<<1, 1>>, <<1, 2>>}, {<<1>>}), Tree({<<1, 2>>}, {<<1>>, <<1, 1>>, <<2>>}),
     Tree({<<1, 1>>, <<2, 1>>}, {<<1>>, <<2>>}),
     Tree({<<1, 1>>, <<2, 1>>}, {<<1>>, <<2>>, <<3>>}),
     Tree({<<1, 1, 1>>, <<1, 2>>}, {<<1>>, <<1, 1>>})}

\* A directory whose name is a glob character: Terminates does not hold with it
\* (README, "Where the code differs").
MCGlobTrees == {Tree({}, {<<Glob>>})}

LocalFileNode(d) == Node(FALSE, <<d>>, FALSE)

MCLocalTrees ==
    {<<>>, Root :> LocalFileNode(90),
     (Root :> Directory) @@ (<<1>> :> LocalFileNode(91)),
     (Root :> Directory) @@ (<<1>> :> Directory) @@ (<<1, 1>> :> LocalFileNode(92))
        @@ (<<2>> :> LocalFileNode(93))}

Run(op, args, dest, flags) == [op |-> op, args |-> args, dest |-> dest, flags |-> flags]

MCInvocations ==
    {Run("rm", <<<<1>>, <<2>>>>, Root, f) : f \in SUBSET {"r", "f"}}
    \cup {Run("rm", <<p>>, Root, {}) : p \in {<<0>>, <<0, 1>>}}
    \cup {Run("rm", <<<<0, 0>>>>, Root, {"r"}), Run("remove", <<<<1>>>>, Root, {})}
    \cup {Run("mv", <<<<1>>>>, <<2>>, f) : f \in SUBSET {"n", "T"}}
    \cup {Run("mv", <<<<1, 0>>>>, <<2>>, {}), Run("mv", <<<<1, 1>>, <<2, 1>>>>, <<3>>, {}),
          Run("mv", <<<<1, 1>>>>, <<2, 2>>, {"n"})}
    \cup {Run("mkdir", <<<<1>>, <<1, 2>>>>, Root, f) : f \in SUBSET {"p"}}
    \cup {Run("mkdir", <<<<2, 1>>>>, Root, f) : f \in SUBSET {"p"}}
    \cup {Run("touch", <<<<1>>, <<1, 2>>>>, Root, f) : f \in SUBSET {"c"}}
    \cup {Run("touch", <<<<0>>>>, Root, {}), Run("mkdir", <<<<0>>>>, Root, {})}
    \cup {Run("chmod", <<<<1>>, <<2>>>>, Root, f) : f \in SUBSET {"R"}}
    \cup {Run("chown", <<<<1>>>>, Root, {"R"}), Run("chown", <<<<0>>>>, Root, {})}
    \cup {Run("put", <<<<1>>>>, d, {}) : d \in {<<2>>, <<1, 2>>}}
    \cup {Run("putStdin", <<<<1>>>>, d, {}) : d \in {<<2>>, <<1, 2>>}}
    \cup {Run("copyToRemote", <<<<1>>>>, <<2>>, {}), Run("get", <<<<1>>>>, Root, {})}
    \cup {Run("getmerge", <<<<1>>>>, Root, f) : f \in SUBSET {"n"}}
    \cup {Run("cat", <<<<1, 0>>>>, Root, {}), Run("cat", <<<<2>>, <<1>>>>, Root, {})}
    \cup {Run("du", <<<<0>>>>, Root, f) : f \in SUBSET {"s"}}
    \cup {Run("ls", <<<<1>>, <<2>>>>, Root, f) : f \in {{}, {"a"}, {"l", "a"}}}
    \cup {Run("section", <<<<1>>, <<2>>>>, Root, f) : f \in SUBSET {"c"}}
    \cup {Run("mv", <<<<1>>>>, <<0>>, {}), Run("help", <<Root>>, Root, {}), Run("usage", <<Root>>, Root, {})}
    \cup {Run("checksum", <<<<1>>>>, Root, {}), Run("df", <<Root>>, Root, {})}

MCRivalPaths == {<<1>>, <<2>>, <<1, 1>>, <<1, 2>>, <<2, 1>>}
=============================================================================
