---------------------------- MODULE AlgorithmsMC ----------------------------
(* The inputs of Algorithms for TLC.                                       *)
EXTENDS Algorithms

MCFiles == SeqsUpTo(BOOLEAN, 9)

\* Configuration files.
Missing == [state |-> "missing", list |-> <<>>]
Unreadable == [state |-> "bad", list |-> <<>>]
File(list) == [state |-> "read", list |-> list]
Key(kind, name) == [kind |-> kind, name |-> name]

Plain == <<Key("default", <<>>), <<"nn1">>>>
NoHost == <<Key("default", <<>>), NoAddress>>
Unparsed == <<Key("default", <<>>), NoURL>>
Cluster == <<Key("default", <<>>), <<"cluster">>>>
HA == <<<<Key("ha.namenodes", <<"cluster">>), <<"a", "b">>>>,
        <<Key("rpc-address", <<"cluster.a">>), <<"nn1">>>>,
        <<Key("rpc-address", <<"cluster.b">>), <<"nn2">>>>>>
Kerberos == <<Key("authentication", <<>>), "kerberos">>
Simple == <<Key("authentication", <<>>), "simple">>
Principal == <<Key("kerberos.principal", <<>>), <<"nn/_HOST", "R">>>>

Dirs ==
    {<<Missing, Missing, Missing>>, <<Missing, Unreadable, Missing>>,
     <<File(<<Plain>>), Missing, Missing>>, <<File(<<NoHost>>), Missing, Missing>>,
     <<File(<<Unparsed>>), Missing, Missing>>, <<File(<<Unparsed>>), File(<<Plain>>), Missing>>,
     <<File(<<Cluster>>), File(HA), Missing>>,
     <<File(<<Plain, Kerberos>>), File(<<Principal>>), Missing>>,
     <<File(<<Plain, Kerberos>>), File(<<Principal>>), File(<<Simple>>)>>,
     <<File(<<Cluster, Kerberos>>), File(HA), Missing>>,
     <<File(<<Principal>>), File(HA), Unreadable>>}

\* HADOOP_HOME counts only when HADOOP_CONF_DIR has no files.
HomeDirs == {<<Missing, Missing, Missing>>, <<Missing, Unreadable, Missing>>,
             <<File(<<Cluster, Kerberos>>), File(HA), Missing>>}

MCEnvironments ==
    [confDir : Dirs, home : HomeDirs, namenode : {NoAddress, <<"env">>, <<"env", "two">>},
     user : {"", "eve"}, system : {"", "me"}, krb5Config : BOOLEAN,
     ccname : {<<>>, <<"path">>, <<"FILE", "path">>, <<"KEYRING", "path">>},
     caches : {None, "path" :> [user |-> "kim", realm |-> "R"]}]

\* Arguments of a command.
Argument(bad, host, abs, parts, query) ==
    [bad |-> bad, host |-> host, abs |-> abs, parts |-> parts, query |-> query]

MCArguments ==
    {Argument(TRUE, "", FALSE, <<>>, <<>>), Argument(FALSE, "nn1", TRUE, <<NameA>>, <<>>),
     Argument(FALSE, "nn2", TRUE, <<NameA>>, <<>>), Argument(FALSE, "nn1", FALSE, <<>>, <<>>),
     Argument(FALSE, "", TRUE, <<NameA, Up, Up, NameB>>, <<>>),
     Argument(FALSE, "", FALSE, <<NameA, Up, Up, NameB>>, <<>>),
     Argument(FALSE, "", FALSE, <<Up, Up, Up, NameB>>, <<>>),
     Argument(FALSE, "", TRUE, <<NameA>>, <<NameB>>)}

MCSeconds == {-3277, -3276, -205, -204, -1, 0, 1, 7, 204, 205, 3276, 3277}

Answers == {<<>>, <<"sum">>, <<"fails">>, <<"refused">>, <<"fails", "sum">>, <<"fails", "fails">>,
            <<"fails", "refused">>, <<"refused", "sum">>}

MCSumLists == SeqsUpTo(Answers, 3) \cup {[i \in 1 .. n |-> <<"sum">>] : n \in 4 .. 17}
=============================================================================
