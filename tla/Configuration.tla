----------------------------- MODULE Configuration -----------------------------
(***************************************************************************)
(* Which namenodes a client connects to, and as whom: the Hadoop            *)
(* configuration (hadoopconf), the client's options (client.go), the user of *)
(* a connection (internal/rpc/namenode.go), and how the command line        *)
(* program puts them together (cmd/hdfs/main.go, kerberos.go).              *)
(*                                                                         *)
(* A configuration is a set of <<key, value>> pairs, one per key.  A key is *)
(* [kind, name]: kind says which properties of Hadoop it stands for.  The   *)
(* value of a "default" key (fs.defaultFS) is the host of a URL, NoAddress  *)
(* for a URL without one, NoURL for a value that is none.                   *)
(*                                                                         *)
(* An address is the sequence of the parts of it that commas separate.      *)
(***************************************************************************)
EXTENDS Integers, Sequences, TLC, Functions

NoAddress == <<>>
NoURL == <<"%">>

\* The result of reading configuration files: whether there were any, what
\* they say, and whether one could not be read.
Loaded(found, conf, err) == [found |-> found, conf |-> conf, err |-> err]

\* A property that is set again replaces the earlier one.
SetProperty(conf, p) == {q \in conf : q[1] # p[1]} \cup {p}

RECURSIVE SetProperties(_, _)
SetProperties(conf, list) ==
    IF list = <<>> THEN conf ELSE SetProperties(SetProperty(conf, Head(list)), Tail(list))

\* Load: core-site.xml, hdfs-site.xml and mapred-site.xml in this order; a file
\* is missing, bad, or a list of properties.
RECURSIVE LoadFiles(_, _)
LoadFiles(files, sofar) ==
    IF files = <<>> THEN sofar
    ELSE CASE Head(files).state = "missing" -> LoadFiles(Tail(files), sofar)
           [] Head(files).state = "bad" -> [sofar EXCEPT !.err = TRUE]
           [] OTHER -> LoadFiles(Tail(files),
                                 Loaded(TRUE, SetProperties(sofar.conf, Head(files).list), FALSE))

Load(files) == LoadFiles(files, Loaded(FALSE, {}, FALSE))

\* LoadFromEnvironment: HADOOP_CONF_DIR, then HADOOP_HOME/conf.  A directory
\* that is not given has no files.
LoadFromEnvironment(env) ==
    LET dir == Load(env.confDir)
    IN  IF dir.found \/ dir.err THEN dir ELSE Load(env.home)

Values(conf, kind) == {p[2] : p \in {q \in conf : q[1].kind = kind}}
Names(conf, kind) == {p[1].name : p \in {q \in conf : q[1].kind = kind}}

\* Namenodes uses the result of url.Parse whether or not there is one.
NamenodesPanics(conf) == NoURL \in Values(conf, "default")

\* Namenodes, sorted and without duplicates: a set.
Namenodes(conf) ==
    (Values(conf, "default") \cup Values(conf, "rpc-address")) \ Names(conf, "ha.namenodes")

NoKerberos == [set |-> FALSE, user |-> "", realm |-> ""]
EmptyKerberos == [set |-> TRUE, user |-> "", realm |-> ""]     \* without credentials

\* ClientOptionsFromConf; the principal is <<service, realm>>.
ClientOptionsFromConf(conf) ==
    [addresses |-> Namenodes(conf), user |-> "",
     useDatanodeHostname |-> "true" \in Values(conf, "use.datanode.hostname"),
     kerberos |-> IF "kerberos" \in Values(conf, "authentication") THEN EmptyKerberos ELSE NoKerberos,
     spn |-> IF Values(conf, "kerberos.principal") = {} THEN ""
             ELSE (CHOOSE p \in Values(conf, "kerberos.principal") : TRUE)[1]]

Fails(err) == [err |-> err, addresses |-> {}, user |-> "", realm |-> "", kerberos |-> FALSE]

\* NewNamenodeConnection: the user that calls are made for.  It connects to the
\* first namenode that answers; there must be one to try.
NewNamenodeConnection(o) ==
    IF o.addresses = {} THEN Fails("namenode")
    ELSE IF o.user # "" THEN [err |-> "", addresses |-> o.addresses, user |-> o.user, realm |-> "",
                         kerberos |-> o.kerberos.set]
    ELSE IF o.kerberos.set
    THEN [err |-> "", addresses |-> o.addresses, user |-> o.kerberos.user, realm |-> o.kerberos.realm,
          kerberos |-> TRUE]
    ELSE Fails("user")

\* Mutant: Kerberos without credentials.
NewClientUnchecked(o) == NewNamenodeConnection(o)

NewClient(o) ==
    IF o.kerberos.set /\ o.kerberos.user = "" THEN Fails("credentials")
    ELSE IF o.kerberos.set /\ o.spn = "" THEN Fails("spn")
    ELSE NewNamenodeConnection(o)

\* strings.Split(address, ",")
SplitAddress(address) == {<<part>> : part \in Range(address)}

\* New: for the addresses given, or for the configured namenodes, as the
\* system's user, "" if that cannot be found out.
New(address, env) ==
    LET conf == LoadFromEnvironment(env)
        o == ClientOptionsFromConf(conf.conf)
    IN  IF conf.err THEN Fails("conf")
        ELSE IF NamenodesPanics(conf.conf) THEN Fails("panic")
        ELSE IF env.system = "" THEN Fails("user")
        ELSE NewClient([o EXCEPT !.addresses = IF address # NoAddress THEN SplitAddress(address)
                                               ELSE @,
                                 !.user = env.system])

\* getKerberosClient: the configuration that KRB5_CONFIG names must be there;
\* the credentials are in the cache that KRB5CCNAME names, or else in that of
\* the system's user.  A name is <<path>> or <<scheme, path>>, or <<>> when it is
\* not set; env.caches maps the paths that hold credentials to them.
CachePath(env) ==
    CASE env.ccname = <<>> -> IF env.system = "" THEN "unusable" ELSE "default"
      [] Len(env.ccname) = 1 -> env.ccname[1]
      [] Len(env.ccname) = 2 /\ env.ccname[1] = "FILE" -> env.ccname[2]
      [] OTHER -> "unusable"

\* Without credentials when it returns an error.
getKerberosClient(env) ==
    IF env.krb5Config /\ CachePath(env) \in DOMAIN env.caches
    THEN [set |-> TRUE] @@ env.caches[CachePath(env)]
    ELSE EmptyKerberos

\* getClient, when no client for the namenode is cached: each command asks for
\* one client once.
GivenNamenode(namenode, env) == IF namenode = NoAddress THEN env.namenode ELSE namenode

getClient(namenode, env) ==
    LET conf == LoadFromEnvironment(env)
        o == ClientOptionsFromConf(conf.conf)
        nn == GivenNamenode(namenode, env)
        addresses == IF nn # NoAddress THEN {nn} ELSE o.addresses
        krb == getKerberosClient(env)
    IN  IF conf.err THEN Fails("conf")
        ELSE IF NamenodesPanics(conf.conf) THEN Fails("panic")
        ELSE IF addresses = {} THEN Fails("namenode")
        ELSE IF o.kerberos.set
        THEN IF krb.user = "" THEN Fails("kerberos")
             ELSE NewClient([o EXCEPT !.addresses = addresses, !.kerberos = krb])
        ELSE IF env.user = "" /\ env.system = "" THEN Fails("user")
        ELSE NewClient([o EXCEPT !.addresses = addresses,
                                 !.user = IF env.user # "" THEN env.user ELSE env.system])
===============================================================================
