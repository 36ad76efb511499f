------------------------------ MODULE Algorithms ------------------------------
(***************************************************************************)
(* The parts of the client that compute a result from what they are given:  *)
(* each is called with every input of a small family, and its result is     *)
(* compared with a definition of what it should be.  job is the call, out   *)
(* its result.                                                              *)
(***************************************************************************)
EXTENDS Requests, Framing, Sections, Configuration, Paths, FileChecksum

CONSTANTS
    Files,          \* files for head and tail
    Counts,         \* lines and bytes asked for
    BodyLengths,    \* lengths of framed messages
    MaxMessages,    \* bound: messages in a packet or on a stream
    BlockBytes,     \* sizes of blocks; 0 leaves the size unset
    Replicas,       \* numbers of datanodes of a block
    Environments,   \* environments of the program
    Arguments,      \* arguments of a command
    Seconds,        \* times given to Chtimes
    SumLists        \* blocks of a file, for its checksum

VARIABLES job, out

jobVars == <<job, out>>

Call(kind, in) == [kind |-> kind, in |-> in]
NoResult == [done |-> FALSE]
Returned(kind) == job.kind = kind /\ out.done

SeqsUpTo(S, n) == UNION {[1 .. k -> S] : k \in 0 .. n}
-------------------------------------------------------------------------------
\* What namenodes send.

Datanode(i) == [id |-> [ipAddr |-> <<"ip", i>>, hostName |-> <<"host", i>>, datanodeUuid |-> i,
                        xferPort |-> 1, infoPort |-> 2, ipcPort |-> 3]]

\* The block number i of a file, where it starts, its size and replicas.
LocatedBlock(i, start, size, n) ==
    [b |-> [poolId |-> "pool", blockId |-> i, generationStamp |-> 10 + i]
           @@ (IF size > 0 THEN [numBytes |-> size] ELSE None),
     offset |-> start, corrupt |-> FALSE,
     blockToken |-> [identifier |-> i, password |-> i, kind |-> "kind", service |-> ""],
     locs |-> [k \in 1 .. n |-> Datanode(i + k)]]

Starts(sizes) == [i \in 1 .. Len(sizes) |-> FoldSeq(+, 0, SubSeq(sizes, 1, i - 1))]

FileBlocks(sizes, n) ==
    [i \in 1 .. Len(sizes) |-> LocatedBlock(i, Starts(sizes)[i], sizes[i], n)]

FileStatus(size) ==
    [fileType |-> "IS_FILE", path |-> "", length |-> size, permission |-> [perm |-> 420],
     owner |-> "o", group |-> "g", modification_time |-> 0, access_time |-> 0]

Locations(size, blocks) ==
    IF blocks = <<>> THEN None
    ELSE [locations |-> [fileLength |-> size, blocks |-> blocks, underConstruction |-> FALSE,
                         isLastBlockComplete |-> TRUE]]

Defaults == [blockSize |-> 8, bytesPerChecksum |-> 512, writePacketSize |-> 64, replication |-> 3,
             fileBufferSize |-> 4]

\* Two authentication methods, with everything the namenode may say of them.
Auth(method) == [method |-> method, mechanism |-> "GSSAPI", protocol |-> "nn", serverId |-> "host"]
AuthLists == SeqsUpTo({Auth("KERBEROS"), Auth("TOKEN")}, 2)

\* Bytes of message number i, all of which continue a varint if read as one
\* when i is even.
Body(i, n) == [k \in 1 .. n |-> IF i % 2 = 0 THEN VarintBase + 1 ELSE 1]
Bodies(lengths) == [i \in 1 .. Len(lengths) |-> Body(i, lengths[i])]
-------------------------------------------------------------------------------
\* The calls.

Result(r) == out' = [done |-> TRUE, r |-> r] /\ UNCHANGED job
Calls(kind) == job.kind = kind /\ ~out.done

PrintSection == Calls("section") /\ Result(printSection(job.in.file, job.in.lines, job.in.bytes, job.in.end))

\* Packets with one message more or less than the caller expects are read too:
\* a namenode leaves out the answer when the header says there was an error.
ReadPacket == Calls("packet") /\ Result(readRPCPacket(makeRPCPacket(Bodies(job.in.lengths)), job.in.expect))

Stream(lengths) == FlattenSeq([i \in 1 .. Len(lengths) |-> makePrefixedMessage(Body(i, lengths[i]))])

ReadStream == Calls("stream") /\ Result(ReadMessages(Stream(job.in.lengths), job.in.gots))

WriteFile ==
    /\ Calls("write")
    /\ LET w == job.in.w
           lbs == [i \in 1 .. Len(w) |-> LocatedBlock(i, 0, IF i = 1 THEN job.in.first ELSE 0, job.in.replicas)]
       IN  Result(IF job.in.create THEN CreateSession("p", Defaults, lbs, w)
                  ELSE AppendSession("p", lbs, w, job.in.first > 0))

ReadFile ==
    /\ Calls("read")
    /\ LET size == FoldSeq(+, 0, job.in.sizes)
       IN  Result(ReadSession("p", FileStatus(size),
                              Locations(size, FileBlocks(job.in.sizes, 1)), job.in.off))

Requests1 ==
    <<mkdirs("p", 493, TRUE), delete("p", TRUE), rename2("p", "q"), setPermission("p", 420),
      setOwner("p", "u", ""), setTimes("p", Chtimes(1), Chtimes(2)), getListing("p", ""),
      getContentSummary("p"), getFsStats, renewLease, newRPCRequestHeader(0, "id"),
      newRequestHeader("mkdirs"), newConnectionContext("u", ""), newConnectionContext("u", "R"),
      newChecksumBlockOp(LocatedBlock(1, 0, 2, 1)), writeHeartBeatPacket,
      writePacket([offset |-> 0, seqno |-> 0, last |-> TRUE, length |-> 0])>>

SendRequest == Calls("request") /\ Result(<<Requests1[job.in]>>)

Handshake == Calls("sasl") /\ Result(doKerberosHandshake(job.in))

Connect == Calls("connect") /\ Result(IF job.in.lib THEN New(job.in.namenode, job.in.env)
                                      ELSE getClient(job.in.namenode, job.in.env))

Normalize == Calls("paths") /\ Result(PathsUsed(job.in.command, job.in.args, <<"me">>))

ReadSums == Calls("checksum") /\ Result(Checksum(job.in))

Times == Calls("times") /\ Result([mtime |-> ModTime(Chtimes(job.in)), atime |-> AccessTime(Chtimes(job.in))])

CompletePath == Calls("complete") /\ Result(completePath(job.in.fragment, job.in.dirs))
-------------------------------------------------------------------------------
\* The inputs.

SectionCalls ==
    {[file |-> f, lines |-> n, bytes |-> -1, end |-> e] : f \in Files, n \in Counts \cup {-1}, e \in BOOLEAN}
    \cup {[file |-> f, lines |-> -1, bytes |-> n, end |-> e] : f \in Files, n \in Counts, e \in BOOLEAN}

Lengths == SeqsUpTo(BodyLengths, MaxMessages)

\* How much the first read of each message may return.
StreamCalls ==
    {[lengths |-> l, gots |-> g] : l \in Lengths \ {<<>>}, g \in SeqsUpTo(1 .. MaxVarintLen, MaxMessages)}

\* Fragments to complete, and a tree to find them in.
NameA == <<"a">>
NameB == <<"a", "b">>
NameGlob == <<"a", "*">>
NameEscaped == <<"\\", "*">>
Tree == (<<>> :> {NameA, NameB, NameGlob, NameEscaped, userDir(<<"me">>)[1]}) @@ (<<NameA>> :> {NameB, <<"b">>})
        @@ (<<userDir(<<"me">>)[1]>> :> {<<"me">>}) @@ (userDir(<<"me">>) :> {NameA})
Fragments ==
    {f \in [abs : BOOLEAN, parts : SeqsUpTo({NameA, <<"b">>, NameGlob, NameEscaped, Up}, 2), slash : BOOLEAN] :
        f.parts = <<>> => f.slash = f.abs}

Init ==
    /\ out = NoResult
    /\ \/ \E c \in SectionCalls : job = Call("section", c)
       \/ \E l \in Lengths : \E k \in Len(l) .. MaxMessages + 1 :
             job = Call("packet", [lengths |-> l, expect |-> k])
       \/ \E c \in StreamCalls : Len(c.lengths) = Len(c.gots) /\ job = Call("stream", c)
       \/ \E w \in SeqsUpTo(BlockBytes \ {0}, 3), n \in Replicas, new \in BOOLEAN, first \in BlockBytes :
             /\ new \/ w = <<>> => first = 0
             /\ job = Call("write", [w |-> w, replicas |-> n, create |-> new, first |-> first])
       \/ \E sizes \in SeqsUpTo(BlockBytes, 3) : \E off \in 0 .. FoldSeq(+, 0, sizes) :
             job = Call("read", [sizes |-> sizes, off |-> off])
       \/ \E i \in DOMAIN Requests1 : job = Call("request", i)
       \/ \E auths \in AuthLists : job = Call("sasl", auths)
       \/ \E nn \in {NoAddress, <<"given">>, <<"one", "two">>}, env \in Environments, lib \in BOOLEAN :
             job = Call("connect", [namenode |-> nn, env |-> env, lib |-> lib])
       \/ \E args \in SeqsUpTo(Arguments, 3), c \in {"getClientAndExpandedPaths", "mv", "normalizePaths"} :
             job = Call("paths", [command |-> c, args |-> args])
       \/ \E blocks \in SumLists : job = Call("checksum", blocks)
       \/ \E t \in Seconds : job = Call("times", t)
       \/ \E f \in Fragments : job = Call("complete", [fragment |-> f, dirs |-> Tree])

\* The call has returned.
Idle == out.done /\ UNCHANGED jobVars

Next ==
    \/ PrintSection \/ ReadPacket \/ ReadStream \/ WriteFile \/ ReadFile \/ SendRequest
    \/ Handshake \/ Connect \/ Normalize \/ ReadSums \/ Times \/ CompletePath \/ Idle

Spec == Init /\ [][Next]_jobVars
-------------------------------------------------------------------------------
\* The job and its result are of the same kind.  Only tail -n 0 panics (it
\* indexes past the newlines it found), and no packet is found malformed.
TypeOK ==
    /\ job.kind \in {"section", "packet", "stream", "write", "read", "request", "sasl", "connect",
                     "paths", "checksum", "times", "complete"}
    /\ out.done \in BOOLEAN
    /\ Returned("section") /\ out.r.panic => job.in.end /\ job.in.lines = 0
    /\ Returned("packet") => out.r.error = ""

\* head -n and tail -n (headLines, tailLines): head prints the first lines and
\* nothing else.  tail prints up to the end of the file and never leaves out
\* one of the last lines; it prints no other line if the last lines begin in
\* the part of the file that it searches, whole steps of TailSearchSize back
\* from the end.
LinesRight ==
    Returned("section") /\ job.in.bytes = -1 =>
        LET file == job.in.file
            n == IF job.in.lines = -1 THEN 10 ELSE job.in.lines
            last == LastLines(file, n)
            searched == Len(file) <= TailSearchSize \/ last.from > Len(file) % TailSearchSize
        IN  IF ~job.in.end THEN out.r = FirstLines(file, n)
            ELSE n > 0 => /\ out.r.to = Len(file) /\ out.r.from <= last.from
                          /\ searched => out.r = last

\* head -c and tail -c (printSection): the first or last bytes, for tail only
\* if the file has as many.
BytesRight ==
    Returned("section") /\ job.in.bytes >= 0 =>
        LET size == Len(job.in.file)
            n == job.in.bytes
        IN  /\ ~job.in.end => out.r = Printed(0, IF n < size THEN n ELSE size)
            /\ job.in.end /\ n <= size => out.r = Printed(size - n, size)

\* What makeRPCPacket lays out readRPCPacket reads back, message by message,
\* and leaves the messages that were not sent as they were.
PacketRight ==
    Returned("packet") =>
        /\ out.r.rest = <<>>
        /\ out.r.msgs = Bodies(job.in.lengths)
                        \o [i \in 1 .. job.in.expect - Len(job.in.lengths) |-> Untouched]

\* The first read of a message returned as much of it as fits the buffer of
\* readPrefixedMessage, and nothing of the message after it.
ReadWhole(i) ==
    LET frame == Len(makePrefixedMessage(Body(i, job.in.lengths[i])))
    IN  job.in.gots[i] = IF frame < MaxVarintLen THEN frame ELSE MaxVarintLen

\* Messages laid out one after the other (answers and acks of datanodes) are
\* read back one after the other by readPrefixedMessage, as long as each
\* first read is whole.
StreamRight ==
    Returned("stream") /\ (\A i \in DOMAIN job.in.lengths : ReadWhole(i)) =>
        out.r = [error |-> "", msgs |-> Bodies(job.in.lengths), rest |-> <<>>]

\* Every request has its required fields, in the messages from earlier answers
\* that it carries as well: proto.Marshal does not fail on it.
RequestsMarshal ==
    out.done /\ job.kind \in {"write", "read", "request", "sasl"} =>
        \A i \in DOMAIN out.r : Marshals(out.r[i].type, out.r[i].msg)

\* The requests of one type that a session sent.
OfType(T) == SelectSeq(out.r, LAMBDA m : m.type = T)

\* The block before each new block, and the last block of a file that is
\* completed, is named with the number of bytes that it then has, and as the
\* namenode named it otherwise (startNewBlock, Close and finalizeBlock).
BlockChain ==
    Returned("write") =>
        LET w == job.in.w
            held(i) == w[i] + IF i = 1 THEN job.in.first ELSE 0
            block(i) == [poolId |-> "pool", blockId |-> i, generationStamp |-> 10 + i, numBytes |-> held(i)]
            updates == OfType(UpdateBlockForPipelineRequestProto)
            adds == OfType(AddBlockRequestProto)
            skipped == Len(w) - Len(adds)       \* the block that append returned
            named(m, f, i) == IF i = 0 THEN f \notin DOMAIN m ELSE m[f] = block(i)
        IN  /\ Len(updates) = Len(w) /\ \A i \in DOMAIN w : updates[i].msg.block = block(i)
            /\ skipped = IF job.in.first > 0 THEN 1 ELSE 0
            /\ \A k \in DOMAIN adds : named(adds[k].msg, "previous", k + skipped - 1)
            /\ named(out.r[Len(out.r)].msg, "last", Len(w))

\* A block is opened for writing once on its first datanode, which is told the
\* other ones in their order, the block's token, and how much of the block
\* is there (writeBlockWriteRequest).
PipelineRight ==
    Returned("write") =>
        LET ops == OfType(OpWriteBlockProto)
        IN  /\ Len(ops) = Len(job.in.w)
            /\ \A i \in DOMAIN ops :
                  LET op == ops[i].msg
                      there == IF i = 1 THEN job.in.first ELSE 0
                  IN  /\ op.header.baseHeader.block.blockId = i
                      /\ op.header.baseHeader.token.identifier = i
                      /\ op.targets = [k \in 1 .. job.in.replicas - 1 |-> Datanode(i + 1 + k)]
                      /\ op.pipelineSize = Len(op.targets)
                      /\ op.minBytesRcvd = there /\ op.maxBytesRcvd = there
                      /\ op.stage = "PIPELINE_SETUP_APPEND" <=> there > 0

\* The requests to datanodes for a file that is read from an offset to its end
\* cover what is between, each byte once and in order, and none asks for
\* nothing (getNewBlockReader, writeBlockReadRequest).
ReadsTile ==
    Returned("read") =>
        LET ops == OfType(OpReadBlockProto)
            id(k) == ops[k].msg.header.baseHeader.block.blockId
            at(k) == Starts(job.in.sizes)[id(k)] + ops[k].msg.offset
            size == FoldSeq(+, 0, job.in.sizes)
        IN  /\ ops = <<>> <=> job.in.off = size
            /\ \A k \in DOMAIN ops :
                  /\ ops[k].msg.len > 0
                  /\ at(k) = IF k = 1 THEN job.in.off ELSE at(k - 1) + ops[k - 1].msg.len
            /\ ops # <<>> => at(Len(ops)) + ops[Len(ops)].msg.len = size

\* The files that count, and what they say of a key: the last word on it.
ConfFiles(env) ==
    IF \E i \in DOMAIN env.confDir : env.confDir[i].state # "missing" THEN env.confDir ELSE env.home
Properties(env) ==
    FlattenSeq([i \in DOMAIN ConfFiles(env) |-> ConfFiles(env)[i].list])
Says(env, kind) ==
    LET ps == Properties(env)
    IN  {ps[i] : i \in {j \in DOMAIN ps : /\ ps[j][1].kind = kind
                                          /\ \A k \in DOMAIN ps : k > j => ps[k][1] # ps[j][1]}}

\* A client connects to the namenodes that the caller lists (New), or to the one
\* that the path gives, else to HADOOP_NAMENODE (the program, for which commas
\* separate nothing), else to those that the configuration names, of which a
\* logical name of a cluster is none; and if there are none it does not come to
\* be (getClient, New, Namenodes).
ConnectsRight ==
    Returned("connect") =>
        LET env == job.in.env
            named == {p[2] : p \in Says(env, "default") \cup Says(env, "rpc-address")}
                     \ {p[1].name : p \in Says(env, "ha.namenodes")}
            wanted == IF job.in.lib /\ job.in.namenode # NoAddress
                      THEN {<<job.in.namenode[i]>> : i \in DOMAIN job.in.namenode}
                      ELSE IF job.in.namenode # NoAddress THEN {job.in.namenode}
                      ELSE IF ~job.in.lib /\ env.namenode # NoAddress THEN {env.namenode}
                      ELSE named
        IN  /\ out.r.err = "" => out.r.addresses = wanted /\ wanted # {}
            /\ out.r.err = "namenode" => wanted = {}
            /\ out.r.err = "panic" => NoURL \in named

\* When the configuration asks for Kerberos, a client that comes to be acts for
\* the user and the realm of credentials; otherwise for HADOOP_USER_NAME (the
\* program only) or the system's user (getClient, New, NewClient,
\* NewNamenodeConnection).
IdentityRight ==
    Returned("connect") /\ out.r.err = "" =>
        LET env == job.in.env
            secure == \E p \in Says(env, "authentication") : p[2] = "kerberos"
        IN  /\ out.r.kerberos = secure
            /\ secure => \E c \in DOMAIN env.caches :
                            env.caches[c] = [user |-> out.r.user, realm |-> out.r.realm]
            /\ ~secure => /\ out.r.realm = ""
                          /\ out.r.user = IF ~job.in.lib /\ env.user # "" THEN env.user ELSE env.system

\* Where a path leads from a directory.
RECURSIVE Resolve(_, _)
Resolve(dir, parts) ==
    IF parts = <<>> THEN dir
    ELSE Resolve(IF Head(parts) # Up THEN Append(dir, Head(parts))
                 ELSE IF dir = <<>> THEN dir ELSE Front(dir), Tail(parts))

\* Arguments are refused when one is no URL or two name different namenodes;
\* otherwise the client is for the namenode that one names, and each path leads
\* to where the argument does from the user's directory.  The paths are absolute
\* where they are expanded, and where the argument is: normalizePaths leaves a
\* relative one relative (normalizePaths, expandPaths).
PathsRight ==
    Returned("paths") =>
        LET args == job.in.args
            hosts == {args[i].host : i \in DOMAIN args} \ {""}
            bad == \E i \in DOMAIN args : args[i].bad
            home == userDir(<<"me">>)
        IN  IF bad \/ \E h, g \in hosts : h # g THEN out.r.err
            ELSE /\ ~out.r.err /\ Len(out.r.paths) = Len(args)
                 /\ out.r.namenode = IF hosts = {} THEN "" ELSE CHOOSE h \in hosts : TRUE
                 /\ \A i \in DOMAIN args :
                       LET p == out.r.paths[i]
                           from(abs) == IF abs THEN <<>> ELSE home
                       IN  /\ Resolve(from(p.abs), p.parts) = Resolve(from(args[i].abs), args[i].parts)
                           /\ p.abs => Up \notin ToSet(p.parts)
                           /\ p.abs <=> \/ args[i].abs
                                       \/ job.in.command = "getClientAndExpandedPaths"
                                       \/ (job.in.command = "mv" /\ i < Len(args))

\* Completing an absolute path offers exactly the paths of the tree that it is
\* the beginning of and that have no further elements, or nothing if there is a
\* glob in it (completePath).
CompletionRight ==
    Returned("complete") /\ job.in.fragment.abs /\ Up \notin ToSet(job.in.fragment.parts) =>
        LET f == job.in.fragment
            parts == IF f.slash THEN Append(f.parts, <<>>) ELSE f.parts
            paths == UNION {{Append(d, n) : n \in Tree[d]} : d \in DOMAIN Tree}
            glob == \E name \in ToSet(f.parts) : name = NameGlob
        IN  out.r = {p \in paths : /\ ~glob /\ Len(p) = Len(parts) /\ Front(p) = Front(parts)
                                   /\ IsPrefix(Last(parts), Last(p))}

\* When each block has datanodes and none of them answers with an error status,
\* the checksum of a file is made of the sums of all its blocks in their
\* order, padded to the length that Hadoop pads to; it fails only when no
\* datanode of some block could be asked (Checksum, ReadChecksum).
ChecksumRight ==
    Returned("checksum") /\ (\A i \in DOMAIN job.in : job.in[i] # <<>> /\ "refused" \notin ToSet(job.in[i])) =>
        LET d == out.r
            n == Len(job.in)
        IN  /\ d.err <=> \E i \in 1 .. n : "sum" \notin ToSet(job.in[i])
            /\ ~d.err => d.sums = [i \in 1 .. n |-> i] /\ d.padded = PaddedTo(n * SumLength)

\* The times that Chtimes sets are the ones that ModTime and AccessTime return,
\* as long as they fit the integers they are counted in (nanoseconds and
\* milliseconds).
TimesRight ==
    Returned("times") =>
        LET fits(units) == job.in * units \in -(Word \div 2) .. (Word \div 2) - 1
        IN  /\ fits(Millis * Nanos) => out.r.mtime = job.in * Millis * Nanos
            /\ fits(Millis) => out.r.atime = job.in

\* head and tail print the lines or the bytes that they are asked for (cat.go).
SectionsRight == LinesRight /\ BytesRight

\* Messages are read back as they were written (rpc.go).
FramingRight == PacketRight /\ StreamRight

\* Every request can be marshalled, and says what the session calls for.
RequestsRight == RequestsMarshal /\ BlockChain /\ PipelineRight /\ ReadsTile /\ TimesRight

\* A client connects where, and as whom, its configuration says.
ClientRight == ConnectsRight /\ IdentityRight

\* Arguments are resolved and completed to the paths they stand for.
ArgumentsRight == PathsRight /\ CompletionRight

-------------------------------------------------------------------------------
\* Statements that do not hold; the README says why.

\* tail -n prints the last lines and no others.
TailExact ==
    Returned("section") /\ job.in.end /\ job.in.bytes = -1 /\ job.in.lines > 0 =>
        out.r = LastLines(job.in.file, job.in.lines)

\* tail -c prints the whole of a file that is shorter.
TailShort ==
    Returned("section") /\ job.in.end /\ job.in.bytes > Len(job.in.file) =>
        out.r = Printed(0, Len(job.in.file))

\* readPrefixedMessage reads messages however the connection delivers them.
StreamAlways ==
    Returned("stream") /\ out.r.error = "" => out.r.msgs = Bodies(job.in.lengths)

\* A checksum that is returned covers every block.
ChecksumAlways ==
    Returned("checksum") /\ ~out.r.err => Len(out.r.sums) = Len(job.in)

\* A client is given the address of a namenode.
AddressesGiven ==
    Returned("connect") => NoAddress \notin out.r.addresses

\* "normalizePaths [...] turns relative paths into absolute ones" (paths.go).
PathsAbsolute ==
    Returned("paths") /\ ~out.r.err => \A i \in DOMAIN out.r.paths : out.r.paths[i].abs

\* A path is the one that was typed.
PathKept ==
    Returned("paths") /\ ~out.r.err =>
        LET typed == [i \in DOMAIN job.in.args |->
                         [job.in.args[i] EXCEPT !.parts = @ \o job.in.args[i].query]]
        IN  out.r.paths = PathsUsed(job.in.command, typed, <<"me">>).paths

\* A client comes to be, or there is an error.
ConnectReturns ==
    Returned("connect") => out.r.err # "panic"

\* Completion offers the entries of the user's directory for a relative path.
CompletionRelative ==
    Returned("complete") /\ job.in.fragment.parts = <<>> => out.r # {}
===============================================================================
