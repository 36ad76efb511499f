------------------------------- MODULE Requests -------------------------------
(***************************************************************************)
(* The requests that the client builds (client.go, file_reader.go,          *)
(* file_writer.go, ..., internal/rpc): which fields it sets, and what it    *)
(* copies into them from the answers it got before.  Paths, names and       *)
(* tokens are plain values.                                                 *)
(***************************************************************************)
EXTENDS Messages

ClientName == "go-hdfs"
OutboundChunkSize == 512
Word == 2^16         \* of integers, scaled down from 2^64
Millis == 10         \* in a second, scaled down from 1000
Nanos == 16          \* in a millisecond, scaled down from 10^6

\* A message on its way to a namenode or a datanode.
Sent(T, m) == [type |-> T, msg |-> m]

\* A field that is left nil when there is no message to put there.
Unless(field, m) == IF DOMAIN m = {} THEN None ELSE (field :> m)

-------------------------------------------------------------------------------
\* Calls of the namenode about a path.

getFileInfo(p) == Sent(GetFileInfoRequestProto, [src |-> p])

mkdirs(p, perm, createParent) ==
    Sent(MkdirsRequestProto, [src |-> p, masked |-> [perm |-> perm], createParent |-> createParent])

delete(p, recursive) == Sent(DeleteRequestProto, [src |-> p, recursive |-> recursive])

rename2(old, new) == Sent(Rename2RequestProto, [src |-> old, dst |-> new, overwriteDest |-> TRUE])

setPermission(p, perm) == Sent(SetPermissionRequestProto, [src |-> p, permission |-> [perm |-> perm]])

\* An empty name is sent as such.
setOwner(p, user, group) == Sent(SetOwnerRequestProto, [src |-> p, username |-> user, groupname |-> group])

setTimes(p, mtime, atime) == Sent(SetTimesRequestProto, [src |-> p, mtime |-> mtime, atime |-> atime])

getListing(p, last) ==
    Sent(GetListingRequestProto, [src |-> p, startAfter |-> last, needLocation |-> FALSE])

getContentSummary(p) == Sent(GetContentSummaryRequestProto, [path |-> p])

getFsStats == Sent(GetFsStatusRequestProto, None)

renewLease == Sent(RenewLeaseRequestProto, [clientName |-> ClientName])

getServerDefaults == Sent(GetServerDefaultsRequestProto, None)

-------------------------------------------------------------------------------
\* The headers of a call, the connection context, and the SASL handshake.

newRPCRequestHeader(id, clientId) ==
    Sent(RpcRequestHeaderProto,
         [rpcKind |-> "RPC_PROTOCOL_BUFFER", rpcOp |-> "RPC_FINAL_PACKET", callId |-> id, clientId |-> clientId])

newRequestHeader(method) ==
    Sent(RequestHeaderProto,
         [methodName |-> method, declaringClassProtocolName |-> "ClientProtocol", clientProtocolVersion |-> 1])

\* The user's name, with the realm when it comes from Kerberos credentials.
newConnectionContext(user, realm) ==
    Sent(IpcConnectionContextProto,
         [userInfo |-> [effectiveUser |-> IF realm # "" THEN <<user, realm>> ELSE <<user>>],
          protocol |-> "ClientProtocol"])

SaslHeader == newRPCRequestHeader(-33, "id")

\* The mechanism that doKerberosHandshake picks from the namenode's offers.
Mechanism(auths) == SelectSeq(auths, LAMBDA m : m.method = "KERBEROS")

\* doKerberosHandshake when every answer comes and can be verified.
doKerberosHandshake(auths) ==
    LET m == Mechanism(auths)
    IN  <<SaslHeader, Sent(RpcSaslProto, [state |-> "NEGOTIATE"])>> \o
        IF m = <<>> THEN <<>>
        ELSE <<SaslHeader,
               Sent(RpcSaslProto, [state |-> "INITIATE", token |-> "ticket", auths |-> <<m[Len(m)]>>]),
               SaslHeader,
               Sent(RpcSaslProto, [state |-> "RESPONSE", token |-> "signed"])>>

-------------------------------------------------------------------------------
\* Times: what Chtimes sends for a number of seconds, and what ModTime (in
\* nanoseconds) and AccessTime (in seconds) make of the namenode's answer.

Signed(n) == IF n < Word \div 2 THEN n ELSE n - Word

Chtimes(seconds) == ((seconds % Word) * Millis) % Word

ModTime(time) == Signed((Signed(time) * Nanos) % Word)

AccessTime(time) ==
    IF Signed(time) >= 0 THEN Signed(time) \div Millis ELSE -((-Signed(time)) \div Millis)

-------------------------------------------------------------------------------
\* Writing a file.  A located block is what the namenode answers addBlock and
\* append with.

create(p, replication, blockSize, perm) ==
    Sent(CreateRequestProto,
         [src |-> p, masked |-> [perm |-> perm], clientName |-> ClientName, createFlag |-> 1,
          createParent |-> FALSE, replication |-> replication, blockSize |-> blockSize])

append(p) == Sent(AppendRequestProto, [src |-> p, clientName |-> ClientName])

addBlock(p, previous) ==
    Sent(AddBlockRequestProto, [src |-> p, clientName |-> ClientName] @@ Unless("previous", previous))

updateBlockForPipeline(b) ==
    Sent(UpdateBlockForPipelineRequestProto, [block |-> b, clientName |-> ClientName])

complete(p, last) ==
    Sent(CompleteRequestProto, [src |-> p, clientName |-> ClientName] @@ Unless("last", last))

NumBytes(b) == Get(ExtendedBlockProto, b, "numBytes")

getDatanodeAddress(id, useHostname) ==
    <<IF useHostname THEN id.hostName ELSE id.ipAddr, id.xferPort>>

baseHeader(lb) == [block |-> lb.b, token |-> lb.blockToken]

\* The pipeline without its first datanode, to which the request goes.
Targets(lb) == Tail(lb.locs)

writeBlockWriteRequest(lb, offset, appending) ==
    Sent(OpWriteBlockProto,
         [header |-> [baseHeader |-> baseHeader(lb), clientName |-> ClientName],
          targets |-> Targets(lb),
          stage |-> IF appending THEN "PIPELINE_SETUP_APPEND" ELSE "PIPELINE_SETUP_CREATE",
          pipelineSize |-> Len(Targets(lb)),
          minBytesRcvd |-> NumBytes(lb.b),
          maxBytesRcvd |-> offset,
          latestGenerationStamp |-> IF appending THEN lb.b.generationStamp ELSE 0,
          requestedChecksum |-> [type |-> "CHECKSUM_CRC32", bytesPerChecksum |-> OutboundChunkSize]])

writePacket(p) ==
    Sent(PacketHeaderProto,
         [offsetInBlock |-> p.offset, seqno |-> p.seqno, lastPacketInBlock |-> p.last, dataLen |-> p.length])

writeHeartBeatPacket ==
    Sent(PacketHeaderProto, [offsetInBlock |-> 0, seqno |-> -1, lastPacketInBlock |-> FALSE, dataLen |-> 0])

\* Mutant: previous and last are copies, taken before the size is set.
PreviousCopied(b, offset) == b

\* finalizeBlock sets the size in the writer's block message itself, the one
\* that startNewBlock and Close took out of the writer before: previous and
\* last carry the new size because they are that message and not a copy.
FinalizedBlock(b, offset) == [numBytes |-> offset] @@ b

\* What is sent for the blocks of a file from the one numbered i on: w[i] bytes
\* are written to lbs[i], the first of which continues a block when the file
\* was opened by an append that returned one.  prev is the block before.
RECURSIVE WriteBlocks(_, _, _, _, _, _)
WriteBlocks(p, lbs, w, continues, i, prev) ==
    IF i > Len(lbs) THEN <<complete(p, prev)>>
    ELSE LET appending == continues /\ i = 1
             start == IF appending THEN NumBytes(lbs[i].b) ELSE 0
             final == FinalizedBlock(lbs[i].b, start + w[i])
         IN  (IF appending THEN <<>> ELSE <<addBlock(p, prev)>>)
             \o <<writeBlockWriteRequest(lbs[i], start, appending),
                  updateBlockForPipeline([numBytes |-> start + w[i]] @@ lbs[i].b)>>
             \o WriteBlocks(p, lbs, w, continues, i + 1, final)

\* Create (with the answer to getServerDefaults), writes, Close.
CreateSession(p, defaults, lbs, w) ==
    <<getFileInfo(p), getServerDefaults,
      create(p, Get(FsServerDefaultsProto, defaults, "replication"),
             Get(FsServerDefaultsProto, defaults, "blockSize"), 420)>>
    \o WriteBlocks(p, lbs, w, FALSE, 1, None)

\* Append, writes, Close.
AppendSession(p, lbs, w, continues) ==
    <<getFileInfo(p), append(p)>> \o WriteBlocks(p, lbs, w, continues, 1, None)

-------------------------------------------------------------------------------
\* Reading a file.

getBlockLocations(p, status) ==
    Sent(GetBlockLocationsRequestProto,
         [src |-> p, offset |-> 0, length |-> Get(HdfsFileStatusProto, status, "length")])

BlocksOf(resp) ==
    Get(LocatedBlocksProto, Get(GetBlockLocationsResponseProto, resp, "locations"), "blocks")

Start(lb) == Get(LocatedBlockProto, lb, "offset")
End(lb) == Start(lb) + NumBytes(lb.b)

\* getNewBlockReader: the first block that holds the byte at off, or 0.
BlockAt(blocks, off) ==
    LET at == {i \in DOMAIN blocks : Start(blocks[i]) <= off /\ off < End(blocks[i])}
    IN  IF at = {} THEN 0 ELSE CHOOSE i \in at : \A j \in at : i <= j

\* The length is unsigned: needed wraps around below zero.
writeBlockReadRequest(lb, offset) ==
    Sent(OpReadBlockProto,
         [header |-> [baseHeader |-> baseHeader(lb), clientName |-> ClientName],
          offset |-> offset, len |-> (NumBytes(lb.b) - offset) % Word])

newChecksumBlockOp(lb) == Sent(OpBlockChecksumProto, [header |-> baseHeader(lb)])

\* The requests of a read from off to the end of the file, and its error.
RECURSIVE ReadBlocks(_, _, _)
ReadBlocks(blocks, off, size) ==
    LET i == BlockAt(blocks, off)
    IN  IF off >= size \/ i = 0 THEN <<>>
        ELSE <<writeBlockReadRequest(blocks[i], off - Start(blocks[i]))>>
             \o ReadBlocks(blocks, End(blocks[i]), size)

ReadSession(p, status, resp, off) ==
    <<getFileInfo(p), getBlockLocations(p, status)>>
    \o ReadBlocks(BlocksOf(resp), off, Get(HdfsFileStatusProto, status, "length"))
===============================================================================
