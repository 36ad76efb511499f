------------------------------- MODULE Messages -------------------------------
(***************************************************************************)
(* The messages that the client exchanges with namenodes and datanodes, as  *)
(* the generated code under internal/protocol declares them: for each one   *)
(* the kinds of its required, optional and repeated fields, and what the    *)
(* getter of an unset field returns when that is not a zero value.  Other   *)
(* is the kind of a message that no code outside internal/protocol reads or *)
(* sets (trace, caching, encryption and erasure coding information).        *)
(*                                                                         *)
(* A message is a function from the fields that are set to their values.    *)
(***************************************************************************)
EXTENDS Integers, Sequences, TLC

Num == [kind |-> "Num"]
Str == [kind |-> "Str"]
Bytes == [kind |-> "Bytes"]
Bool == [kind |-> "Bool"]
Enum == [kind |-> "Enum"]
Other == [kind |-> "Other"]

None == <<>>        \* no fields

Message(req, opt, rep, def) ==
    [kind |-> "Message", req |-> req, opt |-> opt, rep |-> rep, def |-> def]

Required(req) == Message(req, None, None, None)

Optional(opt) == Message(None, opt, None, None)

-------------------------------------------------------------------------------
\* hadoop_common

UserInformationProto == Optional([effectiveUser |-> Str, realUser |-> Str])

IpcConnectionContextProto == Optional(
    [userInfo |-> UserInformationProto, protocol |-> Str])

RequestHeaderProto == Required(
    [methodName |-> Str, declaringClassProtocolName |-> Str,
     clientProtocolVersion |-> Num])

RpcRequestHeaderProto == Message(
    [callId |-> Num, clientId |-> Bytes],
    [rpcKind |-> Enum, rpcOp |-> Enum, retryCount |-> Num,
     traceInfo |-> Other, callerContext |-> Other], None,
    [rpcKind |-> "RPC_BUILTIN", rpcOp |-> "RPC_FINAL_PACKET",
     retryCount |-> -1])

RpcResponseHeaderProto == Message(
    [callId |-> Num, status |-> Enum],
    [serverIpcVersionNum |-> Num, exceptionClassName |-> Str,
     errorMsg |-> Str, errorDetail |-> Enum, clientId |-> Bytes,
     retryCount |-> Num], None,
    [status |-> "SUCCESS", errorDetail |-> "ERROR_APPLICATION",
     retryCount |-> -1])

RpcSaslProto_SaslAuth == Message(
    [method |-> Str, mechanism |-> Str],
    [protocol |-> Str, serverId |-> Str, challenge |-> Bytes], None, None)

RpcSaslProto == Message(
    [state |-> Enum],
    [version |-> Num, token |-> Bytes],
    [auths |-> RpcSaslProto_SaslAuth],
    [state |-> "SUCCESS"])

TokenProto == Required(
    [identifier |-> Bytes, password |-> Bytes, kind |-> Str, service |-> Str])

-------------------------------------------------------------------------------
\* hadoop_hdfs/hdfs.pb.go

ExtendedBlockProto == Message(
    [poolId |-> Str, blockId |-> Num, generationStamp |-> Num],
    [numBytes |-> Num], None, None)

DatanodeIDProto == Message(
    [ipAddr |-> Str, hostName |-> Str, datanodeUuid |-> Str, xferPort |-> Num,
     infoPort |-> Num, ipcPort |-> Num],
    [infoSecurePort |-> Num], None, None)

DatanodeInfoProto == Message(
    [id |-> DatanodeIDProto],
    [capacity |-> Num, dfsUsed |-> Num, remaining |-> Num,
     blockPoolUsed |-> Num, lastUpdate |-> Num, xceiverCount |-> Num,
     location |-> Str, adminState |-> Enum, cacheCapacity |-> Num,
     cacheUsed |-> Num, lastUpdateMonotonic |-> Num, upgradeDomain |-> Str],
    None,
    [adminState |-> "NORMAL"])

ContentSummaryProto == Message(
    [length |-> Num, fileCount |-> Num, directoryCount |-> Num, quota |-> Num,
     spaceConsumed |-> Num, spaceQuota |-> Num],
    [typeQuotaInfos |-> Other], None, None)

FsPermissionProto == Required([perm |-> Num])

LocatedBlockProto == Message(
    [b |-> ExtendedBlockProto, offset |-> Num, corrupt |-> Bool,
     blockToken |-> TokenProto],
    [blockIndices |-> Bytes],
    [locs |-> DatanodeInfoProto, isCached |-> Bool, storageTypes |-> Enum,
     storageIDs |-> Str, blockTokens |-> TokenProto], None)

LocatedBlocksProto == Message(
    [fileLength |-> Num, underConstruction |-> Bool,
     isLastBlockComplete |-> Bool],
    [lastBlock |-> LocatedBlockProto, fileEncryptionInfo |-> Other,
     ecPolicy |-> Other],
    [blocks |-> LocatedBlockProto], None)

HdfsFileStatusProto == Message(
    [fileType |-> Enum, path |-> Bytes, length |-> Num,
     permission |-> FsPermissionProto, owner |-> Str, group |-> Str,
     modification_time |-> Num, access_time |-> Num],
    [symlink |-> Bytes, block_replication |-> Num, blocksize |-> Num,
     locations |-> LocatedBlocksProto, fileId |-> Num, childrenNum |-> Num,
     fileEncryptionInfo |-> Other, storagePolicy |-> Num, ecPolicy |-> Other],
    None,
    [fileType |-> "IS_DIR", childrenNum |-> -1])

FsServerDefaultsProto == Message(
    [blockSize |-> Num, bytesPerChecksum |-> Num, writePacketSize |-> Num,
     replication |-> Num, fileBufferSize |-> Num],
    [encryptDataTransfer |-> Bool, trashInterval |-> Num,
     checksumType |-> Enum], None,
    [checksumType |-> "CHECKSUM_CRC32"])

DirectoryListingProto == Message(
    [remainingEntries |-> Num], None,
    [partialListing |-> HdfsFileStatusProto], None)

-------------------------------------------------------------------------------
\* hadoop_hdfs/datatransfer.pb.go

BaseHeaderProto == Message(
    [block |-> ExtendedBlockProto],
    [token |-> TokenProto, traceInfo |-> Other], None, None)

ClientOperationHeaderProto == Required(
    [baseHeader |-> BaseHeaderProto, clientName |-> Str])

OpReadBlockProto == Message(
    [header |-> ClientOperationHeaderProto, offset |-> Num, len |-> Num],
    [sendChecksums |-> Bool, cachingStrategy |-> Other], None,
    [sendChecksums |-> TRUE])

ChecksumProto == Message(
    [type |-> Enum, bytesPerChecksum |-> Num], None, None,
    [type |-> "CHECKSUM_NULL"])

OpWriteBlockProto == Message(
    [header |-> ClientOperationHeaderProto, stage |-> Enum,
     pipelineSize |-> Num, minBytesRcvd |-> Num, maxBytesRcvd |-> Num,
     latestGenerationStamp |-> Num, requestedChecksum |-> ChecksumProto],
    [source |-> DatanodeInfoProto, cachingStrategy |-> Other,
     storageType |-> Enum, allowLazyPersist |-> Bool, pinning |-> Bool],
    [targets |-> DatanodeInfoProto, targetStorageTypes |-> Enum,
     targetPinnings |-> Bool],
    [stage |-> "PIPELINE_SETUP_APPEND", storageType |-> "DISK"])

OpBlockChecksumProto == Required([header |-> BaseHeaderProto])

PacketHeaderProto == Message(
    [offsetInBlock |-> Num, seqno |-> Num, lastPacketInBlock |-> Bool,
     dataLen |-> Num],
    [syncBlock |-> Bool], None, None)

PipelineAckProto == Message(
    [seqno |-> Num],
    [downstreamAckTimeNanos |-> Num],
    [reply |-> Enum, flag |-> Num], None)

ReadOpChecksumInfoProto == Required(
    [checksum |-> ChecksumProto, chunkOffset |-> Num])

OpBlockChecksumResponseProto == Message(
    [bytesPerCrc |-> Num, crcPerBlock |-> Num, md5 |-> Bytes],
    [crcType |-> Enum], None,
    [crcType |-> "CHECKSUM_NULL"])

BlockOpResponseProto == Message(
    [status |-> Enum],
    [firstBadLink |-> Str, checksumResponse |-> OpBlockChecksumResponseProto,
     readOpChecksumInfo |-> ReadOpChecksumInfoProto, message |-> Str,
     shortCircuitAccessVersion |-> Num], None,
    [status |-> "SUCCESS"])

-------------------------------------------------------------------------------
\* hadoop_hdfs/ClientNamenodeProtocol.pb.go

GetBlockLocationsRequestProto == Required(
    [src |-> Str, offset |-> Num, length |-> Num])

GetBlockLocationsResponseProto == Optional([locations |-> LocatedBlocksProto])

GetServerDefaultsRequestProto == Required(None)

GetServerDefaultsResponseProto == Required(
    [serverDefaults |-> FsServerDefaultsProto])

CreateRequestProto == Message(
    [src |-> Str, masked |-> FsPermissionProto, clientName |-> Str,
     createFlag |-> Num, createParent |-> Bool, replication |-> Num,
     blockSize |-> Num], None,
    [cryptoProtocolVersion |-> Enum], None)

CreateResponseProto == Optional([fs |-> HdfsFileStatusProto])

AppendRequestProto == Message(
    [src |-> Str, clientName |-> Str],
    [flag |-> Num], None, None)

AppendResponseProto == Optional(
    [block |-> LocatedBlockProto, stat |-> HdfsFileStatusProto])

SetPermissionRequestProto == Required(
    [src |-> Str, permission |-> FsPermissionProto])

SetPermissionResponseProto == Required(None)

SetOwnerRequestProto == Message(
    [src |-> Str],
    [username |-> Str, groupname |-> Str], None, None)

SetOwnerResponseProto == Required(None)

AddBlockRequestProto == Message(
    [src |-> Str, clientName |-> Str],
    [previous |-> ExtendedBlockProto, fileId |-> Num],
    [excludeNodes |-> DatanodeInfoProto, favoredNodes |-> Str], None)

AddBlockResponseProto == Required([block |-> LocatedBlockProto])

CompleteRequestProto == Message(
    [src |-> Str, clientName |-> Str],
    [last |-> ExtendedBlockProto, fileId |-> Num], None, None)

CompleteResponseProto == Required([result |-> Bool])

Rename2RequestProto == Required(
    [src |-> Str, dst |-> Str, overwriteDest |-> Bool])

Rename2ResponseProto == Required(None)

DeleteRequestProto == Required([src |-> Str, recursive |-> Bool])

DeleteResponseProto == Required([result |-> Bool])

MkdirsRequestProto == Required(
    [src |-> Str, masked |-> FsPermissionProto, createParent |-> Bool])

MkdirsResponseProto == Required([result |-> Bool])

GetListingRequestProto == Required(
    [src |-> Str, startAfter |-> Bytes, needLocation |-> Bool])

GetListingResponseProto == Optional([dirList |-> DirectoryListingProto])

RenewLeaseRequestProto == Required([clientName |-> Str])

RenewLeaseResponseProto == Required(None)

GetFsStatusRequestProto == Required(None)

GetFsStatsResponseProto == Message(
    [capacity |-> Num, used |-> Num, remaining |-> Num,
     under_replicated |-> Num, corrupt_blocks |-> Num,
     missing_blocks |-> Num],
    [missing_repl_one_blocks |-> Num, blocks_in_future |-> Num,
     pending_deletion_blocks |-> Num], None, None)

GetFileInfoRequestProto == Required([src |-> Str])

GetFileInfoResponseProto == Optional([fs |-> HdfsFileStatusProto])

GetContentSummaryRequestProto == Required([path |-> Str])

GetContentSummaryResponseProto == Required([summary |-> ContentSummaryProto])

SetTimesRequestProto == Required([src |-> Str, mtime |-> Num, atime |-> Num])

SetTimesResponseProto == Required(None)

UpdateBlockForPipelineRequestProto == Required(
    [block |-> ExtendedBlockProto, clientName |-> Str])

UpdateBlockForPipelineResponseProto == Required([block |-> LocatedBlockProto])

-------------------------------------------------------------------------------
\* The generated getters: the value of a field, or its default on a message
\* where it is not set (or on no message at all, which is None here).
Zero(k) == CASE k.kind = "Num" -> 0 [] k.kind = "Str" -> "" [] k.kind = "Bool" -> FALSE [] OTHER -> None

Get(T, m, f) ==
    IF f \in DOMAIN m THEN m[f]
    ELSE IF f \in DOMAIN T.def THEN T.def[f]
    ELSE IF f \in DOMAIN T.rep THEN None
    ELSE Zero((T.req @@ T.opt)[f])

\* proto.Marshal and proto.Unmarshal succeed only when every required field
\* is set, in the messages that a message holds as well.
RECURSIVE Marshals(_, _)
Marshals(T, m) ==
    /\ DOMAIN T.req \subseteq DOMAIN m
    /\ \A f \in DOMAIN m :
          /\ f \in DOMAIN (T.req @@ T.opt @@ T.rep)
          /\ f \in DOMAIN T.rep /\ T.rep[f].kind = "Message" =>
                \A i \in DOMAIN m[f] : Marshals(T.rep[f], m[f][i])
          /\ f \notin DOMAIN T.rep /\ (T.req @@ T.opt)[f].kind = "Message" =>
                Marshals((T.req @@ T.opt)[f], m[f])
===============================================================================
