# Verification of the HDFS client

TLA+ models of `github.com/efirs/hdfs` (an HDFS client in Go, under `src/`),
TLC configurations that check them on small instances, and TLAPS proofs of the
safety of its write path, its read path, its listings, its namenode connection
and its lease count.

## The system

| part | source | module | state of the work |
|---|---|---|---|
| stream of one block to a datanode | `internal/rpc/block_write_stream.go` | `BlockWriteStream` (abstract: `BlockWrite`; proofs: `BlockWriteStreamChannel`, `...Proofs`, `...FaultFree`) | modelled, checked, proved |
| writer of one block, writer of a file | `internal/rpc/block_writer.go`, `file_writer.go`, `fetchDefaults` in `client.go` | `FileWriter` (proofs: `FileWriterProofs`) | modelled, checked, proved |
| remote calls to the namenodes | `internal/rpc/namenode.go`, `kerberos.go` | `NamenodeConnection` (proofs: `NamenodeConnectionProofs`) | modelled, checked, proved |
| packets and checksums of one block | `internal/rpc/block_read_stream.go` | `BlockReadStream` (proofs: `FileReaderProofs`) | modelled, checked, proved |
| reader of one block, choice of datanodes | `internal/rpc/block_reader.go`, `datanode_failover.go` | `BlockReader` (proofs: `FileReaderProofs`) | modelled, checked, proved |
| reader of a file | `file_reader.go` | `FileReader`, `FileReaderMC` (proofs: `FileReaderProofs`), `Readdir` (listings; proofs: `ReaddirProofs`), `FileChecksum` (`Checksum`) | modelled, checked; all but the checksum proved |
| lease renewal, `Client.Close` | `client.go` | `ClientLease` (proofs: `ClientLeaseProofs`) | modelled, checked, proved |
| block checksums | `internal/rpc/checksum_reader.go` | `FileChecksum` | modelled except deadlines, checked |
| remove, mkdir, rename, stat, walk, permissions, copies | `remove.go`, `mkdir.go`, `rename.go`, `stat.go`, `walk.go`, `perms.go`, `error.go`, ..., `client.go` | `Namespace`, `TreeCommands`, `CopyCommands` | modelled, checked |
| command line | `cmd/hdfs/*.go` | `CommandLine`, `TreeCommands`, `CopyCommands`, composed in `Commands`, `CommandsMC`; `Sections` (head, tail), `Paths` | modelled, checked |
| completion | `cmd/hdfs/complete.go` | `Paths` | `completePath` modelled, checked |
| configuration, a client's identity | `hadoopconf/hadoopconf.go`, `client.go`, `cmd/hdfs/main.go`, `kerberos.go` | `Configuration` | modelled, checked |
| requests | all of the above | `Requests`, composed in `Algorithms`, `AlgorithmsMC` | modelled, checked |
| framing of messages | `internal/rpc/rpc.go` | `Framing` | modelled, checked |
| generated protocol code | `internal/protocol` | `Messages` | the messages that the client uses |

A `Client` holds a `NamenodeConnection`, over which every metadata operation
goes, and a goroutine that renews its lease. A `FileWriter` asks the namenode
for blocks and writes each one through a `BlockWriter`, whose stream sends
packets to a datanode from the caller's goroutine while a second goroutine
reads acks and a third sends heartbeats. A `FileReader` fetches the list of
blocks once and reads each one through a `BlockReader`, which goes from
datanode to datanode as they fail. The program `hdfs` expands its arguments
against the namenode's listings and then works through them with the client's
operations, one call after the other.

## Modules

### BlockWriteStream, BlockWrite

The caller's goroutine (`pc`, `op`), the ack loop (`ackPc`) and the heartbeat
loop (`hbPc`) are interleaved at every point where they can block or touch what
they share: the channel `s.packets`, `s.lock`, the connection. `Write`, `Flush`
and `Finish` begin a call, `FlushLoop`, `Enqueue`, `AcquireLock`, `WritePart` and
`WritePartFails` carry a packet to the connection in its three writes
(header, checksums, data), `CloseChannels` and `Join` are finish's deferred
function. `AckReceive`, `AckRead`, `AckReadFails` and `AckDrain` are the ack
loop. The datanode and the network are the environment: `DatanodePacket`,
`DatanodeHeartbeat`, `DatanodeRejects`, `ConnectionBreaks`, `DeadlinePasses`;
`Faults` says what may go wrong in an instance: the connection, the deadline, an
ack's status or its number. A byte is named by its
position, so that a packet put at the wrong place is seen at the datanode.

`BlockWrite` is what a caller may rely on: bytes are stored where they belong,
and success is reported only when all are stored. `Refinement` states that the
stream implements it.

### FileWriter

One goroutine creates a file, writes, flushes and closes it, and may append to
it later; another client may create the file first. The stream of a block is
abstract here: its operations succeed or fail, and a finish that returns nil
has stored everything, which is what `FinishSafe` proves of the real one. Every
namenode call may fail, and create, append, addBlock and complete may do so
with their effect, the answer being lost. The namenode (`Committed`, `Follows`,
`Completable`, `Reopened`) is modelled from how the code uses it.

### NamenodeConnection

`Execute` takes `reqLock`, then loops: `Resolved`, `SkipHost`, `DialFails`,
`Handshake`, `HandshakeFails` and `Unavailable` are resolveConnection,
`WriteRequest`, `WriteFails`, `ReadResponse`, `ReadEOF` and `ReadFails` the rest.
`Close` and `CloseConn` are Close's two looks at `c.conn`, which no lock
protects: the second may find nil, which ends the program, or see what the
first saw. A backoff is a set of hosts that `BackoffEnds` shrinks. `Serve` is a
namenode, which carries out a request it has received even if the client is
gone; `Breaks` ends a connection with or without the answers on their way.
The SASL exchange is one step; what it does to the call id is kept.

### BlockReadStream, BlockReader, FileReader

`BlockReadStream` has the stream as a record and a read as an operator from a
stream and a buffer length to what is returned (`StreamRead`), or to all that
may be returned when the connection breaks (`StreamReadBroken`). A checksum holds
exactly for the bytes it was made for. The datanode sends full packets, the
rest, and an empty last packet. `BlockReader` adds the loop over datanodes and
the failures on record: `ConnectNext` is connectNext, `ConnectFails` its failures,
`ConnectUndated` the one that comes after the stream is in place, at SetDeadline,
so that the datanode is recorded as failed and yet read from. `FileReader` adds
the offset, the blocks, `Seek`, `ReadAt` and deadlines. `Start` has where each
block begins and where the file ends; `Corrupt` and `HangUp` say which datanodes
are bad in an instance.

### Readdir, ClientLease

`Readdir` is the loop over getListing calls while other clients change the
directory. `ClientLease` is the renewer goroutine, the count of open files and
`Client.Close`.

### Namespace, CommandLine, TreeCommands, CopyCommands, Commands

`Namespace` is the namenode's tree and what one call does to it, modelled from
what the code asks of it, together with the errors that `interpretException`
makes of its exceptions. Every call of the client to the namenode is one step
of a command: `GetFileInfo`, `GetListing` and `Execute` in `CommandLine` take
the continuation of the command as an operator, and either the call works, or it
fails without effect, or it fails with its effect, the answer being lost.
Between two calls others create and remove files (`Rival`).

`cmd` is the command with its arguments and flags, `ctl` holds its label, the
expansion still to be done (`work`), the arguments (`args`, `todo`), the state of
a walk, what was printed, and the exit status: 0, 1, or 2 for a panic.
A command line that is refused at once ends in `Init` with status 1 (`Refused`),
one that only has the usage printed with 0. `Hidden` are the names that begin
with a dot, which ls leaves out without `-a` (`LsShown`).
`ExpandPath` to `ExpandSkip` are `expandPaths` and `expandGlobs`.
`TreeCommands` has rm, mv, mkdir, touch, chmod and chown over `RemoveAll`,
`Rename`, `MkdirAll`, `CreateEmptyFile`, `Chtimes`, `Chmod`, `Chown` and `Walk`;
`CopyCommands` has put, get, getmerge, cat, head and tail, du, ls, checksum and df
over `Create`, `CopyToRemote`, `Open`, `ReadDir`, `GetContentSummary` and `StatFs`.
A file's contents are one value, read and written as a whole or in part.

### Messages, Requests, Framing, Sections, Configuration, Paths, FileChecksum

These are operators from what the code is given to what it returns.
`Messages` has the fields of the generated types: which are required, and what
the getters return for unset ones; marshalling a message without a required
field fails. `Requests` has one operator for each request, from the answers
that came before to the fields that are set. `Framing` lays messages out in
bytes and reads them back, with the length of the first read as an input.
`Sections` has the searches of head and tail, `Configuration` what becomes of
configuration files, environment and credentials until a connection exists,
`Paths` the normalisation and completion of paths: `PathsUsed` has what each
command makes of its arguments, since only some go through `expandPaths`, which
makes relative paths absolute. `FileChecksum` has the sums and their padding. `Algorithms` calls each with every input of a family that
`AlgorithmsMC` gives, and whole sessions (`WriteFile`, `ReadFile`) with
the answers that a namenode may send; a property compares the result with a
definition that is not made from the code: `LastLines`, `Resolve`, `Says`,
`PaddedTo` and the like.

## What is checked

| run | shows |
|---|---|
| `stream_faults` | packets are contiguous, numbered and aligned to chunks (`PacketsRight`); frames are not torn by heartbeats (`FramesIntact`); the ack loop raises no error of its own (`NoSpuriousAckError`); a finish that returns nil has stored everything (`FinishedMeansStored`); what the ack loop lets pass is stored (`AckedMeansStored`); nothing is sent on the closed channel; `BlockWrite` is implemented (`Refinement`) |
| `stream_live` | every call returns and finish ends both goroutines, when a Write fills packets by itself |
| `file_faults` | blocks are filled in order and committed with their true length (`BlocksRight`); a history without errors stores everything (`CleanCloseStored`); deadlines follow; another client's file is not replaced (`NoClobber`); calls return |
| `namenode_failover` | with Kerberos: Execute returns the answer to its own request and no call meets another's answer (`AnswerIsOwn`), and no connection leaks |
| `namenode_live` | without Kerberos: call ids identify requests over retries, and Execute returns |
| `read_faults` | the bytes returned are the file's as far as no block with a corrupt chunk is reached (`HealthyBytes`); the offset follows them and EOF comes only at the end (`OffsetsAgree`); a read fails only when every datanode has, and the deadline is on the connection in use, unless that takes none (`FailoverRight`); reads return but for two cases, see below (`ReadsReturn`) |
| `readdir_changes` | names come in order and none twice (`InOrder`); without failures none that was there all along is left out, and at most n are returned (`AsDocumented`); the loop ends |
| `client_lease` | the count is right and no renewal outlives Close (`LeaseSafe`), the lease is renewed, Close returns |
| `commands` | an exit status of 0 is true for what others left alone, a walk's whole tree included (`ExitHonest`); copies are complete (`CopyFaithful`); du reports the sizes, and ls the names that are not hidden (`ReportsRight`); only the arguments change (`OnlyArguments`); what was checked still holds when it is acted on, and nobody's file is overwritten (`ChecksHold`); every command ends |
| `algorithms` | head and tail print the right bytes (`SectionsRight`); packets and streams of messages are read as they were written (`FramingRight`); every request can be marshalled, the blocks of a file are chained with their lengths and written to the right pipeline, reads tile the file, times are right (`RequestsRight`); the client connects where the configuration says and as whom it says (`ClientRight`); each command uses the paths that it should, relative ones under the user's directory where the command expands its arguments, and completion is exact (`ArgumentsRight`); checksums are padded right (`ChecksumRight`) |

Each of these specifications but `ClientLease` has a type invariant `TypeOK`,
which holds in the same configurations. No run lists it; those of
`BlockWriteStream`, `FileReader` and `Readdir` are proved.

### Where the code differs

Two runs show the code doing something other than what the repository says.
The findings in `PROJECT.json` quote both sides.

| run | shows |
|---|---|
| `file_close_stored` | Close returns nil though a block's bytes were never acknowledged, because a second finish of its stream returns nil |
| `read_corrupt` | bytes that do not match their checksum are returned without an error |

These further statements are defined in the modules and do not hold. Each one
is violated when it is put in place of the properties of the configuration
named, with `Spec`:

| statement | configuration | what happens |
|---|---|---|
| `WriterLearnsAckError` | `BlockWriteStreamFaults` | a Write or Flush that begins after an ack error returns nil: `getAckError` looks only once finish has ended the ack loop |
| `CloseMeansClosed` | `FileWriterFaults` | Close ignores the result of complete and returns nil for a file the namenode has not closed |
| `CloseIsFinal` | `NamenodeConnectionFailover` | a call under way during Close dials again and leaves a connection open |
| `CallIdIdentifies` | `NamenodeConnectionFailover` | with Kerberos a reconnect sets the call id back: a retried request changes its id, and later ones reuse ids |
| `OnlyFailuresRecorded` | `FileReaderFaults` | a partial last chunk read into a longer buffer fails its check, and a healthy datanode is recorded as failed; so is one whose connection takes no deadline, and it is read from all the same |
| `NothingSkipped`, `PartialOnError` | `ReaddirChanges` | a listing that fails in the middle drops the entries it had, for that call and for the next ones |
| `PutStored` | `Commands` | put exits with 0 when a file could not be created or copied |
| `MkdirMade` | `Commands` | `mkdir -p` over a file exits with 0 |
| `MvKeepsSources` | `Commands` | of several sources with one base name all but the last are lost |
| `WalkCompleteAlways` | `Commands` | `chmod -R` skips a directory whose listing fails and exits with 0: Walk gives the error to a visit that does not look at it |
| `DuExact` | `Commands` | du prints partial sums after a failed call and exits with 0 |
| `NoPanic` | `Commands` | get uses the file information that Walk does not have when Open fails; df divides by a capacity of 0 |
| `ChecksHoldAlways` | `Commands` | rm without `-r` removes a directory that took the place of the file it saw |
| `Terminates`, with `Trees <- MCGlobTrees` | `Commands` | a directory whose name is a glob character is expanded again for ever |
| `TailExact` | `Algorithms` | `tail -n` prints the whole file when the first of the lines begins in what the search steps of `tailSearchSize` leave over at the beginning; `tail -n 0` panics |
| `TailShort` | `Algorithms` | `tail -c` of more bytes than there are prints nothing and exits with 0 |
| `StreamAlways` | `Algorithms` | `readPrefixedMessage` does not look at how much its first read brought: after a short one zeroes are taken for data, and one that goes beyond a message shorter than the buffer swallows what follows |
| `ChecksumAlways` | `Algorithms` | a block without locations, or a datanode that answers with an error, is left out of the checksum without an error |
| `AddressesGiven` | `Algorithms` | `fs.defaultFS` without a host gives the address "" |
| `ConnectReturns` | `Algorithms` | `Namenodes` uses the result of `url.Parse` without a look at the error: an `fs.defaultFS` that is no URL ends the program with a panic |
| `PathsAbsolute` | `Algorithms` | the comment on `normalizePaths` (`cmd/hdfs/paths.go:22`) says that it turns relative paths into absolute ones; it leaves them relative, and so do mkdir, touch, put, get, getmerge and the destination of mv, which use them as they are |
| `PathKept` | `Algorithms` | a path ends at a question mark, since arguments are parsed as URLs |
| `CompletionRelative` | `Algorithms` | an empty or relative fragment has no completions |

`ReadsReturn` excepts two cases in which the code does not return. In both
`BlockReader.Read` returns nothing and records no failure, and the loop of `Read`
(`file_reader.go:207`) goes back to the same datanode for ever:

* a connection that ends where a packet should begin is taken for the end of the
  block, so that a datanode which always hangs up is asked again and again;
* a read with a buffer shorter than a chunk that comes upon a corrupt chunk
  returns 0 bytes and a nil error (`block_read_stream.go:72`), although another
  datanode may have the chunk as it was written.

With either exception left out `ReadsReturn` is violated in `FileReaderFaults`.

Some properties are stated for less than the hazard they are about, because the
code does no more. `CleanCloseStored` is about histories without failed calls,
`CallIdIdentifies` about connections without Kerberos, the clause of
`CopyFaithful` on put and that of `ExitHonest` on `-R` about commands none of
whose calls failed, the clauses of `ChecksHold` on rm and mv about paths that
others leave alone, `LinesRight` says only that tail leaves no line out, and
`StreamRight` is about first reads that end where the message or the buffer does.
The statements that go further are in the table above.

### Bounds

* Stream: chunks of 2 bytes, packets of 2 chunks and a start in the middle of a
  chunk give partial and aligning packets, and bytes that a failed finish leaves
  in the buffer; packets of 2 bytes in `stream_live` are filled by a Write. A
  channel of 1 packet fills up; 1 heartbeat falls between any two steps; every
  kind of fault may come at any point.
* File: blocks of 2 bytes, 5 bytes, 2 sessions and 2 failures: up to 3 blocks, a
  partial block that is appended to, and two failures in any places.
* Namenode: 2 callers, 2 hosts, 2 requests, 3 connections, 3 failures of any
  kind: a retry on the same host, on the other host, and the other caller's
  request on what is left.
* Reads: chunks of 3 bytes, packets of 2 chunks, blocks of 7 and 3 bytes: a
  full packet, a partial chunk, and a chunk of which small reads leave more than
  one read in the buffer; buffers shorter than a chunk, between a chunk and a
  packet, and longer than the block; 2 datanodes, of which one hangs up and the
  other has a corrupt copy of the second block, and 2 failures.
* Listings: 5 names, answers of 2, 2 changes and 1 failure.
* Lease: 3 writers and 4 files.
* Commands: 49 command lines with their flags, with one or two arguments, of
  which some are globs; 10 trees with up to three levels; 2 changes by others and 2
  failures between any two calls: a check that is undone and done again, a
  failure while another is dealt with.
* Algorithms: files of up to 9 bytes with newlines anywhere, searched in steps
  of 3; length prefixes of up to 3 bytes of one bit each, so that lengths 0 to 5
  have one, two and three; up to 3 messages; 3 blocks, with and without a size;
  1 and 3 replicas. Integers are 16 bits wide and a second has 10 milliseconds
  of 16 nanoseconds, so that times overflow where they do in the code.

`CHECK_DEADLOCK FALSE` is set where a bound brings the model to a stop
(`NamenodeConnection` and `ClientLease`: no more requests or files) or where the
system may (`BlockWriteStreamLive`).

### Fairness

A goroutine that can take a step takes it (weak fairness), since the Go
scheduler is fair. A namenode or datanode that has a request answers it, or the
connection fails. Strong fairness is assumed of a waiter for `reqLock`, because a
`sync.Mutex` hands itself over to a waiter that has starved, and of the cases of
the renewer's `select`, which are chosen at random. Nothing is assumed of the
caller, which need not call anything, nor of failures, deadlines and heartbeats,
which need not happen.

The number of failures is bounded, so liveness is shown for failures that come
to an end; a namenode that takes every request and hangs up keeps `Execute` in
its loop. `stream_live` leaves out callers that move a deadline after it has
passed: with them finish can wait on a full channel while the ack loop waits for
an ack of a packet that was never sent. `FileReader` writes its weak fairness
out, with "a call is in progress" for ENABLED, because TLC is slow to evaluate
that. `Commands` does so, too: a command that has not ended takes another step,
because its calls return, with an answer or an error. Others may change the tree
only `MaxRivals` times, so `Terminates` is shown for changes that come to an end.

## What is proved

Safety is proved of six components, for every value of their constants: every
invariant and action property that a run checks of them is a theorem. The
inductive invariants were checked with TLC on the configurations named before
they were proved.

| theorem | module | states |
|---|---|---|
| `TypeCorrect` | `BlockWriteStreamChannel` | the type invariant |
| `FinishSafe` | `BlockWriteStreamProofs` | a finish that returns nil has stored every byte at its place |
| `AcksHonest` | `BlockWriteStreamProofs` | a packet that the ack loop lets pass is stored |
| `NoPanic` | `BlockWriteStreamProofs` | nothing is sent on the closed channel |
| `PacketsSafe` | `BlockWriteStreamProofs` | packets follow each other without gap or overlap (`LogContiguous`), and one that starts inside a chunk does not leave it (`PartialChunks`) |
| `StreamRefines` | `BlockWriteStreamProofs` | every step of the stream is a step of `BlockWrite` or changes nothing there |
| `FramesSafe` | `BlockWriteStreamFaultFree` | as long as nothing has failed, nothing gets between the parts of a packet on the wire |
| `NoSpuriousErrors` | `BlockWriteStreamFaultFree` | as long as nothing has failed, the ack loop reports no error |
| `BlocksSafe` | `FileWriterProofs` | blocks are filled in order and committed with their true lengths |
| `CleanSafe` | `FileWriterProofs` | a history without errors has stored and committed everything |
| `DeadlineSafe` | `FileWriterProofs` | the connection in use has the deadline set last |
| `ForeignSafe` | `FileWriterProofs` | no step replaces another client's file |
| `AnswersSafe` | `NamenodeConnectionProofs` | a caller gets the answer to its own request |
| `ConnectionsSafe` | `NamenodeConnectionProofs` | at most one connection is open, the one in `c.conn` |
| `CallIdsSafe` | `NamenodeConnectionProofs` | without Kerberos, a call id belongs to one request over all its retries |
| `TypeCorrect` | `FileReaderProofs` | the type invariant |
| `PlacesAgree` | `FileReaderProofs` | the file's offset, the bytes returned and the block reader's place agree; EOF comes only at the end, and ReadAt is complete or returns an error |
| `FailoverSafe` | `FileReaderProofs` | a read fails only when every datanode has, datanodes without a failure are tried first, and the deadline is on the connection in use, unless that takes none |
| `HealthyBytesRight` | `FileReaderProofs` | whichever chunks are corrupt, the bytes returned are the file's up to the first block that has one |
| `BytesRight` | `FileReaderProofs` | without corrupt chunks, all bytes returned are the file's |
| `TypeCorrect` | `ReaddirProofs` | the type invariant |
| `NamesInOrder` | `ReaddirProofs` | over any number of calls, names come in order and none twice |
| `ReaddirAsDocumented` | `ReaddirProofs` | without failed calls no entry that was there all along is left out; no call returns more than n |
| `LeaseIsSafe` | `ClientLeaseProofs` | the renewer's count is right, and it ends with Close |

### Assumptions

* `BlockWriteStream`: packet and chunk sizes above 0, channel capacity above 0,
  wire capacity of at least 3 (a packet's three parts; `SizesAssumption`); any
  start offset, number of bytes and heartbeats, any set of faults
  (`BoundsAssumption`).
* `FileWriter`: a block size above 0, deadlines that are numbers; any number of
  bytes, sessions and failures (`FileAssumption`).
* `NamenodeConnection`: at least one host, any set of callers, where the lock's
  value "free" is not a caller; any bounds (`NamenodeAssumption`). `CallIdsSafe`
  assumes that Kerberos is off; with it the statement is false (see above).
* `FileReader`: chunk and packet sizes above 0, blocks that are not empty and
  follow each other from 0 (`StreamAssumption`); any number of datanodes, of which
  any may hang up or have any chunks corrupt, any number of failures
  (`ReaderAssumption`), any lengths of buffers and any deadlines that are numbers
  (`FileReaderAssumption`). `BytesRight` assumes that no chunk is corrupt; with corrupt chunks
  the statement is false, as `read_corrupt` shows.
* `Readdir`: a limit of the namenode above 0; any names, arguments, changes and
  failures (`ReaddirAssumption`).
* `ClientLease`: finitely many writers (`LeaseAssumption`), so that there is a
  number of open files to count.

### BlockWriteStream

`TypeOK` is inductive. The others follow from `IndInv` (`InvariantHolds`), which
is `TypeOK` and:

* `Accounting`: a byte that was accepted is in the log of packets, in the packet
  about to be enqueued or in the buffer, and `seqno` is the log's next number;
* `LogOK`: the log is a gapless sequence of packets from `start` to `offset`;
* `QueueOK`: the channel is the end of the log, the packet the ack loop holds is
  the one before, and `ackError` goes with the loop's position;
* `DatanodeOK`: what is on the wire or received is in the log, and an ack is for
  a packet that was received;
* `AckedOK`: without an ack error, every packet that has left both the channel
  and the ack loop's hands is stored;
* `FinishOK`: what is known at each point of finish; in particular that a finish
  without an error has sent the last packet and ended the ack loop;
* `LostOK`: if finish leaves bytes in the buffer, the last packet in the log was
  not written whole and is not received. It is what rules out a send by a Flush
  that comes after a failed finish: bytes are left only if a packet was lost,
  its ack is then missing, and Flush sees the ack error first.

`FinishedMeansStored` alone says nothing of states before the end, so it cannot
be inductive. With `IndInv` it follows: a finish that returned nil has sent the
last packet, the ack loop has ended with the channel empty and without an
error, so by `AckedOK` the whole log is stored; `LogOK` and `Accounting` make the
log all that was accepted. A step keeps `IndInv` by one lemma per conjunct
(`AccountingStep`, `LogStep`, `QueueStep`, ...), which share lemmas on what groups
of actions leave alone (`EnvironmentFrame`, `CallerFrame`) and on what `Enqueue`
does. `PartialChunks` adds `AlignOK`, the same fact for the packet about to be
enqueued.

The refinement adds `WithinOK`: every packet of the log lies between `start` and
`offset`. Then what the datanode stores is part of what was accepted
(`StoredIsAccepted`), the calls map to the abstract calls (`CallRefines`), the end
of finish to the abstract finish (`JoinRefines`), and the other steps to storing
bytes or to nothing (`StepRefines`).

`FramesIntact` and `NoSpuriousAckError` follow from `FaultFreeInv`, which adds:

* `LockOK`: the caller holds `s.lock` exactly while it writes the parts of a
  packet, the heartbeat loop while it writes a heartbeat;
* `FaultFree`: as long as nothing has failed, the wire is `Framed`, every ack is
  good, and the packets in order are those the ack loop still has to check, of
  which the first r of the log have been received (`WireOrder`, `AckOrder`): the numbers on
  the wire go up by one from r, with heartbeats in between, and the numbers of
  the acks go up by one from the packet that the ack loop waits for and end at r.

Orders with heartbeats in between are `Counts(f, n, lo, hi)`, a statement on
sequences of numbers, and what happens to it when an element is added at the end
or taken from the front is proved apart from the stream. That the ack loop meets
the number that it expects is then the first element of that order.

The proofs are three modules, each extending the one before, because the prover
slows down with the length of a module.

### FileWriter

`IndInv` in `FileWriterProofs` (checked on `FileWriterFaults`) is `BlocksRight`,
`DeadlineApplied`, the types, and:

* `ControlOK`: which call is at which place, and when there is a block writer;
* `FileOK`: a FileWriter that is not closed has the namenode's file open, and a
  closed file has only committed blocks;
* `FullOK`: a new block is asked for only when the last one is full. It carries
  over errors: a FileWriter that has no block writer and a file whose blocks are
  all committed is at a block's end, so that the next addBlock is right. After a
  lost answer to addBlock there is a block that is not committed, and the
  namenode refuses the next one;
* `PrevOK`: the length that is reported is that of the last block;
* `Uncommitted`: the block that is being written is not committed, so that
  writing to it cannot make its committed length wrong;
* `CleanOK`: as long as no call has failed, the blocks that are not being written
  are stored, and all but the one about to be are committed.

There is one lemma for each step that changes the blocks or the block writer, and
one for the rest of opening (`OpeningStep`) and of the calls (`CallingStep`).
`NoClobber` needs `FileOK`: only `Complete` changes a file's state without looking
at it, and a Close in progress has the file open.

### NamenodeConnection, ClientLease

`IndInv` in `NamenodeConnectionProofs` (checked on `NamenodeConnectionFailover`) is
`NoConnectionLeak`, `AnswerIsOwn`, the types, and:

* `LockOK`: a caller between the lock and its return holds `reqLock`, so there is
  at most one;
* `ChannelOK`: the connection in use carries nothing while no caller waits for an
  answer, and at most the one request or answer of the caller that does.

That a response is read only by the caller whose request it answers follows from
`ChannelOK`, and `ChannelOK` is kept because every error closes the connection
before the lock is given up. `CallIdIdentifies` adds `CallIds`: numbers that were
sent are not beyond the counters of calls and requests, callers have different
requests, a request whose caller waits for the lock was never sent, and the one
of the caller that holds the lock is the only one sent with the current id.

The invariant of `ClientLeaseProofs` is `LeaseSafe`
itself, with the states that a writer's file can be in; its argument is that the
set of open files gains or loses exactly the file that is opened or closed.

### FileReader

The stream's reads are operators, so their proof comes in two parts. First,
what one read does to a stream that is `StreamOK` at a place p of its block:

* `SmallReadOK`, `LargeReadOK` and `NothingRead` for the three ways through
  `Read`, put together in `StreamReadOK`, and `StreamReadBrokenOK` for a connection
  that breaks: the stream is again `StreamOK`, at p plus the number of bytes
  returned, which are no more than the buffer holds; and if no copy of the block
  has a corrupt chunk (`Healthy`) they are the bytes that were written there
  (`Right`);
* `NewStreamOK` and `DiscardOK` for connectNext: a stream that was started at the
  chunk's beginning and from which the rest was thrown away is at the offset that
  was asked for, although io.CopyN may meet an empty read in between.

`StreamOK` says that a stream is either on track (`OnTrack`: the connection is where
the chunk index says) or that a check of a small read has failed (`OffTrack`): the
code then returns nothing and no error, keeps the chunk in the buffer and its
index where it was, and the connection is ahead.
Second, `IndInv` (checked on `FileReaderFaults`, also with `FirstCorrupt`):

* `ReaderInv`: the block reader's stream is `StreamOK` at its offset, its
  connection has the deadline or takes none, and of its datanodes those not tried
  are left; if the current one has a failure on record, so have all that are
  left, unless its connection takes no deadline;
* `PlaceInv`: the file's offset is the block's start plus the reader's offset, less
  what a BlockReader.Read that has just returned is about to add;
* `CallInv`, `RetInv`: what ReadAt still wants is what is not yet read, and a
  read that returns an error has no datanode left;
* `RightInv`: what is buffered and returned of a healthy block are its bytes
  (`Sound`), and what is collected are the file's up to the first block that is
  not healthy. It is stated for each block, because a stream that is off track in
  a corrupt block may go beyond that block's end, and what it returns then is
  counted as the next block's.

One lemma per action shows that it is kept. `ConnectedOK` serves both ways out of
connectNext that leave a stream. The choice of the next datanode
(`PickedOK`) and the block that holds an offset (`BlockOf`) need a least element
of a set of numbers; `NatMin` gets it from the well-foundedness of <.

### Readdir

`IndInv` in `ReaddirProofs` (checked on `ReaddirChanges`) is `TypeOK`,
`AsDocumented`, and, of all names returned or collected since the listing began:

* `OrderOK`: they go up, and none is beyond `readdirLast`;
* `CoverOK`: without failures, every entry that was there all along and is not
  beyond `readdirLast` is among them.

The listing is the entries by rank, and what is needed of it (`SortedProperties`:
it goes up and has every entry once) follows from every rank below the number of
entries being taken (`RankTaken`): if r were the least rank that is not, the
elements of lower rank would be r in number, and the least of the others, which
there are, would have rank r. `Round` is what one
getListing call adds, `ConcatFirst` what cutting the surplus off leaves.

### Only model-checked

* Liveness (that calls return): out of the prover's reach.
* The commands (`ExitHonest`, `CopyFaithful`, `ReportsRight`, `OnlyArguments`,
  `ChecksHold`): 49 kinds of command lines and their steps, of which each would
  need an invariant of its own.
* `Algorithms`: the searches of head and tail, prefixes of messages, paths and
  sums are recursive, and what a recursive definition computes for every input
  takes induction over data, which the prover does not have. `Readdir` and
  `FileReader` get by with least counterexamples because the sets and sequences
  in question have definitions that are not recursive.

## Not modelled

* Bytes of an encoded message: `Messages` has the fields and which are required,
  `Framing` the prefixes and lengths, and the protobuf library is between them.
  The generated messages that the client does not use, descriptors and the
  registration of types have no behaviour of their own.
* XML and URL parsing (libraries); `Configuration` starts from properties, `Paths`
  from a parsed path.
* Option parsing, usage, the layout of what ls, du, df and the like print, and
  the part of completion that finds the word at the cursor.
* Kerberos tickets, signatures and encryption: the exchange is one step that
  succeeds or fails.
* Time: a deadline is a value that is or is not set on a connection, and may pass
  at any moment; a backoff may end at any moment. The deadlines of the checksum
  reader are left out.
* Connections that readers do not close; `NamenodeConnection` tracks its own.
* Calls on one `FileWriter` or `FileReader` from several goroutines, which the
  code does not support.
* Failures that other readers record while a reader runs (`datanode_failover.go`
  keeps them in a map of the whole process).
* Tests, fixtures and the Makefile.

## Plan

1. Composition: `FileWriter` over `BlockWrite` by INSTANCE, in place of its own
   abstract stream; a client whose writers, renewer and `Close` share one
   `NamenodeConnection`.
2. Failover with several readers that share the map of failures.
3. Proofs: the operators of `Algorithms` and `Commands` that are not recursive.
