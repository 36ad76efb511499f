----------------------------- MODULE FileReader -----------------------------
(***************************************************************************)
(* file_reader.go: Read, Seek, ReadAt, SetDeadline and Close of a file in  *)
(* several blocks, over a BlockReader for the current one.  The calls are  *)
(* made by one goroutine, one after the other; a call takes several steps. *)
(***************************************************************************)
EXTENDS BlockReader

CONSTANTS
    ReadSizes,      \* len(b) of the reads made
    Deadlines       \* the deadlines set

ASSUME FileReaderAssumption == ReadSizes \subseteq Nat /\ Deadlines \subseteq Nat

VARIABLES
    offset, closed, deadline,
    blocks,         \* whether f.blocks has been fetched
    call,           \* the call in progress or made last
    got             \* history: what it has returned so far

fileVars == <<offset, closed, deadline, blocks, call, got>>
vars == <<readerVars, fileVars>>

\* A call: its name, where in the file it is to read, and how much.
NoCall == [op |-> "none", at |-> 0, want |-> 0]

\* Open
Init ==
    /\ pc = "idle" /\ b = 0 /\ br = NoReader /\ ret = [bytes |-> <<>>, err |-> "nil"]
    /\ datanodeFailures = <<>> /\ blamed = {} /\ failures = 0
    /\ offset = 0 /\ closed = FALSE /\ deadline = 0 /\ blocks = FALSE
    /\ call = NoCall /\ got = [bytes |-> <<>>, err |-> "nil"]

\* Mutant: the end of a block counts as part of it.
GetNewBlockReaderAtEnd(off) ==
    br' = LET blk == CHOOSE k \in Blocks : Start[k] <= off /\ off <= Start[k + 1]
          IN  NewReader(blk, off - Start[blk], deadline)

\* getNewBlockReader
GetNewBlockReader(off) ==
    br' = LET blk == CHOOSE k \in Blocks : Start[k] <= off /\ off < Start[k + 1]
          IN  NewReader(blk, off - Start[blk], deadline)

BrClosed == IF br = NoReader THEN br ELSE [br EXCEPT !.closed = TRUE]

\* The end of a FileReader.Read, which for ReadAt is one of several: io.ReadFull
\* goes on until it has enough or there is an error.
Done(bytes, err) ==
    LET all == got.bytes \o bytes
        more == call.op = "ReadAt" /\ err = "nil" /\ Len(all) < call.want
    IN  /\ got' = [bytes |-> all,
                   err |-> IF call.op = "ReadAt" /\ Len(all) >= call.want THEN "nil" ELSE err]
        /\ pc' = IF more THEN "read" ELSE "idle"
        /\ b' = IF more THEN call.want - Len(all) ELSE b

Begin(op, at, n) ==
    /\ pc = "idle"
    /\ call' = [op |-> op, at |-> at, want |-> n]
    /\ got' = [bytes |-> <<>>, err |-> "nil"]
    /\ b' = n

SeekTo(off) ==
    /\ offset' = off
    /\ br' = IF off = offset THEN br ELSE NoReader

\* Seek, with off already reckoned from whence; an offset beyond the file is
\* an error and changes nothing.
Seek(off) ==
    /\ pc = "idle" /\ ~closed
    /\ SeekTo(off)
    /\ call' = NoCall
    /\ UNCHANGED <<pc, b, ret, datanodeFailures, blamed, failures, closed, deadline,
                   blocks, got>>

Read(n) ==
    /\ Begin("Read", offset, n)
    /\ pc' = "read"
    /\ UNCHANGED <<br, ret, datanodeFailures, blamed, failures, offset, closed,
                   deadline, blocks>>

ReadAt(n, off) ==
    /\ ~closed
    /\ Begin("ReadAt", off, n)
    /\ SeekTo(off)
    /\ pc' = IF n = 0 THEN "idle" ELSE "read"
    /\ UNCHANGED <<ret, datanodeFailures, blamed, failures, closed, deadline, blocks>>

\* The deadline goes to the connection, if there is one and it takes one.
SetDeadline(t) ==
    /\ pc = "idle"
    /\ deadline' = t
    /\ br' = IF br = NoReader THEN br
             ELSE [br EXCEPT !.deadline = t,
                             !.connDeadline = IF br.current = 0 \/ @ = Undated THEN @ ELSE t]
    /\ UNCHANGED <<pc, b, ret, datanodeFailures, blamed, failures, offset, closed,
                   blocks, call, got>>

Close ==
    /\ pc = "idle" /\ ~closed
    /\ closed' = TRUE
    /\ br' = BrClosed
    /\ UNCHANGED <<pc, b, ret, datanodeFailures, blamed, failures, offset, deadline,
                   blocks, call, got>>

\* getBlocks, called once, fails.
GetBlocksFails == ~blocks /\ Fails

\* The first part of Read.
ReadBegins ==
    /\ pc = "read"
    /\ IF closed
       THEN Done(<<>>, "error") /\ UNCHANGED <<br, blocks, failures>>
       ELSE IF offset >= FileSize
       THEN Done(<<>>, "EOF") /\ UNCHANGED <<br, blocks, failures>>
       ELSE IF b = 0
       THEN Done(<<>>, "nil") /\ UNCHANGED <<br, blocks, failures>>
       ELSE \/ /\ blocks' = TRUE
               /\ IF br = NoReader THEN GetNewBlockReader(offset) ELSE UNCHANGED br
               /\ pc' = "check"
               /\ UNCHANGED <<b, got, failures>>
            \/ /\ GetBlocksFails
               /\ Done(<<>>, "error")
               /\ UNCHANGED <<br, blocks>>
    /\ UNCHANGED <<ret, datanodeFailures, blamed, offset, closed, deadline, call>>

\* The loop around BlockReader.Read: nothing, and no error or io.EOF, starts
\* a new BlockReader where this one ended.
ReadReturns ==
    /\ pc = "returned"
    /\ offset' = offset + Len(ret.bytes)
    /\ IF ret.err = "error"
       THEN br' = NoReader /\ Done(ret.bytes, "error")
       ELSE IF ret.bytes # <<>>
       THEN Done(ret.bytes, "nil") /\ UNCHANGED br
       ELSE GetNewBlockReader(offset) /\ pc' = "check" /\ UNCHANGED <<b, got>>
    /\ UNCHANGED <<ret, datanodeFailures, blamed, failures, closed, deadline, blocks, call>>

Progress == ReadBegins \/ ReadReturns \/ (ReaderStep /\ UNCHANGED fileVars)

Next ==
    \/ \E n \in ReadSizes : Read(n)
    \/ \E n \in ReadSizes, off \in 0 .. FileSize : ReadAt(n, off)
    \/ \E off \in 0 .. FileSize : Seek(off)
    \/ \E t \in Deadlines : SetDeadline(t)
    \/ Close
    \/ Progress

Spec == Init /\ [][Next]_vars

\* A call in progress goes on: its remote calls answer or fail.  This is
\* WF_vars(Progress), written out with what ENABLED <<Progress>>_vars amounts to
\* (a call is in progress) because TLC is slow to evaluate that.
FairSpec == Spec /\ ([]<>(pc = "idle") \/ []<><<Progress>>_vars)

-----------------------------------------------------------------------------
(* Properties.                                                             *)

\* Every variable keeps its type.
TypeOK ==
    /\ pc \in {"idle", "read", "check", "loop", "returned"}
    /\ b \in Nat
    /\ br = NoReader \/
         (/\ br.blk \in Blocks /\ br.offset \in Nat
          /\ br.current \in 0 .. NDatanodes
          /\ Range(br.datanodes) \subseteq Datanodes
          /\ br.stream = NoStream \/ br.stream.dn = br.current)
    /\ ret.err \in {"nil", "EOF", "error"} /\ got.err \in {"nil", "EOF", "error"}
    /\ IsInjective(datanodeFailures) /\ Range(datanodeFailures) \subseteq Datanodes
    /\ offset \in Nat
    /\ closed \in BOOLEAN /\ blocks \in BOOLEAN

\* What a Read or ReadAt returns are the bytes of the file from where it
\* started, in order and with none left out, whatever mix of read sizes,
\* seeks, datanodes and packets they came through.
BytesOfFile ==
    call.op # "none" => got.bytes = [i \in 1 .. Len(got.bytes) |-> call.at + i - 1]

\* The blocks that the n bytes from p on are in have no corrupt chunk.
HealthySpan(p, n) ==
    \A k \in Blocks : Start[k] < p + n /\ p < Start[k + 1] => Healthy(k)

\* The same, as far as a call has not come to a block with a corrupt chunk:
\* up to there the bytes returned are the file's, whatever was read before and
\* from whichever datanodes.
HealthyBytes ==
    call.op # "none" =>
        \A i \in 1 .. Len(got.bytes) :
            HealthySpan(call.at, i) => got.bytes[i] = call.at + i - 1

\* The file's offset is where the bytes returned so far end, and the
\* BlockReader stands at the same place.
AtSamePlace ==
    /\ call.op # "none" /\ pc \in {"idle", "read"} => offset = call.at + Len(got.bytes)
    /\ br # NoReader /\ ~closed /\ pc \in {"idle", "read", "check", "loop"} =>
           offset = Start[br.blk] + br.offset

\* io.EOF is returned only when the bytes before the end have been, and ReadAt
\* returns all it was asked for unless it returns an error.
EOFOnlyAtEnd ==
    pc = "idle" /\ call.op # "none" =>
        /\ got.err = "EOF" => call.at + Len(got.bytes) >= FileSize
        /\ got.err = "nil" => IF call.op = "ReadAt"
                              THEN Len(got.bytes) = call.want
                              ELSE got.bytes # <<>> \/ call.want = 0

\* The file, the block's reader and the caller agree on how far a read has come,
\* also about the end of the file.
OffsetsAgree == AtSamePlace /\ EOFOnlyAtEnd

\* "In the case that all the datanodes fail, the error from the most recent
\* attempt will be returned": a read does not fail while a datanode is left,
\* and a datanode with no failure on record is tried before the others.  (One
\* whose connection takes no deadline is on record while it is in use.)
TriedBeforeFailing ==
    /\ pc = "returned" /\ ret.err = "error" /\ ~br.closed =>
           /\ br.datanodes = <<>>
           /\ Datanodes \subseteq Range(datanodeFailures)
    /\ pc = "loop" /\ br.stream # NoStream /\ br.connDeadline # Undated =>
           (HasFailed(br.current) =>
               Range(br.datanodes) \subseteq Range(datanodeFailures))

\* The deadline that was set last is the one on the connection in use, across
\* failovers and block boundaries, unless it does not take one.
DeadlineFollows ==
    br # NoReader /\ br.stream # NoStream => br.connDeadline \in {deadline, Undated}

\* A failover goes to the right datanode, fails only when none is left, and
\* takes the deadline along (connectNext, SetDeadline).
FailoverRight == TriedBeforeFailing /\ DeadlineFollows

\* A read of less than a chunk comes upon a chunk that is corrupt.
ShortReadOfCorrupt ==
    /\ ReadStream /\ b < ChunkSize /\ br.stream.chunk = <<>>
    /\ <<br.current, br.blk, br.stream.next \div ChunkSize>> \in Corrupt

\* Every Read and ReadAt returns, however its connections fail, but for two
\* cases in which BlockReader.Read returns nothing and records no failure, so
\* that the loop of Read goes back to the same datanode: datanodes that hang up
\* on it for ever, which is taken for the end of the block, and short reads of
\* a corrupt chunk, which return (0, nil).
ReadsReturn ==
    \/ pc # "idle" ~> pc = "idle"
    \/ []<><<ReadHangUp /\ UNCHANGED fileVars>>_vars
    \/ []<><<ShortReadOfCorrupt /\ UNCHANGED fileVars>>_vars

\* Does not hold (README, "Where the code differs").
\* Only a datanode that failed is put on record as failed.
OnlyFailuresRecorded == blamed = {}
=============================================================================
