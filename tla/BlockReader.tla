----------------------------- MODULE BlockReader -----------------------------
(***************************************************************************)
(* internal/rpc/block_reader.go and datanode_failover.go: reading a block  *)
(* from whichever of its datanodes works, the ones that failed last coming *)
(* last.  The failures are remembered for the whole process.               *)
(***************************************************************************)
EXTENDS BlockReadStream, Functions

CONSTANTS
    NDatanodes,     \* every block is on these, in this order
    HangUp,         \* datanodes that hang up instead of sending data
    MaxFailures     \* bound: connections that fail

ASSUME ReaderAssumption ==
    NDatanodes \in Nat /\ HangUp \subseteq 1 .. NDatanodes /\ MaxFailures \in Nat

Datanodes == 1 .. NDatanodes

VARIABLES
    pc,                 \* of the call in progress
    b,                  \* len(b) of the Read in progress
    br,                 \* the BlockReader, or NoReader
    ret,                \* what BlockReader.Read returns: bytes and error
    datanodeFailures,   \* the datanodes that failed, the oldest failure first
    blamed,             \* history: datanodes recorded as failed though they did nothing wrong
    failures            \* counter for the bound

readerVars == <<pc, b, br, ret, datanodeFailures, blamed, failures>>

NoStream == [dn |-> 0]
NoReader == [blk |-> 0]

NewReader(blk, off, t) ==
    [blk |-> blk, offset |-> off, datanodes |-> [d \in Datanodes |-> d], current |-> 0,
     stream |-> NoStream, deadline |-> t, connDeadline |-> 0, closed |-> FALSE]

\* The deadline of a connection that does not take one.
Undated == -1

Fails == failures < MaxFailures /\ failures' = failures + 1

\* The end of a BlockReader.Read.
Returns(bytes, err) ==
    /\ pc' = "returned"
    /\ ret' = [bytes |-> bytes, err |-> err]

-----------------------------------------------------------------------------
(* datanodeFailover.                                                       *)

HasFailed(d) == d \in Range(datanodeFailures)

FailedAt(d) == CHOOSE i \in DOMAIN datanodeFailures : datanodeFailures[i] = d

\* Mutant: failures are not looked at.
PickedFirst(list) == 1

\* next: the first one that never failed, or else the one that failed first.
Picked(list) ==
    LET fresh == {i \in DOMAIN list : ~HasFailed(list[i])}
    IN  IF fresh # {} THEN CHOOSE i \in fresh : \A j \in fresh : i <= j
        ELSE CHOOSE i \in DOMAIN list :
                 \A j \in DOMAIN list : FailedAt(list[i]) <= FailedAt(list[j])

\* A list without its entry i.
Drop(list, i) == SubSeq(list, 1, i - 1) \o SubSeq(list, i + 1, Len(list))

\* recordFailure: the time of the latest failure counts.
RecordFailure(d) ==
    datanodeFailures' = Append(IF HasFailed(d) THEN Drop(datanodeFailures, FailedAt(d))
                                               ELSE datanodeFailures, d)

-----------------------------------------------------------------------------
(* BlockReader.Read.                                                       *)

ReadChecks ==
    /\ pc = "check"
    /\ IF br.closed
       THEN Returns(<<>>, "error") /\ UNCHANGED br
       ELSE IF br.offset >= BlockSize(br.blk)
       THEN Returns(<<>>, "EOF") /\ br' = [br EXCEPT !.closed = TRUE]
       ELSE pc' = "loop" /\ UNCHANGED <<br, ret>>
    /\ UNCHANGED <<b, datanodeFailures, blamed, failures>>

\* Mutant: a read that starts at a chunk boundary is taken to start at Offset.
NoDiscard(s, n) == s

\* The datanode starts at a chunk boundary: read up to Offset and throw it
\* away.  io.CopyN asks again when it gets nothing and no error.
Discard(s, n) ==
    LET first == StreamRead(s, n)
    IN  IF n = 0 THEN s
        ELSE IF first.bytes = <<>> THEN StreamRead(first.s, n).s ELSE first.s

\* Whether connectNext is called, and the place of the datanode it asks.
Connecting == pc = "loop" /\ br.stream = NoStream /\ br.datanodes # <<>>
NextOne == Picked(br.datanodes)

\* What there is to discard when a stream starts at br.offset.
ToDiscard == br.offset % ChunkSize

\* A connection to the next datanode, with its deadline, is the one in use.
Connected(t) ==
    LET d == br.datanodes[NextOne]
        s == NewStream(d, br.blk, br.offset - ToDiscard)
    IN  br' = [br EXCEPT !.datanodes = Drop(@, NextOne), !.current = d,
                         !.stream = Discard(s, ToDiscard), !.connDeadline = t]

\* A datanode that hangs up does not send the bytes to discard.
HangsUpFirst == br.datanodes[NextOne] \in HangUp /\ ToDiscard > 0

\* connectNext
ConnectNext ==
    /\ Connecting /\ ~HangsUpFirst
    /\ Connected(br.deadline)
    /\ UNCHANGED <<pc, b, ret, datanodeFailures, blamed, failures>>

\* The connection does not take the deadline: the datanode is recorded as
\* failed, but the stream is there and the loop goes on with it.
ConnectUndated ==
    /\ Connecting /\ ~HangsUpFirst
    /\ Fails
    /\ Connected(Undated)
    /\ RecordFailure(br.datanodes[NextOne])
    /\ blamed' = blamed \cup {br.datanodes[NextOne]}
    /\ UNCHANGED <<pc, b, ret>>

\* It fails at the dial, the request, the answer or the bytes to discard.
ConnectFails ==
    /\ Connecting
    /\ IF HangsUpFirst THEN UNCHANGED failures ELSE Fails
    /\ br' = [br EXCEPT !.datanodes = Drop(@, NextOne), !.current = br.datanodes[NextOne]]
    /\ RecordFailure(br.datanodes[NextOne])
    /\ UNCHANGED <<pc, b, ret, blamed>>

\* Mutant: the offset is not advanced when the read fails after some bytes.
AfterReadStuck(o) ==
    IF o.err = "error"
    THEN /\ br' = [br EXCEPT !.stream = NoStream]
         /\ RecordFailure(br.current)
         /\ IF o.bytes # <<>> THEN Returns(o.bytes, "nil") ELSE UNCHANGED <<pc, ret>>
    ELSE /\ br' = [br EXCEPT !.offset = @ + Len(o.bytes), !.stream = o.s]
         /\ Returns(o.bytes, o.err)
         /\ UNCHANGED datanodeFailures

\* What follows the stream's Read: an error sends the reader to the next
\* datanode, at once or, if there are bytes to return, with the next Read; the
\* end of the stream does not.
AfterRead(o) ==
    IF o.err = "error"
    THEN /\ br' = [br EXCEPT !.offset = @ + Len(o.bytes), !.stream = NoStream]
         /\ RecordFailure(br.current)
         /\ IF o.bytes # <<>> THEN Returns(o.bytes, "nil") ELSE UNCHANGED <<pc, ret>>
    ELSE /\ br' = [br EXCEPT !.offset = @ + Len(o.bytes), !.stream = o.s]
         /\ Returns(o.bytes, o.err)
         /\ UNCHANGED datanodeFailures

ReadStream ==
    /\ pc = "loop" /\ br.stream # NoStream
    /\ br.current \in HangUp => ~UsesConn(br.stream)
    /\ LET o == StreamRead(br.stream, b)
       IN  /\ AfterRead(o)
           /\ blamed' = IF /\ o.err = "error"
                           /\ \A c \in Corrupt : c[1] # br.current
                        THEN blamed \cup {br.current}
                        ELSE blamed
    /\ UNCHANGED <<b, failures>>

ReadStreamFails ==
    /\ pc = "loop" /\ br.stream # NoStream /\ UsesConn(br.stream)
    /\ Fails
    /\ \E o \in StreamReadBroken(br.stream, b) : AfterRead(o)
    /\ UNCHANGED <<b, blamed>>

\* A datanode that hangs up before the packet: io.EOF.
ReadHangUp ==
    /\ pc = "loop" /\ br.stream # NoStream /\ UsesConn(br.stream)
    /\ br.current \in HangUp
    /\ AfterRead(Outcome(br.stream, <<>>, "EOF"))
    /\ UNCHANGED <<b, blamed, failures>>

NoneLeft ==
    /\ pc = "loop" /\ br.stream = NoStream /\ br.datanodes = <<>>
    /\ Returns(<<>>, "error")
    /\ UNCHANGED <<b, br, datanodeFailures, blamed, failures>>

ReaderStep ==
    \/ ReadChecks \/ ConnectNext \/ ConnectUndated \/ ConnectFails \/ ReadStream
    \/ ReadStreamFails \/ ReadHangUp \/ NoneLeft
=============================================================================
