-------------------------- MODULE BlockWriteStream --------------------------
(***************************************************************************)
(* internal/rpc/block_write_stream.go: one block streamed to a datanode.   *)
(*                                                                         *)
(* Three goroutines share the stream: the caller's (Write, flush, finish), *)
(* the ack loop (ackPackets) and the heartbeat loop (sendHeartBeats).  The *)
(* caller and the heartbeats share the connection under s.lock; the caller *)
(* hands every packet to the ack loop over a bounded channel before it     *)
(* writes it.  The datanode and the network are the environment.           *)
(*                                                                         *)
(* Bytes are named by their position: the byte that the caller wrote for   *)
(* block offset o is o.  buf is the number of buffered bytes, so that the  *)
(* oldest buffered byte is written - buf, whatever s.offset says.          *)
(***************************************************************************)
EXTENDS Integers, Sequences

CONSTANTS
    PacketSize,          \* outboundPacketSize
    ChunkSize,           \* outboundChunkSize
    MaxPacketsInQueue,   \* capacity of s.packets
    WireCapacity,        \* conn.Write blocks when this many parts are unread
    StartOffsets,        \* offsets a stream may start from (> 0: append)
    MaxBytes,            \* bound: bytes the caller writes in all
    MaxHeartbeats,       \* bound: ticks of the heartbeat ticker
    ExtendsDeadline,     \* whether the caller extends a deadline that has passed
    Faults               \* what the environment may do wrong in this instance

FaultKinds == {"conn", "deadline", "status", "seqno"}

ASSUME SizesAssumption ==
    /\ PacketSize \in Nat \ {0}
    /\ ChunkSize \in Nat \ {0}
    /\ MaxPacketsInQueue \in Nat \ {0}
    /\ WireCapacity \in Nat /\ WireCapacity >= 3
ASSUME BoundsAssumption ==
    /\ StartOffsets \subseteq Nat
    /\ MaxBytes \in Nat
    /\ MaxHeartbeats \in Nat
    /\ ExtendsDeadline \in BOOLEAN
    /\ Faults \subseteq FaultKinds

VARIABLES
    \* the caller's goroutine
    pc,        \* where the caller is inside Write, flush or finish
    op,        \* the call in progress
    result,    \* what the last call returned
    err,       \* finish's named result, until the deferred function is done
    buf,       \* s.buf.Len()
    written,   \* block offset after the last byte accepted (BlockWriter.Offset)
    offset,    \* s.offset
    seqno,     \* s.seqno
    closed,    \* s.closed
    pkt,       \* the packet being enqueued and written
    \* shared between the goroutines
    packets,   \* s.packets
    chClosed,  \* close(s.packets) and close(s.closeCh) have happened
    lock,      \* who holds s.lock
    \* the ack loop; s.acksDone is closed when ackPc = "done"
    ackPc, cur, ackError,
    \* the heartbeat loop
    hbPc, hbCount,
    \* the connection: wire to the datanode, acks back, state of the socket
    wire, acks, broken, expired,
    \* the datanode: packets it has received whole and stored
    recvd,
    \* history: start of the stream, packets handed to the channel, first
    \* finish's result, faults so far, and whether the call in progress began
    \* after an ack error
    start, log, finished, faults, lateCall

callerVars == <<pc, op, result, err, buf, written, offset, seqno, closed, pkt>>
ackVars == <<ackPc, cur, ackError>>
hbVars == <<hbPc, hbCount>>
connVars == <<wire, acks, broken, expired>>
histVars == <<start, log, finished, faults, lateCall>>
vars == <<callerVars, packets, chClosed, lock, ackVars, hbVars, connVars,
          recvd, histVars>>

HeartBeatSeqno == -1

Packet == [seqno : Nat, offset : Nat, first : Int, len : Nat, last : BOOLEAN]

NoPacket == [seqno |-> 0, offset |-> 0, first |-> 0, len |-> 0, last |-> FALSE]

Part == [kind : {"header", "checksums", "data", "heartbeat", "torn"}, pkt : Packet]

Ack == [seqno : Nat \cup {HeartBeatSeqno}, ok : BOOLEAN]

Errors == {"io", "ack", "closed"}

-----------------------------------------------------------------------------
(* newBlockWriteStream: the goroutines are started with the stream.        *)

Init ==
    /\ pc = "idle" /\ op = "none" /\ result = "none" /\ err = "ok"
    /\ start \in StartOffsets
    /\ buf = 0 /\ written = start /\ offset = start /\ seqno = 1
    /\ closed = FALSE /\ pkt = NoPacket
    /\ packets = <<>> /\ chClosed = FALSE /\ lock = "free"
    /\ ackPc = "recv" /\ cur = NoPacket /\ ackError = "none"
    /\ hbPc = "wait" /\ hbCount = 0
    /\ wire = <<>> /\ acks = <<>> /\ broken = FALSE /\ expired = FALSE
    /\ recvd = {}
    /\ log = <<>> /\ finished = "none" /\ faults = {} /\ lateCall = FALSE

-----------------------------------------------------------------------------
(* The caller's goroutine.                                                 *)

\* getAckError: an ack error shows only once s.acksDone is closed.
AckErrorVisible == ackPc = "done" /\ ackError # "none"

Return(r) ==
    /\ pc' = "idle"
    /\ op' = "none"
    /\ result' = r

\* Mutant: an early return of finish skips the deferred function.
LeaveAtOnce(r) ==
    IF op = "finish" /\ r = "ok"
    THEN pc' = "close" /\ err' = r /\ UNCHANGED <<op, result>>
    ELSE Return(r) /\ UNCHANGED err

\* Leave the call with r: finish still runs its deferred function.
Leave(r) ==
    IF op = "finish"
    THEN pc' = "close" /\ err' = r /\ UNCHANGED <<op, result>>
    ELSE Return(r) /\ UNCHANGED err

\* What each call does before the loop of flush.
Begin(o) ==
    /\ op' = o
    /\ lateCall' = (ackError # "none")

\* Mutant: Write without its checks.
WriteUnchecked(n) ==
    /\ pc = "idle"
    /\ written - start + n <= MaxBytes
    /\ Begin("write")
    /\ buf' = buf + n
    /\ written' = written + n
    /\ pc' = "flush"
    /\ UNCHANGED <<result, err, offset, seqno, closed, pkt, packets, chClosed, lock,
                   ackVars, hbVars, connVars, recvd, start, log, finished, faults>>

Write(n) ==
    /\ pc = "idle"
    /\ written - start + n <= MaxBytes
    /\ \/ /\ closed \/ AckErrorVisible
          /\ Return(IF closed THEN "closed" ELSE "ack")
          /\ UNCHANGED <<buf, written, lateCall>>
       \/ /\ ~closed /\ ~AckErrorVisible
          /\ Begin("write")
          /\ buf' = buf + n
          /\ written' = written + n
          /\ pc' = "flush"
          /\ UNCHANGED result
    /\ UNCHANGED <<err, offset, seqno, closed, pkt, packets, chClosed, lock,
                   ackVars, hbVars, connVars, recvd, start, log, finished, faults>>

\* Mutant: flush without its first check.
FlushUnchecked ==
    /\ pc = "idle"
    /\ Begin("flush") /\ pc' = "flush"
    /\ UNCHANGED <<result, err, buf, written, offset, seqno, closed, pkt, packets,
                   chClosed, lock, ackVars, hbVars, connVars, recvd,
                   start, log, finished, faults>>

\* BlockWriter.Flush does not look at s.closed.
Flush ==
    /\ pc = "idle"
    /\ \/ AckErrorVisible /\ Return("ack") /\ UNCHANGED lateCall
       \/ ~AckErrorVisible /\ Begin("flush") /\ pc' = "flush" /\ UNCHANGED result
    /\ UNCHANGED <<err, buf, written, offset, seqno, closed, pkt, packets,
                   chClosed, lock, ackVars, hbVars, connVars, recvd,
                   start, log, finished, faults>>

Finish ==
    /\ pc = "idle"
    /\ \/ closed /\ Return("ok") /\ UNCHANGED <<closed, err, lateCall>>
       \/ /\ ~closed
          /\ closed' = TRUE
          /\ Begin("finish")
          /\ IF AckErrorVisible
             THEN pc' = "close" /\ err' = "ack"
             ELSE pc' = "flush" /\ err' = "ok"
          /\ UNCHANGED result
    /\ UNCHANGED <<buf, written, offset, seqno, pkt, packets, chClosed, lock,
                   ackVars, hbVars, connVars, recvd, start, log, finished, faults>>

\* makePacket: the next packet starts where s.offset says and takes the oldest
\* bytes of the buffer; off a chunk boundary it stops at the next one.
PacketLength ==
    LET full == IF buf < PacketSize THEN buf ELSE PacketSize
        alignment == offset % ChunkSize
    IN  IF alignment > 0 /\ full > ChunkSize - alignment
        THEN ChunkSize - alignment
        ELSE full

\* Mutant: makePacket advances by the bytes that were buffered.
MakePacketMisplaced ==
    [seqno |-> seqno, offset |-> written - PacketLength, first |-> written - buf,
     len |-> PacketLength, last |-> FALSE]

MakePacket ==
    [seqno |-> seqno, offset |-> offset, first |-> written - buf,
     len |-> PacketLength, last |-> FALSE]

LastPacket ==
    [seqno |-> seqno, offset |-> offset, first |-> written, len |-> 0, last |-> TRUE]

MustFlush == buf > 0 /\ (op # "write" \/ buf >= PacketSize)

\* The head of the loop in flush, and what finish does after it.
FlushLoop ==
    /\ pc = "flush"
    /\ \/ /\ MustFlush
          /\ pkt' = MakePacket
          /\ buf' = buf - PacketLength
          /\ pc' = "enqueue"
          /\ UNCHANGED <<op, result>>
       \/ /\ ~MustFlush /\ op = "finish"
          /\ pkt' = LastPacket
          /\ pc' = "enqueue"
          /\ UNCHANGED <<buf, op, result>>
       \/ /\ ~MustFlush /\ op # "finish"
          /\ Return("ok")
          /\ UNCHANGED <<buf, pkt>>
    /\ UNCHANGED <<err, written, offset, seqno, closed, packets, chClosed, lock,
                   ackVars, hbVars, connVars, recvd, histVars>>

\* s.packets <- packet: blocks while the channel is full, panics if closed.
Enqueue ==
    /\ pc = "enqueue"
    /\ IF chClosed
       THEN pc' = "panic" /\ UNCHANGED <<packets, log, offset, seqno>>
       ELSE /\ Len(packets) < MaxPacketsInQueue
            /\ packets' = Append(packets, pkt)
            /\ log' = Append(log, pkt)
            /\ IF pkt.last
               THEN UNCHANGED <<offset, seqno>>
               ELSE offset' = offset + pkt.len /\ seqno' = seqno + 1
            /\ pc' = "lock"
    /\ UNCHANGED <<op, result, err, buf, written, closed, pkt, chClosed, lock,
                   ackVars, hbVars, connVars, recvd, start, finished, faults, lateCall>>

AcquireLock ==
    /\ pc = "lock"
    /\ lock = "free"
    /\ lock' = "caller"
    /\ pc' = "header"
    /\ UNCHANGED <<op, result, err, buf, written, offset, seqno, closed, pkt,
                   packets, chClosed, ackVars, hbVars, connVars, recvd, histVars>>

\* conn.Write of one part; a part without bytes puts nothing on the wire.
ConnDown == broken \/ expired

CanWrite == ~ConnDown /\ Len(wire) < WireCapacity

EmptyPart == pkt.last /\ pc # "header"

NextPart == [header |-> "checksums", checksums |-> "data"]

WritePart ==
    /\ pc \in {"header", "checksums", "data"}
    /\ \/ EmptyPart /\ ~ConnDown /\ UNCHANGED wire
       \/ ~EmptyPart /\ CanWrite /\ wire' = Append(wire, [kind |-> pc, pkt |-> pkt])
    /\ IF pc # "data"
       THEN pc' = NextPart[pc] /\ UNCHANGED <<lock, op, result, err>>
       ELSE /\ lock' = "free"
            /\ IF pkt.last
               THEN Leave("ok")
               ELSE pc' = "flush" /\ UNCHANGED <<op, result, err>>
    /\ UNCHANGED <<buf, written, offset, seqno, closed, pkt, packets, chClosed,
                   ackVars, hbVars, acks, broken, expired, recvd, histVars>>

\* A failed write may have written some of the part's bytes.
TornWrite(p) ==
    \/ UNCHANGED wire
    \/ wire' = Append(wire, [kind |-> "torn", pkt |-> p])

WritePartFails ==
    /\ pc \in {"header", "checksums", "data"}
    /\ ConnDown
    /\ IF EmptyPart THEN UNCHANGED wire ELSE TornWrite(pkt)
    /\ lock' = "free"
    /\ Leave("io")
    /\ UNCHANGED <<buf, written, offset, seqno, closed, pkt, packets, chClosed,
                   ackVars, hbVars, acks, broken, expired, recvd, histVars>>

\* finish's deferred function: close both channels, wait for s.acksDone, and
\* report an ack error if there was no other.
CloseChannels ==
    /\ pc = "close"
    /\ chClosed' = TRUE
    /\ pc' = "join"
    /\ UNCHANGED <<op, result, err, buf, written, offset, seqno, closed, pkt,
                   packets, lock, ackVars, hbVars, connVars, recvd, histVars>>

\* Mutant: finish does not look for an ack error after the wait.
JoinUnchecked ==
    /\ pc = "join"
    /\ ackPc = "done"
    /\ Return(err) /\ finished' = err
    /\ UNCHANGED <<err, buf, written, offset, seqno, closed, pkt, packets, chClosed,
                   lock, ackVars, hbVars, connVars, recvd, start, log, faults, lateCall>>

Join ==
    /\ pc = "join"
    /\ ackPc = "done"
    /\ LET r == IF err = "ok" /\ AckErrorVisible THEN "ack" ELSE err
       IN  Return(r) /\ finished' = r /\ err' = r
    /\ UNCHANGED <<buf, written, offset, seqno, closed, pkt, packets, chClosed,
                   lock, ackVars, hbVars, connVars, recvd, start, log, faults, lateCall>>

\* BlockWriter.SetDeadline, with a deadline in the future, between two calls.
SetDeadline ==
    /\ ExtendsDeadline
    /\ pc = "idle"
    /\ expired
    /\ expired' = FALSE
    /\ UNCHANGED <<callerVars, packets, chClosed, lock, ackVars, hbVars, wire,
                   acks, broken, recvd, histVars>>

-----------------------------------------------------------------------------
(* The ack loop.                                                           *)

AckReceive ==
    /\ ackPc = "recv"
    /\ \/ /\ packets # <<>>
          /\ cur' = Head(packets)
          /\ packets' = Tail(packets)
          /\ ackPc' = "read"
       \/ /\ packets = <<>> /\ chClosed
          /\ ackPc' = "done"
          /\ UNCHANGED <<cur, packets>>
    /\ UNCHANGED <<callerVars, chClosed, lock, ackError, hbVars, connVars,
                   recvd, histVars>>

\* Mutant: the answer to a heartbeat counts as the acknowledgement of cur.
HandleAckNoInnerLoop(a) ==
    \/ ~a.ok /\ ackError' = "status" /\ ackPc' = "drain"
    \/ a.ok /\ a.seqno \in {cur.seqno, HeartBeatSeqno} /\ ackPc' = "recv" /\ UNCHANGED ackError
    \/ a.ok /\ a.seqno \notin {cur.seqno, HeartBeatSeqno} /\ ackPc' = "drain" /\ ackError' = "seqno"

\* Mutant: heartbeats are not recognised.
HandleAckNoHeartbeats(a) ==
    \/ ~a.ok /\ ackError' = "status" /\ ackPc' = "drain"
    \/ a.ok /\ a.seqno = cur.seqno /\ ackPc' = "recv" /\ UNCHANGED ackError
    \/ a.ok /\ a.seqno # cur.seqno /\ ackPc' = "drain" /\ ackError' = "seqno"

\* One ack read while the loop waits for the ack of cur.
HandleAck(a) ==
    \/ ~a.ok /\ ackError' = "status" /\ ackPc' = "drain"
    \/ a.ok /\ a.seqno = HeartBeatSeqno /\ UNCHANGED <<ackError, ackPc>>
    \/ /\ a.ok /\ a.seqno # HeartBeatSeqno
       /\ IF a.seqno = cur.seqno
          THEN ackPc' = "recv" /\ UNCHANGED ackError
          ELSE ackPc' = "drain" /\ ackError' = "seqno"

AckRead ==
    /\ ackPc = "read"
    /\ acks # <<>>
    /\ HandleAck(Head(acks))
    /\ acks' = Tail(acks)
    /\ UNCHANGED <<callerVars, packets, chClosed, lock, cur, hbVars, wire,
                   broken, expired, recvd, histVars>>

\* The read fails on a broken connection or past the deadline.  An ack that is
\* already in the bufio.Reader can still be read (AckRead).
AckReadFails ==
    /\ ackPc = "read"
    /\ ConnDown
    /\ ackError' = "read"
    /\ ackPc' = "drain"
    /\ UNCHANGED <<callerVars, packets, chClosed, lock, cur, hbVars, connVars,
                   recvd, histVars>>

\* Mutant: the ack loop gives up without emptying the channel.
AckDrainNothing ==
    /\ ackPc = "drain"
    /\ ackPc' = "done"
    /\ UNCHANGED <<callerVars, packets, chClosed, lock, cur, ackError, hbVars,
                   connVars, recvd, histVars>>

AckDrain ==
    /\ ackPc = "drain"
    /\ \/ packets # <<>> /\ packets' = Tail(packets) /\ UNCHANGED ackPc
       \/ packets = <<>> /\ chClosed /\ ackPc' = "done" /\ UNCHANGED packets
    /\ UNCHANGED <<callerVars, chClosed, lock, cur, ackError, hbVars, connVars,
                   recvd, histVars>>

-----------------------------------------------------------------------------
(* The heartbeat loop.                                                     *)

HeartbeatTick ==
    /\ hbPc = "wait"
    /\ hbCount < MaxHeartbeats
    /\ hbCount' = hbCount + 1
    /\ hbPc' = "lock"
    /\ UNCHANGED <<callerVars, packets, chClosed, lock, ackVars, connVars,
                   recvd, histVars>>

\* Mutant: heartbeats are written without the lock.
HeartbeatNoLock ==
    /\ hbPc = "lock"
    /\ hbPc' = "write"
    /\ UNCHANGED <<callerVars, packets, chClosed, lock, ackVars, hbCount, connVars,
                   recvd, histVars>>

HeartbeatLock ==
    /\ hbPc = "lock"
    /\ lock = "free"
    /\ lock' = "heartbeat"
    /\ hbPc' = "write"
    /\ UNCHANGED <<callerVars, packets, chClosed, ackVars, hbCount, connVars,
                   recvd, histVars>>

\* A failed heartbeat is only logged.
HeartbeatWrite ==
    /\ hbPc = "write"
    /\ \/ CanWrite /\ wire' = Append(wire, [kind |-> "heartbeat", pkt |-> NoPacket])
       \/ ConnDown /\ TornWrite(NoPacket)
    /\ lock' = "free"
    /\ hbPc' = "wait"
    /\ UNCHANGED <<callerVars, packets, chClosed, ackVars, hbCount, acks,
                   broken, expired, recvd, histVars>>

HeartbeatStop ==
    /\ hbPc = "wait"
    /\ chClosed
    /\ hbPc' = "done"
    /\ UNCHANGED <<callerVars, packets, chClosed, lock, ackVars, hbCount,
                   connVars, recvd, histVars>>

-----------------------------------------------------------------------------
(* The datanode and the network (external).  The datanode acknowledges only *)
(* packets it has received whole; a faulty one reports a bad status, or     *)
(* repeats an earlier acknowledgement.                                      *)

Inject(f) ==
    /\ f \in Faults
    /\ faults' = faults \cup {f}

FrameLength(p) == IF p.last THEN 1 ELSE 3

\* The parts at the head of the wire make up a whole packet.
WholeFrame ==
    /\ wire # <<>>
    /\ wire[1].kind = "header"
    /\ LET p == wire[1].pkt
       IN  /\ Len(wire) >= FrameLength(p)
           /\ ~p.last => /\ wire[2] = [kind |-> "checksums", pkt |-> p]
                         /\ wire[3] = [kind |-> "data", pkt |-> p]

\* No packet can be made of the head of the wire, whatever follows.
Garbled ==
    /\ wire # <<>>
    /\ \/ wire[1].kind \notin {"header", "heartbeat"}
       \/ /\ wire[1].kind = "header" /\ ~wire[1].pkt.last
          /\ \/ Len(wire) > 1 /\ wire[2] # [kind |-> "checksums", pkt |-> wire[1].pkt]
             \/ Len(wire) > 2 /\ wire[3] # [kind |-> "data", pkt |-> wire[1].pkt]

SendAck(s) ==
    \/ acks' = Append(acks, [seqno |-> s, ok |-> TRUE]) /\ UNCHANGED faults
    \/ acks' = Append(acks, [seqno |-> s, ok |-> FALSE]) /\ Inject("status")

DatanodePacket ==
    /\ ~broken
    /\ WholeFrame
    /\ LET p == wire[1].pkt
       IN  /\ wire' = SubSeq(wire, FrameLength(p) + 1, Len(wire))
           /\ recvd' = recvd \cup {p}
           /\ \/ SendAck(p.seqno)
              \/ \E q \in recvd : /\ acks' = Append(acks, [seqno |-> q.seqno, ok |-> TRUE])
                                  /\ Inject("seqno")
    /\ UNCHANGED <<callerVars, packets, chClosed, lock, ackVars, hbVars, broken,
                   expired, start, log, finished, lateCall>>

DatanodeHeartbeat ==
    /\ ~broken
    /\ wire # <<>>
    /\ wire[1].kind = "heartbeat"
    /\ wire' = Tail(wire)
    /\ SendAck(HeartBeatSeqno)
    /\ UNCHANGED <<callerVars, packets, chClosed, lock, ackVars, hbVars, broken,
                   expired, recvd, start, log, finished, lateCall>>

\* A datanode that cannot make sense of the stream, or waits in vain for the
\* rest of a part, drops the connection.
DatanodeRejects ==
    /\ ~broken
    /\ Garbled
    /\ broken' = TRUE
    /\ UNCHANGED <<callerVars, packets, chClosed, lock, ackVars, hbVars, wire,
                   acks, expired, recvd, histVars>>

ConnectionBreaks ==
    /\ ~broken
    /\ broken' = TRUE
    /\ Inject("conn")
    /\ UNCHANGED <<callerVars, packets, chClosed, lock, ackVars, hbVars, wire,
                   acks, expired, recvd, start, log, finished, lateCall>>

DeadlinePasses ==
    /\ ~expired
    /\ expired' = TRUE
    /\ Inject("deadline")
    /\ UNCHANGED <<callerVars, packets, chClosed, lock, ackVars, hbVars, wire,
                   acks, broken, recvd, start, log, finished, lateCall>>

-----------------------------------------------------------------------------

CallerStep ==
    FlushLoop \/ Enqueue \/ AcquireLock \/ WritePart \/ WritePartFails
        \/ CloseChannels \/ Join

AckStep == AckReceive \/ AckRead \/ AckReadFails \/ AckDrain

HeartbeatStep == HeartbeatTick \/ HeartbeatLock \/ HeartbeatWrite \/ HeartbeatStop

DatanodeStep == DatanodePacket \/ DatanodeHeartbeat \/ DatanodeRejects

Next ==
    \/ \E n \in 0 .. MaxBytes : Write(n)
    \/ Flush
    \/ Finish
    \/ SetDeadline
    \/ CallerStep
    \/ AckStep
    \/ HeartbeatStep
    \/ DatanodeStep
    \/ ConnectionBreaks
    \/ DeadlinePasses

Spec == Init /\ [][Next]_vars

\* Goroutines that can run do run, and the datanode answers what it has read
\* (or the connection fails).  Nothing makes the caller call, the ticker tick,
\* the connection fail or the deadline pass.
Fairness ==
    /\ WF_vars(CallerStep)
    /\ WF_vars(AckStep)
    /\ WF_vars(HeartbeatLock)
    /\ WF_vars(HeartbeatWrite)
    /\ WF_vars(HeartbeatStop)
    /\ WF_vars(DatanodeStep)

FairSpec == Spec /\ Fairness

-----------------------------------------------------------------------------
(* Properties.                                                             *)

Pcs == {"idle", "flush", "enqueue", "lock", "header", "checksums", "data",
        "close", "join", "panic"}

CallerTypes ==
    /\ pc \in Pcs
    /\ op \in {"none", "write", "flush", "finish"}
    /\ result \in {"none", "ok"} \cup Errors
    /\ err \in {"ok"} \cup Errors
    /\ buf \in Nat /\ written \in Nat /\ offset \in Nat /\ seqno \in Nat
    /\ closed \in BOOLEAN
    /\ pkt \in Packet

ChannelTypes ==
    /\ packets \in Seq(Packet) /\ Len(packets) <= MaxPacketsInQueue
    /\ chClosed \in BOOLEAN
    /\ lock \in {"free", "caller", "heartbeat"}

LoopTypes ==
    /\ ackPc \in {"recv", "read", "drain", "done"}
    /\ cur \in Packet
    /\ ackError \in {"none", "read", "status", "seqno"}
    /\ hbPc \in {"wait", "lock", "write", "done"}
    /\ hbCount \in 0 .. MaxHeartbeats

ConnTypes ==
    /\ wire \in Seq(Part)
    /\ acks \in Seq(Ack)
    /\ broken \in BOOLEAN /\ expired \in BOOLEAN

HistTypes ==
    /\ recvd \subseteq Packet
    /\ start \in Nat /\ log \in Seq(Packet)
    /\ finished \in {"none", "ok"} \cup Errors
    /\ faults \subseteq FaultKinds
    /\ lateCall \in BOOLEAN

\* Every variable has its type, and the channel never holds more packets than
\* it was made for.
TypeOK == CallerTypes /\ ChannelTypes /\ LoopTypes /\ ConnTypes /\ HistTypes

\* The bytes of p, as <<position in the block, byte>>.
Bytes(p) == {<<p.offset + i, p.first + i>> : i \in 0 .. p.len - 1}

Stored == UNION {Bytes(p) : p \in recvd}

\* finish returns nil only if the datanode has received the last packet and
\* stored every byte the caller wrote, each at its place, even if writes timed
\* out, packets were lost and the deadline was extended in between.
FinishedMeansStored ==
    finished = "ok" =>
        /\ {<<o, o>> : o \in start .. written - 1} \subseteq Stored
        /\ \E p \in recvd : p.last /\ p.offset = written

\* The packets handed to the datanode have sequence numbers 1, 2, ..., follow
\* one another without gap or overlap, carry the bytes their offset announces,
\* and none follows the packet that ends the block.
PacketsContiguous ==
    \A i \in 1 .. Len(log) :
        /\ log[i].seqno = i
        /\ log[i].first = log[i].offset
        /\ log[i].offset = IF i = 1 THEN start ELSE log[i-1].offset + log[i-1].len
        /\ log[i].last => i = Len(log)

\* "A partial chunk must be sent in an individual packet": a packet that starts
\* off a chunk boundary does not cross the next one.
PartialChunkAlone ==
    \A i \in 1 .. Len(log) :
        LET alignment == log[i].offset % ChunkSize
        IN  alignment > 0 => alignment + log[i].len <= ChunkSize

\* Packets are contiguous and numbered, and aligned to chunks (makePacket).
PacketsRight == PacketsContiguous /\ PartialChunkAlone

\* As long as no write has failed, the parts of a packet are never separated
\* on the wire by a heartbeat or by another packet: a part is followed by the
\* next part of its packet, which at the end of the wire the caller still has
\* to write.
FramesIntact ==
    faults = {} =>
        \A i \in 1 .. Len(wire) :
            wire[i].kind \in {"header", "checksums"} /\ ~wire[i].pkt.last =>
                LET next == [kind |-> NextPart[wire[i].kind], pkt |-> wire[i].pkt]
                IN  IF i < Len(wire) THEN wire[i+1] = next
                    ELSE pc = next.kind /\ pkt = next.pkt

\* No call sends on s.packets after finish has closed it, not even a flush
\* after a finish that failed with bytes left in the buffer.
NoSendOnClosedChannel == pc # "panic"

\* The ack loop reports an error only if the datanode or the connection failed:
\* heartbeats and pipelining alone never confuse it.
NoSpuriousAckError == ackError # "none" => faults # {}

Unacknowledged == Len(packets) + (IF ackPc = "read" THEN 1 ELSE 0)

\* While acknowledgements are checked, at most MaxPacketsInQueue + 1 packets
\* (those in the channel and the one the ack loop holds) are not known to be
\* stored: every earlier one is.
AckedMeansStored ==
    ackPc \in {"recv", "read"} =>
        \A i \in 1 .. Len(log) - Unacknowledged : log[i] \in recvd

\* Every call returns: the ack loop keeps emptying the channel after an error,
\* so neither a full channel nor finish's wait for s.acksDone blocks for ever.
CallsReturn == pc # "idle" ~> pc = "idle"

\* finish ends both goroutines it leaves behind.
GoroutinesExit == closed ~> (ackPc = "done" /\ hbPc = "done")

\* Does not hold (README, "Where the code differs").
\* "Once we've seen an error, just keep reading packets off the channel ...
\* until the writing thread figures it out": a Write or Flush that begins after
\* the ack loop has seen an error reports an error.
WriterLearnsAckError ==
    [][(pc # "idle" /\ pc' = "idle" /\ lateCall) => result' # "ok"]_vars

BW == INSTANCE BlockWrite WITH
        accepted <- written, stored <- Stored,
        outcome <- IF finished = "none" THEN "open"
                   ELSE IF finished = "ok" THEN "ok" ELSE "failed"

\* The stream implements what a block write promises.
Refinement == BW!Spec
=============================================================================
