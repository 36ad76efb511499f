----------------------- MODULE BlockWriteStreamProofs -----------------------
(***************************************************************************)
(* The inductive invariant of BlockWriteStream, its second half: what the  *)
(* datanode has received and acknowledged, the stages of finish and the bytes*)
(* that never left the buffer; the theorems that follow from it; and that the*)
(* stream implements BlockWrite.                                           *)
(***************************************************************************)
EXTENDS BlockWriteStreamChannel

USE SizesAssumption, BoundsAssumption

\* The datanode reads only packets that were handed to the channel, and
\* acknowledges only packets it has read.
LEMMA DatanodeOKStep ==
    ASSUME IndInv, TypeOK', [Next]_vars
    PROVE  DatanodeOK'
<1>a. /\ TypeOK /\ Accounting /\ LogOK /\ QueueOK /\ DatanodeOK
      /\ AckedOK /\ FinishOK /\ LostOK
  BY DEF IndInv
<1> USE <1>a
<1>0. /\ wire \in Seq(Part) /\ acks \in Seq(Ack) /\ Len(wire) \in Nat /\ Len(acks) \in Nat
      /\ log \in Seq(Packet) /\ Len(log) \in Nat
  BY DEF TypeOK, ConnTypes, HistTypes
<1>1. Logged \subseteq Logged'
  <2>1. CASE Enqueue
    BY <1>0, <2>1, EnqueueEffect DEF Logged
  <2>2. CASE ~Enqueue
    <3>1. log' = log
      BY <2>2, NextCases, EnvironmentFrame, CallFrame, CallerStepFrame
    <3>2. QED
      BY <3>1 DEF Logged
  <2>3. QED
    BY <2>1, <2>2
<1>2. CASE recvd' = recvd /\ acks' = acks /\ wire' = wire
  BY <1>1, <1>2 DEF DatanodeOK
<1>3. CASE WritePart \/ WritePartFails \/ HeartbeatWrite
  <2>1. recvd' = recvd /\ acks' = acks
    BY <1>3 DEF WritePart, WritePartFails, HeartbeatWrite
  <2>2. \/ wire' = wire
        \/ \E x \in Part : /\ wire' = Append(wire, x)
                           /\ x.kind \in {"header", "checksums", "data"} => x.pkt \in Logged
    <3>1. CASE WritePart
      <4>1. pkt \in Logged
        BY <1>0, <3>1 DEF WritePart, Accounting, Writing, Logged
      <4>2. wire' = wire \/ wire' = Append(wire, [kind |-> pc, pkt |-> pkt])
        BY <3>1 DEF WritePart
      <4>3. [kind |-> pc, pkt |-> pkt] \in Part
        BY <3>1, PacketTypes, Zenon DEF WritePart, TypeOK, CallerTypes
      <4>4. QED
        BY <4>1, <4>2, <4>3
    <3>2. CASE WritePartFails
      <4>1. wire' = wire \/ wire' = Append(wire, [kind |-> "torn", pkt |-> pkt])
        BY <3>2 DEF WritePartFails, TornWrite
      <4>2. [kind |-> "torn", pkt |-> pkt] \in Part
        BY PacketTypes, Zenon DEF TypeOK, CallerTypes
      <4>3. QED
        BY <4>1, <4>2
    <3>3. CASE HeartbeatWrite
      <4>1. \/ wire' = wire
            \/ wire' = Append(wire, [kind |-> "heartbeat", pkt |-> NoPacket])
            \/ wire' = Append(wire, [kind |-> "torn", pkt |-> NoPacket])
        BY <3>3 DEF HeartbeatWrite, TornWrite
      <4>2. /\ [kind |-> "heartbeat", pkt |-> NoPacket] \in Part
            /\ [kind |-> "torn", pkt |-> NoPacket] \in Part
        BY PacketTypes, Zenon
      <4>3. QED
        BY <4>1, <4>2
    <3>4. QED
      BY <1>3, <3>1, <3>2, <3>3
  <2>3. \A i \in 1 .. Len(wire') :
            wire'[i].kind \in {"header", "checksums", "data"} => wire'[i].pkt \in Logged
    <3>1. CASE wire' = wire
      BY <3>1 DEF DatanodeOK
    <3>2. ASSUME NEW x \in Part, wire' = Append(wire, x),
                 x.kind \in {"header", "checksums", "data"} => x.pkt \in Logged
          PROVE  \A i \in 1 .. Len(wire') :
                   wire'[i].kind \in {"header", "checksums", "data"} => wire'[i].pkt \in Logged
      BY <1>0, <3>2, AppendParts DEF DatanodeOK
    <3>3. QED
      BY <2>2, <3>1, <3>2
  <2>4. QED
    BY <1>1, <2>1, <2>3 DEF DatanodeOK
<1>4. CASE AckRead
  <2>1. acks' = Tail(acks) /\ acks # <<>> /\ wire' = wire /\ recvd' = recvd
    BY <1>4 DEF AckRead
  <2>2. /\ Len(acks') = Len(acks) - 1
        /\ \A i \in 1 .. Len(acks') : i + 1 \in 1 .. Len(acks) /\ acks'[i] = acks[i + 1]
    BY <1>0, <2>1, TailParts, EmptyParts
  <2>3. QED
    BY <1>1, <2>1, <2>2 DEF DatanodeOK
<1>5. CASE DatanodePacket
  <2> DEFINE p == wire[1].pkt
  <2>1. p \in Logged /\ recvd' = recvd \cup {p} /\ p.seqno \in Nat
    <3>1. wire[1].kind = "header" /\ Len(wire) > 0 /\ recvd' = recvd \cup {p}
      BY <1>0, <1>5, EmptyParts DEF DatanodePacket, WholeFrame
    <3>2. wire[1] \in Part
      BY <1>0, <3>1
    <3>3. QED
      BY <1>0, <3>1, <3>2 DEF DatanodeOK, Part, Packet
  <2>2. \A i \in 1 .. Len(wire') :
            wire'[i].kind \in {"header", "checksums", "data"} => wire'[i].pkt \in Logged
    <3> DEFINE k == FrameLength(p)
    <3>1. wire' = SubSeq(wire, k + 1, Len(wire))
      BY <1>5 DEF DatanodePacket
    <3>2. /\ k \in {1, 3} /\ k <= Len(wire) /\ Len(wire') = Len(wire) - k
          /\ \A i \in 1 .. Len(wire') : wire'[i] = wire[i + k]
      BY <1>0, <1>5, <3>1, WireTail, Zenon DEF DatanodePacket
    <3>3. \A i \in 1 .. Len(wire') : i + k \in 1 .. Len(wire)
      BY <1>0, <3>2
    <3>4. QED
      BY <3>2, <3>3, SMTT(30) DEF DatanodeOK
  <2>3. \E q \in recvd', b \in BOOLEAN : acks' = Append(acks, [seqno |-> q.seqno, ok |-> b])
    BY <1>5, <2>1, Zenon DEF DatanodePacket, SendAck
  <2>4. PICK q \in recvd', b \in BOOLEAN : acks' = Append(acks, [seqno |-> q.seqno, ok |-> b])
    BY <2>3
  <2>5. [seqno |-> q.seqno, ok |-> b] \in Ack
    BY <2>1, <2>4, PacketTypes, Zenon DEF TypeOK, HistTypes, Packet
  <2>6. \A i \in 1 .. Len(acks') :
            acks'[i].ok /\ acks'[i].seqno # HeartBeatSeqno =>
               \E r \in recvd' : r.seqno = acks'[i].seqno
    <3>1. /\ Len(acks') = Len(acks) + 1
          /\ \A i \in 1 .. Len(acks) : acks'[i] = acks[i]
          /\ acks'[Len(acks) + 1] = [seqno |-> q.seqno, ok |-> b]
      BY <1>0, <2>4, <2>5, AppendParts
    <3>2. QED
      BY <1>0, <2>1, <2>4, <3>1 DEF DatanodeOK
  <2>7. QED
    BY <1>1, <2>1, <2>2, <2>6 DEF DatanodeOK
<1>6. CASE DatanodeHeartbeat
  <2>1. wire' = Tail(wire) /\ wire # <<>> /\ recvd' = recvd
    BY <1>6 DEF DatanodeHeartbeat
  <2>2. /\ Len(wire') = Len(wire) - 1
        /\ \A i \in 1 .. Len(wire') : i + 1 \in 1 .. Len(wire) /\ wire'[i] = wire[i + 1]
    BY <1>0, <2>1, TailParts, EmptyParts
  <2>3. PICK b \in BOOLEAN : acks' = Append(acks, [seqno |-> HeartBeatSeqno, ok |-> b])
    BY <1>6, Zenon DEF DatanodeHeartbeat, SendAck
  <2>4. [seqno |-> HeartBeatSeqno, ok |-> b] \in Ack
    BY PacketTypes, Zenon
  <2>5. /\ Len(acks') = Len(acks) + 1
        /\ \A i \in 1 .. Len(acks) : acks'[i] = acks[i]
        /\ acks'[Len(acks) + 1] = [seqno |-> HeartBeatSeqno, ok |-> b]
    BY <1>0, <2>3, <2>4, AppendParts
  <2>6. \A i \in 1 .. Len(acks') :
            acks'[i].ok /\ acks'[i].seqno # HeartBeatSeqno =>
               \E r \in recvd' : r.seqno = acks'[i].seqno
    <3> SUFFICES ASSUME NEW i \in 1 .. Len(acks'),
                        acks'[i].ok, acks'[i].seqno # HeartBeatSeqno
                 PROVE  \E r \in recvd : r.seqno = acks'[i].seqno
      BY <2>1, Zenon
    <3>1. i # Len(acks) + 1
      BY <2>5
    <3>2. i \in 1 .. Len(acks)
      BY <1>0, <2>5, <3>1
    <3>3. QED
      BY <2>5, <3>2, Zenon DEF DatanodeOK
  <2>7. \A i \in 1 .. Len(wire') :
            wire'[i].kind \in {"header", "checksums", "data"} => wire'[i].pkt \in Logged
    BY <2>2 DEF DatanodeOK
  <2>8. QED
    BY <1>1, <2>1, <2>6, <2>7 DEF DatanodeOK
<1>7. QED
  <2>1. CASE Call
    BY <1>2, <2>1, CallFrame, CallerFrame
  <2>2. CASE CallerStep /\ ~WritePart /\ ~WritePartFails
    BY <1>2, <2>2 DEF CallerStep, FlushLoop, Enqueue, AcquireLock, CloseChannels, Join,
                      connVars
  <2>3. CASE Environment /\ ~AckRead /\ ~HeartbeatWrite /\ ~DatanodePacket /\ ~DatanodeHeartbeat
    BY <1>2, <2>3 DEF Environment, AckStep, AckReceive, AckReadFails, AckDrain,
         HeartbeatStep, HeartbeatTick, HeartbeatLock, HeartbeatStop, DatanodeStep,
         DatanodeRejects, SetDeadline, ConnectionBreaks, DeadlinePasses, connVars
  <2>4. CASE UNCHANGED vars
    BY <1>2, <2>4 DEF vars, connVars
  <2>5. QED
    BY <1>3, <1>4, <1>5, <1>6, <2>1, <2>2, <2>3, <2>4, NextCases

\* The datanode forgets nothing.
LEMMA RecvdGrows ==
    ASSUME [Next]_vars
    PROVE  recvd \subseteq recvd'
<1>1. CASE Call \/ CallerStep
  BY <1>1, CallerFrame, SMTT(30)
<1>2. CASE Environment
  BY <1>2, Zenon DEF Environment, AckStep, AckReceive, AckRead, AckReadFails, AckDrain,
       HeartbeatStep, HeartbeatTick, HeartbeatLock, HeartbeatWrite, HeartbeatStop,
       DatanodeStep, DatanodePacket, DatanodeHeartbeat, DatanodeRejects,
       SetDeadline, ConnectionBreaks, DeadlinePasses
<1>3. CASE UNCHANGED vars
  BY <1>3 DEF vars
<1>4. QED
  BY <1>1, <1>2, <1>3, NextCases

\* An acknowledgement that ackPackets lets pass is for the packet it waits for,
\* and that packet is stored.
LEMMA AckedStep ==
    ASSUME IndInv, TypeOK', [Next]_vars
    PROVE  AckedOK'
<1>a. /\ TypeOK /\ Accounting /\ LogOK /\ QueueOK /\ DatanodeOK
      /\ AckedOK /\ FinishOK /\ LostOK
  BY DEF IndInv
<1> USE <1>a
<1> SUFFICES ASSUME ackError' = "none",
                    NEW i \in 1 .. Len(log') - Unacknowledged'
             PROVE  log'[i] \in recvd'
  BY DEF AckedOK
<1>0. /\ packets \in Seq(Packet) /\ log \in Seq(Packet) /\ acks \in Seq(Ack)
      /\ Len(packets) \in Nat /\ Len(log) \in Nat /\ Len(acks) \in Nat
      /\ Len(packets') \in Nat /\ Len(log') \in Nat
  BY DEF TypeOK, ChannelTypes, HistTypes, ConnTypes
<1>1. CASE UNCHANGED <<packets, ackPc, ackError, log>>
  BY <1>1, RecvdGrows DEF AckedOK, Unacknowledged
<1>2. CASE Enqueue
  <2>1. /\ Len(packets') = Len(packets) + 1 /\ Len(log') = Len(log) + 1
        /\ \A j \in 1 .. Len(log) : log'[j] = log[j]
    BY <1>2, EnqueueEffect
  <2>2. ackPc' = ackPc /\ ackError' = ackError
    BY <1>2, CallerFrame DEF CallerStep
  <2>3. Len(log') - Unacknowledged' = Len(log) - Unacknowledged
        /\ Unacknowledged \in Nat
    BY <1>0, <2>1, <2>2 DEF Unacknowledged
  <2>4. i \in 1 .. Len(log) - Unacknowledged /\ i \in 1 .. Len(log)
    BY <1>0, <2>3
  <2>5. QED
    BY <2>1, <2>2, <2>4, RecvdGrows DEF AckedOK
<1>3. CASE AckStep
  <2>0. log' = log
    BY <1>3, EnvironmentFrame DEF Environment
  <2>1. CASE AckReceive
    <3>1. ackError = "none" /\ ackPc = "recv"
      BY <2>1 DEF AckReceive, QueueOK
    <3>2. Unacknowledged' = Unacknowledged
      <4>1. CASE packets # <<>>
        BY <1>0, <2>0, <2>1, <3>1, <4>1, QueueTail DEF AckReceive, Unacknowledged
      <4>2. CASE packets = <<>>
        BY <2>1, <3>1, <4>2 DEF AckReceive, Unacknowledged
      <4>3. QED
        BY <4>1, <4>2
    <3>3. QED
      BY <2>0, <3>1, <3>2, RecvdGrows DEF AckedOK
  <2>2. CASE AckRead
    <3>1. /\ ackPc = "read" /\ packets' = packets /\ ackError = "none" /\ recvd' = recvd
          /\ acks # <<>> /\ HandleAck(Head(acks))
          /\ Len(packets) < Len(log) /\ cur = log[Len(log) - Len(packets)]
      BY <2>2 DEF AckRead, QueueOK
    <3>2. \/ ackPc' = "read"
          \/ /\ ackPc' = "recv" /\ acks[1].ok
             /\ acks[1].seqno = cur.seqno /\ acks[1].seqno # HeartBeatSeqno
      <4>1. Head(acks) = acks[1]
        BY <1>0, <3>1, TailParts
      <4>2. QED
        BY <3>1, <4>1 DEF HandleAck
    <3>3. CASE ackPc' = "read"
      BY <2>0, <3>1, <3>3 DEF AckedOK, Unacknowledged
    <3>4. CASE ackPc' = "recv"
      <4> DEFINE k == Len(log) - Len(packets)
      <4>1. k \in 1 .. Len(log) /\ cur = log[k] /\ cur.seqno = k
        BY <1>0, <3>1 DEF LogOK, PacketsContiguous
      <4>2. 1 \in 1 .. Len(acks)
        BY <1>0, <3>1, EmptyParts
      <4>3. PICK p \in recvd : p.seqno = k
        BY <3>2, <3>4, <4>1, <4>2 DEF DatanodeOK
      <4>4. PICK j \in 1 .. Len(log) : p = log[j]
        BY <4>3 DEF DatanodeOK, Logged
      <4>5. j = k
        BY <4>3, <4>4 DEF LogOK, PacketsContiguous
      <4>6. log[k] \in recvd
        BY <4>3, <4>4, <4>5
      <4>7. Unacknowledged' = Len(packets) /\ Unacknowledged = Len(packets) + 1
        BY <1>0, <3>1, <3>4 DEF Unacknowledged
      <4>8. CASE i = k
        BY <2>0, <3>1, <4>6, <4>8
      <4>9. CASE i # k
        <5>1. i \in 1 .. Len(log) - Unacknowledged
          BY <1>0, <2>0, <4>7, <4>9
        <5>2. QED
          BY <2>0, <3>1, <5>1 DEF AckedOK
      <4>10. QED
        BY <4>8, <4>9
    <3>5. QED
      BY <3>2, <3>3, <3>4
  <2>3. CASE AckReadFails \/ AckDrain
    BY <2>3 DEF AckReadFails, AckDrain, QueueOK
  <2>4. QED
    BY <1>3, <2>1, <2>2, <2>3 DEF AckStep
<1>4. QED
  <2>1. CASE Call
    BY <1>1, <2>1, CallFrame, CallerFrame
  <2>2. CASE CallerStep /\ ~Enqueue
    BY <1>1, <2>2, CallerFrame, CallerStepFrame
  <2>3. CASE (Environment \/ UNCHANGED vars) /\ ~AckStep
    BY <1>1, <2>3, EnvironmentFrame, ChannelFrame
  <2>4. QED
    BY <1>2, <1>3, <2>1, <2>2, <2>3, NextCases

\* finish goes through its stages in order, and returns nil only after the last
\* packet was sent and the ack loop ended without an error.
LEMMA FinishStep ==
    ASSUME IndInv, TypeOK', [Next]_vars
    PROVE  FinishOK'
<1>a. /\ TypeOK /\ Accounting /\ LogOK /\ QueueOK /\ DatanodeOK
      /\ AckedOK /\ FinishOK /\ LostOK
  BY DEF IndInv
<1> USE <1>a
<1>1. CASE Environment \/ UNCHANGED vars
  <2>1. ackPc = "done" => ackPc' = "done" /\ ackError' = ackError
    <3>1. CASE AckStep
      BY <3>1 DEF AckStep, AckReceive, AckRead, AckReadFails, AckDrain
    <3>2. CASE ~AckStep
      BY <1>1, <3>2, ChannelFrame
    <3>3. QED
      BY <3>1, <3>2
  <2>2. QED
    BY <1>1, <2>1, EnvironmentFrame DEF FinishOK, LastSent, Writing
<1>2. CASE Call
  <2>0. UNCHANGED <<chClosed, log, finished, ackPc, ackError>>
    BY <1>2, CallFrame, CallerFrame
  <2>1. CASE \E n \in 0 .. MaxBytes : Write(n)
    BY <2>0, <2>1, SMTT(30) DEF Write, Begin, Return, FinishOK, LastSent, Writing
  <2>2. CASE Flush
    BY <2>0, <2>2 DEF Flush, Begin, Return, FinishOK, LastSent, Writing
  <2>3. CASE Finish
    <3>1. ~closed => ~LastSent
      BY DEF Accounting
    <3>2. QED
      BY <2>0, <2>3, <3>1, SMTT(60) DEF Finish, Begin, Return, FinishOK, LastSent, Writing
  <2>4. QED
    BY <1>2, <2>1, <2>2, <2>3 DEF Call
<1>3. CASE CallerStep /\ ~Enqueue
  <2>0. UNCHANGED <<log, closed, ackPc, ackError>> /\ LastSent' = LastSent
    BY <1>3, CallerFrame, CallerStepFrame DEF LastSent
  <2>1. CASE FlushLoop
    <3>1. pc = "flush" /\ UNCHANGED <<chClosed, finished, err>>
          /\ (pc' = "enqueue" => MustFlush \/ op = "finish")
          /\ (\/ pc' = "enqueue" /\ op' = op
              \/ pc' = "idle" /\ op' = "none" /\ op # "finish")
      BY <2>1 DEF FlushLoop, Return, histVars
    <3>2. finished # "none" => ~MustFlush
      BY <3>1 DEF FinishOK, LostOK, MustFlush, TypeOK, CallerTypes
    <3>3. QED
      BY <2>0, <3>1, <3>2 DEF FinishOK, Writing
  <2>2. CASE AcquireLock
    BY <2>0, <2>2, SMTT(30) DEF AcquireLock, FinishOK, Writing, histVars
  <2>3. CASE WritePart
    <3>1. Writing /\ finished' = finished /\ chClosed' = chClosed /\ finished = "none"
      BY <2>3 DEF WritePart, Writing, FinishOK, histVars
    <3>2. pkt.last <=> LastSent
      BY <3>1, SMTT(30) DEF Accounting, LastSent
    <3>3. \/ pc' \in {"checksums", "data"} /\ UNCHANGED <<op, err>>
          \/ pc' = "flush" /\ UNCHANGED <<op, err>> /\ ~pkt.last
          \/ pc' = "close" /\ op = "finish" /\ UNCHANGED op /\ pkt.last
          \/ pc' = "idle" /\ op' = "none" /\ op # "finish"
      BY <2>3, SMTT(60) DEF WritePart, NextPart, Leave, Return
    <3>4. QED
      BY <2>0, <3>1, <3>2, <3>3 DEF FinishOK, Writing
  <2>4. CASE WritePartFails
    <3>1. Writing /\ finished' = finished /\ chClosed' = chClosed /\ finished = "none"
      BY <2>4, Zenon DEF WritePartFails, Writing, FinishOK, histVars
    <3>2. \/ pc' = "close" /\ op = "finish" /\ UNCHANGED op /\ err' = "io"
          \/ pc' = "idle" /\ op' = "none" /\ op # "finish"
      BY <2>4 DEF WritePartFails, Leave, Return
    <3>3. QED
      BY <2>0, <3>1, <3>2 DEF FinishOK, Writing
  <2>5. CASE CloseChannels
    BY <2>0, <2>5, SMTT(60) DEF CloseChannels, FinishOK, Writing, histVars
  <2>6. CASE Join
    BY <2>0, <2>6, SMTT(60) DEF Join, Return, AckErrorVisible, FinishOK, Writing,
                      TypeOK, CallerTypes, Errors
  <2>7. QED
    BY <1>3, <2>1, <2>2, <2>3, <2>4, <2>5, <2>6 DEF CallerStep
<1>4. CASE Enqueue
  <2>1. pc = "enqueue" /\ pc' = "lock" /\ ~chClosed'
        /\ UNCHANGED <<op, closed, finished, err>>
    BY <1>4, EnqueueEffect, Zenon
  <2>2. ackPc' = ackPc /\ ackError' = ackError
    BY <1>4, CallerFrame DEF CallerStep
  <2>3. QED
    BY <2>1, <2>2, Zenon DEF FinishOK, Writing
<1>5. QED
  BY <1>1, <1>2, <1>3, <1>4, NextCases

-----------------------------------------------------------------------------
(* Packets that are lost, and the invariant as a whole.                     *)

\* A packet whose data part was never written is not received later, unless
\* the caller writes that part now.
LEMMA UnsentKept ==
    ASSUME IndInv, TypeOK', [Next]_vars, NEW p, ~p.last, Unsent(p),
           ~(WritePart /\ pc = "data")
    PROVE  Unsent(p)'
<1>a. /\ TypeOK /\ Accounting /\ LogOK /\ QueueOK /\ DatanodeOK
      /\ AckedOK /\ FinishOK /\ LostOK
  BY DEF IndInv
<1> USE <1>a
<1>0. wire \in Seq(Part) /\ Len(wire) \in Nat
  BY DEF TypeOK, ConnTypes
<1>1. CASE UNCHANGED <<wire, recvd>>
  BY <1>1 DEF Unsent
<1>2. ASSUME recvd' = recvd,
             NEW x \in Part, wire' = Append(wire, x), x.kind # "data"
      PROVE  Unsent(p)'
  <2>1. /\ Len(wire') = Len(wire) + 1 /\ wire'[Len(wire) + 1] = x
        /\ \A i \in 1 .. Len(wire) : wire'[i] = wire[i]
    BY <1>0, <1>2, AppendParts
  <2>2. x # [kind |-> "data", pkt |-> p]
    BY <1>2
  <2>3. QED
    BY <1>0, <1>2, <2>1, <2>2 DEF Unsent
<1>3. CASE WritePart
  <2>1. wire' = wire \/ wire' = Append(wire, [kind |-> pc, pkt |-> pkt])
    BY <1>3, Zenon DEF WritePart
  <2>2. [kind |-> pc, pkt |-> pkt] \in Part /\ pc # "data" /\ recvd' = recvd
    BY <1>3, PacketTypes, Zenon DEF WritePart, TypeOK, CallerTypes
  <2>3. QED
    BY <1>1, <1>2, <2>1, <2>2
<1>4. CASE WritePartFails
  <2>1. wire' = wire \/ wire' = Append(wire, [kind |-> "torn", pkt |-> pkt])
    BY <1>4 DEF WritePartFails, TornWrite
  <2>2. [kind |-> "torn", pkt |-> pkt] \in Part /\ recvd' = recvd
    BY <1>4, PacketTypes, Zenon DEF WritePartFails, TypeOK, CallerTypes
  <2>3. QED
    BY <1>1, <1>2, <2>1, <2>2
<1>5. CASE HeartbeatWrite
  <2>1. \/ wire' = wire
        \/ wire' = Append(wire, [kind |-> "heartbeat", pkt |-> NoPacket])
        \/ wire' = Append(wire, [kind |-> "torn", pkt |-> NoPacket])
    BY <1>5 DEF HeartbeatWrite, TornWrite
  <2>2. /\ [kind |-> "heartbeat", pkt |-> NoPacket] \in Part
        /\ [kind |-> "torn", pkt |-> NoPacket] \in Part /\ recvd' = recvd
    BY <1>5, PacketTypes, Zenon DEF HeartbeatWrite
  <2>3. QED
    BY <1>1, <1>2, <2>1, <2>2
<1>6. CASE DatanodePacket
  <2> DEFINE q == wire[1].pkt
             k == FrameLength(q)
  <2>1. recvd' = recvd \cup {q} /\ wire' = SubSeq(wire, k + 1, Len(wire)) /\ WholeFrame
    BY <1>6 DEF DatanodePacket
  <2>2. /\ k \in {1, 3} /\ k <= Len(wire) /\ Len(wire') = Len(wire) - k
        /\ \A i \in 1 .. Len(wire') : wire'[i] = wire[i + k]
    BY <1>0, <2>1, WireTail, Zenon
  <2>3. p # q
    <3>1. SUFFICES ASSUME p = q PROVE FALSE
      OBVIOUS
    <3>2. Len(wire) >= 3 /\ wire[3] = [kind |-> "data", pkt |-> p]
      BY <2>1, <3>1, Zenon DEF WholeFrame, FrameLength
    <3>3. QED
      BY <1>0, <3>2, SMTT(60) DEF Unsent
  <2>4. \A i \in 1 .. Len(wire') : i + k \in 1 .. Len(wire)
    BY <1>0, <2>2
  <2>5. QED
    BY <2>1, <2>2, <2>3, <2>4, Zenon DEF Unsent
<1>7. CASE DatanodeHeartbeat
  <2>1. wire' = Tail(wire) /\ wire # <<>> /\ recvd' = recvd
    BY <1>7, Zenon DEF DatanodeHeartbeat
  <2>2. /\ Len(wire') = Len(wire) - 1
        /\ \A i \in 1 .. Len(wire') : i + 1 \in 1 .. Len(wire) /\ wire'[i] = wire[i + 1]
    BY <1>0, <2>1, TailParts, EmptyParts
  <2>3. QED
    BY <2>1, <2>2 DEF Unsent
<1>8. QED
  <2>1. CASE Call
    BY <1>1, <2>1, CallFrame, CallerFrame
  <2>2. CASE CallerStep /\ ~WritePart /\ ~WritePartFails
    BY <1>1, <2>2, Zenon DEF CallerStep, FlushLoop, Enqueue, AcquireLock, CloseChannels, Join,
                      connVars
  <2>3. CASE Environment /\ ~HeartbeatWrite /\ ~DatanodePacket /\ ~DatanodeHeartbeat
    BY <1>1, <2>3, Zenon DEF Environment, AckStep, AckReceive, AckRead, AckReadFails, AckDrain,
         HeartbeatStep, HeartbeatTick, HeartbeatLock, HeartbeatStop, DatanodeStep,
         DatanodeRejects, SetDeadline, ConnectionBreaks, DeadlinePasses, connVars
  <2>4. CASE UNCHANGED vars
    BY <1>1, <2>4 DEF vars, connVars
  <2>5. QED
    BY <1>3, <1>4, <1>5, <1>6, <1>7, <2>1, <2>2, <2>3, <2>4, NextCases

\* finish leaves bytes in the buffer only when writePacket failed, and then the
\* packet it failed on is never received.
LEMMA LostStep ==
    ASSUME IndInv, TypeOK', [Next]_vars
    PROVE  LostOK'
<1>a. /\ TypeOK /\ Accounting /\ LogOK /\ QueueOK /\ DatanodeOK
      /\ AckedOK /\ FinishOK /\ LostOK
  BY DEF IndInv
<1> USE <1>a
<1> DEFINE top == log[Len(log)]
           Left == closed /\ buf > 0 /\ (op = "finish" => pc \in {"close", "join"})
<1>0. Len(log) \in Nat /\ buf \in Nat /\ log \in Seq(Packet)
  BY DEF TypeOK, CallerTypes, HistTypes
<1>1. Left => Len(log) > 0 /\ ~top.last /\ Unsent(top)
  BY <1>0, SMTT(60) DEF LostOK, Accounting, LastSent
<1>2. Writing => Len(log) > 0 /\ pkt = top
  BY DEF Accounting
<1>3. CASE Environment \/ UNCHANGED vars
  <2>1. /\ UNCHANGED <<pc, op, buf, closed, pkt, chClosed, log>>
        /\ ~(WritePart /\ pc = "data")
    <3>1. UNCHANGED <<pc, op, buf, closed, pkt, chClosed, log>>
      BY <1>3, EnvironmentFrame
    <3>2. QED
      BY <3>1, Zenon DEF WritePart, NextPart, Leave, Return
  <2>2. Writing /\ ~pkt.last => Unsent(pkt)'
    BY <2>1, UnsentKept, Zenon DEF LostOK
  <2>3. Left => Unsent(top)'
    BY <1>1, <2>1, UnsentKept
  <2>4. QED
    BY <1>1, <2>1, <2>2, <2>3, Zenon DEF LostOK, Writing, Unsent
<1>4. CASE Call
  <2>0. UNCHANGED <<pkt, chClosed, log, wire, recvd>> /\ pc = "idle" /\ op = "none"
        /\ buf' >= buf /\ ~Writing'
    <3>1. UNCHANGED <<pkt, chClosed, log, wire, recvd>>
      BY <1>4, CallFrame, CallerFrame
    <3>2. pc = "idle" /\ pc' \in {"idle", "flush", "close"}
      BY <1>4, Zenon DEF Call, Write, Flush, Finish, Begin, Return
    <3>3. buf' = buf \/ \E n \in 0 .. MaxBytes : buf' = buf + n
      BY <1>4, Zenon DEF Call, Write, Flush, Finish
    <3>4. buf' >= buf
      BY <1>0, <3>3
    <3>5. QED
      BY <3>1, <3>2, <3>4 DEF FinishOK, Writing
  <2>1. chClosed => closed
    BY <2>0 DEF FinishOK
  <2>2. CASE \E n \in 0 .. MaxBytes : Write(n)
    <3>1. /\ closed' = closed /\ (closed => buf' = buf)
          /\ \/ pc' = "idle" /\ buf' = buf
             \/ pc' = "flush" /\ ~closed
      BY <2>2, Zenon DEF Write, Begin, Return
    <3>2. closed /\ buf > 0 => Len(log) > 0 /\ Unsent(top)
      BY <1>1, <2>0, Zenon
    <3>3. Len(log') = Len(log) /\ Unsent(top)' = Unsent(top)
      BY <2>0, Zenon DEF Unsent
    <3>4. closed' /\ buf' > 0 => Len(log') > 0 /\ Unsent(top)'
      BY <3>1, <3>2, <3>3, Zenon
    <3>5. ~(pc' = "flush" /\ chClosed')
      BY <2>0, <2>1, <3>1, Zenon
    <3>6. QED
      BY <2>0, <3>4, <3>5, Zenon DEF LostOK
  <2>3. CASE Flush
    <3>1. chClosed /\ pc' = "flush" => buf = 0
      <4> SUFFICES ASSUME chClosed, pc' = "flush", buf > 0 PROVE FALSE
        BY <1>0
      <4>1. finished # "none" /\ ackPc = "done" /\ packets = <<>> /\ closed
        BY <2>0 DEF FinishOK, QueueOK
      <4>2. ackError = "none"
        BY <2>3, <4>1 DEF Flush, AckErrorVisible, Return
      <4>3. Unacknowledged = 0
        BY <4>1 DEF Unacknowledged
      <4>4. Left
        BY <2>0, <4>1
      <4>5. Len(log) \in 1 .. Len(log) - Unacknowledged
        BY <1>0, <1>1, <4>3, <4>4
      <4>6. QED
        BY <1>1, <4>2, <4>4, <4>5, Zenon DEF AckedOK, Unsent
    <3>2. buf' = buf /\ closed' = closed
      BY <2>3 DEF Flush
    <3>3. QED
      BY <1>1, <2>0, <3>1, <3>2, Zenon DEF LostOK, Unsent
  <2>4. CASE Finish
    <3>1. ~closed => ~AckErrorVisible
      BY <2>0 DEF AckErrorVisible, QueueOK, FinishOK
    <3>2. /\ buf' = buf
          /\ \/ closed /\ closed' /\ op' = "none" /\ pc' = "idle"
             \/ ~closed /\ op' = "finish" /\ pc' = "flush"
      BY <2>4, <3>1 DEF Finish, Begin, Return
    <3>3. closed /\ op' = "none" /\ buf > 0 => Len(log) > 0 /\ Unsent(top)
      BY <1>1, <2>0
    <3>4. Len(log') = Len(log) /\ Unsent(top)' = Unsent(top)
      BY <2>0, Zenon DEF Unsent
    <3>5. QED
      BY <2>0, <2>1, <3>2, <3>3, <3>4, Zenon DEF LostOK
  <2>5. QED
    BY <1>4, <2>2, <2>3, <2>4 DEF Call
<1>5. CASE Enqueue
  <2>1. /\ pc = "enqueue" /\ pc' = "lock" /\ Len(log') = Len(log) + 1
        /\ log'[Len(log) + 1] = pkt /\ UNCHANGED <<op, buf, closed, pkt, wire>>
    BY <1>5, EnqueueEffect, Zenon
  <2>2. recvd' = recvd
    BY <1>5 DEF Enqueue
  <2>3. pkt \notin Logged
    <3>1. pkt.seqno = Len(log) + 1
      BY <1>0, <2>1, Zenon DEF Accounting
    <3>2. \A i \in 1 .. Len(log) : log[i].seqno = i /\ i # Len(log) + 1
      BY <1>0 DEF LogOK, PacketsContiguous
    <3>3. QED
      BY <3>1, <3>2, Zenon DEF Logged
  <2>4. Unsent(pkt)
    <3>1. pkt \notin recvd
      BY <2>3, Zenon DEF DatanodeOK
    <3>2. ASSUME NEW i \in 1 .. Len(wire), wire[i] = [kind |-> "data", pkt |-> pkt]
          PROVE  FALSE
      <4>1. wire[i].kind = "data" /\ wire[i].pkt = pkt
        BY <3>2, SMTT(60)
      <4>2. wire[i].kind = "data" => wire[i].pkt \in Logged
        BY Zenon DEF DatanodeOK
      <4>3. QED
        BY <2>3, <4>1, <4>2
    <3>3. QED
      BY <3>1, <3>2, Zenon DEF Unsent
  <2>5. ~Left
    BY <2>1 DEF FinishOK
  <2>6. QED
    BY <2>1, <2>2, <2>4, <2>5, Zenon DEF LostOK, Unsent, Writing
<1>6. CASE CallerStep /\ ~Enqueue
  <2>0. UNCHANGED <<log, closed, recvd>>
    BY <1>6, CallerFrame, CallerStepFrame
  <2>1. CASE FlushLoop
    <3>1. /\ UNCHANGED <<chClosed, wire>> /\ pc = "flush" /\ buf' <= buf
          /\ (\/ pc' = "enqueue" /\ op' = op
              \/ pc' = "idle" /\ op' = "none" /\ op # "finish")
      <4>1. PacketLength \in 0 .. buf
        BY PacketLengthBound DEF TypeOK, CallerTypes
      <4>2. QED
        BY <1>0, <2>1, <4>1, SMTT(60) DEF FlushLoop, Return, connVars
    <3>2. buf' \in Nat
      BY DEF TypeOK, CallerTypes
    <3>3. ~Writing' /\ pc' # "flush"
      BY <3>1, Zenon DEF Writing
    <3>4. closed /\ op # "finish" => buf = 0
      BY <3>1, Zenon DEF FinishOK, LostOK
    <3>5. op = "finish" => op' = "finish" /\ pc' \notin {"close", "join"}
      BY <3>1, Zenon
    <3>6. buf = 0 => ~(buf' > 0)
      BY <1>0, <3>1, <3>2
    <3>7. QED
      BY <2>0, <3>3, <3>4, <3>5, <3>6, Zenon DEF LostOK
  <2>2. CASE AcquireLock
    <3>1. /\ pc = "lock" /\ pc' = "header"
          /\ UNCHANGED <<op, buf, pkt, chClosed, wire>>
      BY <2>2, Zenon DEF AcquireLock, connVars
    <3>2. Writing /\ (~pkt.last => Unsent(pkt))
      BY <3>1, Zenon DEF LostOK, Writing
    <3>3. op = "finish" \/ ~closed
      BY <3>1, <3>2, Zenon DEF FinishOK
    <3>4. QED
      BY <2>0, <3>1, <3>2, <3>3, Zenon DEF LostOK, Unsent
  <2>3. CASE WritePart
    <3>1. /\ Writing /\ UNCHANGED <<buf, pkt, chClosed>>
          /\ pc # "data" => Writing /\ Writing' /\ pc' # "flush" /\ op' = op
          /\ pc = "data" => ~Writing'
      <4>1. Writing /\ UNCHANGED <<buf, pkt, chClosed>>
        BY <2>3, Zenon DEF WritePart, Writing
      <4>2. ASSUME pc # "data" PROVE Writing' /\ pc' # "flush" /\ op' = op
        <5>1. pc \in {"header", "checksums"} /\ pc' = NextPart[pc] /\ op' = op
          BY <2>3, <4>2, Zenon DEF WritePart
        <5>2. pc' \in {"checksums", "data"}
          BY <5>1, NextParts, Zenon
        <5>3. QED
          BY <5>1, <5>2, Zenon DEF Writing
      <4>3. ASSUME pc = "data" PROVE ~Writing'
        BY <2>3, <4>3, Zenon DEF WritePart, Leave, Return, Writing
      <4>4. QED
        BY <4>1, <4>2, <4>3, Zenon
    <3>2. ~Left /\ ~chClosed
      BY <3>1 DEF FinishOK, Writing
    <3>3. CASE pc # "data"
      <4>1. ~pkt.last => Unsent(pkt)'
        BY <2>3, <3>1, <3>3, UnsentKept, Zenon DEF LostOK
      <4>2. ~(op' = "finish" => pc' \in {"close", "join"}) \/ ~closed
        BY <3>1, <3>3 DEF FinishOK, Writing
      <4>3. QED
        BY <2>0, <3>1, <3>2, <3>3, <4>1, <4>2, Zenon DEF LostOK, Unsent
    <3>4. CASE pc = "data"
      <4>1. closed => op = "finish"
        BY <3>1 DEF FinishOK
      <4>2. op = "finish" /\ pc' \in {"close", "join"} => pkt.last
        BY <2>3, <3>4 DEF WritePart, Leave, Return
      <4>3. pkt.last => buf = 0
        BY <1>2, <3>1 DEF Accounting, LastSent
      <4>4. op = "finish" => op' = "finish"
        BY <2>3, <3>4, Zenon DEF WritePart, Leave, Return
      <4>5. QED
        <5>1. ~(closed' /\ buf' > 0 /\ (op' = "finish" => pc' \in {"close", "join"}))
          BY <1>0, <2>0, <3>1, <4>1, <4>2, <4>3, <4>4
        <5>2. QED
          BY <3>1, <3>2, <3>4, <5>1, Zenon DEF LostOK
    <3>5. QED
      BY <3>3, <3>4
  <2>4. CASE WritePartFails
    <3>1. Writing /\ UNCHANGED <<buf, pkt, chClosed>> /\ pc' \in {"close", "idle"}
          /\ ~(WritePart /\ pc = "data")
      BY <2>4, Zenon DEF WritePartFails, WritePart, ConnDown, CanWrite, Leave, Return, Writing
    <3>2. buf > 0 => ~pkt.last
      BY <1>0, <1>2, <3>1, SMTT(60) DEF Accounting, LastSent
    <3>3. buf > 0 => Unsent(pkt)'
      BY <3>1, <3>2, UnsentKept DEF LostOK
    <3>4. buf > 0 => Unsent(top)' /\ Len(log) > 0
      BY <1>2, <2>0, <3>1, <3>3, Zenon DEF Unsent
    <3>5. QED
      BY <2>0, <3>1, <3>4, Zenon DEF LostOK, Unsent, Writing
  <2>5. CASE CloseChannels
    <3>1. /\ pc = "close" /\ pc' = "join" /\ UNCHANGED <<op, buf, pkt, wire>>
      BY <2>5, Zenon DEF CloseChannels, connVars
    <3>2. QED
      BY <1>1, <2>0, <3>1, Zenon DEF LostOK, Unsent, Writing
  <2>6. CASE Join
    <3>1. /\ pc = "join" /\ pc' = "idle" /\ UNCHANGED <<buf, pkt, wire>>
      BY <2>6, Zenon DEF Join, Return, connVars
    <3>2. QED
      BY <1>1, <2>0, <3>1, Zenon DEF LostOK, Unsent, Writing
  <2>7. QED
    BY <1>6, <2>1, <2>2, <2>3, <2>4, <2>5, <2>6 DEF CallerStep
<1>7. QED
  BY <1>3, <1>4, <1>5, <1>6, NextCases

-----------------------------------------------------------------------------
(* The theorems.                                                           *)

\* A new stream satisfies the inductive invariant.
LEMMA IndInit == Init => IndInv
<1> SUFFICES ASSUME Init PROVE IndInv
  OBVIOUS
<1>1. TypeOK
  BY TypeInit
<1>2. Accounting /\ LogOK
  <2>1. /\ pc = "idle" /\ buf = 0 /\ written = start /\ offset = start /\ seqno = 1
        /\ closed = FALSE /\ log = <<>>
    BY Zenon DEF Init
  <2>2. start \in Nat /\ Len(log) = 0 /\ ~LastSent /\ ~Writing
    BY <1>1, <2>1 DEF TypeOK, HistTypes, LastSent, Writing
  <2>3. Accounting
    BY <2>1, <2>2 DEF Accounting
  <2>4. LogOK
    BY <2>1, <2>2 DEF LogOK, PacketsContiguous
  <2>5. QED
    BY <2>3, <2>4
<1>3. QueueOK /\ DatanodeOK /\ AckedOK
  BY SMTT(60) DEF Init, QueueOK, DatanodeOK, AckedOK, Unacknowledged
<1>4. FinishOK /\ LostOK
  BY DEF Init, FinishOK, LostOK, LastSent, Writing
<1>5. QED
  BY <1>1, <1>2, <1>3, <1>4 DEF IndInv

\* Every step of the three goroutines, the datanode and the network keeps it.
LEMMA IndStep == IndInv /\ [Next]_vars => IndInv'
<1> SUFFICES ASSUME IndInv, [Next]_vars PROVE IndInv'
  OBVIOUS
<1>1. TypeOK'
  BY TypeStep DEF IndInv
<1>2. QED
  BY <1>1, AccountingStep, LogStep, QueueStep, DatanodeOKStep, AckedStep, FinishStep,
     LostStep DEF IndInv

\* The inductive invariant of the stream.
THEOREM InvariantHolds == Spec => []IndInv
  BY IndInit, IndStep, PTL DEF Spec

\* What finish has to go by when it returns nil is enough.
LEMMA FinishedIsStored == IndInv => FinishedMeansStored
<1> SUFFICES ASSUME IndInv, finished = "ok" PROVE
        /\ {<<o, o>> : o \in start .. written - 1} \subseteq Stored
        /\ \E p \in recvd : p.last /\ p.offset = written
  BY DEF FinishedMeansStored
<1>a. /\ TypeOK /\ Accounting /\ LogOK /\ QueueOK /\ DatanodeOK
      /\ AckedOK /\ FinishOK /\ LostOK
  BY DEF IndInv
<1> USE <1>a
<1>1. /\ Len(log) \in Nat /\ offset \in Nat /\ start \in Nat /\ written \in Nat
      /\ log \in Seq(Packet)
  BY DEF TypeOK, CallerTypes, HistTypes
<1>2. /\ LastSent /\ ackError = "none" /\ ackPc = "done" /\ packets = <<>>
      /\ pc # "enqueue"
  BY DEF FinishOK, QueueOK
<1>3. written = offset
  BY <1>1, <1>2 DEF Accounting
<1>4. \A i \in 1 .. Len(log) : log[i] \in recvd
  <2>1. Unacknowledged = 0
    BY <1>2 DEF Unacknowledged
  <2>2. QED
    BY <1>1, <1>2, <2>1 DEF AckedOK
<1>5. ASSUME NEW o \in start .. written - 1
      PROVE  <<o, o>> \in Stored
  <2>1. PICK i \in 1 .. Len(log) : log[i].offset <= o /\ o < log[i].offset + log[i].len
    BY <1>3 DEF LogOK
  <2>2. log[i].first = log[i].offset /\ log[i] \in Packet
    BY <1>1, SMTT(60) DEF LogOK, PacketsContiguous
  <2>3. /\ log[i].offset \in Nat /\ log[i].len \in Nat /\ o \in Nat
    BY <1>1, <2>2, SMTT(30) DEF Packet
  <2>4. o - log[i].offset \in 0 .. log[i].len - 1
    BY <2>1, <2>3, SMTT(30)
  <2>5. /\ log[i].offset + (o - log[i].offset) = o
        /\ log[i].first + (o - log[i].offset) = o
    BY <2>2, <2>3, SMTT(60)
  <2>6. <<o, o>> \in Bytes(log[i])
    BY <2>4, <2>5, Zenon DEF Bytes
  <2>7. QED
    BY <1>4, <2>6 DEF Stored
<1>6. \E p \in recvd : p.last /\ p.offset = written
  <2>1. /\ log[Len(log)] \in recvd /\ log[Len(log)].last
        /\ log[Len(log)].offset = written
    <3>1. /\ Len(log) \in 1 .. Len(log) /\ log[Len(log)].last /\ log[Len(log)].len = 0
          /\ log[Len(log)].offset \in Nat
      <4>1. Len(log) \in 1 .. Len(log) /\ log[Len(log)].last /\ log[Len(log)].len = 0
        BY <1>1, <1>2 DEF LastSent, LogOK
      <4>2. log[Len(log)] \in Packet
        BY <1>1, <4>1
      <4>3. QED
        BY <4>1, <4>2 DEF Packet
    <3>2. QED
      BY <1>1, <1>3, <1>4, <3>1, SMTT(60) DEF LogOK
  <2>2. QED
    BY <2>1
<1>7. QED
  BY <1>5, <1>6

\* finish returns nil only when the datanode has every byte at its place and
\* the packet that ends the block.
THEOREM FinishSafe == Spec => []FinishedMeansStored
  BY InvariantHolds, FinishedIsStored, PTL

\* makePacket, s.seqno and s.offset: packets are numbered and placed without
\* gap or overlap, and nothing follows the last one.
THEOREM LogContiguous == Spec => []PacketsContiguous
<1>1. IndInv => PacketsContiguous
  BY Zenon DEF IndInv, LogOK
<1>2. QED
  BY <1>1, InvariantHolds, PTL

\* ackPackets: whatever has left the channel with no error is stored.
THEOREM AcksHonest == Spec => []AckedMeansStored
<1>1. IndInv => AckedMeansStored
  BY DEF IndInv, AckedMeansStored, AckedOK, QueueOK
<1>2. QED
  BY <1>1, InvariantHolds, PTL

\* flush never sends on the channel that finish has closed.
THEOREM NoPanic == Spec => []NoSendOnClosedChannel
<1>1. IndInv => NoSendOnClosedChannel
  BY DEF IndInv, FinishOK, NoSendOnClosedChannel
<1>2. QED
  BY <1>1, InvariantHolds, PTL

-----------------------------------------------------------------------------
(* Alignment.                                                              *)

\* The packet that makePacket has just made is as short as those in the log.
AlignOK ==
    /\ PartialChunkAlone
    /\ pc = "enqueue" /\ pkt.offset % ChunkSize > 0 =>
           (pkt.offset % ChunkSize) + pkt.len <= ChunkSize

\* makePacket stops at the next chunk boundary when it starts off one.
LEMMA AlignStep ==
    ASSUME IndInv, TypeOK', AlignOK, [Next]_vars
    PROVE  AlignOK'
<1>a. /\ TypeOK /\ Accounting /\ LogOK /\ QueueOK /\ DatanodeOK
      /\ AckedOK /\ FinishOK /\ LostOK
  BY DEF IndInv
<1> USE <1>a
<1>0. /\ Len(log) \in Nat /\ buf \in Nat /\ offset \in Nat /\ seqno \in Nat
      /\ log \in Seq(Packet)
  BY DEF TypeOK, CallerTypes, HistTypes
<1>1. CASE FlushLoop
  <2>1. log' = log
    BY <1>1 DEF FlushLoop, histVars
  <2>2. CASE MustFlush
    <3>1. offset % ChunkSize \in 0 .. ChunkSize - 1
      BY <1>0
    <3>2. pkt' = MakePacket
      BY <1>1, <2>2 DEF FlushLoop
    <3>3. pkt'.offset = offset /\ pkt'.len = PacketLength
      BY <3>2 DEF MakePacket
    <3>4. offset % ChunkSize > 0 => (offset % ChunkSize) + PacketLength <= ChunkSize
      BY <1>0, <3>1 DEF PacketLength
    <3>5. QED
      BY <2>1, <3>3, <3>4, Zenon DEF AlignOK, PartialChunkAlone
  <2>3. CASE ~MustFlush /\ op = "finish"
    <3>1. offset % ChunkSize \in 0 .. ChunkSize - 1
      BY <1>0
    <3>2. pkt'.offset = offset /\ pkt'.len = 0
      BY <1>1, <2>3, SMTT(60) DEF FlushLoop, LastPacket
    <3>3. QED
      BY <2>1, <3>1, <3>2, SMTT(60) DEF AlignOK, PartialChunkAlone
  <2>4. CASE ~MustFlush /\ op # "finish"
    <3>1. pc' = "idle"
      BY <1>1, <2>4 DEF FlushLoop, Return
    <3>2. QED
      BY <2>1, <3>1 DEF AlignOK, PartialChunkAlone
  <2>5. QED
    BY <2>2, <2>3, <2>4
<1>2. CASE Enqueue
  <2>1. /\ Len(log') = Len(log) + 1 /\ log'[Len(log) + 1] = pkt
        /\ \A i \in 1 .. Len(log) : log'[i] = log[i]
        /\ pc = "enqueue" /\ pc' = "lock"
    BY <1>2, EnqueueEffect, Zenon
  <2>2. ASSUME NEW i \in 1 .. Len(log'), log'[i].offset % ChunkSize > 0
        PROVE  (log'[i].offset % ChunkSize) + log'[i].len <= ChunkSize
    <3>1. CASE i = Len(log) + 1
      BY <2>1, <2>2, <3>1, Zenon DEF AlignOK
    <3>2. CASE i \in 1 .. Len(log)
      BY <2>1, <2>2, <3>2 DEF AlignOK, PartialChunkAlone
    <3>3. QED
      BY <1>0, <2>1, <3>1, <3>2
  <2>3. QED
    BY <2>1, <2>2, Zenon DEF AlignOK, PartialChunkAlone
<1>3. CASE Call
  <2>1. log' = log /\ pc' # "enqueue"
    BY <1>3, CallFrame, Zenon DEF Call, Write, Flush, Finish, Begin, Return
  <2>2. QED
    BY <2>1, SMTT(30) DEF AlignOK, PartialChunkAlone
<1>4. CASE CallerStep /\ ~FlushLoop /\ ~Enqueue
  <2>1. log' = log
    BY <1>4, CallerStepFrame, Zenon
  <2>2. pc' # "enqueue"
    <3>1. CASE AcquireLock \/ CloseChannels
      BY <3>1 DEF AcquireLock, CloseChannels
    <3>2. CASE WritePart
      <4>1. /\ pc \in {"header", "checksums", "data"}
            /\ pc # "data" => pc' = NextPart[pc]
            /\ pc = "data" => Leave("ok") \/ pc' = "flush"
        BY <3>2, Zenon DEF WritePart
      <4>2. Leave("ok") => pc' \in {"close", "idle"}
        BY Zenon DEF Leave, Return
      <4>3. pc # "data" => NextPart[pc] \in {"checksums", "data"}
        BY ONLY <4>1 DEF NextPart
      <4>4. QED
        BY ONLY <4>1, <4>2, <4>3
    <3>3. CASE WritePartFails
      BY <3>3 DEF WritePartFails, Leave, Return
    <3>4. CASE Join
      BY <3>4 DEF Join, Return
    <3>5. QED
      BY <1>4, <3>1, <3>2, <3>3, <3>4 DEF CallerStep
  <2>3. QED
    BY <2>1, <2>2 DEF AlignOK, PartialChunkAlone
<1>5. CASE Environment \/ UNCHANGED vars
  BY <1>5, EnvironmentFrame, Zenon DEF AlignOK, PartialChunkAlone
<1>6. QED
  BY <1>1, <1>2, <1>3, <1>4, <1>5, NextCases

\* "A partial chunk must be sent in an individual packet" (makePacket), for
\* every packet and chunk size and every offset an append may start from.
THEOREM PartialChunks == Spec => []PartialChunkAlone
<1>1. Init => AlignOK
  BY SMTT(60) DEF Init, AlignOK, PartialChunkAlone
<1>2. IndInv /\ IndInv' /\ AlignOK /\ [Next]_vars => AlignOK'
  BY AlignStep DEF IndInv
<1>3. AlignOK => PartialChunkAlone
  BY DEF AlignOK
<1>4. QED
  BY <1>1, <1>2, <1>3, InvariantHolds, PTL DEF Spec

\* makePacket, flush and enqueue together: the packets of a block are
\* contiguous, numbered and aligned to chunks.
THEOREM PacketsSafe == Spec => []PacketsRight
<1>1. PacketsContiguous /\ PartialChunkAlone => PacketsRight
  BY DEF PacketsRight
<1>2. QED
  BY <1>1, LogContiguous, PartialChunks, PTL

-----------------------------------------------------------------------------
(* The stream implements BlockWrite.                                        *)

\* The packets of the log lie between the start of the stream and s.offset.
WithinOK ==
    \A i \in 1 .. Len(log) :
        start <= log[i].offset /\ log[i].offset + log[i].len <= offset

\* Enqueue appends at s.offset and advances it; no other step does either.
LEMMA WithinStep ==
    ASSUME IndInv, WithinOK, [Next]_vars
    PROVE  WithinOK'
<1>a. /\ TypeOK /\ Accounting /\ LogOK /\ QueueOK /\ DatanodeOK
      /\ AckedOK /\ FinishOK /\ LostOK
  BY DEF IndInv
<1> USE <1>a
<1>0. /\ Len(log) \in Nat /\ offset \in Nat /\ start \in Nat /\ log \in Seq(Packet)
      /\ pkt \in Packet
  BY DEF TypeOK, CallerTypes, HistTypes
<1>1. CASE Enqueue
  <2>1. /\ Len(log') = Len(log) + 1 /\ log'[Len(log) + 1] = pkt
        /\ \A i \in 1 .. Len(log) : log'[i] = log[i]
        /\ pc = "enqueue" /\ start' = start
    BY <1>1, EnqueueEffect, Zenon
  <2>2. pkt.len \in Nat /\ pkt.offset = offset /\ start <= offset
    BY <1>0, <2>1, Zenon DEF Accounting, Packet
  <2>3. offset' = offset + pkt.len
    <3>1. IF pkt.last THEN offset' = offset ELSE offset' = offset + pkt.len
      BY <1>1, EnqueueEffect, Zenon
    <3>2. pkt.last => pkt.len = 0
      BY <2>1, Zenon DEF Accounting
    <3>3. QED
      BY <1>0, <2>2, <3>1, <3>2
  <2>4. ASSUME NEW i \in 1 .. Len(log')
        PROVE  start' <= log'[i].offset /\ log'[i].offset + log'[i].len <= offset'
    <3>1. CASE i = Len(log) + 1
      BY <1>0, <2>1, <2>2, <2>3, <3>1, SMTT(60)
    <3>2. CASE i \in 1 .. Len(log)
      <4>1. log[i] \in Packet
        BY <1>0, <3>2
      <4>2. log[i].offset \in Nat /\ log[i].len \in Nat
        BY <4>1 DEF Packet
      <4>3. /\ log'[i] = log[i]
            /\ start <= log[i].offset /\ log[i].offset + log[i].len <= offset
        BY <2>1, <3>2, Zenon DEF WithinOK
      <4>4. log[i].offset + log[i].len <= offset'
        <5>1. \A a, b, m, n \in Nat : a + b <= m => a + b <= m + n
          OBVIOUS
        <5>2. QED
          BY <1>0, <2>2, <2>3, <4>2, <4>3, <5>1, Zenon
      <4>5. QED
        BY <2>1, <4>3, <4>4, Zenon
    <3>3. QED
      BY <1>0, <2>1, <3>1, <3>2, SMTT(60)
  <2>5. QED
    BY <2>4, Zenon DEF WithinOK
<1>2. CASE Call \/ (CallerStep /\ ~Enqueue)
  BY <1>2, CallFrame, CallerFrame, CallerStepFrame, Zenon DEF WithinOK
<1>3. CASE Environment \/ UNCHANGED vars
  BY <1>3, EnvironmentFrame, Zenon DEF WithinOK
<1>4. QED
  BY <1>1, <1>2, <1>3, NextCases

StoredRight == Stored \subseteq BW!Accepted

\* The datanode stores no byte the caller did not write, and none elsewhere.
LEMMA StoredIsAccepted ==
    ASSUME IndInv, WithinOK
    PROVE  StoredRight
<1>a. /\ TypeOK /\ Accounting /\ LogOK /\ QueueOK /\ DatanodeOK
      /\ AckedOK /\ FinishOK /\ LostOK
  BY DEF IndInv
<1> USE <1>a
<1>1. /\ Len(log) \in Nat /\ offset \in Nat /\ start \in Nat /\ log \in Seq(Packet)
      /\ written \in Nat /\ buf \in Nat /\ pkt \in Packet
  BY DEF TypeOK, CallerTypes, HistTypes
<1>2. offset <= written
  <2>1. pkt.len \in Nat
    BY <1>1 DEF Packet
  <2>2. QED
    BY <1>1, <2>1, SMTT(60) DEF Accounting
<1>3. SUFFICES ASSUME NEW p \in recvd, NEW b \in Bytes(p)
               PROVE  b \in BW!Accepted
  BY DEF StoredRight, Stored
<1>4. PICK i \in 1 .. Len(log) : p = log[i]
  BY Zenon DEF DatanodeOK, Logged
<1>5. p.offset \in Nat /\ p.len \in Nat
  <2>1. p \in Packet
    BY <1>1, <1>4
  <2>2. QED
    BY <2>1 DEF Packet
<1>6. start <= p.offset /\ p.offset + p.len <= offset /\ p.first = p.offset
  BY <1>4, Zenon DEF WithinOK, LogOK, PacketsContiguous
<1>7. PICK k \in 0 .. p.len - 1 : b = <<p.offset + k, p.first + k>>
  BY Zenon DEF Bytes
<1>8. p.offset + k \in start .. written - 1
  <2>1. k \in Nat /\ k < p.len
    BY <1>5
  <2>2. QED
    BY <1>1, <1>2, <1>5, <1>6, <2>1, SMTT(60)
<1>9. QED
  BY <1>6, <1>7, <1>8, Zenon DEF BW!Accepted

\* A step that leaves the abstract state alone is a stutter.
LEMMA Stutter ==
    ASSUME UNCHANGED <<start, written, recvd, finished>>
    PROVE  UNCHANGED BW!vars
  BY DEF BW!vars, Stored

\* The beginning of a call: only Write hands over bytes.
LEMMA CallRefines ==
    ASSUME IndInv, Call
    PROVE  [BW!Next]_(BW!vars)
<1>a. /\ TypeOK /\ Accounting /\ LogOK /\ QueueOK /\ DatanodeOK
      /\ AckedOK /\ FinishOK /\ LostOK
  BY DEF IndInv
<1> USE <1>a
<1>0. UNCHANGED <<start, recvd, finished>>
  BY CallFrame, CallerFrame
<1>1. CASE written' = written
  BY <1>0, <1>1, Stutter
<1>2. CASE written' # written
  <2>1. PICK n \in 0 .. MaxBytes : Write(n)
    BY <1>2, Zenon DEF Call, Flush, Finish
  <2>2. ~closed /\ written' = written + n
    BY <1>2, <2>1, Zenon DEF Write
  <2>3. written' > written
    BY <1>2, <2>2 DEF TypeOK, CallerTypes
  <2>4. finished = "none"
    BY <2>2 DEF FinishOK
  <2>5. BW!Accept
    BY <1>0, <2>3, <2>4 DEF BW!Accept, Stored
  <2>6. QED
    BY <2>5 DEF BW!Next
<1>3. QED
  BY <1>1, <1>2

\* finish reports success only when everything is stored.
LEMMA JoinRefines ==
    ASSUME IndInv, StoredRight, FinishedMeansStored', Join
    PROVE  [BW!Next]_(BW!vars)
<1>0. UNCHANGED <<start, recvd, written>> /\ Stored' = Stored
  BY Zenon DEF Join, Stored
<1>1. finished = "none" /\ finished' # "none"
  BY Zenon DEF IndInv, Join, FinishOK, TypeOK, CallerTypes, Errors
<1>2. CASE finished' = "ok"
  <2>1. {<<o, o>> : o \in start' .. written' - 1} \subseteq Stored'
    BY <1>2 DEF FinishedMeansStored
  <2>2. Stored = BW!Accepted
    BY <1>0, <2>1 DEF StoredRight, BW!Accepted
  <2>3. BW!Succeed
    BY <1>0, <1>1, <1>2, <2>2 DEF BW!Succeed
  <2>4. QED
    BY <2>3 DEF BW!Next
<1>3. CASE finished' # "ok"
  <2>1. BW!Fail
    BY <1>0, <1>1, <1>3 DEF BW!Fail
  <2>2. QED
    BY <2>1 DEF BW!Next
<1>4. QED
  BY <1>2, <1>3

\* Every step of the stream is a step of the abstract write, or a stutter.
LEMMA StepRefines ==
    ASSUME IndInv, StoredRight, StoredRight', FinishedMeansStored', [Next]_vars
    PROVE  [BW!Next]_(BW!vars)
<1>1. CASE CallerStep /\ ~Join
  <2>1. UNCHANGED <<written, finished>>
    BY <1>1, Zenon DEF CallerStep, FlushLoop, Enqueue, AcquireLock, WritePart, WritePartFails,
                CloseChannels, histVars
  <2>2. QED
    BY <1>1, <2>1, CallerFrame, Stutter
<1>2. CASE Environment \/ UNCHANGED vars
  <2>1. UNCHANGED <<start, written, finished>>
    BY <1>2, EnvironmentFrame
  <2>2. Stored \subseteq Stored'
    BY RecvdGrows DEF Stored
  <2>3. Stored' \subseteq BW!Accepted'
    BY DEF StoredRight
  <2>4. BW!Accepted' = BW!Accepted
    BY <2>1, Zenon DEF BW!Accepted
  <2>5. BW!Store
    BY <2>1, <2>2, <2>3, <2>4 DEF BW!Store
  <2>6. QED
    BY <2>5 DEF BW!Next
<1>3. QED
  BY <1>1, <1>2, CallRefines, JoinRefines, NextCases

\* Writing a block through packets, acknowledgements and heartbeats does what
\* writing a block promises: nothing is stored that was not written, each byte
\* at its place, and finish returns nil only if everything is.
THEOREM StreamRefines == Spec => Refinement
<1>1. Init => BW!Init /\ WithinOK
  <2> SUFFICES ASSUME Init PROVE BW!Init /\ WithinOK
    BY Zenon
  <2>1. /\ start \in StartOffsets /\ written = start /\ finished = "none"
        /\ recvd = {} /\ log = <<>>
    BY Zenon DEF Init
  <2>2. Stored = {}
    BY <2>1 DEF Stored
  <2>3. BW!Init
    BY <2>1, <2>2, Zenon DEF BW!Init
  <2>4. QED
    BY <2>1, <2>3 DEF WithinOK
<1>2. IndInv /\ WithinOK /\ [Next]_vars => WithinOK'
  BY WithinStep
<1>3. IndInv /\ WithinOK => IndInv /\ StoredRight /\ FinishedMeansStored
  BY StoredIsAccepted, FinishedIsStored
<1>4. Spec => [](IndInv /\ StoredRight /\ FinishedMeansStored)
  BY <1>1, <1>2, <1>3, InvariantHolds, PTL DEF Spec
<1>5. IndInv /\ StoredRight /\ StoredRight' /\ FinishedMeansStored' /\ [Next]_vars
        => [BW!Next]_(BW!vars)
  BY StepRefines
<1>6. QED
  BY <1>1, <1>4, <1>5, PTL DEF Spec, Refinement, BW!Spec

=============================================================================
