---------------------- MODULE BlockWriteStreamChannel -----------------------
(***************************************************************************)
(* The type invariant of BlockWriteStream and its inductive invariant, for *)
(* every packet and chunk size, channel capacity, start offset, number of  *)
(* bytes and set of faults; and the steps' effect on the byte accounting, the*)
(* log of packets and the channel from the caller to the ack loop.         *)
(***************************************************************************)
EXTENDS BlockWriteStream, TLAPS

-----------------------------------------------------------------------------
(* Sequences.                                                              *)

\* A sequence is a function on an initial segment of the positive numbers.
LEMMA SeqParts ==
    ASSUME NEW S, NEW s \in Seq(S)
    PROVE  Len(s) \in Nat /\ DOMAIN s = 1 .. Len(s) /\ s \in [1 .. Len(s) -> S]
  OBVIOUS

\* <<>> is the only sequence without elements.
LEMMA EmptyParts ==
    ASSUME NEW S
    PROVE  /\ <<>> \in Seq(S) /\ Len(<<>>) = 0
           /\ \A s \in Seq(S) : s # <<>> => Len(s) \in Nat \ {0}
  OBVIOUS

\* The elements of a sequence over S are in S.
LEMMA ElementParts ==
    ASSUME NEW S, NEW s \in Seq(S), NEW i \in 1 .. Len(s)
    PROVE  s[i] \in S
  OBVIOUS

\* What append does.
LEMMA AppendParts ==
    ASSUME NEW S, NEW s \in Seq(S), NEW e \in S
    PROVE  /\ Append(s, e) \in Seq(S) /\ Append(s, e) # <<>>
           /\ Len(Append(s, e)) = Len(s) + 1 /\ Append(s, e)[Len(s) + 1] = e
           /\ \A i \in 1 .. Len(s) : Append(s, e)[i] = s[i]
  OBVIOUS

\* What is left when the first element is taken.
LEMMA TailParts ==
    ASSUME NEW S, NEW s \in Seq(S), s # <<>>
    PROVE  /\ Head(s) \in S /\ Tail(s) \in Seq(S) /\ Len(Tail(s)) = Len(s) - 1
           /\ \A i \in 1 .. Len(Tail(s)) : Tail(s)[i] = s[i + 1]
  OBVIOUS

\* What a slice holds.
LEMMA SubSeqParts ==
    ASSUME NEW S, NEW s, NEW m \in Int, NEW n \in Int, \A i \in m .. n : s[i] \in S
    PROVE  /\ SubSeq(s, m, n) \in Seq(S)
           /\ Len(SubSeq(s, m, n)) = IF m <= n THEN n - m + 1 ELSE 0
           /\ \A i \in 1 .. n - m + 1 : SubSeq(s, m, n)[i] = s[m + i - 1]
  OBVIOUS

-----------------------------------------------------------------------------
USE SizesAssumption, BoundsAssumption

\* A packet never takes more bytes than the buffer has.
LEMMA PacketLengthBound ==
    ASSUME buf \in Nat, offset \in Nat
    PROVE  PacketLength \in 0 .. buf
<1>1. offset % ChunkSize \in 0 .. ChunkSize - 1
  OBVIOUS
<1> QED
  BY <1>1 DEF PacketLength

\* The packets, parts and acks that the actions build have their types.
LEMMA PacketTypes ==
    /\ NoPacket \in Packet
    /\ \A p \in Packet : \A k \in {"header", "checksums", "data", "heartbeat", "torn"} :
           [kind |-> k, pkt |-> p] \in Part
    /\ \A n \in Nat \cup {HeartBeatSeqno} : \A b \in BOOLEAN :
           [seqno |-> n, ok |-> b] \in Ack
  BY DEF Packet, NoPacket, Part, Ack

\* The parts of a packet follow one another.
LEMMA NextParts == NextPart["header"] = "checksums" /\ NextPart["checksums"] = "data"
  BY DEF NextPart

\* What is left of the wire after a whole frame.
LEMMA WireTail ==
    ASSUME wire \in Seq(Part), WholeFrame
    PROVE  LET k == FrameLength(wire[1].pkt)
               rest == SubSeq(wire, k + 1, Len(wire))
           IN  /\ k \in {1, 3} /\ k <= Len(wire)
               /\ rest \in Seq(Part)
               /\ Len(rest) = Len(wire) - k
               /\ \A i \in 1 .. Len(rest) : rest[i] = wire[i + k]
<1> DEFINE k == FrameLength(wire[1].pkt)
<1>1. k \in {1, 3} /\ k <= Len(wire)
  BY DEF FrameLength, WholeFrame
<1>2. Len(wire) \in Nat /\ \A i \in k + 1 .. Len(wire) : wire[i] \in Part
  BY <1>1, SeqParts
<1>3. QED
  BY <1>1, <1>2, SubSeqParts

\* newBlockWriteStream leaves every field of the stream with its type.
LEMMA TypeInit == Init => TypeOK
<1> SUFFICES ASSUME Init PROVE TypeOK
  OBVIOUS
<1>1. start \in Nat /\ written \in Nat /\ offset \in Nat /\ buf \in Nat /\ seqno \in Nat
  BY DEF Init
<1>2. packets \in Seq(Packet) /\ Len(packets) <= MaxPacketsInQueue
  BY DEF Init
<1>3. wire \in Seq(Part) /\ acks \in Seq(Ack) /\ log \in Seq(Packet) /\ recvd \subseteq Packet
  BY DEF Init
<1>4. hbCount \in 0 .. MaxHeartbeats
  BY DEF Init
<1>5. faults \subseteq FaultKinds
  BY DEF Init
<1>6. QED
  BY <1>1, <1>2, <1>3, <1>4, <1>5, PacketTypes, Zenon DEF Init, TypeOK, CallerTypes,
     ChannelTypes, LoopTypes, ConnTypes, HistTypes, Pcs, Errors

\* Every step of the goroutines and of the environment keeps the types, and the
\* channel within its capacity.
LEMMA TypeStep == TypeOK /\ [Next]_vars => TypeOK'
<1> SUFFICES ASSUME TypeOK, [Next]_vars PROVE TypeOK'
  OBVIOUS
<1> USE DEF TypeOK
<1>1. CASE \E n \in 0 .. MaxBytes : Write(n)
  <2>1. CallerTypes'
    BY <1>1, PacketTypes DEF CallerTypes, Pcs, Errors, Write, Begin, Return, callerVars,
       ackVars, hbVars, connVars, histVars
  <2>2. ChannelTypes'
    BY <1>1 DEF ChannelTypes, Write, Begin, Return, callerVars, ackVars, hbVars, connVars,
       histVars
  <2>3. LoopTypes'
    BY <1>1 DEF LoopTypes, Write, Begin, Return, callerVars, ackVars, hbVars, connVars, histVars
  <2>4. ConnTypes'
    BY <1>1, PacketTypes DEF ConnTypes, Write, Begin, Return, callerVars, ackVars, hbVars,
       connVars, histVars
  <2>5. HistTypes'
    BY <1>1, Zenon DEF HistTypes, Errors, Write, Begin, Return, callerVars, ackVars, hbVars,
       connVars, histVars
  <2>6. QED
    BY <2>1, <2>2, <2>3, <2>4, <2>5
<1>2. CASE Flush
  <2>1. CallerTypes'
    BY <1>2, PacketTypes DEF CallerTypes, Pcs, Errors, Flush, Begin, Return, callerVars,
       ackVars, hbVars, connVars, histVars
  <2>2. ChannelTypes'
    BY <1>2 DEF ChannelTypes, Flush, Begin, Return, callerVars, ackVars, hbVars, connVars,
       histVars
  <2>3. LoopTypes'
    BY <1>2 DEF LoopTypes, Flush, Begin, Return, callerVars, ackVars, hbVars, connVars, histVars
  <2>4. ConnTypes'
    BY <1>2, PacketTypes DEF ConnTypes, Flush, Begin, Return, callerVars, ackVars, hbVars,
       connVars, histVars
  <2>5. HistTypes'
    BY <1>2, Zenon DEF HistTypes, Errors, Flush, Begin, Return, callerVars, ackVars, hbVars,
       connVars, histVars
  <2>6. QED
    BY <2>1, <2>2, <2>3, <2>4, <2>5
<1>3. CASE Finish
  <2>1. CallerTypes'
    BY <1>3, PacketTypes, Zenon DEF CallerTypes, Pcs, Errors, Finish, Begin, Return,
       callerVars, ackVars, hbVars, connVars, histVars
  <2>2. ChannelTypes'
    BY <1>3 DEF ChannelTypes, Finish, Begin, Return, callerVars, ackVars, hbVars, connVars,
       histVars
  <2>3. LoopTypes'
    BY <1>3 DEF LoopTypes, Finish, Begin, Return, callerVars, ackVars, hbVars, connVars,
       histVars
  <2>4. ConnTypes'
    BY <1>3, PacketTypes DEF ConnTypes, Finish, Begin, Return, callerVars, ackVars, hbVars,
       connVars, histVars
  <2>5. HistTypes'
    BY <1>3, Zenon DEF HistTypes, Errors, Finish, Begin, Return, callerVars, ackVars, hbVars,
       connVars, histVars
  <2>6. QED
    BY <2>1, <2>2, <2>3, <2>4, <2>5
<1>4. CASE SetDeadline
  <2>1. CallerTypes'
    BY <1>4, PacketTypes DEF CallerTypes, Pcs, Errors, SetDeadline, callerVars, ackVars,
       hbVars, connVars, histVars
  <2>2. ChannelTypes'
    BY <1>4 DEF ChannelTypes, SetDeadline, callerVars, ackVars, hbVars, connVars, histVars
  <2>3. LoopTypes'
    BY <1>4 DEF LoopTypes, SetDeadline, callerVars, ackVars, hbVars, connVars, histVars
  <2>4. ConnTypes'
    BY <1>4, PacketTypes, Zenon DEF ConnTypes, SetDeadline, callerVars, ackVars, hbVars,
       connVars, histVars
  <2>5. HistTypes'
    BY <1>4 DEF HistTypes, Errors, SetDeadline, callerVars, ackVars, hbVars, connVars, histVars
  <2>6. QED
    BY <2>1, <2>2, <2>3, <2>4, <2>5
<1>5. CASE FlushLoop
  <2>1. CallerTypes'
    <3>1. PacketLength \in 0 .. buf
      BY PacketLengthBound DEF CallerTypes
    <3>2. MakePacket \in Packet /\ LastPacket \in Packet
      BY <3>1 DEF CallerTypes, MakePacket, LastPacket, Packet
    <3>3. buf' \in Nat /\ pkt' \in Packet
      BY <1>5, <3>1, <3>2 DEF CallerTypes, FlushLoop
    <3>4. QED
      BY <1>5, <3>3 DEF CallerTypes, FlushLoop, Return, Pcs
  <2>2. ChannelTypes'
    BY <1>5 DEF ChannelTypes, FlushLoop, Return, MakePacket, LastPacket, Packet, callerVars,
       ackVars, hbVars, connVars, histVars
  <2>3. LoopTypes'
    BY <1>5 DEF LoopTypes, FlushLoop, Return, MakePacket, LastPacket, Packet, callerVars,
       ackVars, hbVars, connVars, histVars
  <2>4. ConnTypes'
    BY <1>5, PacketTypes DEF ConnTypes, FlushLoop, Return, MakePacket, LastPacket, Packet,
       callerVars, ackVars, hbVars, connVars, histVars
  <2>5. HistTypes'
    BY <1>5 DEF HistTypes, Errors, FlushLoop, Return, MakePacket, LastPacket, Packet,
       callerVars, ackVars, hbVars, connVars, histVars
  <2>6. QED
    BY <2>1, <2>2, <2>3, <2>4, <2>5
<1>6. CASE Enqueue
  <2>1. CallerTypes'
    <3>1. pkt.len \in Nat
      BY DEF CallerTypes, Packet
    <3>2. offset' \in Nat /\ seqno' \in Nat
      BY <1>6, <3>1 DEF CallerTypes, Enqueue
    <3>3. QED
      BY <1>6, <3>2 DEF CallerTypes, Enqueue, Pcs
  <2>2. ChannelTypes'
    BY <1>6, SMTT(30) DEF CallerTypes, ChannelTypes, Enqueue, callerVars, ackVars, hbVars,
       connVars, histVars
  <2>3. LoopTypes'
    BY <1>6 DEF CallerTypes, LoopTypes, Enqueue, callerVars, ackVars, hbVars, connVars, histVars
  <2>4. ConnTypes'
    BY <1>6, PacketTypes DEF CallerTypes, ConnTypes, Enqueue, callerVars, ackVars, hbVars,
       connVars, histVars
  <2>5. HistTypes'
    BY <1>6, SMTT(30) DEF CallerTypes, HistTypes, Errors, Enqueue, callerVars, ackVars,
       hbVars, connVars, histVars
  <2>6. QED
    BY <2>1, <2>2, <2>3, <2>4, <2>5
<1>7. CASE AcquireLock
  BY <1>7, PacketTypes DEF CallerTypes, ChannelTypes, LoopTypes, ConnTypes, HistTypes, Pcs,
     Errors, AcquireLock, callerVars, ackVars, hbVars, connVars, histVars
<1>8. CASE WritePart
  <2>1. CallerTypes'
    BY <1>8, PacketTypes DEF CallerTypes, Pcs, Errors, WritePart, Leave, Return, NextPart,
       callerVars, ackVars, hbVars, connVars, histVars
  <2>2. ChannelTypes'
    BY <1>8 DEF CallerTypes, ChannelTypes, WritePart, Leave, Return, NextPart, callerVars,
       ackVars, hbVars, connVars, histVars
  <2>3. LoopTypes'
    BY <1>8 DEF CallerTypes, LoopTypes, WritePart, Leave, Return, NextPart, callerVars,
       ackVars, hbVars, connVars, histVars
  <2>4. ConnTypes'
    <3>1. [kind |-> pc, pkt |-> pkt] \in Part
      BY <1>8, PacketTypes, Zenon DEF CallerTypes, WritePart
    <3>2. wire' = wire \/ wire' = Append(wire, [kind |-> pc, pkt |-> pkt])
      BY <1>8 DEF WritePart
    <3>3. QED
      BY <1>8, <3>1, <3>2 DEF ConnTypes, WritePart
  <2>5. HistTypes'
    BY <1>8 DEF CallerTypes, HistTypes, Errors, WritePart, Leave, Return, NextPart,
       callerVars, ackVars, hbVars, connVars, histVars
  <2>6. QED
    BY <2>1, <2>2, <2>3, <2>4, <2>5
<1>9. CASE WritePartFails
  <2>1. CallerTypes'
    BY <1>9, PacketTypes DEF CallerTypes, Pcs, Errors, WritePartFails, TornWrite, Leave,
       Return, callerVars, ackVars, hbVars, connVars, histVars
  <2>2. ChannelTypes'
    BY <1>9 DEF CallerTypes, ChannelTypes, WritePartFails, TornWrite, Leave, Return,
       callerVars, ackVars, hbVars, connVars, histVars
  <2>3. LoopTypes'
    BY <1>9 DEF CallerTypes, LoopTypes, WritePartFails, TornWrite, Leave, Return, callerVars,
       ackVars, hbVars, connVars, histVars
  <2>4. ConnTypes'
    <3>1. [kind |-> "torn", pkt |-> pkt] \in Part
      BY PacketTypes, Zenon DEF CallerTypes
    <3>2. wire' = wire \/ wire' = Append(wire, [kind |-> "torn", pkt |-> pkt])
      BY <1>9 DEF WritePartFails, TornWrite
    <3>3. QED
      BY <1>9, <3>1, <3>2, SMTT(30) DEF ConnTypes, WritePartFails
  <2>5. HistTypes'
    BY <1>9 DEF CallerTypes, HistTypes, Errors, WritePartFails, TornWrite, Leave, Return,
       callerVars, ackVars, hbVars, connVars, histVars
  <2>6. QED
    BY <2>1, <2>2, <2>3, <2>4, <2>5
<1>10. CASE CloseChannels
  BY <1>10, PacketTypes DEF CallerTypes, ChannelTypes, LoopTypes, ConnTypes, HistTypes, Pcs,
     Errors, CloseChannels, callerVars, ackVars, hbVars, connVars, histVars
<1>11. CASE Join
  BY <1>11, PacketTypes DEF CallerTypes, ChannelTypes, LoopTypes, ConnTypes, HistTypes, Pcs,
     Errors, Join, Return, callerVars, ackVars, hbVars, connVars, histVars
<1>12. CASE AckReceive
  <2>1. CallerTypes'
    BY <1>12, PacketTypes DEF CallerTypes, Pcs, Errors, AckReceive, callerVars, ackVars,
       hbVars, connVars, histVars
  <2>2. ChannelTypes'
    BY <1>12 DEF ChannelTypes, AckReceive, callerVars, ackVars, hbVars, connVars, histVars
  <2>3. LoopTypes'
    BY <1>12 DEF ChannelTypes, LoopTypes, AckReceive, callerVars, ackVars, hbVars, connVars,
       histVars
  <2>4. ConnTypes'
    BY <1>12, PacketTypes DEF ConnTypes, AckReceive, callerVars, ackVars, hbVars, connVars,
       histVars
  <2>5. HistTypes'
    BY <1>12 DEF HistTypes, Errors, AckReceive, callerVars, ackVars, hbVars, connVars, histVars
  <2>6. QED
    BY <2>1, <2>2, <2>3, <2>4, <2>5
<1>13. CASE AckRead
  BY <1>13, PacketTypes DEF CallerTypes, ChannelTypes, LoopTypes, ConnTypes, HistTypes, Pcs,
     Errors, AckRead, HandleAck, callerVars, ackVars, hbVars, connVars, histVars
<1>14. CASE AckReadFails
  BY <1>14, PacketTypes DEF CallerTypes, ChannelTypes, LoopTypes, ConnTypes, HistTypes, Pcs,
     Errors, AckReadFails, callerVars, ackVars, hbVars, connVars, histVars
<1>15. CASE AckDrain
  <2>1. CallerTypes'
    BY <1>15, PacketTypes DEF CallerTypes, Pcs, Errors, AckDrain, callerVars, ackVars, hbVars,
       connVars, histVars
  <2>2. ChannelTypes'
    BY <1>15 DEF ChannelTypes, AckDrain, callerVars, ackVars, hbVars, connVars, histVars
  <2>3. LoopTypes'
    BY <1>15 DEF LoopTypes, AckDrain, callerVars, ackVars, hbVars, connVars, histVars
  <2>4. ConnTypes'
    BY <1>15, PacketTypes DEF ConnTypes, AckDrain, callerVars, ackVars, hbVars, connVars,
       histVars
  <2>5. HistTypes'
    BY <1>15 DEF HistTypes, Errors, AckDrain, callerVars, ackVars, hbVars, connVars, histVars
  <2>6. QED
    BY <2>1, <2>2, <2>3, <2>4, <2>5
<1>16. CASE HeartbeatTick
  BY <1>16, PacketTypes DEF CallerTypes, ChannelTypes, LoopTypes, ConnTypes, HistTypes, Pcs,
     Errors, HeartbeatTick, callerVars, ackVars, hbVars, connVars, histVars
<1>17. CASE HeartbeatLock
  BY <1>17, PacketTypes DEF CallerTypes, ChannelTypes, LoopTypes, ConnTypes, HistTypes, Pcs,
     Errors, HeartbeatLock, callerVars, ackVars, hbVars, connVars, histVars
<1>18. CASE HeartbeatWrite
  <2>1. CallerTypes'
    BY <1>18, PacketTypes DEF CallerTypes, Pcs, Errors, HeartbeatWrite, TornWrite, callerVars,
       ackVars, hbVars, connVars, histVars
  <2>2. ChannelTypes'
    BY <1>18 DEF ChannelTypes, HeartbeatWrite, TornWrite, callerVars, ackVars, hbVars,
       connVars, histVars
  <2>3. LoopTypes'
    BY <1>18 DEF LoopTypes, HeartbeatWrite, TornWrite, callerVars, ackVars, hbVars, connVars,
       histVars
  <2>4. ConnTypes'
    <3>1. \/ wire' = wire
          \/ \E x \in Part : wire' = Append(wire, x)
      BY <1>18, PacketTypes, Zenon DEF HeartbeatWrite, TornWrite
    <3>2. wire' \in Seq(Part)
      BY <3>1 DEF ConnTypes
    <3>3. QED
      BY <1>18, <3>2 DEF ConnTypes, HeartbeatWrite
  <2>5. HistTypes'
    BY <1>18 DEF HistTypes, Errors, HeartbeatWrite, TornWrite, callerVars, ackVars, hbVars,
       connVars, histVars
  <2>6. QED
    BY <2>1, <2>2, <2>3, <2>4, <2>5
<1>19. CASE HeartbeatStop
  BY <1>19, PacketTypes, SMTT(60) DEF CallerTypes, ChannelTypes, LoopTypes, ConnTypes,
     HistTypes, Pcs, Errors, HeartbeatStop, callerVars, ackVars, hbVars, connVars, histVars
<1>20. CASE DatanodePacket
  <2>1. CallerTypes' /\ ChannelTypes' /\ LoopTypes'
    BY <1>20 DEF CallerTypes, ChannelTypes, LoopTypes, DatanodePacket, callerVars, ackVars,
       hbVars, connVars, histVars
  <2>2. wire[1].pkt \in Packet /\ wire[1].pkt.seqno \in Nat
    <3>0. wire \in Seq(Part) /\ wire # <<>>
      BY <1>20, Zenon DEF DatanodePacket, WholeFrame, ConnTypes
    <3>1. wire[1] \in Part
      BY <3>0
    <3>2. QED
      BY <3>1, SMTT(30) DEF Part, Packet
  <2>3. wire' \in Seq(Part)
    BY <1>20, WireTail, Zenon DEF DatanodePacket, WholeFrame, ConnTypes
  <2>4. acks' \in Seq(Ack)
    <3>1. \E n \in Nat, b \in BOOLEAN : acks' = Append(acks, [seqno |-> n, ok |-> b])
      BY <1>20, <2>2, Zenon DEF DatanodePacket, SendAck, HistTypes, Packet
    <3>2. QED
      BY <3>1, PacketTypes DEF ConnTypes
  <2>5. faults' \subseteq FaultKinds
    <3>1. faults' = faults \/ \E f \in Faults : faults' = faults \cup {f}
      BY <1>20, Zenon DEF DatanodePacket, SendAck, Inject
    <3>2. QED
      BY <3>1 DEF HistTypes
  <2>6. ConnTypes'
    BY <1>20, <2>3, <2>4 DEF ConnTypes, DatanodePacket
  <2>7. HistTypes'
    BY <1>20, <2>2, <2>5 DEF HistTypes, DatanodePacket
  <2>8. QED
    BY <2>1, <2>6, <2>7
<1>21. CASE DatanodeHeartbeat
  <2>1. CallerTypes' /\ ChannelTypes' /\ LoopTypes'
    BY <1>21, SMTT(30) DEF CallerTypes, ChannelTypes, LoopTypes, DatanodeHeartbeat,
       callerVars, ackVars, hbVars, connVars, histVars
  <2>2. acks' \in Seq(Ack)
    <3>1. \E a \in Ack : acks' = Append(acks, a)
      BY <1>21, PacketTypes, Zenon DEF DatanodeHeartbeat, SendAck
    <3>2. QED
      BY <3>1 DEF ConnTypes
  <2>3. faults' \subseteq FaultKinds
    BY <1>21, Zenon DEF DatanodeHeartbeat, SendAck, Inject, HistTypes
  <2>4. ConnTypes' /\ HistTypes'
    BY <1>21, <2>2, <2>3, SMTT(60) DEF ConnTypes, HistTypes, DatanodeHeartbeat
  <2>5. QED
    BY <2>1, <2>4
<1>22. CASE DatanodeRejects
  BY <1>22, PacketTypes, SMTT(60) DEF CallerTypes, ChannelTypes, LoopTypes, ConnTypes,
     HistTypes, Pcs, Errors, DatanodeRejects, callerVars, ackVars, hbVars, connVars, histVars
<1>23. CASE ConnectionBreaks
  BY <1>23, PacketTypes, SMTT(60) DEF CallerTypes, ChannelTypes, LoopTypes, ConnTypes,
     HistTypes, Pcs, Errors, ConnectionBreaks, Inject, callerVars, ackVars, hbVars, connVars,
     histVars
<1>24. CASE DeadlinePasses
  BY <1>24, PacketTypes, SMTT(60) DEF CallerTypes, ChannelTypes, LoopTypes, ConnTypes,
     HistTypes, Pcs, Errors, DeadlinePasses, Inject, callerVars, ackVars, hbVars, connVars,
     histVars
<1>25. CASE UNCHANGED vars
  <2>1. CallerTypes' /\ ChannelTypes'
    BY <1>25 DEF CallerTypes, ChannelTypes, vars, callerVars
  <2>2. LoopTypes' /\ ConnTypes'
    BY <1>25 DEF LoopTypes, ConnTypes, vars, ackVars, hbVars, connVars
  <2>3. HistTypes'
    BY <1>25 DEF HistTypes, vars, histVars
  <2>4. QED
    BY <2>1, <2>2, <2>3
<1>26. QED
  BY <1>1, <1>2, <1>3, <1>4, <1>5, <1>6, <1>7, <1>8, <1>9, <1>10, <1>11, <1>12, <1>13, <1>14,
     <1>15, <1>16, <1>17, <1>18, <1>19, <1>20, <1>21, <1>22, <1>23, <1>24, <1>25 DEF Next,
     CallerStep, AckStep, HeartbeatStep, DatanodeStep

\* The type invariant of the stream.
THEOREM TypeCorrect == Spec => []TypeOK
  BY TypeInit, TypeStep, PTL DEF Spec

-----------------------------------------------------------------------------
(* The inductive invariant.                                                *)

Logged == {log[i] : i \in 1 .. Len(log)}

LastSent == Len(log) > 0 /\ log[Len(log)].last

Writing == pc \in {"lock", "header", "checksums", "data"}

\* Bytes are in the buffer, in the packet about to be enqueued, or in the log.
Accounting ==
    /\ written = offset + buf + (IF pc = "enqueue" THEN pkt.len ELSE 0)
    /\ start <= offset
    /\ seqno = Len(log) + (IF LastSent THEN 0 ELSE 1)
    /\ pc = "enqueue" =>
           /\ pkt.seqno = seqno /\ pkt.offset = offset /\ pkt.first = offset
           /\ pkt.last => pkt.len = 0 /\ buf = 0 /\ op = "finish"
           /\ ~LastSent
    /\ Writing => Len(log) > 0 /\ pkt = log[Len(log)]
    /\ LastSent => buf = 0 /\ closed

\* The log is a gapless sequence of packets that ends at s.offset.
LogOK ==
    /\ PacketsContiguous
    /\ offset = IF Len(log) = 0 THEN start ELSE log[Len(log)].offset + log[Len(log)].len
    /\ \A o \in start .. offset - 1 :
           \E i \in 1 .. Len(log) : log[i].offset <= o /\ o < log[i].offset + log[i].len
    /\ LastSent => log[Len(log)].len = 0

\* The channel holds the tail of the log, and the ack loop what came before it.
QueueOK ==
    /\ Len(packets) <= Len(log)
    /\ \A i \in 1 .. Len(packets) : packets[i] = log[Len(log) - Len(packets) + i]
    /\ ackPc = "read" => Len(packets) < Len(log) /\ cur = log[Len(log) - Len(packets)]
    /\ ackPc = "done" => packets = <<>> /\ chClosed
    /\ ackPc \in {"recv", "read"} => ackError = "none"
    /\ ackPc = "drain" => ackError # "none"

\* The datanode has only packets of the log, and acknowledges only those it has.
DatanodeOK ==
    /\ recvd \subseteq Logged
    /\ \A i \in 1 .. Len(wire) :
           wire[i].kind \in {"header", "checksums", "data"} => wire[i].pkt \in Logged
    /\ \A i \in 1 .. Len(acks) :
           acks[i].ok /\ acks[i].seqno # HeartBeatSeqno =>
               \E p \in recvd : p.seqno = acks[i].seqno

\* Everything the ack loop has let pass is stored.
AckedOK ==
    ackError = "none" =>
        \A i \in 1 .. Len(log) - Unacknowledged : log[i] \in recvd

\* Where finish stands.
FinishOK ==
    /\ op = "none" <=> pc = "idle"
    /\ pc \in {"close", "join"} => op = "finish"
    /\ op = "finish" => closed /\ finished = "none"
    /\ closed /\ op # "finish" => finished # "none" /\ op # "write"
    /\ chClosed <=> (pc = "join" \/ finished # "none")
    /\ pc = "flush" /\ op = "finish" => ~LastSent
    /\ pc \in {"close", "join"} /\ err = "ok" => LastSent
    /\ finished # "none" => closed /\ ackPc = "done" /\ ~Writing /\ pc # "enqueue"
    /\ finished = "ok" => LastSent /\ ackError = "none"
    /\ pc # "panic"

\* p has not been written whole and never will be received.
Unsent(p) ==
    /\ p \notin recvd
    /\ \A i \in 1 .. Len(wire) : wire[i] # [kind |-> "data", pkt |-> p]

\* finish leaves bytes in the buffer only if a packet was lost, and then the
\* ack loop must have seen an error.
LostOK ==
    /\ Writing /\ ~pkt.last => Unsent(pkt)
    /\ closed /\ buf > 0 /\ (op = "finish" => pc \in {"close", "join"}) =>
           Len(log) > 0 /\ Unsent(log[Len(log)])
    /\ pc = "flush" /\ chClosed => buf = 0

IndInv ==
    /\ TypeOK /\ Accounting /\ LogOK /\ QueueOK /\ DatanodeOK /\ AckedOK /\ FinishOK
    /\ LostOK

-----------------------------------------------------------------------------
(* What the steps leave alone.                                             *)

Call == (\E n \in 0 .. MaxBytes : Write(n)) \/ Flush \/ Finish

Environment == AckStep \/ HeartbeatStep \/ DatanodeStep \/ SetDeadline
                   \/ ConnectionBreaks \/ DeadlinePasses

\* A step is the start of a call, a step of the caller inside a call, or a step
\* of the other goroutines and of the environment.
LEMMA NextCases == [Next]_vars => Call \/ CallerStep \/ Environment \/ UNCHANGED vars
  BY DEF Next, Call, Environment

\* Only the caller's goroutine changes the caller's state, the log and the
\* result of finish.
LEMMA EnvironmentFrame ==
    ASSUME Environment \/ UNCHANGED vars
    PROVE  /\ UNCHANGED <<pc, op, result, err, buf, written, offset, seqno, closed, pkt>>
           /\ UNCHANGED <<chClosed, start, log, finished, lateCall>>
<1>1. CASE AckStep
  BY <1>1, Zenon DEF AckStep, AckReceive, AckRead, AckReadFails, AckDrain, callerVars, histVars
<1>2. CASE HeartbeatStep
  BY <1>2, Zenon DEF HeartbeatStep, HeartbeatTick, HeartbeatLock, HeartbeatWrite, HeartbeatStop,
              callerVars, histVars
<1>3. CASE DatanodeStep
  BY <1>3, Zenon DEF DatanodeStep, DatanodePacket, DatanodeHeartbeat, DatanodeRejects,
              callerVars, histVars
<1>4. CASE SetDeadline \/ ConnectionBreaks \/ DeadlinePasses
  BY <1>4, Zenon DEF SetDeadline, ConnectionBreaks, DeadlinePasses, callerVars, histVars
<1>5. CASE UNCHANGED vars
  BY <1>5 DEF vars, callerVars, histVars
<1>6. QED
  BY <1>1, <1>2, <1>3, <1>4, <1>5 DEF Environment

\* The caller's goroutine leaves the ack loop and the datanode alone.
LEMMA CallerFrame ==
    ASSUME Call \/ CallerStep
    PROVE  UNCHANGED <<ackPc, cur, ackError, acks, recvd, start>>
<1>1. CASE Call
  BY <1>1, Zenon DEF Call, Write, Flush, Finish, ackVars, connVars, histVars
<1>2. CASE CallerStep
  BY <1>2, Zenon DEF CallerStep, FlushLoop, Enqueue, AcquireLock, WritePart, WritePartFails,
              CloseChannels, Join, ackVars, connVars, histVars
<1>3. QED
  BY <1>1, <1>2

\* Beginning a call hands nothing to the channel or to the connection.
LEMMA CallFrame ==
    ASSUME Call
    PROVE  UNCHANGED <<offset, seqno, pkt, packets, chClosed, log, finished, wire>>
  BY Zenon DEF Call, Write, Flush, Finish, connVars

\* Of the caller's steps only Enqueue touches the log and the channel.
LEMMA CallerStepFrame ==
    ASSUME CallerStep, ~Enqueue
    PROVE  UNCHANGED <<offset, seqno, packets, log, written, closed>>
  BY Zenon DEF CallerStep, FlushLoop, AcquireLock, WritePart, WritePartFails,
         CloseChannels, Join, histVars

\* What Enqueue does when the channel is open.
LEMMA EnqueueEffect ==
    ASSUME TypeOK, FinishOK, Enqueue
    PROVE  /\ ~chClosed /\ ~chClosed' /\ pc = "enqueue" /\ pc' = "lock"
           /\ packets' = Append(packets, pkt)
           /\ Len(packets') = Len(packets) + 1
           /\ \A i \in 1 .. Len(packets) : packets'[i] = packets[i]
           /\ packets'[Len(packets) + 1] = pkt
           /\ Len(log') = Len(log) + 1
           /\ \A i \in 1 .. Len(log) : log'[i] = log[i]
           /\ log'[Len(log) + 1] = pkt
           /\ IF pkt.last THEN offset' = offset /\ seqno' = seqno
                          ELSE offset' = offset + pkt.len /\ seqno' = seqno + 1
           /\ UNCHANGED <<op, buf, written, closed, pkt, start, wire, finished, err>>
<1>1. ~chClosed /\ pc = "enqueue"
  BY DEF Enqueue, FinishOK
<1>2. /\ packets' = Append(packets, pkt) /\ log' = Append(log, pkt) /\ pc' = "lock"
      /\ IF pkt.last THEN offset' = offset /\ seqno' = seqno
                     ELSE offset' = offset + pkt.len /\ seqno' = seqno + 1
      /\ UNCHANGED <<op, buf, written, closed, pkt, start, wire, finished, err, chClosed>>
  BY <1>1 DEF Enqueue, connVars
<1>3. packets \in Seq(Packet) /\ log \in Seq(Packet) /\ pkt \in Packet
  BY DEF TypeOK, CallerTypes, ChannelTypes, HistTypes
<1>4. /\ Len(packets') = Len(packets) + 1 /\ packets'[Len(packets) + 1] = pkt
      /\ \A i \in 1 .. Len(packets) : packets'[i] = packets[i]
  BY <1>2, <1>3, AppendParts, SMTT(60)
<1>5. /\ Len(log') = Len(log) + 1 /\ log'[Len(log) + 1] = pkt
      /\ \A i \in 1 .. Len(log) : log'[i] = log[i]
  BY <1>2, <1>3, AppendParts
<1>6. QED
  BY <1>1, <1>2, <1>4, <1>5, Zenon

\* makePacket moves bytes from the buffer to the packet, and Enqueue from the
\* packet to the log: s.offset and s.seqno account for every byte written.
LEMMA AccountingStep ==
    ASSUME IndInv, TypeOK', [Next]_vars
    PROVE  Accounting'
<1>a. /\ TypeOK /\ Accounting /\ LogOK /\ QueueOK /\ DatanodeOK
      /\ AckedOK /\ FinishOK /\ LostOK
  BY DEF IndInv
<1> USE <1>a
<1>1. CASE Environment \/ UNCHANGED vars
  BY <1>1, EnvironmentFrame, Zenon DEF Accounting, LastSent, Writing
<1>2. CASE Call
  <2>1. CASE \E n \in 0 .. MaxBytes : Write(n)
    <3>1. PICK n \in 0 .. MaxBytes : Write(n)
      BY <2>1, Zenon
    <3>2. /\ pc = "idle" /\ pc' \in {"idle", "flush"}
          /\ UNCHANGED <<offset, seqno, closed, pkt, start, log>>
          /\ \/ buf' = buf /\ written' = written
             \/ ~closed /\ buf' = buf + n /\ written' = written + n
      BY <3>1, Zenon DEF Write, Begin, Return
    <3>3. written = offset + buf /\ written \in Nat /\ offset \in Nat /\ buf \in Nat
      BY <3>2 DEF Accounting, TypeOK, CallerTypes
    <3>4. written' = offset' + buf' + (IF pc' = "enqueue" THEN pkt'.len ELSE 0)
      BY ONLY <3>2, <3>3, n \in 0 .. MaxBytes, MaxBytes \in Nat
    <3>5. (LastSent' <=> LastSent) /\ (LastSent => buf' = buf)
      BY <3>2, Zenon DEF Accounting, LastSent
    <3>6. QED
      BY <3>2, <3>4, <3>5, Zenon DEF Accounting, Writing
  <2>2. CASE Flush
    BY <2>2, Zenon DEF Flush, Begin, Return, Accounting, LastSent, Writing
  <2>3. CASE Finish
    BY <2>3, Zenon DEF Finish, Begin, Return, Accounting, LastSent, Writing
  <2>4. QED
    BY <1>2, <2>1, <2>2, <2>3 DEF Call
<1>3. CASE CallerStep /\ ~Enqueue
  <2>1. CASE FlushLoop
    <3>1. PacketLength \in 0 .. buf
      BY PacketLengthBound DEF TypeOK, CallerTypes
    <3>2. CASE MustFlush
      <4>1. /\ pkt' = MakePacket /\ buf' = buf - PacketLength /\ pc' = "enqueue"
            /\ UNCHANGED <<op, start>>
        BY <2>1, <3>2 DEF FlushLoop, histVars
      <4>2. pkt'.len = PacketLength /\ pkt'.first = written - buf /\ pkt'.offset = offset
            /\ pkt'.seqno = seqno /\ pkt'.last = FALSE
        BY <4>1 DEF MakePacket
      <4>3. ~LastSent
        BY <3>2, SMTT(60) DEF MustFlush, Accounting, TypeOK, CallerTypes
      <4>4. pc = "flush"
        BY <2>1 DEF FlushLoop
      <4>5. UNCHANGED <<offset, seqno, log, written, closed>> /\ ~LastSent'
        BY <1>3, <4>3, CallerStepFrame DEF LastSent
      <4>6. written = offset + buf /\ start <= offset /\ seqno = Len(log) + 1
        <5>1. offset \in Nat /\ buf \in Nat
          BY DEF TypeOK, CallerTypes
        <5>2. QED
          BY <4>3, <4>4, <5>1 DEF Accounting
      <4>7. /\ offset \in Nat /\ buf \in Nat /\ PacketLength \in Nat
            /\ written - buf = offset /\ written = offset + (buf - PacketLength) + PacketLength
        BY <3>1, <4>6, SMTT(60) DEF TypeOK, CallerTypes
      <4>8. QED
        BY <4>1, <4>2, <4>5, <4>6, <4>7, Zenon DEF Accounting, Writing
    <3>3. CASE ~MustFlush /\ op = "finish"
      <4>1. /\ pkt' = LastPacket /\ buf' = buf /\ pc' = "enqueue" /\ pc = "flush"
            /\ UNCHANGED <<op, start>>
        BY <2>1, <3>3 DEF FlushLoop, histVars
      <4>2. pkt'.len = 0 /\ pkt'.first = written /\ pkt'.offset = offset
            /\ pkt'.seqno = seqno /\ pkt'.last = TRUE
        BY <4>1 DEF LastPacket
      <4>3. buf = 0
        BY <3>3 DEF MustFlush, TypeOK, CallerTypes
      <4>4. ~LastSent
        BY <3>3, <4>1 DEF FinishOK
      <4>5. written = offset /\ start <= offset /\ seqno = Len(log) + 1
        BY <4>1, <4>3, <4>4, SMTT(60) DEF Accounting, TypeOK, CallerTypes
      <4>6. UNCHANGED <<offset, seqno, log, written, closed>> /\ ~LastSent'
        BY <1>3, <4>4, CallerStepFrame DEF LastSent
      <4>7. QED
        BY <3>3, <4>1, <4>2, <4>3, <4>5, <4>6, Zenon DEF Accounting, Writing, TypeOK, CallerTypes
    <3>4. CASE ~MustFlush /\ op # "finish"
      BY <1>3, <2>1, <3>4, CallerStepFrame, Zenon
         DEF FlushLoop, Return, Accounting, LastSent, Writing, histVars
    <3>5. QED
      BY <3>2, <3>3, <3>4
  <2>2. CASE AcquireLock
    BY <1>3, <2>2, CallerStepFrame, Zenon DEF AcquireLock, Accounting, LastSent, Writing, histVars
  <2>3. CASE WritePart
    <3>1. pc \in {"header", "checksums", "data"} /\ UNCHANGED <<buf, pkt, start>>
      BY <2>3 DEF WritePart, histVars
    <3>2. pc' # "enqueue"
      BY <2>3, NextParts, Zenon DEF WritePart, Leave, Return
    <3>3. UNCHANGED <<offset, seqno, log, written, closed>> /\ (LastSent' <=> LastSent)
      BY <1>3, <2>3, CallerStepFrame, Zenon DEF LastSent, WritePart, Enqueue
    <3>4. QED
      BY <3>1, <3>2, <3>3, Zenon DEF Accounting, Writing
  <2>4. CASE WritePartFails
    BY <1>3, <2>4, CallerStepFrame, Zenon
       DEF WritePartFails, Leave, Return, Accounting, LastSent, Writing, histVars
  <2>5. CASE CloseChannels \/ Join
    BY <1>3, <2>5, CallerStepFrame, Zenon
       DEF CloseChannels, Join, Return, Accounting, LastSent, Writing, histVars
  <2>6. QED
    BY <1>3, <2>1, <2>2, <2>3, <2>4, <2>5 DEF CallerStep
<1>4. CASE Enqueue
  <2>1. pkt.len \in Nat /\ pkt.last \in BOOLEAN /\ Len(log) \in Nat
    BY DEF TypeOK, CallerTypes, HistTypes, Packet
  <2>2. LastSent' <=> pkt.last
    BY <1>4, <2>1, EnqueueEffect, SMTT(60) DEF LastSent
  <2>3. /\ pc = "enqueue" /\ pc' = "lock" /\ Len(log') = Len(log) + 1
        /\ log'[Len(log) + 1] = pkt
        /\ IF pkt.last THEN offset' = offset /\ seqno' = seqno
                       ELSE offset' = offset + pkt.len /\ seqno' = seqno + 1
        /\ UNCHANGED <<op, buf, written, closed, pkt, start>>
    BY <1>4, EnqueueEffect, Zenon
  <2>4. /\ written = offset + buf + pkt.len /\ start <= offset /\ seqno = Len(log) + 1
        /\ pkt.last => pkt.len = 0 /\ buf = 0 /\ op = "finish"
    BY <2>3, Zenon DEF Accounting
  <2>5. pkt.last => closed
    BY <2>4 DEF FinishOK
  <2>6. /\ written' = offset' + buf' /\ start' <= offset'
        /\ seqno' = Len(log') + (IF LastSent' THEN 0 ELSE 1)
    <3>1. offset \in Nat /\ buf \in Nat /\ seqno \in Nat /\ start \in Nat
      BY DEF TypeOK, CallerTypes, HistTypes
    <3>2. CASE pkt.last
      BY <2>1, <2>2, <2>3, <2>4, <3>1, <3>2
    <3>3. CASE ~pkt.last
      BY <2>1, <2>2, <2>3, <2>4, <3>1, <3>3
    <3>4. QED
      BY <3>2, <3>3
  <2>7. Len(log') > 0 /\ pkt' = log'[Len(log')]
    BY <2>1, <2>3
  <2>8. LastSent' => buf' = 0 /\ closed'
    BY <2>2, <2>3, <2>4, <2>5, Zenon
  <2>9. written' = offset' + buf' + (IF pc' = "enqueue" THEN pkt'.len ELSE 0)
    <3>1. offset' \in Nat /\ buf' \in Nat
      BY <2>1, <2>3, Zenon DEF TypeOK, CallerTypes
    <3>2. QED
      BY <2>3, <2>6, <3>1, SMTT(60)
  <2>10. pc' # "enqueue"
    BY <2>3
  <2>11. QED
    BY <2>6, <2>7, <2>8, <2>9, <2>10, Zenon DEF Accounting
<1>5. QED
  BY <1>1, <1>2, <1>3, <1>4, NextCases

\* The packet that Enqueue appends continues the log at s.offset.
LEMMA LogStep ==
    ASSUME IndInv, TypeOK', [Next]_vars
    PROVE  LogOK'
<1>a. /\ TypeOK /\ Accounting /\ LogOK /\ QueueOK /\ DatanodeOK
      /\ AckedOK /\ FinishOK /\ LostOK
  BY DEF IndInv
<1> USE <1>a
<1>1. CASE Environment \/ UNCHANGED vars
  <2>1. UNCHANGED <<log, offset, start>>
    BY <1>1, EnvironmentFrame, Zenon
  <2>2. QED
    BY <2>1, Zenon DEF LogOK, PacketsContiguous, LastSent
<1>2. CASE Call
  <2>1. UNCHANGED <<log, offset, start>>
    BY <1>2, CallFrame, CallerFrame, Zenon
  <2>2. QED
    BY <2>1, Zenon DEF LogOK, PacketsContiguous, LastSent
<1>3. CASE CallerStep /\ ~Enqueue
  <2>1. UNCHANGED <<log, offset, start>>
    BY <1>3, CallerStepFrame, CallerFrame, Zenon
  <2>2. QED
    BY <2>1, Zenon DEF LogOK, PacketsContiguous, LastSent
<1>4. CASE Enqueue
  <2> DEFINE n == Len(log) + 1
  <2>0. /\ Len(log') = n /\ log'[n] = pkt /\ start' = start
        /\ \A i \in 1 .. Len(log) : log'[i] = log[i]
        /\ offset' = IF pkt.last THEN offset ELSE offset + pkt.len
    BY <1>4, EnqueueEffect, Zenon
  <2>1. /\ Len(log) \in Nat /\ pkt.len \in Nat /\ offset \in Nat /\ start \in Nat
    BY SMTT(60) DEF TypeOK, CallerTypes, HistTypes, Packet
  <2>2. /\ pkt.seqno = n /\ pkt.first = offset /\ pkt.offset = offset /\ ~LastSent
        /\ pkt.last => pkt.len = 0
    BY <1>4, EnqueueEffect, Zenon DEF Accounting
  <2>3. offset' = offset + pkt.len
    BY ONLY <2>0, <2>1, <2>2
  <2>4. ASSUME NEW i \in 1 .. Len(log)
        PROVE  ~log[i].last
    <3>1. Len(log) > 0
      BY ONLY <2>1, i \in 1 .. Len(log)
    <3>2. QED
      BY <2>2, <3>1, Zenon DEF LogOK, PacketsContiguous, LastSent
  <2>5. PacketsContiguous'
    <3> SUFFICES ASSUME NEW i \in 1 .. n
                 PROVE  /\ log'[i].seqno = i
                        /\ log'[i].first = log'[i].offset
                        /\ log'[i].offset = IF i = 1 THEN start
                                            ELSE log'[i-1].offset + log'[i-1].len
                        /\ log'[i].last => i = n
      BY <2>0, Zenon DEF PacketsContiguous
    <3>1. CASE i = n
      <4>1. offset = IF Len(log) = 0 THEN start ELSE log[Len(log)].offset + log[Len(log)].len
        BY Zenon DEF LogOK
      <4>2. QED
        BY ONLY <2>0, <2>1, <2>2, <3>1, <4>1
    <3>2. CASE i < n
      <4>1. i \in 1 .. Len(log) /\ (i # 1 => i - 1 \in 1 .. Len(log)) /\ i # n
        BY ONLY <2>1, <3>2, i \in 1 .. n
      <4>2. log'[i] = log[i] /\ (i # 1 => log'[i-1] = log[i-1]) /\ ~log[i].last
        BY <2>0, <2>4, <4>1, Zenon
      <4>3. /\ log[i].seqno = i /\ log[i].first = log[i].offset
            /\ log[i].offset = IF i = 1 THEN start ELSE log[i-1].offset + log[i-1].len
        BY <4>1, Zenon DEF LogOK, PacketsContiguous
      <4>4. QED
        BY <4>1, <4>2, <4>3, Zenon
    <3>3. QED
      BY ONLY <2>1, <3>1, <3>2, i \in 1 .. n
  <2>6. ASSUME NEW o \in start .. offset' - 1
        PROVE  \E i \in 1 .. n : log'[i].offset <= o /\ o < log'[i].offset + log'[i].len
    <3>1. CASE o < offset
      <4>1. o \in start .. offset - 1
        BY ONLY <2>1, <2>3, <3>1, o \in start .. offset' - 1
      <4>2. PICK i \in 1 .. Len(log) : log[i].offset <= o /\ o < log[i].offset + log[i].len
        BY <4>1, Zenon DEF LogOK
      <4>3. i \in 1 .. n
        BY ONLY <2>1, i \in 1 .. Len(log)
      <4>4. QED
        BY <2>0, <4>2, <4>3, Zenon
    <3>2. CASE offset <= o
      BY ONLY <2>0, <2>1, <2>2, <2>3, <3>2, o \in start .. offset' - 1
    <3>3. QED
      BY ONLY <2>1, <2>3, <3>1, <3>2, o \in start .. offset' - 1
  <2>7. LastSent' <=> pkt.last
    <3>1. Len(log') > 0 /\ log' # <<>>
      BY <2>0, <2>1
    <3>2. QED
      BY <2>0, <3>1, Zenon DEF LastSent
  <2>8. offset' = IF Len(log') = 0 THEN start' ELSE log'[Len(log')].offset + log'[Len(log')].len
    BY ONLY <2>0, <2>1, <2>2, <2>3
  <2>9. LastSent' => log'[Len(log')].len = 0
    BY <2>0, <2>2, <2>7, Zenon
  <2>10. QED
    BY <2>0, <2>5, <2>6, <2>8, <2>9, Zenon DEF LogOK
<1>5. QED
  BY <1>1, <1>2, <1>3, <1>4, NextCases

\* The environment changes the channel only in the ack loop.
LEMMA ChannelFrame ==
    ASSUME Environment \/ UNCHANGED vars, ~AckStep
    PROVE  UNCHANGED <<packets, ackPc, cur, ackError>>
  BY Zenon DEF Environment, HeartbeatStep, HeartbeatTick, HeartbeatLock, HeartbeatWrite,
         HeartbeatStop, DatanodeStep, DatanodePacket, DatanodeHeartbeat, DatanodeRejects,
         SetDeadline, ConnectionBreaks, DeadlinePasses, vars, ackVars

\* Taking the oldest packet off the channel.
LEMMA QueueTail ==
    ASSUME TypeOK, QueueOK, packets # <<>>, packets' = Tail(packets), log' = log
    PROVE  /\ Len(packets') = Len(packets) - 1 /\ Len(packets) > 0
           /\ Len(packets') < Len(log')
           /\ Head(packets) = log'[Len(log') - Len(packets')]
           /\ \A i \in 1 .. Len(packets') : packets'[i] = log'[Len(log') - Len(packets') + i]
<1>1. packets \in Seq(Packet) /\ Len(packets) \in Nat /\ Len(log) \in Nat
  BY DEF TypeOK, ChannelTypes, HistTypes
<1>2. /\ Len(packets') = Len(packets) - 1 /\ Len(packets) > 0 /\ Head(packets) = packets[1]
      /\ \A i \in 1 .. Len(packets') : packets'[i] = packets[i + 1]
  BY <1>1, TailParts, EmptyParts
<1>3. Len(packets') < Len(log')
  BY <1>1, <1>2 DEF QueueOK
<1>4. packets[1] = log[Len(log) - Len(packets) + 1]
  BY <1>1, <1>2 DEF QueueOK
<1>5. Len(log) - Len(packets) + 1 = Len(log') - Len(packets')
  BY <1>1, <1>2
<1>6. ASSUME NEW i \in 1 .. Len(packets')
      PROVE  packets'[i] = log'[Len(log') - Len(packets') + i]
  <2>1. i + 1 \in 1 .. Len(packets) /\ packets'[i] = packets[i + 1]
    BY <1>1, <1>2
  <2>2. packets[i + 1] = log[Len(log) - Len(packets) + (i + 1)]
    BY <2>1 DEF QueueOK
  <2>3. Len(log) - Len(packets) + (i + 1) = Len(log') - Len(packets') + i
    BY <1>1, <1>2
  <2>4. QED
    BY <2>1, <2>2, <2>3
<1>7. QED
  BY <1>2, <1>3, <1>4, <1>5, <1>6, Zenon

\* The channel stays the tail of the log while the caller appends to both and
\* the ack loop takes from the channel.
LEMMA QueueStep ==
    ASSUME IndInv, TypeOK', [Next]_vars
    PROVE  QueueOK'
<1>a. /\ TypeOK /\ Accounting /\ LogOK /\ QueueOK /\ DatanodeOK
      /\ AckedOK /\ FinishOK /\ LostOK
  BY DEF IndInv
<1> USE <1>a
<1>0. /\ packets \in Seq(Packet) /\ log \in Seq(Packet)
      /\ Len(packets) \in Nat /\ Len(log) \in Nat
  BY DEF TypeOK, ChannelTypes, HistTypes
<1>1. CASE (Environment \/ UNCHANGED vars) /\ ~AckStep
  BY <1>1, EnvironmentFrame, ChannelFrame DEF QueueOK
<1>2. CASE AckStep
  <2>0. UNCHANGED <<log, chClosed>>
    BY <1>2, EnvironmentFrame DEF Environment
  <2>1. CASE AckReceive /\ packets # <<>>
    <3>1. cur' = Head(packets) /\ packets' = Tail(packets) /\ ackPc' = "read"
          /\ ackError' = ackError /\ ackPc = "recv"
      BY <2>1 DEF AckReceive
    <3>2. ackError = "none"
      BY <3>1 DEF QueueOK
    <3>3. QED
      BY <1>0, <2>0, <2>1, <3>1, <3>2, QueueTail, SMTT(60) DEF QueueOK
  <2>2. CASE (AckReceive \/ AckDrain) /\ packets = <<>>
    <3>1. ackPc' = "done" /\ chClosed /\ packets' = packets /\ ackError' = ackError
          /\ ackPc \in {"recv", "drain"}
      BY <2>2 DEF AckReceive, AckDrain
    <3>2. QED
      BY <1>0, <2>0, <2>2, <3>1 DEF QueueOK
  <2>3. CASE AckRead
    <3>1. packets' = packets /\ cur' = cur /\ ackPc = "read"
      BY <2>3 DEF AckRead
    <3>2. \/ ackPc' = "recv" /\ ackError' = ackError
          \/ ackPc' = "drain" /\ ackError' # "none"
          \/ ackPc' = ackPc /\ ackError' = ackError
      BY <2>3, Zenon DEF AckRead, HandleAck
    <3>3. QED
      BY <2>0, <3>1, <3>2 DEF QueueOK
  <2>4. CASE AckReadFails
    BY <2>0, <2>4 DEF AckReadFails, QueueOK
  <2>5. CASE AckDrain /\ packets # <<>>
    <3>1. packets' = Tail(packets) /\ ackPc' = ackPc /\ ackError' = ackError
          /\ ackPc = "drain"
      BY <2>5 DEF AckDrain
    <3>2. ackError # "none"
      BY <3>1 DEF QueueOK
    <3>3. QED
      BY <1>0, <2>0, <2>5, <3>1, <3>2, QueueTail, SMTT(60) DEF QueueOK
  <2>6. QED
    BY <1>2, <2>1, <2>2, <2>3, <2>4, <2>5 DEF AckStep
<1>3. CASE Call
  BY <1>3, CallFrame, CallerFrame DEF QueueOK
<1>4. CASE CallerStep /\ ~Enqueue
  <2>1. UNCHANGED <<packets, log, ackPc, cur, ackError>>
    BY <1>4, CallerStepFrame, CallerFrame, SMTT(30)
  <2>2. chClosed => chClosed'
    BY <1>4, Zenon DEF CallerStep, FlushLoop, AcquireLock, WritePart, WritePartFails,
                CloseChannels, Join
  <2>3. QED
    BY <2>1, <2>2 DEF QueueOK
<1>5. CASE Enqueue
  <2>1. /\ ~chClosed
        /\ Len(packets') = Len(packets) + 1 /\ Len(log') = Len(log) + 1
        /\ \A i \in 1 .. Len(packets) : packets'[i] = packets[i]
        /\ packets'[Len(packets) + 1] = pkt
        /\ \A i \in 1 .. Len(log) : log'[i] = log[i]
        /\ log'[Len(log) + 1] = pkt
    BY <1>5, EnqueueEffect, Zenon
  <2>2. UNCHANGED <<ackPc, cur, ackError>>
    BY <1>5, CallerFrame DEF CallerStep
  <2>3. \A i \in 1 .. Len(packets') : packets'[i] = log'[Len(log') - Len(packets') + i]
    <3> SUFFICES ASSUME NEW i \in 1 .. Len(packets')
                 PROVE  packets'[i] = log'[Len(log') - Len(packets') + i]
      OBVIOUS
    <3>1. CASE i = Len(packets) + 1
      BY <1>0, <2>1, <3>1
    <3>2. CASE i \in 1 .. Len(packets)
      <4>1. packets[i] = log[Len(log) - Len(packets) + i]
        BY <3>2 DEF QueueOK
      <4>2. Len(log) - Len(packets) + i = Len(log') - Len(packets') + i
        BY <1>0, <2>1
      <4>3. Len(log) - Len(packets) + i \in 1 .. Len(log)
        BY <1>0, <3>2 DEF QueueOK
      <4>4. QED
        BY <2>1, <3>2, <4>1, <4>2, <4>3, Zenon
    <3>3. QED
      BY <1>0, <2>1, <3>1, <3>2, SMTT(60)
  <2>4. Len(packets') <= Len(log') /\ Len(log') - Len(packets') = Len(log) - Len(packets)
    BY <1>0, <2>1 DEF QueueOK
  <2>5. ASSUME ackPc' = "read"
        PROVE  Len(packets') < Len(log') /\ cur' = log'[Len(log') - Len(packets')]
    <3>1. Len(packets) < Len(log) /\ cur = log[Len(log) - Len(packets)]
      BY <2>2, <2>5 DEF QueueOK
    <3>2. Len(log) - Len(packets) \in 1 .. Len(log)
      BY <1>0, <3>1
    <3>3. QED
      <4>1. Len(packets') < Len(log')
        BY <1>0, <2>1, <3>1
      <4>2. QED
        BY <2>1, <2>2, <2>4, <3>1, <3>2, <4>1, Zenon
  <2>6. ackPc' # "done"
    BY <1>5, <2>2, EnqueueEffect, Zenon DEF QueueOK
  <2>7. QED
    BY <2>2, <2>3, <2>4, <2>5, <2>6, Zenon DEF QueueOK
<1>6. QED
  BY <1>1, <1>2, <1>3, <1>4, <1>5, NextCases

=============================================================================
