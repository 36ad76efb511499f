-------------------------- MODULE BlockReadStream --------------------------
(***************************************************************************)
(* internal/rpc/block_read_stream.go: reading the packets of one block     *)
(* from one datanode and checking them against their checksums.            *)
(*                                                                         *)
(* A byte is its position in the file, or Bad if it is not what was        *)
(* written there: corrupt on the datanode, or not data at all.  A checksum *)
(* holds exactly for the bytes it was made for.                            *)
(***************************************************************************)
EXTENDS Integers, Sequences

CONSTANTS
    ChunkSize,      \* bytes covered by one checksum
    PacketChunks,   \* chunks in a full packet
    Start,          \* where in the file each block starts, and then where it ends
    Corrupt         \* <<datanode, block, chunk>>: chunks that are corrupt

ASSUME StreamAssumption ==
    /\ ChunkSize \in Nat \ {0} /\ PacketChunks \in Nat \ {0}
    /\ Start \in Seq(Nat) /\ Start # <<>> /\ Start[1] = 0
    /\ \A k \in 1 .. Len(Start) - 1 : Start[k] < Start[k + 1]

Bad == -1

Blocks == 1 .. Len(Start) - 1

BlockSize(k) == Start[k + 1] - Start[k]

FileSize == Start[Len(Start)]

\* No datanode has a corrupt chunk of block k.
Healthy(k) == \A c \in Corrupt : c[2] # k

\* n bytes of the file from byte p of block b on, as they were written.
Written(b, p, n) == [i \in 1 .. n |-> Start[b] + p + i - 1]

Least(m, n) == IF m < n THEN m ELSE n

\* newBlockReadStream, for a datanode that sends block b from byte p on.
NewStream(d, b, p) ==
    [dn |-> d, blk |-> b, base |-> p, next |-> p, packetLength |-> 0,
     chunkIndex |-> 0, numChunks |-> 0, lastPacket |-> FALSE, chunk |-> <<>>]

\* The datanode sends full packets, then the rest, then an empty last packet.
StartPacket(s) ==
    LET left == BlockSize(s.blk) - s.next
        dataLength == Least(left, PacketChunks * ChunkSize)
    IN  [s EXCEPT !.base = s.next,
                  !.packetLength = dataLength,
                  !.numChunks = (dataLength + ChunkSize - 1) \div ChunkSize,
                  !.chunkIndex = 0,
                  !.lastPacket = left = 0]

\* What the next n bytes on the socket are.
Socket(s, n) ==
    [i \in 1 .. n |->
        LET p == s.next + i - 1
        IN  IF \/ p >= s.base + s.packetLength
               \/ <<s.dn, s.blk, p \div ChunkSize>> \in Corrupt
            THEN Bad
            ELSE Start[s.blk] + p]

\* validateChecksum, for chunk k of the packet.
Valid(s, k, bytes) ==
    bytes = Written(s.blk, s.base + k * ChunkSize,
                    Least(ChunkSize, s.packetLength - k * ChunkSize))

Outcome(s, bytes, err) == [s |-> s, bytes |-> bytes, err |-> err]

\* A read out of the buffered chunk.
FromChunk(s, n) ==
    LET m == Least(n, Len(s.chunk))
    IN  Outcome([s EXCEPT !.chunk = SubSeq(@, m + 1, Len(@))], SubSeq(s.chunk, 1, m), "nil")

\* A read of less than a chunk buffers one.  If that does not match its
\* checksum, it stays in the buffer and the read returns (0, nil).
SmallRead(s, n) ==
    LET size == Least(ChunkSize, s.packetLength - s.chunkIndex * ChunkSize)
        bytes == Socket(s, size)
        t == [s EXCEPT !.chunk = bytes, !.next = @ + size]
    IN  IF Valid(s, s.chunkIndex, bytes)
        THEN FromChunk([t EXCEPT !.chunkIndex = @ + 1], n)
        ELSE Outcome(t, <<>>, "nil")

ChunksToRead(s, n) ==
    IF n > s.packetLength - s.chunkIndex * ChunkSize
    THEN s.numChunks - s.chunkIndex
    ELSE n \div ChunkSize

AmountToRead(s, n) ==
    Least(s.packetLength - s.chunkIndex * ChunkSize, ChunksToRead(s, n) * ChunkSize)

\* A larger one reads whole chunks into b.  The slice of b that is checked ends
\* where the chunk or b would end, not where the data does.
LargeRead(s, n) ==
    LET bytes == Socket(s, AmountToRead(s, n))
        b == bytes \o [i \in 1 .. n - Len(bytes) |-> Bad]
        t == [s EXCEPT !.next = @ + Len(bytes), !.chunkIndex = @ + ChunksToRead(s, n)]
        Checked(i) == SubSeq(b, i * ChunkSize + 1, Least((i + 1) * ChunkSize, n))
    IN  IF \A i \in 0 .. ChunksToRead(s, n) - 1 : Valid(s, s.chunkIndex + i, Checked(i))
        THEN Outcome(t, bytes,
                     IF t.chunkIndex = t.numChunks /\ t.lastPacket THEN "EOF" ELSE "nil")
        ELSE Outcome(t, bytes, "error")

AtPacketEnd(s) == s.chunkIndex = s.numChunks

Packet(s) == IF AtPacketEnd(s) THEN StartPacket(s) ELSE s

\* blockReadStream.Read, when the connection holds.
StreamRead(s0, n) ==
    LET s == Packet(s0)
    IN  IF AtPacketEnd(s0) /\ s0.lastPacket THEN Outcome(s0, <<>>, "EOF")
        ELSE IF s.chunk # <<>> THEN FromChunk(s, n)
        ELSE IF n < ChunkSize THEN SmallRead(s, n)
        ELSE LargeRead(s, n)

\* Whether a Read uses the connection.
UsesConn(s) == IF AtPacketEnd(s) THEN ~s.lastPacket ELSE s.chunk = <<>>

\* And when the connection breaks: at the end of the stream as it were, or with
\* an error, after some of the bytes if it is a large read.
StreamReadBroken(s0, n) ==
    LET s == Packet(s0)
        some == IF s.chunk = <<>> /\ n >= ChunkSize THEN 1 .. AmountToRead(s, n) - 1 ELSE {}
    IN  {Outcome(s0, <<>>, err) : err \in {"EOF", "error"}}
           \cup {Outcome(s0, Socket(s, m), "error") : m \in some}
=============================================================================
