-------------------------- MODULE FileReaderProofs --------------------------
(***************************************************************************)
(* Proofs about FileReader, for every file, chunk and packet size, every   *)
(* number of datanodes, corrupt chunk and mix of calls: the offsets agree  *)
(* and failovers go right.  When no chunk is corrupt, what is read are the *)
(* bytes of the file.                                                      *)
(***************************************************************************)
EXTENDS FileReader, WellFoundedInduction, TLAPS

-----------------------------------------------------------------------------
(* Sequences.                                                              *)

\* A sequence is a function on an initial segment of the positive numbers.
LEMMA SeqParts ==
    ASSUME NEW S, NEW s \in Seq(S)
    PROVE  Len(s) \in Nat /\ DOMAIN s = 1 .. Len(s) /\ s \in [1 .. Len(s) -> S]
  OBVIOUS

\* <<>> is the only sequence without elements.
LEMMA EmptyParts ==
    ASSUME NEW S
    PROVE  /\ <<>> \in Seq(S) /\ Len(<<>>) = 0
           /\ \A s \in Seq(S) : s # <<>> => Len(s) \in Nat \ {0}
  OBVIOUS

\* The elements of a sequence over S are in S.
LEMMA ElementParts ==
    ASSUME NEW S, NEW s \in Seq(S), NEW i \in 1 .. Len(s)
    PROVE  s[i] \in S
  OBVIOUS

\* What a slice holds.
LEMMA SubSeqParts ==
    ASSUME NEW S, NEW s, NEW m \in Int, NEW n \in Int, \A i \in m .. n : s[i] \in S
    PROVE  /\ SubSeq(s, m, n) \in Seq(S)
           /\ Len(SubSeq(s, m, n)) = IF m <= n THEN n - m + 1 ELSE 0
           /\ \A i \in 1 .. n - m + 1 : SubSeq(s, m, n)[i] = s[m + i - 1]
  OBVIOUS

\* What a concatenation holds.
LEMMA ConcatParts ==
    ASSUME NEW S, NEW s \in Seq(S), NEW t \in Seq(S)
    PROVE  /\ s \o t \in Seq(S) /\ Len(s \o t) = Len(s) + Len(t)
           /\ \A i \in 1 .. Len(s) : (s \o t)[i] = s[i]
  OBVIOUS

\* Sequences with the same elements are equal.
LEMMA SeqSame ==
    ASSUME NEW S, NEW s \in Seq(S), NEW t \in Seq(S),
           Len(s) = Len(t), \A i \in 1 .. Len(s) : s[i] = t[i]
    PROVE  s = t
  OBVIOUS

\* A sequence given element by element.
LEMMA BuiltSeq ==
    ASSUME NEW n \in Nat, NEW e(_), NEW S, \A i \in 1 .. n : e(i) \in S
    PROVE  [i \in 1 .. n |-> e(i)] \in Seq(S)
  OBVIOUS

-----------------------------------------------------------------------------
USE StreamAssumption, ReaderAssumption, FileReaderAssumption

(* Multiples of ChunkSize.                                                 *)

\* Multiples of ChunkSize, in order.
LEMMA Multiples ==
    ASSUME NEW x \in Nat, NEW y \in Nat
    PROVE  /\ x * ChunkSize \in Nat
           /\ (x + 1) * ChunkSize = x * ChunkSize + ChunkSize
           /\ (x + y) * ChunkSize = x * ChunkSize + y * ChunkSize
           /\ x < y => x * ChunkSize + ChunkSize <= y * ChunkSize
           /\ x <= y => x * ChunkSize <= y * ChunkSize
<1>1. ChunkSize \in Nat /\ ChunkSize > 0
  OBVIOUS
<1>2. x * ChunkSize \in Nat /\ y * ChunkSize \in Nat
  BY <1>1
<1>3. (x + 1) * ChunkSize = x * ChunkSize + ChunkSize
  BY <1>1
<1>4. (x + y) * ChunkSize = x * ChunkSize + y * ChunkSize
  BY <1>1
<1>5. ASSUME x <= y PROVE x * ChunkSize <= y * ChunkSize
  <2>1. PICK d \in Nat : y = x + d
    BY <1>5
  <2>2. (x + d) * ChunkSize = x * ChunkSize + d * ChunkSize
    BY <1>1
  <2>3. d * ChunkSize \in Nat
    BY <1>1
  <2>4. QED
    BY <1>2, <2>1, <2>2, <2>3
<1>6. ASSUME x < y PROVE x * ChunkSize + ChunkSize <= y * ChunkSize
  <2>1. PICK d \in Nat : y = (x + 1) + d
    <3>1. y - (x + 1) \in Nat /\ y = (x + 1) + (y - (x + 1))
      BY <1>6
    <3>2. QED
      BY <3>1
  <2>2. ((x + 1) + d) * ChunkSize = (x + 1) * ChunkSize + d * ChunkSize
    BY <1>1
  <2>3. d * ChunkSize \in Nat
    BY <1>1
  <2>4. QED
    BY <1>1, <1>2, <1>3, <2>1, <2>2, <2>3
<1>7. QED
  BY <1>2, <1>3, <1>4, <1>5, <1>6

\* What dividing by ChunkSize gives.
LEMMA Quotient ==
    ASSUME NEW x \in Nat
    PROVE  /\ x \div ChunkSize \in Nat /\ x % ChunkSize \in 0 .. ChunkSize - 1
           /\ x = (x \div ChunkSize) * ChunkSize + (x % ChunkSize)
           /\ (x \div ChunkSize) * ChunkSize <= x
           /\ x < (x \div ChunkSize) * ChunkSize + ChunkSize
           /\ x >= ChunkSize => x \div ChunkSize > 0
<1> DEFINE q == x \div ChunkSize
           r == x % ChunkSize
           p == q * ChunkSize
<1>1. ChunkSize \in Nat /\ ChunkSize > 0
  OBVIOUS
<1>3. x = p + r /\ r \in 0 .. ChunkSize - 1 /\ q \in Int
  BY <1>1
<1>2. q \in Nat
  <2> HIDE DEF q, r
  <2>1. SUFFICES ASSUME q < 0 PROVE FALSE
    BY <1>3
  <2>2. PICK m \in Nat : q = -1 - m
    <3>1. -1 - q \in Nat /\ q = -1 - (-1 - q)
      BY <1>3, <2>1
    <3>2. QED
      BY <3>1
  <2> DEFINE u == m * ChunkSize
  <2>3. p + u + ChunkSize = 0 /\ p \in Int
    BY <1>1, <2>2
  <2>4. u \in Nat
    BY Multiples
  <2> HIDE DEF p, u
  <2>5. QED
    BY <1>1, <1>3, <2>3, <2>4
<1>4. p \in Nat
  BY <1>2, Multiples
<1>5. q = 0 => p = 0
  BY <1>1
<1> HIDE DEF q, r, p
<1>6. p <= x /\ x < p + ChunkSize
  BY <1>1, <1>3, <1>4
<1>7. x >= ChunkSize => q > 0
  BY <1>1, <1>2, <1>3, <1>4, <1>5
<1>8. QED
  BY <1>2, <1>3, <1>6, <1>7 DEF p, q, r

\* The number of chunks in a packet.
LEMMA ChunksOf ==
    ASSUME NEW x \in Nat
    PROVE  /\ (x + ChunkSize - 1) \div ChunkSize \in Nat
           /\ x <= ((x + ChunkSize - 1) \div ChunkSize) * ChunkSize
           /\ ((x + ChunkSize - 1) \div ChunkSize) * ChunkSize < x + ChunkSize
<1> DEFINE y == x + ChunkSize - 1
           p == (y \div ChunkSize) * ChunkSize
<1>1. y \in Nat /\ ChunkSize \in Nat
  OBVIOUS
<1>2. y \div ChunkSize \in Nat /\ p <= y /\ y < p + ChunkSize
  <2> HIDE DEF y
  <2>1. QED
    BY <1>1, Quotient, Zenon
<1>3. p \in Nat
  BY <1>2, Multiples
<1>4. x <= p /\ p < x + ChunkSize
  <2> HIDE DEF p
  <2>1. QED
    BY <1>1, <1>2, <1>3
<1>5. QED
  BY <1>2, <1>4

-----------------------------------------------------------------------------
(* The stream.                                                             *)

Stream == [dn : Datanodes, blk : Blocks, base : Nat, next : Nat, packetLength : Nat,
           chunkIndex : Nat, numChunks : Nat, lastPacket : BOOLEAN, chunk : Seq(Int)]

\* A packet has as many chunks as its data needs, and is in the block.
PacketOK(s) ==
    /\ s.chunkIndex <= s.numChunks
    /\ s.packetLength <= s.numChunks * ChunkSize
    /\ s.numChunks * ChunkSize < s.packetLength + ChunkSize
    /\ s.base + s.packetLength <= BlockSize(s.blk)

\* The socket is at the chunk that comes next ...
OnTrack(s) == s.next = s.base + Least(s.chunkIndex * ChunkSize, s.packetLength)

\* ... or past it, after a chunk that did not match its checksum.
OffTrack(s) == s.chunkIndex < s.numChunks /\ s.next > s.base + s.chunkIndex * ChunkSize

\* The stream stands at byte p of its block: what it has read from the socket
\* and has not returned is in the buffer.
StreamOK(s, p) ==
    /\ s \in Stream /\ PacketOK(s) /\ (OnTrack(s) \/ OffTrack(s))
    /\ s.next = p + Len(s.chunk)

\* Blocks are not empty.
LEMMA BlocksNotEmpty ==
    ASSUME NEW k \in Blocks
    PROVE  /\ Start[k] \in Nat /\ Start[k + 1] \in Nat
           /\ BlockSize(k) \in Nat /\ BlockSize(k) > 0
<1>1. Len(Start) \in Nat /\ k \in 1 .. Len(Start) - 1
  BY SeqParts DEF Blocks
<1>2. k \in 1 .. Len(Start) /\ k + 1 \in 1 .. Len(Start)
  BY <1>1
<1>3. Start[k] \in Nat /\ Start[k + 1] \in Nat
  BY <1>2, ElementParts
<1>4. Start[k] < Start[k + 1]
  BY <1>1
<1>5. QED
  BY <1>3, <1>4 DEF BlockSize

\* Where there are chunks left there is data left.
LEMMA ChunkLeft ==
    ASSUME NEW s \in Stream, PacketOK(s)
    PROVE  /\ s.chunkIndex * ChunkSize \in Nat /\ s.numChunks * ChunkSize \in Nat
           /\ s.chunkIndex < s.numChunks => s.chunkIndex * ChunkSize < s.packetLength
           /\ s.chunkIndex = s.numChunks => s.packetLength <= s.chunkIndex * ChunkSize
<1>1. s.chunkIndex \in Nat /\ s.numChunks \in Nat /\ s.packetLength \in Nat
  BY DEF Stream
<1>2. /\ s.chunkIndex * ChunkSize \in Nat /\ s.numChunks * ChunkSize \in Nat
      /\ s.chunkIndex < s.numChunks =>
             s.chunkIndex * ChunkSize + ChunkSize <= s.numChunks * ChunkSize
  BY <1>1, Multiples, Zenon
<1> DEFINE x == s.chunkIndex * ChunkSize
           y == s.numChunks * ChunkSize
<1>3. s.packetLength <= y /\ y < s.packetLength + ChunkSize
  BY DEF PacketOK
<1>4. s.chunkIndex = s.numChunks => x = y
  OBVIOUS
<1> HIDE DEF x, y
<1>5. x \in Nat /\ y \in Nat /\ (s.chunkIndex < s.numChunks => x + ChunkSize <= y)
  BY <1>2 DEF x, y
<1>6. /\ s.chunkIndex < s.numChunks => x < s.packetLength
      /\ s.chunkIndex = s.numChunks => s.packetLength <= x
  BY <1>1, <1>3, <1>4, <1>5
<1>7. QED
  BY <1>5, <1>6 DEF x, y

\* At the end of a packet the socket is at the end of its data.
LEMMA PacketEnd ==
    ASSUME NEW s \in Stream, PacketOK(s), OnTrack(s) \/ OffTrack(s), AtPacketEnd(s)
    PROVE  OnTrack(s) /\ s.next = s.base + s.packetLength /\ s.next <= BlockSize(s.blk)
<1>1. OnTrack(s) /\ s.chunkIndex = s.numChunks
  <2>1. s.chunkIndex \in Nat /\ s.numChunks \in Nat
    BY DEF Stream
  <2>2. QED
    BY <2>1 DEF OffTrack, AtPacketEnd
<1>2. s.packetLength <= s.chunkIndex * ChunkSize /\ s.chunkIndex * ChunkSize \in Nat
  BY <1>1, ChunkLeft
<1> DEFINE x == s.chunkIndex * ChunkSize
<1>3. s.next = s.base + Least(x, s.packetLength)
  BY <1>1 DEF OnTrack
<1> HIDE DEF x
<1>4. s.packetLength <= x /\ x \in Nat /\ s.packetLength \in Nat
  BY <1>2 DEF x, Stream
<1>5. Least(x, s.packetLength) = s.packetLength
  BY <1>4 DEF Least
<1>6. QED
  BY <1>1, <1>3, <1>5 DEF PacketOK

\* The header of the next packet, when it is read.
LEMMA PacketStarts ==
    ASSUME NEW s, NEW p \in Nat, StreamOK(s, p), ~(AtPacketEnd(s) /\ s.lastPacket),
           NEW t, t = Packet(s)
    PROVE  /\ StreamOK(t, p) /\ t.dn = s.dn /\ t.blk = s.blk /\ t.chunk = s.chunk
           /\ t.next = s.next
           /\ OnTrack(s) => OnTrack(t)
           /\ s.next < BlockSize(s.blk) => t.chunkIndex < t.numChunks
<1>0. s \in Stream /\ PacketOK(s) /\ (OnTrack(s) \/ OffTrack(s)) /\ s.next = p + Len(s.chunk)
  BY DEF StreamOK
<1>1. CASE ~AtPacketEnd(s)
  <2>1. t = s
    BY <1>1 DEF Packet
  <2>2. s.chunkIndex < s.numChunks
    BY <1>0, <1>1 DEF AtPacketEnd, PacketOK, Stream
  <2>3. QED
    BY <2>1, <2>2
<1>2. CASE AtPacketEnd(s)
  <2> DEFINE left == BlockSize(s.blk) - s.next
             most == PacketChunks * ChunkSize
             len == Least(left, most)
             num == (len + ChunkSize - 1) \div ChunkSize
             last == left = 0
  <2>1. t = [s EXCEPT !.base = s.next, !.packetLength = len, !.numChunks = num,
                      !.chunkIndex = 0, !.lastPacket = last]
    BY <1>2 DEF Packet, StartPacket
  <2>2. s.next <= BlockSize(s.blk) /\ BlockSize(s.blk) \in Nat /\ s.next \in Nat
    BY <1>0, <1>2, PacketEnd, BlocksNotEmpty DEF Stream
  <2>3. most \in Nat /\ most > 0
    <3>1. PacketChunks \in Nat /\ 0 \in Nat /\ 0 < PacketChunks /\ ChunkSize \in Nat /\ ChunkSize > 0
      OBVIOUS
    <3>2. most \in Nat /\ 0 * ChunkSize + ChunkSize <= most /\ 0 * ChunkSize \in Nat
      BY <3>1, Multiples
    <3> DEFINE z == 0 * ChunkSize
    <3> HIDE DEF most, z
    <3>3. most \in Nat /\ z + ChunkSize <= most /\ z \in Nat
      BY <3>2 DEF z
    <3>4. QED
      BY <3>1, <3>3
  <2>4. left \in Nat
    BY <2>2
  <2> HIDE DEF left, most
  <2>5. len \in Nat /\ len <= left /\ (left > 0 => len > 0)
    BY <2>3, <2>4 DEF Least
  <2> HIDE DEF len
  <2>6. num \in Nat /\ len <= num * ChunkSize /\ num * ChunkSize < len + ChunkSize
    BY <2>5, ChunksOf
  <2>a. last \in BOOLEAN
    OBVIOUS
  <2> HIDE DEF num, last
  <2>7. /\ t \in Stream /\ t.base = s.next /\ t.next = s.next /\ t.packetLength = len
        /\ t.numChunks = num /\ t.chunkIndex = 0 /\ t.blk = s.blk /\ t.dn = s.dn
        /\ t.chunk = s.chunk
    <3>1. len \in Nat /\ num \in Nat /\ s.next \in Nat /\ s \in Stream
      BY <1>0, <2>2, <2>5, <2>6
    <3>2. t = [dn |-> s.dn, blk |-> s.blk, base |-> s.next, next |-> s.next,
               packetLength |-> len, chunkIndex |-> 0, numChunks |-> num,
               lastPacket |-> last, chunk |-> s.chunk]
      BY ONLY <2>1, <3>1, Zenon DEF Stream
    <3>3. t \in Stream
      BY <2>a, <3>1, <3>2 DEF Stream
    <3>4. QED
      BY <3>2, <3>3
  <2>8. PacketOK(t)
    <3>1. s.next + len <= BlockSize(s.blk)
      BY <2>2, <2>5 DEF left
    <3>2. QED
      BY <2>6, <2>7, <3>1 DEF PacketOK
  <2>9. OnTrack(t)
    <3>1. 0 * ChunkSize = 0
      OBVIOUS
    <3>2. Least(0, len) = 0 /\ s.next + 0 = s.next
      BY <2>2, <2>5 DEF Least
    <3>3. QED
      BY <2>7, <3>1, <3>2 DEF OnTrack
  <2>10. s.next < BlockSize(s.blk) => num > 0
    <3>1. ASSUME s.next < BlockSize(s.blk), num = 0 PROVE FALSE
      <4>1. len > 0
        BY <2>2, <2>5, <3>1 DEF left
      <4>2. num * ChunkSize = 0
        BY <3>1
      <4>3. QED
        BY <2>5, <2>6, <4>1, <4>2
    <3>2. QED
      BY <2>6, <3>1
  <2>11. QED
    BY <1>0, <2>7, <2>8, <2>9, <2>10 DEF StreamOK
<1>3. QED
  BY <1>1, <1>2

\* The right bytes, for the bytes from p on of the stream's block.
Right(s, p, bytes) == bytes = Written(s.blk, p, Len(bytes))

\* Bytes of the file are numbers, and their parts are bytes of the file.
LEMMA WrittenParts ==
    ASSUME NEW k \in Blocks, NEW p \in Nat, NEW m \in Nat
    PROVE  /\ Written(k, p, m) \in Seq(Int) /\ Len(Written(k, p, m)) = m
           /\ \A i \in 1 .. m : Written(k, p, m)[i] = Start[k] + p + i - 1
  <1>1. Start[k] \in Nat
    BY BlocksNotEmpty
  <1>2. \A i \in 1 .. m : Start[k] + p + i - 1 \in Int
    BY <1>1
  <1>3. QED
    BY <1>2, BuiltSeq DEF Written

\* What a datanode sends are numbers.
LEMMA SocketBytes ==
    ASSUME NEW s \in Stream, NEW m \in Nat
    PROVE  /\ Socket(s, m) \in Seq(Int) /\ Len(Socket(s, m)) = m
           /\ m > 0 => Socket(s, m)[1] \in {Bad, Start[s.blk] + s.next}
           /\ Healthy(s.blk) /\ s.next + m <= s.base + s.packetLength =>
                  Socket(s, m) = Written(s.blk, s.next, m)
<1> DEFINE B(i) == LET p == s.next + i - 1
                   IN  IF \/ p >= s.base + s.packetLength
                          \/ <<s.dn, s.blk, p \div ChunkSize>> \in Corrupt
                       THEN Bad
                       ELSE Start[s.blk] + p
<1>1. Start[s.blk] \in Nat /\ s.next \in Nat /\ s.base \in Nat /\ s.packetLength \in Nat
  BY BlocksNotEmpty DEF Stream
<1>2. Socket(s, m) = [i \in 1 .. m |-> B(i)]
  BY DEF Socket
<1>3. \A i \in 1 .. m : B(i) \in Int /\ B(i) \in {Bad, Start[s.blk] + (s.next + i - 1)}
  <2>1. ASSUME NEW i \in 1 .. m
        PROVE  B(i) \in Int /\ B(i) \in {Bad, Start[s.blk] + (s.next + i - 1)}
    <3>1. B(i) = Bad \/ B(i) = Start[s.blk] + (s.next + i - 1)
      BY Zenon
    <3>2. Bad \in Int /\ Start[s.blk] + (s.next + i - 1) \in Int
      BY <1>1 DEF Bad
    <3> HIDE DEF B
    <3>3. QED
      BY <3>1, <3>2
  <2>2. QED
    BY <2>1, Zenon
<1>4. Healthy(s.blk) /\ s.next + m <= s.base + s.packetLength =>
          \A i \in 1 .. m : B(i) = Start[s.blk] + s.next + i - 1
  <2>1. ASSUME Healthy(s.blk), s.next + m <= s.base + s.packetLength, NEW i \in 1 .. m
        PROVE  B(i) = Start[s.blk] + s.next + i - 1
    <3> DEFINE p == s.next + i - 1
    <3>1. <<s.dn, s.blk, p \div ChunkSize>> \notin Corrupt
      <4> DEFINE c == <<s.dn, s.blk, p \div ChunkSize>>
      <4>1. c[2] = s.blk
        OBVIOUS
      <4> HIDE DEF c
      <4>2. c \notin Corrupt
        BY <2>1, <4>1, Zenon DEF Healthy
      <4>3. QED
        BY <4>2 DEF c
    <3>2. ~(p >= s.base + s.packetLength) /\ Start[s.blk] + p = Start[s.blk] + s.next + i - 1
      BY ONLY <1>1, <2>1, m \in Nat
    <3>3. QED
      BY <3>1, <3>2, Zenon
  <2>2. QED
    BY <2>1
<1> HIDE DEF B
<1>5. Socket(s, m) \in Seq(Int) /\ Len(Socket(s, m)) = m
  BY <1>2, <1>3, BuiltSeq
<1>6. m > 0 => Socket(s, m)[1] \in {Bad, Start[s.blk] + s.next}
  <2>1. m > 0 => 1 \in 1 .. m
    OBVIOUS
  <2>2. s.next + 1 - 1 = s.next
    BY <1>1
  <2>3. QED
    BY <1>2, <1>3, <2>1, <2>2
<1>7. ASSUME Healthy(s.blk), s.next + m <= s.base + s.packetLength
      PROVE  Socket(s, m) = Written(s.blk, s.next, m)
  BY <1>2, <1>4, <1>7 DEF Written
<1>8. QED
  BY <1>5, <1>6, <1>7

\* What a read of up to m bytes out of the buffer of s returns and leaves.
FromBuffer(s, p, m, o) ==
    /\ o.bytes \in Seq(Int) /\ o.err = "nil" /\ Len(o.bytes) = Least(m, Len(s.chunk))
    /\ StreamOK(o.s, p + Len(o.bytes)) /\ o.s.dn = s.dn /\ o.s.blk = s.blk
    /\ OnTrack(s) => OnTrack(o.s)
    /\ Right(s, p, s.chunk) =>
           Right(s, p, o.bytes) /\ Right(o.s, p + Len(o.bytes), o.s.chunk)

\* A read out of the buffer.
LEMMA FromChunkOK ==
    ASSUME NEW s, NEW p \in Nat, StreamOK(s, p), NEW m \in Nat, NEW o, o = FromChunk(s, m)
    PROVE  FromBuffer(s, p, m, o)
<1> DEFINE len == Len(s.chunk)
           c == Least(m, len)
           bytes == SubSeq(s.chunk, 1, c)
           rest == SubSeq(s.chunk, c + 1, len)
           t == [s EXCEPT !.chunk = rest]
<1>1. s \in Stream /\ s.chunk \in Seq(Int) /\ len \in Nat /\ s.next = p + len
  BY SeqParts DEF StreamOK, Stream
<1>2. c \in 0 .. len /\ c <= m
  BY <1>1 DEF Least
<1>3. \A i \in 1 .. len : s.chunk[i] \in Int
  BY <1>1, ElementParts
<1>4. bytes \in Seq(Int) /\ Len(bytes) = c /\ \A i \in 1 .. c : bytes[i] = s.chunk[i]
  <2> HIDE DEF c
  <2>1. \A i \in 1 .. c : s.chunk[i] \in Int
    BY <1>1, <1>2, <1>3
  <2>2. QED
    BY <1>1, <1>2, <2>1, SubSeqParts
<1>5. /\ rest \in Seq(Int) /\ Len(rest) = len - c
      /\ \A i \in 1 .. len - c : rest[i] = s.chunk[c + i]
  <2> HIDE DEF c, len
  <2>1. \A i \in c + 1 .. len : s.chunk[i] \in Int
    BY <1>1, <1>2, <1>3
  <2> DEFINE d == c + 1
             f == s.chunk
  <2>2. d \in Int /\ len \in Int /\ \A i \in d .. len : f[i] \in Int
    BY <1>1, <1>2, <2>1
  <2> HIDE DEF d, f
  <2>3. /\ SubSeq(f, d, len) \in Seq(Int)
        /\ Len(SubSeq(f, d, len)) = IF d <= len THEN len - d + 1 ELSE 0
        /\ \A i \in 1 .. len - d + 1 : SubSeq(f, d, len)[i] = f[d + i - 1]
    BY <2>2, SubSeqParts
  <2>4. len - d + 1 = len - c /\ (IF d <= len THEN len - d + 1 ELSE 0) = len - c
    BY <1>1, <1>2 DEF d
  <2>5. \A i \in 1 .. len - c : d + i - 1 = c + i
    BY <1>1, <1>2 DEF d
  <2>6. QED
    BY <2>3, <2>4, <2>5 DEF d, f
<1>6. o.s = t /\ o.bytes = bytes /\ o.err = "nil"
  BY Zenon DEF FromChunk, Outcome
<1> HIDE DEF len, c, bytes, rest
<1>7. /\ t.dn = s.dn /\ t.blk = s.blk /\ t.base = s.base /\ t.next = s.next
      /\ t.packetLength = s.packetLength /\ t.chunkIndex = s.chunkIndex
      /\ t.numChunks = s.numChunks /\ t.lastPacket = s.lastPacket /\ t.chunk = rest
  BY <1>1, Zenon DEF Stream
<1>8. t \in Stream
  BY <1>1, <1>5, Zenon DEF Stream
<1> HIDE DEF t
<1>9. StreamOK(t, p + c)
  <2>1. PacketOK(t) /\ (OnTrack(t) \/ OffTrack(t))
    BY <1>7 DEF StreamOK, PacketOK, OnTrack, OffTrack
  <2>2. t.next = p + c + Len(t.chunk)
    BY <1>1, <1>2, <1>5, <1>7
  <2>3. QED
    BY <1>8, <2>1, <2>2 DEF StreamOK
<1>10. OnTrack(s) => OnTrack(t)
  BY <1>7 DEF OnTrack
<1>11. ASSUME Right(s, p, s.chunk) PROVE Right(s, p, bytes) /\ Right(t, p + c, t.chunk)
  <2>1. s.blk \in Blocks /\ t.blk = s.blk /\ Start[s.blk] \in Nat
    BY <1>1, <1>7, BlocksNotEmpty DEF Stream
  <2>2. \A i \in 1 .. len : s.chunk[i] = Start[s.blk] + p + i - 1
    <3> DEFINE v == Written(s.blk, p, len)
    <3>1. s.chunk = v
      BY <1>11 DEF Right, len
    <3>2. \A i \in 1 .. len : v[i] = Start[s.blk] + p + i - 1
      BY <1>1, <2>1, WrittenParts, ZenonT(60)
    <3> HIDE DEF v
    <3>3. QED
      BY <3>1, <3>2
  <2>3. /\ Written(s.blk, p, c) \in Seq(Int) /\ Len(Written(s.blk, p, c)) = c
        /\ \A i \in 1 .. c : Written(s.blk, p, c)[i] = Start[s.blk] + p + i - 1
    <3>1. c \in Nat
      BY <1>1, <1>2
    <3>2. QED
      BY <2>1, <3>1, WrittenParts, ZenonT(60)
  <2>4. \A i \in 1 .. c : bytes[i] = Written(s.blk, p, c)[i]
    <3>1. \A i \in 1 .. c : i \in 1 .. len
      BY <1>1, <1>2
    <3>2. QED
      BY <1>4, <2>2, <2>3, <3>1, Zenon
  <2>5. bytes = Written(s.blk, p, c)
    BY <1>4, <2>3, <2>4, SeqSame
  <2> DEFINE w == Written(s.blk, p + c, len - c)
  <2>6. /\ w \in Seq(Int) /\ Len(w) = len - c
        /\ \A i \in 1 .. len - c : w[i] = Start[s.blk] + (p + c) + i - 1
    <3>1. p + c \in Nat /\ len - c \in Nat
      BY <1>1, <1>2
    <3>2. QED
      BY <2>1, <3>1, WrittenParts, ZenonT(60)
  <2> HIDE DEF w
  <2>7. ASSUME NEW i \in 1 .. len - c PROVE rest[i] = w[i]
    <3>1. c + i \in 1 .. len
      BY <1>1, <1>2
    <3>2. s.chunk[c + i] = Start[s.blk] + p + (c + i) - 1
      BY <2>2, <3>1
    <3>3. rest[i] = s.chunk[c + i] /\ w[i] = Start[s.blk] + (p + c) + i - 1
      BY <1>5, <2>6
    <3>4. Start[s.blk] + p + (c + i) - 1 = Start[s.blk] + (p + c) + i - 1
      BY <1>1, <1>2, <2>1
    <3>5. QED
      BY <3>2, <3>3, <3>4
  <2>8. rest = w
    BY <1>5, <2>6, <2>7, SeqSame
  <2>9. QED
    BY <1>4, <1>5, <1>7, <2>1, <2>5, <2>8, Zenon DEF Right, w
<1>12. QED
  BY <1>4, <1>6, <1>8, <1>9, <1>10, <1>11, <1>7 DEF FromBuffer, c, len

\* The first byte on the socket is not the one a chunk begins with, once it is
\* past that chunk.
LEMMA OffTrackDiffers ==
    ASSUME NEW s \in Stream, PacketOK(s), OffTrack(s), NEW m \in Nat, m > 0
    PROVE  Socket(s, m)[1] # Start[s.blk] + (s.base + s.chunkIndex * ChunkSize) + 1 - 1
<1> DEFINE x == s.chunkIndex * ChunkSize
<1>1. Socket(s, m)[1] \in {Bad, Start[s.blk] + s.next}
  BY SocketBytes
<1>2. Start[s.blk] \in Nat /\ s.next \in Nat /\ s.base \in Nat /\ x \in Nat
  BY BlocksNotEmpty, ChunkLeft DEF Stream
<1>3. s.next > s.base + x
  BY DEF OffTrack
<1> HIDE DEF x
<1>4. Socket(s, m)[1] # Start[s.blk] + (s.base + x) + 1 - 1
  BY ONLY <1>1, <1>2, <1>3 DEF Bad
<1>5. QED
  BY <1>4 DEF x

\* How much of a chunk is left in a packet.
LEMMA PartOfChunk ==
    ASSUME NEW x \in Nat, NEW len \in Nat, x < len
    PROVE  /\ Least(ChunkSize, len - x) \in Nat /\ Least(ChunkSize, len - x) \in 1 .. ChunkSize
           /\ Least(ChunkSize, len - x) <= len - x
           /\ x + Least(ChunkSize, len - x) = Least(x + ChunkSize, len)
           /\ Least(x, len) = x
  BY DEF Least

\* The chunk that comes next, in the buffer, and accepted.
Size(s) == Least(ChunkSize, s.packetLength - s.chunkIndex * ChunkSize)

Buffered(s) == [s EXCEPT !.chunk = Socket(s, Size(s)), !.next = @ + Size(s)]

Accepted(s) == [Buffered(s) EXCEPT !.chunkIndex = @ + 1]

\* A chunk read into the buffer.
LEMMA ChunkBuffered ==
    ASSUME NEW s, NEW p \in Nat, StreamOK(s, p), s.chunk = <<>>, s.chunkIndex < s.numChunks
    PROVE  /\ Size(s) \in 1 .. ChunkSize
           /\ Socket(s, Size(s)) \in Seq(Int) /\ Len(Socket(s, Size(s))) = Size(s)
           /\ /\ Buffered(s).chunk = Socket(s, Size(s)) /\ Buffered(s).dn = s.dn
              /\ Buffered(s).blk = s.blk /\ Buffered(s).chunkIndex = s.chunkIndex
              /\ Buffered(s).numChunks = s.numChunks
           /\ /\ Accepted(s).chunk = Socket(s, Size(s)) /\ Accepted(s).dn = s.dn
              /\ Accepted(s).blk = s.blk
           /\ StreamOK(Buffered(s), p)
           /\ Valid(s, s.chunkIndex, Socket(s, Size(s))) => StreamOK(Accepted(s), p)
           /\ Healthy(s.blk) /\ OnTrack(s) =>
                  /\ Valid(s, s.chunkIndex, Socket(s, Size(s))) /\ OnTrack(Accepted(s))
                  /\ Right(Accepted(s), p, Accepted(s).chunk)
<1> DEFINE x == s.chunkIndex * ChunkSize
           y == (s.chunkIndex + 1) * ChunkSize
           len == s.packetLength
           size == Size(s)
           bytes == Socket(s, size)
           t == Buffered(s)
           u == Accepted(s)
<1>1. /\ s \in Stream /\ PacketOK(s) /\ (OnTrack(s) \/ OffTrack(s))
      /\ s.chunkIndex \in Nat /\ s.numChunks \in Nat /\ len \in Nat
      /\ s.base \in Nat /\ s.next \in Nat /\ s.blk \in Blocks
  BY DEF StreamOK, Stream
<1>2. s.next = p
  BY DEF StreamOK
<1>3. x \in Nat /\ x < len /\ y = x + ChunkSize /\ ChunkSize \in Nat
  BY <1>1, ChunkLeft, Multiples
<1>4. size = Least(ChunkSize, len - x)
  BY DEF Size
<1>5. OnTrack(s) => s.next = s.base + Least(x, len)
  BY DEF OnTrack
<1>6. OffTrack(s) => s.next > s.base + x
  BY DEF OffTrack
<1> HIDE DEF x, y, len, size
<1>7. /\ size \in 1 .. ChunkSize /\ size <= len - x /\ size \in Nat
      /\ x + size = Least(y, len) /\ Least(x, len) = x
  BY <1>1, <1>3, <1>4, PartOfChunk, Zenon
<1>8. OnTrack(s) => s.next = s.base + x
  BY <1>5, <1>7
<1>9. bytes \in Seq(Int) /\ Len(bytes) = size
  BY <1>1, <1>7, SocketBytes
<1>10. t = [dn |-> s.dn, blk |-> s.blk, base |-> s.base, next |-> s.next + size,
            packetLength |-> s.packetLength, chunkIndex |-> s.chunkIndex,
            numChunks |-> s.numChunks, lastPacket |-> s.lastPacket, chunk |-> bytes]
  <2> DEFINE z == s.next + size
  <2>1. t = [s EXCEPT !.chunk = bytes, !.next = z]
    BY DEF Buffered, size
  <2> HIDE DEF bytes, t, z
  <2>2. t = [dn |-> s.dn, blk |-> s.blk, base |-> s.base, next |-> z,
             packetLength |-> s.packetLength, chunkIndex |-> s.chunkIndex,
             numChunks |-> s.numChunks, lastPacket |-> s.lastPacket, chunk |-> bytes]
    BY ONLY <1>1, <2>1, Zenon DEF Stream
  <2>3. QED
    BY <2>2 DEF z
<1>11. u = [dn |-> s.dn, blk |-> s.blk, base |-> s.base, next |-> s.next + size,
            packetLength |-> s.packetLength, chunkIndex |-> s.chunkIndex + 1,
            numChunks |-> s.numChunks, lastPacket |-> s.lastPacket, chunk |-> bytes]
  <2>1. u = [t EXCEPT !.chunkIndex = @ + 1]
    BY ONLY DEF Accepted
  <2> HIDE DEF t, u, bytes
  <2>2. QED
    BY ONLY <1>10, <2>1
<1> HIDE DEF bytes, t, u
<1>12. s.next + size \in Nat /\ s.chunkIndex + 1 \in Nat /\ size > 0
  BY ONLY <1>1, <1>7
<1>13. t \in Stream /\ PacketOK(t)
  <2>1. t \in Stream
    BY ONLY <1>1, <1>9, <1>10, <1>12 DEF Stream
  <2>2. QED
    BY ONLY <1>1, <1>10, <2>1 DEF PacketOK
<1>14. u \in Stream /\ PacketOK(u)
  <2>1. u \in Stream
    BY ONLY <1>1, <1>9, <1>11, <1>12 DEF Stream
  <2>2. s.chunkIndex + 1 <= s.numChunks
    BY <1>1
  <2>3. QED
    BY ONLY <1>1, <1>11, <2>1, <2>2 DEF PacketOK
<1>15. t.next = p + Len(t.chunk) /\ u.next = p + Len(u.chunk)
  BY ONLY <1>2, <1>9, <1>10, <1>11
<1>16. OffTrack(t)
  <2>1. s.next + size > s.base + x
    BY ONLY <1>1, <1>3, <1>6, <1>7, <1>8
  <2>2. QED
    BY <1>10, <2>1 DEF OffTrack, x
<1>17. OnTrack(s) => OnTrack(u)
  <2>1. ASSUME OnTrack(s) PROVE s.next + size = s.base + Least(y, len)
    <3>1. s.next = s.base + x
      BY <1>8, <2>1
    <3>2. (s.base + x) + size = s.base + (x + size)
      BY ONLY <1>1, <1>3, <1>7
    <3>3. QED
      BY ONLY <1>7, <3>1, <3>2
  <2>2. QED
    BY ONLY <1>11, <2>1 DEF OnTrack, y, len
<1>18. ASSUME Valid(s, s.chunkIndex, bytes) PROVE OnTrack(s)
  <2>1. SUFFICES ASSUME OffTrack(s) PROVE FALSE
    BY <1>1
  <2> DEFINE w == Written(s.blk, s.base + x, size)
  <2>2. bytes = w
    BY <1>4, <1>18 DEF Valid, x, len
  <2>3. w[1] = Start[s.blk] + (s.base + x) + 1 - 1
    <3>1. s.base + x \in Nat /\ 1 \in 1 .. size
      BY ONLY <1>1, <1>3, <1>7
    <3> DEFINE q == s.base + x
               k == s.blk
    <3>2. q \in Nat /\ k \in Blocks /\ size \in Nat /\ 1 \in 1 .. size
      BY <1>1, <1>7, <3>1
    <3> HIDE DEF q, k
    <3>a. \A i \in 1 .. size : Written(k, q, size)[i] = Start[k] + q + i - 1
      BY ONLY <3>2, WrittenParts
    <3>3. Written(k, q, size)[1] = Start[k] + q + 1 - 1
      BY ONLY <3>2, <3>a
    <3>4. QED
      BY <3>3 DEF q, k
  <2>4. bytes[1] # Start[s.blk] + (s.base + x) + 1 - 1
    BY <1>1, <1>7, <1>12, <2>1, OffTrackDiffers DEF x, bytes
  <2> HIDE DEF w
  <2>5. QED
    BY ONLY <2>2, <2>3, <2>4
<1>19. ASSUME Healthy(s.blk), OnTrack(s) PROVE bytes = Written(s.blk, p, size) /\ p = s.base + x
  <2>1. s.next + size <= s.base + len
    BY ONLY <1>1, <1>3, <1>7, <1>8, <1>19
  <2>2. QED
    BY <1>1, <1>2, <1>7, <1>8, <1>19, <2>1, SocketBytes, Zenon DEF bytes, len
<1>20. ASSUME Healthy(s.blk), OnTrack(s) PROVE Valid(s, s.chunkIndex, bytes) /\ Right(u, p, u.chunk)
  <2>1. Valid(s, s.chunkIndex, bytes)
    BY <1>4, <1>19, <1>20 DEF Valid, x, len
  <2>2. QED
    BY <1>9, <1>11, <1>19, <1>20, <2>1 DEF Right
<1>21. StreamOK(t, p)
  BY <1>13, <1>15, <1>16 DEF StreamOK
<1>22. Valid(s, s.chunkIndex, bytes) => StreamOK(u, p)
  BY <1>14, <1>15, <1>17, <1>18 DEF StreamOK
<1>23. /\ t.chunk = bytes /\ t.dn = s.dn /\ t.blk = s.blk /\ t.chunkIndex = s.chunkIndex
       /\ t.numChunks = s.numChunks
       /\ u.chunk = bytes /\ u.dn = s.dn /\ u.blk = s.blk
  BY ONLY <1>10, <1>11
<1>24. QED
  BY <1>7, <1>9, <1>17, <1>20, <1>21, <1>22, <1>23 DEF bytes, t, u, size

\* The outcome of a read, from byte p of the block on, of at most m bytes.
ReadOK(s, p, m, o) ==
    /\ o.bytes \in Seq(Int) /\ Len(o.bytes) <= m /\ o.err \in {"nil", "EOF", "error"}
    /\ o.err # "error" => /\ StreamOK(o.s, p + Len(o.bytes))
                          /\ o.s.dn = s.dn /\ o.s.blk = s.blk

\* And what it returns, when no chunk of the block is corrupt.
ReadRight(s, p, o) ==
    /\ Right(s, p, o.bytes)
    /\ o.err # "error" => OnTrack(o.s) /\ Right(o.s, p + Len(o.bytes), o.s.chunk)

\* A read of less than a chunk.
LEMMA SmallReadOK ==
    ASSUME NEW s, NEW p \in Nat, StreamOK(s, p), s.chunk = <<>>, s.chunkIndex < s.numChunks,
           NEW m \in Nat, NEW o, o = SmallRead(s, m)
    PROVE  /\ ReadOK(s, p, m, o) /\ o.err = "nil"
           /\ Healthy(s.blk) /\ OnTrack(s) => ReadRight(s, p, o)
<1> DEFINE bytes == Socket(s, Size(s))
           t == Buffered(s)
           u == Accepted(s)
<1>1. o = IF Valid(s, s.chunkIndex, bytes) THEN FromChunk(u, m) ELSE Outcome(t, <<>>, "nil")
  BY DEF SmallRead, Size, Buffered, Accepted
<1>2. /\ bytes \in Seq(Int)
      /\ t.chunk = bytes /\ t.dn = s.dn /\ t.blk = s.blk
      /\ u.chunk = bytes /\ u.dn = s.dn /\ u.blk = s.blk
      /\ StreamOK(t, p)
      /\ Valid(s, s.chunkIndex, bytes) => StreamOK(u, p)
      /\ Healthy(s.blk) /\ OnTrack(s) =>
             /\ Valid(s, s.chunkIndex, bytes) /\ OnTrack(u)
             /\ Right(u, p, u.chunk)
  BY ChunkBuffered, Zenon
<1> HIDE DEF u, t, bytes
<1>3. CASE Valid(s, s.chunkIndex, bytes)
  <2>1. o = FromChunk(u, m) /\ StreamOK(u, p)
    BY <1>1, <1>2, <1>3
  <2>2. /\ o.bytes \in Seq(Int) /\ o.err = "nil" /\ Len(o.bytes) = Least(m, Len(u.chunk))
        /\ StreamOK(o.s, p + Len(o.bytes)) /\ o.s.dn = u.dn /\ o.s.blk = u.blk
        /\ OnTrack(u) => OnTrack(o.s)
        /\ Right(u, p, u.chunk) =>
               Right(u, p, o.bytes) /\ Right(o.s, p + Len(o.bytes), o.s.chunk)
    BY <2>1, FromChunkOK, Zenon DEF FromBuffer
  <2>3. Len(o.bytes) <= m
    <3>1. Len(u.chunk) \in Nat
      BY <1>2
    <3>2. QED
      BY <2>2, <3>1 DEF Least
  <2>4. ReadOK(s, p, m, o)
    BY <1>2, <2>2, <2>3, Zenon DEF ReadOK
  <2>5. Healthy(s.blk) /\ OnTrack(s) => ReadRight(s, p, o)
    BY <1>2, <2>2, Zenon DEF ReadRight, Right
  <2>6. QED
    BY <2>2, <2>4, <2>5
<1>4. CASE ~Valid(s, s.chunkIndex, bytes)
  <2>1. o.s = t /\ o.bytes = <<>> /\ o.err = "nil" /\ StreamOK(t, p)
    BY <1>1, <1>2, <1>4 DEF Outcome
  <2>2. p + Len(o.bytes) = p /\ Len(o.bytes) <= m /\ o.bytes \in Seq(Int)
    BY <2>1
  <2>3. QED
    BY <1>2, <1>4, <2>1, <2>2, Zenon DEF ReadOK
<1>5. QED
  BY <1>3, <1>4

\* How much a read of a chunk or more reads.
LargeFits(ci, nc, len, m, c, a) ==
    /\ c \in Nat /\ c > 0 /\ ci + c <= nc
    /\ a \in Nat /\ a > 0 /\ a <= m
    /\ ci * ChunkSize + a <= len
    /\ ci * ChunkSize + a = Least((ci + c) * ChunkSize, len)

\* It is whole chunks, or what is left of the packet.
LEMMA LargeAmount ==
    ASSUME NEW ci \in Nat, NEW nc \in Nat, NEW len \in Nat, NEW m \in Nat,
           ci < nc, ci * ChunkSize < len, len <= nc * ChunkSize, m >= ChunkSize,
           NEW c, c = IF m > len - ci * ChunkSize THEN nc - ci ELSE m \div ChunkSize,
           NEW a, a = Least(len - ci * ChunkSize, c * ChunkSize)
    PROVE  LargeFits(ci, nc, len, m, c, a)
<1> DEFINE x == ci * ChunkSize
           z == nc * ChunkSize
           w == c * ChunkSize
           y == (ci + c) * ChunkSize
<1>1. x \in Nat /\ z \in Nat /\ x < len /\ len <= z
  BY Multiples
<1>2. CASE m > len - x
  <2>1. c = nc - ci /\ c \in Nat /\ c > 0 /\ ci + c = nc
    BY <1>2
  <2>2. w \in Nat /\ y = x + w /\ y = z
    BY <2>1, Multiples, Zenon
  <2>3. a = Least(len - x, w)
    OBVIOUS
  <2> HIDE DEF x, z, w, y
  <2>4. a = len - x
    BY ONLY <1>1, <2>2, <2>3 DEF Least
  <2>5. a \in Nat /\ a > 0 /\ a <= m /\ x + a <= len /\ x + a = len /\ Least(y, len) = len
    BY ONLY <1>1, <1>2, <2>2, <2>4, m \in Nat, len \in Nat DEF Least
  <2>6. QED
    BY <2>1, <2>5 DEF x, y, LargeFits
<1>3. CASE ~(m > len - x)
  <2>1. c = m \div ChunkSize /\ c \in Nat /\ c > 0 /\ w <= m
    BY <1>3, Quotient, Zenon
  <2>2. w \in Nat /\ y = x + w /\ w > 0
    <3>1. 0 < c
      BY <2>1
    <3>2. 0 * ChunkSize + ChunkSize <= w /\ w \in Nat /\ y = x + w
      BY <2>1, <3>1, Multiples, Zenon
    <3>3. QED
      BY <3>2
  <2>3. ci + c <= nc
    <3>1. SUFFICES ASSUME nc < ci + c PROVE FALSE
      BY <2>1
    <3> DEFINE k == ci + c
    <3>a. k \in Nat /\ nc \in Nat /\ nc < k
      BY <2>1, <3>1
    <3> HIDE DEF k
    <3>b. nc * ChunkSize + ChunkSize <= k * ChunkSize
      BY ONLY <3>a, Multiples
    <3>2. z + ChunkSize <= y
      BY ONLY <3>b DEF k
    <3> HIDE DEF x, y, z, w
    <3>3. QED
      BY ONLY <1>1, <1>3, <2>1, <2>2, <3>2, len \in Nat, m \in Nat, ChunkSize \in Nat \ {0}
  <2>4. a = Least(len - x, w)
    OBVIOUS
  <2> HIDE DEF x, z, w, y
  <2>5. a = w
    BY ONLY <1>1, <1>3, <2>1, <2>2, <2>4, len \in Nat, m \in Nat DEF Least
  <2>6. a \in Nat /\ a > 0 /\ a <= m /\ x + a <= len /\ x + a = Least(y, len)
    BY ONLY <1>1, <1>3, <2>1, <2>2, <2>5, len \in Nat, m \in Nat DEF Least
  <2>7. QED
    BY <2>1, <2>3, <2>6 DEF x, y, LargeFits
<1>4. QED
  BY <1>2, <1>3

\* The same of a stream.
LEMMA AmountOK ==
    ASSUME NEW s \in Stream, PacketOK(s), s.chunkIndex < s.numChunks,
           NEW m \in Nat, m >= ChunkSize
    PROVE  LargeFits(s.chunkIndex, s.numChunks, s.packetLength, m,
                     ChunksToRead(s, m), AmountToRead(s, m))
<1> DEFINE ci == s.chunkIndex
           x == ci * ChunkSize
           len == s.packetLength
           c == ChunksToRead(s, m)
           a == AmountToRead(s, m)
<1>a. /\ ci \in Nat /\ s.numChunks \in Nat /\ len \in Nat
      /\ x \in Nat /\ x < len /\ len <= s.numChunks * ChunkSize
  BY ChunkLeft, Zenon DEF PacketOK, Stream
<1>1. c = IF m > len - x THEN s.numChunks - ci ELSE m \div ChunkSize
  BY DEF ChunksToRead
<1>2. a = Least(len - x, c * ChunkSize)
  BY DEF AmountToRead
<1> DEFINE nc == s.numChunks
<1>3. /\ nc \in Nat /\ ci < nc /\ ci * ChunkSize < len /\ len <= nc * ChunkSize
      /\ c = IF m > len - ci * ChunkSize THEN nc - ci ELSE m \div ChunkSize
      /\ a = Least(len - ci * ChunkSize, c * ChunkSize)
  BY <1>a, <1>1, <1>2
<1>4. ci \in Nat /\ len \in Nat /\ m \in Nat /\ m >= ChunkSize
  BY <1>a
<1> HIDE DEF ci, len, c, a, nc
<1>5. LargeFits(ci, nc, len, m, c, a)
  BY ONLY <1>3, <1>4, LargeAmount
<1>6. QED
  BY <1>5 DEF ci, len, c, a, nc

\* A read of a chunk or more.
LEMMA LargeReadOK ==
    ASSUME NEW s, NEW p \in Nat, StreamOK(s, p), s.chunk = <<>>, s.chunkIndex < s.numChunks,
           NEW m \in Nat, m >= ChunkSize, NEW o, o = LargeRead(s, m)
    PROVE  /\ ReadOK(s, p, m, o)
           /\ Healthy(s.blk) /\ OnTrack(s) => ReadRight(s, p, o)
<1> DEFINE ci == s.chunkIndex
           x == ci * ChunkSize
           len == s.packetLength
           c == ChunksToRead(s, m)
           a == AmountToRead(s, m)
           bytes == Socket(s, a)
           t == o.s
<1>1. /\ s \in Stream /\ PacketOK(s) /\ (OnTrack(s) \/ OffTrack(s))
      /\ ci \in Nat /\ s.numChunks \in Nat /\ len \in Nat
      /\ s.base \in Nat /\ s.next \in Nat /\ s.blk \in Blocks /\ s.next = p
  BY DEF StreamOK, Stream
<1>2. /\ x \in Nat /\ x < len /\ len <= s.numChunks * ChunkSize
      /\ ci < s.numChunks
  BY <1>1, ChunkLeft, Zenon DEF PacketOK
<1>3. /\ c \in Nat /\ c > 0 /\ ci + c <= s.numChunks
      /\ a \in Nat /\ a > 0 /\ a <= m /\ x + a <= len
      /\ x + a = Least((ci + c) * ChunkSize, len)
  <2>1. LargeFits(ci, s.numChunks, len, m, c, a)
    BY <1>1, AmountOK, Zenon
  <2>2. QED
    BY <2>1 DEF LargeFits
<1>4. bytes \in Seq(Int) /\ Len(bytes) = a /\ bytes # <<>>
  <2>1. bytes \in Seq(Int) /\ Len(bytes) = a
    BY <1>1, <1>3, SocketBytes, Zenon
  <2>2. QED
    BY <1>3, <2>1
<1>5. /\ o.bytes = bytes /\ o.err \in {"nil", "EOF", "error"}
      /\ t = [s EXCEPT !.next = @ + Len(bytes), !.chunkIndex = @ + c]
      /\ o.err # "error" =>
            \A i \in 0 .. c - 1 :
                Valid(s, ci + i,
                      SubSeq(bytes \o [j \in 1 .. m - Len(bytes) |-> Bad], i * ChunkSize + 1,
                             Least((i + 1) * ChunkSize, m)))
  <2>1. bytes = Socket(s, AmountToRead(s, m)) /\ o = LargeRead(s, m)
    OBVIOUS
  <2> HIDE DEF bytes
  <2>2. QED
    BY ONLY <2>1, Zenon DEF LargeRead, Outcome
<1> HIDE DEF ci, x, len, c, a, bytes, t
<1>6. t = [dn |-> s.dn, blk |-> s.blk, base |-> s.base, next |-> s.next + a,
           packetLength |-> s.packetLength, chunkIndex |-> ci + c,
           numChunks |-> s.numChunks, lastPacket |-> s.lastPacket, chunk |-> s.chunk]
  <2>1. t = [s EXCEPT !.next = @ + a, !.chunkIndex = @ + c]
    BY ONLY <1>4, <1>5
  <2>2. QED
    BY ONLY <1>1, <2>1, Zenon DEF Stream, ci
<1>7. t \in Stream /\ PacketOK(t)
  <2>1. s.next + a \in Nat /\ ci + c \in Nat
    BY ONLY <1>1, <1>3
  <2>2. t \in Stream
    BY ONLY <1>1, <1>6, <2>1, Zenon DEF Stream
  <2>3. QED
    BY ONLY <1>1, <1>3, <1>6, <2>2 DEF PacketOK
<1>8. t.next = p + a /\ t.chunk = <<>> /\ Len(t.chunk) = 0
  BY <1>1, <1>6, Zenon
<1>9. OnTrack(s) => s.next = s.base + x
  BY <1>1, <1>2, Zenon DEF OnTrack, Least, x, len, ci
<1>10. OnTrack(s) => OnTrack(t)
  <2>1. ASSUME OnTrack(s) PROVE s.next + a = s.base + Least((ci + c) * ChunkSize, len)
    <3>1. s.next = s.base + x
      BY <1>9, <2>1
    <3>2. (s.base + x) + a = s.base + (x + a)
      BY ONLY <1>1, <1>2, <1>3
    <3>3. QED
      BY ONLY <1>3, <3>1, <3>2
  <2>2. QED
    BY ONLY <1>6, <2>1 DEF OnTrack, len
<1>11. ASSUME o.err # "error" PROVE OnTrack(s)
  <2>1. SUFFICES ASSUME OffTrack(s) PROVE FALSE
    BY <1>1
  <2> DEFINE z == [j \in 1 .. m - Len(bytes) |-> Bad]
             w == Least(ChunkSize, len - x)
             q == s.base + x
             k == s.blk
             v == SubSeq(bytes \o z, 1, ChunkSize)
  <2>2. Valid(s, ci + 0, SubSeq(bytes \o z, 0 * ChunkSize + 1, Least((0 + 1) * ChunkSize, m)))
    <3>1. 0 \in 0 .. c - 1
      BY ONLY <1>3
    <3> HIDE DEF z
    <3>2. QED
      BY <1>5, <1>11, <3>1, Zenon DEF z
  <2>3. v = Written(k, q, w)
    <3>1. ci + 0 = ci /\ 0 * ChunkSize + 1 = 1 /\ Least((0 + 1) * ChunkSize, m) = ChunkSize
      BY ONLY <1>1, m \in Nat, m >= ChunkSize, ChunkSize \in Nat \ {0} DEF Least
    <3> HIDE DEF z
    <3>2. Valid(s, ci, v)
      BY ONLY <2>2, <3>1
    <3>3. QED
      BY ONLY <3>2, Zenon DEF Valid, x, len
  <2>4. v[1] = bytes[1]
    <3>1. z \in Seq(Int)
      <4>1. m - Len(bytes) \in Nat
        BY ONLY <1>3, <1>4, m \in Nat
      <4> HIDE DEF bytes
      <4>2. QED
        BY <4>1, BuiltSeq DEF z, Bad
    <3> HIDE DEF z
    <3>2. bytes \o z \in Seq(Int) /\ 1 <= Len(bytes \o z) /\ (bytes \o z)[1] = bytes[1]
          /\ Len(bytes \o z) = a + Len(z)
      <4>1. bytes \in Seq(Int) /\ Len(bytes) = a /\ 1 \in 1 .. a
        BY ONLY <1>3, <1>4
      <4>2. Len(z) \in Nat
        BY ONLY <3>1
      <4> HIDE DEF bytes
      <4>3. /\ bytes \o z \in Seq(Int) /\ (bytes \o z)[1] = bytes[1]
            /\ Len(bytes \o z) = a + Len(z)
        BY ONLY <3>1, <4>1, ConcatParts
      <4>4. QED
        BY ONLY <4>1, <4>2, <4>3
    <3>3. Len(bytes \o z) = m
      BY ONLY <1>3, <1>4, <3>2, m \in Nat DEF z
    <3> DEFINE e == bytes \o z
    <3>4. e \in Seq(Int) /\ Len(e) = m /\ m \in Nat /\ ChunkSize \in 1 .. m
      BY ONLY <3>2, <3>3, m \in Nat, m >= ChunkSize, ChunkSize \in Nat \ {0}
    <3> HIDE DEF e
    <3>5. SubSeq(e, 1, ChunkSize)[1] = e[1]
      BY ONLY <3>4
    <3>6. QED
      BY ONLY <3>2, <3>5, Zenon DEF e
  <2>5. Written(k, q, w)[1] = Start[k] + q + 1 - 1
    <3>1. w \in Nat /\ 1 \in 1 .. w
      BY ONLY <1>1, <1>2, ChunkSize \in Nat \ {0} DEF Least
    <3>2. q \in Nat /\ k \in Blocks
      BY ONLY <1>1, <1>2
    <3> HIDE DEF w, q, k
    <3>3. \A i \in 1 .. w : Written(k, q, w)[i] = Start[k] + q + i - 1
      BY ONLY <3>1, <3>2, WrittenParts
    <3>4. QED
      BY ONLY <3>1, <3>3
  <2>6. bytes[1] # Start[s.blk] + (s.base + x) + 1 - 1
    BY <1>1, <1>3, <2>1, OffTrackDiffers DEF x, ci, bytes
  <2> HIDE DEF v, w
  <2>7. QED
    BY ONLY <2>3, <2>4, <2>5, <2>6
<1>12. ASSUME Healthy(s.blk), OnTrack(s) PROVE bytes = Written(s.blk, p, Len(bytes))
  <2>1. s.next + a <= s.base + len
    BY ONLY <1>1, <1>2, <1>3, <1>9, <1>12
  <2>2. QED
    BY <1>1, <1>3, <1>4, <1>12, <2>1, SocketBytes, Zenon DEF bytes, len
<1>13. ReadOK(s, p, m, o)
  <2>1. o.err # "error" => StreamOK(t, p + Len(o.bytes))
    <3>1. t.next = (p + Len(o.bytes)) + Len(t.chunk)
      BY ONLY <1>3, <1>4, <1>5, <1>8, p \in Nat
    <3>2. QED
      BY <1>7, <1>10, <1>11, <3>1 DEF StreamOK
  <2>2. t.dn = s.dn /\ t.blk = s.blk
    BY ONLY <1>6
  <2>3. QED
    BY <1>3, <1>4, <1>5, <2>1, <2>2 DEF ReadOK, t
<1>14. ASSUME Healthy(s.blk), OnTrack(s) PROVE ReadRight(s, p, o)
  <2>1. Right(s, p, o.bytes)
    BY <1>5, <1>12, <1>14 DEF Right
  <2>2. Right(t, p + Len(o.bytes), t.chunk)
    <3>1. t.blk \in Blocks /\ p + Len(o.bytes) \in Nat
      BY ONLY <1>1, <1>3, <1>4, <1>5, <1>6, p \in Nat, SMTT(60)
    <3>2. Written(t.blk, p + Len(o.bytes), 0) = <<>>
      BY <3>1 DEF Written
    <3>3. QED
      BY ONLY <1>8, <3>2 DEF Right
  <2>3. QED
    BY <1>10, <1>14, <2>1, <2>2 DEF ReadRight, t
<1>15. QED
  BY <1>13, <1>14
\* A read that gets nothing and leaves the stream as it is.
LEMMA NothingRead ==
    ASSUME NEW s, NEW p \in Nat, StreamOK(s, p), NEW m \in Nat, NEW o,
           o.bytes = <<>>, o.err \in {"nil", "EOF", "error"}, o.err # "error" => o.s = s
    PROVE  /\ ReadOK(s, p, m, o)
           /\ OnTrack(s) /\ Right(s, p, s.chunk) => ReadRight(s, p, o)
<1>1. o.bytes \in Seq(Int) /\ Len(o.bytes) = 0 /\ p + Len(o.bytes) = p /\ Len(o.bytes) <= m
  OBVIOUS
<1>2. s.blk \in Blocks
  BY Zenon DEF StreamOK, Stream
<1>3. Written(s.blk, p, 0) = <<>>
  BY DEF Written
<1>4. Right(s, p, o.bytes)
  BY <1>1, <1>3 DEF Right
<1>5. QED
  BY <1>1, <1>4, Zenon DEF ReadOK, ReadRight

\* A read while the connection holds.
LEMMA StreamReadOK ==
    ASSUME NEW s, NEW p \in Nat, StreamOK(s, p), p < BlockSize(s.blk),
           NEW m \in Nat, m > 0, NEW o, o = StreamRead(s, m)
    PROVE  /\ ReadOK(s, p, m, o)
           /\ Healthy(s.blk) /\ OnTrack(s) /\ Right(s, p, s.chunk) => ReadRight(s, p, o)
<1> DEFINE t == Packet(s)
<1>1. CASE AtPacketEnd(s) /\ s.lastPacket
  <2>1. o.s = s /\ o.bytes = <<>> /\ o.err = "EOF"
    BY <1>1, Zenon DEF StreamRead, Outcome
  <2>2. QED
    BY <2>1, NothingRead, Zenon
<1>2. CASE ~(AtPacketEnd(s) /\ s.lastPacket)
  <2>1. o = IF t.chunk # <<>> THEN FromChunk(t, m)
            ELSE IF m < ChunkSize THEN SmallRead(t, m)
            ELSE LargeRead(t, m)
    BY <1>2, Zenon DEF StreamRead
  <2> HIDE DEF t
  <2>2. /\ StreamOK(t, p) /\ t.dn = s.dn /\ t.blk = s.blk /\ t.chunk = s.chunk
        /\ t.next = s.next
        /\ OnTrack(s) => OnTrack(t)
        /\ s.next < BlockSize(s.blk) => t.chunkIndex < t.numChunks
    BY <1>2, PacketStarts DEF t
  <2>3. t.chunk = <<>> => t.chunkIndex < t.numChunks
    <3>1. ASSUME t.chunk = <<>> PROVE s.next < BlockSize(s.blk)
      BY <2>2, <3>1 DEF StreamOK
    <3>2. QED
      BY <2>2, <3>1, Zenon
  <2>4. SUFFICES /\ ReadOK(t, p, m, o)
                 /\ Healthy(t.blk) /\ OnTrack(t) /\ Right(t, p, t.chunk) => ReadRight(t, p, o)
    BY <2>2, Zenon DEF ReadOK, ReadRight, Right
  <2>5. CASE t.chunk # <<>>
    <3>1. o = FromChunk(t, m)
      BY <2>1, <2>5
    <3>2. /\ o.bytes \in Seq(Int) /\ o.err = "nil" /\ Len(o.bytes) = Least(m, Len(t.chunk))
          /\ StreamOK(o.s, p + Len(o.bytes)) /\ o.s.dn = t.dn /\ o.s.blk = t.blk
          /\ OnTrack(t) => OnTrack(o.s)
          /\ Right(t, p, t.chunk) =>
                 Right(t, p, o.bytes) /\ Right(o.s, p + Len(o.bytes), o.s.chunk)
      BY <2>2, <3>1, FromChunkOK, Zenon DEF FromBuffer
    <3>3. Len(o.bytes) <= m
      <4>1. Len(t.chunk) \in Nat
        BY <2>2 DEF StreamOK, Stream
      <4>2. QED
        BY <3>2, <4>1 DEF Least
    <3>4. QED
      BY <3>2, <3>3, Zenon DEF ReadOK, ReadRight
  <2>6. CASE t.chunk = <<>> /\ m < ChunkSize
    <3>1. o = SmallRead(t, m)
      BY <2>1, <2>6
    <3>2. QED
      BY <2>2, <2>3, <2>6, <3>1, SmallReadOK, Zenon
  <2>7. CASE t.chunk = <<>> /\ ~(m < ChunkSize)
    <3>1. o = LargeRead(t, m)
      BY <2>1, <2>7
    <3>2. m >= ChunkSize
      BY <2>7
    <3>3. QED
      BY <2>2, <2>3, <2>7, <3>1, <3>2, LargeReadOK, Zenon
  <2>8. QED
    BY <2>5, <2>6, <2>7, Zenon
<1>3. QED
  BY <1>1, <1>2

\* A read when the connection breaks.
LEMMA StreamReadBrokenOK ==
    ASSUME NEW s, NEW p \in Nat, StreamOK(s, p), p < BlockSize(s.blk), UsesConn(s),
           NEW m \in Nat, m > 0, NEW o \in StreamReadBroken(s, m)
    PROVE  /\ ReadOK(s, p, m, o)
           /\ Healthy(s.blk) /\ OnTrack(s) /\ Right(s, p, s.chunk) => ReadRight(s, p, o)
<1> DEFINE t == Packet(s)
<1>1. \/ o.s = s /\ o.bytes = <<>> /\ o.err \in {"EOF", "error"}
      \/ \E n \in 1 .. AmountToRead(t, m) - 1 :
             t.chunk = <<>> /\ m >= ChunkSize /\ o.bytes = Socket(t, n) /\ o.err = "error"
  BY DEF StreamReadBroken, Outcome
<1>2. CASE o.s = s /\ o.bytes = <<>> /\ o.err \in {"EOF", "error"}
  BY <1>2, NothingRead, Zenon
<1>3. ASSUME NEW n \in 1 .. AmountToRead(t, m) - 1,
             t.chunk = <<>> /\ m >= ChunkSize /\ o.bytes = Socket(t, n) /\ o.err = "error"
      PROVE  /\ ReadOK(s, p, m, o)
             /\ Healthy(s.blk) /\ OnTrack(s) => ReadRight(s, p, o)
  <2>1. ~(AtPacketEnd(s) /\ s.lastPacket)
    BY DEF UsesConn
  <2>2. /\ StreamOK(t, p) /\ t.blk = s.blk /\ t.chunk = <<>> /\ t.next = s.next
        /\ OnTrack(s) => OnTrack(t)
        /\ s.next < BlockSize(s.blk) => t.chunkIndex < t.numChunks
    BY <1>3, <2>1, PacketStarts, Zenon
  <2> DEFINE a == AmountToRead(t, m)
             x == t.chunkIndex * ChunkSize
  <2>3. s.next = p /\ t.chunkIndex < t.numChunks
    BY <2>2, SMTT(60) DEF StreamOK
  <2>4. /\ t \in Stream /\ PacketOK(t) /\ t.base \in Nat /\ t.packetLength \in Nat
        /\ t.blk \in Blocks /\ t.next \in Nat
    BY <2>2, Zenon DEF StreamOK, Stream
  <2> HIDE DEF t
  <2>5. LargeFits(t.chunkIndex, t.numChunks, t.packetLength, m, ChunksToRead(t, m), a)
    BY <1>3, <2>3, <2>4, AmountOK, Zenon
  <2>6. a \in Nat /\ a <= m /\ x + a <= t.packetLength /\ x \in Nat /\ x < t.packetLength
    BY <2>3, <2>4, <2>5, ChunkLeft DEF LargeFits
  <2>7. OnTrack(t) => t.next = t.base + x
    BY <2>4, <2>6 DEF OnTrack, Least
  <2>8. n \in 1 .. a - 1
    BY <1>3
  <2> HIDE DEF a, x
  <2>9. n \in Nat /\ n > 0 /\ n <= m
    BY ONLY <2>6, <2>8, m \in Nat
  <2>10. Socket(t, n) \in Seq(Int) /\ Len(Socket(t, n)) = n
    BY <2>4, <2>9, SocketBytes
  <2>11. ReadOK(s, p, m, o)
    BY <1>3, <2>9, <2>10 DEF ReadOK
  <2>12. ASSUME Healthy(s.blk), OnTrack(t) PROVE Socket(t, n) = Written(s.blk, p, n)
    <3>1. t.next + n <= t.base + t.packetLength
      BY ONLY <2>4, <2>6, <2>7, <2>8, <2>12
    <3>2. QED
      BY <2>2, <2>3, <2>4, <2>9, <2>12, <3>1, SocketBytes, Zenon
  <2>13. QED
    BY <1>3, <2>2, <2>10, <2>11, <2>12, Zenon DEF ReadRight, Right
<1>4. QED
  BY <1>1, <1>2, <1>3, Zenon
-----------------------------------------------------------------------------
(* Connecting.                                                             *)

\* A stream that has not read anything.
LEMMA NewStreamOK ==
    ASSUME NEW d \in Datanodes, NEW k \in Blocks, NEW q \in Nat, q <= BlockSize(k),
           NEW s, s = NewStream(d, k, q)
    PROVE  /\ StreamOK(s, q) /\ OnTrack(s) /\ AtPacketEnd(s) /\ ~s.lastPacket
           /\ s.dn = d /\ s.blk = k /\ s.chunk = <<>> /\ s.next = q
           /\ Right(s, q, s.chunk)
<1>1. s = [dn |-> d, blk |-> k, base |-> q, next |-> q, packetLength |-> 0,
           chunkIndex |-> 0, numChunks |-> 0, lastPacket |-> FALSE, chunk |-> <<>>]
  BY DEF NewStream
<1>2. <<>> \in Seq(Int)
  BY EmptyParts
<1>3. s \in Stream
  BY ONLY <1>1, <1>2, d \in Datanodes, k \in Blocks, q \in Nat DEF Stream
<1>4. 0 * ChunkSize = 0 /\ q + 0 = q /\ Least(0, 0) = 0
  BY DEF Least
<1>5. PacketOK(s)
  <2>1. 0 < 0 + ChunkSize /\ 0 <= 0
    OBVIOUS
  <2>2. QED
    BY ONLY <1>1, <1>4, <2>1, q <= BlockSize(k) DEF PacketOK
<1>6. OnTrack(s)
  BY ONLY <1>1, <1>4 DEF OnTrack
<1>7. s.next = q + Len(s.chunk)
  BY ONLY <1>1, q \in Nat
<1>8. Written(k, q, 0) = <<>> /\ Len(<<>>) = 0
  BY DEF Written
<1>9. Right(s, q, s.chunk)
  BY ONLY <1>1, <1>8 DEF Right
<1>10. QED
  BY <1>1, <1>3, <1>5, <1>6, <1>7, <1>9 DEF StreamOK, AtPacketEnd

\* The first chunk of the first packet has more than r bytes.
LEMMA FirstChunk ==
    ASSUME NEW d \in Datanodes, NEW k \in Blocks, NEW q \in Nat, NEW r \in Nat,
           r < ChunkSize, q + r < BlockSize(k), NEW t, t = Packet(NewStream(d, k, q))
    PROVE  Size(t) > r
<1> DEFINE left == BlockSize(k) - q
           full == PacketChunks * ChunkSize
<1>1. t.packetLength = Least(left, full) /\ t.chunkIndex = 0
  BY DEF Packet, StartPacket, AtPacketEnd, NewStream
<1>2. left \in Nat /\ left > r
  BY BlocksNotEmpty
<1>3. full \in Nat /\ full >= ChunkSize
  <2>1. PacketChunks \in Nat /\ 0 \in Nat /\ 0 < PacketChunks
    OBVIOUS
  <2>2. full \in Nat /\ 0 * ChunkSize + ChunkSize <= full
    BY <2>1, Multiples
  <2>3. QED
    BY <2>2
<1>4. Size(t) = Least(ChunkSize, t.packetLength - t.chunkIndex * ChunkSize)
  BY DEF Size
<1> HIDE DEF left, full
<1>5. Least(left, full) \in Nat /\ Least(left, full) > r
  BY <1>2, <1>3 DEF Least
<1> DEFINE len == Least(left, full)
<1>6. len \in Nat /\ len > r
  BY <1>5
<1> HIDE DEF len
<1>7. Size(t) = Least(ChunkSize, len - 0 * ChunkSize)
  BY <1>1, <1>4 DEF len
<1>8. QED
  BY <1>6, <1>7 DEF Least

\* The stream t of block k on d is at q + r.
Discarded(d, k, q, r, t) ==
    /\ StreamOK(t, q + r) /\ t.dn = d /\ t.blk = k
    /\ Healthy(k) => OnTrack(t) /\ Right(t, q + r, t.chunk)

\* The datanode starts at the beginning of a chunk, and the bytes before the
\* one wanted are thrown away.
LEMMA DiscardOK ==
    ASSUME NEW d \in Datanodes, NEW k \in Blocks, NEW q \in Nat, NEW r \in Nat,
           r < ChunkSize, q + r < BlockSize(k), NEW t, t = Discard(NewStream(d, k, q), r)
    PROVE  Discarded(d, k, q, r, t)
<1>0. SUFFICES /\ StreamOK(t, q + r) /\ t.dn = d /\ t.blk = k
               /\ Healthy(k) => OnTrack(t) /\ Right(t, q + r, t.chunk)
  BY Zenon DEF Discarded
<1> DEFINE s == NewStream(d, k, q)
           u == Packet(s)
           bytes == Socket(u, Size(u))
<1>1. /\ StreamOK(s, q) /\ OnTrack(s) /\ AtPacketEnd(s) /\ ~s.lastPacket
      /\ s.dn = d /\ s.blk = k /\ s.chunk = <<>> /\ s.next = q
      /\ Right(s, q, s.chunk)
  <2>1. q <= BlockSize(k)
    BY BlocksNotEmpty
  <2>2. QED
    <3> HIDE DEF s
    <3>1. s = NewStream(d, k, q)
      BY DEF s
    <3>2. QED
      BY ONLY <2>1, <3>1, NewStreamOK, d \in Datanodes, k \in Blocks, q \in Nat
<1>2. t = IF r = 0 THEN s
          ELSE IF StreamRead(s, r).bytes = <<>> THEN StreamRead(StreamRead(s, r).s, r).s
          ELSE StreamRead(s, r).s
  BY Zenon DEF Discard
<1> HIDE DEF s
<1>3. CASE r = 0
  <2>1. t = s /\ q + r = q
    BY <1>2, <1>3, SMTT(60)
  <2>2. QED
    BY <1>1, <2>1, Zenon
<1>4. CASE r # 0
  <2>1. /\ StreamOK(u, q) /\ u.dn = d /\ u.blk = k /\ u.chunk = <<>> /\ OnTrack(u)
        /\ u.chunkIndex < u.numChunks
    <3>1. q < BlockSize(k)
      BY BlocksNotEmpty
    <3>2. QED
      BY ONLY <1>1, <3>1, q \in Nat, PacketStarts
  <2>2. Size(u) > r
    BY FirstChunk DEF s
  <2>3. StreamRead(s, r) = SmallRead(u, r)
    BY <1>1, <2>1, Zenon DEF StreamRead
  <2>4. SmallRead(u, r) = IF Valid(u, u.chunkIndex, bytes) THEN FromChunk(Accepted(u), r)
                          ELSE Outcome(Buffered(u), <<>>, "nil")
    BY DEF SmallRead, Size, Buffered, Accepted
  <2> HIDE DEF u
  <2>5. /\ bytes \in Seq(Int) /\ Len(bytes) = Size(u) /\ Size(u) \in Nat
        /\ /\ Buffered(u).chunk = bytes /\ Buffered(u).dn = d /\ Buffered(u).blk = k
           /\ Buffered(u).chunkIndex < Buffered(u).numChunks
        /\ Accepted(u).chunk = bytes /\ Accepted(u).dn = d /\ Accepted(u).blk = k
        /\ StreamOK(Buffered(u), q)
        /\ Valid(u, u.chunkIndex, bytes) => StreamOK(Accepted(u), q)
        /\ Healthy(k) =>
               /\ Valid(u, u.chunkIndex, bytes) /\ OnTrack(Accepted(u))
               /\ Right(Accepted(u), q, Accepted(u).chunk)
    <3>1. /\ Size(u) \in 1 .. ChunkSize
          /\ Socket(u, Size(u)) \in Seq(Int) /\ Len(Socket(u, Size(u))) = Size(u)
          /\ /\ Buffered(u).chunk = Socket(u, Size(u)) /\ Buffered(u).dn = u.dn
             /\ Buffered(u).blk = u.blk /\ Buffered(u).chunkIndex = u.chunkIndex
             /\ Buffered(u).numChunks = u.numChunks
          /\ /\ Accepted(u).chunk = Socket(u, Size(u)) /\ Accepted(u).dn = u.dn
             /\ Accepted(u).blk = u.blk
          /\ StreamOK(Buffered(u), q)
          /\ Valid(u, u.chunkIndex, Socket(u, Size(u))) => StreamOK(Accepted(u), q)
          /\ Healthy(u.blk) /\ OnTrack(u) =>
                 /\ Valid(u, u.chunkIndex, Socket(u, Size(u))) /\ OnTrack(Accepted(u))
                 /\ Right(Accepted(u), q, Accepted(u).chunk)
      BY ONLY <2>1, q \in Nat, ChunkBuffered, Zenon
    <3>2. Size(u) \in Nat
      BY <3>1
    <3>3. QED
      BY ONLY <2>1, <3>1, <3>2, Zenon
  <2> HIDE DEF bytes
  <2>6. ASSUME NEW v, StreamOK(v, q), v.chunk = bytes, v.dn = d, v.blk = k,
               NEW o, o = FromChunk(v, r)
        PROVE  /\ o.bytes # <<>> /\ StreamOK(o.s, q + r) /\ o.s.dn = d /\ o.s.blk = k
               /\ OnTrack(v) /\ Right(v, q, v.chunk) => OnTrack(o.s) /\ Right(o.s, q + r, o.s.chunk)
    <3>1. FromBuffer(v, q, r, o)
      BY ONLY <2>6, q \in Nat, r \in Nat, FromChunkOK
    <3>2. Len(o.bytes) = r
      BY <2>2, <2>5, <2>6, <3>1, Zenon DEF FromBuffer, Least
    <3>3. o.bytes # <<>>
      BY <1>4, <3>2
    <3>4. QED
      BY <2>6, <3>1, <3>2, <3>3, Zenon DEF FromBuffer
  <2>7. CASE Valid(u, u.chunkIndex, bytes)
    <3> DEFINE o == FromChunk(Accepted(u), r)
    <3>1. StreamRead(s, r) = o
      BY <2>3, <2>4, <2>7
    <3> HIDE DEF o
    <3>2. /\ o.bytes # <<>> /\ StreamOK(o.s, q + r) /\ o.s.dn = d /\ o.s.blk = k
          /\ OnTrack(Accepted(u)) /\ Right(Accepted(u), q, Accepted(u).chunk) =>
                 OnTrack(o.s) /\ Right(o.s, q + r, o.s.chunk)
      BY <2>5, <2>6, <2>7, Zenon DEF o
    <3>3. t = o.s
      BY <1>2, <1>4, <3>1, <3>2, Zenon
    <3>4. QED
      BY <2>5, <3>2, <3>3, Zenon
  <2>8. CASE ~Valid(u, u.chunkIndex, bytes)
    <3> DEFINE v == Buffered(u)
               o == FromChunk(v, r)
    <3>1. StreamRead(s, r) = Outcome(v, <<>>, "nil")
      BY <2>3, <2>4, <2>8
    <3>2. StreamRead(s, r).s = v /\ StreamRead(s, r).bytes = <<>>
      BY <3>1 DEF Outcome
    <3>3. v.chunk # <<>>
      <4> DEFINE z == Size(u)
      <4>1. bytes # <<>>
        <5>1. z > r /\ Len(bytes) = z /\ z \in Nat /\ r \in Nat
          BY <2>2, <2>5, Zenon
        <5> HIDE DEF z
        <5>2. Len(bytes) # 0
          BY ONLY <5>1
        <5>3. QED
          BY ONLY <5>2
      <4>2. QED
        BY <2>5, <4>1, Zenon
    <3>4. v.chunkIndex # v.numChunks
      <4>1. v.chunkIndex \in Nat /\ v.chunkIndex < v.numChunks
        BY <2>5, Zenon DEF StreamOK, Stream, PacketOK
      <4> HIDE DEF v
      <4>2. QED
        BY ONLY <4>1
    <3> HIDE DEF v
    <3>5. StreamRead(v, r) = o
      BY <3>3, <3>4, Zenon DEF StreamRead, Packet, AtPacketEnd
    <3>6. t = o.s
      BY <1>2, <1>4, <3>2, <3>5, Zenon
    <3> HIDE DEF o
    <3>7. StreamOK(o.s, q + r) /\ o.s.dn = d /\ o.s.blk = k
      BY <2>5, <2>6, Zenon DEF o, v
    <3>8. QED
      BY <2>5, <2>8, <3>6, <3>7, Zenon
  <2>9. QED
    BY <2>7, <2>8
<1>5. QED
  BY <1>3, <1>4

-----------------------------------------------------------------------------
(* The block of an offset, and the datanodes.                              *)

\* The order on the natural numbers.
Below == {ss \in Nat \X Nat : ss[1] < ss[2]}

\* A set of natural numbers that is not empty has a least one.
LEMMA NatMin ==
    ASSUME NEW T \in SUBSET Nat, T # {}
    PROVE  \E x \in T : \A y \in T : x <= y
<1>1. IsWellFoundedOn(Below, Nat)
  BY NatLessThanWellFounded DEF OpToRel, Below
<1>2. PICK x \in T : \A y \in T : ~ (<<y, x>> \in Below)
  BY <1>1, WFMin, Zenon
<1>3. ASSUME NEW y \in T PROVE x <= y
  <2>1. y \in Nat /\ x \in Nat
    OBVIOUS
  <2>2. ~ (<<y, x>> \in Below)
    BY <1>2
  <2>3. y < x => <<y, x>> \in Below
    BY <2>1 DEF Below
  <2>4. QED
    BY <2>1, <2>2, <2>3
<1>4. QED
  BY <1>3


\* Every offset in the file is in a block.
LEMMA BlockOf ==
    ASSUME NEW off \in Nat, off < FileSize,
           NEW k, k = CHOOSE j \in Blocks : Start[j] <= off /\ off < Start[j + 1]
    PROVE  k \in Blocks /\ Start[k] <= off /\ off < Start[k + 1]
<1> DEFINE n == Len(Start)
           Later == {j \in 1 .. n : off < Start[j]}
<1>1. n \in Nat /\ n \in 1 .. n /\ \A j \in 1 .. n : Start[j] \in Nat
  OBVIOUS
<1>2. n \in Later
  BY <1>1 DEF FileSize
<1>3. PICK j \in Later : \A i \in Later : j <= i
  <2>1. Later \in SUBSET Nat /\ Later # {}
    BY <1>2
  <2> HIDE DEF Later
  <2>2. QED
    BY <2>1, NatMin
<1>4. j \in 1 .. n /\ off < Start[j] /\ j # 1
  OBVIOUS
<1>5. j - 1 \in 1 .. n - 1 /\ j - 1 \in 1 .. n /\ ~(j <= j - 1) /\ (j - 1) + 1 = j
  BY <1>1, <1>4
<1>6. ~(off < Start[j - 1])
  BY <1>3, <1>5
<1>7. Start[j - 1] <= off /\ off < Start[(j - 1) + 1] /\ j - 1 \in Blocks
  BY <1>1, <1>4, <1>5, <1>6 DEF Blocks
<1>8. \E i \in Blocks : Start[i] <= off /\ off < Start[i + 1]
  BY <1>7
<1>9. QED
  BY <1>8

\* t has the elements of s but the one at i.
Without(s, i, t) ==
    /\ t \in Seq(Datanodes) /\ Len(t) = Len(s) - 1
    /\ \A j \in 1 .. Len(t) : t[j] = s[IF j < i THEN j ELSE j + 1]
    /\ Range(s) \subseteq Range(t) \cup {s[i]}
    /\ Range(t) \subseteq Range(s)

\* What Drop leaves.
LEMMA Removed ==
    ASSUME NEW s \in Seq(Datanodes), NEW i \in 1 .. Len(s)
    PROVE  Without(s, i, Drop(s, i)) /\ s[i] \in Datanodes
<1> DEFINE S == Datanodes
           t == Drop(s, i)
<1> HIDE DEF S
<1>0. s \in Seq(S)
  BY DEF S
<1> DEFINE x == SubSeq(s, 1, i - 1)
           y == SubSeq(s, i + 1, Len(s))
<1>1. /\ x \in Seq(S) /\ Len(x) = i - 1 /\ \A j \in 1 .. i - 1 : x[j] = s[j]
      /\ y \in Seq(S) /\ Len(y) = Len(s) - i /\ \A j \in 1 .. Len(s) - i : y[j] = s[i + j]
  BY ONLY <1>0, i \in 1 .. Len(s)
<1>2. t = x \o y
  BY DEF Drop
<1> HIDE DEF x, y, t
<1>3. t \in Seq(S) /\ Len(t) = Len(s) - 1
  BY <1>1, <1>2
<1>4. ASSUME NEW j \in 1 .. Len(t) PROVE t[j] = s[IF j < i THEN j ELSE j + 1]
  <2>1. CASE j < i
    BY <1>1, <1>2, <1>3, <2>1
  <2>2. CASE ~(j < i)
    <3>1. t[j] = y[j - (i - 1)] /\ j - (i - 1) \in 1 .. Len(s) - i
      BY <1>1, <1>2, <1>3, <2>2, SMTT(60)
    <3>2. t[j] = s[i + (j - (i - 1))] /\ i + (j - (i - 1)) = j + 1
      BY <1>1, <3>1
    <3>3. QED
      BY <2>2, <3>2
  <2>3. QED
    BY <2>1, <2>2
<1>5. ASSUME NEW e \in Range(s), e # s[i] PROVE e \in Range(t)
  <2>1. PICK j \in 1 .. Len(s) : s[j] = e
    BY DEF Range
  <2>2. j # i
    BY <1>5, <2>1
  <2> DEFINE l == IF j < i THEN j ELSE j - 1
  <2>3. l \in 1 .. Len(t) /\ (IF l < i THEN l ELSE l + 1) = j
    BY <1>3, <2>2
  <2> HIDE DEF l
  <2>4. t[l] = e
    BY <1>4, <2>1, <2>3, Zenon
  <2>5. QED
    BY <1>3, <2>3, <2>4 DEF Range
<1>6. ASSUME NEW e \in Range(t) PROVE e \in Range(s)
  <2>1. PICK j \in 1 .. Len(t) : t[j] = e
    BY <1>3 DEF Range
  <2> DEFINE l == IF j < i THEN j ELSE j + 1
  <2>2. l \in 1 .. Len(s) /\ s[l] = e
    BY <1>3, <1>4, <2>1
  <2> HIDE DEF l
  <2>3. QED
    BY <2>2 DEF Range
<1>7. QED
  BY <1>3, <1>4, <1>5, <1>6 DEF Without, S, t

\* Having failed is being on the list of failures.
LEMMA FailedIn ==
    ASSUME datanodeFailures \in Seq(Datanodes), NEW d
    PROVE  /\ HasFailed(d) <=> d \in Range(datanodeFailures)
           /\ HasFailed(d) => /\ FailedAt(d) \in 1 .. Len(datanodeFailures)
                              /\ FailedAt(d) \in Nat
                              /\ datanodeFailures[FailedAt(d)] = d
  BY DEF HasFailed, FailedAt, Range

\* next picks one of the datanodes, and one that has failed only if all have.
LEMMA PickedOK ==
    ASSUME datanodeFailures \in Seq(Datanodes), NEW list \in Seq(Datanodes), list # <<>>,
           NEW i, i = Picked(list)
    PROVE  /\ i \in 1 .. Len(list)
           /\ list[i] \in Range(datanodeFailures) =>
                  Range(list) \subseteq Range(datanodeFailures)
<1> DEFINE fresh == {j \in DOMAIN list : ~HasFailed(list[j])}
<1>1. DOMAIN list = 1 .. Len(list) /\ 1 \in DOMAIN list
  OBVIOUS
<1>2. CASE fresh # {}
  <2>1. i = CHOOSE l \in fresh : \A j \in fresh : l <= j
    BY <1>2, Zenon DEF Picked
  <2>2. fresh \in SUBSET Nat
    BY <1>1
  <2>3. fresh \subseteq DOMAIN list /\ \A j \in fresh : ~HasFailed(list[j])
    OBVIOUS
  <2> HIDE DEF fresh
  <2>4. \E x \in fresh : \A y \in fresh : x <= y
    BY <1>2, <2>2, NatMin, Zenon
  <2>5. i \in fresh
    BY <2>1, <2>4
  <2>6. QED
    BY <1>1, <2>3, <2>5, FailedIn
<1>3. CASE fresh = {}
  <2> DEFINE ats == {FailedAt(list[j]) : j \in DOMAIN list}
  <2>1. \A j \in DOMAIN list : HasFailed(list[j])
    BY <1>3
  <2>2. i = CHOOSE l \in DOMAIN list : \A j \in DOMAIN list : FailedAt(list[l]) <= FailedAt(list[j])
    BY <1>3 DEF Picked
  <2>3. ats \in SUBSET Nat /\ ats # {}
    <3>1. \A j \in DOMAIN list : FailedAt(list[j]) \in Nat
      BY <2>1, FailedIn, Zenon
    <3>2. QED
      BY ONLY <1>1, <3>1, Zenon
  <2>4. PICK x \in ats : \A y \in ats : x <= y
    <3> HIDE DEF ats
    <3>1. QED
      BY <2>3, NatMin, Zenon
  <2>5. PICK l \in DOMAIN list : x = FailedAt(list[l])
    BY <2>4
  <2>6. \A j \in DOMAIN list : FailedAt(list[l]) <= FailedAt(list[j])
    BY <2>4, <2>5
  <2>7. i \in DOMAIN list
    BY <2>2, <2>6
  <2>8. Range(list) \subseteq Range(datanodeFailures)
    BY <2>1, FailedIn DEF Range
  <2>9. QED
    BY <1>1, <2>7, <2>8
<1>4. QED
  BY <1>2, <1>3

\* recordFailure adds the datanode to those that have failed, once.
LEMMA FailureRecorded ==
    ASSUME datanodeFailures \in Seq(Datanodes), IsInjective(datanodeFailures),
           NEW d \in Datanodes, RecordFailure(d)
    PROVE  /\ datanodeFailures' \in Seq(Datanodes) /\ IsInjective(datanodeFailures')
           /\ Range(datanodeFailures) \subseteq Range(datanodeFailures')
           /\ d \in Range(datanodeFailures')
<1> DEFINE F == datanodeFailures
           i == FailedAt(d)
           rest == IF HasFailed(d) THEN Drop(F, i) ELSE F
<1>1. /\ rest \in Seq(Datanodes)
      /\ \A j \in 1 .. Len(rest) : rest[j] # d
      /\ \A j, l \in 1 .. Len(rest) : rest[j] = rest[l] => j = l
      /\ Range(F) \subseteq Range(rest) \cup {d}
  <2>1. CASE ~HasFailed(d)
    <3>1. rest = F
      BY <2>1, Zenon
    <3>2. DOMAIN F = 1 .. Len(F) /\ F \in Seq(Datanodes)
      OBVIOUS
    <3>3. \A j \in DOMAIN F : F[j] # d
      BY <2>1, Zenon DEF HasFailed, Range
    <3>4. \A j, l \in DOMAIN F : F[j] = F[l] => j = l
      BY Zenon DEF IsInjective
    <3> HIDE DEF rest, F
    <3>5. QED
      BY ONLY <3>1, <3>2, <3>3, <3>4, Zenon
  <2>2. CASE HasFailed(d)
    <3>1. rest = Drop(F, i) /\ i \in 1 .. Len(F) /\ F[i] = d
      BY <2>2, FailedIn
    <3>0. Len(F) \in Nat
      OBVIOUS
    <3> HIDE DEF rest, i
    <3>2. /\ rest \in Seq(Datanodes) /\ Len(rest) = Len(F) - 1
          /\ \A j \in 1 .. Len(rest) : rest[j] = F[IF j < i THEN j ELSE j + 1]
          /\ Range(F) \subseteq Range(rest) \cup {F[i]}
      <4>1. Without(F, i, rest)
        BY <3>1, Removed, Zenon
      <4>2. QED
        BY <4>1 DEF Without
    <3>3. \A j, l \in 1 .. Len(F) : F[j] = F[l] => j = l
      BY DEF IsInjective
    <3>4. ASSUME NEW j \in 1 .. Len(rest) PROVE rest[j] # d
      <4> DEFINE jj == IF j < i THEN j ELSE j + 1
      <4>1. jj \in 1 .. Len(F) /\ jj # i /\ rest[j] = F[jj]
        BY ONLY <3>0, <3>1, <3>2, j \in 1 .. Len(rest)
      <4> HIDE DEF jj
      <4>2. QED
        BY <3>1, <3>3, <4>1, Zenon
    <3>5. ASSUME NEW j \in 1 .. Len(rest), NEW l \in 1 .. Len(rest), rest[j] = rest[l]
          PROVE  j = l
      <4> DEFINE jj == IF j < i THEN j ELSE j + 1
                 ll == IF l < i THEN l ELSE l + 1
      <4>1. /\ jj \in 1 .. Len(F) /\ rest[j] = F[jj]
            /\ ll \in 1 .. Len(F) /\ rest[l] = F[ll]
        BY ONLY <3>0, <3>1, <3>2, j \in 1 .. Len(rest), l \in 1 .. Len(rest)
      <4>2. jj = ll => j = l
        BY ONLY <3>0, <3>1, <3>2, j \in 1 .. Len(rest), l \in 1 .. Len(rest)
      <4> HIDE DEF jj, ll
      <4>3. QED
        BY <3>3, <3>5, <4>1, <4>2, Zenon
    <3>6. QED
      BY <3>1, <3>2, <3>4, <3>5
  <2>3. QED
    BY <2>1, <2>2, Zenon
<1>2. F' = Append(rest, d)
  BY DEF RecordFailure
<1> HIDE DEF rest, i
<1> DEFINE G == Append(rest, d)
<1>3. /\ G \in Seq(Datanodes) /\ Len(G) = Len(rest) + 1 /\ G[Len(rest) + 1] = d
      /\ \A j \in 1 .. Len(rest) : G[j] = rest[j]
      /\ DOMAIN G = 1 .. Len(rest) + 1 /\ DOMAIN rest = 1 .. Len(rest) /\ Len(rest) \in Nat
  BY <1>1
<1> HIDE DEF G
<1>4. ASSUME NEW j \in DOMAIN G, NEW l \in DOMAIN G, G[j] = G[l] PROVE j = l
  <2>1. CASE j = Len(rest) + 1 \/ l = Len(rest) + 1
    BY <1>1, <1>3, <1>4, <2>1
  <2>2. CASE j \in 1 .. Len(rest) /\ l \in 1 .. Len(rest)
    BY <1>1, <1>3, <1>4, <2>2
  <2>3. QED
    BY <1>3, <2>1, <2>2
<1>5. d \in Range(G) /\ Range(rest) \subseteq Range(G)
  <2>1. Len(rest) + 1 \in DOMAIN G /\ G[Len(rest) + 1] = d
    BY <1>3
  <2>2. \A j \in DOMAIN rest : j \in DOMAIN G /\ G[j] = rest[j]
    BY <1>3
  <2>3. QED
    BY ONLY <2>1, <2>2 DEF Range
<1>6. F' = G
  BY <1>2 DEF G
<1>7. QED
  BY <1>1, <1>3, <1>4, <1>5, <1>6 DEF IsInjective
-----------------------------------------------------------------------------
(* The invariant.                                                          *)

Times == Deadlines \cup {0}

Errors == {"nil", "EOF", "error"}

Result == [bytes : Seq(Int), err : Errors]

Reader == [blk : Blocks, offset : Nat, datanodes : Seq(Datanodes), current : 0 .. NDatanodes,
           stream : Stream \cup {NoStream}, deadline : Times,
           connDeadline : Times \cup {Undated}, closed : BOOLEAN]

Types ==
    /\ pc \in {"idle", "read", "check", "loop", "returned"} /\ b \in Nat
    /\ br \in Reader \cup {NoReader} /\ ret \in Result /\ got \in Result
    /\ datanodeFailures \in Seq(Datanodes) /\ IsInjective(datanodeFailures)
    /\ offset \in Nat /\ closed \in BOOLEAN /\ blocks \in BOOLEAN /\ deadline \in Times
    /\ call \in [op : {"none", "Read", "ReadAt"}, at : Nat, want : Nat]

\* A BlockReader r under deadline t, when the datanodes in F have failed: its
\* stream is where the reader is, every datanode is still to be tried, in use or
\* failed, and one that has failed is in use only if the others have as well, or
\* its connection takes no deadline.
ReaderOK(r, t, F) ==
    /\ r.deadline = t
    /\ r.stream # NoStream =>
           /\ StreamOK(r.stream, r.offset) /\ r.stream.dn = r.current /\ r.stream.blk = r.blk
           /\ r.connDeadline \in {t, Undated}
           /\ r.connDeadline # Undated /\ r.current \in F => Range(r.datanodes) \subseteq F
    /\ Datanodes \subseteq
           Range(r.datanodes) \cup F \cup (IF r.stream = NoStream THEN {} ELSE {r.current})

ReaderInv == br # NoReader => ReaderOK(br, deadline, Range(datanodeFailures))

\* Where the file and its BlockReader are.
PlaceInv ==
    /\ br # NoReader /\ ~closed =>
           Start[br.blk] + br.offset = offset + (IF pc = "returned" THEN Len(ret.bytes) ELSE 0)
    /\ pc = "loop" => br.offset < BlockSize(br.blk)
    /\ pc \in {"check", "loop", "returned"} =>
           ~closed /\ b > 0 /\ offset < FileSize /\ br # NoReader

\* How far the call in progress has come.
CallInv ==
    /\ pc # "idle" => call.op # "none"
    /\ call.op # "none" => offset = call.at + Len(got.bytes)
    /\ pc # "idle" /\ call.op = "ReadAt" => call.want = Len(got.bytes) + b /\ b > 0
    /\ pc # "idle" /\ call.op = "Read" => got.bytes = <<>> /\ b = call.want
    /\ EOFOnlyAtEnd

\* What BlockReader.Read returns.
RetInv ==
    pc = "returned" =>
        /\ Len(ret.bytes) <= b
        /\ ret.err = "error" /\ ~br.closed =>
               br.datanodes = <<>> /\ Datanodes \subseteq Range(datanodeFailures)

\* Bytes, if any, read at offset off from block k on: off is in the block, and
\* they are right when no chunk of it is corrupt.
Sound(k, bytes, off) ==
    bytes # <<>> =>
        /\ k \in Blocks /\ Start[k] <= off /\ off < Start[k + 1]
        /\ Healthy(k) => \A i \in 1 .. Len(bytes) : bytes[i] = off + i - 1

\* The bytes of a block are right when no chunk of it is corrupt.
RightInv ==
    /\ br # NoReader /\ br.stream # NoStream /\ Healthy(br.blk) =>
           OnTrack(br.stream) /\ Right(br.stream, br.offset, br.stream.chunk)
    /\ HealthyBytes
    /\ pc = "returned" => Sound(br.blk, ret.bytes, offset)

IndInv == Types /\ ReaderInv /\ PlaceInv /\ CallInv /\ RetInv /\ RightInv

\* Its conjuncts.
LEMMA IndParts ==
    ASSUME IndInv
    PROVE  Types /\ ReaderInv /\ PlaceInv /\ CallInv /\ RetInv /\ RightInv
  BY DEF IndInv

\* A BlockReader is not NoReader, and a stream not NoStream.
LEMMA NotNone ==
    /\ \A r \in Reader : r # NoReader
    /\ \A s \in Stream : s # NoStream
<1>1. ASSUME NEW r \in Reader PROVE r # NoReader
  <2>1. r.blk # 0
    BY DEF Reader, Blocks
  <2>2. QED
    BY <2>1 DEF NoReader
<1>2. ASSUME NEW s \in Stream PROVE s # NoStream
  <2>1. s.dn # 0
    BY DEF Stream, Datanodes
  <2>2. QED
    BY <2>1 DEF NoStream
<1>3. QED
  BY <1>1, <1>2

\* A BlockReader for the block of an offset.
ReaderAt(r, off, t, F) ==
    /\ r \in Reader /\ ReaderOK(r, t, F) /\ Start[r.blk] + r.offset = off
    /\ r.stream = NoStream /\ r # NoReader

\* getNewBlockReader makes one.
LEMMA NewReaderOK ==
    ASSUME NEW off \in Nat, off < FileSize, NEW t \in Times, NEW F,
           NEW k, k = CHOOSE j \in Blocks : Start[j] <= off /\ off < Start[j + 1],
           NEW r, r = NewReader(k, off - Start[k], t)
    PROVE  ReaderAt(r, off, t, F)
<1>1. k \in Blocks /\ Start[k] <= off /\ off < Start[k + 1]
  BY BlockOf
<1>2. Start[k] \in Nat /\ off - Start[k] \in Nat /\ Start[k] + (off - Start[k]) = off
  <2> DEFINE x == Start[k]
  <2>1. x \in Nat /\ x <= off
    BY <1>1, BlocksNotEmpty
  <2> HIDE DEF x
  <2>2. x \in Nat /\ off - x \in Nat /\ x + (off - x) = off
    BY ONLY <2>1, off \in Nat
  <2>3. QED
    BY ONLY <2>2 DEF x
<1> DEFINE all == [d \in Datanodes |-> d]
<1>3. all \in Seq(Datanodes) /\ Range(all) = Datanodes
  BY BuiltSeq DEF Datanodes, Range
<1> HIDE DEF all
<1>4. r = [blk |-> k, offset |-> off - Start[k], datanodes |-> all, current |-> 0,
           stream |-> NoStream, deadline |-> t, connDeadline |-> 0, closed |-> FALSE]
  BY DEF NewReader, all
<1>5. 0 \in 0 .. NDatanodes /\ 0 \in Times
  BY DEF Times
<1>6. r \in Reader
  BY ONLY <1>1, <1>2, <1>3, <1>4, <1>5, t \in Times, Zenon DEF Reader
<1>7. ReaderOK(r, t, F)
  BY ONLY <1>3, <1>4, Zenon DEF ReaderOK
<1>8. Start[r.blk] + r.offset = off /\ r.stream = NoStream
  BY ONLY <1>2, <1>4
<1>9. QED
  BY <1>6, <1>7, <1>8, NotNone, Zenon DEF ReaderAt

\* Bytes and then more bytes.
Joined(g, h, all) ==
    /\ all \in Seq(Int) /\ Len(all) = Len(g) + Len(h)
    /\ Len(g) \in Nat /\ Len(h) \in Nat /\ Len(all) \in Nat
    /\ g = <<>> => all = h
    /\ \A i \in 1 .. Len(all) :
          \/ i \in 1 .. Len(g) /\ all[i] = g[i]
          \/ i - Len(g) \in 1 .. Len(h) /\ all[i] = h[i - Len(g)]

\* Each of them is one of the former or of the latter.
LEMMA BytesJoined ==
    ASSUME NEW g \in Seq(Int), NEW h \in Seq(Int), NEW all, all = g \o h
    PROVE  Joined(g, h, all)
<1>1. all \in Seq(Int) /\ Len(all) = Len(g) + Len(h) /\ DOMAIN all = 1 .. Len(all)
  OBVIOUS
<1>2. Len(g) \in Nat /\ Len(h) \in Nat /\ Len(all) \in Nat
  BY <1>1
<1>3. g = <<>> => all = h
  OBVIOUS
<1>4. ASSUME NEW i \in 1 .. Len(all)
      PROVE  \/ i \in 1 .. Len(g) /\ all[i] = g[i]
             \/ i - Len(g) \in 1 .. Len(h) /\ all[i] = h[i - Len(g)]
  <2>1. CASE i <= Len(g)
    BY <1>1, <1>2, <1>4, <2>1
  <2>2. CASE ~(i <= Len(g))
    BY <1>1, <1>2, <1>4, <2>2
  <2>3. QED
    BY <2>1, <2>2
<1>5. QED
  BY <1>1, <1>2, <1>3, <1>4 DEF Joined

\* The end of a FileReader.Read.
LEMMA DoneOK ==
    ASSUME Types, CallInv, pc # "idle", NEW bytes \in Seq(Int), NEW err \in Errors, NEW k,
           Len(bytes) <= b, Done(bytes, err), call' = call, offset' = offset + Len(bytes),
           err = "EOF" => offset >= FileSize /\ bytes = <<>>,
           err = "nil" => bytes # <<>> \/ b = 0
    PROVE  /\ got' \in Result /\ pc' \in {"read", "idle"} /\ b' \in Nat /\ offset' \in Nat
           /\ CallInv'
           /\ HealthyBytes /\ Sound(k, bytes, offset) => HealthyBytes'
<1> DEFINE all == got.bytes \o bytes
           more == call.op = "ReadAt" /\ err = "nil" /\ Len(all) < call.want
           e == IF call.op = "ReadAt" /\ Len(all) >= call.want THEN "nil" ELSE err
<1>1. /\ got' = [bytes |-> all, err |-> e]
      /\ pc' = IF more THEN "read" ELSE "idle"
      /\ b' = IF more THEN call.want - Len(all) ELSE b
  BY Zenon DEF Done
<1>2. /\ got.bytes \in Seq(Int) /\ b \in Nat /\ call.want \in Nat /\ call.at \in Nat
      /\ call.op \in {"none", "Read", "ReadAt"} /\ offset \in Nat
  BY DEF Types, Result
<1>3. /\ call.op # "none" /\ offset = call.at + Len(got.bytes)
      /\ call.op = "ReadAt" => call.want = Len(got.bytes) + b /\ b > 0
      /\ call.op = "Read" => got.bytes = <<>> /\ b = call.want
  BY DEF CallInv
<1>4. /\ all \in Seq(Int) /\ Len(all) = Len(got.bytes) + Len(bytes)
      /\ Len(got.bytes) \in Nat /\ Len(bytes) \in Nat /\ Len(all) \in Nat
      /\ got.bytes = <<>> => all = bytes
  <2>1. Joined(got.bytes, bytes, all)
    BY <1>2, BytesJoined, Zenon
  <2> HIDE DEF all
  <2>2. QED
    BY ONLY <2>1 DEF Joined
<1>5. ASSUME HealthyBytes, Sound(k, bytes, offset), NEW i \in 1 .. Len(all),
             HealthySpan(call.at, i)
      PROVE  all[i] = call.at + i - 1
  <2> DEFINE g == got.bytes
             at == call.at
             ng == Len(g)
  <2>1. \/ i \in 1 .. ng /\ all[i] = g[i]
        \/ i - ng \in 1 .. Len(bytes) /\ all[i] = bytes[i - ng]
    <3>1. Joined(g, bytes, all)
      BY <1>2, BytesJoined, Zenon
    <3>2. QED
      BY ONLY <3>1, i \in 1 .. Len(all), Zenon DEF Joined
  <2>2. CASE i \in 1 .. ng /\ all[i] = g[i]
    BY <1>3, <1>5, <2>2, Zenon DEF HealthyBytes
  <2>3. CASE i - ng \in 1 .. Len(bytes) /\ all[i] = bytes[i - ng]
    <3>1. /\ k \in Blocks /\ Start[k] <= offset /\ offset < Start[k + 1]
          /\ Healthy(k) => \A j \in 1 .. Len(bytes) : bytes[j] = offset + j - 1
      <4>1. bytes # <<>>
        BY <1>4, <2>3
      <4>2. QED
        BY <1>5, <4>1, Zenon DEF Sound
    <3>2. Start[k] \in Nat /\ Start[k + 1] \in Nat
      BY <3>1, BlocksNotEmpty
    <3>3. /\ ng \in Nat /\ at \in Nat /\ offset = at + ng /\ i \in Nat /\ i - ng >= 1
          /\ Len(bytes) \in Nat
      BY <1>2, <1>3, <1>4, <2>3
    <3>4. HealthySpan(at, i)
      BY <1>5
    <3> DEFINE x == Start[k]
               y == Start[k + 1]
    <3>5. x < at + i /\ at < y
      <4>1. x \in Nat /\ y \in Nat /\ x <= offset /\ offset < y
        BY <3>1, <3>2
      <4> HIDE DEF x, y, at, ng
      <4>2. QED
        BY ONLY <3>3, <4>1
    <3> HIDE DEF at, ng, g, all
    <3>6. Healthy(k)
      BY <3>1, <3>4, <3>5, Zenon DEF HealthySpan
    <3>7. all[i] = offset + (i - ng) - 1
      BY <2>3, <3>1, <3>6, Zenon
    <3>8. all[i] = at + i - 1
      BY ONLY <3>3, <3>7
    <3>9. QED
      BY <3>8 DEF at, all
  <2>4. QED
    BY <2>1, <2>2, <2>3
<1> DEFINE na == Len(all)
           ng == Len(got.bytes)
           nb == Len(bytes)
           want == call.want
           at == call.at
<1>6. /\ na = ng + nb /\ ng \in Nat /\ nb \in Nat /\ na \in Nat /\ want \in Nat /\ at \in Nat
      /\ nb <= b /\ b \in Nat /\ offset \in Nat /\ offset' = offset + nb /\ offset = at + ng
      /\ call.op = "ReadAt" => want = ng + b /\ b > 0
  BY <1>2, <1>3, <1>4
<1>7. /\ e \in Errors
      /\ e = IF call.op = "ReadAt" /\ na >= want THEN "nil" ELSE err
      /\ more => call.op = "ReadAt" /\ err = "nil" /\ na < want
      /\ ~more => ~(call.op = "ReadAt" /\ err = "nil" /\ na < want)
      /\ b' = IF more THEN want - na ELSE b
  BY <1>1, Zenon DEF Errors
<1>8. got' \in Result /\ got'.bytes = all /\ got'.err = e /\ Len(got'.bytes) = na
  BY ONLY <1>1, <1>4, <1>7, Zenon DEF Result
<1>9. err = "EOF" => offset >= FileSize /\ nb = 0
  OBVIOUS
<1>10. call'.op = call.op /\ call'.at = at /\ call'.want = want
  OBVIOUS
<1>11. FileSize \in Nat
  BY DEF FileSize
<1> HIDE DEF all, more, e, na, ng, nb, want, at
<1>12. pc' \in {"read", "idle"} /\ b' \in Nat /\ offset' \in Nat /\ offset' = at + na
  <2>1. b' \in Nat
    <3>1. CASE more
      BY ONLY <1>6, <1>7, <3>1
    <3>2. CASE ~more
      BY ONLY <1>6, <1>7, <3>2
    <3>3. QED
      BY <3>1, <3>2
  <2>2. offset' \in Nat /\ offset' = at + na
    BY ONLY <1>6
  <2>3. QED
    BY <1>1, <2>1, <2>2
<1>13. e = "EOF" => at + na >= FileSize
  BY ONLY <1>6, <1>7, <1>9, <1>11
<1>14. HealthyBytes /\ Sound(k, bytes, offset) => HealthyBytes'
  <2>1. SUFFICES ASSUME HealthyBytes, Sound(k, bytes, offset) PROVE HealthyBytes'
    OBVIOUS
  <2>2. ASSUME NEW i \in 1 .. na, HealthySpan(at, i) PROVE all[i] = at + i - 1
    BY <1>5, <2>1, <2>2 DEF na, at
  <2>3. QED
    BY <1>8, <1>10, <2>2, Zenon DEF HealthyBytes
<1>15. CASE call.op = "ReadAt"
  <2>1. more => want = na + b' /\ b' > 0
    BY ONLY <1>6, <1>7
  <2>2. ~more /\ e = "nil" => na = want
    BY ONLY <1>6, <1>7, <1>15
  <2>3. EOFOnlyAtEnd'
    BY <1>1, <1>8, <1>10, <1>13, <1>15, <2>2 DEF EOFOnlyAtEnd
  <2>4. CallInv'
    BY <1>1, <1>8, <1>10, <1>12, <1>15, <2>1, <2>3, Zenon DEF CallInv
  <2>5. QED
    BY <1>8, <1>12, <1>14, <2>4
<1>16. CASE call.op = "Read"
  <2>1. pc' = "idle" /\ e = err /\ all = bytes
    BY <1>1, <1>3, <1>4, <1>7, <1>16, Zenon
  <2>2. e = "nil" => all # <<>> \/ want = 0
    BY <1>3, <1>16, <2>1 DEF want
  <2>3. EOFOnlyAtEnd'
    BY <1>8, <1>10, <1>13, <1>16, <2>2 DEF EOFOnlyAtEnd
  <2>4. CallInv'
    BY <1>8, <1>10, <1>12, <1>16, <2>1, <2>3 DEF CallInv
  <2>5. QED
    BY <1>8, <1>12, <1>14, <2>4
<1>17. QED
  BY <1>2, <1>3, <1>15, <1>16, Zenon
-----------------------------------------------------------------------------
(* The calls.                                                              *)

\* No bytes are the right bytes.
LEMMA NoBytes ==
    /\ <<>> \in Seq(Int) /\ Len(<<>>) = 0
    /\ \A at : <<>> = [i \in 1 .. Len(<<>>) |-> at + i - 1]
<1>1. <<>> \in Seq(Int) /\ Len(<<>>) = 0
  BY EmptyParts
<1>2. ASSUME NEW at PROVE <<>> = [i \in 1 .. 0 |-> at + i - 1]
  OBVIOUS
<1>3. QED
  BY <1>1, <1>2

\* The invariant holds when the file is opened.
LEMMA InitInv ==
    ASSUME Init
    PROVE  IndInv
<1>1. <<>> \in Seq(Datanodes) /\ IsInjective(<<>>)
  <2>1. <<>> \in Seq(Datanodes)
    BY EmptyParts
  <2>2. DOMAIN <<>> = {}
    OBVIOUS
  <2>3. QED
    BY <2>1, <2>2 DEF IsInjective
<1>2. [bytes |-> <<>>, err |-> "nil"] \in Result
  BY NoBytes, Zenon DEF Result, Errors
<1>3. Types
  BY <1>1, <1>2, Zenon DEF Init, Types, Times, NoCall
<1>4. br = NoReader /\ pc = "idle" /\ call.op = "none"
  BY DEF Init, NoCall
<1>5. ReaderInv /\ PlaceInv /\ RetInv
  BY <1>4, Zenon DEF ReaderInv, PlaceInv, RetInv
<1>6. CallInv /\ RightInv
  BY <1>4, Zenon DEF CallInv, EOFOnlyAtEnd, RightInv, HealthyBytes
<1>7. QED
  BY <1>3, <1>5, <1>6 DEF IndInv

\* Read begins.
LEMMA ReadInv ==
    ASSUME IndInv, NEW n \in ReadSizes, Read(n)
    PROVE  IndInv'
<1>1. /\ pc = "idle" /\ pc' = "read" /\ b' = n /\ n \in Nat
      /\ call' = [op |-> "Read", at |-> offset, want |-> n]
      /\ got' = [bytes |-> <<>>, err |-> "nil"]
      /\ UNCHANGED <<br, ret, datanodeFailures, offset, closed, deadline, blocks>>
  BY Zenon DEF Read, Begin
<1>2. got' \in Result
  BY <1>1, NoBytes, Zenon DEF Result, Errors
<1>3. Types'
  <2>1. Types /\ offset \in Nat
    BY IndParts DEF Types
  <2>2. call' \in [op : {"none", "Read", "ReadAt"}, at : Nat, want : Nat]
    BY <1>1, <2>1
  <2>3. QED
    BY <1>1, <1>2, <2>1, <2>2, Zenon DEF Types
<1>4. ReaderInv' /\ PlaceInv' /\ RetInv'
  BY <1>1, IndParts, Zenon DEF ReaderInv, PlaceInv, RetInv
<1>5. CallInv'
  <2>1. Len(got'.bytes) = 0 /\ offset \in Nat /\ got'.bytes = <<>>
    BY <1>1, NoBytes, IndParts, Zenon DEF Types
  <2>2. offset' = call'.at + Len(got'.bytes)
    BY <1>1, <2>1
  <2>3. QED
    BY <1>1, <2>1, <2>2, Zenon DEF CallInv, EOFOnlyAtEnd
<1>6. RightInv'
  <2>1. HealthyBytes'
    BY <1>1, NoBytes DEF HealthyBytes
  <2>2. QED
    BY <1>1, <2>1, IndParts, Zenon DEF RightInv
<1>7. QED
  BY <1>3, <1>4, <1>5, <1>6 DEF IndInv

\* The part of the invariant about the BlockReader, after Seek.
LEMMA SeekToInv ==
    ASSUME IndInv, NEW off \in 0 .. FileSize, SeekTo(off), pc = "idle", pc' \in {"idle", "read"},
           UNCHANGED <<ret, datanodeFailures, closed, deadline, blocks>>,
           HealthyBytes'
    PROVE  /\ ReaderInv' /\ PlaceInv' /\ RetInv' /\ RightInv'
           /\ br' \in Reader \cup {NoReader} /\ offset' \in Nat
<1>1. offset' = off /\ br' = IF off = offset THEN br ELSE NoReader
  BY DEF SeekTo
<1>2. br' \in Reader \cup {NoReader} /\ offset' \in Nat
  <2>1. FileSize \in Nat
    BY DEF FileSize
  <2>2. QED
    BY <1>1, <2>1, IndParts DEF Types
<1>3. ReaderInv' /\ RetInv'
  BY <1>1, IndParts, Zenon DEF ReaderInv, RetInv
<1>4. PlaceInv'
  BY <1>1, IndParts DEF PlaceInv
<1>5. RightInv'
  BY <1>1, IndParts, Zenon DEF RightInv
<1>6. QED
  BY <1>2, <1>3, <1>4, <1>5

\* Seek.
LEMMA SeekInv ==
    ASSUME IndInv, NEW off \in 0 .. FileSize, Seek(off)
    PROVE  IndInv'
<1>1. /\ pc = "idle" /\ SeekTo(off) /\ call' = NoCall
      /\ UNCHANGED <<pc, b, ret, datanodeFailures, closed, deadline, blocks, got>>
  BY DEF Seek
<1>2. call'.op = "none" /\ call' \in [op : {"none", "Read", "ReadAt"}, at : Nat, want : Nat]
  BY <1>1 DEF NoCall
<1>3. HealthyBytes' /\ CallInv'
  BY <1>1, <1>2 DEF HealthyBytes, CallInv, EOFOnlyAtEnd
<1>4. /\ ReaderInv' /\ PlaceInv' /\ RetInv' /\ RightInv'
      /\ br' \in Reader \cup {NoReader} /\ offset' \in Nat
  BY <1>1, <1>3, SeekToInv
<1>5. Types'
  BY <1>1, <1>2, <1>4, IndParts DEF Types
<1>6. QED
  BY <1>3, <1>4, <1>5 DEF IndInv

\* ReadAt begins.
LEMMA ReadAtInv ==
    ASSUME IndInv, NEW n \in ReadSizes, NEW off \in 0 .. FileSize, ReadAt(n, off)
    PROVE  IndInv'
<1>1. /\ pc = "idle" /\ SeekTo(off) /\ b' = n /\ n \in Nat
      /\ pc' = IF n = 0 THEN "idle" ELSE "read"
      /\ call' = [op |-> "ReadAt", at |-> off, want |-> n]
      /\ got' = [bytes |-> <<>>, err |-> "nil"]
      /\ UNCHANGED <<ret, datanodeFailures, closed, deadline, blocks>>
  BY Zenon DEF ReadAt, Begin
<1>2. off \in Nat /\ offset' = off
  <2>1. FileSize \in Nat
    BY DEF FileSize
  <2>2. QED
    BY <1>1, <2>1, SMTT(60) DEF SeekTo
<1>3. got' \in Result /\ Len(got'.bytes) = 0
  BY <1>1, NoBytes, Zenon DEF Result, Errors
<1>4. HealthyBytes'
  BY <1>1, NoBytes, SMTT(60) DEF HealthyBytes
<1>5. /\ ReaderInv' /\ PlaceInv' /\ RetInv' /\ RightInv'
      /\ br' \in Reader \cup {NoReader} /\ offset' \in Nat
  BY <1>1, <1>4, SeekToInv, Zenon
<1>6. Types'
  <2>1. call' \in [op : {"none", "Read", "ReadAt"}, at : Nat, want : Nat]
    BY <1>1, <1>2, Zenon
  <2>2. pc' \in {"idle", "read", "check", "loop", "returned"}
    BY <1>1, Zenon
  <2>3. QED
    BY <1>1, <1>3, <1>5, <2>1, <2>2, IndParts, Zenon DEF Types
<1>7. CallInv'
  <2>1. call'.op = "ReadAt" /\ call'.at = off /\ call'.want = n /\ got'.err = "nil"
    BY <1>1, Zenon
  <2>2. offset' = call'.at + Len(got'.bytes)
    BY <1>2, <1>3, <2>1
  <2>3. pc' # "idle" => call'.want = Len(got'.bytes) + b' /\ b' > 0
    BY <1>1, <1>3, <2>1, SMTT(60)
  <2>4. pc' = "idle" => Len(got'.bytes) = call'.want
    BY <1>1, <1>3, <2>1, Zenon
  <2>5. QED
    BY <2>1, <2>2, <2>3, <2>4 DEF CallInv, EOFOnlyAtEnd
<1>8. QED
  BY <1>5, <1>6, <1>7 DEF IndInv

\* The connection has the new deadline, or takes none as before.
DeadlineKept ==
    /\ br'.connDeadline \in {deadline', Undated}
    /\ br.connDeadline = Undated => br'.connDeadline = Undated

\* What a step that changes only the BlockReader's deadlines, or closes it,
\* leaves.
LEMMA QuietInv ==
    ASSUME IndInv, pc = "idle", UNCHANGED <<pc, b, ret, datanodeFailures, offset, blocks, call, got>>,
           closed' = closed \/ closed' = TRUE, deadline' \in Times, closed' \in BOOLEAN,
           br = NoReader => br' = NoReader,
           br # NoReader => /\ br' \in Reader /\ br'.blk = br.blk /\ br'.offset = br.offset
                            /\ br'.datanodes = br.datanodes /\ br'.current = br.current
                            /\ br'.stream = br.stream /\ br'.deadline = deadline'
                            /\ br.stream # NoStream => DeadlineKept
    PROVE  IndInv'
<1>1. Types'
  BY IndParts, Zenon DEF Types
<1>2. ReaderInv'
  <2>1. CASE br = NoReader
    BY <2>1, Zenon DEF ReaderInv
  <2>2. CASE br # NoReader
    BY <2>2, IndParts, Zenon DEF ReaderInv, ReaderOK, DeadlineKept
  <2>3. QED
    BY <2>1, <2>2, Zenon
<1>3. PlaceInv'
  BY Zenon DEF IndInv, PlaceInv
<1>4. CallInv' /\ RetInv'
  BY IndParts, Zenon DEF CallInv, EOFOnlyAtEnd, RetInv
<1>5. RightInv'
  BY IndParts, Zenon DEF RightInv, HealthyBytes
<1>6. QED
  BY <1>1, <1>2, <1>3, <1>4, <1>5, Zenon DEF IndInv

\* SetDeadline.
LEMMA SetDeadlineInv ==
    ASSUME IndInv, NEW t \in Deadlines, SetDeadline(t)
    PROVE  IndInv'
<1>1. /\ pc = "idle" /\ deadline' = t /\ t \in Times /\ 0 \in Times
      /\ br' = IF br = NoReader THEN br
               ELSE [br EXCEPT !.deadline = t,
                               !.connDeadline = IF br.current = 0 \/ br.connDeadline = Undated
                                                THEN br.connDeadline ELSE t]
      /\ UNCHANGED <<pc, b, ret, datanodeFailures, offset, closed, blocks, call, got>>
  BY DEF SetDeadline, Times
<1>2. ASSUME br # NoReader
      PROVE  /\ br' \in Reader /\ br'.blk = br.blk /\ br'.offset = br.offset
             /\ br'.datanodes = br.datanodes /\ br'.current = br.current
             /\ br'.stream = br.stream /\ br'.deadline = deadline'
             /\ br.stream # NoStream => DeadlineKept
  <2> DEFINE c == IF br.current = 0 \/ br.connDeadline = Undated THEN br.connDeadline ELSE t
  <2>1. br \in Reader /\ br' = [br EXCEPT !.deadline = t, !.connDeadline = c]
    BY <1>1, <1>2, IndParts DEF Types
  <2>a. c \in Times \cup {Undated}
    BY <1>1, <2>1, Zenon DEF Reader
  <2>2. br.stream # NoStream =>
            c \in {t, Undated} /\ (br.connDeadline = Undated => c = Undated)
    <3>1. ASSUME br.stream # NoStream PROVE br.current \in Datanodes
      BY <1>2, <2>1, <3>1, IndParts DEF ReaderInv, ReaderOK, StreamOK, Stream
    <3>2. QED
      BY <3>1 DEF Datanodes
  <2> HIDE DEF c
  <2>3. br' = [blk |-> br.blk, offset |-> br.offset, datanodes |-> br.datanodes,
               current |-> br.current, stream |-> br.stream, deadline |-> t,
               connDeadline |-> c, closed |-> br.closed]
    BY ONLY <2>1, Zenon DEF Reader
  <2>4. br' \in Reader
    BY ONLY <1>1, <2>1, <2>a, <2>3 DEF Reader
  <2>5. /\ br'.blk = br.blk /\ br'.offset = br.offset
        /\ br'.datanodes = br.datanodes /\ br'.current = br.current
        /\ br'.stream = br.stream /\ br'.deadline = t /\ br'.connDeadline = c
    BY ONLY <2>3, Zenon
  <2>6. deadline' = t
    BY <1>1
  <2>7. QED
    BY ONLY <2>2, <2>4, <2>5, <2>6 DEF DeadlineKept
<1>3. closed' \in BOOLEAN
  BY <1>1, IndParts DEF Types
<1>4. QED
  BY <1>1, <1>2, <1>3, QuietInv

\* Close.
LEMMA CloseInv ==
    ASSUME IndInv, Close
    PROVE  IndInv'
<1>1. /\ pc = "idle" /\ closed' = TRUE
      /\ br' = IF br = NoReader THEN br ELSE [br EXCEPT !.closed = TRUE]
      /\ UNCHANGED <<pc, b, ret, datanodeFailures, offset, deadline, blocks, call, got>>
  BY DEF Close, BrClosed
<1>2. ASSUME br # NoReader
      PROVE  /\ br' \in Reader /\ br'.blk = br.blk /\ br'.offset = br.offset
             /\ br'.datanodes = br.datanodes /\ br'.current = br.current
             /\ br'.stream = br.stream /\ br'.deadline = deadline'
             /\ br.stream # NoStream => DeadlineKept
  <2>1. br \in Reader /\ br' = [br EXCEPT !.closed = TRUE]
    BY <1>1, <1>2, IndParts DEF Types
  <2>2. br' = [blk |-> br.blk, offset |-> br.offset, datanodes |-> br.datanodes,
               current |-> br.current, stream |-> br.stream, deadline |-> br.deadline,
               connDeadline |-> br.connDeadline, closed |-> TRUE]
    BY ONLY <2>1, Zenon DEF Reader
  <2>3. br' \in Reader
    BY ONLY <2>1, <2>2, Zenon DEF Reader
  <2>4. /\ br.deadline = deadline
        /\ br.stream # NoStream => br.connDeadline \in {deadline, Undated}
    BY <1>2, IndParts, Zenon DEF ReaderInv, ReaderOK
  <2>5. QED
    BY ONLY <1>1, <2>2, <2>3, <2>4 DEF DeadlineKept
<1>3. deadline' \in Times
  BY <1>1, IndParts DEF Types
<1>4. QED
  BY <1>1, <1>2, <1>3, QuietInv
-----------------------------------------------------------------------------
(* FileReader.Read.                                                        *)

\* The first part of Read.
LEMMA ReadBeginsInv ==
    ASSUME IndInv, ReadBegins
    PROVE  IndInv'
<1>1. /\ pc = "read" /\ UNCHANGED <<ret, datanodeFailures, offset, closed, deadline, call>>
      /\ Types /\ CallInv /\ b \in Nat /\ offset \in Nat /\ deadline \in Times
  BY IndParts, Zenon DEF ReadBegins, Types
<1>2. ASSUME NEW err \in Errors, Done(<<>>, err), br' = br, blocks' = blocks,
             err = "EOF" => offset >= FileSize, err = "nil" => b = 0
      PROVE  IndInv'
  <2>1. <<>> \in Seq(Int) /\ Len(<<>>) <= b /\ offset' = offset + Len(<<>>)
    BY <1>1, NoBytes
  <2>2. /\ got' \in Result /\ pc' \in {"read", "idle"} /\ b' \in Nat /\ offset' \in Nat
        /\ CallInv'
        /\ HealthyBytes /\ Sound(0, <<>>, offset) => HealthyBytes'
    BY <1>1, <1>2, <2>1, DoneOK, Zenon
  <2>3. Sound(0, <<>>, offset)
    BY DEF Sound
  <2>4. Types'
    BY <1>1, <1>2, <2>2, Zenon DEF Types
  <2>5. ReaderInv' /\ PlaceInv' /\ RetInv'
    BY <1>1, <1>2, <2>2, IndParts, Zenon DEF ReaderInv, PlaceInv, RetInv
  <2>6. RightInv'
    BY <1>1, <1>2, <2>2, <2>3, IndParts, Zenon DEF RightInv
  <2>7. QED
    BY <2>2, <2>4, <2>5, <2>6 DEF IndInv
<1>3. ASSUME ~closed, ~(offset >= FileSize), b # 0, blocks' = TRUE, pc' = "check",
             UNCHANGED <<b, got>>,
             IF br = NoReader THEN GetNewBlockReader(offset) ELSE UNCHANGED br
      PROVE  IndInv'
  <2>1. offset < FileSize /\ b > 0
    <3>1. FileSize \in Nat
      BY DEF FileSize
    <3>2. QED
      BY <1>1, <1>3, <3>1, SMTT(60)
  <2>2. CASE br = NoReader
    <3> DEFINE k == CHOOSE j \in Blocks : Start[j] <= offset /\ offset < Start[j + 1]
               F == Range(datanodeFailures)
    <3>1. br' = NewReader(k, offset - Start[k], deadline)
      BY <1>3, <2>2 DEF GetNewBlockReader
    <3>a. k = CHOOSE j \in Blocks : Start[j] <= offset /\ offset < Start[j + 1]
      OBVIOUS
    <3> HIDE DEF F, k
    <3>2. /\ br' \in Reader /\ ReaderOK(br', deadline, F) /\ Start[br'.blk] + br'.offset = offset
          /\ br'.stream = NoStream /\ br' # NoReader
      <4>1. ReaderAt(br', offset, deadline, F)
        BY <1>1, <2>1, <3>1, <3>a, NewReaderOK, Zenon
      <4>2. QED
        BY <4>1 DEF ReaderAt
    <3>3. Types'
      BY <1>1, <1>3, <3>2, Zenon DEF Types
    <3>4. ReaderInv' /\ RetInv'
      BY <1>1, <1>3, <3>2, Zenon DEF ReaderInv, RetInv, F
    <3>5. PlaceInv'
      BY <1>1, <1>3, <2>1, <3>2 DEF PlaceInv
    <3>6. CallInv'
      BY <1>1, <1>3, Zenon DEF CallInv, EOFOnlyAtEnd
    <3>7. RightInv'
      BY <1>1, <1>3, <3>2, IndParts, Zenon DEF RightInv, HealthyBytes
    <3>8. QED
      BY <3>3, <3>4, <3>5, <3>6, <3>7 DEF IndInv
  <2>3. CASE br # NoReader
    <3>1. br' = br
      BY <1>3, <2>3
    <3>2. Types'
      BY <1>1, <1>3, <3>1, Zenon DEF Types
    <3>3. ReaderInv' /\ RetInv'
      BY <1>1, <1>3, <3>1, IndParts, Zenon DEF ReaderInv, RetInv
    <3>4. PlaceInv'
      BY <1>1, <1>3, <2>1, <2>3, <3>1, IndParts DEF PlaceInv
    <3>5. CallInv'
      BY <1>1, <1>3, Zenon DEF CallInv, EOFOnlyAtEnd
    <3>6. RightInv'
      BY <1>1, <1>3, <3>1, IndParts, Zenon DEF RightInv, HealthyBytes
    <3>7. QED
      BY <3>2, <3>3, <3>4, <3>5, <3>6 DEF IndInv
  <2>4. QED
    BY <2>2, <2>3
<1>4. CASE closed
  <2>1. Done(<<>>, "error") /\ br' = br /\ blocks' = blocks
    BY <1>4 DEF ReadBegins
  <2>2. QED
    BY <1>2, <2>1 DEF Errors
<1>5. CASE ~closed /\ offset >= FileSize
  <2>1. Done(<<>>, "EOF") /\ br' = br /\ blocks' = blocks
    BY <1>5 DEF ReadBegins
  <2>2. QED
    BY <1>2, <1>5, <2>1 DEF Errors
<1>6. CASE ~closed /\ ~(offset >= FileSize) /\ b = 0
  <2>1. Done(<<>>, "nil") /\ br' = br /\ blocks' = blocks
    BY <1>6 DEF ReadBegins
  <2>2. QED
    BY <1>2, <1>6, <2>1 DEF Errors
<1>7. CASE ~closed /\ ~(offset >= FileSize) /\ b # 0
  <2>1. \/ /\ blocks' = TRUE /\ pc' = "check" /\ UNCHANGED <<b, got>>
           /\ IF br = NoReader THEN GetNewBlockReader(offset) ELSE UNCHANGED br
        \/ Done(<<>>, "error") /\ br' = br /\ blocks' = blocks
    BY <1>7 DEF ReadBegins
  <2>2. QED
    BY <1>2, <1>3, <1>7, <2>1, Zenon DEF Errors
<1>8. QED
  BY <1>4, <1>5, <1>6, <1>7

\* The rest of Read, when BlockReader.Read has returned.
LEMMA ReadReturnsInv ==
    ASSUME IndInv, ReadReturns
    PROVE  IndInv'
<1>1. /\ pc = "returned" /\ offset' = offset + Len(ret.bytes)
      /\ UNCHANGED <<ret, datanodeFailures, closed, deadline, blocks, call>>
      /\ Types /\ CallInv /\ b \in Nat /\ offset \in Nat /\ deadline \in Times
      /\ ret.bytes \in Seq(Int) /\ ret.err \in Errors /\ Len(ret.bytes) <= b
      /\ ~closed /\ b > 0 /\ offset < FileSize /\ br # NoReader
  BY IndParts, Zenon DEF ReadReturns, Types, Result, RetInv, PlaceInv
<1>2. ASSUME NEW err \in Errors, Done(ret.bytes, err), err # "EOF",
             err = "nil" => ret.bytes # <<>>, br' = NoReader \/ br' = br
      PROVE  IndInv'
  <2> DEFINE bytes == ret.bytes
  <2>1. bytes \in Seq(Int) /\ Len(bytes) <= b /\ offset' = offset + Len(bytes) /\ Done(bytes, err)
    BY <1>1, <1>2, Zenon
  <2> HIDE DEF bytes
  <2>2. /\ got' \in Result /\ pc' \in {"read", "idle"} /\ b' \in Nat /\ offset' \in Nat
        /\ CallInv'
        /\ HealthyBytes /\ Sound(br.blk, bytes, offset) => HealthyBytes'
    BY <1>1, <1>2, <2>1, DoneOK, Zenon DEF bytes
  <2>3. Types'
    BY <1>1, <1>2, <2>2, Zenon DEF Types
  <2>4. ReaderInv' /\ RetInv'
    BY <1>1, <1>2, <2>2, IndParts, Zenon DEF ReaderInv, RetInv
  <2>5. PlaceInv'
    <3>1. br' # NoReader => Start[br'.blk] + br'.offset = offset' + 0
      <4>1. offset' = offset' + 0
        <5>1. offset' \in Nat
          BY ONLY <2>2
        <5> DEFINE y == offset'
        <5>2. y \in Nat
          BY <5>1
        <5> HIDE DEF y
        <5>3. y = y + 0
          BY ONLY <5>2
        <5>4. QED
          BY ONLY <5>3 DEF y
      <4>2. Start[br.blk] + br.offset = offset + Len(ret.bytes)
        BY <1>1, IndParts, Zenon DEF PlaceInv
      <4>3. QED
        BY <1>1, <1>2, <4>1, <4>2, Zenon
    <3>2. QED
      BY <2>2, <3>1 DEF PlaceInv
  <2>6. RightInv'
    BY <1>1, <1>2, <2>2, IndParts, Zenon DEF RightInv, bytes
  <2>7. QED
    BY <2>2, <2>3, <2>4, <2>5, <2>6 DEF IndInv
<1>3. CASE ret.err = "error"
  <2>1. Done(ret.bytes, "error") /\ br' = NoReader
    BY <1>3, Zenon DEF ReadReturns
  <2>2. QED
    BY <1>2, <2>1 DEF Errors
<1>4. CASE ret.err # "error" /\ ret.bytes # <<>>
  <2>1. Done(ret.bytes, "nil") /\ br' = br
    BY <1>4 DEF ReadReturns
  <2>2. QED
    BY <1>2, <1>4, <2>1, Zenon DEF Errors
<1>5. CASE ret.err # "error" /\ ret.bytes = <<>>
  <2> DEFINE k == CHOOSE j \in Blocks : Start[j] <= offset /\ offset < Start[j + 1]
             F == Range(datanodeFailures)
  <2>1. br' = NewReader(k, offset - Start[k], deadline) /\ pc' = "check" /\ b' = b /\ got' = got
    BY <1>5, Zenon DEF ReadReturns, GetNewBlockReader
  <2>2. offset' = offset
    <3>1. Len(ret.bytes) = 0
      BY <1>5
    <3>2. QED
      BY <1>1, <3>1
  <2>b. /\ br' = NewReader(k, offset - Start[k], deadline)
        /\ offset \in Nat /\ deadline \in Times /\ offset < FileSize
    BY ONLY <1>1, <2>1
  <2>a. k = CHOOSE j \in Blocks : Start[j] <= offset /\ offset < Start[j + 1]
    OBVIOUS
  <2> HIDE DEF F, k
  <2>3. /\ br' \in Reader /\ ReaderOK(br', deadline, F) /\ Start[br'.blk] + br'.offset = offset
        /\ br'.stream = NoStream /\ br' # NoReader
    <3>1. ReaderAt(br', offset, deadline, F)
      BY <2>a, <2>b, NewReaderOK, Zenon
    <3>2. QED
      BY <3>1 DEF ReaderAt
  <2>4. Types'
    BY <1>1, <2>1, <2>2, <2>3, Zenon DEF Types
  <2>5. ReaderInv' /\ RetInv'
    BY <1>1, <2>1, <2>3, Zenon DEF ReaderInv, RetInv, F
  <2>6. PlaceInv'
    BY <1>1, <2>1, <2>2, <2>3, SMTT(60) DEF PlaceInv
  <2>7. CallInv'
    BY <1>1, <2>1, <2>2, Zenon DEF CallInv, EOFOnlyAtEnd
  <2>8. RightInv'
    BY <1>1, <2>1, <2>3, IndParts, Zenon DEF RightInv, HealthyBytes
  <2>9. QED
    BY <2>4, <2>5, <2>6, <2>7, <2>8 DEF IndInv
<1>6. QED
  BY <1>3, <1>4, <1>5
-----------------------------------------------------------------------------
(* BlockReader.Read.                                                       *)

\* What BlockReader.Read leaves alone.
Kept == UNCHANGED <<b, offset, closed, deadline, blocks, call, got>>

\* What holds while it is in progress.
LEMMA InProgress ==
    ASSUME IndInv, pc \in {"check", "loop"}
    PROVE  /\ br \in Reader /\ br # NoReader /\ ~closed /\ b \in Nat /\ b > 0 /\ offset \in Nat
           /\ ReaderOK(br, deadline, Range(datanodeFailures))
           /\ deadline \in Times
           /\ Start[br.blk] + br.offset = offset
           /\ br.blk \in Blocks /\ br.offset \in Nat /\ br.datanodes \in Seq(Datanodes)
           /\ datanodeFailures \in Seq(Datanodes) /\ IsInjective(datanodeFailures)
           /\ pc = "loop" => br.offset < BlockSize(br.blk)
<1>1. br # NoReader /\ ~closed /\ b > 0
  BY IndParts DEF PlaceInv
<1>2. /\ br \in Reader /\ b \in Nat /\ offset \in Nat /\ deadline \in Times
      /\ datanodeFailures \in Seq(Datanodes) /\ IsInjective(datanodeFailures)
  BY <1>1, IndParts DEF Types
<1>3. Start[br.blk] + br.offset = offset
  <2>1. Start[br.blk] + br.offset = offset + 0
    BY <1>1, IndParts DEF PlaceInv
  <2>2. offset + 0 = offset
    BY ONLY <1>2
  <2>3. QED
    BY ONLY <2>1, <2>2
<1>4. br.blk \in Blocks /\ br.offset \in Nat /\ br.datanodes \in Seq(Datanodes)
  BY ONLY <1>2 DEF Reader
<1>5. ReaderOK(br, deadline, Range(datanodeFailures))
  BY <1>1, IndParts DEF ReaderInv
<1>6. pc = "loop" => br.offset < BlockSize(br.blk)
  BY IndParts DEF PlaceInv
<1>7. QED
  BY <1>1, <1>2, <1>3, <1>4, <1>5, <1>6

\* The invariant after a step of BlockReader.Read: what is left to show of it.
LEMMA ReaderStepInv ==
    ASSUME IndInv, Kept, pc \in {"check", "loop"}, pc' \in {"check", "loop", "returned"},
           br' \in Reader, ret' \in Result,
           datanodeFailures' \in Seq(Datanodes), IsInjective(datanodeFailures'),
           ReaderOK(br', deadline, Range(datanodeFailures')),
           Start[br'.blk] + br'.offset = offset + (IF pc' = "returned" THEN Len(ret'.bytes) ELSE 0),
           pc' = "loop" => br'.offset < BlockSize(br'.blk),
           pc' = "returned" =>
               /\ Len(ret'.bytes) <= b
               /\ ret'.err = "error" /\ ~br'.closed =>
                      br'.datanodes = <<>> /\ Datanodes \subseteq Range(datanodeFailures'),
           br'.stream # NoStream /\ Healthy(br'.blk) =>
               OnTrack(br'.stream) /\ Right(br'.stream, br'.offset, br'.stream.chunk),
           pc' = "returned" => Sound(br'.blk, ret'.bytes, offset)
    PROVE  IndInv'
<1>1. /\ b' = b /\ offset' = offset /\ closed' = closed /\ deadline' = deadline
      /\ blocks' = blocks /\ call' = call /\ got' = got
  BY Zenon DEF Kept
<1>2. br' # NoReader
  BY NotNone, Zenon
<1>3. Types'
  BY <1>1, IndParts, Zenon DEF Types
<1>4. ReaderInv' /\ RetInv'
  BY <1>1, Zenon DEF ReaderInv, RetInv
<1>5. PlaceInv'
  BY <1>1, <1>2, IndParts, Zenon DEF PlaceInv
<1>6. CallInv'
  BY <1>1, IndParts, Zenon DEF CallInv, EOFOnlyAtEnd
<1>7. RightInv'
  BY <1>1, <1>2, IndParts, Zenon DEF RightInv, HealthyBytes
<1>8. QED
  BY <1>3, <1>4, <1>5, <1>6, <1>7, Zenon DEF IndInv

\* The checks at the beginning.
LEMMA ReadChecksInv ==
    ASSUME IndInv, ReadChecks, UNCHANGED fileVars
    PROVE  IndInv'
<1>1. pc = "check" /\ Kept /\ datanodeFailures' = datanodeFailures
  BY DEF ReadChecks, Kept, fileVars
<1>2. /\ br \in Reader /\ b \in Nat /\ offset \in Nat
      /\ ReaderOK(br, deadline, Range(datanodeFailures))
      /\ Start[br.blk] + br.offset = offset
      /\ br.blk \in Blocks /\ br.offset \in Nat
      /\ datanodeFailures \in Seq(Datanodes) /\ IsInjective(datanodeFailures)
  BY <1>1, InProgress, Zenon
<1>3. ret \in Result
  BY IndParts DEF Types
<1>4. Healthy(br.blk) /\ br.stream # NoStream =>
          OnTrack(br.stream) /\ Right(br.stream, br.offset, br.stream.chunk)
  BY <1>2, NotNone, IndParts, Zenon DEF RightInv
<1>5. ASSUME NEW err \in Errors, Returns(<<>>, err)
      PROVE  /\ pc' = "returned" /\ ret' \in Result /\ ret'.err = err /\ Len(ret'.bytes) = 0
             /\ Len(ret'.bytes) <= b /\ offset + Len(ret'.bytes) = offset
             /\ \A k : Sound(k, ret'.bytes, offset)
  <2>1. pc' = "returned" /\ ret' = [bytes |-> <<>>, err |-> err]
    BY <1>5 DEF Returns
  <2>2. ret' \in Result /\ ret'.err = err /\ Len(ret'.bytes) = 0
    BY <2>1, NoBytes, Zenon DEF Result
  <2>3. Len(ret'.bytes) <= b /\ offset + Len(ret'.bytes) = offset
    BY <1>2, <2>2
  <2>4. \A k : Sound(k, ret'.bytes, offset)
    BY <2>1, Zenon DEF Sound
  <2>5. QED
    BY <2>1, <2>2, <2>3, <2>4, Zenon
<1>6. CASE br.closed
  <2>1. Returns(<<>>, "error") /\ br' = br
    BY <1>6 DEF ReadChecks
  <2>2. /\ pc' = "returned" /\ ret' \in Result /\ Len(ret'.bytes) <= b
        /\ offset + Len(ret'.bytes) = offset
        /\ \A k : Sound(k, ret'.bytes, offset)
    BY <1>5, <2>1, Zenon DEF Errors
  <2>3. QED
    BY <1>1, <1>2, <1>4, <1>6, <2>1, <2>2, ReaderStepInv, Zenon
<1>7. CASE ~br.closed /\ br.offset >= BlockSize(br.blk)
  <2>1. Returns(<<>>, "EOF") /\ br' = [br EXCEPT !.closed = TRUE]
    BY <1>7 DEF ReadChecks
  <2>2. /\ pc' = "returned" /\ ret' \in Result /\ ret'.err = "EOF" /\ Len(ret'.bytes) <= b
        /\ offset + Len(ret'.bytes) = offset
        /\ \A k : Sound(k, ret'.bytes, offset)
    BY <1>5, <2>1 DEF Errors
  <2>3. br' = [blk |-> br.blk, offset |-> br.offset, datanodes |-> br.datanodes,
               current |-> br.current, stream |-> br.stream, deadline |-> br.deadline,
               connDeadline |-> br.connDeadline, closed |-> TRUE]
    BY ONLY <1>2, <2>1, Zenon DEF Reader
  <2>4. br' \in Reader
    BY ONLY <1>2, <2>3, Zenon DEF Reader
  <2>5. ReaderOK(br', deadline, Range(datanodeFailures'))
    BY ONLY <1>1, <1>2, <2>3, Zenon DEF ReaderOK
  <2>6. br'.blk = br.blk /\ br'.offset = br.offset /\ br'.stream = br.stream
    BY ONLY <2>3, Zenon
  <2>7. QED
    BY <1>1, <1>2, <1>4, <2>2, <2>4, <2>5, <2>6, ReaderStepInv, Zenon
<1>8. CASE ~br.closed /\ ~(br.offset >= BlockSize(br.blk))
  <2>1. pc' = "loop" /\ br' = br /\ ret' = ret
    BY <1>8 DEF ReadChecks
  <2>2. br.offset < BlockSize(br.blk)
    BY <1>2, <1>8, BlocksNotEmpty
  <2>3. offset + 0 = offset
    BY <1>2
  <2>4. QED
    BY <1>1, <1>2, <1>3, <1>4, <2>1, <2>2, <2>3, ReaderStepInv, Zenon
<1>9. QED
  BY <1>6, <1>7, <1>8

\* A read when no datanode is left.
LEMMA NoneLeftInv ==
    ASSUME IndInv, NoneLeft, UNCHANGED fileVars
    PROVE  IndInv'
<1>1. /\ pc = "loop" /\ Kept /\ br.stream = NoStream /\ br.datanodes = <<>>
      /\ pc' = "returned" /\ ret' = [bytes |-> <<>>, err |-> "error"]
      /\ br' = br /\ datanodeFailures' = datanodeFailures
  BY Zenon DEF NoneLeft, Kept, fileVars, Returns
<1>2. /\ br \in Reader /\ b \in Nat /\ offset \in Nat
      /\ ReaderOK(br, deadline, Range(datanodeFailures))
      /\ Start[br.blk] + br.offset = offset
      /\ datanodeFailures \in Seq(Datanodes) /\ IsInjective(datanodeFailures)
  BY <1>1, InProgress, Zenon
<1>3. ret' \in Result /\ Len(ret'.bytes) = 0
  BY <1>1, NoBytes, Zenon DEF Result, Errors
<1>4. Len(ret'.bytes) <= b /\ offset + Len(ret'.bytes) = offset
  BY <1>2, <1>3
<1>5. \A k : Sound(k, ret'.bytes, offset)
  BY <1>1, Zenon DEF Sound
<1>6. Datanodes \subseteq Range(datanodeFailures)
  <2>1. Range(<<>>) = {}
    BY DEF Range
  <2>2. QED
    BY <1>1, <1>2, <2>1, Zenon DEF ReaderOK
<1>7. QED
  BY <1>1, <1>2, <1>3, <1>4, <1>5, <1>6, ReaderStepInv, Zenon

\* A BlockReader connected to the next datanode, with deadline c on the
\* connection, when the datanodes in G have failed.
JustConnected(c, G) ==
    /\ br' \in Reader /\ br'.blk = br.blk /\ br'.offset = br.offset
    /\ ReaderOK(br', deadline, G)
    /\ Healthy(br'.blk) => OnTrack(br'.stream) /\ Right(br'.stream, br'.offset, br'.stream.chunk)

\* connectNext makes one.
LEMMA ConnectedOK ==
    ASSUME IndInv, Connecting, NEW c \in {deadline, Undated}, Connected(c), NEW G,
           Range(datanodeFailures) \subseteq G,
           c # Undated => G = Range(datanodeFailures)
    PROVE  JustConnected(c, G)
<1> DEFINE F == Range(datanodeFailures)
           i == NextOne
           d == br.datanodes[i]
           rest == Drop(br.datanodes, i)
           r == ToDiscard
           q == br.offset - r
           t == Discard(NewStream(d, br.blk, q), r)
<1>1. /\ pc = "loop" /\ br.stream = NoStream /\ br.datanodes # <<>>
      /\ br' = [br EXCEPT !.datanodes = rest, !.current = d, !.stream = t, !.connDeadline = c]
  BY DEF Connecting, Connected
<1>2. /\ br \in Reader /\ deadline \in Times /\ ReaderOK(br, deadline, F)
      /\ br.offset < BlockSize(br.blk)
      /\ br.blk \in Blocks /\ br.offset \in Nat /\ br.datanodes \in Seq(Datanodes)
      /\ datanodeFailures \in Seq(Datanodes) /\ IsInjective(datanodeFailures)
  BY <1>1, InProgress
<1>3. c \in Times \cup {Undated}
  BY <1>2
<1>4. i \in 1 .. Len(br.datanodes) /\ (d \in F => Range(br.datanodes) \subseteq F)
  BY <1>1, <1>2, PickedOK, Zenon DEF NextOne
<1>5. Without(br.datanodes, i, rest) /\ d \in Datanodes
  BY <1>2, <1>4, Removed, Zenon
<1>6. /\ rest \in Seq(Datanodes) /\ Range(br.datanodes) \subseteq Range(rest) \cup {d}
      /\ Range(rest) \subseteq Range(br.datanodes)
  BY <1>5, Zenon DEF Without
<1>7. /\ r \in Nat /\ r < ChunkSize /\ q \in Nat /\ q + r = br.offset
  <2>1. r \in 0 .. ChunkSize - 1 /\ r <= br.offset
    <3> DEFINE x == (br.offset \div ChunkSize) * ChunkSize
    <3>1. r \in 0 .. ChunkSize - 1 /\ br.offset = x + r /\ x \in Nat
      BY <1>2, Quotient, Multiples, Zenon DEF ToDiscard
    <3> HIDE DEF x, r
    <3>2. QED
      BY <3>1
  <2> HIDE DEF r
  <2>2. QED
    BY <1>2, <2>1, SMTT(60)
<1>8. /\ StreamOK(t, br.offset) /\ t.dn = d /\ t.blk = br.blk
      /\ Healthy(br.blk) => OnTrack(t) /\ Right(t, br.offset, t.chunk)
  <2> DEFINE k == br.blk
  <2>1. /\ d \in Datanodes /\ k \in Blocks /\ q \in Nat /\ r \in Nat /\ r < ChunkSize
        /\ q + r < BlockSize(k) /\ t = Discard(NewStream(d, k, q), r)
    BY <1>2, <1>5, <1>7, Zenon
  <2> HIDE DEF d, k, q, r, t
  <2>2. /\ StreamOK(t, q + r) /\ t.dn = d /\ t.blk = k
        /\ Healthy(k) => OnTrack(t) /\ Right(t, q + r, t.chunk)
    <3>1. Discarded(d, k, q, r, t)
      BY ONLY <2>1, DiscardOK, Zenon
    <3>2. QED
      BY ONLY <3>1, Zenon DEF Discarded
  <2>3. QED
    BY <1>7, <2>2, Zenon DEF k
<1> HIDE DEF F, i, d, rest, r, q, t
<1>9. t \in Stream /\ t # NoStream
  BY <1>8, NotNone, Zenon DEF StreamOK
<1>10. br.deadline = deadline
  BY <1>2, Zenon DEF ReaderOK
<1>11. br' = [blk |-> br.blk, offset |-> br.offset, datanodes |-> rest,
              current |-> d, stream |-> t, deadline |-> br.deadline,
              connDeadline |-> c, closed |-> br.closed]
  BY ONLY <1>1, <1>2, Zenon DEF Reader
<1>12. br' \in Reader
  <2>1. d \in 0 .. NDatanodes
    BY <1>5 DEF Datanodes
  <2>2. QED
    BY ONLY <1>2, <1>3, <1>6, <1>9, <1>11, <2>1, Zenon DEF Reader
<1>13. /\ br'.blk = br.blk /\ br'.offset = br.offset /\ br'.datanodes = rest
       /\ br'.current = d /\ br'.stream = t /\ br'.deadline = deadline
       /\ br'.connDeadline = c
  BY ONLY <1>10, <1>11, Zenon
<1>14. ReaderOK(br', deadline, G)
  <2>1. c # Undated /\ d \in G => Range(rest) \subseteq G
    BY <1>4, <1>6 DEF F
  <2>2. Datanodes \subseteq Range(br.datanodes) \cup F
    BY <1>1, <1>2 DEF ReaderOK
  <2>3. Datanodes \subseteq Range(rest) \cup G \cup {d}
    BY <1>6, <2>2, Zenon DEF F
  <2>4. QED
    BY <1>8, <1>9, <1>13, <2>1, <2>3, Zenon DEF ReaderOK
<1>15. QED
  BY <1>8, <1>12, <1>13, <1>14, Zenon DEF JustConnected

\* connectNext, when it succeeds.
LEMMA ConnectNextInv ==
    ASSUME IndInv, ConnectNext, UNCHANGED fileVars
    PROVE  IndInv'
<1>1. /\ Connecting /\ Connected(br.deadline) /\ Kept /\ pc = "loop"
      /\ pc' = "loop" /\ ret' = ret /\ datanodeFailures' = datanodeFailures
  BY DEF ConnectNext, Connecting, Kept, fileVars
<1>2. /\ offset \in Nat /\ ReaderOK(br, deadline, Range(datanodeFailures))
      /\ Start[br.blk] + br.offset = offset /\ br.offset < BlockSize(br.blk)
      /\ datanodeFailures \in Seq(Datanodes) /\ IsInjective(datanodeFailures)
  BY <1>1, InProgress, Zenon
<1>3. ret \in Result
  BY IndParts DEF Types
<1>4. br.deadline = deadline
  BY <1>2, Zenon DEF ReaderOK
<1>5. JustConnected(deadline, Range(datanodeFailures))
  BY <1>1, <1>4, ConnectedOK, Zenon
<1>6. offset + 0 = offset
  BY ONLY <1>2
<1>7. QED
  BY <1>1, <1>2, <1>3, <1>5, <1>6, ReaderStepInv, Zenon DEF JustConnected

\* When the connection takes no deadline.
LEMMA ConnectUndatedInv ==
    ASSUME IndInv, ConnectUndated, UNCHANGED fileVars
    PROVE  IndInv'
<1> DEFINE d == br.datanodes[NextOne]
<1>1. /\ Connecting /\ Connected(Undated) /\ RecordFailure(d) /\ Kept
      /\ pc = "loop" /\ br.datanodes # <<>> /\ pc' = "loop" /\ ret' = ret
  BY DEF ConnectUndated, Connecting, Kept, fileVars
<1>2. /\ offset \in Nat /\ br.datanodes \in Seq(Datanodes)
      /\ Start[br.blk] + br.offset = offset /\ br.offset < BlockSize(br.blk)
      /\ datanodeFailures \in Seq(Datanodes) /\ IsInjective(datanodeFailures)
  BY <1>1, InProgress, Zenon
<1>3. ret \in Result
  BY IndParts DEF Types
<1>4. d \in Datanodes
  <2>1. NextOne \in 1 .. Len(br.datanodes)
    BY <1>1, <1>2, PickedOK, Zenon DEF NextOne
  <2>2. QED
    BY <1>2, <2>1, Removed, Zenon
<1> HIDE DEF d
<1>5. /\ datanodeFailures' \in Seq(Datanodes) /\ IsInjective(datanodeFailures')
      /\ Range(datanodeFailures) \subseteq Range(datanodeFailures')
  BY <1>1, <1>2, <1>4, FailureRecorded
<1>6. JustConnected(Undated, Range(datanodeFailures'))
  BY <1>1, <1>5, ConnectedOK, Zenon
<1>7. offset + 0 = offset
  BY ONLY <1>2
<1>8. QED
  BY <1>1, <1>2, <1>3, <1>5, <1>6, <1>7, ReaderStepInv, Zenon DEF JustConnected

\* And when it fails.
LEMMA ConnectFailsInv ==
    ASSUME IndInv, ConnectFails, UNCHANGED fileVars
    PROVE  IndInv'
<1> DEFINE F == Range(datanodeFailures)
           i == NextOne
           d == br.datanodes[i]
           rest == Drop(br.datanodes, i)
<1>1. /\ pc = "loop" /\ Kept /\ br.stream = NoStream /\ br.datanodes # <<>>
      /\ pc' = "loop" /\ ret' = ret /\ RecordFailure(d)
      /\ br' = [br EXCEPT !.datanodes = rest, !.current = d]
  BY DEF ConnectFails, Connecting, Kept, fileVars
<1>2. /\ br \in Reader /\ offset \in Nat
      /\ ReaderOK(br, deadline, F)
      /\ Start[br.blk] + br.offset = offset /\ br.offset < BlockSize(br.blk)
      /\ br.datanodes \in Seq(Datanodes)
      /\ datanodeFailures \in Seq(Datanodes) /\ IsInjective(datanodeFailures)
  BY <1>1, InProgress
<1>3. ret \in Result
  BY IndParts DEF Types
<1>4. i \in 1 .. Len(br.datanodes)
  BY <1>1, <1>2, PickedOK DEF NextOne
<1>5. Without(br.datanodes, i, rest) /\ d \in Datanodes
  BY <1>2, <1>4, Removed, Zenon
<1>6. rest \in Seq(Datanodes) /\ Range(br.datanodes) \subseteq Range(rest) \cup {d}
  BY <1>5, Zenon DEF Without
<1>7. /\ datanodeFailures' \in Seq(Datanodes) /\ IsInjective(datanodeFailures')
      /\ F \subseteq Range(datanodeFailures') /\ d \in Range(datanodeFailures')
  BY <1>1, <1>2, <1>5, FailureRecorded
<1> HIDE DEF F, i, d, rest
<1>8. br' = [blk |-> br.blk, offset |-> br.offset, datanodes |-> rest,
             current |-> d, stream |-> br.stream, deadline |-> br.deadline,
             connDeadline |-> br.connDeadline, closed |-> br.closed]
  BY ONLY <1>1, <1>2, Zenon DEF Reader
<1>9. br' \in Reader
  <2>1. d \in 0 .. NDatanodes
    BY <1>5 DEF Datanodes
  <2>2. QED
    BY ONLY <1>2, <1>6, <1>8, <2>1, Zenon DEF Reader
<1>10. /\ br'.blk = br.blk /\ br'.offset = br.offset /\ br'.datanodes = rest
       /\ br'.stream = NoStream /\ br'.deadline = br.deadline
  BY ONLY <1>1, <1>8
<1>11. ReaderOK(br', deadline, Range(datanodeFailures'))
  <2>1. Datanodes \subseteq Range(br.datanodes) \cup F /\ br.deadline = deadline
    BY <1>1, <1>2 DEF ReaderOK
  <2>2. Datanodes \subseteq Range(rest) \cup Range(datanodeFailures')
    BY <1>6, <1>7, <2>1, Zenon
  <2>3. QED
    BY <1>10, <2>1, <2>2, Zenon DEF ReaderOK
<1>12. offset + 0 = offset
  BY ONLY <1>2, SMTT(60)
<1>13. QED
  BY <1>1, <1>2, <1>3, <1>7, <1>9, <1>10, <1>11, <1>12, ReaderStepInv

\* What follows the stream's Read.
LEMMA AfterReadInv ==
    ASSUME IndInv, Kept, pc = "loop", br.stream # NoStream, NEW o, AfterRead(o),
           ReadOK(br.stream, br.offset, b, o),
           Healthy(br.blk) => ReadRight(br.stream, br.offset, o)
    PROVE  IndInv'
<1> DEFINE F == Range(datanodeFailures)
           n == Len(o.bytes)
           s == br.stream
<1>1. /\ br \in Reader /\ offset \in Nat /\ b \in Nat
      /\ ReaderOK(br, deadline, F)
      /\ Start[br.blk] + br.offset = offset /\ br.offset < BlockSize(br.blk)
      /\ br.blk \in Blocks /\ br.offset \in Nat
      /\ datanodeFailures \in Seq(Datanodes) /\ IsInjective(datanodeFailures)
  BY InProgress, Zenon
<1>2. ret \in Result
  BY IndParts DEF Types
<1>3. /\ StreamOK(s, br.offset) /\ s.dn = br.current /\ s.blk = br.blk
      /\ br.connDeadline \in {deadline, Undated} /\ br.deadline = deadline
      /\ br.connDeadline # Undated /\ br.current \in F => Range(br.datanodes) \subseteq F
      /\ Datanodes \subseteq Range(br.datanodes) \cup F \cup {br.current}
      /\ br.current \in Datanodes
  BY <1>1, Zenon DEF ReaderOK, StreamOK, Stream
<1>4. /\ o.bytes \in Seq(Int) /\ n \in Nat /\ n <= b /\ o.err \in Errors
      /\ o.err # "error" => StreamOK(o.s, br.offset + n) /\ o.s.dn = s.dn /\ o.s.blk = s.blk
  <2>1. o.bytes \in Seq(Int) /\ n <= b /\ o.err \in Errors
    BY Zenon DEF ReadOK, Errors
  <2>2. n \in Nat
    BY ONLY <2>1
  <2>3. QED
    BY <2>1, <2>2, Zenon DEF ReadOK
<1>5. /\ br.offset + n \in Nat /\ Start[br.blk] + (br.offset + n) = offset + n
      /\ Start[br.blk] \in Nat
  <2> DEFINE x == Start[br.blk]
             y == br.offset
  <2>1. x \in Nat /\ y \in Nat /\ x + y = offset /\ n \in Nat
    BY <1>1, <1>4, BlocksNotEmpty, Zenon
  <2> HIDE DEF x, y, n
  <2>2. y + n \in Nat /\ x + (y + n) = offset + n
    BY ONLY <2>1
  <2>3. QED
    BY <2>1, <2>2, Zenon DEF x, y
<1>6. ASSUME Healthy(br.blk), NEW i \in 1 .. n PROVE o.bytes[i] = offset + i - 1
  <2>1. o.bytes = Written(br.blk, br.offset, n)
    BY <1>3, <1>6, Zenon DEF ReadRight, Right
  <2> DEFINE k == br.blk
             p == br.offset
  <2>2. k \in Blocks /\ p \in Nat /\ n \in Nat /\ Start[k] + p = offset /\ o.bytes = Written(k, p, n)
    BY <1>1, <1>4, <2>1, Zenon
  <2> HIDE DEF k, p, n
  <2>3. \A j \in 1 .. n : Written(k, p, n)[j] = Start[k] + p + j - 1
    BY ONLY <2>2, WrittenParts, Zenon
  <2>4. QED
    BY ONLY <2>2, <2>3, i \in 1 .. n
<1> HIDE DEF n
<1>a. Sound(br.blk, o.bytes, offset)
  <2> DEFINE x == Start[br.blk]
             y == Start[br.blk + 1]
             z == br.offset
  <2>1. x \in Nat /\ y \in Nat /\ z \in Nat /\ x + z = offset /\ z < y - x
    BY <1>1, BlocksNotEmpty, Zenon DEF BlockSize
  <2>2. x <= offset /\ offset < y
    <3> HIDE DEF x, y, z
    <3>1. QED
      BY ONLY <2>1
  <2>3. QED
    BY <1>1, <1>6, <2>2, Zenon DEF Sound, n
<1>7. CASE o.err = "error"
  <2>1. /\ br' = [br EXCEPT !.offset = @ + n, !.stream = NoStream]
        /\ RecordFailure(br.current)
        /\ IF o.bytes # <<>> THEN Returns(o.bytes, "nil") ELSE UNCHANGED <<pc, ret>>
    BY <1>7 DEF AfterRead, n
  <2>2. /\ datanodeFailures' \in Seq(Datanodes) /\ IsInjective(datanodeFailures')
        /\ F \subseteq Range(datanodeFailures') /\ br.current \in Range(datanodeFailures')
    BY <1>1, <1>3, <2>1, FailureRecorded
  <2>3. br' = [blk |-> br.blk, offset |-> br.offset + n, datanodes |-> br.datanodes,
               current |-> br.current, stream |-> NoStream, deadline |-> br.deadline,
               connDeadline |-> br.connDeadline, closed |-> br.closed]
    BY ONLY <1>1, <2>1, Zenon DEF Reader
  <2>4. br' \in Reader
    BY ONLY <1>1, <1>5, <2>3, Zenon DEF Reader
  <2>5. /\ br'.blk = br.blk /\ br'.offset = br.offset + n /\ br'.datanodes = br.datanodes
        /\ br'.stream = NoStream /\ br'.deadline = br.deadline
    BY ONLY <2>3, Zenon
  <2>6. ReaderOK(br', deadline, Range(datanodeFailures'))
    BY <1>3, <2>2, <2>5, Zenon DEF ReaderOK
  <2>7. Start[br'.blk] + br'.offset = offset + n
    BY ONLY <1>5, <2>5
  <2>8. CASE o.bytes # <<>>
    <3>1. pc' = "returned" /\ ret' = [bytes |-> o.bytes, err |-> "nil"]
      BY <2>1, <2>8 DEF Returns
    <3>2. ret' \in Result /\ ret'.bytes = o.bytes /\ ret'.err = "nil" /\ Len(ret'.bytes) = n
      BY ONLY <1>4, <3>1, Zenon DEF Result, Errors, n
    <3>3. QED
      BY <1>4, <1>a, <2>2, <2>4, <2>5, <2>6, <2>7, <3>1, <3>2, ReaderStepInv, Zenon
  <2>9. CASE o.bytes = <<>>
    <3>1. pc' = "loop" /\ ret' = ret /\ n = 0
      BY <2>1, <2>9 DEF n
    <3>2. br'.offset = br.offset
      <4> DEFINE x == br.offset
                 y == br'.offset
      <4>1. x \in Nat /\ y = x + n /\ n = 0
        BY <1>1, <2>5, <3>1, Zenon
      <4> HIDE DEF x, y, n
      <4>2. y = x
        BY ONLY <4>1
      <4>3. QED
        BY <4>2, Zenon DEF x, y
    <3>3. QED
      BY <1>1, <1>2, <2>2, <2>4, <2>5, <2>6, <2>7, <3>1, <3>2, ReaderStepInv, Zenon
  <2>10. QED
    BY <2>8, <2>9, Zenon
<1>8. CASE o.err # "error"
  <2>1. /\ br' = [br EXCEPT !.offset = @ + n, !.stream = o.s]
        /\ pc' = "returned" /\ ret' = [bytes |-> o.bytes, err |-> o.err]
        /\ datanodeFailures' = datanodeFailures
    BY <1>8 DEF AfterRead, Returns, n
  <2>2. StreamOK(o.s, br.offset + n) /\ o.s.dn = s.dn /\ o.s.blk = s.blk
    BY <1>4, <1>8, Zenon
  <2>3. o.s \in Stream /\ o.s # NoStream
    BY <2>2, NotNone, Zenon DEF StreamOK
  <2>4. br' = [blk |-> br.blk, offset |-> br.offset + n, datanodes |-> br.datanodes,
               current |-> br.current, stream |-> o.s, deadline |-> br.deadline,
               connDeadline |-> br.connDeadline, closed |-> br.closed]
    BY ONLY <1>1, <2>1, Zenon DEF Reader
  <2>5. br' \in Reader
    BY ONLY <1>1, <1>5, <2>3, <2>4, Zenon DEF Reader
  <2>6. /\ br'.blk = br.blk /\ br'.offset = br.offset + n /\ br'.datanodes = br.datanodes
        /\ br'.current = br.current /\ br'.stream = o.s /\ br'.deadline = br.deadline
        /\ br'.connDeadline = br.connDeadline
    BY ONLY <2>4, Zenon
  <2>7. ReaderOK(br', deadline, F)
    BY <1>3, <2>2, <2>3, <2>6, Zenon DEF ReaderOK
  <2>8. Start[br'.blk] + br'.offset = offset + n
    BY ONLY <1>5, <2>6, Zenon
  <2>9. ret' \in Result /\ ret'.bytes = o.bytes /\ ret'.err = o.err /\ Len(ret'.bytes) = n
    BY ONLY <1>4, <2>1 DEF Result, n
  <2>10. Healthy(br'.blk) => OnTrack(br'.stream) /\ Right(br'.stream, br'.offset, br'.stream.chunk)
    BY <1>8, <2>6, Zenon DEF ReadRight, n
  <2>11. QED
    BY <1>1, <1>4, <1>a, <1>8, <2>1, <2>5, <2>6, <2>7, <2>8, <2>9, <2>10, ReaderStepInv, Zenon
       DEF F
<1>9. QED
  BY <1>7, <1>8, Zenon

\* A read from the stream.
LEMMA StreamStepsInv ==
    ASSUME IndInv, ReadStream \/ ReadStreamFails \/ ReadHangUp, UNCHANGED fileVars
    PROVE  IndInv'
<1>1. pc = "loop" /\ br.stream # NoStream /\ Kept
  BY Zenon DEF ReadStream, ReadStreamFails, ReadHangUp, Kept, fileVars
<1> DEFINE s == br.stream
           p == br.offset
<1>2. /\ StreamOK(s, p) /\ p < BlockSize(s.blk) /\ p \in Nat /\ b \in Nat /\ b > 0
      /\ Healthy(s.blk) => OnTrack(s) /\ Right(s, p, s.chunk)
  <2>1. /\ br # NoReader /\ ReaderOK(br, deadline, Range(datanodeFailures))
        /\ br.offset \in Nat /\ br.offset < BlockSize(br.blk) /\ b \in Nat /\ b > 0
    BY <1>1, InProgress, Zenon
  <2>3. StreamOK(s, p) /\ s.blk = br.blk
    BY <1>1, <2>1, Zenon DEF ReaderOK
  <2>2. Healthy(s.blk) => OnTrack(s) /\ Right(s, p, s.chunk)
    BY <1>1, <2>1, <2>3, IndParts, Zenon DEF RightInv
  <2>4. QED
    BY <2>1, <2>2, <2>3, Zenon
<1>3. ASSUME NEW o, AfterRead(o), ReadOK(s, p, b, o),
             Healthy(s.blk) /\ OnTrack(s) /\ Right(s, p, s.chunk) => ReadRight(s, p, o)
      PROVE  IndInv'
  <2>1. s.blk = br.blk
    BY <1>1, InProgress, Zenon DEF ReaderOK
  <2>2. QED
    BY <1>1, <1>2, <1>3, <2>1, AfterReadInv, Zenon
<1>4. CASE ReadStream
  <2> DEFINE o == StreamRead(s, b)
  <2>1. AfterRead(o)
    BY <1>4, Zenon DEF ReadStream
  <2> HIDE DEF s, p
  <2>2. /\ ReadOK(s, p, b, o)
        /\ Healthy(s.blk) /\ OnTrack(s) /\ Right(s, p, s.chunk) => ReadRight(s, p, o)
    BY <1>2, StreamReadOK, Zenon
  <2> HIDE DEF o
  <2>3. QED
    BY <1>3, <2>1, <2>2, Zenon
<1>5. CASE ReadStreamFails
  <2>1. PICK o \in StreamReadBroken(s, b) : AfterRead(o)
    BY <1>5 DEF ReadStreamFails
  <2>2. UsesConn(s)
    BY <1>5, Zenon DEF ReadStreamFails
  <2> HIDE DEF s, p
  <2>3. /\ ReadOK(s, p, b, o)
        /\ Healthy(s.blk) /\ OnTrack(s) /\ Right(s, p, s.chunk) => ReadRight(s, p, o)
    BY <1>2, <2>2, StreamReadBrokenOK, Zenon
  <2>4. QED
    BY <1>3, <2>1, <2>3
<1>6. CASE ReadHangUp
  <2> DEFINE o == Outcome(s, <<>>, "EOF")
  <2>1. AfterRead(o)
    BY <1>6, Zenon DEF ReadHangUp
  <2>2. o.bytes = <<>> /\ o.err = "EOF" /\ o.s = s
    BY DEF Outcome
  <2> HIDE DEF s, p, o
  <2>3. /\ ReadOK(s, p, b, o)
        /\ OnTrack(s) /\ Right(s, p, s.chunk) => ReadRight(s, p, o)
    BY <1>2, <2>2, NothingRead, Zenon
  <2>4. QED
    BY <1>3, <2>1, <2>3
<1>7. QED
  BY <1>4, <1>5, <1>6
-----------------------------------------------------------------------------
(* The theorems.                                                           *)

\* Every step of the FileReader keeps the invariant.
LEMMA NextInv ==
    ASSUME IndInv, [Next]_vars
    PROVE  IndInv'
<1>1. CASE UNCHANGED vars
  <2>1. /\ UNCHANGED <<pc, b, br, ret, datanodeFailures, offset, closed, deadline, blocks>>
        /\ UNCHANGED <<call, got>>
    BY <1>1 DEF vars, readerVars, fileVars
  <2>2. Types' /\ ReaderInv' /\ PlaceInv'
    BY <2>1, IndParts, Zenon DEF Types, ReaderInv, PlaceInv
  <2>3. CallInv' /\ RetInv' /\ RightInv'
    BY <2>1, IndParts, Zenon DEF CallInv, EOFOnlyAtEnd, RetInv, RightInv, HealthyBytes
  <2>4. QED
    BY <2>2, <2>3 DEF IndInv
<1>2. CASE \E n \in ReadSizes : Read(n)
  BY <1>2, ReadInv
<1>3. CASE \E n \in ReadSizes, off \in 0 .. FileSize : ReadAt(n, off)
  BY <1>3, ReadAtInv
<1>4. CASE \E off \in 0 .. FileSize : Seek(off)
  BY <1>4, SeekInv
<1>5. CASE \E t \in Deadlines : SetDeadline(t)
  BY <1>5, SetDeadlineInv
<1>6. CASE Close
  BY <1>6, CloseInv
<1>7. CASE Progress
  BY <1>7, ReadBeginsInv, ReadReturnsInv, ReadChecksInv, ConnectNextInv, ConnectFailsInv,
     ConnectUndatedInv, StreamStepsInv, NoneLeftInv, Zenon DEF Progress, ReaderStep
<1>8. QED
  BY <1>1, <1>2, <1>3, <1>4, <1>5, <1>6, <1>7 DEF Next

\* The invariant holds of every state that can be reached.
THEOREM InvariantHolds == Spec => []IndInv
<1>1. Init => IndInv
  BY InitInv
<1>2. IndInv /\ [Next]_vars => IndInv'
  BY NextInv
<1>3. QED
  BY <1>1, <1>2, PTL DEF Spec

\* Every variable keeps its type, for every file, datanodes and calls.
THEOREM TypeCorrect == Spec => []TypeOK
<1>1. IndInv => TypeOK
  <2>1. SUFFICES ASSUME IndInv PROVE TypeOK
    OBVIOUS
  <2>2. ASSUME br # NoReader
        PROVE  /\ br.blk \in Blocks /\ br.offset \in Nat /\ br.current \in 0 .. NDatanodes
               /\ Range(br.datanodes) \subseteq Datanodes
               /\ br.stream = NoStream \/ br.stream.dn = br.current
    <3>1. br \in Reader
      BY <2>1, <2>2, IndParts DEF Types
    <3>2. /\ br.blk \in Blocks /\ br.offset \in Nat /\ br.current \in 0 .. NDatanodes
          /\ br.datanodes \in Seq(Datanodes)
      BY ONLY <3>1 DEF Reader
    <3>3. br.stream = NoStream \/ br.stream.dn = br.current
      BY <2>1, <2>2, IndParts, Zenon DEF ReaderInv, ReaderOK
    <3>4. Range(br.datanodes) \subseteq Datanodes
      BY <3>2 DEF Range
    <3>5. QED
      BY <3>2, <3>3, <3>4, Zenon
  <2>3. ret.err \in Errors /\ got.err \in Errors
    BY <2>1, IndParts DEF Types, Result
  <2>4. Range(datanodeFailures) \subseteq Datanodes
    <3>1. datanodeFailures \in Seq(Datanodes)
      BY <2>1, IndParts DEF Types
    <3>2. QED
      BY <3>1 DEF Range
  <2>5. QED
    BY <2>1, <2>2, <2>3, <2>4, IndParts, Zenon DEF Types, TypeOK, Errors
<1>2. QED
  BY <1>1, InvariantHolds, PTL

\* The file, its BlockReader and the caller agree on how far a read has come,
\* and io.EOF is returned only at the end of the file: file_reader.go,
\* block_reader.go and block_read_stream.go, for every file, chunk and packet
\* size, whichever chunks are corrupt and however connections fail.
THEOREM PlacesAgree == Spec => []OffsetsAgree
<1>1. IndInv => OffsetsAgree
  <2>1. SUFFICES ASSUME IndInv PROVE OffsetsAgree
    OBVIOUS
  <2>2. ASSUME br # NoReader, ~closed, pc \in {"idle", "read", "check", "loop"}
        PROVE  offset = Start[br.blk] + br.offset
    <3>1. Start[br.blk] + br.offset = offset + 0
      BY <2>1, <2>2, IndParts DEF PlaceInv
    <3>2. offset \in Nat
      BY <2>1, IndParts DEF Types
    <3>3. offset + 0 = offset
      BY ONLY <3>2
    <3>4. QED
      BY ONLY <3>1, <3>3
  <2>3. AtSamePlace
    BY <2>1, <2>2, IndParts, Zenon DEF CallInv, AtSamePlace
  <2>4. QED
    BY <2>1, <2>3, IndParts, Zenon DEF CallInv, OffsetsAgree
<1>2. QED
  BY <1>1, InvariantHolds, PTL

\* A read fails only when every datanode has, a datanode that has failed is
\* used only when the ones left have as well, and the deadline set last is on
\* the connection in use, unless that takes none: datanodeFailover, connectNext
\* and SetDeadline, for every number of datanodes.
THEOREM FailoverSafe == Spec => []FailoverRight
<1>1. IndInv => FailoverRight
  <2>1. SUFFICES ASSUME IndInv PROVE FailoverRight
    OBVIOUS
  <2>2. DeadlineFollows
    BY <2>1, IndParts, Zenon DEF ReaderInv, ReaderOK, DeadlineFollows
  <2>3. pc = "returned" /\ ret.err = "error" /\ ~br.closed =>
            br.datanodes = <<>> /\ Datanodes \subseteq Range(datanodeFailures)
    BY <2>1, IndParts, Zenon DEF RetInv
  <2>4. ASSUME pc = "loop", br.stream # NoStream, br.connDeadline # Undated, HasFailed(br.current)
        PROVE  Range(br.datanodes) \subseteq Range(datanodeFailures)
    <3>1. ReaderOK(br, deadline, Range(datanodeFailures)) /\ datanodeFailures \in Seq(Datanodes)
      BY <2>1, <2>4, InProgress, Zenon
    <3>2. br.current \in Range(datanodeFailures)
      BY <2>4 DEF HasFailed
    <3>3. QED
      BY <2>4, <3>1, <3>2, Zenon DEF ReaderOK
  <2>5. QED
    BY <2>2, <2>3, <2>4, Zenon DEF TriedBeforeFailing, FailoverRight
<1>2. QED
  BY <1>1, InvariantHolds, PTL

\* Up to the first block with a corrupt chunk, what Read and ReadAt return are
\* the bytes of the file from where they started, through any mix of read sizes,
\* seeks, packets, blocks and failovers, whatever is corrupt elsewhere.
THEOREM HealthyBytesRight == Spec => []HealthyBytes
<1>1. IndInv => HealthyBytes
  BY IndParts, Zenon DEF RightInv
<1>2. QED
  BY <1>1, InvariantHolds, PTL

\* When no chunk is corrupt, all bytes are right.  (When one is, they need not
\* be: see README.)
THEOREM BytesRight ==
    ASSUME Corrupt = {}
    PROVE  Spec => []BytesOfFile
<1>1. IndInv => BytesOfFile
  <2>1. SUFFICES ASSUME IndInv, call.op # "none"
                 PROVE  got.bytes = [i \in 1 .. Len(got.bytes) |-> call.at + i - 1]
    BY DEF BytesOfFile
  <2>2. \A i : HealthySpan(call.at, i)
    BY DEF HealthySpan, Healthy
  <2>3. \A i \in 1 .. Len(got.bytes) : got.bytes[i] = call.at + i - 1
    BY <2>1, <2>2, IndParts, Zenon DEF RightInv, HealthyBytes
  <2> DEFINE g == got.bytes
             at == call.at
  <2>4. g \in Seq(Int) /\ \A i \in 1 .. Len(g) : g[i] = at + i - 1
    BY <2>1, <2>3, IndParts DEF Types, Result
  <2> HIDE DEF g, at
  <2>5. DOMAIN g = 1 .. Len(g) /\ g = [i \in DOMAIN g |-> g[i]]
    BY ONLY <2>4
  <2>6. g = [i \in 1 .. Len(g) |-> at + i - 1]
    BY ONLY <2>4, <2>5
  <2>7. QED
    BY <2>6 DEF g, at
<1>2. QED
  BY <1>1, InvariantHolds, PTL
=============================================================================
