--------------------- MODULE BlockWriteStreamFaultFree ----------------------
(***************************************************************************)
(* The stream as long as no fault has happened: the mutex keeps the frames on*)
(* the wire whole, the datanode receives and acknowledges the packets in the*)
(* order of their numbers, and so the ack loop never sees an error.        *)
(***************************************************************************)
EXTENDS BlockWriteStreamProofs

USE SizesAssumption, BoundsAssumption

-----------------------------------------------------------------------------
(* The wire without faults.  at and p stand for pc and pkt.                *)

\* Part i of w is followed by part k of its packet, which at the end of the wire
\* the caller is about to write.
FollowedBy(w, i, k, at, p) ==
    IF i < Len(w) THEN w[i + 1] = [kind |-> k, pkt |-> w[i].pkt]
    ELSE at = k /\ p = w[i].pkt

\* Part i of w comes after part k of its packet.
Follows(w, i, k) ==
    ~w[i].pkt.last /\ i > 1 /\ w[i - 1] = [kind |-> k, pkt |-> w[i].pkt]

\* The caller has written part k of p last.
EndsIn(w, k, p) == Len(w) > 0 /\ w[Len(w)] = [kind |-> k, pkt |-> p]

Framed(w, at, p) ==
    /\ \A i \in 1 .. Len(w) :
           /\ w[i].kind = "header" /\ ~w[i].pkt.last => FollowedBy(w, i, "checksums", at, p)
           /\ w[i].kind = "checksums" => FollowedBy(w, i, "data", at, p) /\ Follows(w, i, "header")
           /\ w[i].kind = "data" => Follows(w, i, "checksums")
           /\ w[i].kind # "torn"
    /\ at = "checksums" /\ ~p.last => EndsIn(w, "header", p)
    /\ at = "data" /\ ~p.last => EndsIn(w, "checksums", p)

\* Nothing is left to be written of a packet.
Between(at, p) == at \notin {"checksums", "data"} \/ p.last

\* The wire stays framed when the caller moves on between two packets.
LEMMA FramedMove ==
    ASSUME NEW w, NEW at, NEW p, NEW at2, NEW p2, Framed(w, at, p),
           Between(at, p), Between(at2, p2)
    PROVE  Framed(w, at2, p2)
<1>1. ASSUME NEW i \in 1 .. Len(w), NEW m \in {"checksums", "data"}, ~w[i].pkt.last,
             FollowedBy(w, i, m, at, p)
      PROVE  FollowedBy(w, i, m, at2, p2)
  <2>1. CASE i < Len(w)
    BY <1>1, <2>1 DEF FollowedBy
  <2>2. CASE ~(i < Len(w))
    BY <1>1, <2>2 DEF FollowedBy, Between
  <2>3. QED
    BY <2>1, <2>2
<1>2. ASSUME NEW i \in 1 .. Len(w), Follows(w, i, "header") PROVE ~w[i].pkt.last
  BY <1>2 DEF Follows
<1>3. QED
  BY <1>1, <1>2 DEF Framed, Between

\* Where a packet or a heartbeat ends.
EndsFrame(x) == x.kind \in {"data", "heartbeat"} \/ (x.kind = "header" /\ x.pkt.last)

\* It stays framed when the datanode takes whole frames off it.
LEMMA FramedDrop ==
    ASSUME NEW w \in Seq(Part), NEW v \in Seq(Part), NEW k \in 1 .. Len(w), NEW at, NEW p,
           Framed(w, at, p), EndsFrame(w[k]),
           Len(v) = Len(w) - k, \A i \in 1 .. Len(v) : v[i] = w[i + k]
    PROVE  Framed(v, at, p)
<1>0. Len(w) \in Nat /\ Len(v) \in Nat
  BY SeqParts
<1>1. ASSUME NEW i \in 1 .. Len(v), v[i].kind \in {"checksums", "data"} PROVE i > 1
  <2>1. CASE i = 1
    <3>1. w[k + 1] = v[1] /\ k + 1 \in 1 .. Len(w)
      BY <1>0, <2>1
    <3>2. \E m \in {"header", "checksums"} : Follows(w, k + 1, m)
      BY <1>1, <2>1, <3>1 DEF Framed
    <3>3. w[k].kind \in {"header", "checksums"} /\ ~w[k].pkt.last
      BY <3>2 DEF Follows
    <3>4. QED
      BY <3>3 DEF EndsFrame
  <2>2. QED
    BY <2>1
<1>2. ASSUME NEW i \in 1 .. Len(v), NEW m, i > 1, Follows(w, i + k, m) PROVE Follows(v, i, m)
  <2>0. i - 1 \in 1 .. Len(v) /\ (i - 1) + k = (i + k) - 1
    BY <1>0, <1>2
  <2>1. v[i - 1] = w[(i + k) - 1] /\ v[i] = w[i + k]
    BY <2>0
  <2>2. QED
    BY <1>2, <2>1 DEF Follows
<1>3. ASSUME NEW i \in 1 .. Len(v), NEW m, FollowedBy(w, i + k, m, at, p)
      PROVE  FollowedBy(v, i, m, at, p)
  <2>1. i + k < Len(w) <=> i < Len(v)
    BY <1>0
  <2>2. i < Len(v) => v[i + 1] = w[i + k + 1]
    BY <1>0
  <2>3. QED
    BY <1>3, <2>1, <2>2 DEF FollowedBy
<1>4. ASSUME NEW m \in {"header", "checksums"}, ~p.last, EndsIn(w, m, p) PROVE EndsIn(v, m, p)
  <2>1. w[Len(w)].kind = m /\ w[Len(w)].pkt = p /\ k # Len(w)
    BY <1>4 DEF EndsIn, EndsFrame
  <2>2. Len(v) > 0 /\ v[Len(v)] = w[Len(w)]
    BY <1>0, <2>1
  <2>3. QED
    BY <1>4, <2>2 DEF EndsIn
<1>5. \A i \in 1 .. Len(v) : i + k \in 1 .. Len(w) /\ v[i] = w[i + k]
  BY <1>0
<1>6. QED
  BY <1>1, <1>2, <1>3, <1>4, <1>5, Zenon DEF Framed

\* It stays framed when the next part of the packet is written, or a heartbeat
\* between two packets.
LEMMA FramedAppend ==
    ASSUME NEW w \in Seq(Part), NEW x \in Part, NEW at, NEW p, NEW at2, NEW p2,
           Framed(w, at, p),
           \/ /\ x.kind = "heartbeat" /\ Between(at, p) /\ at2 = at /\ p2 = p
           \/ /\ x = [kind |-> "header", pkt |-> p] /\ Between(at, p)
              /\ at2 = "checksums" /\ p2 = p
           \/ /\ x = [kind |-> "checksums", pkt |-> p] /\ at = "checksums" /\ ~p.last
              /\ at2 = "data" /\ p2 = p
           \/ /\ x = [kind |-> "data", pkt |-> p] /\ at = "data" /\ ~p.last
              /\ Between(at2, p2)
    PROVE  Framed(Append(w, x), at2, p2)
<1> DEFINE n == Len(w)
           v == Append(w, x)
<1>0. n \in Nat
  BY SeqParts
<1>1. Len(v) = n + 1 /\ v[n + 1] = x /\ \A i \in 1 .. n : v[i] = w[i]
  BY AppendParts
<1> HIDE DEF v, n
<1>2. ASSUME NEW i \in 1 .. n, NEW m, Follows(w, i, m) PROVE Follows(v, i, m)
  <2>1. i - 1 \in 1 .. n
    BY <1>0, <1>2 DEF Follows
  <2>2. QED
    BY <1>1, <1>2, <2>1 DEF Follows
<1>3. ASSUME NEW i \in 1 .. n, NEW m \in {"checksums", "data"}, ~w[i].pkt.last,
             FollowedBy(w, i, m, at, p)
      PROVE  FollowedBy(v, i, m, at2, p2)
  <2>1. CASE i < n
    BY <1>0, <1>1, <1>3, <2>1 DEF FollowedBy, n
  <2>2. CASE i = n
    <3>1. at = m /\ p = w[i].pkt
      BY <1>0, <1>3, <2>2 DEF FollowedBy, n
    <3>2. x = [kind |-> m, pkt |-> p]
      BY <1>3, <3>1 DEF Between
    <3>3. v[i + 1] = [kind |-> m, pkt |-> v[i].pkt] /\ i < Len(v)
      BY <1>0, <1>1, <2>2, <3>1, <3>2
    <3>4. QED
      BY <3>3 DEF FollowedBy
  <2>3. QED
    BY <1>0, <2>1, <2>2
<1>4. ASSUME NEW i \in 1 .. n
      PROVE  /\ v[i].kind = "header" /\ ~v[i].pkt.last => FollowedBy(v, i, "checksums", at2, p2)
             /\ v[i].kind = "checksums" =>
                    FollowedBy(v, i, "data", at2, p2) /\ Follows(v, i, "header")
             /\ v[i].kind = "data" => Follows(v, i, "checksums")
             /\ v[i].kind # "torn"
  <2>1. /\ v[i] = w[i]
        /\ w[i].kind = "header" /\ ~w[i].pkt.last => FollowedBy(w, i, "checksums", at, p)
        /\ w[i].kind = "checksums" => FollowedBy(w, i, "data", at, p) /\ Follows(w, i, "header")
        /\ w[i].kind = "data" => Follows(w, i, "checksums")
        /\ w[i].kind # "torn"
    BY <1>1 DEF Framed, n
  <2>2. w[i].kind = "checksums" => ~w[i].pkt.last
    BY <2>1 DEF Follows
  <2>3. QED
    BY <1>2, <1>3, <2>1, <2>2
<1>5. /\ x.kind = "header" /\ ~x.pkt.last => FollowedBy(v, n + 1, "checksums", at2, p2)
      /\ x.kind = "checksums" =>
             FollowedBy(v, n + 1, "data", at2, p2) /\ Follows(v, n + 1, "header")
      /\ x.kind = "data" => Follows(v, n + 1, "checksums")
      /\ x.kind # "torn"
  <2>1. at = "checksums" /\ ~p.last => n > 0 /\ v[n] = [kind |-> "header", pkt |-> p]
    BY <1>0, <1>1 DEF Framed, EndsIn, n
  <2>2. at = "data" /\ ~p.last => n > 0 /\ v[n] = [kind |-> "checksums", pkt |-> p]
    BY <1>0, <1>1 DEF Framed, EndsIn, n
  <2>3. CASE x.kind = "heartbeat"
    BY <2>3
  <2>4. CASE x = [kind |-> "header", pkt |-> p] /\ at2 = "checksums" /\ p2 = p
    BY <1>0, <1>1, <2>4 DEF FollowedBy
  <2>5. CASE x = [kind |-> "checksums", pkt |-> p] /\ at = "checksums" /\ ~p.last
             /\ at2 = "data" /\ p2 = p
    BY <1>0, <1>1, <2>1, <2>5 DEF FollowedBy, Follows
  <2>6. CASE x = [kind |-> "data", pkt |-> p] /\ at = "data" /\ ~p.last
    BY <1>0, <1>1, <2>2, <2>6 DEF Follows
  <2>7. QED
    BY <2>3, <2>4, <2>5, <2>6
<1>6. /\ at2 = "checksums" /\ ~p2.last => EndsIn(v, "header", p2)
      /\ at2 = "data" /\ ~p2.last => EndsIn(v, "checksums", p2)
  BY <1>0, <1>1 DEF EndsIn, Between
<1>7. \A i \in 1 .. Len(v) : i \in 1 .. n \/ i = n + 1
  BY <1>0, <1>1
<1>8. Framed(v, at2, p2)
  BY <1>1, <1>4, <1>5, <1>6, <1>7 DEF Framed
<1>9. QED
  BY <1>8 DEF v

\* The frames at the head of the wire are whole or still being written.
LEMMA FramedHead ==
    ASSUME NEW at, NEW p, wire \in Seq(Part), Framed(wire, at, p)
    PROVE  /\ ~Garbled
           /\ WholeFrame =>
                 LET k == FrameLength(wire[1].pkt)
                 IN  /\ EndsFrame(wire[k]) /\ wire[1].kind = "header"
                     /\ \A i \in 2 .. k : wire[i].kind # "header"
<1>0. Len(wire) \in Nat /\ (wire # <<>> => Len(wire) >= 1)
  BY EmptyParts, SeqParts
<1>1. ASSUME wire # <<>> PROVE wire[1].kind \in {"header", "heartbeat"}
  <2>1. 1 \in 1 .. Len(wire) /\ wire[1] \in Part
    BY <1>0, <1>1
  <2>2. wire[1].kind \notin {"checksums", "data", "torn"}
    <3>1. ~Follows(wire, 1, "header") /\ ~Follows(wire, 1, "checksums")
      BY DEF Follows
    <3>2. QED
      BY <2>1, <3>1 DEF Framed
  <2>3. QED
    BY <2>1, <2>2 DEF Part
<1>2. ASSUME wire # <<>>, wire[1].kind = "header", ~wire[1].pkt.last
      PROVE  /\ Len(wire) > 1 => wire[2] = [kind |-> "checksums", pkt |-> wire[1].pkt]
             /\ Len(wire) > 2 => wire[3] = [kind |-> "data", pkt |-> wire[1].pkt]
  <2>1. FollowedBy(wire, 1, "checksums", at, p)
    BY <1>0, <1>2 DEF Framed
  <2>2. Len(wire) > 1 => wire[2] = [kind |-> "checksums", pkt |-> wire[1].pkt]
    BY <2>1 DEF FollowedBy
  <2>3. Len(wire) > 1 => FollowedBy(wire, 2, "data", at, p)
    BY <1>0, <2>2 DEF Framed
  <2>4. QED
    BY <2>2, <2>3 DEF FollowedBy
<1>3. QED
  BY <1>1, <1>2 DEF Garbled, WholeFrame, FrameLength, EndsFrame

-----------------------------------------------------------------------------
(* Numbers in order: f[1 .. n] without its gaps counts from lo to hi.       *)

Gap == HeartBeatSeqno

Counts(f, n, lo, hi) ==
    /\ \A i \in 1 .. n : f[i] # Gap => f[i] \in lo .. hi
    /\ \A i, j \in 1 .. n : i < j /\ f[i] # Gap /\ f[j] # Gap => f[i] < f[j]
    /\ \A s \in lo .. hi : \E i \in 1 .. n : f[i] = s

\* A gap or the next number is added at the end.
LEMMA CountsAppend ==
    ASSUME NEW n \in Nat, NEW lo \in Nat, NEW hi \in Int, lo <= hi + 1, NEW f, NEW g,
           \A i \in 1 .. n : g[i] = f[i] /\ f[i] \in Int, Counts(f, n, lo, hi)
    PROVE  /\ g[n + 1] = Gap => Counts(g, n + 1, lo, hi)
           /\ g[n + 1] = hi + 1 => Counts(g, n + 1, lo, hi + 1)
<1>1. \A i \in 1 .. n + 1 : i \in 1 .. n \/ i = n + 1
  OBVIOUS
<1>2. CASE g[n + 1] = Gap
  BY <1>1, <1>2 DEF Counts
<1>3. CASE g[n + 1] = hi + 1
  <2>1. \A i \in 1 .. n : g[i] # Gap => g[i] \in lo .. hi
    BY DEF Counts
  <2>2. \A i \in 1 .. n + 1 : g[i] # Gap => g[i] \in lo .. hi + 1
    BY <1>1, <1>3, <2>1
  <2>3. \A i, j \in 1 .. n + 1 : i < j /\ g[i] # Gap /\ g[j] # Gap => g[i] < g[j]
    BY <1>1, <1>3, <2>1 DEF Counts
  <2>4. \A s \in lo .. hi + 1 : \E i \in 1 .. n + 1 : g[i] = s
    <3>1. ASSUME NEW s \in lo .. hi PROVE \E i \in 1 .. n : g[i] = s
      BY DEF Counts
    <3>2. QED
      BY <1>3, <3>1
  <2>5. QED
    BY <2>2, <2>3, <2>4, <1>3 DEF Counts, Gap, HeartBeatSeqno
<1>4. QED
  BY <1>2, <1>3 DEF Gap, HeartBeatSeqno

\* Gaps are taken away at the front.
LEMMA CountsDropGaps ==
    ASSUME NEW n \in Nat, NEW lo \in Nat, NEW hi \in Int, NEW f, NEW g, NEW k \in 1 .. n,
           \A i \in 1 .. n : f[i] \in Int, \A i \in 1 .. n - k : g[i] = f[i + k],
           \A i \in 1 .. k : f[i] = Gap, Counts(f, n, lo, hi)
    PROVE  Counts(g, n - k, lo, hi)
<1>1. \A i \in 1 .. n - k : i + k \in 1 .. n
  OBVIOUS
<1>2. ASSUME NEW s \in lo .. hi PROVE \E i \in 1 .. n - k : g[i] = s
  <2>1. PICK i \in 1 .. n : f[i] = s
    BY DEF Counts
  <2>2. s # Gap
    BY DEF Gap, HeartBeatSeqno
  <2>3. i - k \in 1 .. n - k /\ g[i - k] = f[i]
    BY <2>1, <2>2
  <2>4. QED
    BY <2>1, <2>3
<1>3. QED
  BY <1>1, <1>2 DEF Counts

\* The lowest number is taken away at the front, with the gaps after it.
LEMMA CountsDropFirst ==
    ASSUME NEW n \in Nat, NEW lo \in Nat, NEW hi \in Int, NEW f, NEW g, NEW k \in 1 .. n,
           \A i \in 1 .. n : f[i] \in Int, \A i \in 1 .. n - k : g[i] = f[i + k],
           f[1] # Gap, \A i \in 2 .. k : f[i] = Gap, Counts(f, n, lo, hi)
    PROVE  f[1] = lo /\ lo <= hi /\ Counts(g, n - k, lo + 1, hi)
<1>1. \A i \in 1 .. n - k : i + k \in 1 .. n
  OBVIOUS
<1>2. f[1] \in lo .. hi /\ f[1] \in Int /\ 1 \in 1 .. n
  BY DEF Counts
<1>3. f[1] = lo
  <2>1. PICK i \in 1 .. n : f[i] = lo
    BY <1>2 DEF Counts
  <2>2. lo # Gap
    BY DEF Gap, HeartBeatSeqno
  <2>3. i # 1 => f[1] < f[i]
    BY <1>2, <2>1, <2>2 DEF Counts
  <2>4. QED
    BY <1>2, <2>1, <2>3
<1>4. ASSUME NEW i \in 2 .. n, f[i] # Gap PROVE f[i] \in lo + 1 .. hi
  <2>1. f[i] \in lo .. hi /\ f[1] < f[i]
    BY <1>2, <1>4 DEF Counts
  <2>2. QED
    BY <1>3, <2>1
<1>5. \A i \in 1 .. n - k : g[i] # Gap => g[i] \in lo + 1 .. hi
  BY <1>1, <1>4
<1>6. \A i, j \in 1 .. n - k : i < j /\ g[i] # Gap /\ g[j] # Gap => g[i] < g[j]
  BY <1>1 DEF Counts
<1>7. ASSUME NEW s \in lo + 1 .. hi PROVE \E i \in 1 .. n - k : g[i] = s
  <2>1. PICK i \in 1 .. n : f[i] = s
    BY DEF Counts
  <2>2. s # Gap /\ s # lo
    BY DEF Gap, HeartBeatSeqno
  <2>3. i - k \in 1 .. n - k /\ g[i - k] = f[i]
    BY <1>3, <2>1, <2>2
  <2>4. QED
    BY <2>1, <2>3
<1>8. Counts(g, n - k, lo + 1, hi)
  BY <1>5, <1>6, <1>7 DEF Counts
<1>9. QED
  BY <1>2, <1>3, <1>8

-----------------------------------------------------------------------------
(* The stream without faults.                                              *)

\* The mutex of the stream is held by whoever is inside conn.Write.
LockOK ==
    /\ lock = "caller" <=> pc \in {"header", "checksums", "data"}
    /\ lock = "heartbeat" <=> hbPc = "write"

Numbers(w) == [i \in 1 .. Len(w) |-> IF w[i].kind = "header" THEN w[i].pkt.seqno ELSE Gap]

AckNumbers == [i \in 1 .. Len(acks) |-> acks[i].seqno]

FirstUnacked == Len(log) - Unacknowledged + 1

LastWritten == Len(log) - (IF pc \in {"lock", "header"} THEN 1 ELSE 0)

\* The datanode has received the packets up to r: the wire holds the headers of
\* the ones after it, and the answers that the ack loop has not read are those
\* from its next packet to r.
WireOrder(r) ==
    r <= LastWritten /\ Counts(Numbers(wire), Len(wire), r + 1, LastWritten)

AckOrder(r) ==
    ackPc \in {"recv", "read"} =>
        FirstUnacked <= r + 1 /\ Counts(AckNumbers, Len(acks), FirstUnacked, r)

Clear ==
    /\ ~broken /\ ~expired /\ ackError = "none"
    /\ Framed(wire, pc, pkt)
    /\ \A i \in 1 .. Len(acks) : acks[i].ok
    /\ \E r \in Nat : WireOrder(r) /\ AckOrder(r)

FaultFree == faults = {} => Clear

\* What the invariant gives about the numbers in use.
LEMMA Numbering ==
    ASSUME IndInv
    PROVE  /\ Len(wire) \in Nat /\ Len(acks) \in Nat /\ Len(log) \in Nat
           /\ Len(packets) \in Nat /\ LastWritten \in Nat
           /\ FirstUnacked \in Nat \ {0}
           /\ \A i \in 1 .. Len(wire) : Numbers(wire)[i] \in Int
           /\ \A i \in 1 .. Len(acks) : AckNumbers[i] \in Int
           /\ ackPc = "read" => cur.seqno = FirstUnacked
           /\ Writing => pkt.seqno = Len(log)
<1>1. /\ wire \in Seq(Part) /\ acks \in Seq(Ack) /\ log \in Seq(Packet)
      /\ packets \in Seq(Packet)
  BY DEF IndInv, TypeOK, ConnTypes, HistTypes, ChannelTypes
<1>2. Len(wire) \in Nat /\ Len(acks) \in Nat /\ Len(log) \in Nat /\ Len(packets) \in Nat
  BY <1>1, SeqParts
<1>3. LastWritten \in Nat
  BY <1>2 DEF LastWritten, IndInv, Accounting, Writing
<1>4. FirstUnacked \in Nat \ {0}
  BY <1>2 DEF FirstUnacked, Unacknowledged, IndInv, QueueOK
<1>5. ASSUME NEW i \in 1 .. Len(wire) PROVE Numbers(wire)[i] \in Int
  <2>1. wire[i] \in Part
    BY <1>1
  <2>2. wire[i].pkt.seqno \in Nat
    BY <2>1 DEF Part, Packet
  <2>3. QED
    BY <2>2 DEF Numbers, Gap, HeartBeatSeqno
<1>6. ASSUME NEW i \in 1 .. Len(acks) PROVE AckNumbers[i] \in Int
  <2>1. acks[i] \in Ack
    BY <1>1
  <2>2. QED
    BY <2>1 DEF AckNumbers, Ack, HeartBeatSeqno
<1>7. \A i \in 1 .. Len(log) : log[i].seqno = i
  BY DEF IndInv, LogOK, PacketsContiguous
<1>8. ackPc = "read" => cur.seqno = FirstUnacked
  <2>1. ackPc = "read" => cur = log[Len(log) - Len(packets)] /\ Len(packets) < Len(log)
    BY DEF IndInv, QueueOK
  <2>2. QED
    BY <1>2, <1>7, <2>1 DEF FirstUnacked, Unacknowledged
<1>9. Writing => pkt.seqno = Len(log)
  BY <1>2, <1>7 DEF IndInv, Accounting
<1>10. QED
  BY <1>2, <1>3, <1>4, <1>5, <1>6, <1>8, <1>9

\* A lock is taken only when it is free and given back by its holder.
LEMMA LockStep ==
    ASSUME TypeOK, LockOK, [Next]_vars
    PROVE  LockOK'
<1>0. pc \in Pcs /\ lock \in {"free", "caller", "heartbeat"} /\ hbPc \in {"wait", "lock", "write", "done"}
  BY DEF TypeOK, CallerTypes, ChannelTypes, LoopTypes
<1>1. CASE Call
  BY <1>1, SMTT(30) DEF Call, Write, Flush, Finish, Return, Begin, LockOK, hbVars
<1>2. CASE FlushLoop \/ CloseChannels \/ Join
  BY <1>2 DEF FlushLoop, CloseChannels, Join, Return, LockOK, hbVars
<1>3. CASE Enqueue
  BY <1>3 DEF Enqueue, LockOK, hbVars
<1>4. CASE AcquireLock
  BY <1>4 DEF AcquireLock, LockOK, hbVars
<1>5. CASE WritePart
  <2>1. CASE pc # "data"
    <3>1. pc' \in {"checksums", "data"} /\ UNCHANGED <<lock, hbPc>>
      BY <1>5, <2>1 DEF WritePart, NextPart, hbVars
    <3>2. QED
      BY <1>5, <3>1 DEF WritePart, LockOK
  <2>2. CASE pc = "data"
    <3>1. pc' \in {"close", "idle", "flush"} /\ lock' = "free" /\ UNCHANGED hbPc
      BY <1>5, <2>2 DEF WritePart, Leave, Return, hbVars
    <3>2. QED
      BY <2>2, <3>1 DEF LockOK
  <2>3. QED
    BY <2>1, <2>2
<1>6. CASE WritePartFails
  BY <1>6 DEF WritePartFails, Leave, Return, LockOK, hbVars
<1>7. CASE HeartbeatStep
  BY <1>0, <1>7 DEF HeartbeatStep, HeartbeatTick, HeartbeatLock, HeartbeatWrite,
                    HeartbeatStop, LockOK, callerVars
<1>8. CASE AckStep \/ DatanodeStep \/ SetDeadline \/ ConnectionBreaks \/ DeadlinePasses
  <2>1. UNCHANGED <<pc, lock, hbPc>>
    BY <1>8, Zenon DEF AckStep, AckReceive, AckRead, AckReadFails, AckDrain, DatanodeStep,
                DatanodePacket, DatanodeHeartbeat, DatanodeRejects, SetDeadline,
                ConnectionBreaks, DeadlinePasses, callerVars, hbVars
  <2>2. QED
    BY <2>1 DEF LockOK
<1>9. CASE UNCHANGED vars
  BY <1>9 DEF vars, callerVars, hbVars, LockOK
<1>10. QED
  BY <1>1, <1>2, <1>3, <1>4, <1>5, <1>6, <1>7, <1>8, <1>9, NextCases
    DEF CallerStep, Environment

\* Steps that touch neither the connection nor the place of the packets in it.
LEMMA ClearKept ==
    ASSUME Clear, UNCHANGED <<wire, acks, broken, ackError>>, ~expired',
           LastWritten' = LastWritten,
           (Between(pc, pkt) /\ Between(pc', pkt')) \/ UNCHANGED <<pc, pkt>>,
           ackPc' \in {"recv", "read"} =>
               ackPc \in {"recv", "read"} /\ FirstUnacked' = FirstUnacked
    PROVE  Clear'
<1>1. Framed(wire, pc', pkt')
  BY FramedMove DEF Clear
<1>2. PICK r \in Nat : WireOrder(r) /\ AckOrder(r)
  BY DEF Clear
<1>3. WireOrder(r)'
  BY <1>2 DEF WireOrder
<1>4. AckOrder(r)'
  BY <1>2 DEF AckOrder, AckNumbers
<1>5. QED
  BY <1>1, <1>3, <1>4 DEF Clear

\* The caller's steps outside conn.Write.
LEMMA ClearCaller ==
    ASSUME IndInv, Clear,
           Call \/ FlushLoop \/ Enqueue \/ AcquireLock \/ CloseChannels \/ Join
    PROVE  Clear'
<1>0. /\ UNCHANGED <<wire, acks, broken, expired, ackError, ackPc>>
      /\ pc \notin {"checksums", "data"} /\ pc' \notin {"checksums", "data"}
  <2>1. CASE Call
    BY <2>1, Zenon DEF Call, Write, Flush, Finish, Return, Begin, connVars, ackVars
  <2>2. CASE FlushLoop \/ Enqueue
    BY <2>2, Zenon DEF FlushLoop, Enqueue, Return, connVars, ackVars
  <2>3. CASE AcquireLock \/ CloseChannels \/ Join
    BY <2>3, Zenon DEF AcquireLock, CloseChannels, Join, Return, connVars, ackVars
  <2>4. QED
    BY <2>1, <2>2, <2>3
<1>1. Between(pc, pkt) /\ Between(pc', pkt')
  BY <1>0 DEF Between
<1>2. LastWritten' = LastWritten /\ FirstUnacked' = FirstUnacked
  <2>1. CASE UNCHANGED <<packets, log>> /\ (pc \in {"lock", "header"} <=> pc' \in {"lock", "header"})
    BY <1>0, <2>1 DEF LastWritten, FirstUnacked, Unacknowledged
  <2>2. CASE Call
    <3>1. pc = "idle" /\ pc' \in {"idle", "flush", "close"}
      BY <2>2, Zenon DEF Call, Write, Flush, Finish, Return, Begin
    <3>2. QED
      BY <2>1, <2>2, <3>1, CallFrame
  <2>3. CASE FlushLoop
    BY <2>1, <2>3 DEF FlushLoop, Return, histVars
  <2>4. CASE AcquireLock
    BY <2>1, <2>4 DEF AcquireLock, histVars
  <2>5. CASE CloseChannels
    BY <2>1, <2>5 DEF CloseChannels, histVars
  <2>6. CASE Join
    BY <2>1, <2>6 DEF Join, Return, histVars
  <2>7. CASE Enqueue /\ chClosed
    BY <2>1, <2>7 DEF Enqueue
  <2>8. CASE Enqueue /\ ~chClosed
    <3>1. /\ packets \in Seq(Packet) /\ log \in Seq(Packet) /\ pkt \in Packet
      BY DEF IndInv, TypeOK, ChannelTypes, HistTypes, CallerTypes
    <3>2. /\ packets' = Append(packets, pkt) /\ log' = Append(log, pkt)
          /\ pc = "enqueue" /\ pc' = "lock"
      BY <2>8 DEF Enqueue
    <3>3. Len(packets') = Len(packets) + 1 /\ Len(log') = Len(log) + 1
      BY <3>1, <3>2, AppendParts
    <3>4. QED
      BY <1>0, <3>2, <3>3, Numbering DEF LastWritten, FirstUnacked, Unacknowledged
  <2>9. QED
    BY <2>2, <2>3, <2>4, <2>5, <2>6, <2>7, <2>8
<1>3. QED
  BY <1>0, <1>1, <1>2, ClearKept DEF Clear

\* The numbers on a wire that has got one more part.
LEMMA NumbersAppend ==
    ASSUME NEW w \in Seq(Part), NEW x \in Part
    PROVE  LET n == Len(w)
               v == Append(w, x)
           IN  /\ Len(v) = n + 1
               /\ \A i \in 1 .. n : Numbers(v)[i] = Numbers(w)[i]
               /\ Numbers(v)[n + 1] = IF x.kind = "header" THEN x.pkt.seqno ELSE Gap
<1>1. /\ Len(w) \in Nat /\ Len(Append(w, x)) = Len(w) + 1
      /\ Append(w, x)[Len(w) + 1] = x /\ \A i \in 1 .. Len(w) : Append(w, x)[i] = w[i]
  BY AppendParts, SeqParts
<1>2. QED
  <2> DEFINE v == Append(w, x)
  <2>1. v \in Seq(Part) /\ DOMAIN Numbers(v) = 1 .. Len(v)
    BY AppendParts DEF Numbers
  <2> HIDE DEF v
  <2>2. \A i \in 1 .. Len(w) : i \in 1 .. Len(v)
    BY ONLY <1>1 DEF v
  <2>3. \A i \in 1 .. Len(w) : v[i] = w[i]
    BY ONLY <1>1 DEF v
  <2>4. \A i \in 1 .. Len(w) : Numbers(v)[i] = Numbers(w)[i]
    BY <2>2, <2>3, Zenon DEF Numbers
  <2>5. Len(w) + 1 \in 1 .. Len(v) /\ v[Len(w) + 1] = x /\ Len(v) = Len(w) + 1
    BY ONLY <1>1 DEF v
  <2>6. Numbers(v)[Len(w) + 1] = IF x.kind = "header" THEN x.pkt.seqno ELSE Gap
    BY <2>5, Zenon DEF Numbers
  <2>7. QED
    BY <2>4, <2>5, <2>6, Zenon DEF v

\* conn.Write of a part of a packet.
LEMMA ClearWritePart ==
    ASSUME IndInv, Clear, WritePart
    PROVE  Clear'
<1>0. /\ UNCHANGED <<acks, broken, expired, ackError, ackPc, log, packets, pkt>>
      /\ pc \in {"header", "checksums", "data"} /\ Writing
  BY DEF WritePart, ackVars, histVars, Writing
<1>1. /\ pc = "header" => pc' = "checksums"
      /\ pc = "checksums" => pc' = "data"
      /\ pc = "data" => pc' \in {"close", "idle", "flush"}
  BY DEF WritePart, NextPart, Leave, Return
<1>2. FirstUnacked' = FirstUnacked
  BY <1>0 DEF FirstUnacked, Unacknowledged
<1>3. CASE EmptyPart
  <2>1. UNCHANGED wire /\ pkt.last /\ pc # "header"
    BY <1>3 DEF WritePart, EmptyPart
  <2>2. Between(pc, pkt) /\ Between(pc', pkt') /\ LastWritten' = LastWritten
    BY <1>0, <1>1, <2>1 DEF Between, LastWritten
  <2>3. QED
    BY <1>0, <1>2, <2>1, <2>2, ClearKept DEF Clear
<1>4. CASE ~EmptyPart
  <2> DEFINE x == [kind |-> pc, pkt |-> pkt]
  <2>1. /\ wire' = Append(wire, x) /\ x \in Part /\ wire \in Seq(Part)
        /\ pc = "header" \/ ~pkt.last
    <3>1. pkt \in Packet /\ wire \in Seq(Part)
      BY DEF IndInv, TypeOK, CallerTypes, ConnTypes
    <3>2. QED
      BY <1>0, <1>4, <3>1, PacketTypes, Zenon DEF WritePart, EmptyPart
  <2>2. Framed(wire', pc', pkt')
    <3>1. Framed(wire, pc, pkt)
      BY DEF Clear
    <3>2. CASE pc = "header"
      <4>1. Between(pc, pkt) /\ pc' = "checksums" /\ x = [kind |-> "header", pkt |-> pkt]
        BY <1>1, <3>2 DEF Between
      <4>2. Framed(Append(wire, x), "checksums", pkt)
        BY <2>1, <3>1, <4>1, FramedAppend, Zenon
      <4>3. QED
        BY <1>0, <2>1, <4>1, <4>2
    <3>3. CASE pc = "checksums"
      <4>1. Framed(Append(wire, x), "data", pkt)
        BY <2>1, <3>1, <3>3, FramedAppend
      <4>2. QED
        BY <1>0, <1>1, <2>1, <3>3, <4>1
    <3>4. CASE pc = "data"
      <4>1. Between(pc', pkt')
        BY <1>1, <3>4 DEF Between
      <4>2. Framed(Append(wire, x), pc', pkt')
        BY <2>1, <3>1, <3>4, <4>1, FramedAppend
      <4>3. QED
        BY <2>1, <4>2
    <3>5. QED
      BY <1>0, <3>2, <3>3, <3>4
  <2>3. PICK r \in Nat : WireOrder(r) /\ AckOrder(r)
    BY DEF Clear
  <2>4. WireOrder(r)'
    <3> DEFINE f == Numbers(wire)
               g == Numbers(wire')
               n == Len(wire)
    <3>1. /\ Len(wire') = n + 1 /\ \A i \in 1 .. n : g[i] = f[i]
          /\ g[n + 1] = IF pc = "header" THEN pkt.seqno ELSE Gap
      BY <2>1, NumbersAppend, Zenon
    <3>2. /\ n \in Nat /\ LastWritten \in Nat /\ \A i \in 1 .. n : f[i] \in Int
          /\ pkt.seqno = Len(log) /\ Len(log) \in Nat
      BY <1>0, Numbering
    <3> DEFINE lo == r + 1
               hi == LastWritten
    <3>3. lo \in Nat /\ hi \in Int /\ lo <= hi + 1 /\ Counts(f, n, lo, hi)
      BY <2>3, <3>2 DEF WireOrder
    <3> HIDE DEF f, g, n, lo, hi
    <3>4. /\ g[n + 1] = Gap => Counts(g, n + 1, lo, hi)
          /\ g[n + 1] = hi + 1 => Counts(g, n + 1, lo, hi + 1)
      BY <3>1, <3>2, <3>3, CountsAppend, Zenon
    <3>5. CASE pc = "header"
      <4>1. LastWritten' = LastWritten + 1 /\ g[n + 1] = LastWritten + 1
        BY <1>0, <1>1, <3>1, <3>2, <3>5 DEF LastWritten
      <4>2. QED
        BY <2>3, <3>1, <3>2, <3>4, <4>1 DEF WireOrder, g, lo, hi
    <3>6. CASE pc # "header"
      <4>1. LastWritten' = LastWritten /\ g[n + 1] = Gap
        BY <1>0, <1>1, <3>1, <3>6, Zenon DEF LastWritten
      <4>2. QED
        BY <2>3, <3>1, <3>2, <3>4, <4>1, Zenon DEF WireOrder, g, lo, hi
    <3>7. QED
      BY <3>5, <3>6
  <2>5. AckOrder(r)'
    BY <1>0, <1>2, <2>3 DEF AckOrder, AckNumbers
  <2>6. QED
    BY <1>0, <2>2, <2>4, <2>5 DEF Clear
<1>5. QED
  BY <1>3, <1>4

\* conn.Write of a heartbeat.
LEMMA ClearHeartbeatWrite ==
    ASSUME IndInv, LockOK, Clear, HeartbeatWrite
    PROVE  Clear'
<1> DEFINE x == [kind |-> "heartbeat", pkt |-> NoPacket]
<1>1. /\ UNCHANGED <<acks, broken, expired, ackError, ackPc, log, packets, pkt, pc>>
      /\ wire' = Append(wire, x) /\ x \in Part /\ wire \in Seq(Part)
  <2>1. wire' = Append(wire, x)
    BY DEF HeartbeatWrite, Clear, ConnDown
  <2>2. x \in Part /\ wire \in Seq(Part)
    BY PacketTypes, Zenon DEF IndInv, TypeOK, ConnTypes
  <2>3. QED
    BY <2>1, <2>2 DEF HeartbeatWrite, callerVars, ackVars, histVars
<1>2. Between(pc, pkt)
  BY DEF HeartbeatWrite, LockOK, Between
<1>3. Framed(wire', pc', pkt')
  <2>1. Framed(Append(wire, x), pc, pkt)
    BY <1>1, <1>2, FramedAppend, Zenon DEF Clear
  <2>2. QED
    BY <1>1, <2>1
<1>4. PICK r \in Nat : WireOrder(r) /\ AckOrder(r)
  BY DEF Clear
<1>5. LastWritten' = LastWritten /\ FirstUnacked' = FirstUnacked
  BY <1>1 DEF LastWritten, FirstUnacked, Unacknowledged
<1>6. WireOrder(r)'
  <2> DEFINE f == Numbers(wire)
             g == Numbers(wire')
             n == Len(wire)
  <2>1. Len(wire') = n + 1 /\ g[n + 1] = Gap /\ \A i \in 1 .. n : g[i] = f[i]
    BY <1>1, NumbersAppend, Zenon
  <2>2. n \in Nat /\ LastWritten \in Nat /\ \A i \in 1 .. n : f[i] \in Int
    BY Numbering
  <2> DEFINE lo == r + 1
             hi == LastWritten
  <2>3. lo \in Nat /\ hi \in Int /\ lo <= hi + 1 /\ Counts(f, n, lo, hi)
    BY <1>4, <2>2 DEF WireOrder
  <2> HIDE DEF f, g, n, lo, hi
  <2>4. Counts(g, n + 1, lo, hi)
    BY <2>1, <2>2, <2>3, CountsAppend, Zenon
  <2>5. QED
    BY <1>4, <1>5, <2>1, <2>4, Zenon DEF WireOrder, g, lo, hi
<1>7. AckOrder(r)'
  BY <1>1, <1>4, <1>5, Zenon DEF AckOrder, AckNumbers
<1>8. QED
  BY <1>1, <1>3, <1>6, <1>7 DEF Clear

\* The ack loop: the answer it reads is to the heartbeat, or to its packet.
LEMMA ClearAck ==
    ASSUME IndInv, Clear, AckStep
    PROVE  Clear'
<1>0. /\ UNCHANGED <<wire, broken, expired, log, pkt, pc>>
      /\ ~ConnDown /\ ackPc # "drain"
  <2>1. UNCHANGED <<wire, broken, expired, log, pkt, pc>>
    BY Zenon DEF AckStep, AckReceive, AckRead, AckReadFails, AckDrain, callerVars, connVars, histVars
  <2>2. QED
    BY <2>1 DEF Clear, ConnDown, IndInv, QueueOK
<1>1. LastWritten' = LastWritten
  BY <1>0 DEF LastWritten
<1>2. CASE AckReceive
  <2>1. UNCHANGED <<acks, ackError>>
    BY <1>2 DEF AckReceive, connVars
  <2>2. CASE packets # <<>>
    <3>1. packets \in Seq(Packet)
      BY DEF IndInv, TypeOK, ChannelTypes
    <3>2. packets' = Tail(packets) /\ ackPc = "recv" /\ ackPc' = "read"
      BY <1>2, <2>2 DEF AckReceive
    <3>3. Len(packets') = Len(packets) - 1
      BY <2>2, <3>1, <3>2
    <3>4. Len(packets) \in Nat /\ Len(log) \in Nat /\ Len(log') = Len(log)
      BY <1>0, Numbering
    <3>5. FirstUnacked' = FirstUnacked
      <4>1. Unacknowledged' = Len(packets') + 1 /\ Unacknowledged = Len(packets) + 0
        BY <3>2 DEF Unacknowledged
      <4>2. Unacknowledged' = Unacknowledged
        BY <3>3, <3>4, <4>1
      <4>3. QED
        BY <3>4, <4>2 DEF FirstUnacked
    <3>6. QED
      BY <1>0, <1>1, <2>1, <3>2, <3>5, ClearKept, Zenon DEF Clear
  <2>3. CASE packets = <<>>
    <3>1. ackPc' = "done"
      BY <1>2, <2>3 DEF AckReceive
    <3>2. QED
      BY <1>0, <1>1, <2>1, <3>1, ClearKept, Zenon DEF Clear
  <2>4. QED
    BY <2>2, <2>3
<1>3. CASE AckRead
  <2> DEFINE f == AckNumbers
             g == AckNumbers'
             n == Len(acks)
             lo == FirstUnacked
  <2>1. /\ acks \in Seq(Ack) /\ acks # <<>> /\ ackPc = "read"
        /\ acks' = Tail(acks) /\ UNCHANGED <<packets, cur>>
        /\ HandleAck(Head(acks))
    BY <1>3 DEF AckRead, IndInv, TypeOK, ConnTypes
  <2>2. /\ n \in Nat /\ n >= 1 /\ Len(acks') = n - 1 /\ Head(acks) = acks[1]
        /\ \A i \in 1 .. n - 1 : acks'[i] = acks[i + 1]
    BY <2>1
  <2>3. PICK r \in Nat : WireOrder(r) /\ AckOrder(r)
    BY DEF Clear
  <2>4. /\ \A i \in 1 .. n : f[i] \in Int
        /\ lo \in Nat /\ cur.seqno = lo /\ lo # 0
    BY <2>1, Numbering
  <2>5. /\ f[1] = acks[1].seqno /\ acks[1].ok
        /\ \A i \in 1 .. n - 1 : g[i] = f[i + 1]
        /\ \A i \in 1 .. Len(acks') : acks'[i].ok
    BY <2>2, SMTT(60) DEF AckNumbers, Clear
  <2>6. lo <= r + 1 /\ Counts(f, n, lo, r)
    BY <2>1, <2>3 DEF AckOrder
  <2> HIDE DEF f, g, n
  <2>7. /\ f[1] = Gap => Counts(g, n - 1, lo, r)
        /\ f[1] # Gap => f[1] = lo /\ lo <= r /\ Counts(g, n - 1, lo + 1, r)
    <3> DEFINE k == 1
    <3>1. /\ k \in 1 .. n /\ r \in Int /\ \A i \in 2 .. k : f[i] = Gap
          /\ \A i \in 1 .. n - k : g[i] = f[i + k]
          /\ f[1] = Gap => \A i \in 1 .. k : f[i] = Gap
      BY <2>2, <2>5, SMTT(60)
    <3>2. n \in Nat /\ lo \in Nat /\ (\A i \in 1 .. n : f[i] \in Int) /\ Counts(f, n, lo, r)
      BY <2>2, <2>4, <2>6, Zenon
    <3> HIDE DEF lo, k
    <3>3. f[1] = Gap => Counts(g, n - k, lo, r)
      BY <3>1, <3>2, CountsDropGaps, Zenon
    <3>4. ASSUME f[1] # Gap PROVE f[1] = lo /\ lo <= r /\ Counts(g, n - k, lo + 1, r)
      <4>1. /\ k \in 1 .. n /\ r \in Int /\ \A i \in 2 .. k : f[i] = Gap
            /\ \A i \in 1 .. n - k : g[i] = f[i + k]
        BY <3>1, Zenon
      <4>2. QED
        BY <3>2, <3>4, <4>1, CountsDropFirst, Zenon
    <3>5. QED
      BY <3>3, <3>4, Zenon DEF k
  <2>8. WireOrder(r)'
    BY <1>0, <1>1, <2>3 DEF WireOrder
  <2>9. /\ UNCHANGED ackError
        /\ f[1] = Gap => ackPc' = "read"
        /\ f[1] # Gap => ackPc' = "recv"
    BY <2>1, <2>2, <2>4, <2>5, <2>7, Zenon DEF HandleAck, Gap
  <2>10. AckOrder(r)'
    <3>1. CASE f[1] = Gap
      <4>1. FirstUnacked' = lo
        BY <1>0, <2>1, <2>9, <3>1 DEF FirstUnacked, Unacknowledged
      <4>2. QED
        BY <2>2, <2>6, <2>7, <3>1, <4>1, Zenon DEF AckOrder, g
    <3>2. CASE f[1] # Gap
      <4>1. FirstUnacked' = lo + 1
        BY <1>0, <2>1, <2>9, <3>2, Numbering, SMTT(60) DEF FirstUnacked, Unacknowledged
      <4>2. lo + 1 <= r + 1
        BY <2>4, <2>7, <3>2
      <4>3. QED
        BY <2>2, <2>7, <3>2, <4>1, <4>2, Zenon DEF AckOrder, g
    <3>3. QED
      BY <3>1, <3>2
  <2>11. QED
    BY <1>0, <2>5, <2>8, <2>9, <2>10, Zenon DEF Clear
<1>4. QED
  BY <1>0, <1>2, <1>3, Zenon DEF AckStep, AckReadFails, AckDrain

\* An answer without a fault joins the others.
LEMMA SendAckClear ==
    ASSUME IndInv, NEW s \in Nat \cup {HeartBeatSeqno},
           acks' = Append(acks, [seqno |-> s, ok |-> TRUE]),
           \A i \in 1 .. Len(acks) : acks[i].ok
    PROVE  /\ \A i \in 1 .. Len(acks') : acks'[i].ok
           /\ Len(acks') = Len(acks) + 1
           /\ \A i \in 1 .. Len(acks) : AckNumbers'[i] = AckNumbers[i]
           /\ AckNumbers'[Len(acks) + 1] = s
<1> DEFINE a == [seqno |-> s, ok |-> TRUE]
<1>1. acks \in Seq(Ack) /\ a \in Ack /\ a.ok = TRUE /\ a.seqno = s
  BY PacketTypes, Zenon DEF IndInv, TypeOK, ConnTypes
<1>2. acks' = Append(acks, a)
  OBVIOUS
<1> HIDE DEF a
<1>3. /\ Len(acks) \in Nat /\ Len(acks') = Len(acks) + 1 /\ acks'[Len(acks) + 1] = a
      /\ \A i \in 1 .. Len(acks) : acks'[i] = acks[i]
  <2>1. Len(acks) \in Nat
    BY ONLY <1>1, SeqParts, Zenon
  <2>2. QED
    BY ONLY <1>1, <1>2, <2>1, AppendParts
<1>4. QED
  BY <1>1, <1>3, SMTT(60) DEF AckNumbers

\* The datanode takes the next packet off the wire and acknowledges it.
LEMMA ClearPacket ==
    ASSUME IndInv, Clear, DatanodePacket, faults' = {}
    PROVE  Clear'
<1> DEFINE k == FrameLength(wire[1].pkt)
           s == wire[1].pkt.seqno
<1>0. /\ UNCHANGED <<broken, expired, ackError, ackPc, log, packets, pkt, pc>>
      /\ wire' = SubSeq(wire, k + 1, Len(wire)) /\ WholeFrame
      /\ wire \in Seq(Part)
  BY Zenon DEF DatanodePacket, callerVars, ackVars, IndInv, TypeOK, ConnTypes
<1>1. acks' = Append(acks, [seqno |-> s, ok |-> TRUE])
  BY Zenon DEF DatanodePacket, SendAck, Inject
<1>2. s \in Nat
  <2>1. wire[1] \in Part
    <3>1. wire # <<>>
      BY <1>0, Zenon DEF WholeFrame
    <3>2. Len(wire) \in Nat /\ Len(wire) # 0
      BY <1>0, <3>1, EmptyParts, SeqParts
    <3>3. 1 \in 1 .. Len(wire)
      BY <3>2
    <3>4. QED
      BY <1>0, <3>3, ElementParts, Zenon
  <2>2. QED
    BY <2>1, Zenon DEF Part, Packet
<1>3. /\ k \in 1 .. Len(wire) /\ wire' \in Seq(Part) /\ Len(wire') = Len(wire) - k
      /\ \A i \in 1 .. Len(wire') : wire'[i] = wire[i + k]
  <2>1. Len(wire) \in Nat
    BY <1>0, SeqParts
  <2>2. QED
    BY ONLY <1>0, <2>1, WireTail
<1>4. /\ EndsFrame(wire[k]) /\ wire[1].kind = "header"
      /\ \A i \in 2 .. k : wire[i].kind # "header"
  BY <1>0, FramedHead, Zenon DEF Clear
<1>5. Framed(wire', pc', pkt')
  <2> HIDE DEF k
  <2>1. Framed(wire', pc, pkt)
    BY <1>0, <1>3, <1>4, FramedDrop, Zenon DEF Clear
  <2>2. QED
    BY <1>0, <2>1
<1>6. PICK r \in Nat : WireOrder(r) /\ AckOrder(r)
  BY DEF Clear
<1>7. LastWritten' = LastWritten /\ FirstUnacked' = FirstUnacked
  BY <1>0, Zenon DEF LastWritten, FirstUnacked, Unacknowledged
<1>8. s = r + 1 /\ WireOrder(r + 1)'
  <2> DEFINE f == Numbers(wire)
             g == Numbers(wire')
             n == Len(wire)
             lo == r + 1
             hi == LastWritten
  <2>1. n \in Nat /\ hi \in Int /\ \A i \in 1 .. n : f[i] \in Int
    BY Numbering, SMTT(60)
  <2>2. lo \in Nat /\ Counts(f, n, lo, hi)
    BY <1>6 DEF WireOrder
  <2>3. f[1] = s /\ s # Gap /\ \A i \in 2 .. k : f[i] = Gap
    <3> HIDE DEF s, k
    <3>1. 1 \in 1 .. n /\ \A i \in 2 .. k : i \in 1 .. n
      BY ONLY <1>3, <2>1
    <3>2. s # Gap
      BY ONLY <1>2 DEF Gap, HeartBeatSeqno
    <3>3. QED
      BY <1>4, <3>1, <3>2, Zenon DEF Numbers, s
  <2>4. k \in 1 .. n /\ \A i \in 1 .. n - k : g[i] = f[i + k]
    <3> HIDE DEF k
    <3>1. \A i \in 1 .. n - k : i + k \in 1 .. n /\ i \in 1 .. Len(wire')
      BY ONLY <1>3, <2>1
    <3>2. QED
      BY <1>3, <3>1, Zenon DEF Numbers
  <2> HIDE DEF f, g, n, lo, hi, k, s
  <2>5. f[1] # Gap /\ \A i \in 2 .. k : f[i] = Gap
    BY <2>3
  <2>6. f[1] = lo /\ lo <= hi /\ Counts(g, n - k, lo + 1, hi)
    BY <2>1, <2>2, <2>4, <2>5, CountsDropFirst, Zenon
  <2>7. QED
    BY <1>3, <1>7, <2>3, <2>6, Zenon DEF WireOrder, g, n, lo, hi
<1>9. /\ \A i \in 1 .. Len(acks') : acks'[i].ok
      /\ Len(acks') = Len(acks) + 1
      /\ \A i \in 1 .. Len(acks) : AckNumbers'[i] = AckNumbers[i]
      /\ AckNumbers'[Len(acks) + 1] = s
  <2> HIDE DEF s
  <2>1. QED
    BY <1>1, <1>2, SendAckClear, Zenon DEF Clear
<1>10. AckOrder(r + 1)'
  <2> DEFINE f == AckNumbers
             g == AckNumbers'
             n == Len(acks)
             lo == FirstUnacked
  <2>1. SUFFICES ASSUME ackPc \in {"recv", "read"}
                 PROVE  lo <= (r + 1) + 1 /\ Counts(g, n + 1, lo, r + 1)
    BY <1>0, <1>7, <1>9, Zenon DEF AckOrder
  <2>2. n \in Nat /\ lo \in Nat /\ \A i \in 1 .. n : f[i] \in Int
    BY Numbering
  <2>3. lo <= r + 1 /\ r \in Int /\ Counts(f, n, lo, r)
    BY <1>6, <2>1 DEF AckOrder
  <2>4. g[n + 1] = r + 1 /\ \A i \in 1 .. n : g[i] = f[i]
    BY <1>8, <1>9, Zenon
  <2> HIDE DEF f, g, n, lo
  <2>5. Counts(g, n + 1, lo, r + 1)
    BY <2>2, <2>3, <2>4, CountsAppend, Zenon
  <2>6. QED
    BY <2>2, <2>3, <2>5, SMTT(60)
<1>11. QED
  <2>1. r + 1 \in Nat
    OBVIOUS
  <2>2. QED
    BY <1>0, <1>5, <1>8, <1>9, <1>10, <2>1, Zenon DEF Clear

\* It answers a heartbeat.
LEMMA ClearHeartbeat ==
    ASSUME IndInv, Clear, DatanodeHeartbeat, faults' = {}
    PROVE  Clear'
<1>0. /\ UNCHANGED <<broken, expired, ackError, ackPc, log, packets, pkt, pc>>
      /\ wire # <<>> /\ wire[1].kind = "heartbeat" /\ wire' = Tail(wire)
      /\ wire \in Seq(Part)
  BY Zenon DEF DatanodeHeartbeat, callerVars, ackVars, IndInv, TypeOK, ConnTypes
<1>1. acks' = Append(acks, [seqno |-> Gap, ok |-> TRUE])
  BY Zenon DEF DatanodeHeartbeat, SendAck, Inject, Gap
<1>2. /\ Len(wire) \in Nat /\ 1 \in 1 .. Len(wire) /\ wire' \in Seq(Part)
      /\ Len(wire') = Len(wire) - 1
      /\ \A i \in 1 .. Len(wire') : wire'[i] = wire[i + 1]
  BY <1>0, SMTT(60)
<1>3. Framed(wire', pc', pkt')
  <2>1. EndsFrame(wire[1])
    BY <1>0, Zenon DEF EndsFrame
  <2>2. Framed(wire', pc, pkt)
    BY <1>0, <1>2, <2>1, FramedDrop, Zenon DEF Clear
  <2>3. QED
    BY <1>0, <2>2, Zenon
<1>4. PICK r \in Nat : WireOrder(r) /\ AckOrder(r)
  BY DEF Clear
<1>5. LastWritten' = LastWritten /\ FirstUnacked' = FirstUnacked
  BY <1>0, Zenon DEF LastWritten, FirstUnacked, Unacknowledged
<1>6. WireOrder(r)'
  <2> DEFINE f == Numbers(wire)
             g == Numbers(wire')
             n == Len(wire)
             lo == r + 1
             hi == LastWritten
             k == 1
  <2>1. n \in Nat /\ hi \in Int /\ \A i \in 1 .. n : f[i] \in Int
    BY Numbering
  <2>2. lo \in Nat /\ Counts(f, n, lo, hi)
    BY <1>4 DEF WireOrder
  <2>3. \A i \in 1 .. k : f[i] = Gap
    BY <1>0, <1>2, SMTT(60) DEF Numbers
  <2>4. k \in 1 .. n /\ \A i \in 1 .. n - k : g[i] = f[i + k]
    BY <1>2, SMTT(60) DEF Numbers
  <2> HIDE DEF f, g, n, lo, hi, k
  <2>5. Counts(g, n - k, lo, hi)
    BY <2>1, <2>2, <2>3, <2>4, CountsDropGaps, Zenon
  <2>6. QED
    BY <1>2, <1>4, <1>5, <2>5, Zenon DEF WireOrder, g, n, lo, hi, k
<1>7. /\ \A i \in 1 .. Len(acks') : acks'[i].ok
      /\ Len(acks') = Len(acks) + 1
      /\ \A i \in 1 .. Len(acks) : AckNumbers'[i] = AckNumbers[i]
      /\ AckNumbers'[Len(acks) + 1] = Gap
  BY <1>1, SendAckClear, Zenon DEF Clear, Gap
<1>8. AckOrder(r)'
  <2> DEFINE f == AckNumbers
             g == AckNumbers'
             n == Len(acks)
             lo == FirstUnacked
  <2>1. SUFFICES ASSUME ackPc \in {"recv", "read"}
                 PROVE  lo <= r + 1 /\ Counts(g, n + 1, lo, r)
    BY <1>0, <1>5, <1>7, Zenon DEF AckOrder
  <2>2. n \in Nat /\ lo \in Nat /\ \A i \in 1 .. n : f[i] \in Int
    BY Numbering
  <2>3. lo <= r + 1 /\ r \in Int /\ Counts(f, n, lo, r)
    BY <1>4, <2>1 DEF AckOrder
  <2>4. g[n + 1] = Gap /\ \A i \in 1 .. n : g[i] = f[i]
    BY <1>7, Zenon
  <2> HIDE DEF f, g, n, lo
  <2>5. QED
    BY <2>2, <2>3, <2>4, CountsAppend, Zenon
<1>9. QED
  BY <1>0, <1>3, <1>6, <1>7, <1>8, Zenon DEF Clear

FaultFreeInv == IndInv /\ LockOK /\ FaultFree

\* No fault, no error: every step keeps the stream clear or is a fault.
LEMMA FaultFreeStep == FaultFreeInv /\ [Next]_vars => FaultFreeInv'
<1> SUFFICES ASSUME FaultFreeInv, [Next]_vars PROVE FaultFreeInv'
  OBVIOUS
<1>1. IndInv /\ LockOK /\ IndInv' /\ LockOK'
  BY IndStep, LockStep DEF FaultFreeInv, IndInv
<1>2. SUFFICES ASSUME faults' = {} PROVE Clear'
  BY <1>1 DEF FaultFreeInv, FaultFree
<1>3. faults = {}
  <2>1. CASE Call
    BY <1>2, <2>1, Zenon DEF Call, Write, Flush, Finish
  <2>2. CASE CallerStep
    BY <1>2, <2>2, Zenon DEF CallerStep, FlushLoop, Enqueue, AcquireLock, WritePart,
                      WritePartFails, CloseChannels, Join, histVars
  <2>3. CASE AckStep \/ HeartbeatStep \/ SetDeadline
    BY <1>2, <2>3, Zenon DEF AckStep, AckReceive, AckRead, AckReadFails, AckDrain,
       HeartbeatStep,
                      HeartbeatTick, HeartbeatLock, HeartbeatWrite, HeartbeatStop,
                      SetDeadline, histVars
  <2>4. CASE DatanodeStep \/ ConnectionBreaks \/ DeadlinePasses
    BY <1>2, <2>4, Zenon DEF DatanodeStep, DatanodePacket, DatanodeHeartbeat, DatanodeRejects,
                      SendAck, Inject, ConnectionBreaks, DeadlinePasses, histVars
  <2>5. CASE UNCHANGED vars
    BY <1>2, <2>5, Zenon DEF vars, histVars
  <2>6. QED
    BY <2>1, <2>2, <2>3, <2>4, <2>5, NextCases DEF Environment
<1>4. Clear
  BY <1>3 DEF FaultFreeInv, FaultFree
<1>5. CASE Call \/ CallerStep
  <2>1. ~WritePartFails
    BY <1>4, Zenon DEF WritePartFails, ConnDown, Clear
  <2>2. QED
    BY <1>1, <1>4, <1>5, <2>1, ClearCaller, ClearWritePart DEF CallerStep
<1>6. CASE AckStep
  BY <1>1, <1>4, <1>6, ClearAck
<1>7. CASE HeartbeatWrite
  BY <1>1, <1>4, <1>7, ClearHeartbeatWrite
<1>8. CASE HeartbeatTick \/ HeartbeatLock \/ HeartbeatStop \/ SetDeadline \/ UNCHANGED vars
  <2>1. /\ UNCHANGED <<wire, acks, broken, ackError, ackPc, log, packets, pc, pkt>>
        /\ ~expired'
    <3>0. ~expired
      BY <1>4 DEF Clear
    <3>1. CASE HeartbeatTick \/ HeartbeatLock \/ HeartbeatStop
      <4>1. UNCHANGED <<callerVars, packets, ackVars, connVars, histVars>>
        BY <3>1, Zenon DEF HeartbeatTick, HeartbeatLock, HeartbeatStop
      <4>2. QED
        BY <3>0, <4>1, Zenon DEF callerVars, ackVars, connVars, histVars
    <3>2. CASE SetDeadline
      BY <3>2 DEF SetDeadline, callerVars, ackVars, histVars
    <3>3. CASE UNCHANGED vars
      BY <3>0, <3>3, Zenon DEF vars, callerVars, ackVars, connVars, histVars
    <3>4. QED
      BY <1>8, <3>1, <3>2, <3>3
  <2>2. LastWritten' = LastWritten /\ FirstUnacked' = FirstUnacked
    BY <2>1 DEF LastWritten, FirstUnacked, Unacknowledged
  <2>3. QED
    BY <1>4, <2>1, <2>2, ClearKept
<1>9. CASE DatanodePacket
  BY <1>1, <1>2, <1>4, <1>9, ClearPacket
<1>10. CASE DatanodeHeartbeat
  BY <1>1, <1>2, <1>4, <1>10, ClearHeartbeat
<1>11. CASE DatanodeRejects
  <2>1. ~Garbled
    BY <1>1, <1>4, FramedHead, Zenon DEF Clear, IndInv, TypeOK, ConnTypes
  <2>2. QED
    BY <1>11, <2>1 DEF DatanodeRejects
<1>12. ~ConnectionBreaks /\ ~DeadlinePasses
  BY <1>2 DEF ConnectionBreaks, DeadlinePasses, Inject
<1>13. QED
  BY <1>5, <1>6, <1>7, <1>8, <1>9, <1>10, <1>11, <1>12, NextCases
    DEF Environment, HeartbeatStep, DatanodeStep

\* A new stream is clear.
LEMMA FaultFreeInit == Init => FaultFreeInv
<1> SUFFICES ASSUME Init PROVE FaultFreeInv
  OBVIOUS
<1>1. IndInv
  BY IndInit
<1>2. LockOK
  BY DEF Init, LockOK
<1>3. Len(wire) = 0 /\ Len(acks) = 0 /\ Len(log) = 0 /\ Len(packets) = 0
  BY DEF Init
<1>4. Framed(wire, pc, pkt)
  BY <1>3, SMTT(60) DEF Init, Framed
<1>5. LastWritten = 0 /\ FirstUnacked = 1
  BY <1>3 DEF Init, LastWritten, FirstUnacked, Unacknowledged
<1>6. WireOrder(0) /\ AckOrder(0)
  BY <1>3, <1>5 DEF WireOrder, AckOrder, Counts
<1>7. \A i \in 1 .. Len(acks) : acks[i].ok
  BY <1>3
<1>8. Clear
  BY <1>4, <1>6, <1>7, Zenon DEF Init, Clear
<1>9. QED
  BY <1>1, <1>2, <1>8 DEF FaultFreeInv, FaultFree

\* The mutex and the order of the packets hold always.
THEOREM FaultFreeHolds == Spec => []FaultFreeInv
  BY FaultFreeInit, FaultFreeStep, PTL DEF Spec

\* As long as nothing failed, no heartbeat and no other packet gets between the
\* parts of a packet.
THEOREM FramesSafe == Spec => []FramesIntact
<1>1. FaultFreeInv => FramesIntact
  <2>1. SUFFICES ASSUME FaultFreeInv, faults = {}, NEW i \in 1 .. Len(wire),
                        wire[i].kind \in {"header", "checksums"}, ~wire[i].pkt.last
                 PROVE  FollowedBy(wire, i, NextPart[wire[i].kind], pc, pkt)
    BY Zenon DEF FramesIntact, FollowedBy
  <2>2. Framed(wire, pc, pkt)
    BY <2>1 DEF FaultFreeInv, FaultFree, Clear
  <2>3. CASE wire[i].kind = "header"
    <3>1. NextPart[wire[i].kind] = "checksums"
      BY <2>3, SMTT(60) DEF NextPart
    <3>2. QED
      BY <2>1, <2>2, <2>3, <3>1, Zenon DEF Framed
  <2>4. CASE wire[i].kind = "checksums"
    <3>1. NextPart[wire[i].kind] = "data"
      BY <2>4, SMTT(60) DEF NextPart
    <3>2. QED
      BY <2>1, <2>2, <2>4, <3>1, Zenon DEF Framed
  <2>5. QED
    BY <2>1, <2>3, <2>4, Zenon
<1>2. QED
  BY <1>1, FaultFreeHolds, PTL

\* Heartbeats and packets in flight alone never make the ack loop report an
\* error.
THEOREM NoSpuriousErrors == Spec => []NoSpuriousAckError
<1>1. FaultFreeInv => NoSpuriousAckError
  BY DEF FaultFreeInv, FaultFree, Clear, NoSpuriousAckError
<1>2. QED
  BY <1>1, FaultFreeHolds, PTL

=============================================================================
