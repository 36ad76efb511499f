-------------------------------- MODULE Framing --------------------------------
(***************************************************************************)
(* How messages are laid out on a connection and read back                  *)
(* (internal/rpc/rpc.go).  A byte is a number below 2 * VarintBase;         *)
(* VarintBase is 128 in the code.  A byte from VarintBase on continues a    *)
(* varint.                                                                  *)
(***************************************************************************)
EXTENDS Integers, SequencesExt

CONSTANTS
    VarintBase,     \* values of a byte of a varint (128)
    MaxVarintLen    \* binary.MaxVarintLen32 (5)

ASSUME FramingAssumption ==
    /\ VarintBase \in Nat \ {0, 1}
    /\ MaxVarintLen \in Nat \ {0}

First(s, n) == SubSeq(s, 1, IF n < Len(s) THEN n ELSE Len(s))
After(s, n) == SubSeq(s, n + 1, Len(s))

\* binary.PutUvarint
RECURSIVE PutUvarint(_)
PutUvarint(n) ==
    IF n < VarintBase THEN <<n>>
    ELSE <<VarintBase + (n % VarintBase)>> \o PutUvarint(n \div VarintBase)

\* binary.Uvarint: the value and the bytes it takes, 0 when it does not end.
RECURSIVE Uvarint(_)
Uvarint(bytes) ==
    IF bytes = <<>> THEN [value |-> 0, n |-> 0]
    ELSE IF Head(bytes) < VarintBase THEN [value |-> Head(bytes), n |-> 1]
    ELSE LET rest == Uvarint(Tail(bytes))
         IN  IF rest.n = 0 THEN [value |-> 0, n |-> 0]
             ELSE [value |-> Head(bytes) - VarintBase + VarintBase * rest.value, n |-> rest.n + 1]

makePrefixedMessage(body) == PutUvarint(Len(body)) \o body

\* writeBlockOpRequest and writeBlockChecksumRequest: version and operation,
\* then the message.
writeBlockOpRequest(op, body) == <<0, 1, op>> \o makePrefixedMessage(body)

\* makeRPCPacket; the first element stands for the length in four bytes.
makeRPCPacket(bodies) ==
    LET frames == FlattenSeq([i \in DOMAIN bodies |-> makePrefixedMessage(bodies[i])])
    IN  <<Len(frames)>> \o frames

\* A message that nothing was unmarshalled into is like one that is empty.
Untouched == <<>>
Failed(error) == [error |-> error, msgs |-> <<>>, rest |-> <<>>]

PacketDone(packet) == packet = <<>>

\* The loop of readRPCPacket over the k messages the caller passes.
RECURSIVE Unpack(_, _)
Unpack(packet, k) ==
    IF k = 0 THEN IF packet = <<>> THEN Failed("") ELSE Failed("malformed")
    ELSE IF PacketDone(packet) THEN [Failed("") EXCEPT !.msgs = [i \in 1 .. k |-> Untouched]]
    ELSE LET u == Uvarint(packet)
             body == After(packet, u.n)
         IN  IF u.n = 0 \/ u.value > Len(packet) THEN Failed("malformed")
             ELSE IF u.value > Len(body) THEN Failed("panic")
             ELSE LET next == Unpack(After(body, u.value), k - 1)
                  IN  IF next.error # "" THEN next
                      ELSE [next EXCEPT !.msgs = <<First(body, u.value)>> \o @]

\* readRPCPacket: everything is read in full before it is taken apart.
readRPCPacket(stream, k) ==
    IF stream = <<>> \/ Len(Tail(stream)) < Head(stream) THEN Failed("EOF")
    ELSE [Unpack(First(Tail(stream), Head(stream)), k) EXCEPT !.rest = After(Tail(stream), Head(stream))]

\* Mutant: what follows the length in the buffer is forgotten.
ExtraDropped(buffer, u) == <<>>

\* What follows the varint in the buffer: the beginning of the message.
Extra(buffer, u) == First(After(buffer, u.n), u.value)

\* readPrefixedMessage: one read, which may return as little as one byte,
\* fills a buffer of MaxVarintLen zeroes; got is how much it returned.
readPrefixedMessage(stream, got) ==
    LET buffer == First(stream, got) \o [i \in 1 .. MaxVarintLen - Len(First(stream, got)) |-> 0]
        u == Uvarint(buffer)
        extra == Extra(buffer, u)
        left == After(stream, got)
    IN  IF stream = <<>> \/ u.n = 0 \/ Len(left) < u.value - Len(extra) THEN Failed("EOF")
        ELSE [error |-> "",
              msgs |-> <<extra \o First(left, u.value - Len(extra))>>,
              rest |-> After(left, u.value - Len(extra))]

\* One message after the other, as acks and answers are read; gots says how
\* much the first read of each one returned.
RECURSIVE ReadMessages(_, _)
ReadMessages(stream, gots) ==
    IF gots = <<>> THEN [error |-> "", msgs |-> <<>>, rest |-> stream]
    ELSE LET r == readPrefixedMessage(stream, Head(gots))
         IN  IF r.error # "" THEN r
             ELSE LET next == ReadMessages(r.rest, Tail(gots))
                  IN  [next EXCEPT !.msgs = r.msgs \o @]
===============================================================================
