------------------------------ MODULE FileChecksum ------------------------------
(***************************************************************************)
(* The checksum of a file (FileReader.Checksum, internal/rpc/               *)
(* checksum_reader.go): the MD5 of the sums of its blocks, padded with       *)
(* zeroes.  A block is the sequence of what its datanodes answer in the      *)
(* order they are asked: "sum", "refused" (an answer with an error status,   *)
(* which holds no sum), or "fails".                                          *)
(***************************************************************************)
EXTENDS Integers, Sequences

SumLength == 16     \* of an MD5

Sum(err, length, tried) == [err |-> err, length |-> length, tried |-> tried]

\* ReadChecksum: the status of the answer is not looked at; with no datanodes
\* at all there is no last error, and the sum is empty.
RECURSIVE AskDatanodes(_, _)
AskDatanodes(answers, tried) ==
    IF answers = <<>> THEN Sum(tried > 0, 0, tried)
    ELSE CASE Head(answers) = "sum" -> Sum(FALSE, SumLength, tried + 1)
           [] Head(answers) = "refused" -> Sum(FALSE, 0, tried + 1)
           [] OTHER -> AskDatanodes(Tail(answers), tried + 1)

ReadChecksum(answers) == AskDatanodes(answers, 0)

\* What has been digested: the blocks whose sums were written, the length that
\* makes and the length it is padded to.
Digest == [err |-> FALSE, sums |-> <<>>, total |-> 0, padded |-> 2 * SumLength]

\* Mutant: a length that fits exactly is padded to the next one.
PadAtLeast(d, total) == IF d.padded <= total THEN 2 * d.padded ELSE d.padded

Pad(d, total) == IF d.padded < total THEN 2 * d.padded ELSE d.padded

\* One round of the loop of Checksum, for block i.
AddBlockSum(d, i, answers) ==
    LET s == ReadChecksum(answers)
        total == d.total + s.length
    IN  IF s.err THEN [d EXCEPT !.err = TRUE]
        ELSE [d EXCEPT !.sums = IF s.length > 0 THEN Append(@, i) ELSE @,
                       !.total = total, !.padded = Pad(d, total)]

RECURSIVE ChecksumFrom(_, _, _)
ChecksumFrom(d, i, blocks) ==
    IF d.err \/ i > Len(blocks) THEN d ELSE ChecksumFrom(AddBlockSum(d, i, blocks[i]), i + 1, blocks)

Checksum(blocks) == ChecksumFrom(Digest, 1, blocks)

\* The length that Hadoop pads to: the next power of two, at least 32.
PaddedTo(total) ==
    LET sizes == {2^k : k \in 5 .. 12}
    IN  CHOOSE n \in sizes : n >= total /\ \A m \in sizes : m >= total => n <= m
===============================================================================
