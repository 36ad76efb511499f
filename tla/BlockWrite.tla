----------------------------- MODULE BlockWrite -----------------------------
(***************************************************************************)
(* What writing one block promises, without goroutines, packets or acks:   *)
(* the caller hands over bytes, the datanode stores some of them, each at  *)
(* its place and never a byte the caller did not write, and the write is   *)
(* reported to have succeeded only if every byte is stored.                *)
(***************************************************************************)
EXTENDS Naturals

CONSTANT StartOffsets    \* block offsets a write may start from

VARIABLES
    start,      \* block offset of the first byte
    accepted,   \* block offset after the last byte handed over
    stored,     \* <<position, byte>> pairs on the datanode
    outcome     \* "open", "ok" or "failed"

vars == <<start, accepted, stored, outcome>>

\* The byte the caller wrote for position o is o.
Accepted == {<<o, o>> : o \in start .. accepted - 1}

Init ==
    /\ start \in StartOffsets
    /\ accepted = start
    /\ stored = {}
    /\ outcome = "open"

Accept ==
    /\ outcome = "open"
    /\ accepted' > accepted
    /\ UNCHANGED <<start, stored, outcome>>

\* Also after a failure: bytes may still be on their way.
Store ==
    /\ stored \subseteq stored'
    /\ stored' \subseteq Accepted
    /\ UNCHANGED <<start, accepted, outcome>>

Succeed ==
    /\ outcome = "open"
    /\ stored = Accepted
    /\ outcome' = "ok"
    /\ UNCHANGED <<start, accepted, stored>>

Fail ==
    /\ outcome = "open"
    /\ outcome' = "failed"
    /\ UNCHANGED <<start, accepted, stored>>

Next == Accept \/ Store \/ Succeed \/ Fail

Spec == Init /\ [][Next]_vars
=============================================================================
