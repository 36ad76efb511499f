------------------------- MODULE ClientLeaseProofs -------------------------
(***************************************************************************)
(* The safety of the lease renewer, for every finite set of writers.       *)
(***************************************************************************)
EXTENDS ClientLease, FiniteSetTheorems, TLAPS

OpenWriters == {w \in Writers : file[w] = "open"}

\* What the count depends on: every writer has a file in one of three states.
\* What Close depends on: once it has seen the renewer exit, that is for good.
IndInv ==
    /\ file \in [Writers -> {"none", "open", "closing"}]
    /\ filesWOpen = Cardinality(OpenWriters)
    /\ NoRenewalAfterClose

\* A file that is opened is counted.
LEMMA OpenCounts ==
    ASSUME IndInv, NEW w \in Writers, Open(w)
    PROVE  filesWOpen' = Cardinality(OpenWriters')
<1>1. OpenWriters' = OpenWriters \cup {w} /\ w \notin OpenWriters
  BY DEF IndInv, Open, OpenWriters
<1>2. IsFiniteSet(OpenWriters)
  BY LeaseAssumption, FS_Subset DEF OpenWriters
<1>3. Cardinality(OpenWriters') = Cardinality(OpenWriters) + 1
  BY <1>1, <1>2, FS_AddElement, Zenon
<1>4. QED
  BY <1>3 DEF IndInv, Open

\* A file that is closed is counted out, whether or not Close succeeds.
LEMMA CloseCounts ==
    ASSUME IndInv, NEW w \in Writers, CloseFile(w)
    PROVE  filesWOpen' = Cardinality(OpenWriters')
<1>1. OpenWriters' = OpenWriters \ {w} /\ w \in OpenWriters
  BY DEF IndInv, CloseFile, OpenWriters
<1>2. IsFiniteSet(OpenWriters)
  BY LeaseAssumption, FS_Subset DEF OpenWriters
<1>3. Cardinality(OpenWriters') = Cardinality(OpenWriters) - 1
  BY <1>1, <1>2, FS_RemoveElement, Zenon
<1>4. QED
  BY <1>3 DEF IndInv, CloseFile

\* Every step of the writers, the renewer and Client.Close keeps the invariant.
LEMMA IndStep == IndInv /\ [Next]_vars => IndInv'
<1> SUFFICES ASSUME IndInv, [Next]_vars PROVE IndInv'
  OBVIOUS
<1>1. ASSUME NEW w \in Writers, Open(w) PROVE IndInv'
  BY <1>1, OpenCounts, Zenon DEF IndInv, Open, NoRenewalAfterClose
<1>2. ASSUME NEW w \in Writers, CloseFile(w) PROVE IndInv'
  BY <1>2, CloseCounts, Zenon DEF IndInv, CloseFile, NoRenewalAfterClose
<1>3. ASSUME NEW w \in Writers, CloseFileReturns(w) PROVE IndInv'
  <2>1. OpenWriters' = OpenWriters
    BY <1>3 DEF IndInv, CloseFileReturns, OpenWriters
  <2>2. QED
    BY <1>3, <2>1 DEF IndInv, CloseFileReturns, NoRenewalAfterClose
<1>4. CASE UNCHANGED <<file, filesWOpen>> /\ NoRenewalAfterClose'
  BY <1>4 DEF IndInv, OpenWriters
<1>5. CASE Tick \/ TakeTick \/ LeaseRenew \/ RenewReturns \/ SeesClose
  BY <1>4, <1>5 DEF IndInv, NoRenewalAfterClose, Tick, TakeTick, LeaseRenew, RenewReturns,
     SeesClose
<1>6. CASE Close \/ Wait \/ CloseNamenode
  BY <1>4, <1>6 DEF IndInv, NoRenewalAfterClose, Close, Wait, CloseNamenode
<1>7. CASE UNCHANGED vars
  BY <1>4, <1>7 DEF IndInv, NoRenewalAfterClose, vars
<1>8. QED
  BY <1>1, <1>2, <1>3, <1>5, <1>6, <1>7 DEF Next

\* filesWOpen is the number of files that are open, and no renewLease call is
\* under way or begins once Client.Close goes on to close the connection.
THEOREM LeaseIsSafe == Spec => []LeaseSafe
<1>1. Init => IndInv
  <2> SUFFICES ASSUME Init PROVE IndInv
    OBVIOUS
  <2>1. OpenWriters = {}
    BY DEF Init, OpenWriters
  <2>2. Cardinality(OpenWriters) = 0
    BY <2>1, FS_EmptySet
  <2>3. QED
    BY <2>2 DEF Init, IndInv, NoRenewalAfterClose
<1>2. IndInv => LeaseSafe
  BY DEF IndInv, LeaseSafe, CountIsRight, OpenWriters
<1>3. QED
  BY <1>1, <1>2, IndStep, PTL DEF Spec
=============================================================================
