---------------------------- MODULE ClientLease ----------------------------
(***************************************************************************)
(* client.go: the goroutine that renews a client's lease while it has      *)
(* files open for writing, the count of these files, which every Create,   *)
(* Append and Close changes, and Client.Close, which ends the goroutine.   *)
(***************************************************************************)
EXTENDS Integers, FiniteSets

CONSTANTS
    Writers,        \* goroutines, each writing a file of its own
    MaxFiles        \* bound: files opened

ASSUME LeaseAssumption == MaxFiles \in Nat /\ IsFiniteSet(Writers)

VARIABLES
    file,           \* per writer: its file is "none", "open" or "closing"
    filesWOpen,
    renewer,        \* leaseRenewerRun: "select", "count", "execute" or "exited"
    ticker,         \* whether ticker.C holds a tick
    closer,         \* Client.Close: "no", "wait", "namenode" or "done"
    closeCh,        \* whether it has been closed
    files           \* counter for the bound

vars == <<file, filesWOpen, renewer, ticker, closer, closeCh, files>>

\* NewClient
Init ==
    /\ file = [w \in Writers |-> "none"] /\ filesWOpen = 0
    /\ renewer = "select" /\ ticker = FALSE
    /\ closer = "no" /\ closeCh = FALSE
    /\ files = 0

-----------------------------------------------------------------------------
(* The writers.                                                            *)

\* CreateFile or Append, after the namenode's answer.
Open(w) ==
    /\ file[w] = "none" /\ files < MaxFiles
    /\ file' = [file EXCEPT ![w] = "open"]
    /\ filesWOpen' = filesWOpen + 1
    /\ files' = files + 1
    /\ UNCHANGED <<renewer, ticker, closer, closeCh>>

\* FileWriter.Close counts the file out first; then it finalizes the last
\* block and completes the file, or fails to.
CloseFile(w) ==
    /\ file[w] = "open"
    /\ file' = [file EXCEPT ![w] = "closing"]
    /\ filesWOpen' = filesWOpen - 1
    /\ UNCHANGED <<renewer, ticker, closer, closeCh, files>>

CloseFileReturns(w) ==
    /\ file[w] = "closing"
    /\ file' = [file EXCEPT ![w] = "none"]
    /\ UNCHANGED <<filesWOpen, renewer, ticker, closer, closeCh, files>>

-----------------------------------------------------------------------------
(* leaseRenewerRun.                                                        *)

\* time.Ticker (external): a tick nobody has taken is not followed by another.
Tick ==
    /\ renewer # "exited" /\ ~ticker
    /\ ticker' = TRUE
    /\ UNCHANGED <<file, filesWOpen, renewer, closer, closeCh, files>>

TakeTick ==
    /\ renewer = "select" /\ ticker
    /\ ticker' = FALSE /\ renewer' = "count"
    /\ UNCHANGED <<file, filesWOpen, closer, closeCh, files>>

\* leaseRenew: no call if there is no file.
LeaseRenew ==
    /\ renewer = "count"
    /\ renewer' = IF filesWOpen = 0 THEN "select" ELSE "execute"
    /\ UNCHANGED <<file, filesWOpen, ticker, closer, closeCh, files>>

\* Mutant: an error ends the goroutine.
RenewReturnsStops ==
    /\ renewer = "execute"
    /\ renewer' \in {"select", "exited"}
    /\ UNCHANGED <<file, filesWOpen, ticker, closer, closeCh, files>>

\* The renewLease call succeeds, or fails and is reported: the loop goes on.
RenewReturns ==
    /\ renewer = "execute"
    /\ renewer' = "select"
    /\ UNCHANGED <<file, filesWOpen, ticker, closer, closeCh, files>>

\* Mutant: nobody listens to closeCh.
SeesCloseNever ==
    /\ renewer = "select" /\ FALSE
    /\ UNCHANGED vars

SeesClose ==
    /\ renewer = "select" /\ closeCh
    /\ renewer' = "exited"
    /\ UNCHANGED <<file, filesWOpen, ticker, closer, closeCh, files>>

-----------------------------------------------------------------------------
(* Client.Close.                                                           *)

Close ==
    /\ closer = "no"
    /\ closeCh' = TRUE /\ closer' = "wait"
    /\ UNCHANGED <<file, filesWOpen, renewer, ticker, files>>

\* Mutant: Close does not wait.
WaitNot ==
    /\ closer = "wait"
    /\ closer' = "namenode"
    /\ UNCHANGED <<file, filesWOpen, renewer, ticker, closeCh, files>>

\* c.wg.Wait()
Wait ==
    /\ closer = "wait" /\ renewer = "exited"
    /\ closer' = "namenode"
    /\ UNCHANGED <<file, filesWOpen, renewer, ticker, closeCh, files>>

\* c.namenode.Close()
CloseNamenode ==
    /\ closer = "namenode"
    /\ closer' = "done"
    /\ UNCHANGED <<file, filesWOpen, renewer, ticker, closeCh, files>>

-----------------------------------------------------------------------------

Next ==
    \/ \E w \in Writers : Open(w) \/ CloseFile(w) \/ CloseFileReturns(w)
    \/ Tick \/ TakeTick \/ LeaseRenew \/ RenewReturns \/ SeesClose
    \/ Close \/ Wait \/ CloseNamenode

Spec == Init /\ [][Next]_vars

\* Time passes, the goroutines run and renewLease returns.  select chooses at
\* random among the channels that are ready, so none is passed over for ever.
FairSpec ==
    /\ Spec
    /\ WF_vars(Tick) /\ WF_vars(LeaseRenew) /\ WF_vars(RenewReturns)
    /\ SF_vars(TakeTick) /\ SF_vars(SeesClose)
    /\ WF_vars(Wait) /\ WF_vars(CloseNamenode)

-----------------------------------------------------------------------------
(* Properties.                                                             *)

\* The renewer's count is the number of files that are open, so that the
\* unsigned counter never falls below zero and renewals stop with the last file.
CountIsRight == filesWOpen = Cardinality({w \in Writers : file[w] = "open"})

\* The namenode connection is not closed under a renewLease call, and there is
\* none afterwards.
NoRenewalAfterClose == closer \in {"namenode", "done"} => renewer = "exited"

\* The renewer goes by the right count, and not beyond Close (leaseRenewerRun).
LeaseSafe == CountIsRight /\ NoRenewalAfterClose

\* While a client has a file open, its lease is renewed again and again, though
\* renewals fail, until it is closed.
LeaseIsRenewed ==
    []<>(renewer = "execute" \/ filesWOpen = 0 \/ closer # "no")

\* Client.Close returns.
CloseReturns == closer = "wait" ~> closer = "done"
=============================================================================
