------------------------- MODULE NamenodeConnection -------------------------
(***************************************************************************)
(* internal/rpc/namenode.go (with kerberos.go): remote calls to one of     *)
(* several namenodes.                                                      *)
(*                                                                         *)
(* Any number of goroutines call Execute, which holds reqLock while it     *)
(* finds a connection, sends the request and reads the answer, retrying    *)
(* on another connection when the write fails, when the namenode hangs up  *)
(* or when it is a standby.  Close takes no lock.  A request is known by a *)
(* number of its own (req), apart from the call id that it is sent with.   *)
(***************************************************************************)
EXTENDS Integers, Sequences

CONSTANTS
    Callers,        \* goroutines that share the connection
    NHosts,         \* length of hostList
    Kerberos,       \* whether kerberosClient is set
    CanClose,       \* whether Close is called in this instance
    MaxRequests,    \* bound: calls of Execute
    MaxConns,       \* bound: connections dialled
    MaxFaults       \* bound: failures, failovers and expired backoffs

ASSUME NamenodeAssumption ==
    /\ NHosts \in Nat \ {0}
    /\ Kerberos \in BOOLEAN /\ CanClose \in BOOLEAN
    /\ MaxRequests \in Nat /\ MaxConns \in Nat /\ MaxFaults \in Nat
    /\ "free" \notin Callers

Hosts == 1 .. NHosts

SaslCallId == -33

VARIABLES
    pc, req, idx, result,   \* per caller: position, request, loop index, outcome
    reqLock,                \* who holds c.reqLock
    id,                     \* c.currentRequestID
    conn,                   \* c.conn: an index into conns, 0 for nil
    host,                   \* c.host, 0 for nil
    backoff,                \* hosts whose lastErrorAt is within backoffDuration
    writeError,             \* hosts with writeError set
    conns,                  \* every connection ever made
    active,                 \* the namenode that is not a standby
    closing, seen,          \* Close: its position, and the connection it saw
    sent, executed,         \* history: <<call id, request>> pairs
    requests, faults        \* counters for the bounds

callVars == <<pc, req, idx, result>>
hostVars == <<host, backoff, writeError>>
vars == <<callVars, reqLock, id, conn, hostVars, conns, active, sent, executed,
          closing, seen, requests, faults>>

\* open: our end has not been closed; up: the other end is still there.
NewConn(h) == [host |-> h, open |-> TRUE, up |-> TRUE, reqs |-> <<>>, resps |-> <<>>]

\* NewNamenodeConnection, with its first connection made.
Init ==
    /\ pc = [c \in Callers |-> "idle"]
    /\ req = [c \in Callers |-> 0]
    /\ idx = [c \in Callers |-> 1]
    /\ result = [c \in Callers |-> <<0, "none">>]
    /\ reqLock = "free"
    /\ id = 0
    /\ conns = <<NewConn(1)>> /\ conn = 1 /\ host = 1
    /\ backoff = {} /\ writeError = {}
    /\ active \in Hosts
    /\ closing = "no" /\ seen = 0
    /\ sent = {} /\ executed = {} /\ requests = 0 /\ faults = 0

Fault == faults < MaxFaults /\ faults' = faults + 1

\* A panic in Close ends the program.
At(c, l) == pc[c] = l /\ closing # "panicked"

Goto(c, l) == pc' = [pc EXCEPT ![c] = l]

-----------------------------------------------------------------------------
(* Execute.                                                                *)

Execute(c) ==
    /\ At(c, "idle")
    /\ requests < MaxRequests
    /\ requests' = requests + 1
    /\ req' = [req EXCEPT ![c] = requests + 1]
    /\ Goto(c, "lock")
    /\ UNCHANGED <<idx, result, reqLock, id, conn, hostVars, conns, active, sent,
                   executed, closing, seen, faults>>

Lock(c) ==
    /\ At(c, "lock")
    /\ reqLock = "free"
    /\ reqLock' = c
    /\ id' = id + 1
    /\ idx' = [idx EXCEPT ![c] = 1]
    /\ Goto(c, "resolve")
    /\ UNCHANGED <<req, result, conn, hostVars, conns, active, sent, executed,
                   closing, seen, requests, faults>>

Return(c, r) ==
    /\ Goto(c, "idle")
    /\ result' = [result EXCEPT ![c] = r]
    /\ reqLock' = "free"
    /\ UNCHANGED <<req, idx>>

\* Mutant: markFailureLow forgets to close the connection.
ConnDropped == conn' = 0 /\ UNCHANGED conns

\* markFailureLow: close the connection, if there is one, and forget it.
ConnClosed ==
    /\ conn' = 0
    /\ conns' = IF conn = 0 THEN conns ELSE [conns EXCEPT ![conn].open = FALSE]

\* Mutant: the time of the failure is not recorded.
MarkFailureForgotten(h) == UNCHANGED <<backoff, writeError>>

\* markFailure: the host is not tried again for a while.
MarkFailure(h) ==
    /\ backoff' = backoff \cup {h}
    /\ UNCHANGED writeError

\* markTransientFailure: the first time, the host is tried again at once.
MarkTransientFailure(h) ==
    IF h \notin writeError
    THEN writeError' = writeError \cup {h} /\ UNCHANGED backoff
    ELSE MarkFailure(h)

\* resolveConnection: keep the connection there is ...
Resolved(c) ==
    /\ At(c, "resolve") /\ conn # 0
    /\ Goto(c, "write")
    /\ UNCHANGED <<req, idx, result, reqLock, id, conn, hostVars, conns, active,
                   sent, executed, closing, seen, requests, faults>>

\* ... or go through the hosts, leaving out those that failed lately ...
SkipHost(c) ==
    /\ At(c, "resolve") /\ conn = 0
    /\ idx[c] \in Hosts /\ idx[c] \in backoff
    /\ idx' = [idx EXCEPT ![c] = @ + 1]
    /\ UNCHANGED <<pc, req, result, reqLock, id, conn, hostVars, conns, active,
                   sent, executed, closing, seen, requests, faults>>

CanDial(c) ==
    /\ At(c, "resolve") /\ conn = 0
    /\ idx[c] \in Hosts /\ idx[c] \notin backoff

\* ... dialling each of the others ...
DialFails(c) ==
    /\ CanDial(c) /\ Fault
    /\ host' = idx[c]
    /\ MarkFailure(idx[c])
    /\ idx' = [idx EXCEPT ![c] = @ + 1]
    /\ UNCHANGED <<pc, req, result, reqLock, id, conn, conns, active, sent, executed,
                   closing, seen, requests>>

\* Mutant: every handshake starts the call ids again.
HandshakeRestarts(c) ==
    /\ CanDial(c) /\ Len(conns) < MaxConns
    /\ host' = idx[c]
    /\ conns' = Append(conns, NewConn(idx[c]))
    /\ conn' = Len(conns) + 1
    /\ id' = 0
    /\ Goto(c, "write")
    /\ UNCHANGED <<req, idx, result, reqLock, backoff, writeError, active, sent,
                   executed, closing, seen, requests, faults>>

\* ... and shaking hands.  A SASL handshake uses a call id of its own, which
\* gives way to 0 when it succeeds and stays when it fails.
Handshake(c) ==
    /\ CanDial(c) /\ Len(conns) < MaxConns
    /\ host' = idx[c]
    /\ conns' = Append(conns, NewConn(idx[c]))
    /\ conn' = Len(conns) + 1
    /\ id' = IF Kerberos THEN 0 ELSE id
    /\ Goto(c, "write")
    /\ UNCHANGED <<req, idx, result, reqLock, backoff, writeError, active, sent,
                   executed, closing, seen, requests, faults>>

HandshakeFails(c) ==
    /\ CanDial(c) /\ Len(conns) < MaxConns /\ Fault
    /\ host' = idx[c]
    /\ conns' = Append(conns, [NewConn(idx[c]) EXCEPT !.open = FALSE, !.up = FALSE])
    /\ conn' = 0
    /\ id' \in IF Kerberos THEN {id, SaslCallId, 0} ELSE {id}
    /\ MarkFailure(idx[c])
    /\ idx' = [idx EXCEPT ![c] = @ + 1]
    /\ UNCHANGED <<pc, req, result, reqLock, active, sent, executed, closing, seen, requests>>

Unavailable(c) ==
    /\ At(c, "resolve") /\ conn = 0 /\ idx[c] \notin Hosts
    /\ Return(c, <<req[c], "unavailable">>)
    /\ UNCHANGED <<id, conn, hostVars, conns, active, sent, executed, closing, seen,
                   requests, faults>>

Dead(k) == ~conns[k].open \/ ~conns[k].up

\* A connection that the other end has dropped may still take a request.
WriteRequest(c) ==
    /\ At(c, "write") /\ conns[conn].open
    /\ conns' = [conns EXCEPT ![conn].reqs = Append(@, <<id, req[c]>>)]
    /\ sent' = sent \cup {<<id, req[c]>>}
    /\ writeError' = writeError \ {host}
    /\ Goto(c, "read")
    /\ UNCHANGED <<req, idx, result, reqLock, id, conn, host, backoff, active,
                   executed, closing, seen, requests, faults>>

WriteFails(c) ==
    /\ At(c, "write") /\ Dead(conn)
    /\ ConnClosed /\ MarkTransientFailure(host)
    /\ Goto(c, "resolve") /\ idx' = [idx EXCEPT ![c] = 1]
    /\ UNCHANGED <<req, result, reqLock, id, host, active, sent, executed, closing, seen,
                   requests, faults>>

\* Mutant: the status in the answer's header is not looked at.
StatusIgnored(r) == "ok"

\* readRPCPacket's result: nil, a NamenodeError, or the one of a standby.
Status(r) == r.status

\* readResponse: an answer with another call id is an error.
Accepts(r) == r.call = id

ReadResponse(c) ==
    /\ At(c, "read") /\ conns[conn].open /\ conns[conn].resps # <<>>
    /\ LET r == Head(conns[conn].resps)
           rest == [conns EXCEPT ![conn].resps = Tail(@)]
       IN  IF Accepts(r) /\ Status(r) = "standby"
           THEN /\ conns' = [rest EXCEPT ![conn].open = FALSE]
                /\ conn' = 0
                /\ MarkFailure(host)
                /\ Goto(c, "resolve") /\ idx' = [idx EXCEPT ![c] = 1]
                /\ UNCHANGED <<req, result, reqLock>>
           ELSE /\ conns' = rest
                /\ Return(c, IF Accepts(r) THEN <<r.req, Status(r)>> ELSE <<req[c], "badseq">>)
                /\ UNCHANGED <<conn, backoff, writeError>>
    /\ UNCHANGED <<id, host, active, sent, executed, closing, seen, requests, faults>>

\* The namenode has hung up (io.EOF): try again.
ReadEOF(c) ==
    /\ At(c, "read")
    /\ conns[conn].open /\ ~conns[conn].up /\ conns[conn].resps = <<>>
    /\ ConnClosed /\ MarkTransientFailure(host)
    /\ Goto(c, "resolve") /\ idx' = [idx EXCEPT ![c] = 1]
    /\ UNCHANGED <<req, result, reqLock, id, host, active, sent, executed, closing, seen,
                   requests, faults>>

\* Any other failure is returned, and the connection kept.
ReadFails(c) ==
    /\ At(c, "read")
    /\ ~conns[conn].open \/ (~conns[conn].up /\ conns[conn].resps = <<>>)
    /\ Return(c, <<req[c], "error">>)
    /\ UNCHANGED <<id, conn, hostVars, conns, active, sent, executed, closing, seen,
                   requests, faults>>

\* NamenodeConnection.Close, from any goroutine: without the lock, it looks at
\* c.conn ...
Close ==
    /\ CanClose /\ closing = "no"
    /\ closing' = IF conn = 0 THEN "done" ELSE "checked"
    /\ seen' = conn
    /\ UNCHANGED <<callVars, reqLock, id, conn, hostVars, conns, active, sent, executed,
                   requests, faults>>

\* ... and then closes what it saw, or what it finds when it looks again; that
\* may be nil by then.
CloseConn ==
    /\ closing = "checked"
    /\ \E k \in {seen, conn} :
          /\ closing' = IF k = 0 THEN "panicked" ELSE "done"
          /\ conns' = IF k = 0 THEN conns ELSE [conns EXCEPT ![k].open = FALSE]
    /\ UNCHANGED <<callVars, reqLock, id, conn, hostVars, active, sent, executed, seen,
                   requests, faults>>

-----------------------------------------------------------------------------
(* The namenodes, the network and the clock (external).                    *)

\* A namenode carries out a request it has received, even if the client has
\* given the connection up; a standby refuses it.
Serve(k) ==
    /\ conns[k].up /\ conns[k].reqs # <<>>
    /\ LET q == Head(conns[k].reqs)
       IN  \E s \in IF conns[k].host = active THEN {"ok", "exception"} ELSE {"standby"} :
             /\ conns' = [conns EXCEPT
                   ![k].reqs = Tail(@),
                   ![k].resps = Append(@, [call |-> q[1], req |-> q[2], status |-> s])]
             /\ executed' = IF s = "standby" THEN executed ELSE executed \cup {q}
    /\ UNCHANGED <<callVars, reqLock, id, conn, hostVars, active, sent, closing, seen,
                   requests, faults>>

\* A connection breaks, with or without the answers on their way.
Breaks(k) ==
    /\ conns[k].up /\ conns[k].open /\ Fault
    /\ \E lost \in {TRUE, FALSE} :
           conns' = [conns EXCEPT ![k].up = FALSE,
                                  ![k].resps = IF lost THEN <<>> ELSE @]
    /\ UNCHANGED <<callVars, reqLock, id, conn, hostVars, active, sent, executed,
                   closing, seen, requests>>

Failover ==
    /\ Fault
    /\ active' \in Hosts \ {active}
    /\ UNCHANGED <<callVars, reqLock, id, conn, hostVars, conns, sent, executed,
                   closing, seen, requests>>

BackoffEnds(h) ==
    /\ h \in backoff /\ Fault
    /\ backoff' = backoff \ {h}
    /\ UNCHANGED <<callVars, reqLock, id, conn, host, writeError, conns, active, sent,
                   executed, closing, seen, requests>>

-----------------------------------------------------------------------------

CallStep(c) ==
    \/ Lock(c) \/ Resolved(c) \/ SkipHost(c) \/ DialFails(c) \/ Handshake(c)
    \/ HandshakeFails(c) \/ Unavailable(c) \/ WriteRequest(c) \/ WriteFails(c)
    \/ ReadResponse(c) \/ ReadEOF(c) \/ ReadFails(c)

Next ==
    \/ \E c \in Callers : Execute(c) \/ CallStep(c)
    \/ Close \/ CloseConn
    \/ \E k \in 1 .. Len(conns) : Serve(k) \/ Breaks(k)
    \/ Failover
    \/ \E h \in Hosts : BackoffEnds(h)

Spec == Init /\ [][Next]_vars

\* Goroutines run, Mutex hands the lock to every waiter in the end, and a
\* namenode that has a request answers it.
FairSpec ==
    /\ Spec
    /\ \A c \in Callers : WF_vars(CallStep(c)) /\ SF_vars(Lock(c))
    /\ \A k \in 1 .. MaxConns : WF_vars(k <= Len(conns) /\ Serve(k))

-----------------------------------------------------------------------------
(* Properties.                                                             *)

\* Every variable keeps its type, and only requests that were sent are carried out.
TypeOK ==
    /\ pc \in [Callers -> {"idle", "lock", "resolve", "write", "read"}]
    /\ req \in [Callers -> 0 .. MaxRequests]
    /\ idx \in [Callers -> 1 .. NHosts + 1]
    /\ result \in [Callers -> (0 .. MaxRequests) \X
          {"none", "ok", "exception", "unavailable", "badseq", "error"}]
    /\ reqLock \in Callers \cup {"free"}
    /\ id \in Int
    /\ conn \in 0 .. Len(conns) /\ host \in Hosts
    /\ backoff \subseteq Hosts /\ writeError \subseteq Hosts
    /\ active \in Hosts
    /\ \A k \in 1 .. Len(conns) :
          /\ conns[k].host \in Hosts /\ conns[k].open \in BOOLEAN /\ conns[k].up \in BOOLEAN
          /\ \A i \in 1 .. Len(conns[k].reqs) : conns[k].reqs[i] \in sent
    /\ executed \subseteq sent
    /\ sent \subseteq Int \X (1 .. MaxRequests)
    /\ closing \in {"no", "checked", "done", "panicked"} /\ seen \in 0 .. Len(conns)
    /\ requests \in 0 .. MaxRequests /\ faults \in 0 .. MaxFaults

\* The answer that Execute returns is the answer to its own request, over
\* retries, reconnects, call ids that start again at 0, and answers that come
\* late; a request that was answered was carried out; and no call fails
\* because it meets the answer to another one.
AnswerIsOwn ==
    \A c \in Callers :
        /\ result[c][2] # "badseq"
        /\ pc[c] = "idle" /\ req[c] # 0 =>
               /\ result[c][1] = req[c]
               /\ result[c][2] \in {"ok", "exception"} =>
                      \E q \in executed : q[2] = req[c]

\* At most one connection is open, and it is the one in c.conn: every failure
\* path closes the connection it gives up.
NoConnectionLeak == \A k \in 1 .. Len(conns) : conns[k].open => k = conn

\* "clientId + callId uniquely identifies a request": no two requests are sent
\* with the same call id, and every retry of a request carries the same one, so
\* that the namenode can tell a retry from a new request.
CallIdIdentifies == \A p, q \in sent : p[1] = q[1] <=> p[2] = q[2]

\* Execute returns, as long as failures and failovers come to an end.
ExecuteReturns == \A c \in Callers : pc[c] # "idle" ~> pc[c] = "idle"

\* Does not hold (README, "Where the code differs").
\* "Close terminates all underlying socket connections to remote server":
\* afterwards no connection is open.
CloseIsFinal == closing = "done" => \A k \in 1 .. Len(conns) : ~conns[k].open
=============================================================================
