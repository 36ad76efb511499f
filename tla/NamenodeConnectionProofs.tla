---------------------- MODULE NamenodeConnectionProofs ----------------------
(***************************************************************************)
(* What Execute promises its callers, for any number of callers, hosts,    *)
(* requests, connections and failures, with Kerberos and without.          *)
(***************************************************************************)
EXTENDS NamenodeConnection, TLAPS

-----------------------------------------------------------------------------
(* Sequences.                                                              *)

\* A sequence is a function on an initial segment of the positive numbers.
LEMMA SeqParts ==
    ASSUME NEW S, NEW s \in Seq(S)
    PROVE  Len(s) \in Nat /\ DOMAIN s = 1 .. Len(s) /\ s \in [1 .. Len(s) -> S]
  OBVIOUS

\* <<>> is the only sequence without elements.
LEMMA EmptyParts ==
    ASSUME NEW S
    PROVE  /\ <<>> \in Seq(S) /\ Len(<<>>) = 0
           /\ \A s \in Seq(S) : s # <<>> => Len(s) \in Nat \ {0}
  OBVIOUS

\* What append does.
LEMMA AppendParts ==
    ASSUME NEW S, NEW s \in Seq(S), NEW e \in S
    PROVE  /\ Append(s, e) \in Seq(S) /\ Append(s, e) # <<>>
           /\ Len(Append(s, e)) = Len(s) + 1 /\ Append(s, e)[Len(s) + 1] = e
           /\ \A i \in 1 .. Len(s) : Append(s, e)[i] = s[i]
  OBVIOUS

\* What is left when the first element is taken.
LEMMA TailParts ==
    ASSUME NEW S, NEW s \in Seq(S), s # <<>>
    PROVE  /\ Head(s) \in S /\ Tail(s) \in Seq(S) /\ Len(Tail(s)) = Len(s) - 1
           /\ \A i \in 1 .. Len(Tail(s)) : Tail(s)[i] = s[i + 1]
  OBVIOUS

\* What replacing one element does.
LEMMA ExceptParts ==
    ASSUME NEW S, NEW s \in Seq(S), NEW i \in 1 .. Len(s), NEW e \in S
    PROVE  /\ [s EXCEPT ![i] = e] \in Seq(S) /\ Len([s EXCEPT ![i] = e]) = Len(s)
           /\ \A j \in 1 .. Len(s) : [s EXCEPT ![i] = e][j] = IF j = i THEN e ELSE s[j]
  OBVIOUS

-----------------------------------------------------------------------------
USE NamenodeAssumption

Response == [call : Int, req : Nat, status : {"ok", "exception", "standby"}]

Conn == [host : Hosts, open : BOOLEAN, up : BOOLEAN,
         reqs : Seq(Int \X Nat), resps : Seq(Response)]

Outcomes == {"none", "ok", "exception", "unavailable", "badseq", "error"}

\* The types that the argument needs.
Types ==
    /\ pc \in [Callers -> {"idle", "lock", "resolve", "write", "read"}]
    /\ req \in [Callers -> Nat]
    /\ result \in [Callers -> Nat \X Outcomes]
    /\ id \in Int /\ requests \in Nat
    /\ conns \in Seq(Conn)
    /\ conn \in 0 .. Len(conns) /\ seen \in 0 .. Len(conns)

Holding == {"resolve", "write", "read"}

\* reqLock is held by the one caller that is inside Execute, and the caller
\* that writes or reads has a connection.
LockOK ==
    /\ \A c \in Callers : pc[c] \in Holding <=> reqLock = c
    /\ \A c \in Callers : pc[c] \in {"write", "read"} => conn # 0

\* Nobody waits for an answer: there is none to come on the connection.
Quiet(k) ==
    /\ k.resps = <<>>
    /\ k.up => k.reqs = <<>>

\* c waits for an answer: only the answer to its own request can come.
Awaits(c, k) ==
    /\ Len(k.resps) <= 1
    /\ \A i \in 1 .. Len(k.resps) :
          /\ k.resps[i].call = id /\ k.resps[i].req = req[c]
          /\ k.resps[i].status # "standby" => \E q \in executed : q[2] = req[c]
    /\ k.up => /\ Len(k.reqs) + Len(k.resps) <= 1
               /\ \A i \in 1 .. Len(k.reqs) : k.reqs[i] = <<id, req[c]>>

\* The connection that is in use carries nothing but the call in progress.
ChannelOK ==
    conn # 0 /\ conns[conn].open =>
        /\ (\A c \in Callers : pc[c] # "read") => Quiet(conns[conn])
        /\ \A c \in Callers : pc[c] = "read" => Awaits(c, conns[conn])

IndInv == Types /\ LockOK /\ NoConnectionLeak /\ ChannelOK /\ AnswerIsOwn

-----------------------------------------------------------------------------
(* Updates of one connection, and of the list of connections.              *)

\* Replacing one connection leaves the others alone.
LEMMA Replace ==
    ASSUME NEW s \in Seq(Conn), NEW k \in 1 .. Len(s), NEW x \in Conn
    PROVE  /\ [s EXCEPT ![k] = x] \in Seq(Conn)
           /\ Len([s EXCEPT ![k] = x]) = Len(s)
           /\ [s EXCEPT ![k] = x][k] = x
           /\ \A j \in 1 .. Len(s) : j # k => [s EXCEPT ![k] = x][j] = s[j]
  BY ExceptParts

\* A new connection comes after the others.
LEMMA Extend ==
    ASSUME NEW s \in Seq(Conn), NEW x \in Conn
    PROVE  /\ Append(s, x) \in Seq(Conn)
           /\ Len(Append(s, x)) = Len(s) + 1
           /\ Append(s, x)[Len(s) + 1] = x
           /\ \A j \in 1 .. Len(s) : Append(s, x)[j] = s[j]
  BY AppendParts

\* Closing a connection, or losing it before it was of use.
LEMMA Closing ==
    ASSUME NEW k \in Conn
    PROVE  /\ [k EXCEPT !.open = FALSE] \in Conn
           /\ [k EXCEPT !.open = FALSE].open = FALSE
           /\ [k EXCEPT !.open = FALSE, !.up = FALSE] \in Conn
           /\ [k EXCEPT !.open = FALSE, !.up = FALSE].open = FALSE
  BY Zenon DEF Conn

\* A request goes out.
LEMMA Asking ==
    ASSUME NEW k \in Conn, NEW q \in Int \X Nat
    PROVE  LET x == [k EXCEPT !.reqs = Append(@, q)]
           IN  /\ x \in Conn /\ x.reqs = Append(k.reqs, q)
               /\ x.open = k.open /\ x.up = k.up /\ x.resps = k.resps
<1>1. k.reqs \in Seq(Int \X Nat)
  BY DEF Conn
<1>2. Append(k.reqs, q) \in Seq(Int \X Nat)
  BY <1>1, AppendParts
<1>3. QED
  BY <1>2, Zenon DEF Conn

\* A response is read.
LEMMA Taking ==
    ASSUME NEW k \in Conn, NEW r \in Seq(Response)
    PROVE  LET x == [k EXCEPT !.resps = r]
           IN  /\ x \in Conn /\ x.resps = r
               /\ x.open = k.open /\ x.up = k.up /\ x.reqs = k.reqs
  BY Zenon DEF Conn

Served(k, q, r) == [k EXCEPT !.reqs = q, !.resps = r]

\* The namenode answers a request.
LEMMA Serving ==
    ASSUME NEW k \in Conn, NEW q \in Seq(Int \X Nat), NEW r \in Seq(Response)
    PROVE  /\ Served(k, q, r) \in Conn
           /\ Served(k, q, r).reqs = q /\ Served(k, q, r).resps = r
           /\ Served(k, q, r).open = k.open
  BY Zenon DEF Conn, Served

\* A connection breaks.
LEMMA Breaking ==
    ASSUME NEW k \in Conn, NEW r \in Seq(Response)
    PROVE  LET x == [k EXCEPT !.up = FALSE, !.resps = r]
           IN  /\ x \in Conn /\ x.resps = r /\ x.up = FALSE
               /\ x.open = k.open /\ x.reqs = k.reqs
  BY Zenon DEF Conn

\* There is room for one message.
LEMMA OneAtMost ==
    /\ \A m \in Nat : m >= 1 /\ m <= 1 => m = 1
    /\ \A m, n \in Nat : m >= 1 /\ m + n <= 1 => m = 1 /\ n = 0
  OBVIOUS

\* A queue of one message is empty once that message is taken.
LEMMA OneElement ==
    ASSUME NEW S, NEW s \in Seq(S), s # <<>>
    PROVE  /\ Head(s) = s[1] /\ Head(s) \in S /\ Tail(s) \in Seq(S)
           /\ Len(s) >= 1 /\ Len(s) \in Nat /\ Len(Tail(s)) = Len(s) - 1
           /\ Len(s) <= 1 => Tail(s) = <<>>
  BY TailParts, EmptyParts

\* Who is inside Execute is there alone.
LEMMA Alone ==
    ASSUME IndInv, NEW c \in Callers, pc[c] \in Holding
    PROVE  /\ reqLock = c
           /\ \A d \in Callers : d # c => pc[d] \notin Holding
  BY DEF IndInv, LockOK

\* What c awaits is the same as long as its connection and its request are.
LEMMA AwaitsKept ==
    ASSUME NEW d \in Callers, Awaits(d, conns[conn]), conns'[conn'] = conns[conn],
           id' = id, req'[d] = req[d], executed \subseteq executed'
    PROVE  Awaits(d, conns[conn])'
  BY Zenon DEF Awaits

\* The same, for a connection that has changed to x.
LEMMA AwaitsOn ==
    ASSUME NEW d \in Callers, NEW x, conns'[conn'] = x, Awaits(d, x)'
    PROVE  Awaits(d, conns[conn])'
  BY Zenon DEF Awaits

\* A step that changes neither the connection nor the call id, nor who reads.
LEMMA ChannelKept ==
    ASSUME IndInv, UNCHANGED <<conn, conns, id>>, executed \subseteq executed',
           \A d \in Callers : (pc'[d] = "read" <=> pc[d] = "read"),
           \A d \in Callers : pc[d] = "read" => req'[d] = req[d]
    PROVE  ChannelOK'
<1>1. SUFFICES ASSUME conn # 0, conns[conn].open
               PROVE  /\ (\A c \in Callers : pc'[c] # "read") => Quiet(conns[conn])'
                      /\ \A c \in Callers : pc'[c] = "read" => Awaits(c, conns[conn])'
  BY DEF ChannelOK
<1>2. /\ (\A c \in Callers : pc[c] # "read") => Quiet(conns[conn])
      /\ \A c \in Callers : pc[c] = "read" => Awaits(c, conns[conn])
  BY <1>1 DEF IndInv, ChannelOK
<1>3. Quiet(conns[conn])' <=> Quiet(conns[conn])
  BY DEF Quiet
<1>4. \A c \in Callers : pc[c] = "read" => Awaits(c, conns[conn])'
  BY <1>2, AwaitsKept
<1>5. QED
  BY <1>2, <1>3, <1>4

\* Nobody is inside Execute when the lock is free.
LEMMA Nobody ==
    ASSUME IndInv, reqLock = "free"
    PROVE  \A d \in Callers : pc[d] \notin Holding
  BY DEF IndInv, LockOK

-----------------------------------------------------------------------------
(* The steps that leave the connections alone.                             *)

\* A step that changes only where the loop over the hosts is.
LEMMA FrameStep ==
    ASSUME IndInv, seen' \in 0 .. Len(conns),
           UNCHANGED <<pc, req, result, reqLock, id, conn, conns, executed, requests>>
    PROVE  IndInv'
<1>1. ChannelOK'
  BY ChannelKept
<1>2. QED
  BY <1>1 DEF IndInv, Types, LockOK, NoConnectionLeak, AnswerIsOwn

\* A new call has a request of its own and nothing else yet.
LEMMA ExecuteStep ==
    ASSUME IndInv, NEW c \in Callers, Execute(c)
    PROVE  IndInv'
<1>a. Types /\ LockOK /\ NoConnectionLeak /\ ChannelOK /\ AnswerIsOwn
  BY DEF IndInv
<1> USE <1>a
<1>1. /\ pc[c] = "idle" /\ pc' = [pc EXCEPT ![c] = "lock"]
      /\ req' = [req EXCEPT ![c] = requests + 1] /\ requests' = requests + 1
      /\ UNCHANGED <<result, reqLock, id, conn, conns, executed, seen>>
  BY DEF Execute, At, Goto
<1>2. Types'
  BY <1>1 DEF Types
<1>3. /\ pc'[c] = "lock"
      /\ \A d \in Callers : d # c => pc'[d] = pc[d] /\ req'[d] = req[d]
  BY <1>1 DEF Types
<1>4. LockOK'
  BY <1>1, <1>3 DEF LockOK, Holding
<1>5. NoConnectionLeak'
  BY <1>1 DEF NoConnectionLeak
<1>6. ChannelOK'
  BY <1>1, <1>3, ChannelKept
<1>7. AnswerIsOwn'
  BY <1>1, <1>3 DEF AnswerIsOwn
<1>8. QED
  BY <1>2, <1>4, <1>5, <1>6, <1>7 DEF IndInv

\* The call id changes only when no answer is awaited.
LEMMA LockStep ==
    ASSUME IndInv, NEW c \in Callers, Lock(c)
    PROVE  IndInv'
<1>a. Types /\ LockOK /\ NoConnectionLeak /\ ChannelOK /\ AnswerIsOwn
  BY DEF IndInv
<1> USE <1>a
<1>1. /\ pc[c] = "lock" /\ pc' = [pc EXCEPT ![c] = "resolve"]
      /\ reqLock = "free" /\ reqLock' = c /\ id' = id + 1
      /\ UNCHANGED <<req, result, conn, conns, executed, seen, requests>>
  BY DEF Lock, At, Goto
<1>2. Types'
  BY <1>1 DEF Types
<1>3. pc'[c] = "resolve" /\ \A d \in Callers : d # c => pc'[d] = pc[d]
  BY <1>1 DEF Types
<1>4. \A d \in Callers : pc[d] \notin Holding
  BY <1>1, Nobody
<1>5. LockOK'
  BY <1>1, <1>3, <1>4 DEF LockOK, Holding
<1>6. NoConnectionLeak'
  BY <1>1 DEF NoConnectionLeak
<1>7. ChannelOK'
  BY <1>1, <1>3, <1>4 DEF ChannelOK, Quiet, Holding
<1>8. AnswerIsOwn'
  BY <1>1, <1>3 DEF AnswerIsOwn
<1>9. QED
  BY <1>2, <1>5, <1>6, <1>7, <1>8 DEF IndInv

\* resolveConnection keeps the connection there is.
LEMMA ResolvedStep ==
    ASSUME IndInv, NEW c \in Callers, Resolved(c)
    PROVE  IndInv'
<1>a. Types /\ LockOK /\ NoConnectionLeak /\ ChannelOK /\ AnswerIsOwn
  BY DEF IndInv
<1> USE <1>a
<1>1. /\ pc[c] = "resolve" /\ pc' = [pc EXCEPT ![c] = "write"] /\ conn # 0
      /\ UNCHANGED <<req, result, reqLock, id, conn, conns, executed, seen, requests>>
  BY DEF Resolved, At, Goto
<1>2. Types'
  BY <1>1 DEF Types
<1>3. pc'[c] = "write" /\ \A d \in Callers : d # c => pc'[d] = pc[d]
  BY <1>1 DEF Types
<1>4. LockOK'
  BY <1>1, <1>3 DEF LockOK, Holding
<1>5. NoConnectionLeak'
  BY <1>1 DEF NoConnectionLeak
<1>6. ChannelOK'
  BY <1>1, <1>3, ChannelKept
<1>7. AnswerIsOwn'
  BY <1>1, <1>3 DEF AnswerIsOwn
<1>8. QED
  BY <1>2, <1>4, <1>5, <1>6, <1>7 DEF IndInv

\* A call that returns leaves no answer behind that could be taken for the next
\* one's, and reports the answer to its own request if it reports one.
LEMMA ReturnStep ==
    ASSUME IndInv, NEW c \in Callers, pc[c] \in Holding,
           NEW o \in Outcomes \ {"badseq"}, Return(c, <<req[c], o>>),
           o \in {"ok", "exception"} => \E q \in executed : q[2] = req[c],
           conns' \in Seq(Conn), Len(conns') = Len(conns), NoConnectionLeak',
           UNCHANGED <<id, conn, executed, seen, requests>>,
           conn # 0 /\ conns'[conn].open => Quiet(conns[conn])'
    PROVE  IndInv'
<1>a. Types /\ LockOK /\ NoConnectionLeak /\ ChannelOK /\ AnswerIsOwn
  BY DEF IndInv
<1> USE <1>a
<1>1. /\ pc' = [pc EXCEPT ![c] = "idle"] /\ result' = [result EXCEPT ![c] = <<req[c], o>>]
      /\ reqLock' = "free" /\ UNCHANGED req
  BY DEF Return, Goto
<1>2. Types'
  <2>1. <<req[c], o>> \in Nat \X Outcomes
    BY DEF Types
  <2>2. QED
    BY <1>1, <2>1 DEF Types
<1>3. /\ pc'[c] = "idle" /\ result'[c] = <<req[c], o>>
      /\ \A d \in Callers : d # c => /\ pc'[d] = pc[d] /\ pc[d] \notin Holding
                                     /\ result'[d] = result[d]
  BY <1>1, Alone DEF Types
<1>4. LockOK'
  BY <1>1, <1>3 DEF LockOK, Holding
<1>5. ChannelOK'
  BY <1>3 DEF ChannelOK, Holding
<1>6. AnswerIsOwn'
  BY <1>1, <1>3 DEF AnswerIsOwn
<1>7. QED
  BY <1>2, <1>4, <1>5, <1>6 DEF IndInv

-----------------------------------------------------------------------------
(* The steps that make, use and give up a connection.                      *)

\* The caller gives up its connection, closes it and looks for another.
LEMMA DropStep ==
    ASSUME IndInv, NEW c \in Callers, pc[c] \in {"write", "read"},
           NEW x \in Conn, x.open = FALSE, conns' = [conns EXCEPT ![conn] = x], conn' = 0,
           pc' = [pc EXCEPT ![c] = "resolve"],
           UNCHANGED <<req, result, reqLock, id, executed, seen, requests>>
    PROVE  IndInv'
<1>a. Types /\ LockOK /\ NoConnectionLeak /\ ChannelOK /\ AnswerIsOwn
  BY DEF IndInv
<1> USE <1>a
<1>1. conn \in 1 .. Len(conns) /\ conns \in Seq(Conn)
  BY DEF Types, LockOK
<1>2. /\ conns' \in Seq(Conn) /\ Len(conns') = Len(conns) /\ conns'[conn] = x
      /\ \A j \in 1 .. Len(conns) : j # conn => conns'[j] = conns[j]
  BY <1>1, Replace
<1>3. Types'
  BY <1>2 DEF Types
<1>4. pc'[c] = "resolve" /\ \A d \in Callers : d # c => pc'[d] = pc[d] /\ pc[d] \notin Holding
  BY Alone DEF Types, Holding
<1>5. LockOK'
  BY <1>4 DEF LockOK, Holding
<1>6. NoConnectionLeak'
  BY <1>1, <1>2 DEF NoConnectionLeak
<1>7. ChannelOK'
  BY DEF ChannelOK
<1>8. AnswerIsOwn'
  BY <1>4 DEF AnswerIsOwn
<1>9. QED
  BY <1>3, <1>5, <1>6, <1>7, <1>8 DEF IndInv

\* A handshake that succeeds makes the only open connection there is.
LEMMA HandshakeStep ==
    ASSUME IndInv, NEW c \in Callers, Handshake(c)
    PROVE  IndInv'
<1>a. Types /\ LockOK /\ NoConnectionLeak /\ ChannelOK /\ AnswerIsOwn
  BY DEF IndInv
<1> USE <1>a
<1> DEFINE x == NewConn(idx[c])
<1>1. /\ pc[c] = "resolve" /\ conn = 0 /\ idx[c] \in Hosts
      /\ conns' = Append(conns, x) /\ conn' = Len(conns) + 1
      /\ id' = (IF Kerberos THEN 0 ELSE id) /\ pc' = [pc EXCEPT ![c] = "write"]
      /\ UNCHANGED <<req, result, reqLock, executed, seen, requests>>
  BY DEF Handshake, CanDial, At, Goto
<1>2. x \in Conn /\ x.resps = <<>> /\ x.reqs = <<>>
  BY <1>1 DEF NewConn, Conn
<1>3. conns \in Seq(Conn) /\ Len(conns) \in Nat
  BY DEF Types
<1> HIDE DEF x
<1>4. /\ conns' \in Seq(Conn) /\ Len(conns') = Len(conns) + 1 /\ conns'[conn'] = x
      /\ \A j \in 1 .. Len(conns) : conns'[j] = conns[j]
  BY <1>1, <1>2, <1>3, Extend
<1>5. Types'
  BY <1>1, <1>3, <1>4 DEF Types
<1>6. /\ pc'[c] = "write"
      /\ \A d \in Callers : d # c => pc'[d] = pc[d] /\ pc[d] \notin Holding
  BY <1>1, Alone DEF Types, Holding
<1>7. LockOK'
  BY <1>1, <1>3, <1>6 DEF LockOK, Holding
<1>8. NoConnectionLeak'
  BY <1>1, <1>3, <1>4 DEF NoConnectionLeak
<1>9. ChannelOK'
  BY <1>2, <1>4, <1>6 DEF ChannelOK, Quiet, Holding
<1>10. AnswerIsOwn'
  BY <1>1, <1>6 DEF AnswerIsOwn
<1>11. QED
  BY <1>5, <1>7, <1>8, <1>9, <1>10 DEF IndInv

\* One that fails leaves no connection open.
LEMMA HandshakeFailsStep ==
    ASSUME IndInv, NEW c \in Callers, HandshakeFails(c)
    PROVE  IndInv'
<1>a. Types /\ LockOK /\ NoConnectionLeak /\ ChannelOK /\ AnswerIsOwn
  BY DEF IndInv
<1> USE <1>a
<1> DEFINE x == [NewConn(idx[c]) EXCEPT !.open = FALSE, !.up = FALSE]
<1>1. /\ pc[c] = "resolve" /\ conn = 0 /\ idx[c] \in Hosts
      /\ conns' = Append(conns, x) /\ conn' = 0
      /\ id' \in (IF Kerberos THEN {id, SaslCallId, 0} ELSE {id})
      /\ UNCHANGED <<pc, req, result, reqLock, executed, seen, requests>>
  BY DEF HandshakeFails, CanDial, At
<1>2. x \in Conn /\ x.open = FALSE
  <2>1. NewConn(idx[c]) \in Conn
    BY <1>1 DEF NewConn, Conn
  <2>2. QED
    BY <2>1, Closing, Zenon
<1>3. conns \in Seq(Conn) /\ Len(conns) \in Nat
  BY DEF Types
<1> HIDE DEF x
<1>4. /\ conns' \in Seq(Conn) /\ Len(conns') = Len(conns) + 1 /\ conns'[Len(conns) + 1] = x
      /\ \A j \in 1 .. Len(conns) : conns'[j] = conns[j]
  BY <1>1, <1>2, <1>3, Extend
<1>5. Types'
  BY <1>1, <1>3, <1>4 DEF Types, SaslCallId
<1>6. LockOK' /\ AnswerIsOwn'
  BY <1>1 DEF LockOK, AnswerIsOwn
<1>7. NoConnectionLeak'
  BY <1>1, <1>2, <1>3, <1>4 DEF NoConnectionLeak
<1>8. ChannelOK'
  BY <1>1 DEF ChannelOK
<1>9. QED
  BY <1>5, <1>6, <1>7, <1>8 DEF IndInv

\* The request that is written is the only one on its way.
LEMMA WriteRequestStep ==
    ASSUME IndInv, NEW c \in Callers, WriteRequest(c)
    PROVE  IndInv'
<1>a. Types /\ LockOK /\ NoConnectionLeak /\ ChannelOK /\ AnswerIsOwn
  BY DEF IndInv
<1> USE <1>a
<1> DEFINE k == conns[conn]
           y == [k EXCEPT !.reqs = Append(@, <<id, req[c]>>)]
<1>1. /\ pc[c] = "write" /\ k.open
      /\ conns' = [conns EXCEPT ![conn] = y] /\ pc' = [pc EXCEPT ![c] = "read"]
      /\ UNCHANGED <<req, result, reqLock, id, conn, executed, seen, requests>>
  BY DEF WriteRequest, At, Goto
<1>2. conn \in 1 .. Len(conns) /\ conns \in Seq(Conn) /\ k \in Conn
  BY <1>1 DEF Types, LockOK
<1>3. /\ <<id, req[c]>> \in Int \X Nat
      /\ k.reqs \in Seq(Int \X Nat) /\ k.resps \in Seq(Response)
  BY <1>2 DEF Types, Conn
<1>4. PICK x \in Conn :
          /\ conns' = [conns EXCEPT ![conn] = x]
          /\ x.reqs = Append(k.reqs, <<id, req[c]>>)
          /\ x.resps = k.resps /\ x.up = k.up /\ x.open = k.open
  <2>1. /\ y \in Conn /\ y.reqs = Append(k.reqs, <<id, req[c]>>)
        /\ y.resps = k.resps /\ y.up = k.up /\ y.open = k.open
    BY <1>2, <1>3, Asking, Zenon
  <2> HIDE DEF y, k
  <2>2. QED
    BY <1>1, <2>1, Zenon
<1> HIDE DEF y, k
<1>5. /\ pc'[c] = "read"
      /\ \A d \in Callers : d # c => pc'[d] = pc[d] /\ pc[d] \notin Holding
  BY <1>1, Alone DEF Types, Holding
<1>6. Quiet(k)
  BY <1>1, <1>2, <1>5 DEF ChannelOK, Holding, k
<1>7. k.up => Len(x.reqs) = 1 /\ x.reqs[1] = <<id, req[c]>>
  <2>1. Len(x.reqs) = Len(k.reqs) + 1 /\ x.reqs[Len(k.reqs) + 1] = <<id, req[c]>>
    BY <1>3, <1>4, AppendParts
  <2>2. k.up => Len(k.reqs) = 0
    BY <1>6 DEF Quiet
  <2>3. QED
    BY <2>1, <2>2
<1>8. /\ conns' \in Seq(Conn) /\ Len(conns') = Len(conns) /\ conns'[conn] = x
      /\ \A j \in 1 .. Len(conns) : j # conn => conns'[j] = conns[j]
  BY <1>1, <1>2, <1>4, Replace
<1>9. Types'
  BY <1>1, <1>8 DEF Types
<1>10. LockOK'
  BY <1>1, <1>2, <1>5 DEF LockOK, Holding
<1>11. NoConnectionLeak'
  BY <1>1, <1>2, <1>8 DEF NoConnectionLeak
<1>12. Awaits(c, conns[conn])'
  <2>1. Len(x.resps) = 0
    BY <1>4, <1>6 DEF Quiet
  <2>2. x.up => Len(x.reqs) = 1 /\ x.reqs[1] = <<id, req[c]>>
    BY <1>4, <1>7
  <2>3. conns'[conn'] = x /\ id' = id /\ req'[c] = req[c]
    BY <1>1, <1>8
  <2>4. \A i \in 1 .. Len(x.resps) : FALSE
    BY <2>1
  <2>5. x.up => \A i \in 1 .. Len(x.reqs) : x.reqs[i] = <<id, req[c]>>
    BY <2>2
  <2>6. Awaits(c, x)'
    BY <2>1, <2>2, <2>3, <2>4, <2>5 DEF Awaits
  <2>7. QED
    BY <2>3, <2>6, AwaitsOn
<1>13. ChannelOK'
  BY <1>5, <1>12 DEF ChannelOK, Holding
<1>14. AnswerIsOwn'
  BY <1>1, <1>5 DEF AnswerIsOwn
<1>15. QED
  BY <1>9, <1>10, <1>11, <1>13, <1>14 DEF IndInv

\* The caller's end of the connection is closed under it.
LEMMA ConnClosedConn ==
    ASSUME IndInv, NEW c \in Callers, pc[c] \in {"write", "read"}, ConnClosed
    PROVE  /\ conn' = 0
           /\ \E x \in Conn : x.open = FALSE /\ conns' = [conns EXCEPT ![conn] = x]
<1>a. Types /\ LockOK /\ NoConnectionLeak /\ ChannelOK /\ AnswerIsOwn
  BY DEF IndInv
<1> USE <1>a
<1>1. conn \in 1 .. Len(conns) /\ conn # 0 /\ conns[conn] \in Conn
  BY DEF Types, LockOK
<1>2. /\ [conns[conn] EXCEPT !.open = FALSE] \in Conn
      /\ [conns[conn] EXCEPT !.open = FALSE].open = FALSE
  BY <1>1, Closing, Zenon
<1>3. conns' = [conns EXCEPT ![conn] = [conns[conn] EXCEPT !.open = FALSE]] /\ conn' = 0
  BY <1>1 DEF ConnClosed
<1>4. QED
  BY <1>2, <1>3, Zenon

\* A failed write, or the namenode's hanging up: try again.
LEMMA RetryStep ==
    ASSUME IndInv, NEW c \in Callers, WriteFails(c) \/ ReadEOF(c)
    PROVE  IndInv'
<1>1. /\ pc[c] \in {"write", "read"} /\ ConnClosed /\ pc' = [pc EXCEPT ![c] = "resolve"]
      /\ UNCHANGED <<req, result, reqLock, id, executed, seen, requests>>
  BY DEF WriteFails, ReadEOF, At, Goto
<1>2. PICK x \in Conn : x.open = FALSE /\ conns' = [conns EXCEPT ![conn] = x]
  BY <1>1, ConnClosedConn, Zenon
<1>3. conn' = 0
  BY <1>1 DEF ConnClosed
<1>4. QED
  BY <1>1, <1>2, <1>3, DropStep, Zenon

\* No connection can be had, or the answer cannot be read.
LEMMA GiveUpStep ==
    ASSUME IndInv, NEW c \in Callers, Unavailable(c) \/ ReadFails(c)
    PROVE  IndInv'
<1>a. Types /\ LockOK /\ NoConnectionLeak /\ ChannelOK /\ AnswerIsOwn
  BY DEF IndInv
<1> USE <1>a
<1>1. UNCHANGED <<id, conn, conns, executed, seen, requests>> /\ NoConnectionLeak'
  BY Zenon DEF Unavailable, ReadFails, NoConnectionLeak
<1>2. conns' \in Seq(Conn) /\ Len(conns') = Len(conns)
  BY <1>1 DEF Types
<1>3. CASE Unavailable(c)
  <2>1. pc[c] = "resolve" /\ conn = 0 /\ Return(c, <<req[c], "unavailable">>)
    BY <1>3 DEF Unavailable, At
  <2>2. QED
    BY <1>1, <1>2, <2>1, ReturnStep DEF Holding, Outcomes
<1>4. CASE ReadFails(c)
  <2>1. /\ pc[c] = "read" /\ Return(c, <<req[c], "error">>)
        /\ ~conns[conn].open \/ (~conns[conn].up /\ conns[conn].resps = <<>>)
    BY <1>4 DEF ReadFails, At
  <2>2. conn # 0 /\ conns'[conn].open => Quiet(conns[conn])'
    BY <1>1, <2>1 DEF Quiet
  <2>3. QED
    BY <1>1, <1>2, <2>1, <2>2, ReturnStep DEF Holding, Outcomes
<1>5. QED
  BY <1>3, <1>4 DEF IndInv

\* Two changes of one connection are one.
LEMMA ReplaceTwice ==
    ASSUME NEW s \in Seq(Conn), NEW k \in 1 .. Len(s), NEW x, NEW y
    PROVE  [[s EXCEPT ![k] = x] EXCEPT ![k] = y] = [s EXCEPT ![k] = y]
  BY Zenon

\* The answer that a caller reads is the answer to its request.
LEMMA ReadResponseStep ==
    ASSUME IndInv, NEW c \in Callers, ReadResponse(c)
    PROVE  IndInv'
<1>a. Types /\ LockOK /\ NoConnectionLeak /\ ChannelOK /\ AnswerIsOwn
  BY DEF IndInv
<1> USE <1>a
<1> DEFINE k == conns[conn]
           r == Head(k.resps)
           y == [k EXCEPT !.resps = Tail(@)]
           z == [y EXCEPT !.open = FALSE]
<1>1. /\ pc[c] = "read" /\ k.open /\ k.resps # <<>>
      /\ UNCHANGED <<id, executed, seen, requests>>
  BY DEF ReadResponse, At
<1>2. /\ conn \in 1 .. Len(conns) /\ conn # 0 /\ conns \in Seq(Conn) /\ k \in Conn
  BY <1>1 DEF Types, LockOK
<1>3. k.resps \in Seq(Response) /\ k.reqs \in Seq(Int \X Nat)
  BY <1>2 DEF Conn
<1>4. /\ r = k.resps[1] /\ r \in Response /\ Tail(k.resps) \in Seq(Response)
      /\ Len(k.resps) >= 1 /\ Len(k.resps) \in Nat
      /\ Len(k.resps) <= 1 => Tail(k.resps) = <<>>
  BY <1>1, <1>3, OneElement
<1>5. Awaits(c, k)
  BY <1>1, <1>2 DEF ChannelOK
<1>6. /\ Accepts(r) /\ r.req = req[c] /\ Len(k.resps) = 1 /\ Tail(k.resps) = <<>>
      /\ r.status # "standby" => \E q \in executed : q[2] = req[c]
      /\ k.up => Len(k.reqs) = 0
  <2>1. Len(k.reqs) \in Nat
    BY <1>3, SeqParts
  <2> HIDE DEF k, r, y, z
  <2>2. Len(k.resps) = 1 /\ Tail(k.resps) = <<>> /\ 1 \in 1 .. Len(k.resps)
    <3>1. Len(k.resps) <= 1
      BY <1>5 DEF Awaits
    <3>2. Len(k.resps) \in Nat /\ Len(k.resps) >= 1
      BY <1>4
    <3>3. Len(k.resps) = 1
      BY <3>1, <3>2, OneAtMost, Zenon
    <3>4. QED
      BY <1>4, <3>3
  <2>3. /\ k.resps[1].call = id /\ k.resps[1].req = req[c]
        /\ k.resps[1].status # "standby" => \E q \in executed : q[2] = req[c]
    BY <1>5, <2>2 DEF Awaits
  <2>4. k.up => Len(k.reqs) = 0
    BY <1>5, <2>1, <2>2 DEF Awaits
  <2>5. QED
    BY <1>4, <2>2, <2>3, <2>4 DEF Accepts
<1>7. /\ y \in Conn /\ y.resps = <<>> /\ y.open = k.open /\ y.up = k.up /\ y.reqs = k.reqs
  BY <1>2, <1>4, <1>6, Taking, Zenon
<1>8. z \in Conn /\ z.open = FALSE
  BY <1>7, Closing, Zenon
<1>9. CASE r.status = "standby"
  <2>1. /\ conns' = [[conns EXCEPT ![conn] = y] EXCEPT ![conn] = z]
        /\ conn' = 0 /\ pc' = [pc EXCEPT ![c] = "resolve"] /\ UNCHANGED <<req, result, reqLock>>
    <3>1. /\ conns' = [[conns EXCEPT ![conn].resps = Tail(@)] EXCEPT ![conn].open = FALSE]
          /\ conn' = 0 /\ pc' = [pc EXCEPT ![c] = "resolve"]
          /\ UNCHANGED <<req, result, reqLock>>
      BY <1>6, <1>9 DEF ReadResponse, Status, Goto
    <3>2. [conns EXCEPT ![conn] = y][conn] = y
      <4> HIDE DEF y
      <4>1. QED
        BY <1>2, <1>7, Replace
    <3>3. QED
      BY <3>1, <3>2, Zenon
  <2> HIDE DEF y, z
  <2>2. conns' = [conns EXCEPT ![conn] = z]
    BY <1>2, <2>1, ReplaceTwice, Zenon
  <2>3. QED
    BY <1>1, <1>8, <2>1, <2>2, DropStep, Zenon
<1>10. CASE r.status # "standby"
  <2>1. /\ conns' = [conns EXCEPT ![conn] = y] /\ UNCHANGED conn
        /\ Return(c, <<req[c], r.status>>)
    BY <1>6, <1>10 DEF ReadResponse, Status
  <2>2. r.status \in Outcomes \ {"badseq"}
    BY <1>4, <1>10 DEF Response, Outcomes
  <2> HIDE DEF y, k, r
  <2>3. /\ conns' \in Seq(Conn) /\ Len(conns') = Len(conns) /\ conns'[conn] = y
        /\ \A j \in 1 .. Len(conns) : j # conn => conns'[j] = conns[j]
    BY <1>2, <1>7, <2>1, Replace
  <2>4. NoConnectionLeak'
    BY <1>2, <2>1, <2>3 DEF NoConnectionLeak
  <2>5. Quiet(conns[conn])'
    <3>1. k.up => k.reqs = <<>>
      BY <1>3, <1>6, EmptyParts
    <3>2. QED
      BY <1>7, <2>1, <2>3, <3>1 DEF Quiet
  <2>6. QED
    BY <1>1, <1>6, <1>10, <2>1, <2>2, <2>3, <2>4, <2>5, ReturnStep DEF Holding
<1>11. QED
  BY <1>9, <1>10 DEF IndInv

-----------------------------------------------------------------------------
(* The steps of Close, the namenodes and the network.                      *)

\* Something happens to connection k.  If it is the one in use, it carries
\* nothing more than before.
LEMMA OtherEndStep ==
    ASSUME IndInv, NEW k \in 1 .. Len(conns), NEW x \in Conn,
           conns' = [conns EXCEPT ![k] = x], x.open => conns[k].open,
           UNCHANGED <<pc, req, result, reqLock, id, conn, seen, requests>>,
           executed \subseteq executed',
           k = conn /\ x.open =>
               /\ (\A c \in Callers : pc[c] # "read") => Quiet(x)
               /\ \A c \in Callers : pc[c] = "read" => Awaits(c, x)'
    PROVE  IndInv'
<1>a. Types /\ LockOK /\ NoConnectionLeak /\ ChannelOK /\ AnswerIsOwn
  BY DEF IndInv
<1> USE <1>a
<1>1. conns \in Seq(Conn)
  BY DEF Types
<1>2. /\ conns' \in Seq(Conn) /\ Len(conns') = Len(conns) /\ conns'[k] = x
      /\ \A j \in 1 .. Len(conns) : j # k => conns'[j] = conns[j]
  BY <1>1, Replace
<1>3. Types'
  BY <1>2 DEF Types
<1>4. LockOK'
  BY DEF LockOK
<1>5. NoConnectionLeak'
  BY <1>2 DEF NoConnectionLeak
<1>6. ASSUME conn # 0, conns'[conn].open
      PROVE  /\ (\A c \in Callers : pc[c] # "read") => Quiet(conns[conn])'
             /\ \A c \in Callers : pc[c] = "read" => Awaits(c, conns[conn])'
  <2>1. CASE k = conn
    <3>1. conns'[conn'] = x /\ x.open
      BY <1>2, <1>6, <2>1
    <3>2. Quiet(x) => Quiet(conns[conn])'
      BY <3>1 DEF Quiet
    <3>3. QED
      BY <2>1, <3>1, <3>2, AwaitsOn
  <2>2. CASE k # conn
    <3>1. conn \in 1 .. Len(conns)
      BY <1>6 DEF Types
    <3>2. conns'[conn'] = conns[conn]
      BY <1>2, <2>2, <3>1, Zenon
    <3>3. /\ (\A c \in Callers : pc[c] # "read") => Quiet(conns[conn])
          /\ \A c \in Callers : pc[c] = "read" => Awaits(c, conns[conn])
      BY <1>6, <3>2 DEF ChannelOK
    <3>4. Quiet(conns[conn]) => Quiet(conns[conn])'
      BY <3>2 DEF Quiet
    <3>5. QED
      BY <3>2, <3>3, <3>4, AwaitsKept
  <2>3. QED
    BY <2>1, <2>2
<1>7. ChannelOK'
  BY <1>6, Zenon DEF ChannelOK
<1>8. AnswerIsOwn'
  BY DEF AnswerIsOwn
<1>9. QED
  BY <1>3, <1>4, <1>5, <1>7, <1>8 DEF IndInv

\* Close closes a connection that may be in use.
LEMMA CloseConnStep ==
    ASSUME IndInv, CloseConn
    PROVE  IndInv'
<1>a. Types /\ LockOK /\ NoConnectionLeak /\ ChannelOK /\ AnswerIsOwn
  BY DEF IndInv
<1> USE <1>a
<1>1. UNCHANGED <<pc, req, result, reqLock, id, conn, executed, seen, requests>>
  BY DEF CloseConn, callVars
<1>2. PICK k \in {seen, conn} :
          conns' = IF k = 0 THEN conns ELSE [conns EXCEPT ![k].open = FALSE]
  BY Zenon DEF CloseConn
<1>3. CASE k = 0
  BY <1>1, <1>2, <1>3, FrameStep DEF Types
<1>4. CASE k # 0
  <2>1. k \in 1 .. Len(conns) /\ conns[k] \in Conn
    BY <1>4 DEF Types
  <2> DEFINE y == [conns[k] EXCEPT !.open = FALSE]
  <2>2. y \in Conn /\ y.open = FALSE
    BY <2>1, Closing, Zenon
  <2>3. conns' = [conns EXCEPT ![k] = y]
    BY <1>2, <1>4
  <2> HIDE DEF y
  <2>4. PICK x \in Conn : conns' = [conns EXCEPT ![k] = x] /\ x.open = FALSE
    BY <2>2, <2>3, Zenon
  <2>5. QED
    BY <1>1, <2>1, <2>4, OtherEndStep, Zenon
<1>5. QED
  BY <1>3, <1>4 DEF IndInv

\* A connection breaks, with the answers on their way or without them.
LEMMA BreaksStep ==
    ASSUME IndInv, NEW k \in 1 .. Len(conns), Breaks(k)
    PROVE  IndInv'
<1>a. Types /\ LockOK /\ NoConnectionLeak /\ ChannelOK /\ AnswerIsOwn
  BY DEF IndInv
<1> USE <1>a
<1>1. UNCHANGED <<pc, req, result, reqLock, id, conn, executed, seen, requests>>
  BY DEF Breaks, callVars
<1>2. conns[k] \in Conn /\ conns[k].open
  BY DEF Types, Breaks
<1>3. conns[k].resps \in Seq(Response) /\ <<>> \in Seq(Response)
  BY <1>2 DEF Conn
<1>4. PICK r \in {<<>>, conns[k].resps} :
          conns' = [conns EXCEPT ![k] = [conns[k] EXCEPT !.up = FALSE, !.resps = r]]
  BY Zenon DEF Breaks
<1> DEFINE y == [conns[k] EXCEPT !.up = FALSE, !.resps = r]
<1>5. y \in Conn /\ y.resps = r /\ y.up = FALSE /\ y.open = conns[k].open
  <2>1. r \in Seq(Response)
    BY <1>3, Zenon
  <2>2. QED
    BY <1>2, <2>1, Breaking, ZenonT(60)
<1> HIDE DEF y
<1>6. PICK x \in Conn : /\ conns' = [conns EXCEPT ![k] = x]
                        /\ x.resps = r /\ x.up = FALSE /\ x.open = conns[k].open
  BY <1>4, <1>5, Zenon DEF y
<1>7. ASSUME k = conn
      PROVE  /\ (\A c \in Callers : pc[c] # "read") => Quiet(x)
             /\ \A c \in Callers : pc[c] = "read" => Awaits(c, x)'
  <2>1. /\ (\A c \in Callers : pc[c] # "read") => Quiet(conns[conn])
        /\ \A c \in Callers : pc[c] = "read" => Awaits(c, conns[conn])
    BY <1>2, <1>7 DEF ChannelOK
  <2>2. Quiet(conns[conn]) => Quiet(x)
    BY <1>4, <1>6, <1>7 DEF Quiet
  <2>3. ASSUME NEW c \in Callers, Awaits(c, conns[conn]) PROVE Awaits(c, x)'
    <3>1. CASE r = <<>>
      <4>1. Len(x.resps) = 0
        BY <1>6, <3>1
      <4>2. \A i \in 1 .. Len(x.resps) : FALSE
        BY <4>1
      <4>3. QED
        BY <1>6, <4>1, <4>2, SMTT(60) DEF Awaits
    <3>2. CASE r = conns[k].resps
      <4>1. x.resps = conns[conn].resps
        BY <1>6, <1>7, <3>2
      <4>2. QED
        BY <1>1, <1>6, <2>3, <4>1, Zenon DEF Awaits
    <3>3. QED
      BY <3>1, <3>2
  <2>4. QED
    BY <2>1, <2>2, <2>3
<1>8. QED
  BY <1>1, <1>2, <1>6, <1>7, OtherEndStep, Zenon DEF IndInv

\* The namenode answers the request of the caller that waits for it.
LEMMA ServeStep ==
    ASSUME IndInv, NEW k \in 1 .. Len(conns), Serve(k)
    PROVE  IndInv'
<1>a. Types /\ LockOK /\ NoConnectionLeak /\ ChannelOK /\ AnswerIsOwn
  BY DEF IndInv
<1> USE <1>a
<1>1. UNCHANGED <<pc, req, result, reqLock, id, conn, seen, requests>>
  BY DEF Serve, callVars
<1>2. conns[k] \in Conn /\ conns[k].up /\ conns[k].reqs # <<>>
  BY DEF Types, Serve
<1>3. conns[k].reqs \in Seq(Int \X Nat) /\ conns[k].resps \in Seq(Response)
  BY <1>2 DEF Conn
<1>4. PICK q : q = Head(conns[k].reqs)
  OBVIOUS
<1>5. PICK s \in {"ok", "exception", "standby"} :
          /\ conns' = [conns EXCEPT ![k] =
                [conns[k] EXCEPT !.reqs = Tail(conns[k].reqs),
                                 !.resps = Append(conns[k].resps,
                                              [call |-> q[1], req |-> q[2], status |-> s])]]
          /\ executed' = IF s = "standby" THEN executed ELSE executed \cup {q}
  BY <1>4, ZenonT(60) DEF Serve
<1>6. /\ q = conns[k].reqs[1] /\ q \in Int \X Nat /\ Tail(conns[k].reqs) \in Seq(Int \X Nat)
      /\ Len(conns[k].reqs) >= 1 /\ Len(conns[k].reqs) \in Nat
      /\ Len(Tail(conns[k].reqs)) = Len(conns[k].reqs) - 1
  BY <1>2, <1>3, <1>4, OneElement
<1>7. PICK a \in Response : a = [call |-> q[1], req |-> q[2], status |-> s]
  BY <1>6, Zenon DEF Response
<1>8. /\ Append(conns[k].resps, a) \in Seq(Response)
      /\ Len(Append(conns[k].resps, a)) = Len(conns[k].resps) + 1
      /\ Append(conns[k].resps, a)[Len(conns[k].resps) + 1] = a
  BY <1>3, AppendParts
<1>9. PICK x \in Conn : /\ conns' = [conns EXCEPT ![k] = x]
                        /\ x.reqs = Tail(conns[k].reqs) /\ x.resps = Append(conns[k].resps, a)
                        /\ x.open = conns[k].open
  <2>1. PICK t \in Seq(Int \X Nat) : t = Tail(conns[k].reqs)
    BY <1>6, Zenon
  <2>2. PICK b \in Seq(Response) : b = Append(conns[k].resps, a)
    BY <1>8, Zenon
  <2>3. conns' = [conns EXCEPT ![k] = Served(conns[k], t, b)]
    BY <1>5, <1>7, <2>1, <2>2 DEF Served
  <2>4. /\ Served(conns[k], t, b) \in Conn /\ Served(conns[k], t, b).reqs = t
        /\ Served(conns[k], t, b).resps = b /\ Served(conns[k], t, b).open = conns[k].open
    BY <1>2, Serving
  <2>5. QED
    BY <2>1, <2>2, <2>3, <2>4, Zenon
<1>10. ASSUME k = conn, x.open
       PROVE  /\ \E c \in Callers : pc[c] = "read"
              /\ \A c \in Callers : pc[c] = "read" => Awaits(c, x)'
  <2>1. /\ (\A c \in Callers : pc[c] # "read") => Quiet(conns[conn])
        /\ \A c \in Callers : pc[c] = "read" => Awaits(c, conns[conn])
    <3>1. conn # 0 /\ conns[conn].open
      <4>1. x.open = conns[conn].open
        BY <1>9, <1>10, Zenon
      <4>2. QED
        BY <1>10, <4>1
    <3>2. QED
      BY <3>1 DEF ChannelOK
  <2>2. ~Quiet(conns[conn])
    BY <1>2, <1>10 DEF Quiet
  <2>3. ASSUME NEW c \in Callers, Awaits(c, conns[k]) PROVE Awaits(c, x)'
    <3>0. Len(conns[k].resps) \in Nat
      BY <1>3, SeqParts
    <3>1. Len(conns[k].reqs) + Len(conns[k].resps) <= 1
      BY <1>2, <2>3, Zenon DEF Awaits
    <3>2. Len(conns[k].reqs) = 1 /\ Len(conns[k].resps) = 0 /\ 1 \in 1 .. Len(conns[k].reqs)
      <4>1. Len(conns[k].reqs) \in Nat /\ Len(conns[k].reqs) >= 1
        BY <1>6
      <4>2. Len(conns[k].reqs) = 1 /\ Len(conns[k].resps) = 0
        BY <3>0, <3>1, <4>1, OneAtMost, Zenon
      <4>3. QED
        BY <4>2
    <3>3. q = <<id, req[c]>>
      BY <1>2, <1>6, <2>3, <3>2, Zenon DEF Awaits
    <3>4. Len(x.reqs) = 0 /\ Len(x.resps) = 1 /\ x.resps[1] = a
      BY <1>6, <1>8, <1>9, <3>2
    <3>5. a.call = id' /\ a.req = req'[c] /\ a.status = s
      BY <1>1, <1>7, <3>3
    <3>6. s # "standby" => \E p \in executed' : p[2] = req'[c]
      BY <1>1, <1>5, <3>3
    <3>7. \A i \in 1 .. Len(x.reqs) : FALSE
      BY <3>4
    <3>8. \A i \in 1 .. Len(x.resps) : x.resps[i] = a
      BY <3>4
    <3>9. QED
      BY <3>4, <3>5, <3>6, <3>7, <3>8 DEF Awaits
  <2>4. QED
    BY <1>10, <2>1, <2>2, <2>3
<1>11. executed \subseteq executed'
  BY <1>5
<1>12. QED
  BY <1>1, <1>9, <1>10, <1>11, OtherEndStep, Zenon DEF IndInv

-----------------------------------------------------------------------------
(* The theorems.                                                           *)

\* Every step of the callers, of Close, of the namenodes and of the network
\* keeps the invariant.
LEMMA IndStep == IndInv /\ [Next]_vars => IndInv'
<1> SUFFICES ASSUME IndInv, [Next]_vars PROVE IndInv'
  OBVIOUS
<1>1. ASSUME NEW c \in Callers, Execute(c) \/ CallStep(c) PROVE IndInv'
  <2>1. CASE SkipHost(c) \/ DialFails(c)
    BY <2>1, FrameStep DEF SkipHost, DialFails, IndInv, Types
  <2>2. QED
    BY <1>1, <2>1, ExecuteStep, LockStep, ResolvedStep, HandshakeStep, HandshakeFailsStep,
       WriteRequestStep, RetryStep, GiveUpStep, ReadResponseStep DEF CallStep
<1>2. CASE Close
  BY <1>2, FrameStep DEF Close, callVars, IndInv, Types
<1>3. CASE Failover \/ (\E h \in Hosts : BackoffEnds(h)) \/ UNCHANGED vars
  BY <1>3, FrameStep, Zenon DEF Failover, BackoffEnds, vars, callVars, IndInv, Types
<1>4. QED
  BY <1>1, <1>2, <1>3, CloseConnStep, ServeStep, BreaksStep DEF Next

\* The connection that NewNamenodeConnection makes satisfies it.
LEMMA IndInit == Init => IndInv
<1> SUFFICES ASSUME Init PROVE IndInv
  OBVIOUS
<1>1. NewConn(1) \in Conn /\ NewConn(1).resps = <<>> /\ NewConn(1).reqs = <<>>
  <2>1. <<>> \in Seq(Int \X Nat) /\ <<>> \in Seq(Response) /\ 1 \in Hosts
    BY DEF Hosts
  <2>2. QED
    BY <2>1, Zenon DEF NewConn, Conn
<1>2. conns \in Seq(Conn) /\ Len(conns) = 1 /\ conns[1] = NewConn(1) /\ conn = 1
  BY <1>1 DEF Init
<1>3. Types
  BY <1>2 DEF Init, Types, Outcomes
<1>4. LockOK /\ AnswerIsOwn
  BY <1>2 DEF Init, LockOK, Holding, AnswerIsOwn
<1>5. NoConnectionLeak
  BY <1>2 DEF NoConnectionLeak
<1>6. ChannelOK
  BY <1>1, <1>2 DEF Init, ChannelOK, Quiet
<1>7. QED
  BY <1>3, <1>4, <1>5, <1>6 DEF IndInv

\* The inductive invariant: mutual exclusion of the callers, and a connection
\* that carries nothing but the call in progress.
THEOREM InvariantHolds == Spec => []IndInv
  BY IndInit, IndStep, PTL DEF Spec

\* Execute returns the answer to its own request, and never fails because it
\* meets another one's: readResponse's check of the call id never fails.
THEOREM AnswersSafe == Spec => []AnswerIsOwn
<1>1. IndInv => AnswerIsOwn
  BY DEF IndInv
<1>2. QED
  BY <1>1, InvariantHolds, PTL

\* Every failure path of Execute closes the connection it gives up.
THEOREM ConnectionsSafe == Spec => []NoConnectionLeak
<1>1. IndInv => NoConnectionLeak
  BY DEF IndInv
<1>2. QED
  BY <1>1, InvariantHolds, PTL

-----------------------------------------------------------------------------
(* Call ids, without Kerberos.                                             *)

\* Requests that are being made are different, none is sent before its caller
\* has the lock, and from then on the call id is this request's and no other's.
CallIds ==
    /\ sent \subseteq Int \X Nat
    /\ \A p \in sent : p[1] <= id /\ p[2] <= requests
    /\ \A c \in Callers : req[c] <= requests
    /\ \A c, d \in Callers : c # d /\ pc[c] # "idle" /\ pc[d] # "idle" => req[c] # req[d]
    /\ \A c \in Callers : pc[c] = "lock" => \A p \in sent : p[2] # req[c]
    /\ \A c \in Callers : pc[c] \in Holding => \A p \in sent : p[1] = id <=> p[2] = req[c]
    /\ CallIdIdentifies

\* A step in which nothing is sent, and in which a call at most goes on holding
\* the lock or ends.
LEMMA CallIdsFrame ==
    ASSUME IndInv, CallIds, UNCHANGED <<req, id, sent, requests>>,
           \A c \in Callers : \/ pc'[c] = pc[c] \/ pc'[c] = "idle"
                              \/ pc[c] \in Holding /\ pc'[c] \in Holding
    PROVE  CallIds'
  BY DEF CallIds, CallIdIdentifies, Holding

\* What the steps of a call do to its place in the code.
LEMMA CallIdsStays ==
    ASSUME IndInv, NEW c \in Callers, pc[c] \in Holding,
           pc' = pc \/ (\E l \in Holding \cup {"idle"} : pc' = [pc EXCEPT ![c] = l])
    PROVE  \A d \in Callers : \/ pc'[d] = pc[d] \/ pc'[d] = "idle"
                              \/ pc[d] \in Holding /\ pc'[d] \in Holding
  BY DEF IndInv, Types

\* A new call has a request that was never sent.
LEMMA CallIdsExecute ==
    ASSUME IndInv, CallIds, NEW c \in Callers, Execute(c)
    PROVE  CallIds'
<1>1. /\ pc' = [pc EXCEPT ![c] = "lock"]
      /\ req' = [req EXCEPT ![c] = requests + 1] /\ requests' = requests + 1
      /\ UNCHANGED <<id, sent>>
  BY DEF Execute, Goto
<1>2. /\ pc'[c] = "lock" /\ req'[c] = requests + 1 /\ requests \in Nat
      /\ \A d \in Callers : d # c => pc'[d] = pc[d] /\ req'[d] = req[d]
      /\ \A d \in Callers : req[d] \in Nat
  BY <1>1 DEF IndInv, Types
<1>3. \A p \in sent : p[1] \in Int /\ p[2] \in Nat /\ p[2] <= requests
  BY DEF CallIds
<1>4. (\A p \in sent : p[1] <= id /\ p[2] <= requests)' /\ (\A d \in Callers : req[d] <= requests)'
  BY <1>1, <1>2, <1>3 DEF CallIds
<1>5. \A d, e \in Callers : d # e /\ pc'[d] # "idle" /\ pc'[e] # "idle" => req'[d] # req'[e]
  BY <1>2 DEF CallIds
<1>6. \A d \in Callers : pc'[d] = "lock" => \A p \in sent : p[2] # req'[d]
  BY <1>2, <1>3 DEF CallIds
<1>7. \A d \in Callers : pc'[d] \in Holding => \A p \in sent : p[1] = id <=> p[2] = req'[d]
  BY <1>2 DEF CallIds, Holding
<1>8. QED
  BY <1>1, <1>4, <1>5, <1>6, <1>7, SMTT(60) DEF CallIds, CallIdIdentifies

\* With the lock a call takes a call id that is above all those in use.
LEMMA CallIdsLock ==
    ASSUME IndInv, CallIds, NEW c \in Callers, Lock(c)
    PROVE  CallIds'
<1>1. /\ pc[c] = "lock" /\ pc' = [pc EXCEPT ![c] = "resolve"] /\ reqLock = "free"
      /\ id' = id + 1 /\ UNCHANGED <<req, sent, requests>>
  BY DEF Lock, At, Goto
<1>2. /\ pc'[c] = "resolve" /\ id \in Int
      /\ \A d \in Callers : d # c => pc'[d] = pc[d] /\ pc'[d] \notin Holding
  BY <1>1, Nobody DEF IndInv, Types
<1>3. \A p \in sent : p[1] \in Int /\ p[1] <= id
  BY DEF CallIds
<1>4. \A p \in sent : p[1] <= id' /\ p[1] # id'
  BY <1>1, <1>2, <1>3
<1>5. \A p \in sent : p[2] # req[c]
  BY <1>1 DEF CallIds
<1>6. \A d \in Callers : pc'[d] \in Holding => d = c
  BY <1>2
<1>7. QED
  BY <1>1, <1>2, <1>4, <1>5, <1>6 DEF CallIds, CallIdIdentifies

\* A request is sent with the call id of its call, over all retries.
LEMMA CallIdsWrite ==
    ASSUME IndInv, CallIds, NEW c \in Callers, WriteRequest(c)
    PROVE  CallIds'
<1>1. /\ pc[c] = "write" /\ pc' = [pc EXCEPT ![c] = "read"]
      /\ sent' = sent \cup {<<id, req[c]>>} /\ UNCHANGED <<req, id, requests>>
  BY DEF WriteRequest, At, Goto
<1>2. /\ pc'[c] = "read" /\ id \in Int /\ req[c] \in Nat
      /\ \A d \in Callers : d # c => pc'[d] = pc[d] /\ pc'[d] \notin Holding
  BY <1>1, Alone DEF IndInv, Types, Holding
<1>3. \A p \in sent : p[1] = id <=> p[2] = req[c]
  BY <1>1 DEF CallIds, Holding
<1>4. sent' \subseteq Int \X Nat /\ \A p \in sent' : p[1] <= id /\ p[2] <= requests
  BY <1>1, <1>2 DEF CallIds
<1>5. \A d, e \in Callers : d # e /\ pc'[d] # "idle" /\ pc'[e] # "idle" => req[d] # req[e]
  BY <1>1, <1>2 DEF CallIds
<1>6. \A d \in Callers : pc'[d] = "lock" => \A p \in sent' : p[2] # req[d]
  <2>1. ASSUME NEW d \in Callers, pc'[d] = "lock" PROVE req[c] # req[d] /\ pc[d] = "lock"
    BY <1>1, <1>2, <2>1 DEF CallIds
  <2>2. QED
    BY <1>1, <2>1 DEF CallIds
<1>7. \A d \in Callers : pc'[d] \in Holding => \A p \in sent' : p[1] = id <=> p[2] = req[d]
  BY <1>1, <1>2, <1>3
<1>8. CallIdIdentifies'
  BY <1>1, <1>3 DEF CallIds, CallIdIdentifies
<1>9. QED
  BY <1>1, <1>4, <1>5, <1>6, <1>7, <1>8 DEF CallIds

\* Every step keeps the call ids apart, as no handshake sets them back.
LEMMA CallIdsStep == ~Kerberos /\ IndInv /\ CallIds /\ [Next]_vars => CallIds'
<1> SUFFICES ASSUME ~Kerberos, IndInv, CallIds, [Next]_vars PROVE CallIds'
  OBVIOUS
<1>1. ASSUME NEW c \in Callers, CallStep(c), ~Lock(c), ~WriteRequest(c) PROVE CallIds'
  <2>1. /\ pc[c] \in Holding /\ UNCHANGED <<req, id, sent, requests>>
        /\ pc' = pc \/ (\E l \in Holding \cup {"idle"} : pc' = [pc EXCEPT ![c] = l])
    <3>1. CASE Resolved(c) \/ SkipHost(c) \/ DialFails(c)
      BY <3>1 DEF Resolved, SkipHost, DialFails, CanDial, At, Goto, Holding
    <3>2. CASE Handshake(c) \/ HandshakeFails(c)
      BY <3>2 DEF Handshake, HandshakeFails, CanDial, At, Goto, Holding
    <3>3. CASE WriteFails(c) \/ ReadEOF(c)
      BY <3>3, Zenon DEF WriteFails, ReadEOF, At, Goto, Holding
    <3>4. CASE Unavailable(c) \/ ReadFails(c)
      BY <3>4 DEF Unavailable, ReadFails, Return, At, Goto, Holding
    <3>5. CASE ReadResponse(c)
      BY <3>5 DEF ReadResponse, Return, At, Goto, Holding
    <3>6. QED
      BY <1>1, <3>1, <3>2, <3>3, <3>4, <3>5 DEF CallStep
  <2>2. QED
    BY <2>1, CallIdsFrame, CallIdsStays
<1>2. CASE Close \/ CloseConn \/ Failover \/ (\E h \in Hosts : BackoffEnds(h)) \/ UNCHANGED vars
  <2>1. UNCHANGED <<pc, req, id, sent, requests>>
    BY <1>2 DEF Close, CloseConn, Failover, BackoffEnds, vars, callVars
  <2>2. QED
    BY <2>1, CallIdsFrame
<1>3. CASE \E k \in 1 .. Len(conns) : Serve(k) \/ Breaks(k)
  <2>1. UNCHANGED <<pc, req, id, sent, requests>>
    BY <1>3 DEF Serve, Breaks, callVars
  <2>2. QED
    BY <2>1, CallIdsFrame
<1>4. QED
  BY <1>1, <1>2, <1>3, CallIdsExecute, CallIdsLock, CallIdsWrite DEF Next

\* Without Kerberos a call id belongs to one request, over all its retries,
\* reconnections and failovers: what the namenode's retry cache relies on.
THEOREM CallIdsSafe ==
    ASSUME ~Kerberos
    PROVE  Spec => []CallIdIdentifies
<1>1. Init => CallIds
  BY DEF Init, CallIds, CallIdIdentifies, Holding
<1>2. IndInv /\ CallIds /\ [Next]_vars => CallIds'
  BY CallIdsStep
<1>3. CallIds => CallIdIdentifies
  BY DEF CallIds
<1>4. QED
  BY <1>1, <1>2, <1>3, InvariantHolds, PTL DEF Spec
=============================================================================
