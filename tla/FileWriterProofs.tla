-------------------------- MODULE FileWriterProofs --------------------------
(***************************************************************************)
(* What FileWriter keeps over blocks, failures and reopenings, for every   *)
(* block size and any number of bytes, sessions and failures.              *)
(***************************************************************************)
EXTENDS FileWriter, TLAPS

-----------------------------------------------------------------------------
(* Sequences.                                                              *)

\* What append does.
LEMMA AppendParts ==
    ASSUME NEW S, NEW s \in Seq(S), NEW e \in S
    PROVE  /\ Append(s, e) \in Seq(S) /\ Append(s, e) # <<>>
           /\ Len(Append(s, e)) = Len(s) + 1 /\ Append(s, e)[Len(s) + 1] = e
           /\ \A i \in 1 .. Len(s) : Append(s, e)[i] = s[i]
  OBVIOUS

-----------------------------------------------------------------------------
USE FileAssumption

Writer == [blk : Nat, offset : Nat, stream : {"none", "open", "closed"},
           deadline : Nat, conn : Nat]

\* The types that the argument needs.
Types ==
    /\ blocks \in Seq(Block) /\ bw \in Writer /\ prev \in [blk : Nat, len : Nat]
    /\ want \in Nat /\ accepted \in Nat /\ deadline \in Nat
    /\ open \in BOOLEAN /\ closed \in BOOLEAN

Opening == {"stat", "defaults", "create", "append"}

\* Which call is in progress at which place, and what it needs.
ControlOK ==
    /\ pc = "idle" <=> op = "none"
    /\ op \in {"create", "append"} <=> pc \in Opening
    /\ pc \in {"defaults", "create"} => op = "create"
    /\ pc \in {"loop", "start", "add"} => op = "write"
    /\ pc \in {"finish", "update"} => op \in {"write", "close"}
    /\ pc = "complete" => op = "close"
    /\ pc \in {"idle", "loop", "start", "add", "finish", "update", "complete"} \cup Opening
    /\ op \in {"create", "append"} => (open => closed)
    /\ op = "write" => open /\ ~closed
    /\ op = "close" => open /\ closed
    /\ pc \in {"loop", "finish", "update"} => bw.blk # 0
    /\ pc = "update" => bw.stream # "open" /\ prev.blk # 0
    /\ pc \in {"add", "complete"} => bw.blk = 0
    /\ lastClose = "ok" => closed /\ op \notin {"write", "close"} /\ bw.blk = 0

\* A FileWriter that is not closed has the file open, a file that is not there
\* has no bytes, and a file that is closed has only committed blocks.
FileOK ==
    /\ open /\ (~closed \/ op = "close") => file = "open"
    /\ file = "absent" => blocks = <<>> /\ accepted = 0
    /\ file = "closed" => AllCommitted(blocks)

AtEnd == blocks = <<>> \/ blocks[Len(blocks)].given = BlockSize

\* A new block is asked for only when the last one is full.
FullOK ==
    /\ pc = "start" /\ bw.blk # 0 => bw.offset = BlockSize
    /\ pc \in {"finish", "update"} /\ op = "write" => bw.offset = BlockSize
    /\ pc = "add" /\ prev.blk # 0 => AtEnd
    /\ open /\ ~closed /\ bw.blk = 0 /\ AllCommitted(blocks) => AtEnd

\* The length that finalizeBlock reports is the length of the last block.
PrevOK ==
    pc \in {"update", "add", "complete"} /\ prev.blk # 0 =>
        prev.blk = Len(blocks) /\ prev.len = blocks[Len(blocks)].given

\* The block that is being written is not committed.
Uncommitted == bw.blk # 0 => blocks[Len(blocks)].committed = FALSE

\* The blocks that are not being written are stored, and committed but for the
\* one about to be.
Settled ==
    /\ \A i \in 1 .. Len(blocks) - 1 :
           blocks[i].stored = blocks[i].given /\ blocks[i].committed
    /\ blocks # <<>> /\ (bw.blk = 0 \/ bw.stream # "open") =>
           blocks[Len(blocks)].stored = blocks[Len(blocks)].given
    /\ open /\ ~closed /\ bw.blk = 0 /\ pc # "add" => AllCommitted(blocks)
    /\ pc \in {"add", "complete"} /\ prev.blk = 0 => AllCommitted(blocks)
    /\ lastClose = "ok" => AllCommitted(blocks)

\* That is so as long as every call has returned nil.
CleanOK == clean => Settled

IndInv ==
    /\ Types /\ ControlOK /\ FileOK /\ FullOK /\ PrevOK /\ Uncommitted /\ CleanOK
    /\ BlocksFilledInOrder /\ CommittedLengthRight /\ DeadlineApplied

-----------------------------------------------------------------------------
(* The steps that leave the blocks alone.                                  *)

\* The blocks and the place in the last one are the same.
LEMMA BlocksKept ==
    ASSUME IndInv, UNCHANGED <<blocks, accepted>>,
           bw'.blk # 0 => bw'.blk = bw.blk /\ bw'.offset = bw.offset
    PROVE  BlocksFilledInOrder' /\ CommittedLengthRight' /\ Uncommitted'
  BY DEF IndInv, BlocksFilledInOrder, CommittedLengthRight, Uncommitted

\* No call makes up for an earlier one that failed, and none but Close changes
\* what Close has returned.
LEMMA ReturnKeeps ==
    /\ \A r : Return(r) => (clean' => clean) /\ (op # "close" => lastClose' = lastClose)
    /\ \A l : Goto(l) => (clean' => clean) /\ lastClose' = lastClose
    /\ \A o, l : Begin(o, l) => (clean' => clean) /\ lastClose' = lastClose
<1>1. \A r : Return(r) => (clean' => clean)
  BY Zenon DEF Return
<1>2. \A r : Return(r) /\ op # "close" => lastClose' = lastClose
  BY DEF Return
<1>3. \A l : Goto(l) => clean' = clean /\ lastClose' = lastClose
  BY DEF Goto
<1>4. \A o, l : Begin(o, l) => clean' = clean /\ lastClose' = lastClose
  BY DEF Begin
<1>5. QED
  BY <1>1, <1>2, <1>3, <1>4, Zenon

\* Create and Append before their request to the namenode, and another client.
LEMMA OpeningStep ==
    ASSUME IndInv,
           CreateCall \/ AppendCall \/ GetFileInfo \/ FetchDefaults \/ OtherCreates
    PROVE  IndInv'
<1>a. /\ Types /\ ControlOK /\ FileOK /\ FullOK /\ PrevOK /\ Uncommitted /\ CleanOK
      /\ BlocksFilledInOrder /\ CommittedLengthRight /\ DeadlineApplied
  BY DEF IndInv
<1> USE <1>a
<1>1. UNCHANGED <<want, open, closed, deadline, bw, prev, blocks, accepted>>
  BY DEF CreateCall, AppendCall, GetFileInfo, FetchDefaults, OtherCreates, clientVars
<1>2. Types' /\ DeadlineApplied'
  BY <1>1 DEF Types, DeadlineApplied
<1>3. ControlOK'
  BY DEF CreateCall, AppendCall, GetFileInfo, FetchDefaults, OtherCreates, clientVars,
         Begin, CanOpen, Return, Goto, ControlOK, Opening
<1>4. /\ file' = file \/ (file = "absent" /\ file' = "foreign" /\ op = "create")
      /\ op \notin {"write", "close"} /\ op' \notin {"write", "close"}
      /\ pc' \in Opening \cup {"idle"}
      /\ (clean' => clean) /\ lastClose' = lastClose
  <2>1. op \notin {"write", "close"}
    BY DEF CreateCall, AppendCall, GetFileInfo, FetchDefaults, OtherCreates, CanOpen,
           ControlOK, Opening
  <2>2. file' = file \/ (file = "absent" /\ file' = "foreign" /\ op = "create")
    BY DEF CreateCall, AppendCall, GetFileInfo, FetchDefaults, OtherCreates
  <2>3. op' \notin {"write", "close"} /\ pc' \in Opening \cup {"idle"}
    BY <2>1 DEF CreateCall, AppendCall, GetFileInfo, FetchDefaults, OtherCreates,
         Begin, CanOpen, Return, Goto, ControlOK, Opening
  <2>4. (clean' => clean) /\ lastClose' = lastClose
    <3>1. CASE OtherCreates
      BY <3>1 DEF OtherCreates
    <3>2. CASE CreateCall \/ AppendCall \/ GetFileInfo \/ FetchDefaults
      BY <2>1, <3>2, ReturnKeeps, Zenon DEF CreateCall, AppendCall, GetFileInfo, FetchDefaults
    <3>3. QED
      BY <3>1, <3>2
  <2>5. QED
    BY <2>1, <2>2, <2>3, <2>4
<1>5. FileOK'
  BY <1>1, <1>4 DEF FileOK, ControlOK
<1>6. FullOK' /\ PrevOK'
  BY <1>1, <1>4 DEF FullOK, PrevOK, AtEnd, Opening
<1>7. CleanOK'
  <2>1. pc # "add"
    BY DEF CreateCall, AppendCall, GetFileInfo, FetchDefaults, OtherCreates, CanOpen,
           ControlOK, Opening
  <2>2. Settled => Settled'
    BY <1>1, <1>4, <2>1 DEF Settled, Opening, AllCommitted
  <2>3. QED
    BY <1>4, <2>2 DEF CleanOK
<1>8. QED
  BY <1>1, <1>2, <1>3, <1>5, <1>6, <1>7, BlocksKept DEF IndInv

\* The beginning of Write and of Close, Flush, and Write's loop.
LEMMA CallingStep ==
    ASSUME IndInv,
           (\E n \in 0 .. MaxBytes : Write(n)) \/ WriteLoop \/ Flush \/ Close \/ StartNewBlock
    PROVE  IndInv'
<1>a. /\ Types /\ ControlOK /\ FileOK /\ FullOK /\ PrevOK /\ Uncommitted /\ CleanOK
      /\ BlocksFilledInOrder /\ CommittedLengthRight /\ DeadlineApplied
  BY DEF IndInv
<1> USE <1>a
<1>1. UNCHANGED <<open, deadline, bw, blocks, accepted, file>>
  BY DEF Write, WriteLoop, Flush, Close, StartNewBlock, clientVars
<1>2. want' \in Nat /\ closed' \in BOOLEAN
  <2>1. CASE \E n \in 0 .. MaxBytes : Write(n)
    BY <2>1 DEF Write, Types
  <2>2. CASE WriteLoop \/ Flush \/ StartNewBlock
    BY <2>2 DEF WriteLoop, Flush, StartNewBlock, clientVars, Types
  <2>3. CASE Close
    BY <2>3, Zenon DEF Close, Types
  <2>4. QED
    BY <2>1, <2>2, <2>3
<1>3. prev' = prev \/ prev' = NilBlock
  BY DEF Write, WriteLoop, Flush, Close, StartNewBlock, clientVars
<1>4. Types' /\ DeadlineApplied'
  BY <1>1, <1>2, <1>3 DEF Types, DeadlineApplied, NilBlock
<1>5. ControlOK'
  BY DEF Write, WriteLoop, Flush, Close, StartNewBlock, clientVars,
         Begin, CanCall, Return, Goto, ControlOK, Opening
<1>6. FileOK'
  BY DEF Write, WriteLoop, Flush, Close, StartNewBlock, clientVars,
         Begin, CanCall, Return, Goto, ControlOK, Opening, FileOK
<1>7. FullOK'
  <2>1. bw.blk # 0 => bw.offset <= BlockSize /\ bw.offset \in Nat
    BY DEF BlocksFilledInOrder, Types, Writer
  <2>2. QED
    BY <2>1, SMTT(30) DEF Write, WriteLoop, Flush, Close, StartNewBlock, clientVars,
         Begin, CanCall, Return, Goto, ControlOK, FullOK, NilBlock, AtEnd
<1>8. PrevOK'
  BY DEF Write, WriteLoop, Flush, Close, StartNewBlock, clientVars,
         Begin, CanCall, Return, Goto, ControlOK, PrevOK, NilBlock
<1>9. CleanOK'
  <2>0. op # "close"
    BY DEF Write, WriteLoop, Flush, Close, StartNewBlock, CanCall, ControlOK
  <2>1. (clean' => clean) /\ lastClose' = lastClose
    BY <2>0, ReturnKeeps, Zenon DEF Write, WriteLoop, Flush, Close, StartNewBlock
  <2>3. pc # "add"
    BY DEF Write, WriteLoop, Flush, Close, StartNewBlock, CanCall
  <2>4. pc' \in {"add", "complete"} => open /\ ~closed /\ bw.blk = 0
    BY DEF Write, WriteLoop, Flush, Close, StartNewBlock, Begin, CanCall, Return, Goto,
           ControlOK
  <2>5. open' /\ ~closed' /\ bw'.blk = 0 => open /\ ~closed /\ bw.blk = 0
    BY Zenon DEF Write, WriteLoop, Flush, Close, StartNewBlock, clientVars
  <2>6. Settled => Settled'
    BY <1>1, <2>1, <2>3, <2>4, <2>5 DEF Settled, AllCommitted
  <2>7. QED
    BY <2>1, <2>6 DEF CleanOK
<1>10. QED
  BY <1>1, <1>4, <1>5, <1>6, <1>7, <1>8, <1>9, BlocksKept DEF IndInv

-----------------------------------------------------------------------------
(* The steps that change the block writer.                                 *)

\* BlockWriter.SetDeadline, and connectNext with the deadline it finds.
LEMMA WriterFields ==
    ASSUME NEW w \in Writer, NEW t \in Nat
    PROVE  /\ [w EXCEPT !.deadline = t, !.conn = IF w.stream = "open" THEN t ELSE @] \in Writer
           /\ [w EXCEPT !.stream = "open", !.conn = w.deadline] \in Writer
           /\ [w EXCEPT !.stream = "closed"] \in Writer
           /\ [w EXCEPT !.offset = t] \in Writer
  BY Zenon DEF Writer

Placed(w, n, d) == [w EXCEPT !.blk = n, !.deadline = d]

\* A writer that is given a block and a deadline.
LEMMA PlacedFields ==
    ASSUME NEW w \in Writer, NEW n \in Nat, NEW d \in Nat
    PROVE  /\ Placed(w, n, d) \in Writer
           /\ Placed(w, n, d).blk = n /\ Placed(w, n, d).deadline = d
           /\ Placed(w, n, d).offset = w.offset /\ Placed(w, n, d).stream = w.stream
  BY Zenon DEF Writer, Placed

\* A new block's writer starts at its beginning, with the caller's deadline.
LEMMA FollowingFields ==
    ASSUME Types
    PROVE  \E w \in Writer :
               /\ w = Placed(NoWriter, Len(blocks) + 1, deadline)
               /\ w.blk = Len(blocks) + 1 /\ w.offset = 0
               /\ w.stream = "none" /\ w.deadline = deadline
<1>1. NoWriter \in Writer /\ NoWriter.offset = 0 /\ NoWriter.stream = "none"
  BY DEF NoWriter, Writer
<1>2. Len(blocks) + 1 \in Nat /\ deadline \in Nat
  BY DEF Types
<1>3. PICK n \in Nat, d \in Nat, v \in Writer :
          n = Len(blocks) + 1 /\ d = deadline /\ v = NoWriter
  BY <1>1, <1>2, Zenon
<1>4. /\ Placed(v, n, d) \in Writer
      /\ Placed(v, n, d).blk = n /\ Placed(v, n, d).deadline = d
      /\ Placed(v, n, d).offset = v.offset /\ Placed(v, n, d).stream = v.stream
  BY PlacedFields
<1>5. v.offset = 0 /\ v.stream = "none"
  BY <1>1, <1>3
<1>6. QED
  BY <1>3, <1>4, <1>5, Zenon

\* A writer that stays at its place in its block.
LEMMA WriterStep ==
    ASSUME IndInv, NEW w \in Writer, bw' = w, w.blk = bw.blk, w.offset = bw.offset,
           w.stream = bw.stream \/ w.stream = "open",
           bw.blk # 0 => w.deadline = deadline' /\ (w.stream = "open" => w.conn = deadline'),
           deadline' \in Nat, pc # "add", pc' \in {pc, "idle"}, op' \in {op, "none"}, ControlOK',
           clean' => clean, lastClose' = lastClose,
           UNCHANGED <<want, open, closed, prev, file, blocks, accepted>>
    PROVE  IndInv'
<1>a. /\ Types /\ ControlOK /\ FileOK /\ FullOK /\ PrevOK /\ Uncommitted /\ CleanOK
      /\ BlocksFilledInOrder /\ CommittedLengthRight /\ DeadlineApplied
  BY DEF IndInv
<1> USE <1>a
<1>1. Types'
  BY DEF Types
<1>2. FileOK'
  BY DEF FileOK
<1>3. FullOK' /\ PrevOK'
  BY DEF FullOK, PrevOK, AtEnd, ControlOK
<1>4. CleanOK'
  <2>1. Settled => Settled'
    BY DEF Settled, AllCommitted, ControlOK
  <2>2. QED
    BY <2>1 DEF CleanOK
<1>5. DeadlineApplied'
  BY DEF DeadlineApplied
<1>6. QED
  BY <1>1, <1>2, <1>3, <1>4, <1>5, BlocksKept DEF IndInv

\* SetDeadline reaches the connection that there is, and the one to come.
LEMMA SetDeadlineStep ==
    ASSUME IndInv, NEW t \in Deadlines, SetDeadline(t)
    PROVE  IndInv'
<1>a. /\ Types /\ ControlOK /\ FileOK /\ FullOK /\ PrevOK /\ Uncommitted /\ CleanOK
      /\ BlocksFilledInOrder /\ CommittedLengthRight /\ DeadlineApplied
  BY DEF IndInv
<1> USE <1>a
<1>1. /\ pc = "idle" /\ pc' = "idle" /\ op' = "none" /\ deadline' = t /\ t \in Nat
      /\ UNCHANGED <<want, open, closed, prev, file, blocks, accepted>>
  BY DEF SetDeadline, CanCall, Return
<1>2. op # "close" /\ bw \in Writer
  BY <1>1 DEF ControlOK, Types
<1>3. (clean' => clean) /\ lastClose' = lastClose
  BY <1>2, ReturnKeeps, Zenon DEF SetDeadline
<1>4. PICK w \in Writer :
          /\ bw' = w /\ w.blk = bw.blk /\ w.offset = bw.offset /\ w.stream = bw.stream
          /\ bw.blk # 0 => w.deadline = t /\ (w.stream = "open" => w.conn = t)
  <2>1. CASE bw.blk = 0
    BY <1>2, <2>1 DEF SetDeadline
  <2>2. CASE bw.blk # 0
    <3> DEFINE w == [bw EXCEPT !.deadline = t, !.conn = IF bw.stream = "open" THEN t ELSE @]
    <3>1. bw' = w /\ w \in Writer
      BY <1>1, <1>2, <2>2, WriterFields, Zenon DEF SetDeadline
    <3>2. /\ w.blk = bw.blk /\ w.offset = bw.offset /\ w.stream = bw.stream
          /\ w.deadline = t /\ (w.stream = "open" => w.conn = t)
      BY <1>2 DEF Writer
    <3> HIDE DEF w
    <3>3. QED
      BY <3>1, <3>2
  <2>3. QED
    BY <2>1, <2>2
<1>5. ControlOK'
  BY <1>1, <1>3, <1>4 DEF ControlOK, Opening
<1>6. QED
  BY <1>1, <1>3, <1>4, <1>5, WriterStep DEF IndInv

\* A connection is made with the deadline that was set before.
LEMMA ConnectNextStep ==
    ASSUME IndInv, ConnectNext
    PROVE  IndInv'
<1>a. /\ Types /\ ControlOK /\ FileOK /\ FullOK /\ PrevOK /\ Uncommitted /\ CleanOK
      /\ BlocksFilledInOrder /\ CommittedLengthRight /\ DeadlineApplied
  BY DEF IndInv
<1> USE <1>a
<1>1. /\ pc = "loop" /\ pc' \in {"loop", "idle"} /\ bw.stream = "none" /\ bw.blk # 0
      /\ op' \in {op, "none"} /\ (pc' = "idle" <=> op' = "none") /\ op = "write"
      /\ UNCHANGED <<want, open, closed, deadline, prev, file, blocks, accepted>>
  BY DEF ConnectNext, Return, Goto, ControlOK
<1>2. bw \in Writer /\ bw.deadline = deadline /\ deadline \in Nat
  BY <1>1 DEF Types, DeadlineApplied
<1>3. (clean' => clean) /\ lastClose' = lastClose
  BY <1>1, ReturnKeeps, Zenon DEF ConnectNext
<1>4. PICK w \in Writer :
          /\ bw' = w /\ w.blk = bw.blk /\ w.offset = bw.offset
          /\ w.stream = bw.stream \/ w.stream = "open"
          /\ w.deadline = deadline /\ (w.stream = "open" => w.conn = deadline)
  <2>1. CASE bw' = bw
    BY <1>1, <1>2, <2>1
  <2>2. CASE bw' # bw
    <3> DEFINE w == [bw EXCEPT !.stream = "open", !.conn = bw.deadline]
    <3>1. bw' = w /\ w \in Writer
      BY <1>2, <2>2, WriterFields, Zenon DEF ConnectNext
    <3>2. /\ w.blk = bw.blk /\ w.offset = bw.offset /\ w.stream = "open"
          /\ w.deadline = deadline /\ w.conn = deadline
      BY <1>2 DEF Writer
    <3> HIDE DEF w
    <3>3. QED
      BY <3>1, <3>2
  <2>3. QED
    BY <2>1, <2>2
<1>5. ControlOK'
  BY <1>1, <1>3, <1>4 DEF ControlOK, Opening
<1>6. QED
  BY <1>1, <1>2, <1>3, <1>4, <1>5, WriterStep DEF IndInv

\* finalizeBlock drops the block writer once the namenode has answered.
LEMMA UpdateBlockStep ==
    ASSUME IndInv, UpdateBlock
    PROVE  IndInv'
<1>a. /\ Types /\ ControlOK /\ FileOK /\ FullOK /\ PrevOK /\ Uncommitted /\ CleanOK
      /\ BlocksFilledInOrder /\ CommittedLengthRight /\ DeadlineApplied
  BY DEF IndInv
<1> USE <1>a
<1>1. /\ pc = "update" /\ bw.blk # 0 /\ op \in {"write", "close"}
      /\ UNCHANGED <<want, open, closed, deadline, prev, file, blocks, accepted>>
  BY DEF UpdateBlock, ControlOK
<1>2. bw \in Writer /\ bw'.blk \in {0, bw.blk}
  BY DEF UpdateBlock, NoWriter, Types
<1>3. CASE bw' = NoWriter /\ Goto(IF op = "close" THEN "complete" ELSE "add")
  <2>1. /\ pc' = (IF op = "close" THEN "complete" ELSE "add") /\ op' = op
        /\ clean' = clean /\ lastClose' = lastClose /\ bw'.blk = 0 /\ bw' \in Writer
    BY <1>3 DEF Goto, NoWriter, Writer
  <2>2. Types' /\ ControlOK' /\ FileOK' /\ DeadlineApplied'
    BY <1>1, <2>1 DEF Types, ControlOK, FileOK, DeadlineApplied, Opening
  <2>3. op = "write" => AtEnd
    BY <1>1 DEF FullOK, AtEnd, BlocksFilledInOrder
  <2>4. FullOK' /\ PrevOK'
    BY <1>1, <2>1, <2>3 DEF FullOK, PrevOK, AtEnd, ControlOK
  <2>5. CleanOK'
    BY <1>1, <2>1 DEF CleanOK, Settled, ControlOK
  <2>6. QED
    BY <1>1, <2>1, <2>2, <2>4, <2>5, BlocksKept DEF IndInv
<1>4. CASE Return("error") /\ UNCHANGED bw
  <2>1. pc' = "idle" /\ op' = "none" /\ ~clean' /\ lastClose' # "ok"
    BY <1>1, <1>4, Zenon DEF Return, ControlOK
  <2>2. Types' /\ ControlOK' /\ FileOK' /\ DeadlineApplied'
    BY <1>1, <1>4, <2>1, Zenon DEF Types, ControlOK, FileOK, DeadlineApplied, Opening
  <2>3. FullOK'
    BY <1>1, <1>4, <2>1, Zenon DEF FullOK, AtEnd
  <2>4. PrevOK' /\ CleanOK'
    BY <2>1, Zenon DEF PrevOK, CleanOK
  <2>5. QED
    BY <1>1, <1>4, <2>1, <2>2, <2>3, <2>4, BlocksKept, Zenon DEF IndInv
<1>5. QED
  BY <1>3, <1>4 DEF IndInv, UpdateBlock

-----------------------------------------------------------------------------
(* The steps that change the blocks.                                       *)

StoredAs(bs, k, s) == [bs EXCEPT ![k].stored = s]

GivenMore(bs, k, g) == [bs EXCEPT ![k].given = @ + g]

\* BlockWriter.Close: the stored bytes of a block change, and nothing else of it.
LEMMA StoredFields ==
    ASSUME NEW bs \in Seq(Block), NEW k \in 1 .. Len(bs), NEW s \in Nat
    PROVE  \E cs \in Seq(Block) :
               /\ cs = StoredAs(bs, k, s)
               /\ Len(cs) = Len(bs)
               /\ \A i \in 1 .. Len(bs) :
                      /\ cs[i].given = bs[i].given /\ cs[i].len = bs[i].len
                      /\ cs[i].committed = bs[i].committed
                      /\ i # k => cs[i] = bs[i]
               /\ cs[k].stored = s
<1> DEFINE b == [bs[k] EXCEPT !.stored = s]
           cs == [bs EXCEPT ![k] = b]
<1>1. bs[k] \in Block
  OBVIOUS
<1>2. /\ b \in Block /\ b.given = bs[k].given /\ b.len = bs[k].len
      /\ b.committed = bs[k].committed /\ b.stored = s
  BY <1>1, Zenon DEF Block
<1>3. StoredAs(bs, k, s) = cs
  BY DEF StoredAs
<1> HIDE DEF b
<1>4. /\ cs \in Seq(Block) /\ Len(cs) = Len(bs) /\ cs[k] = b
      /\ \A i \in 1 .. Len(bs) : i # k => cs[i] = bs[i]
  BY <1>2
<1> HIDE DEF cs
<1>5. QED
  BY <1>2, <1>3, <1>4

\* The same of the bytes given to a block.
LEMMA GivenFields ==
    ASSUME NEW bs \in Seq(Block), NEW k \in 1 .. Len(bs), NEW g \in Nat
    PROVE  \E cs \in Seq(Block) :
               /\ cs = GivenMore(bs, k, g)
               /\ Len(cs) = Len(bs)
               /\ \A i \in 1 .. Len(bs) : i # k => cs[i] = bs[i]
               /\ cs[k].given = bs[k].given + g /\ cs[k].stored = bs[k].stored
               /\ cs[k].len = bs[k].len /\ cs[k].committed = bs[k].committed
<1> DEFINE n == bs[k].given + g
           b == [bs[k] EXCEPT !.given = n]
           cs == [bs EXCEPT ![k] = b]
<1>0. bs[k] \in Block
  OBVIOUS
<1>1. bs[k] \in Block /\ n \in Nat
  BY <1>0 DEF Block
<1>2. /\ b \in Block /\ b.given = bs[k].given + g /\ b.len = bs[k].len
      /\ b.committed = bs[k].committed /\ b.stored = bs[k].stored
  <2> HIDE DEF n
  <2>1. /\ b \in Block /\ b.given = n /\ b.len = bs[k].len
        /\ b.committed = bs[k].committed /\ b.stored = bs[k].stored
    BY <1>1, Zenon DEF Block
  <2>2. QED
    BY <2>1 DEF n
<1>3. GivenMore(bs, k, g) = cs
  BY DEF GivenMore
<1> HIDE DEF b
<1>4. /\ cs \in Seq(Block) /\ Len(cs) = Len(bs) /\ cs[k] = b
      /\ \A i \in 1 .. Len(bs) : i # k => cs[i] = bs[i]
  BY <1>2
<1> HIDE DEF cs
<1>5. QED
  BY <1>2, <1>3, <1>4

\* The namenode commits the block that a request names.
LEMMA CommittedFields ==
    ASSUME Types, NEW p \in [blk : Nat, len : Nat]
    PROVE  \E cs \in Seq(Block) :
               /\ cs = Committed(p)
               /\ Len(cs) = Len(blocks)
               /\ \A i \in 1 .. Len(blocks) :
                      /\ cs[i].given = blocks[i].given /\ cs[i].stored = blocks[i].stored
                      /\ i # p.blk => cs[i] = blocks[i]
                      /\ i = p.blk => cs[i].len = p.len /\ cs[i].committed = TRUE
<1> DEFINE b(i) == [blocks[i] EXCEPT !.len = p.len, !.committed = TRUE]
           cs == Committed(p)
<1>1. blocks \in Seq(Block) /\ DOMAIN blocks = 1 .. Len(blocks) /\ p.len \in Nat
  BY DEF Types
<1>2. \A x \in Block :
          LET y == [x EXCEPT !.len = p.len, !.committed = TRUE]
          IN  /\ y \in Block /\ y.given = x.given /\ y.stored = x.stored
              /\ y.len = p.len /\ y.committed = TRUE
  BY <1>1, Zenon DEF Block
<1>3. \A i \in 1 .. Len(blocks) :
          /\ b(i) \in Block /\ b(i).given = blocks[i].given /\ b(i).stored = blocks[i].stored
          /\ b(i).len = p.len /\ b(i).committed = TRUE
  <2> TAKE i \in 1 .. Len(blocks)
  <2>1. blocks[i] \in Block
    BY <1>1
  <2>2. QED
    BY <1>2, <2>1, Zenon
<1>4. cs = [i \in 1 .. Len(blocks) |-> IF i = p.blk THEN b(i) ELSE blocks[i]]
  BY <1>1 DEF Committed
<1> HIDE DEF b
<1>5. cs \in Seq(Block) /\ Len(cs) = Len(blocks)
  BY <1>1, <1>3, <1>4
<1>6. \A i \in 1 .. Len(blocks) : cs[i] = IF i = p.blk THEN b(i) ELSE blocks[i]
  BY <1>4
<1> HIDE DEF cs
<1>7. QED
  BY <1>3, <1>5, <1>6 DEF cs

\* A block writer that has a place is at the end of the last block.
LEMMA WriterAtLast ==
    ASSUME IndInv, bw.blk # 0
    PROVE  /\ bw.blk = Len(blocks) /\ bw.blk \in 1 .. Len(blocks) /\ blocks[bw.blk] \in Block
           /\ bw.offset = blocks[bw.blk].given /\ blocks[bw.blk].given <= BlockSize
           /\ bw.offset \in Nat /\ blocks # <<>>
           /\ accepted = (Len(blocks) - 1) * BlockSize + blocks[Len(blocks)].given
<1>1. bw.blk = Len(blocks) /\ bw.blk \in Nat /\ bw.offset \in Nat /\ blocks \in Seq(Block)
  BY DEF IndInv, Types, Writer, BlocksFilledInOrder
<1>2. bw.blk \in 1 .. Len(blocks) /\ blocks # <<>>
  BY <1>1
<1>3. blocks[bw.blk] \in Block
  BY <1>1, <1>2
<1>4. QED
  BY <1>1, <1>2, <1>3 DEF IndInv, BlocksFilledInOrder

\* The bytes that BlockWriter.Write takes fit into the block.
LEMMA StreamWriteStep ==
    ASSUME IndInv, StreamWrite
    PROVE  IndInv'
<1>a. /\ Types /\ ControlOK /\ FileOK /\ FullOK /\ PrevOK /\ Uncommitted /\ CleanOK
      /\ BlocksFilledInOrder /\ CommittedLengthRight /\ DeadlineApplied
  BY DEF IndInv
<1> USE <1>a
<1>1. /\ pc = "loop" /\ op = "write" /\ open /\ ~closed /\ file = "open" /\ lastClose # "ok"
      /\ bw.blk # 0 /\ bw.stream = "open" /\ bw.offset < BlockSize
      /\ UNCHANGED <<open, closed, deadline, prev, file>>
  BY DEF StreamWrite, ControlOK, FileOK
<1>2. bw \in Writer /\ blocks \in Seq(Block) /\ want \in Nat /\ accepted \in Nat
  BY DEF Types
<1>3. PICK r \in Nat : /\ r = Room /\ r <= want /\ bw.offset + r <= BlockSize
                       /\ r < want => bw.offset + r = BlockSize
  <2>1. bw.offset \in Nat
    BY <1>1, WriterAtLast
  <2>2. \A a, o \in Nat : o < BlockSize =>
            LET m == Min(a, BlockSize - o)
            IN  m \in Nat /\ m <= a /\ o + m <= BlockSize /\ (m < a => o + m = BlockSize)
    BY DEF Min
  <2>3. QED
    BY <1>1, <1>2, <2>1, <2>2, Zenon DEF Room
<1>4. PICK cs \in Seq(Block) :
          /\ blocks' = cs /\ Len(cs) = Len(blocks)
          /\ \A i \in 1 .. Len(blocks) : i # bw.blk => cs[i] = blocks[i]
          /\ cs[bw.blk].given = blocks[bw.blk].given + r
          /\ cs[bw.blk].committed = blocks[bw.blk].committed
  <2>1. blocks' = GivenMore(blocks, bw.blk, r)
    BY <1>3 DEF StreamWrite, GivenMore
  <2>2. bw.blk \in 1 .. Len(blocks)
    BY <1>1, WriterAtLast
  <2>3. PICK cs \in Seq(Block) :
            /\ cs = GivenMore(blocks, bw.blk, r) /\ Len(cs) = Len(blocks)
            /\ \A i \in 1 .. Len(blocks) : i # bw.blk => cs[i] = blocks[i]
            /\ cs[bw.blk].given = blocks[bw.blk].given + r
            /\ cs[bw.blk].committed = blocks[bw.blk].committed
    BY <1>2, <2>2, GivenFields
  <2>4. QED
    BY <2>1, <2>3, Zenon
<1>5. PICK w \in Writer :
          /\ bw' = w /\ w.blk = bw.blk /\ w.offset = bw.offset + r /\ w.stream = bw.stream
          /\ w.deadline = bw.deadline /\ w.conn = bw.conn
  <2>1. PICK o \in Nat : o = bw.offset + r
    BY <1>1, WriterAtLast
  <2> DEFINE w == [bw EXCEPT !.offset = o]
  <2>2. bw' = w /\ w \in Writer
    BY <1>2, <1>3, <2>1, WriterFields, Zenon DEF StreamWrite
  <2>3. /\ w.blk = bw.blk /\ w.offset = o /\ w.stream = bw.stream
        /\ w.deadline = bw.deadline /\ w.conn = bw.conn
    BY <1>2 DEF Writer
  <2> HIDE DEF w
  <2>4. QED
    BY <2>1, <2>2, <2>3
<1>6. accepted' = accepted + r /\ want' = want - r
  BY <1>3 DEF StreamWrite
<1>7. /\ pc' \in {"start", "loop", "idle"} /\ (pc' = "start" => r < want)
      /\ op' = (IF pc' = "idle" THEN "none" ELSE "write")
  BY <1>1, <1>3 DEF StreamWrite, Return, Goto
<1>8. (clean' => clean) /\ lastClose' = lastClose
  BY <1>1, ReturnKeeps, Zenon DEF StreamWrite
<1>9. Types'
  BY <1>1, <1>2, <1>3, <1>4, <1>5, <1>6 DEF Types
<1>10. ControlOK' /\ FileOK' /\ PrevOK' /\ DeadlineApplied'
  BY <1>1, <1>5, <1>7, <1>8 DEF ControlOK, FileOK, PrevOK, DeadlineApplied, Opening
<1>11. FullOK'
  BY <1>1, <1>3, <1>5, <1>7 DEF FullOK
<1>12. CleanOK'
  <2>1. /\ bw'.blk = Len(blocks) /\ bw'.blk # 0 /\ bw'.stream = "open" /\ blocks' = cs
        /\ Len(cs) = Len(blocks) /\ Len(blocks) \in Nat
        /\ \A i \in 1 .. Len(blocks) - 1 : cs[i] = blocks[i]
    <3>1. bw.blk = Len(blocks) /\ Len(blocks) \in Nat
      BY <1>1, <1>2, WriterAtLast
    <3>2. \A i \in 1 .. Len(blocks) - 1 : i \in 1 .. Len(blocks) /\ i # bw.blk
      BY <3>1
    <3>3. \A i \in 1 .. Len(blocks) - 1 : cs[i] = blocks[i]
      BY <1>4, <3>2
    <3>4. QED
      BY <1>1, <1>4, <1>5, <3>1, <3>3
  <2>3. Settled => Settled'
    BY <1>1, <1>7, <1>8, <2>1 DEF Settled
  <2>2. QED
    BY <1>8, <2>3 DEF CleanOK
<1>13. BlocksFilledInOrder'
  <2>1. /\ bw.blk = Len(blocks) /\ bw.blk \in 1 .. Len(blocks) /\ Len(blocks) \in Nat
        /\ bw.offset = blocks[bw.blk].given /\ bw.offset \in Nat
        /\ accepted = (Len(blocks) - 1) * BlockSize + bw.offset
    BY <1>1, <1>2, WriterAtLast
  <2>2. cs # <<>> /\ cs[Len(cs)].given = bw.offset + r
    BY <1>4, <2>1
  <2>3. \A i \in 1 .. Len(cs) :
            IF i < Len(cs) THEN cs[i].given = BlockSize ELSE cs[i].given <= BlockSize
    BY <1>3, <1>4, <2>1, <2>2 DEF BlocksFilledInOrder
  <2>4. accepted' = (Len(cs) - 1) * BlockSize + cs[Len(cs)].given
    <3>1. PICK m \in Int : m = (Len(blocks) - 1) * BlockSize
      BY <2>1
    <3>2. QED
      BY <1>4, <1>6, <2>1, <2>2, <3>1
  <2>5. QED
    BY <1>4, <1>5, <2>1, <2>2, <2>3, <2>4 DEF BlocksFilledInOrder
<1>14. CommittedLengthRight' /\ Uncommitted'
  BY <1>1, <1>4, <1>5, WriterAtLast, Zenon DEF CommittedLengthRight, Uncommitted
<1>15. QED
  BY <1>9, <1>10, <1>11, <1>12, <1>13, <1>14 DEF IndInv

\* A finish that returns nil has stored the block; finalizeBlock then knows its length.
LEMMA BlockWriterCloseStep ==
    ASSUME IndInv, BlockWriterClose
    PROVE  IndInv'
<1>a. /\ Types /\ ControlOK /\ FileOK /\ FullOK /\ PrevOK /\ Uncommitted /\ CleanOK
      /\ BlocksFilledInOrder /\ CommittedLengthRight /\ DeadlineApplied
  BY DEF IndInv
<1> USE <1>a
<1>1. /\ pc = "finish" /\ op \in {"write", "close"} /\ bw.blk # 0 /\ open
      /\ file = "open" /\ lastClose # "ok"
      /\ UNCHANGED <<want, open, closed, deadline, file, accepted>>
  BY DEF BlockWriterClose, ControlOK, FileOK
<1>2. bw \in Writer /\ blocks \in Seq(Block)
  BY DEF Types
<1>3. PICK w \in Writer :
          /\ bw' = w /\ w.blk = bw.blk /\ w.offset = bw.offset /\ w.stream # "open"
          /\ w.deadline = bw.deadline
  <2> DEFINE w == [bw EXCEPT !.stream = "closed"]
  <2>1. w \in Writer
    BY <1>2, WriterFields, Zenon
  <2>2. /\ w.blk = bw.blk /\ w.offset = bw.offset /\ w.stream = "closed"
        /\ w.deadline = bw.deadline
    BY <1>2 DEF Writer
  <2>3. bw' = w \/ (bw.stream # "open" /\ bw' = bw)
    BY DEF BlockWriterClose
  <2> HIDE DEF w
  <2>4. QED
    BY <1>2, <2>1, <2>2, <2>3
<1>4. PICK cs \in Seq(Block) :
          /\ blocks' = cs /\ Len(cs) = Len(blocks)
          /\ \A i \in 1 .. Len(blocks) :
                 /\ cs[i].given = blocks[i].given /\ cs[i].len = blocks[i].len
                 /\ cs[i].committed = blocks[i].committed
                 /\ i # bw.blk => cs[i] = blocks[i]
          /\ bw.stream = "open" /\ pc' = "update" => cs[bw.blk].stored = cs[bw.blk].given
          /\ bw.stream # "open" => cs = blocks
  <2>1. CASE bw.stream # "open"
    BY <1>2, <2>1 DEF BlockWriterClose
  <2>2. CASE bw.stream = "open"
    <3>1. /\ bw.blk \in 1 .. Len(blocks) /\ blocks[bw.blk].given \in Nat
          /\ blocks[bw.blk].stored \in Nat
      BY <1>1, WriterAtLast DEF Block
    <3>2. PICK s \in Nat : /\ blocks' = StoredAs(blocks, bw.blk, s)
                           /\ pc' = "update" => s = blocks[bw.blk].given
      <4>1. \/ blocks' = StoredAs(blocks, bw.blk, blocks[bw.blk].given)
            \/ /\ \E s \in blocks[bw.blk].stored .. blocks[bw.blk].given :
                       blocks' = StoredAs(blocks, bw.blk, s)
               /\ pc' = "idle"
        BY <2>2, Zenon DEF BlockWriterClose, Return, StoredAs
      <4>2. \A s \in blocks[bw.blk].stored .. blocks[bw.blk].given : s \in Nat
        BY <3>1
      <4>3. CASE blocks' = StoredAs(blocks, bw.blk, blocks[bw.blk].given)
        BY <3>1, <4>3, Zenon
      <4>4. CASE /\ \E s \in blocks[bw.blk].stored .. blocks[bw.blk].given :
                        blocks' = StoredAs(blocks, bw.blk, s)
                 /\ pc' = "idle"
        BY <4>2, <4>4
      <4>5. QED
        BY <4>1, <4>3, <4>4, Zenon
    <3>3. PICK cs \in Seq(Block) :
              /\ cs = StoredAs(blocks, bw.blk, s) /\ Len(cs) = Len(blocks)
              /\ \A i \in 1 .. Len(blocks) :
                     /\ cs[i].given = blocks[i].given /\ cs[i].len = blocks[i].len
                     /\ cs[i].committed = blocks[i].committed
                     /\ i # bw.blk => cs[i] = blocks[i]
              /\ cs[bw.blk].stored = s
      BY <1>2, <3>1, StoredFields
    <3>4. pc' = "update" => cs[bw.blk].stored = cs[bw.blk].given
      BY <3>1, <3>2, <3>3
    <3>5. QED
      BY <2>2, <3>2, <3>3, <3>4, Zenon
  <2>3. QED
    BY <2>1, <2>2
<1>5. \/ /\ pc' = "update" /\ op' = op /\ clean' = clean /\ lastClose' = lastClose
         /\ prev' = FinalizedLength
      \/ /\ pc' = "idle" /\ op' = "none" /\ ~clean' /\ lastClose' # "ok"
         /\ prev' = prev
  <2>1. (Goto("update") /\ prev' = FinalizedLength) \/ (Return("error") /\ prev' = prev)
    BY Zenon DEF BlockWriterClose
  <2>2. QED
    BY <1>1, <2>1, Zenon DEF Return, Goto
<1>6. prev' \in [blk : Nat, len : Nat] /\ (prev' # prev => prev'.blk = bw.blk)
  BY <1>2, <1>5 DEF FinalizedLength, Types, Writer
<1>7. Types'
  BY <1>1, <1>2, <1>3, <1>4, <1>6 DEF Types
<1>8. ControlOK' /\ FileOK' /\ DeadlineApplied'
  BY <1>1, <1>3, <1>5, SMTT(60) DEF ControlOK, FileOK, DeadlineApplied, Opening, FinalizedLength
<1>9. FullOK'
  BY <1>1, <1>3, <1>5, Zenon DEF FullOK
<1>10. PrevOK'
  BY <1>1, <1>4, <1>5, WriterAtLast, SMTT(60) DEF PrevOK, FinalizedLength
<1>11. CleanOK'
  <2>1. /\ bw'.blk = Len(blocks) /\ bw'.blk # 0 /\ blocks' = cs
        /\ Len(cs) = Len(blocks) /\ Len(blocks) \in Nat /\ blocks # <<>>
        /\ \A i \in 1 .. Len(blocks) - 1 : cs[i] = blocks[i]
    <3>1. bw.blk = Len(blocks) /\ blocks # <<>> /\ Len(blocks) \in Nat
      BY <1>1, <1>2, WriterAtLast
    <3>2. \A i \in 1 .. Len(blocks) - 1 : i \in 1 .. Len(blocks) /\ i # bw.blk
      BY <3>1
    <3>3. \A i \in 1 .. Len(blocks) - 1 : cs[i] = blocks[i]
      BY <1>4, <3>2
    <3>4. QED
      BY <1>1, <1>3, <1>4, <3>1, <3>3
  <2>2. clean' /\ Settled => cs[Len(cs)].stored = cs[Len(cs)].given
    BY <1>1, <1>4, <1>5, <2>1, WriterAtLast, Zenon DEF Settled
  <2>3. clean' /\ Settled => Settled'
    BY <1>1, <1>5, <2>1, <2>2, Zenon DEF Settled
  <2>4. QED
    BY <1>5, <2>3, Zenon DEF CleanOK
<1>12. BlocksFilledInOrder' /\ CommittedLengthRight' /\ Uncommitted'
  <2>1. /\ bw.blk = Len(blocks) /\ Len(blocks) \in 1 .. Len(blocks) /\ blocks # <<>>
        /\ Len(blocks) \in Nat /\ bw.offset = blocks[Len(blocks)].given
        /\ accepted = (Len(blocks) - 1) * BlockSize + blocks[Len(blocks)].given
    BY <1>1, <1>2, WriterAtLast
  <2>2. /\ cs # <<>> /\ cs[Len(blocks)].given = blocks[Len(blocks)].given
        /\ cs[Len(blocks)].committed = blocks[Len(blocks)].committed
    BY <1>4, <2>1
  <2>3. \A i \in 1 .. Len(cs) :
            IF i < Len(cs) THEN cs[i].given = BlockSize ELSE cs[i].given <= BlockSize
    BY <1>4 DEF BlocksFilledInOrder
  <2>4. BlocksFilledInOrder'
    BY <1>1, <1>3, <1>4, <2>1, <2>2, <2>3, Zenon DEF BlocksFilledInOrder
  <2>5. CommittedLengthRight'
    BY <1>4 DEF CommittedLengthRight
  <2>6. Uncommitted'
    BY <1>1, <1>3, <1>4, <2>2 DEF Uncommitted
  <2>7. QED
    BY <2>4, <2>5, <2>6
<1>13. QED
  BY <1>7, <1>8, <1>9, <1>10, <1>11, <1>12 DEF IndInv

\* The end of startNewBlock is reached with a full last block.
LEMMA AddBlockStep ==
    ASSUME IndInv, AddBlock
    PROVE  IndInv'
<1>a. /\ Types /\ ControlOK /\ FileOK /\ FullOK /\ PrevOK /\ Uncommitted /\ CleanOK
      /\ BlocksFilledInOrder /\ CommittedLengthRight /\ DeadlineApplied
  BY DEF IndInv
<1> USE <1>a
<1>1. /\ pc = "add" /\ op = "write" /\ open /\ ~closed /\ bw.blk = 0 /\ lastClose # "ok"
      /\ file = "open"
      /\ UNCHANGED <<want, open, closed, deadline, prev, file, accepted>>
  BY DEF AddBlock, ControlOK, FileOK
<1>2. /\ blocks \in Seq(Block) /\ Len(blocks) \in Nat /\ prev \in [blk : Nat, len : Nat]
      /\ bw \in Writer /\ deadline \in Nat
  BY DEF Types
<1>3. PICK cs \in Seq(Block) :
          /\ cs = Committed(prev) /\ Len(cs) = Len(blocks)
          /\ \A i \in 1 .. Len(blocks) :
                 /\ cs[i].given = blocks[i].given /\ cs[i].stored = blocks[i].stored
                 /\ i # prev.blk => cs[i] = blocks[i]
                 /\ i = prev.blk => cs[i].len = prev.len /\ cs[i].committed = TRUE
  BY <1>2, CommittedFields, Zenon
<1>4. PICK ds \in Seq(Block) :
          /\ ds = Append(cs, NewBlock) /\ Len(ds) = Len(blocks) + 1
          /\ \A i \in 1 .. Len(blocks) : ds[i] = cs[i]
          /\ ds[Len(blocks) + 1] = NewBlock
  <2>1. NewBlock \in Block
    BY DEF NewBlock, Block
  <2> HIDE DEF NewBlock
  <2>2. /\ Append(cs, NewBlock) \in Seq(Block) /\ Len(Append(cs, NewBlock)) = Len(cs) + 1
        /\ \A i \in 1 .. Len(cs) : Append(cs, NewBlock)[i] = cs[i]
        /\ Append(cs, NewBlock)[Len(cs) + 1] = NewBlock
    <3>1. cs \in Seq(Block)
      BY <1>3, Zenon
    <3>2. QED
      BY ONLY <2>1, <3>1, AppendParts
  <2>3. QED
    BY <1>3, <2>2, Zenon
<1>5. PICK w \in Writer :
          /\ w = Placed(NoWriter, Len(blocks) + 1, deadline)
          /\ w.blk = Len(blocks) + 1 /\ w.offset = 0 /\ w.stream = "none"
          /\ w.deadline = deadline
  BY FollowingFields
<1>6. \/ /\ Follows(prev) /\ blocks' = ds /\ bw' = w
         /\ pc' = "loop" /\ op' = op /\ clean' = clean /\ lastClose' = lastClose
      \/ /\ pc' = "idle" /\ op' = "none" /\ ~clean' /\ lastClose' = lastClose /\ bw' = bw
         /\ blocks' = blocks \/ (Follows(prev) /\ blocks' = ds)
  <2>1. \/ Follows(prev) /\ blocks' = ds /\ bw' = w /\ Goto("loop")
        \/ /\ Return("error") /\ bw' = bw
           /\ blocks' = blocks \/ (Follows(prev) /\ blocks' = ds)
    BY <1>3, <1>4, <1>5, Zenon DEF AddBlock, Placed
  <2>2. QED
    BY <1>1, <2>1, Zenon DEF Return, Goto
<1>7. Types'
  BY <1>1, <1>2, <1>4, <1>5, <1>6, Zenon DEF Types
<1>8. ControlOK' /\ FileOK' /\ PrevOK' /\ DeadlineApplied'
  <2>1. \/ /\ pc' = "loop" /\ op' = "write" /\ bw'.blk # 0
           /\ bw'.deadline = deadline /\ bw'.stream = "none"
        \/ pc' = "idle" /\ op' = "none" /\ bw' = bw
    BY <1>1, <1>2, <1>5, <1>6
  <2>2. lastClose' = lastClose
    BY <1>6
  <2>3. QED
    BY <1>1, <2>1, <2>2, Zenon DEF ControlOK, FileOK, PrevOK, DeadlineApplied, Opening
<1>9. ds[Len(blocks) + 1].given = 0 /\ ds[Len(blocks) + 1].stored = 0
      /\ ds[Len(blocks) + 1].committed = FALSE
  BY <1>4 DEF NewBlock
<1>10. CASE blocks' = blocks
  <2>1. bw' = bw /\ pc' = "idle" /\ ~clean'
    BY <1>2, <1>4, <1>6, <1>10
  <2>2. FullOK' /\ CleanOK'
    BY <1>1, <1>10, <2>1 DEF FullOK, CleanOK, AtEnd
  <2>3. QED
    BY <1>1, <1>7, <1>8, <1>10, <2>1, <2>2, BlocksKept DEF IndInv
<1>11. CASE blocks' = ds /\ Follows(prev)
  <2>1. AtEnd
    BY <1>1, <1>11 DEF FullOK, Follows
  <2>2. ~AllCommitted(ds)
    BY <1>4, <1>9 DEF AllCommitted
  <2>3. FullOK'
    BY <1>1, <1>2, <1>5, <1>6, <1>11, <2>2 DEF FullOK
  <2>4. Uncommitted'
    BY <1>4, <1>9, <1>11, Zenon DEF Uncommitted
  <2>5. \A i \in 1 .. Len(blocks) : ds[i].committed => ds[i].len = ds[i].given
    BY <1>1, <1>3, <1>4, SMTT(60) DEF PrevOK, CommittedLengthRight
  <2>6. CommittedLengthRight'
    BY <1>2, <1>4, <1>9, <1>11, <2>5 DEF CommittedLengthRight
  <2>7. BlocksFilledInOrder'
    <3>1. \A i \in 1 .. Len(blocks) : ds[i].given = BlockSize
      <4> SUFFICES ASSUME NEW i \in 1 .. Len(blocks) PROVE blocks[i].given = BlockSize
        BY <1>3, <1>4
      <4>1. blocks # <<>>
        BY <1>2
      <4>2. i < Len(blocks) => blocks[i].given = BlockSize
        BY DEF BlocksFilledInOrder
      <4>3. i = Len(blocks) => blocks[i].given = BlockSize
        BY <2>1, <4>1 DEF AtEnd
      <4>4. QED
        BY <1>2, <4>2, <4>3
    <3>2. \A i \in 1 .. Len(ds) :
              IF i < Len(ds) THEN ds[i].given = BlockSize ELSE ds[i].given <= BlockSize
      BY <1>2, <1>4, <1>9, <3>1
    <3>3. accepted = Len(blocks) * BlockSize
      <4>1. CASE blocks = <<>>
        BY <4>1 DEF BlocksFilledInOrder
      <4>2. CASE blocks # <<>>
        <5>1. accepted = (Len(blocks) - 1) * BlockSize + BlockSize
          BY <2>1, <4>2 DEF BlocksFilledInOrder, AtEnd
        <5>2. \A n, b \in Nat : (n - 1) * b + b = n * b
          OBVIOUS
        <5>3. QED
          BY <1>2, <5>1, <5>2
      <4>3. QED
        BY <4>1, <4>2
    <3>4. accepted' = (Len(ds) - 1) * BlockSize + ds[Len(ds)].given
      BY <1>1, <1>2, <1>4, <1>9, <3>3
    <3>5. bw'.blk # 0 => bw'.blk = Len(ds) /\ bw'.offset = ds[bw'.blk].given
      BY <1>1, <1>2, <1>4, <1>5, <1>6, <1>9, Zenon
    <3>6. ds # <<>> /\ blocks' = ds
      BY <1>2, <1>4, <1>11
    <3>7. QED
      BY <3>2, <3>4, <3>5, <3>6 DEF BlocksFilledInOrder
  <2>8. CleanOK'
    <3>1. clean' => clean /\ bw' = w /\ pc' = "loop"
      BY <1>6, Zenon
    <3>2. Settled => \A i \in 1 .. Len(blocks) :
              ds[i].stored = ds[i].given /\ ds[i].committed
      <4> SUFFICES ASSUME Settled, NEW i \in 1 .. Len(blocks)
                   PROVE  ds[i].stored = ds[i].given /\ ds[i].committed
        OBVIOUS
      <4>1. blocks[i].stored = blocks[i].given
        BY <1>1, <1>2 DEF Settled
      <4>2. ds[i].committed
        BY <1>1, <1>2, <1>3, <1>4, SMTT(60) DEF Settled, AllCommitted, PrevOK
      <4>3. QED
        BY <1>3, <1>4, <4>1, <4>2, SMTT(60)
    <3>3. Settled /\ clean' => Settled'
      <4> SUFFICES ASSUME Settled, clean' PROVE Settled'
        OBVIOUS
      <4>1. pc' = "loop" /\ bw'.blk # 0 /\ lastClose' # "ok"
        BY <1>1, <1>2, <1>5, <1>6, <3>1
      <4>2. Len(blocks') = Len(blocks) + 1 /\ blocks' = ds
        BY <1>4, <1>11
      <4>3. ds[Len(ds)].stored = ds[Len(ds)].given
        BY <1>4, <1>9
      <4>4. \A i \in 1 .. Len(ds) - 1 : ds[i].stored = ds[i].given /\ ds[i].committed
        BY <1>2, <1>4, <3>2
      <4>5. QED
        BY <4>1, <4>2, <4>3, <4>4, Zenon DEF Settled
    <3>4. QED
      BY <3>1, <3>3 DEF CleanOK
  <2>9. QED
    BY <1>7, <1>8, <2>3, <2>4, <2>6, <2>7, <2>8 DEF IndInv
<1>12. QED
  BY <1>6, <1>10, <1>11 DEF IndInv

\* The end of Close: the last block is committed, and then the file may be closed.
LEMMA CompleteStep ==
    ASSUME IndInv, Complete
    PROVE  IndInv'
<1>a. /\ Types /\ ControlOK /\ FileOK /\ FullOK /\ PrevOK /\ Uncommitted /\ CleanOK
      /\ BlocksFilledInOrder /\ CommittedLengthRight /\ DeadlineApplied
  BY DEF IndInv
<1> USE <1>a
<1>1. /\ pc = "complete" /\ op = "close" /\ open /\ closed /\ bw.blk = 0
      /\ file = "open" /\ UNCHANGED <<want, open, closed, deadline, bw, prev, accepted>>
      /\ pc' = "idle" /\ op' = "none"
  BY Zenon DEF Complete, ControlOK, FileOK, clientVars, Return
<1>2. /\ blocks \in Seq(Block) /\ Len(blocks) \in Nat /\ prev \in [blk : Nat, len : Nat]
  BY DEF Types
<1>3. PICK cs \in Seq(Block) :
          /\ cs = Committed(prev) /\ Len(cs) = Len(blocks)
          /\ \A i \in 1 .. Len(blocks) :
                 /\ cs[i].given = blocks[i].given /\ cs[i].stored = blocks[i].stored
                 /\ i # prev.blk => cs[i] = blocks[i]
                 /\ i = prev.blk => cs[i].len = prev.len /\ cs[i].committed = TRUE
  BY <1>2, CommittedFields, Zenon
<1>4. /\ \/ blocks' = cs /\ (file' = "closed" => Completable(cs))
         \/ blocks' = blocks /\ file' # "closed"
      /\ file' \in {"open", "closed"}
  BY <1>1, <1>3, Zenon DEF Complete
<1>5. \/ lastClose' = "ok" /\ blocks' = cs /\ (clean' => clean)
      \/ lastClose' # "ok" /\ ~clean'
  <2>1. (Return("ok") /\ blocks' = cs) \/ Return("error")
    BY <1>3, Zenon DEF Complete
  <2>2. Return("error") => lastClose' # "ok" /\ ~clean'
    BY <1>1, Zenon DEF Return
  <2>3. Return("ok") => lastClose' = "ok"
    BY <1>1 DEF Return
  <2>4. Return("ok") => (clean' => clean)
    BY ReturnKeeps, Zenon
  <2>5. QED
    BY <2>1, <2>2, <2>3, <2>4, Zenon
<1>6. Types' /\ DeadlineApplied'
  BY <1>1, <1>3, <1>4, Zenon DEF Types, DeadlineApplied
<1>7. ControlOK' /\ FullOK' /\ PrevOK' /\ Uncommitted'
  BY <1>1, Zenon DEF ControlOK, FullOK, PrevOK, Uncommitted, Opening
<1>8. FileOK'
  BY <1>1, <1>4 DEF FileOK, Completable, AllCommitted
<1>9. /\ DOMAIN cs = 1 .. Len(blocks)
      /\ \A i \in 1 .. Len(blocks) : cs[i].committed => cs[i].len = cs[i].given
  <2>1. DOMAIN cs = 1 .. Len(blocks)
    BY ONLY <1>2, <1>3
  <2>2. ASSUME NEW i \in 1 .. Len(blocks), cs[i].committed
        PROVE  cs[i].len = cs[i].given
    <3>1. CASE i = prev.blk
      <4>1. prev.blk # 0
        BY ONLY <1>2, <3>1, i \in 1 .. Len(blocks)
      <4>2. QED
        BY <1>1, <1>3, <3>1, <4>1, Zenon DEF PrevOK
    <3>2. CASE i # prev.blk
      BY <1>3, <2>2, <3>2, Zenon DEF CommittedLengthRight
    <3>3. QED
      BY <3>1, <3>2
  <2>3. QED
    BY <2>1, <2>2, Zenon
<1>10. CommittedLengthRight'
  <2>1. CASE blocks' = cs
    BY <1>3, <1>9, <2>1, Zenon DEF CommittedLengthRight
  <2>2. CASE blocks' = blocks
    BY <2>2, Zenon DEF CommittedLengthRight
  <2>3. QED
    BY <1>4, <2>1, <2>2, Zenon
<1>11. BlocksFilledInOrder'
  <2>1. CASE blocks' = blocks
    BY <1>1, <2>1, BlocksKept
  <2>2. CASE blocks' = cs
    <3>1. cs = <<>> <=> blocks = <<>>
      BY <1>2, <1>3
    <3>2. blocks # <<>> => cs[Len(cs)].given = blocks[Len(blocks)].given
      BY <1>2, <1>3
    <3>3. \A i \in 1 .. Len(cs) :
              IF i < Len(cs) THEN cs[i].given = BlockSize ELSE cs[i].given <= BlockSize
      BY <1>3, Zenon DEF BlocksFilledInOrder
    <3>4. accepted' = IF cs = <<>> THEN 0
                      ELSE (Len(cs) - 1) * BlockSize + cs[Len(cs)].given
      <4>1. CASE blocks = <<>>
        BY <1>1, <3>1, <4>1 DEF BlocksFilledInOrder
      <4>2. CASE blocks # <<>>
        <5>1. accepted = (Len(blocks) - 1) * BlockSize + blocks[Len(blocks)].given
          BY <4>2 DEF BlocksFilledInOrder
        <5>2. QED
          BY <1>1, <1>3, <3>1, <3>2, <4>2, <5>1
      <4>3. QED
        BY <4>1, <4>2
    <3>5. QED
      BY <1>1, <2>2, <3>3, <3>4, Zenon DEF BlocksFilledInOrder
  <2>3. QED
    BY <1>4, <2>1, <2>2
<1>12. CleanOK'
  <2> SUFFICES ASSUME clean' PROVE Settled'
    BY DEF CleanOK
  <2>1. Settled /\ blocks' = cs
    BY <1>5 DEF CleanOK
  <2>2. \A i \in 1 .. Len(blocks) : cs[i].stored = cs[i].given /\ cs[i].committed
    <3> TAKE i \in 1 .. Len(blocks)
    <3>1. blocks[i].stored = blocks[i].given
      BY <1>1, <1>2, <2>1 DEF Settled
    <3>2. cs[i].committed
      BY <1>1, <1>2, <1>3, <2>1, SMTT(60) DEF Settled, AllCommitted, PrevOK
    <3>3. QED
      BY <1>3, <3>1, <3>2
  <2>3. AllCommitted(cs)
    BY <1>9, <2>2 DEF AllCommitted
  <2>4. \A i \in 1 .. Len(cs) - 1 : cs[i].stored = cs[i].given /\ cs[i].committed
    BY <1>2, <1>3, <2>2
  <2>5. cs # <<>> => cs[Len(cs)].stored = cs[Len(cs)].given
    BY <1>2, <1>3, <2>2
  <2>6. QED
    BY <2>1, <2>3, <2>4, <2>5 DEF Settled
<1>13. QED
  BY <1>6, <1>7, <1>8, <1>10, <1>11, <1>12 DEF IndInv

-----------------------------------------------------------------------------
(* Opening a file.                                                         *)

\* Create finds no file, so there are no blocks and no bytes.
LEMMA CreateFileStep ==
    ASSUME IndInv, CreateFile
    PROVE  IndInv'
<1>a. /\ Types /\ ControlOK /\ FileOK /\ FullOK /\ PrevOK /\ Uncommitted /\ CleanOK
      /\ BlocksFilledInOrder /\ CommittedLengthRight /\ DeadlineApplied
  BY DEF IndInv
<1> USE <1>a
<1>1. /\ pc = "create" /\ op = "create" /\ (open => closed) /\ pc' = "idle" /\ op' = "none"
      /\ UNCHANGED <<want, prev, accepted>>
  BY Zenon DEF CreateFile, ControlOK, Opened, Return, clientVars
<1>2. CASE /\ file = "absent" /\ Opened(NoWriter) /\ file' = "open" /\ blocks' = <<>>
  <2>1. /\ open' = TRUE /\ closed' = FALSE /\ deadline' = 0 /\ bw' = NoWriter
        /\ lastClose' = "none" /\ accepted = 0 /\ blocks' = <<>>
    BY <1>2 DEF Opened, FileOK
  <2>2. bw' \in Writer /\ bw'.blk = 0
    BY <2>1 DEF NoWriter, Writer
  <2>3. Types'
    <3>1. blocks' \in Seq(Block)
      BY <2>1
    <3>2. QED
      BY <1>1, <2>1, <2>2, <3>1, Zenon DEF Types
  <2>4. ControlOK' /\ FileOK' /\ FullOK' /\ PrevOK' /\ Uncommitted' /\ DeadlineApplied'
    BY <1>1, <1>2, <2>1, <2>2, Zenon DEF ControlOK, FileOK, FullOK, PrevOK, Uncommitted,
       DeadlineApplied, Opening, AtEnd
  <2>5. CleanOK'
    BY <1>1, <1>2, <2>1, SMTT(60) DEF CleanOK, Settled, AllCommitted
  <2>6. BlocksFilledInOrder' /\ CommittedLengthRight'
    BY <1>1, <1>2, <2>1, <2>2, SMTT(60) DEF BlocksFilledInOrder, CommittedLengthRight
  <2>7. QED
    BY <2>3, <2>4, <2>5, <2>6 DEF IndInv
<1>3. CASE /\ UNCHANGED <<open, closed, deadline, bw, blocks>>
           /\ (clean' => clean) /\ lastClose' = lastClose
           /\ file' = file \/ (file = "absent" /\ file' = "open")
  <2>1. Types' /\ DeadlineApplied'
    BY <1>1, <1>3 DEF Types, DeadlineApplied
  <2>2. ControlOK' /\ FileOK'
    BY <1>1, <1>3, Zenon DEF ControlOK, FileOK, Opening
  <2>5. FullOK' /\ PrevOK'
    BY <1>1, <1>3, Zenon DEF FullOK, PrevOK
  <2>3. CleanOK'
    BY <1>1, <1>3, Zenon DEF CleanOK, Settled
  <2>4. QED
    BY <1>1, <1>3, <2>1, <2>2, <2>3, <2>5, BlocksKept DEF IndInv
<1>4. CASE Return("exists") \/ Return("error")
  <2>1. (clean' => clean) /\ lastClose' = lastClose
    BY <1>1, <1>4, ReturnKeeps, Zenon
  <2>2. QED
    BY <1>2, <1>3, <2>1, Zenon DEF CreateFile, clientVars
<1>5. QED
  BY <1>2, <1>4, Zenon DEF IndInv, CreateFile

Uncommit(bs, k) == [bs EXCEPT ![k].committed = FALSE]

\* The namenode takes a block under construction again.
LEMMA UncommitFields ==
    ASSUME NEW bs \in Seq(Block), NEW k \in 1 .. Len(bs)
    PROVE  \E cs \in Seq(Block) :
               /\ cs = Uncommit(bs, k)
               /\ Len(cs) = Len(bs)
               /\ \A i \in 1 .. Len(bs) :
                      /\ cs[i].given = bs[i].given /\ cs[i].len = bs[i].len
                      /\ cs[i].stored = bs[i].stored
                      /\ i # k => cs[i] = bs[i]
               /\ cs[k].committed = FALSE
<1> DEFINE b == [bs[k] EXCEPT !.committed = FALSE]
           cs == [bs EXCEPT ![k] = b]
<1>1. bs[k] \in Block
  OBVIOUS
<1>2. /\ b \in Block /\ b.given = bs[k].given /\ b.len = bs[k].len
      /\ b.committed = FALSE /\ b.stored = bs[k].stored
  BY <1>1, Zenon DEF Block
<1>3. Uncommit(bs, k) = cs
  BY DEF Uncommit
<1> HIDE DEF b
<1>4. /\ cs \in Seq(Block) /\ Len(cs) = Len(bs) /\ cs[k] = b
      /\ \A i \in 1 .. Len(bs) : i # k => cs[i] = bs[i]
  BY <1>2
<1> HIDE DEF cs
<1>5. QED
  BY <1>2, <1>3, <1>4, Zenon

\* Append continues the last block where its bytes end, or starts a new one.
LEMMA ReopenedFields ==
    ASSUME IndInv, file = "closed"
    PROVE  \E cs \in Seq(Block), w \in Writer :
               /\ cs = Reopened /\ w = AppendWriter /\ bw.blk = 0
               /\ Len(cs) = Len(blocks)
               /\ \A i \in 1 .. Len(blocks) :
                      /\ cs[i].given = blocks[i].given /\ cs[i].len = blocks[i].len
                      /\ cs[i].stored = blocks[i].stored
                      /\ i < Len(blocks) => cs[i] = blocks[i]
               /\ w.deadline = 0 /\ w.stream = "none"
               /\ \/ w.blk = 0 /\ cs = blocks /\ AtEnd
                  \/ /\ w.blk = Len(blocks) /\ w.blk # 0 /\ blocks # <<>>
                     /\ w.offset = blocks[Len(blocks)].given
                     /\ cs[Len(blocks)].committed = FALSE
<1>1. /\ blocks \in Seq(Block) /\ Len(blocks) \in Nat /\ AllCommitted(blocks)
      /\ CommittedLengthRight
  BY DEF IndInv, Types, FileOK
<1>2. bw.blk = 0
  <2> SUFFICES ASSUME bw.blk # 0 PROVE FALSE
    OBVIOUS
  <2>1. Len(blocks) \in DOMAIN blocks
    BY <1>1, WriterAtLast
  <2>2. blocks[Len(blocks)].committed
    BY <1>1, <2>1 DEF AllCommitted
  <2>3. QED
    BY <2>2 DEF IndInv, Uncommitted
<1>3. NoWriter \in Writer /\ NoWriter.blk = 0 /\ NoWriter.deadline = 0 /\ NoWriter.stream = "none"
  BY DEF NoWriter, Writer
<1>4. CASE blocks = <<>>
  <2>1. AppendWriter = NoWriter /\ Reopened = blocks /\ AtEnd
    BY <1>3, <1>4 DEF AppendWriter, Reopened, AtEnd
  <2>2. QED
    BY <1>1, <1>2, <1>3, <2>1, Zenon
<1>5. CASE blocks # <<>>
  <2>1. Len(blocks) \in 1 .. Len(blocks) /\ Len(blocks) # 0
    BY <1>1, <1>5
  <2>2. /\ blocks[Len(blocks)] \in Block /\ blocks[Len(blocks)].len \in Nat
        /\ blocks[Len(blocks)].len = blocks[Len(blocks)].given
    <3>1. blocks[Len(blocks)] \in Block /\ Len(blocks) \in DOMAIN blocks
      BY <1>1, <2>1
    <3>2. blocks[Len(blocks)].committed
      BY <1>1, <3>1 DEF AllCommitted
    <3>3. QED
      BY <1>1, <2>1, <3>1, <3>2 DEF Block, CommittedLengthRight
  <2>3. CASE blocks[Len(blocks)].len = BlockSize
    <3>1. AppendWriter = NoWriter /\ Reopened = blocks /\ AtEnd
      BY <1>3, <2>2, <2>3 DEF AppendWriter, Reopened, AtEnd
    <3>2. QED
      BY <1>1, <1>2, <1>3, <3>1, Zenon
  <2>4. CASE blocks[Len(blocks)].len # BlockSize
    <3> DEFINE w == [blk |-> Len(blocks), offset |-> blocks[Len(blocks)].len,
                     stream |-> "none", deadline |-> 0, conn |-> 0]
    <3>1. /\ w \in Writer /\ w.blk = Len(blocks) /\ w.offset = blocks[Len(blocks)].given
          /\ w.deadline = 0 /\ w.stream = "none"
      BY <1>1, <2>2, Zenon DEF Writer
    <3>2. AppendWriter = w
      BY <1>5, <2>4, Zenon DEF AppendWriter
    <3> HIDE DEF w
    <3>3. Reopened = Uncommit(blocks, Len(blocks))
      BY <2>1, <3>1, <3>2 DEF Reopened, Uncommit
    <3>4. PICK cs \in Seq(Block) :
              /\ cs = Uncommit(blocks, Len(blocks)) /\ Len(cs) = Len(blocks)
              /\ \A i \in 1 .. Len(blocks) :
                     /\ cs[i].given = blocks[i].given /\ cs[i].len = blocks[i].len
                     /\ cs[i].stored = blocks[i].stored
                     /\ i # Len(blocks) => cs[i] = blocks[i]
              /\ cs[Len(blocks)].committed = FALSE
      BY <1>1, <2>1, UncommitFields, Zenon
    <3>5. QED
      BY <1>1, <1>2, <1>5, <2>1, <3>1, <3>2, <3>3, <3>4, SMTT(60)
  <2>5. QED
    BY <2>3, <2>4, Zenon
<1>6. QED
  BY <1>4, <1>5, Zenon

\* Append opens a file whose blocks are all committed; without an answer it is
\* left open, with no FileWriter.
LEMMA AppendFileStep ==
    ASSUME IndInv, AppendFile
    PROVE  IndInv'
<1>a. /\ Types /\ ControlOK /\ FileOK /\ FullOK /\ PrevOK /\ Uncommitted /\ CleanOK
      /\ BlocksFilledInOrder /\ CommittedLengthRight /\ DeadlineApplied
  BY DEF IndInv
<1> USE <1>a
<1>1. /\ pc = "append" /\ op \in {"create", "append"} /\ (open => closed) /\ pc' = "idle"
      /\ op' = "none" /\ UNCHANGED <<want, prev, accepted>>
  BY Zenon DEF AppendFile, ControlOK, Opening, Opened, Return, clientVars
<1>2. /\ blocks \in Seq(Block) /\ Len(blocks) \in Nat
  BY DEF Types
<1>3. CASE /\ Return("error")
           /\ UNCHANGED <<open, closed, deadline, bw, file, blocks>>
  <2>1. (clean' => clean) /\ lastClose' = lastClose
    BY <1>1, <1>3, ReturnKeeps, Zenon
  <2>2. Types' /\ DeadlineApplied'
    BY <1>1, <1>3 DEF Types, DeadlineApplied
  <2>3. ControlOK' /\ FileOK'
    BY <1>1, <1>3, <2>1, Zenon DEF ControlOK, FileOK, Opening
  <2>4. FullOK' /\ PrevOK'
    BY <1>1, <1>3, Zenon DEF FullOK, PrevOK
  <2>5. CleanOK'
    BY <1>1, <1>3, <2>1, Zenon DEF CleanOK, Settled
  <2>6. QED
    BY <1>1, <1>3, <2>2, <2>3, <2>4, <2>5, BlocksKept DEF IndInv
<1>4. CASE /\ file = "closed" /\ file' = "open" /\ blocks' = Reopened
           /\ clean' = clean /\ lastClose' = "none"
           /\ \/ /\ bw' = AppendWriter /\ deadline' = 0 /\ open' = TRUE /\ closed' = FALSE
              \/ UNCHANGED <<open, closed, deadline, bw>>
  <2>1. PICK cs \in Seq(Block), w \in Writer :
               /\ cs = Reopened /\ w = AppendWriter /\ bw.blk = 0
               /\ Len(cs) = Len(blocks)
               /\ \A i \in 1 .. Len(blocks) :
                      /\ cs[i].given = blocks[i].given /\ cs[i].len = blocks[i].len
                      /\ cs[i].stored = blocks[i].stored
                      /\ i < Len(blocks) => cs[i] = blocks[i]
               /\ w.deadline = 0 /\ w.stream = "none"
               /\ \/ w.blk = 0 /\ cs = blocks /\ AtEnd
                  \/ /\ w.blk = Len(blocks) /\ w.blk # 0 /\ blocks # <<>>
                     /\ w.offset = blocks[Len(blocks)].given
                     /\ cs[Len(blocks)].committed = FALSE
    BY <1>4, ReopenedFields, Zenon
  <2>2. /\ blocks' = cs /\ file = "closed" /\ file' = "open" /\ lastClose' = "none"
        /\ \/ bw' = w /\ deadline' = 0 /\ open' = TRUE /\ closed' = FALSE
           \/ bw' = bw /\ UNCHANGED <<open, closed, deadline>>
    BY <1>4, <2>1, Zenon
  <2>3. bw \in Writer /\ AllCommitted(blocks) /\ CommittedLengthRight
    BY <2>2 DEF Types, FileOK
  <2>4. Types'
    <3>1. blocks' \in Seq(Block) /\ bw' \in Writer
      BY <2>2, <2>3
    <3>2. deadline' \in Nat
      BY <2>2 DEF Types
    <3>3. open' \in BOOLEAN /\ closed' \in BOOLEAN
      BY <2>2, Zenon DEF Types
    <3>4. QED
      BY <1>1, <3>1, <3>2, <3>3 DEF Types
  <2>5. ControlOK' /\ FileOK' /\ PrevOK' /\ DeadlineApplied'
    BY <1>1, <2>1, <2>2, Zenon DEF ControlOK, FileOK, PrevOK, DeadlineApplied, Opening
  <2>6. FullOK'
    <3>1. open' /\ ~closed' /\ bw'.blk = 0 => AtEnd'
      BY <1>1, <2>1, <2>2, Zenon DEF AtEnd
    <3>2. QED
      BY <1>1, <3>1, Zenon DEF FullOK
  <2>7. Uncommitted'
    BY <2>1, <2>2 DEF Uncommitted
  <2>8. \A i \in 1 .. Len(blocks) : cs[i].len = cs[i].given
    <3> TAKE i \in 1 .. Len(blocks)
    <3>1. blocks[i].committed
      BY <1>2, <2>3 DEF AllCommitted
    <3>2. QED
      BY <2>1, <2>3, <3>1 DEF CommittedLengthRight
  <2>9. CommittedLengthRight'
    BY <2>1, <2>2, <2>8, Zenon DEF CommittedLengthRight
  <2>10. BlocksFilledInOrder'
    <3>1. (cs = <<>> <=> blocks = <<>>)
          /\ (blocks # <<>> => cs[Len(cs)].given = blocks[Len(blocks)].given)
      BY <1>2, <2>1, SMTT(60)
    <3>2. \A i \in 1 .. Len(cs) :
              IF i < Len(cs) THEN cs[i].given = BlockSize ELSE cs[i].given <= BlockSize
      BY <2>1 DEF BlocksFilledInOrder
    <3>3. accepted' = IF cs = <<>> THEN 0
                      ELSE (Len(cs) - 1) * BlockSize + cs[Len(cs)].given
      <4>1. CASE blocks = <<>>
        BY <1>1, <3>1, <4>1 DEF BlocksFilledInOrder
      <4>2. CASE blocks # <<>>
        <5>1. accepted = (Len(blocks) - 1) * BlockSize + blocks[Len(blocks)].given
          BY <4>2 DEF BlocksFilledInOrder
        <5>2. QED
          BY <1>1, <2>1, <3>1, <4>2, <5>1, Zenon
      <4>3. QED
        BY <4>1, <4>2
    <3>4. bw'.blk # 0 => bw'.blk = Len(cs) /\ bw'.offset = cs[bw'.blk].given
      BY <1>2, <2>1, <2>2, <3>1, Zenon
    <3>5. QED
      BY <2>2, <3>2, <3>3, <3>4, Zenon DEF BlocksFilledInOrder
  <2>11. CleanOK'
    <3>1. Settled => \A i \in 1 .. Len(cs) - 1 : cs[i].stored = cs[i].given /\ cs[i].committed
      BY <1>2, <2>1, SMTT(60) DEF Settled
    <3>2. Settled /\ cs # <<>> => cs[Len(cs)].stored = cs[Len(cs)].given
      BY <1>2, <2>1 DEF Settled
    <3>3. open' /\ ~closed' /\ bw'.blk = 0 => AllCommitted(cs)
      BY <1>1, <2>1, <2>2, <2>3, Zenon
    <3>4. Settled => Settled'
      BY <1>1, <2>2, <3>1, <3>2, <3>3, Zenon DEF Settled
    <3>5. QED
      BY <1>4, <3>4 DEF CleanOK
  <2>12. QED
    BY <2>4, <2>5, <2>6, <2>7, <2>9, <2>10, <2>11 DEF IndInv
<1>5. QED
  <2>1. CASE /\ Return("error")
             /\ UNCHANGED <<clientVars, file, blocks>>
    BY <1>3, <2>1 DEF clientVars
  <2>2. CASE /\ file = "closed" /\ file' = "open" /\ blocks' = Reopened
             /\ Opened(AppendWriter)
    BY <1>4, <2>2, Zenon DEF Opened
  <2>3. CASE /\ file = "closed" /\ file' = "open" /\ blocks' = Reopened
             /\ lastClose' = "none" /\ UNCHANGED <<clientVars, clean>>
    BY <1>4, <2>3 DEF clientVars
  <2>4. QED
    BY <2>1, <2>2, <2>3, Zenon DEF AppendFile

-----------------------------------------------------------------------------
(* The theorems.                                                           *)

\* At first there are no blocks and there is no FileWriter.
LEMMA IndInit == Init => IndInv
<1> SUFFICES ASSUME Init PROVE IndInv
  OBVIOUS
<1>1. bw \in Writer /\ bw.blk = 0 /\ prev \in [blk : Nat, len : Nat] /\ blocks \in Seq(Block)
  BY DEF Init, NoWriter, NilBlock, Writer
<1>2. Types /\ ControlOK /\ FileOK /\ FullOK /\ PrevOK /\ Uncommitted /\ DeadlineApplied
  BY <1>1, Zenon DEF Init, Types, ControlOK, FileOK, FullOK, PrevOK, Uncommitted,
     DeadlineApplied,
     Opening, AllCommitted
<1>3. CleanOK
  BY DEF Init, CleanOK, Settled, AllCommitted
<1>4. BlocksFilledInOrder /\ CommittedLengthRight
  BY <1>1 DEF Init, BlocksFilledInOrder, CommittedLengthRight
<1>5. QED
  BY <1>2, <1>3, <1>4 DEF IndInv

\* Every step keeps the invariant.
LEMMA IndStep == IndInv /\ [Next]_vars => IndInv'
<1> SUFFICES ASSUME IndInv, [Next]_vars PROVE IndInv'
  OBVIOUS
<1>1. CASE UNCHANGED vars
  <2>1. UNCHANGED <<pc, op, want, open, closed, deadline, bw, prev, file, blocks, accepted,
                    clean, lastClose>>
    BY <1>1 DEF vars, clientVars
  <2>2. Types' /\ ControlOK' /\ FileOK' /\ FullOK' /\ PrevOK' /\ Uncommitted' /\ DeadlineApplied'
    BY <2>1, Zenon DEF IndInv, Types, ControlOK, FileOK, FullOK, PrevOK, Uncommitted,
       DeadlineApplied,
       AllCommitted, AtEnd
  <2>3. CleanOK'
    BY <2>1, Zenon DEF IndInv, CleanOK, Settled, AllCommitted
  <2>4. QED
    BY <2>1, <2>2, <2>3, BlocksKept DEF IndInv
<1>2. CASE Next
  BY <1>2, OpeningStep, CallingStep, SetDeadlineStep, ConnectNextStep, UpdateBlockStep,
     StreamWriteStep, BlockWriterCloseStep, AddBlockStep, CompleteStep, CreateFileStep,
     AppendFileStep, Zenon DEF Next, CallStep
<1>3. QED
  BY <1>1, <1>2

\* The inductive invariant holds.
THEOREM InvariantHolds == Spec => []IndInv
  BY IndInit, IndStep, PTL DEF Spec

\* Whatever fails, the bytes that Write reported fill the file's blocks one
\* after the other, and the namenode learns the length of each.
THEOREM BlocksSafe == Spec => []BlocksRight
<1>1. IndInv => BlocksRight
  BY DEF IndInv, BlocksRight
<1>2. QED
  BY <1>1, InvariantHolds, PTL

\* A connection in use has the deadline that the caller set last.
THEOREM DeadlineSafe == Spec => []DeadlineApplied
<1>1. IndInv => DeadlineApplied
  BY DEF IndInv
<1>2. QED
  BY <1>1, InvariantHolds, PTL

\* When every call has returned nil, Close included, every byte is stored and
\* every block is committed.
THEOREM CleanSafe == Spec => []CleanCloseStored
<1>1. IndInv => CleanCloseStored
  <2> SUFFICES ASSUME IndInv, clean, lastClose = "ok", NEW i \in 1 .. Len(blocks)
               PROVE  blocks[i].stored = blocks[i].given /\ blocks[i].committed
    BY DEF CleanCloseStored
  <2>1. Settled /\ bw.blk = 0 /\ blocks \in Seq(Block)
    BY DEF IndInv, CleanOK, ControlOK, Types
  <2>2. blocks[i].committed
    BY <2>1, SMTT(30) DEF Settled, AllCommitted
  <2>3. blocks[i].stored = blocks[i].given
    BY <2>1 DEF Settled
  <2>4. QED
    BY <2>2, <2>3
<1>2. QED
  BY <1>1, InvariantHolds, PTL

\* A file that another client created stays that client's.
THEOREM ForeignSafe == Spec => NoClobber
<1>1. IndInv /\ [Next]_vars => [file = "foreign" => file' = "foreign"]_vars
  <2> SUFFICES ASSUME IndInv, Next, file = "foreign"
               PROVE  file' = "foreign"
    BY DEF vars
  <2>1. pc # "complete"
    BY DEF IndInv, ControlOK, FileOK
  <2>2. QED
    BY <2>1, Zenon DEF Next, CallStep, CreateCall, AppendCall, OtherCreates, SetDeadline, Write,
       Flush, Close, GetFileInfo, FetchDefaults, CreateFile, AppendFile, WriteLoop,
       ConnectNext, StreamWrite, StartNewBlock, BlockWriterClose, UpdateBlock, AddBlock,
       Complete
<1>2. QED
  BY <1>1, InvariantHolds, PTL DEF Spec, NoClobber
=============================================================================
