----------------------------- MODULE FileWriter -----------------------------
(***************************************************************************)
(* file_writer.go and internal/rpc/block_writer.go: a file written block   *)
(* by block.  FileWriter.Write cuts its input at block boundaries; at each *)
(* boundary startNewBlock finishes the block's stream, tells the namenode  *)
(* its length and asks for the next block; Close finishes the last block   *)
(* and completes the file.  The file can then be opened again by Append.   *)
(*                                                                         *)
(* The stream of a block is abstracted to what BlockWrite promises of it:  *)
(* a finish that returns nil has stored everything.  Every dial, stream    *)
(* operation and namenode call may fail; a namenode call that fails may    *)
(* have been carried out (the answer was lost).                            *)
(***************************************************************************)
EXTENDS Integers, Sequences

CONSTANTS
    BlockSize,      \* the file's block size
    MaxBytes,       \* bound: bytes the caller writes in all
    MaxSessions,    \* bound: successful opens (Create, then Append)
    MaxFailures,    \* bound: failures of the environment
    Deadlines       \* the deadlines a caller sets (0: none)

ASSUME FileAssumption ==
    /\ BlockSize \in Nat \ {0}
    /\ MaxBytes \in Nat /\ MaxSessions \in Nat /\ MaxFailures \in Nat
    /\ Deadlines \subseteq Nat

VARIABLES
    pc,          \* where the caller is inside a call
    op,          \* the call in progress
    result,      \* what the last call returned
    want,        \* bytes that Write has still to hand to a block
    open,        \* the caller has a FileWriter
    closed,      \* f.closed
    deadline,    \* f.deadline
    bw,          \* f.blockWriter
    prev,        \* previous in startNewBlock, lastBlock in Close
    filesWOpen,  \* Client.filesWOpen
    defaults,    \* whether Client.defaults is cached
    \* the namenode's file, and its blocks with what the datanodes have of them
    file, blocks,
    \* history
    accepted,    \* bytes that Write has reported as written
    clean,       \* every call on a FileWriter of this file has returned nil
    lastClose,   \* what Close returned
    sessions, failures

clientVars == <<want, open, closed, deadline, bw, prev, filesWOpen, defaults>>
vars == <<pc, op, result, clientVars, file, blocks, accepted, clean, lastClose,
          sessions, failures>>

\* given: bytes accepted for the block; stored: bytes its datanodes have;
\* len, committed: what the namenode knows.
Block == [given : Nat, stored : Nat, len : Nat, committed : BOOLEAN]

NewBlock == [given |-> 0, stored |-> 0, len |-> 0, committed |-> FALSE]

\* rpc.BlockWriter; blk = 0 stands for a nil f.blockWriter.
NoWriter == [blk |-> 0, offset |-> 0, stream |-> "none", deadline |-> 0, conn |-> 0]

NilBlock == [blk |-> 0, len |-> 0]

Init ==
    /\ pc = "idle" /\ op = "none" /\ result = "none" /\ want = 0
    /\ open = FALSE /\ closed = FALSE /\ deadline = 0
    /\ bw = NoWriter /\ prev = NilBlock /\ filesWOpen = 0 /\ defaults = FALSE
    /\ file \in {"absent", "foreign"} /\ blocks = <<>>
    /\ accepted = 0 /\ clean = TRUE /\ lastClose = "none"
    /\ sessions = 0 /\ failures = 0

Return(r) ==
    /\ pc' = "idle" /\ op' = "none" /\ result' = r
    /\ clean' = (clean /\ (r = "ok" \/ op \in {"create", "append"}))
    /\ lastClose' = IF op = "close" THEN r ELSE lastClose

Goto(l) == pc' = l /\ UNCHANGED <<op, result, clean, lastClose>>

Fails == failures < MaxFailures /\ failures' = failures + 1

-----------------------------------------------------------------------------
(* Opening a file.                                                         *)

\* The caller opens only one file at a time; a second open follows a Close.
CanOpen == pc = "idle" /\ (open => closed) /\ sessions < MaxSessions

Begin(o, l) == op' = o /\ pc' = l /\ UNCHANGED <<result, clean, lastClose>>

CreateCall ==
    /\ CanOpen /\ Begin("create", "stat")
    /\ UNCHANGED <<clientVars, file, blocks, accepted, sessions, failures>>

AppendCall ==
    /\ CanOpen /\ Begin("append", "stat")
    /\ UNCHANGED <<clientVars, file, blocks, accepted, sessions, failures>>

\* getFileInfo: Create stops if the file is there, Append if it is not.
GetFileInfo ==
    /\ pc = "stat"
    /\ \/ /\ op = "create" /\ file # "absent" /\ Return("exists") /\ UNCHANGED failures
       \/ /\ op = "create" /\ file = "absent" /\ Goto("defaults") /\ UNCHANGED failures
       \/ /\ op = "append" /\ file = "absent" /\ Return("notexist") /\ UNCHANGED failures
       \/ /\ op = "append" /\ file # "absent" /\ Goto("append") /\ UNCHANGED failures
       \/ Fails /\ Return("error")
    /\ UNCHANGED <<clientVars, file, blocks, accepted, sessions>>

FetchDefaults ==
    /\ pc = "defaults"
    /\ \/ defaults' = TRUE /\ Goto("create") /\ UNCHANGED failures
       \/ ~defaults /\ Fails /\ Return("error") /\ UNCHANGED defaults
    /\ UNCHANGED <<want, open, closed, deadline, bw, prev, filesWOpen, file,
                   blocks, accepted, sessions>>

\* A FileWriter is returned to the caller.
Opened(w) ==
    /\ pc' = "idle" /\ op' = "none" /\ result' = "ok"
    /\ open' = TRUE /\ closed' = FALSE /\ deadline' = 0
    /\ bw' = w
    /\ filesWOpen' = filesWOpen + 1
    /\ lastClose' = "none"
    /\ sessions' = sessions + 1
    /\ UNCHANGED <<want, prev, defaults, accepted, clean>>

\* Mutant: the create request asks the namenode to overwrite.
CreateFileOverwrites ==
    /\ pc = "create"
    /\ Opened(NoWriter) /\ file' = "open" /\ blocks' = <<>> /\ UNCHANGED failures

\* CreateFile; CreateFlag 1 does not overwrite.
CreateFile ==
    /\ pc = "create"
    /\ \/ /\ file = "absent"
          /\ Opened(NoWriter)
          /\ file' = "open" /\ blocks' = <<>>
          /\ UNCHANGED failures
       \/ /\ file # "absent"
          /\ Return("exists")
          /\ UNCHANGED <<clientVars, file, blocks, accepted, sessions, failures>>
       \/ /\ Fails /\ Return("error")
          /\ \/ UNCHANGED file
             \/ file = "absent" /\ file' = "open"
          /\ UNCHANGED <<clientVars, blocks, accepted, sessions>>

\* The namenode hands out the last block unless it is full.
AppendWriter ==
    IF blocks = <<>> \/ blocks[Len(blocks)].len = BlockSize THEN NoWriter
    ELSE [blk |-> Len(blocks), offset |-> blocks[Len(blocks)].len,
          stream |-> "none", deadline |-> 0, conn |-> 0]

\* The block that is appended to is under construction again.
Reopened ==
    IF AppendWriter.blk = 0 THEN blocks
    ELSE [blocks EXCEPT ![Len(blocks)].committed = FALSE]

\* Append; if its answer is lost, the file stays open and nobody writes it.
AppendFile ==
    /\ pc = "append"
    /\ \/ /\ file = "closed"
          /\ Opened(AppendWriter)
          /\ file' = "open" /\ blocks' = Reopened
          /\ UNCHANGED failures
       \/ /\ file # "closed"
          /\ Return("error")
          /\ UNCHANGED <<clientVars, file, blocks, accepted, sessions, failures>>
       \/ /\ Fails /\ Return("error")
          /\ UNCHANGED <<clientVars, file, blocks, accepted, sessions>>
       \/ /\ Fails /\ file = "closed"
          /\ pc' = "idle" /\ op' = "none" /\ result' = "error"
          /\ file' = "open" /\ blocks' = Reopened /\ lastClose' = "none"
          /\ UNCHANGED <<clientVars, accepted, clean, sessions>>

\* Another client creates the file first (external).
OtherCreates ==
    /\ file = "absent" /\ op = "create"
    /\ file' = "foreign"
    /\ UNCHANGED <<pc, op, result, clientVars, blocks, accepted, clean, lastClose,
                   sessions, failures>>

-----------------------------------------------------------------------------
(* The calls on an open FileWriter.                                        *)

CanCall == pc = "idle" /\ open

\* FileWriter.SetDeadline and BlockWriter.SetDeadline; finish has closed the
\* connection of a closed stream.
SetDeadline(t) ==
    /\ CanCall
    /\ deadline' = t
    /\ bw' = IF bw.blk = 0 THEN bw
             ELSE [bw EXCEPT !.deadline = t,
                             !.conn = IF bw.stream = "open" THEN t ELSE @]
    /\ Return(IF bw.stream = "closed" THEN "error" ELSE "ok")
    /\ UNCHANGED <<want, open, closed, prev, filesWOpen, defaults, file, blocks,
                   accepted, sessions, failures>>

Write(n) ==
    /\ CanCall
    /\ accepted + n <= MaxBytes
    /\ \/ closed /\ Return("closed") /\ UNCHANGED want
       \/ /\ ~closed
          /\ want' = n
          /\ Begin("write", IF bw.blk = 0 THEN "start" ELSE "loop")
    /\ UNCHANGED <<open, closed, deadline, bw, prev, filesWOpen, defaults, file,
                   blocks, accepted, sessions, failures>>

Min(a, b) == IF a < b THEN a ELSE b

\* BlockWriter.Write: what fits into the block.
Room == Min(want, BlockSize - bw.offset)

\* Mutant: the loop of Write does not start a new block at the end of one.
WriteLoopStuck ==
    /\ pc = "loop"
    /\ \/ want = 0 /\ Return("ok")
       \/ want > 0 /\ bw.offset >= BlockSize /\ Goto("loop")
       \/ want > 0 /\ bw.offset < BlockSize /\ bw.stream = "closed" /\ Return("closed")
    /\ UNCHANGED <<clientVars, file, blocks, accepted, sessions, failures>>

\* One turn of the loop in FileWriter.Write, up to the stream.
WriteLoop ==
    /\ pc = "loop"
    /\ \/ want = 0 /\ Return("ok")
       \/ want > 0 /\ bw.offset >= BlockSize /\ Goto("start")
       \/ want > 0 /\ bw.offset < BlockSize /\ bw.stream = "closed" /\ Return("closed")
    /\ UNCHANGED <<clientVars, file, blocks, accepted, sessions, failures>>

\* connectNext, on the first write to a block.
ConnectNext ==
    /\ pc = "loop" /\ want > 0 /\ bw.offset < BlockSize /\ bw.stream = "none"
    /\ \/ /\ bw' = [bw EXCEPT !.stream = "open", !.conn = bw.deadline]
          /\ Goto("loop") /\ UNCHANGED failures
       \/ Fails /\ Return("error") /\ UNCHANGED bw
    /\ UNCHANGED <<want, open, closed, deadline, prev, filesWOpen, defaults, file,
                   blocks, accepted, sessions>>

\* stream.Write takes all the bytes; an error of its flush comes after that.
StreamWrite ==
    /\ pc = "loop" /\ want > 0 /\ bw.offset < BlockSize /\ bw.stream = "open"
    /\ bw' = [bw EXCEPT !.offset = @ + Room]
    /\ blocks' = [blocks EXCEPT ![bw.blk].given = @ + Room]
    /\ accepted' = accepted + Room
    /\ want' = want - Room
    /\ \/ Goto(IF Room < want THEN "start" ELSE "loop") /\ UNCHANGED failures
       \/ Fails /\ Return("error")
    /\ UNCHANGED <<open, closed, deadline, prev, filesWOpen, defaults, file, sessions>>

\* FileWriter.Flush; the stream flushes what it holds.
Flush ==
    /\ CanCall
    /\ \/ closed /\ Return("closed") /\ UNCHANGED failures
       \/ ~closed /\ Return("ok") /\ UNCHANGED failures
       \/ ~closed /\ bw.stream = "open" /\ Fails /\ Return("error")
       \/ ~closed /\ bw.stream = "closed" /\ Return("error") /\ UNCHANGED failures
    /\ UNCHANGED <<clientVars, file, blocks, accepted, sessions>>

Close ==
    /\ CanCall
    /\ \/ closed /\ Return("closed") /\ UNCHANGED <<closed, filesWOpen, prev>>
       \/ /\ ~closed
          /\ closed' = TRUE
          /\ filesWOpen' = filesWOpen - 1
          /\ prev' = NilBlock
          /\ Begin("close", IF bw.blk = 0 THEN "complete" ELSE "finish")
    /\ UNCHANGED <<want, open, deadline, bw, defaults, file, blocks, accepted,
                   sessions, failures>>

-----------------------------------------------------------------------------
(* startNewBlock and finalizeBlock.                                        *)

StartNewBlock ==
    /\ pc = "start"
    /\ prev' = NilBlock
    /\ Goto(IF bw.blk = 0 THEN "add" ELSE "finish")
    /\ UNCHANGED <<want, open, closed, deadline, bw, filesWOpen, defaults, file,
                   blocks, accepted, sessions, failures>>

\* Mutant: finalizeBlock leaves the length that the namenode gave.
FinalizedLengthOld == [blk |-> bw.blk, len |-> blocks[bw.blk].len]

\* finalizeBlock puts the length into the block that prev points to.
FinalizedLength == [blk |-> bw.blk, len |-> bw.offset]

\* BlockWriter.Close: finish returns nil at once on a stream that is closed.
BlockWriterClose ==
    /\ pc = "finish"
    /\ \/ /\ bw.stream # "open"
          /\ Goto("update") /\ prev' = FinalizedLength
          /\ UNCHANGED <<bw, blocks, failures>>
       \/ /\ bw.stream = "open"
          /\ bw' = [bw EXCEPT !.stream = "closed"]
          /\ \/ /\ blocks' = [blocks EXCEPT ![bw.blk].stored = blocks[bw.blk].given]
                /\ Goto("update") /\ prev' = FinalizedLength
                /\ UNCHANGED failures
             \/ /\ Fails /\ Return("error")
                /\ \E s \in blocks[bw.blk].stored .. blocks[bw.blk].given :
                       blocks' = [blocks EXCEPT ![bw.blk].stored = s]
                /\ UNCHANGED prev
    /\ UNCHANGED <<want, open, closed, deadline, filesWOpen, defaults, file,
                   accepted, sessions>>

\* updateBlockForPipeline, the end of finalizeBlock.
UpdateBlock ==
    /\ pc = "update"
    /\ \/ /\ bw' = NoWriter
          /\ Goto(IF op = "close" THEN "complete" ELSE "add")
          /\ UNCHANGED failures
       \/ Fails /\ Return("error") /\ UNCHANGED bw
    /\ UNCHANGED <<want, open, closed, deadline, prev, filesWOpen, defaults, file,
                   blocks, accepted, sessions>>

\* The namenode (external): a request names the block it follows, which is then
\* committed; without one, all blocks must be committed already.
Committed(p) ==
    [i \in DOMAIN blocks |->
        IF i = p.blk THEN [blocks[i] EXCEPT !.len = p.len, !.committed = TRUE] ELSE blocks[i]]

AllCommitted(bs) == \A i \in DOMAIN bs : bs[i].committed

Follows(p) == IF p.blk = 0 THEN AllCommitted(blocks) ELSE p.blk = Len(blocks)

\* Mutant: the new block writer is not given the deadline.
AddBlockNoDeadline ==
    /\ pc = "add"
    /\ Follows(prev)
    /\ blocks' = Append(Committed(prev), NewBlock)
    /\ bw' = [NoWriter EXCEPT !.blk = Len(blocks) + 1]
    /\ Goto("loop")
    /\ UNCHANGED <<want, open, closed, deadline, prev, filesWOpen, defaults, file,
                   accepted, sessions, failures>>

\* Mutant: the request names no previous block.
AddBlockNoPrevious ==
    /\ pc = "add"
    /\ blocks' = Append(blocks, NewBlock)
    /\ bw' = [NoWriter EXCEPT !.blk = Len(blocks) + 1, !.deadline = deadline]
    /\ Goto("loop")
    /\ UNCHANGED <<want, open, closed, deadline, prev, filesWOpen, defaults, file,
                   accepted, sessions, failures>>

\* addBlock, the end of startNewBlock.
AddBlock ==
    /\ pc = "add"
    /\ \/ /\ Follows(prev)
          /\ blocks' = Append(Committed(prev), NewBlock)
          /\ bw' = [NoWriter EXCEPT !.blk = Len(blocks) + 1, !.deadline = deadline]
          /\ Goto("loop") /\ UNCHANGED failures
       \/ /\ ~Follows(prev)
          /\ Return("error") /\ UNCHANGED <<blocks, bw, failures>>
       \/ /\ Fails /\ Return("error") /\ UNCHANGED bw
          /\ \/ UNCHANGED blocks
             \/ Follows(prev) /\ blocks' = Append(Committed(prev), NewBlock)
    /\ UNCHANGED <<want, open, closed, deadline, prev, filesWOpen, defaults, file,
                   accepted, sessions>>

\* The namenode closes the file once every block is committed and the datanodes
\* report its full length (external).
Completable(bs) == \A i \in DOMAIN bs : bs[i].committed /\ bs[i].stored = bs[i].len

\* complete, the end of Close.  The namenode answers false when it cannot close
\* the file or has not heard of all blocks yet; Close does not look.
Complete ==
    /\ pc = "complete"
    /\ \/ /\ Return("ok") /\ UNCHANGED failures
          /\ blocks' = Committed(prev)
          /\ \/ Completable(blocks') /\ file' = "closed"
             \/ blocks # <<>> /\ UNCHANGED file
       \/ /\ Fails /\ Return("error")
          /\ \/ UNCHANGED <<blocks, file>>
             \/ /\ blocks' = Committed(prev)
                /\ Completable(blocks') /\ file' = "closed"
    /\ UNCHANGED <<clientVars, accepted, sessions>>

-----------------------------------------------------------------------------

CallStep ==
    \/ GetFileInfo \/ FetchDefaults \/ CreateFile \/ AppendFile
    \/ WriteLoop \/ ConnectNext \/ StreamWrite
    \/ StartNewBlock \/ BlockWriterClose \/ UpdateBlock \/ AddBlock \/ Complete

Next ==
    \/ CreateCall \/ AppendCall \/ OtherCreates
    \/ \E t \in Deadlines : SetDeadline(t)
    \/ \E n \in 0 .. MaxBytes : Write(n)
    \/ Flush \/ Close
    \/ CallStep

Spec == Init /\ [][Next]_vars

\* A call in progress goes on: dials, streams and namenode calls answer or fail.
FairSpec == Spec /\ WF_vars(CallStep)

-----------------------------------------------------------------------------
(* Properties.                                                             *)

\* Every variable keeps its type; in particular a file is counted out of
\* filesWOpen once.
TypeOK ==
    /\ pc \in {"idle", "stat", "defaults", "create", "append", "loop", "start",
               "finish", "update", "add", "complete"}
    /\ op \in {"none", "create", "append", "write", "close"}
    /\ result \in {"none", "ok", "error", "closed", "exists", "notexist"}
    /\ want \in Nat /\ open \in BOOLEAN /\ closed \in BOOLEAN /\ deadline \in Nat
    /\ bw \in [blk : 0 .. Len(blocks), offset : Nat, stream : {"none", "open", "closed"},
               deadline : Nat, conn : Nat]
    /\ prev \in [blk : 0 .. Len(blocks), len : Nat]
    /\ filesWOpen \in Nat /\ defaults \in BOOLEAN
    /\ file \in {"absent", "open", "closed", "foreign"}
    /\ blocks \in Seq(Block)
    /\ accepted \in Nat /\ clean \in BOOLEAN
    /\ lastClose \in {"none", "ok", "error", "closed"}
    /\ sessions \in Nat /\ failures \in Nat

\* Whatever fails, the bytes that Write reported fill the blocks one after the
\* other: every block but the last is full, none is overfull, and a block
\* writer always continues the last block where its bytes end.
BlocksFilledInOrder ==
    /\ \A i \in 1 .. Len(blocks) :
           IF i < Len(blocks) THEN blocks[i].given = BlockSize ELSE blocks[i].given <= BlockSize
    /\ accepted = IF blocks = <<>> THEN 0
                  ELSE (Len(blocks) - 1) * BlockSize + blocks[Len(blocks)].given
    /\ bw.blk # 0 => bw.blk = Len(blocks) /\ bw.offset = blocks[bw.blk].given

\* The namenode learns the length that was written, never another one.
CommittedLengthRight ==
    \A i \in 1 .. Len(blocks) : blocks[i].committed => blocks[i].len = blocks[i].given

\* Blocks are filled one after the other and committed with their true lengths.
BlocksRight == BlocksFilledInOrder /\ CommittedLengthRight

\* If every call returned nil, Close included, every byte written is stored and
\* the namenode knows the length of every block.
CleanCloseStored ==
    clean /\ lastClose = "ok" =>
        \A i \in 1 .. Len(blocks) :
            /\ blocks[i].stored = blocks[i].given
            /\ blocks[i].committed

\* The connection in use has the deadline the caller set last, across block
\* boundaries and whether it was set before or after connecting.
DeadlineApplied ==
    bw.blk # 0 =>
        /\ bw.deadline = deadline
        /\ bw.stream = "open" => bw.conn = deadline

\* A file that another client created is never replaced, even if it appears
\* between Create's check and its request.
NoClobber == [][file = "foreign" => file' = "foreign"]_vars

\* Every call returns: the loop of Write moves on at each block boundary.
CallsReturn == pc # "idle" ~> pc = "idle"

\* "Close closes the file, writing any remaining data out to disk and waiting
\* for acknowledgements from the datanodes": a Close that returns nil has
\* stored every byte that Write reported.
CloseMeansStored ==
    lastClose = "ok" =>
        \A i \in 1 .. Len(blocks) : blocks[i].stored = blocks[i].given

\* Does not hold (README, "Where the code differs").
\* "Close closes the file": after a Close that returns nil the file is closed.
CloseMeansClosed == lastClose = "ok" /\ op = "none" => file = "closed"
=============================================================================
