---------------------------- MODULE UploadPipeline ----------------------------
(***************************************************************************)
(* The pipelined SFTP upload of src/sftp/pipeline.rs: the local file is    *)
(* read sequentially, up to `depth` WRITE requests are outstanding, the    *)
(* server may apply them in any order and every acknowledgement triggers   *)
(* at most one refill.                                                     *)
(*                                                                         *)
(* One behaviour is one call of upload().  The remote file is the set of   *)
(* offsets the server has stored (TRUNCATE at open empties it).  The local *)
(* file may be truncated or extended by another program while it is being  *)
(* read: localLen is what a read sees.                                     *)
(***************************************************************************)
EXTENDS Integers, FiniteSets

CONSTANTS
  TotalSize,     \* size of the local file when the transfer was set up
  ChunkSize,     \* chunk_size
  MaxDepth,      \* MAX_PIPELINE_DEPTH
  MaxInflight,   \* MAX_INFLIGHT_BYTES
  MinDepth,      \* the `.max(8)` of the byte-derived depth
  LocalSizes     \* lengths another program may give the local file

ASSUME UploadAssumption ==
  /\ TotalSize \in Nat
  /\ ChunkSize \in Nat \ {0}
  /\ MaxDepth \in Nat \ {0}
  /\ MaxInflight \in Nat
  /\ MinDepth \in Nat \ {0}
  /\ LocalSizes \subseteq Nat

VARIABLES
  pc,         \* where the call is
  offset,     \* read position of the local file, next remote offset
  inflight,   \* outstanding WRITEs, as pieces [off, len]
  applied,    \* outstanding WRITEs the server has carried out
  stored,     \* offsets present in the remote file
  progress,   \* sum of the bytes reported through on_bytes_written
  localLen,   \* current length of the local file
  shrunk,     \* history: the local file was ever shorter than TotalSize
  cancel      \* the shared cancel flag

uploadVars == <<pc, offset, inflight, applied, stored, progress, localLen, shrunk, cancel>>

-----------------------------------------------------------------------------
MinOf(a, b) == IF a <= b THEN a ELSE b
MaxOf(a, b) == IF a >= b THEN a ELSE b

Bytes(p) == p.off .. (p.off + p.len - 1)
Running  == {"open", "seed", "ack", "refill"}
Ended    == {"ok", "failed", "cancelled"}

\* Adaptive depth; zero for an empty file.
Depth ==
  MinOf(MinOf((TotalSize + ChunkSize - 1) \div ChunkSize, MaxDepth),
        MaxOf(MaxInflight \div ChunkSize, MinDepth))

\* MUTANT of ReadChunk: the tail that does not fill a chunk is not read.
ReadWholeChunks ==
  IF offset + ChunkSize <= TotalSize
    THEN MaxOf(0, MinOf(ChunkSize, localLen - offset))
    ELSE 0

\* read_chunk_into: as much of the next chunk as the file still has.
ReadChunk ==
  MaxOf(0, MinOf(MinOf(ChunkSize, TotalSize - offset), localLen - offset))

\* queue_write of the chunk just read.
QueueWrite ==
  /\ inflight' = inflight \cup {[off |-> offset, len |-> ReadChunk]}
  /\ offset' = offset + ReadChunk

UploadInit ==
  /\ pc = "open"
  /\ offset = 0
  /\ inflight = {}
  /\ applied = {}
  /\ stored \in {{}, 0 .. TotalSize}     \* a new file, or one to overwrite
  /\ progress = 0
  /\ localLen = TotalSize
  /\ shrunk = FALSE
  /\ cancel = FALSE

\* open(WRITE | CREATE | TRUNCATE)
OpenTarget ==
  /\ pc = "open"
  /\ \/ pc' = "seed" /\ stored' = {}
     \/ pc' = "failed" /\ UNCHANGED stored
  /\ UNCHANGED <<offset, inflight, applied, progress, localLen, shrunk, cancel>>

\* One round of the seeding loop: it ends when the pipeline is full, the file
\* is used up or a read returns nothing; a read error ends the call.
Seed ==
  /\ pc = "seed"
  /\ \/ /\ Cardinality(inflight) < Depth /\ offset < TotalSize /\ ReadChunk > 0
        /\ QueueWrite
        /\ UNCHANGED pc
     \/ /\ ~(Cardinality(inflight) < Depth /\ offset < TotalSize /\ ReadChunk > 0)
        /\ pc' = "ack"
        /\ UNCHANGED <<inflight, offset>>
     \/ /\ Cardinality(inflight) < Depth /\ offset < TotalSize
        /\ pc' = "failed"
        /\ UNCHANGED <<inflight, offset>>
  /\ UNCHANGED <<applied, stored, progress, localLen, shrunk, cancel>>

\* The server carries out an outstanding write.
ServerWrite(p) ==
  /\ pc \in Running
  /\ p \in inflight \ applied
  /\ applied' = applied \cup {p}
  /\ stored' = stored \cup Bytes(p)
  /\ UNCHANGED <<pc, offset, inflight, progress, localLen, shrunk, cancel>>

\* A response, good or bad, that finds the cancel flag raised.
AckCancelled(p) ==
  /\ pc = "ack" /\ cancel
  /\ p \in inflight
  /\ pc' = "cancelled"
  /\ UNCHANGED <<offset, inflight, applied, stored, progress, localLen, shrunk, cancel>>

\* An error status, a timeout or a dead session; the write may have happened.
AckError(p) ==
  /\ pc = "ack" /\ ~cancel
  /\ p \in inflight
  /\ pc' = "failed"
  /\ UNCHANGED <<offset, inflight, applied, stored, progress, localLen, shrunk, cancel>>

Ack(p) ==
  /\ pc = "ack" /\ ~cancel
  /\ p \in applied
  /\ inflight' = inflight \ {p}
  /\ applied' = applied \ {p}
  /\ progress' = progress + p.len
  /\ pc' = "refill"
  /\ UNCHANGED <<offset, stored, localLen, shrunk, cancel>>

\* After an acknowledgement: one more chunk, if the file has one.
Refill ==
  /\ pc = "refill"
  /\ \/ /\ offset < TotalSize /\ ReadChunk > 0
        /\ QueueWrite
        /\ pc' = "ack"
     \/ /\ ~(offset < TotalSize /\ ReadChunk > 0)
        /\ pc' = "ack"
        /\ UNCHANGED <<inflight, offset>>
     \/ /\ offset < TotalSize
        /\ pc' = "failed"
        /\ UNCHANGED <<inflight, offset>>
  /\ UNCHANGED <<applied, stored, progress, localLen, shrunk, cancel>>

\* MUTANT of Finish: the call waits for the bytes it was promised.
FinishWhenRead ==
  /\ pc = "ack"
  /\ inflight = {} /\ offset = TotalSize
  /\ pc' = "ok"
  /\ UNCHANGED <<offset, inflight, applied, stored, progress, localLen, shrunk, cancel>>

\* MUTANT of Finish: the call returns once everything has been sent.
FinishWhenSent ==
  /\ pc = "ack"
  /\ inflight = {} \/ offset >= TotalSize
  /\ pc' = "ok"
  /\ UNCHANGED <<offset, inflight, applied, stored, progress, localLen, shrunk, cancel>>

\* inflight.next() yields None.
Finish ==
  /\ pc = "ack"
  /\ inflight = {}
  /\ pc' = "ok"
  /\ UNCHANGED <<offset, inflight, applied, stored, progress, localLen, shrunk, cancel>>

\* Environment: the cancel flag, and another program writing the local file.
Cancel ==
  /\ pc \in Running /\ ~cancel
  /\ cancel' = TRUE
  /\ UNCHANGED <<pc, offset, inflight, applied, stored, progress, localLen, shrunk>>

LocalResize ==
  /\ pc \in Running
  /\ \E n \in LocalSizes \ {localLen} :
       localLen' = n /\ shrunk' = (shrunk \/ n < TotalSize)
  /\ UNCHANGED <<pc, offset, inflight, applied, stored, progress, cancel>>

Respond == \E p \in inflight : AckCancelled(p) \/ AckError(p) \/ Ack(p)
Server  == \E p \in inflight : ServerWrite(p)

UploadNext == OpenTarget \/ Seed \/ Server \/ Respond \/ Refill \/ Finish \/ Cancel \/ LocalResize

\* The runtime polls a ready future; a request resolves at the latest with
\* the session's timeout, whether or not the server carried it out.
CallStep == OpenTarget \/ Seed \/ Respond \/ Refill \/ Finish

UploadSpec     == UploadInit /\ [][UploadNext]_uploadVars
UploadFairSpec == UploadSpec /\ WF_uploadVars(CallStep)

-----------------------------------------------------------------------------
\* Types of the variables of upload_inner().
UploadTypeOK ==
  /\ pc \in Running \cup Ended
  /\ offset \in 0 .. TotalSize
  /\ inflight \subseteq [off : 0 .. TotalSize, len : 1 .. ChunkSize]
  /\ applied \subseteq inflight
  /\ stored \subseteq 0 .. TotalSize
  /\ progress \in 0 .. TotalSize
  /\ localLen \in LocalSizes \cup {TotalSize}
  /\ shrunk \in BOOLEAN /\ cancel \in BOOLEAN

\* Ok means the server has stored exactly the bytes that were read, without a
\* hole although it may apply the writes in any order, that progress has counted
\* each of them once, and that the whole file was read unless the local file
\* shrank meanwhile.
OkMeansStored ==
  pc = "ok" => /\ stored = 0 .. (offset - 1) /\ progress = offset
               /\ ~shrunk => offset = TotalSize

\* upload() returns, whatever the server and the local file do.
Terminates == <>(pc \in Ended)
=============================================================================
