--------------------------- MODULE DownloadPipeline ---------------------------
(***************************************************************************)
(* The pipelined SFTP download of src/sftp/pipeline.rs: up to `depth`      *)
(* READ requests are outstanding, responses complete in any order and may  *)
(* be short, a reorder buffer puts the data back in sequence, and the      *)
(* local file is only ever appended to.                                    *)
(*                                                                         *)
(* One behaviour is one call of download().  Bytes are named by their      *)
(* offset in the remote file; `file` is the local file as the sequence of  *)
(* the remote offsets its bytes came from, so a hole or a misplaced chunk  *)
(* is visible.  The loop body of download_inner() is cut where it can      *)
(* leave early: handling one response, writing one buffered chunk, and     *)
(* refilling are the steps of one iteration, sequenced by pc.              *)
(***************************************************************************)
EXTENDS Integers, Sequences, FiniteSets

LOCAL INSTANCE FiniteSetsExt

CONSTANTS
  TotalSize,     \* total_size: size of the remote file
  StartOffset,   \* start_offset: bytes already in the local file (resume)
  ChunkSize,     \* chunk_size: read size negotiated with the server
  MaxDepth,      \* MAX_PIPELINE_DEPTH
  MaxInflight,   \* MAX_INFLIGHT_BYTES
  MinDepth,      \* the `.max(8)` of the byte-derived depth
  MinRead,       \* fewest bytes a successful READ returns (0: empty DATA)
  CancelFaults   \* TRUE: a local write may fail while draining a cancel

ASSUME ConstantsAssumption ==
  /\ TotalSize \in Nat
  /\ StartOffset \in Nat
  /\ ChunkSize \in Nat \ {0}
  /\ MaxDepth \in Nat \ {0}
  /\ MaxInflight \in Nat
  /\ MinDepth \in Nat \ {0}
  /\ MinRead \in {0, 1}
  /\ CancelFaults \in BOOLEAN

VARIABLES
  pc,         \* where the call is
  nextReq,    \* next_request_offset
  inflight,   \* outstanding READs, as pieces [off, len]
  reorder,    \* reorder_buf: received pieces waiting for their turn
  cursor,     \* write_cursor
  gapFill,    \* is_gap_fill of the response being handled
  progress,   \* sum of the bytes reported through on_bytes_written
  file,       \* local file: origin offset of each byte
  cancel      \* the shared cancel flag

vars == <<pc, nextReq, inflight, reorder, cursor, gapFill, progress, file, cancel>>

-----------------------------------------------------------------------------
MinOf(a, b) == IF a <= b THEN a ELSE b
MaxOf(a, b) == IF a >= b THEN a ELSE b

Offsets == 0 .. TotalSize
Piece   == [off : Offsets, len : Offsets]

\* The bytes of a piece, and the run of bytes [a, b) as file content.
Bytes(p)      == p.off .. (p.off + p.len - 1)
Segment(a, n) == [i \in 1 .. n |-> a + i - 1]

\* remaining.div_ceil(chunk_size)
TotalChunks == (TotalSize - StartOffset + ChunkSize - 1) \div ChunkSize

\* Adaptive depth, capped by the in-flight byte budget.
Depth ==
  MinOf(MinOf(TotalChunks, MaxDepth), MaxOf(MaxInflight \div ChunkSize, MinDepth))

\* The next fresh request, from the high-water mark.
NextPiece == [off |-> nextReq, len |-> MinOf(ChunkSize, TotalSize - nextReq)]

Running == {"open", "seed", "recv", "drain", "refill", "cancelDrain"}
Ended   == {"ok", "failed", "cancelled"}

\* BTreeMap::insert: a second chunk under one key replaces the first.
Insert(buf, p) == {q \in buf : q.off # p.off} \cup {p}

\* MUTANT of AtCursor: the first entry is taken without comparing its key.
FirstEntry == {q \in reorder : \A r \in reorder : q.off <= r.off}

\* first_entry() with key == write_cursor.
AtCursor == {q \in reorder : q.off = cursor}

-----------------------------------------------------------------------------
Init ==
  /\ pc = "open"
  /\ nextReq = StartOffset
  /\ inflight = {}
  /\ reorder = {}
  /\ cursor = StartOffset
  /\ gapFill = FALSE
  /\ progress = 0
  /\ file = Segment(0, StartOffset)
  /\ cancel = FALSE

\* download(): nothing to do, the open fails, or the handle is obtained.
Open ==
  /\ pc = "open"
  /\ IF TotalSize = 0 \/ StartOffset >= TotalSize
       THEN pc' = "ok"
       ELSE pc' \in {"seed", "failed"}
  /\ UNCHANGED <<nextReq, inflight, reorder, cursor, gapFill, progress, file, cancel>>

\* One round of the seeding loop, or its end.
Seed ==
  /\ pc = "seed"
  /\ IF Cardinality(inflight) < Depth /\ nextReq < TotalSize
       THEN /\ inflight' = inflight \cup {NextPiece}
            /\ nextReq' = nextReq + NextPiece.len
            /\ UNCHANGED pc
       ELSE /\ pc' = "recv"
            /\ UNCHANGED <<inflight, nextReq>>
  /\ UNCHANGED <<reorder, cursor, gapFill, progress, file, cancel>>

\* The user (or the pool) raises the cancel flag.
Cancel ==
  /\ ~cancel
  /\ pc \in Running
  /\ cancel' = TRUE
  /\ UNCHANGED <<pc, nextReq, inflight, reorder, cursor, gapFill, progress, file>>

\* A response with an error status, a timeout or a dead session.
RecvError(p) ==
  /\ pc = "recv" /\ ~cancel
  /\ p \in inflight
  /\ inflight' = inflight \ {p}
  /\ pc' = "failed"
  /\ UNCHANGED <<nextReq, reorder, cursor, gapFill, progress, file, cancel>>

\* MUTANT of Gap: the gap is re-requested with the length first expected.
GapTooLong(p, n) ==
  IF n < p.len /\ p.off + n < TotalSize
    THEN {[off |-> p.off + n, len |-> MinOf(p.len, TotalSize - p.off - n)]}
    ELSE {}

\* The range a short read left out, to be requested again.
Gap(p, n) ==
  IF n < p.len /\ p.off + n < TotalSize
    THEN {[off |-> p.off + n, len |-> p.len - n]}
    ELSE {}

\* The first n bytes of piece p have arrived: report them, re-request what a
\* short read left out, then write or buffer them.  written < n is a failing
\* write_all that got that far.
RecvData(p, n, written) ==
  /\ pc = "recv" /\ ~cancel
  /\ p \in inflight
  /\ progress' = progress + n
  /\ gapFill' = (Gap(p, n) # {})
  /\ inflight' = (inflight \ {p}) \cup Gap(p, n)
  /\ \/ /\ p.off = cursor
        /\ written = n
        /\ file' = file \o Segment(p.off, n)
        /\ cursor' = cursor + n
        /\ pc' = "drain"
        /\ UNCHANGED reorder
     \/ /\ p.off = cursor
        /\ written < n
        /\ file' = file \o Segment(p.off, written)
        /\ pc' = "failed"
        /\ UNCHANGED <<cursor, reorder>>
     \/ /\ p.off # cursor
        /\ written = n
        /\ reorder' = Insert(reorder, [off |-> p.off, len |-> n])
        /\ pc' = "refill"
        /\ UNCHANGED <<cursor, file>>
  /\ UNCHANGED <<nextReq, cancel>>

\* MUTANT of Drain: a failed write does not end the transfer.
DrainIgnoringErrors(q, written) ==
  /\ pc = "drain"
  /\ q \in AtCursor
  /\ reorder' = reorder \ {q}
  /\ file' = file \o Segment(q.off, written)
  /\ cursor' = cursor + q.len
  /\ UNCHANGED <<pc, nextReq, inflight, gapFill, progress, cancel>>

\* One round of the drain loop: the buffered chunk at the cursor is written.
Drain(q, written) ==
  /\ pc = "drain"
  /\ q \in AtCursor
  /\ reorder' = reorder \ {q}
  /\ file' = file \o Segment(q.off, written)
  /\ IF written = q.len
       THEN cursor' = cursor + q.len /\ UNCHANGED pc
       ELSE pc' = "failed" /\ UNCHANGED cursor
  /\ UNCHANGED <<nextReq, inflight, gapFill, progress, cancel>>

\* MUTANT of DrainDone: the loop runs until the buffer is empty.
DrainDoneWhenEmpty ==
  /\ pc = "drain"
  /\ reorder = {}
  /\ pc' = "refill"
  /\ UNCHANGED <<nextReq, inflight, reorder, cursor, gapFill, progress, file, cancel>>

\* The buffer is empty or its first chunk is not next: leave the loop.
DrainDone ==
  /\ pc = "drain"
  /\ AtCursor = {}
  /\ pc' = "refill"
  /\ UNCHANGED <<nextReq, inflight, reorder, cursor, gapFill, progress, file, cancel>>

\* MUTANT of Refill: only whole chunks are requested.
RefillWholeChunks ==
  /\ pc = "refill"
  /\ IF ~gapFill /\ nextReq + ChunkSize <= TotalSize
       THEN /\ inflight' = inflight \cup {NextPiece}
            /\ nextReq' = nextReq + NextPiece.len
       ELSE UNCHANGED <<inflight, nextReq>>
  /\ pc' = "recv"
  /\ UNCHANGED <<reorder, cursor, gapFill, progress, file, cancel>>

\* A response that was not a gap fill is replaced by one fresh request.
Refill ==
  /\ pc = "refill"
  /\ IF ~gapFill /\ nextReq < TotalSize
       THEN /\ inflight' = inflight \cup {NextPiece}
            /\ nextReq' = nextReq + NextPiece.len
       ELSE UNCHANGED <<inflight, nextReq>>
  /\ pc' = "recv"
  /\ UNCHANGED <<reorder, cursor, gapFill, progress, file, cancel>>

\* inflight.next() yields None: flush the file (which may fail) and return.
Finish ==
  /\ pc = "recv"
  /\ inflight = {}
  /\ pc' \in {"ok", "failed"}
  /\ UNCHANGED <<nextReq, inflight, reorder, cursor, gapFill, progress, file, cancel>>

-----------------------------------------------------------------------------
(* The cancel path.  The response at hand and every response that has      *)
(* already resolved go through flush_chunk; errors of the local write are  *)
(* ignored, but the cursor moves on as if the bytes were on disk.          *)

WriteOutcomes(n) == IF CancelFaults THEN 0 .. n ELSE {n}

\* flush_chunk(off, bytes) for n bytes of an outstanding piece; n = -1 stands
\* for a response that carries an error and is dropped.
FlushChunk(p, n, written) ==
  /\ \/ pc = "recv" /\ cancel
     \/ pc = "cancelDrain" /\ AtCursor = {}
  /\ p \in inflight
  /\ inflight' = inflight \ {p}
  /\ pc' = "cancelDrain"
  /\ IF n >= 0 /\ p.off = cursor
       THEN /\ file' = file \o Segment(p.off, written)
            /\ cursor' = cursor + n
       ELSE UNCHANGED <<file, cursor>>
  /\ reorder' = IF n >= 0 /\ p.off > cursor
                  THEN Insert(reorder, [off |-> p.off, len |-> n])
                  ELSE reorder
  /\ UNCHANGED <<nextReq, gapFill, progress, cancel>>

\* One round of the drain loops of the cancel path.
CancelDrain(q, written) ==
  /\ pc = "cancelDrain"
  /\ q \in AtCursor
  /\ reorder' = reorder \ {q}
  /\ file' = file \o Segment(q.off, written)
  /\ cursor' = cursor + q.len
  /\ UNCHANGED <<pc, nextReq, inflight, gapFill, progress, cancel>>

\* No further resolved response: "Transfer cancelled".
CancelDone ==
  /\ pc = "cancelDrain"
  /\ AtCursor = {}
  /\ pc' = "cancelled"
  /\ UNCHANGED <<nextReq, inflight, reorder, cursor, gapFill, progress, file, cancel>>

-----------------------------------------------------------------------------
Respond ==
  \E p \in inflight :
    \/ RecvError(p)
    \/ \E n \in MinRead .. p.len : \E w \in 0 .. n : RecvData(p, n, w)
    \/ \E n \in {-1} \cup (MinRead .. p.len) : \E w \in WriteOutcomes(MaxOf(n, 0)) :
         FlushChunk(p, n, w)

WriteBuffered ==
  \E q \in reorder :
    \/ \E w \in 0 .. q.len : Drain(q, w)
    \/ \E w \in WriteOutcomes(q.len) : CancelDrain(q, w)

Next ==
  \/ Open
  \/ Seed
  \/ Cancel
  \/ Respond
  \/ WriteBuffered
  \/ DrainDone
  \/ Refill
  \/ Finish
  \/ CancelDone

\* Everything but the user's cancel: the runtime polls a ready future, and an
\* outstanding request resolves at the latest with the session's timeout.
CallStep ==
  \/ Open \/ Seed \/ Respond \/ WriteBuffered
  \/ DrainDone \/ Refill \/ Finish \/ CancelDone

Spec     == Init /\ [][Next]_vars
FairSpec == Spec /\ WF_vars(CallStep)

-----------------------------------------------------------------------------
(* Properties *)

\* Types of the variables of download_inner().
TypeOK ==
  /\ pc \in Running \cup Ended
  /\ nextReq \in Nat
  /\ inflight \in SUBSET Piece
  /\ reorder \in SUBSET Piece
  /\ cursor \in Nat
  /\ gapFill \in BOOLEAN
  /\ progress \in Nat
  /\ file \in Seq(Nat)
  /\ cancel \in BOOLEAN

\* "The file always contains contiguous data, so its size is a safe resume
\* point": byte i of the local file is byte i of the remote file, whatever the
\* order of the responses and wherever the call stops.
Contiguous == \A i \in 1 .. Len(file) : file[i] = i - 1

\* The call returns Ok only when every byte of the remote file is local.
OkMeansComplete == pc = "ok" => Len(file) >= TotalSize

\* While the loop runs, no byte is requested twice, none is both outstanding
\* and buffered, and none between the cursor and the high-water mark has been
\* forgotten: short reads, gap fills and refills keep a partition.
NothingLostOrDoubled ==
  pc \in {"seed", "recv", "drain", "refill"} =>
    /\ \A p, q \in inflight : p # q => Bytes(p) \cap Bytes(q) = {}
    /\ \A p, q \in reorder : p # q => Bytes(p) \cap Bytes(q) = {}
    /\ \A p \in inflight, q \in reorder : Bytes(p) \cap Bytes(q) = {}
    /\ \A b \in cursor .. (nextReq - 1) :
         \E p \in inflight \cup reorder : b \in Bytes(p)

\* "Without this guard [...] inflight [would] grow unbounded": gap fills and
\* refills together never exceed the adaptive depth.
InflightBounded == Cardinality(inflight) <= Depth \/ inflight = {}

\* The download implements PrefixCopy: a prefix at every moment, success only
\* for the whole file.
Copy == INSTANCE PrefixCopy
          WITH Total  <- TotalSize,
               Start  <- StartOffset,
               data   <- file,
               status <- IF pc \in Running THEN "running" ELSE pc

ImplementsPrefixCopy == Copy!Spec

\* A READ that succeeds with no data before the end of the file.
EmptyRead == \E p \in inflight : RecvData(p, 0, 0)

\* Every call returns, cancelled or not, in whatever order and however short
\* the server answers, unless it answers with no data at all for ever.
Terminates == <>(pc \in Ended) \/ []<><<EmptyRead>>_vars
=============================================================================
