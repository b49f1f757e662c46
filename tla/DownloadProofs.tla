---------------------------- MODULE DownloadProofs ----------------------------
(***************************************************************************)
(* Proofs about downloads: the pipeline, for every file size, resume       *)
(* offset, chunk size and depth, and below the `.part` file it fills, for  *)
(* every set of transfers, every history of the remote file and every      *)
(* number of failures.                                                     *)
(***************************************************************************)
EXTENDS DownloadPipeline, PartFile, FiniteSetTheorems, SequenceTheorems, TLAPS

\* States in which the read loop is alive (the cancel path aside).
Loop == {"seed", "recv", "drain", "refill"}

\* Two pieces one of which ends before the other begins.
Apart(p, q) == p.off + p.len <= q.off \/ q.off + q.len <= p.off

\* No local write error has been swallowed by the cancel path.
NoFault == pc \in {"cancelDrain", "cancelled"} => ~CancelFaults

\* The local file holds exactly the bytes below the cursor.
FileInv ==
  NoFault =>
    /\ Contiguous
    /\ pc \in Running => Len(file) = cursor
    /\ Len(file) <= MaxOf(StartOffset, TotalSize)

\* Outstanding and buffered pieces lie inside the remote file.
RangeInv ==
  /\ \A p \in inflight : p.len >= 1 /\ p.off + p.len <= TotalSize
  /\ \A q \in reorder : q.off + q.len <= TotalSize
  /\ pc \in Running => pc = "open" \/ StartOffset < TotalSize
  /\ pc \in Loop => \A q \in reorder : q.off >= cursor
  /\ pc = "open" =>
       inflight = {} /\ reorder = {} /\ cursor = StartOffset /\ nextReq = StartOffset

\* The pieces tile the bytes between the cursor and the high-water mark.
TileInv ==
  pc \in Loop =>
    /\ cursor <= nextReq /\ nextReq <= TotalSize
    /\ \A p \in inflight : cursor <= p.off /\ p.off + p.len <= nextReq
    /\ \A q \in reorder : q.off + q.len <= nextReq
    /\ pc # "drain" => \A q \in reorder : q.off > cursor
    /\ \A p, q \in inflight : p # q => Apart(p, q)
    /\ \A p, q \in reorder : p # q => p.off # q.off /\ Apart(p, q)
    /\ \A p \in inflight, q \in reorder : Apart(p, q)
    /\ \A b \in Offsets : cursor <= b /\ b < nextReq =>
         \E p \in inflight \cup reorder : p.off <= b /\ b < p.off + p.len

\* How many requests are outstanding, and when there are none.
DepthInv ==
  /\ IsFiniteSet(inflight)
  /\ inflight # {} => Cardinality(inflight) <= Depth
  /\ pc \in {"drain", "refill"} =>
       IF gapFill THEN inflight # {} ELSE Cardinality(inflight) < Depth
  /\ pc = "recv" /\ inflight = {} => nextReq = TotalSize

IInv == TypeOK /\ FileInv /\ RangeInv /\ TileInv /\ DepthInv /\ OkMeansComplete

-----------------------------------------------------------------------------
\* The adaptive depth is a positive number whenever something is left to read.
LEMMA DepthPositive ==
  ASSUME StartOffset < TotalSize
  PROVE  Depth \in Nat /\ Depth >= 1
<1> DEFINE x == TotalSize - StartOffset + ChunkSize - 1
<1>1. x \in Nat /\ x >= ChunkSize
  BY ConstantsAssumption
<1>2. TotalChunks \in Nat /\ TotalChunks >= 1
  BY <1>1, ConstantsAssumption DEF TotalChunks
<1>3. MaxInflight \div ChunkSize \in Nat
  BY ConstantsAssumption
<1>4. QED
  BY <1>2, <1>3, ConstantsAssumption DEF Depth, MinOf, MaxOf

\* Segments are sequences, and appending one extends the file at its end.
LEMMA SegmentType ==
  ASSUME NEW a \in Nat, NEW n \in Nat
  PROVE  /\ Segment(a, n) \in Seq(Nat)
         /\ Len(Segment(a, n)) = n
         /\ \A i \in 1 .. n : Segment(a, n)[i] = a + i - 1
  BY DEF Segment

\* A contiguous file stays contiguous when the bytes that follow it are appended.
LEMMA AppendContiguous ==
  ASSUME NEW f \in Seq(Nat), NEW n \in Nat,
         \A i \in 1 .. Len(f) : f[i] = i - 1
  PROVE  /\ f \o Segment(Len(f), n) \in Seq(Nat)
         /\ Len(f \o Segment(Len(f), n)) = Len(f) + n
         /\ \A i \in 1 .. Len(f) + n : (f \o Segment(Len(f), n))[i] = i - 1
<1> DEFINE s == Segment(Len(f), n)
<1>1. s \in Seq(Nat) /\ Len(s) = n /\ \A i \in 1 .. n : s[i] = Len(f) + i - 1
  BY SegmentType
<1> HIDE DEF s
<1>2. f \o s \in Seq(Nat) /\ Len(f \o s) = Len(f) + n /\ Len(f) \in Nat
  BY <1>1, ConcatProperties, LenProperties
<1>3. ASSUME NEW i \in 1 .. Len(f) + n PROVE (f \o s)[i] = i - 1
  <2>1. CASE i <= Len(f)
    BY <2>1, <1>1
  <2>2. CASE i > Len(f)
    <3>1. i - Len(f) \in 1 .. n
      BY <2>2
    <3>2. (f \o s)[i] = s[i - Len(f)]
      BY <2>2, <1>1
    <3>3. QED
      BY <3>1, <3>2, <1>1
  <2>3. QED
    BY <2>1, <2>2, <1>2
<1>4. QED
  BY <1>2, <1>3 DEF s

\* The inductive invariant holds when download() is called.
LEMMA InitInv == Init => IInv
<1> SUFFICES ASSUME Init PROVE IInv
  OBVIOUS
<1> USE ConstantsAssumption DEF Init
<1>1. file \in Seq(Nat) /\ Len(file) = StartOffset /\ Contiguous
  <2>1. file \in Seq(Nat) /\ Len(file) = StartOffset
    BY SegmentType
  <2>2. \A i \in 1 .. StartOffset : file[i] = 0 + i - 1
    BY SegmentType
  <2>3. QED
    BY <2>1, <2>2 DEF Contiguous
<1>2. TypeOK
  BY <1>1 DEF TypeOK, Running
<1>3. FileInv
  BY <1>1 DEF FileInv, MaxOf
<1>4. RangeInv /\ TileInv /\ OkMeansComplete
  BY DEF RangeInv, TileInv, Loop, OkMeansComplete
<1>5. DepthInv
  BY FS_EmptySet DEF DepthInv
<1>6. QED
  BY <1>2, <1>3, <1>4, <1>5 DEF IInv

\* A fresh request starts at the high-water mark and stays inside the file.
LEMMA NextPieceFacts ==
  ASSUME TypeOK, nextReq < TotalSize
  PROVE  /\ NextPiece \in Piece
         /\ NextPiece.off = nextReq
         /\ NextPiece.len >= 1
         /\ nextReq + NextPiece.len <= TotalSize
         /\ nextReq + NextPiece.len \in Nat
<1> DEFINE m == MinOf(ChunkSize, TotalSize - nextReq)
<1>1. m \in Nat /\ m >= 1 /\ nextReq + m <= TotalSize /\ m <= TotalSize
  BY ConstantsAssumption DEF TypeOK, MinOf
<1>2. NextPiece = [off |-> nextReq, len |-> m]
  BY DEF NextPiece
<1> HIDE DEF m
<1>3. QED
  BY <1>1, <1>2, ConstantsAssumption DEF Piece, Offsets, TypeOK

\* The piece a response leaves behind, and the gap it re-requests.
LEMMA PieceFacts ==
  ASSUME TypeOK, RangeInv, NEW p \in inflight, NEW n \in MinRead .. p.len
  PROVE  /\ p.off \in Nat /\ p.len \in Nat /\ p.len >= 1
         /\ p.off + p.len <= TotalSize
         /\ n \in Nat /\ n <= p.len
         /\ [off |-> p.off, len |-> n] \in Piece
         /\ n < p.len => /\ [off |-> p.off + n, len |-> p.len - n] \in Piece
                         /\ p.off + n < TotalSize
<1>1. p.off \in 0 .. TotalSize /\ p.len \in 0 .. TotalSize
  BY DEF TypeOK, Piece, Offsets
<1>2. p.len >= 1 /\ p.off + p.len <= TotalSize
  BY DEF RangeInv
<1>3. n \in Nat /\ n <= p.len
  BY <1>1, ConstantsAssumption
<1>4. QED
  BY <1>1, <1>2, <1>3, ConstantsAssumption DEF Piece, Offsets

\* A buffered piece has the type of a piece.
LEMMA BufferedFacts ==
  ASSUME TypeOK, RangeInv, NEW q \in reorder
  PROVE  q.off \in Nat /\ q.len \in Nat /\ q.off + q.len <= TotalSize
  BY ConstantsAssumption DEF TypeOK, Piece, Offsets, RangeInv

\* Every step of the download loop preserves the types.
LEMMA TypeStep == IInv /\ [Next]_vars => TypeOK'
<1> SUFFICES ASSUME IInv, [Next]_vars PROVE TypeOK'
  OBVIOUS
<1> USE ConstantsAssumption
<1>0. TypeOK /\ RangeInv /\ TileInv
  BY DEF IInv
<1>1. CASE Open
  BY <1>0, <1>1 DEF Open, TypeOK, Running, Ended
<1>2. CASE Seed
  BY <1>0, <1>2, NextPieceFacts DEF Seed, TypeOK, Running
<1>3. CASE Cancel
  BY <1>0, <1>3 DEF Cancel, TypeOK
<1>4. ASSUME NEW p \in inflight, RecvError(p) PROVE TypeOK'
  BY <1>0, <1>4 DEF RecvError, TypeOK, Ended
<1>5. ASSUME NEW p \in inflight, NEW n \in MinRead .. p.len, NEW w \in 0 .. n,
             RecvData(p, n, w)
      PROVE  TypeOK'
  <2> DEFINE gap == n < p.len /\ p.off + n < TotalSize
             rest == [off |-> p.off + n, len |-> p.len - n]
  <2>1. /\ p.off \in Nat /\ n \in Nat /\ w \in Nat
        /\ [off |-> p.off, len |-> n] \in Piece /\ (gap => rest \in Piece)
    BY <1>0, PieceFacts
  <2>2. inflight' \in SUBSET Piece /\ gapFill' \in BOOLEAN
    BY <1>0, <1>5, <2>1 DEF RecvData, Gap, TypeOK
  <2>3. file' \in Seq(Nat)
    <3>1. file' = file \/ file' = file \o Segment(p.off, w)
      BY <1>5 DEF RecvData
    <3>2. Segment(p.off, w) \in Seq(Nat)
      BY <2>1, SegmentType
    <3>3. file \in Seq(Nat)
      BY <1>0 DEF TypeOK
    <3>4. file \o Segment(p.off, w) \in Seq(Nat)
      BY <3>2, <3>3, ConcatProperties
    <3>5. QED
      BY <3>1, <3>3, <3>4
  <2>4. reorder' \in SUBSET Piece
    <3>1. reorder \subseteq Piece
      BY <1>0 DEF TypeOK
    <3>2. \/ reorder' = reorder
          \/ reorder' = Insert(reorder, [off |-> p.off, len |-> n])
      BY <1>5 DEF RecvData
    <3>3. Insert(reorder, [off |-> p.off, len |-> n]) \subseteq Piece
      BY <2>1, <3>1, Zenon DEF Insert
    <3>4. QED
      BY <3>1, <3>2, <3>3
  <2>5. QED
    <3>1. pc' \in Running \cup Ended /\ cursor' \in Nat /\ progress' \in Nat
      BY <1>0, <1>5, <2>1 DEF RecvData, TypeOK, Running, Ended
    <3>2. nextReq' = nextReq /\ cancel' = cancel
      BY <1>5 DEF RecvData
    <3>3. QED
      BY <1>0, <2>2, <2>3, <2>4, <3>1, <3>2 DEF TypeOK
<1>6. ASSUME NEW p \in inflight, NEW n \in {-1} \cup (MinRead .. p.len),
             NEW w \in WriteOutcomes(MaxOf(n, 0)), FlushChunk(p, n, w)
      PROVE  TypeOK'
  <2>1. p.off \in Nat /\ w \in Nat /\ n \in Int
    <3>1. p.off \in Nat /\ p.len \in Nat
      BY <1>0 DEF TypeOK, Piece, Offsets
    <3>2. n \in Int /\ MaxOf(n, 0) \in Nat
      BY <3>1 DEF MaxOf
    <3>3. w \in Nat
      BY <3>2 DEF WriteOutcomes
    <3>4. QED
      BY <3>1, <3>2, <3>3
  <2>2. ASSUME n >= 0 PROVE [off |-> p.off, len |-> n] \in Piece
    <3>1. n \in MinRead .. p.len
      BY <2>2
    <3>2. QED
      BY <1>0, <3>1, PieceFacts
  <2>3. file' \in Seq(Nat)
    <3>1. file' = file \/ file' = file \o Segment(p.off, w)
      BY <1>6 DEF FlushChunk
    <3>2. Segment(p.off, w) \in Seq(Nat)
      BY <2>1, SegmentType
    <3>3. file \in Seq(Nat)
      BY <1>0 DEF TypeOK
    <3>4. file \o Segment(p.off, w) \in Seq(Nat)
      BY <3>2, <3>3, ConcatProperties
    <3>5. QED
      BY <3>1, <3>3, <3>4
  <2>4. reorder' \in SUBSET Piece
    <3>1. reorder \subseteq Piece
      BY <1>0 DEF TypeOK
    <3>2. \/ reorder' = reorder
          \/ n >= 0 /\ reorder' = Insert(reorder, [off |-> p.off, len |-> n])
      BY <1>6 DEF FlushChunk
    <3>3. n >= 0 => Insert(reorder, [off |-> p.off, len |-> n]) \subseteq Piece
      BY <2>2, <3>1, Zenon DEF Insert
    <3>4. QED
      BY <3>1, <3>2, <3>3
  <2>5. QED
    BY <1>0, <1>6, <2>1, <2>3, <2>4 DEF FlushChunk, TypeOK, Running
<1>7. ASSUME NEW q \in reorder, NEW w \in 0 .. q.len, Drain(q, w)
      PROVE  TypeOK'
  <2>1. q.off \in Nat /\ q.len \in Nat /\ w \in Nat
    BY <1>0, BufferedFacts
  <2>2. file' \in Seq(Nat)
    BY <1>0, <1>7, <2>1, SegmentType, ConcatProperties DEF Drain, TypeOK
  <2>3. QED
    BY <1>0, <1>7, <2>1, <2>2 DEF Drain, TypeOK, Running, Ended
<1>8. ASSUME NEW q \in reorder, NEW w \in WriteOutcomes(q.len), CancelDrain(q, w)
      PROVE  TypeOK'
  <2>1. q.off \in Nat /\ q.len \in Nat /\ w \in Nat
    BY <1>0, BufferedFacts DEF WriteOutcomes
  <2>2. file' \in Seq(Nat)
    BY <1>0, <1>8, <2>1, SegmentType, ConcatProperties DEF CancelDrain, TypeOK
  <2>3. QED
    BY <1>0, <1>8, <2>1, <2>2 DEF CancelDrain, TypeOK, Running
<1>9. CASE DrainDone
  BY <1>0, <1>9 DEF DrainDone, TypeOK, Running
<1>10. CASE Refill
  BY <1>0, <1>10, NextPieceFacts DEF Refill, TypeOK, Running
<1>11. CASE Finish
  BY <1>0, <1>11 DEF Finish, TypeOK, Ended
<1>12. CASE CancelDone
  BY <1>0, <1>12 DEF CancelDone, TypeOK, Ended
<1>13. CASE UNCHANGED vars
  BY <1>0, <1>13 DEF vars, TypeOK
<1>14. QED
  BY <1>1, <1>2, <1>3, <1>4, <1>5, <1>6, <1>7, <1>8, <1>9, <1>10, <1>11, <1>12,
     <1>13 DEF Next, Respond, WriteBuffered

\* Appending n bytes taken from the cursor keeps the file a prefix.
LEMMA AppendStep ==
  ASSUME TypeOK, Contiguous, Len(file) = cursor,
         NEW n \in Nat, cursor + n <= TotalSize,
         file' = file \o Segment(cursor, n)
  PROVE  Contiguous' /\ Len(file') = cursor + n /\ Len(file') <= MaxOf(StartOffset, TotalSize)
<1>1. file \in Seq(Nat) /\ cursor \in Nat
  BY DEF TypeOK
<1>2. /\ Len(file') = Len(file) + n
      /\ \A i \in 1 .. Len(file) + n : file'[i] = i - 1
  <2>1. \A i \in 1 .. Len(file) : file[i] = i - 1
    BY DEF Contiguous
  <2>2. QED
    BY <1>1, <2>1, AppendContiguous
<1>3. Contiguous'
  BY <1>2 DEF Contiguous
<1>4. QED
  BY <1>1, <1>2, <1>3, ConstantsAssumption DEF MaxOf

\* Every step leaves the file a prefix that ends at the cursor.
LEMMA FileStep == IInv /\ [Next]_vars => FileInv'
<1> SUFFICES ASSUME IInv, [Next]_vars PROVE FileInv'
  OBVIOUS
<1> USE ConstantsAssumption
<1>0. TypeOK /\ RangeInv /\ FileInv
  BY DEF IInv
<1>a. ASSUME file' = file, cursor' = cursor, NoFault' => NoFault,
             pc' \in Running => pc \in Running
      PROVE  FileInv'
  BY <1>0, <1>a DEF FileInv, Contiguous
<1>1. CASE Open
  BY <1>1, <1>a DEF Open, NoFault, Running
<1>2. CASE Seed
  BY <1>2, <1>a DEF Seed, NoFault, Running
<1>3. CASE Cancel
  BY <1>3, <1>a DEF Cancel, NoFault, Running
<1>4. ASSUME NEW p \in inflight, RecvError(p) PROVE FileInv'
  BY <1>4, <1>a DEF RecvError, NoFault, Running
<1>5. ASSUME NEW p \in inflight, NEW n \in MinRead .. p.len, NEW w \in 0 .. n,
             RecvData(p, n, w)
      PROVE  FileInv'
  <2>0. /\ p.off \in Nat /\ n \in Nat /\ n <= p.len
        /\ p.off + p.len <= TotalSize /\ p.len \in Nat
    BY <1>0, PieceFacts
  <2>1. /\ p.off \in Nat /\ n \in Nat /\ n <= p.len /\ w \in Nat /\ w <= n
        /\ p.off + p.len <= TotalSize /\ p.len \in Nat
    BY <2>0
  <2>2. CASE p.off # cursor
    BY <1>5, <2>2, <1>a DEF RecvData, NoFault, Running
  <2>3. CASE p.off = cursor
    <3>1. Contiguous /\ Len(file) = cursor
      BY <1>0, <1>5 DEF FileInv, NoFault, RecvData, Running
    <3>2. file' = file \o Segment(cursor, w) /\ cursor + w <= TotalSize
      BY <1>5, <2>1, <2>3 DEF RecvData
    <3>3. /\ Contiguous' /\ Len(file') = cursor + w
          /\ Len(file') <= MaxOf(StartOffset, TotalSize)
      BY <1>0, <2>1, <3>1, <3>2, AppendStep
    <3>4. pc' \in Running => cursor' = cursor + w
      BY <1>5, <2>3 DEF RecvData, Running
    <3>5. QED
      BY <3>3, <3>4 DEF FileInv
  <2>4. QED
    BY <2>2, <2>3
<1>6. ASSUME NEW p \in inflight, NEW n \in {-1} \cup (MinRead .. p.len),
             NEW w \in WriteOutcomes(MaxOf(n, 0)), FlushChunk(p, n, w)
      PROVE  FileInv'
  <2> SUFFICES ASSUME ~CancelFaults PROVE FileInv'
    BY <1>6 DEF FileInv, NoFault, FlushChunk
  <2>1. Contiguous /\ Len(file) = cursor
    BY <1>0, <1>6 DEF FileInv, NoFault, FlushChunk, Running
  <2>2. CASE n >= 0 /\ p.off = cursor
    <3>1. n \in MinRead .. p.len
      BY <2>2
    <3>2. /\ p.off \in Nat /\ n \in Nat /\ n <= p.len
          /\ p.off + p.len <= TotalSize /\ p.len \in Nat
      BY <1>0, <3>1, PieceFacts
    <3>3. w = n
      BY <3>2 DEF WriteOutcomes, MaxOf
    <3>4. file' = file \o Segment(cursor, n) /\ cursor' = cursor + n
      BY <1>6, <2>2, <3>3 DEF FlushChunk
    <3>5. cursor + n <= TotalSize
      BY <2>2, <3>2
    <3>6. QED
      BY <1>0, <2>1, <3>2, <3>4, <3>5, AppendStep DEF FileInv
  <2>3. CASE ~(n >= 0 /\ p.off = cursor)
    BY <1>6, <2>3, <1>a DEF FlushChunk, NoFault, Running
  <2>4. QED
    BY <2>2, <2>3
<1>7. ASSUME NEW q \in reorder, NEW w \in 0 .. q.len, Drain(q, w)
      PROVE  FileInv'
  <2>1. /\ q.off \in Nat /\ q.len \in Nat /\ w \in Nat /\ w <= q.len
        /\ q.off + q.len <= TotalSize
    BY <1>0, BufferedFacts
  <2>2. Contiguous /\ Len(file) = cursor /\ q.off = cursor
    BY <1>0, <1>7 DEF FileInv, NoFault, Drain, Running, AtCursor
  <2>3. file' = file \o Segment(cursor, w) /\ cursor + w <= TotalSize
    BY <1>7, <2>1, <2>2 DEF Drain
  <2>4. /\ Contiguous' /\ Len(file') = cursor + w
        /\ Len(file') <= MaxOf(StartOffset, TotalSize)
    BY <1>0, <2>1, <2>2, <2>3, AppendStep
  <2>5. pc' \in Running => cursor' = cursor + w
    BY <1>7 DEF Drain, Running
  <2>6. QED
    BY <2>4, <2>5 DEF FileInv
<1>8. ASSUME NEW q \in reorder, NEW w \in WriteOutcomes(q.len), CancelDrain(q, w)
      PROVE  FileInv'
  <2> SUFFICES ASSUME ~CancelFaults PROVE FileInv'
    BY <1>8 DEF FileInv, NoFault, CancelDrain
  <2>1. /\ q.off \in Nat /\ q.len \in Nat
        /\ q.off + q.len <= TotalSize
    BY <1>0, BufferedFacts
  <2>2. Contiguous /\ Len(file) = cursor /\ q.off = cursor /\ w = q.len
    BY <1>0, <1>8 DEF FileInv, NoFault, CancelDrain, Running, AtCursor, WriteOutcomes
  <2>3. /\ file' = file \o Segment(cursor, q.len) /\ cursor + q.len <= TotalSize
        /\ cursor' = cursor + q.len
    BY <1>8, <2>1, <2>2 DEF CancelDrain
  <2>4. QED
    BY <1>0, <2>1, <2>2, <2>3, AppendStep DEF FileInv
<1>9. CASE DrainDone
  BY <1>9, <1>a DEF DrainDone, NoFault, Running
<1>10. CASE Refill
  BY <1>10, <1>a DEF Refill, NoFault, Running
<1>11. CASE Finish
  BY <1>11, <1>a DEF Finish, NoFault, Running
<1>12. CASE CancelDone
  BY <1>12, <1>a DEF CancelDone, NoFault, Running
<1>13. CASE UNCHANGED vars
  BY <1>13, <1>a DEF vars, NoFault
<1>14. QED
  BY <1>1, <1>2, <1>3, <1>4, <1>5, <1>6, <1>7, <1>8, <1>9, <1>10, <1>11, <1>12,
     <1>13 DEF Next, Respond, WriteBuffered

\* What a response leaves behind: the pieces outstanding and buffered after it.
AfterRecv(p, n) ==
  /\ p.off \in Nat /\ p.len \in Nat /\ p.len >= 1 /\ n \in Nat /\ n <= p.len
  /\ p.off + p.len <= TotalSize
  /\ pc = "recv" /\ nextReq' = nextReq
  /\ gapFill' = (n < p.len)
  /\ inflight' = (inflight \ {p}) \cup
       (IF n < p.len THEN {[off |-> p.off + n, len |-> p.len - n]} ELSE {})
  /\ \/ pc' = "drain" /\ p.off = cursor /\ cursor' = cursor + n /\ reorder' = reorder
     \/ /\ pc' = "refill" /\ p.off # cursor /\ cursor' = cursor
        /\ reorder' = Insert(reorder, [off |-> p.off, len |-> n])
     \/ pc' = "failed" /\ reorder' = reorder

\* What a response does to the outstanding and buffered pieces.
LEMMA RecvPieces ==
  ASSUME IInv, NEW p \in inflight, NEW n \in MinRead .. p.len, NEW w \in 0 .. n,
         RecvData(p, n, w)
  PROVE  AfterRecv(p, n)
<1>1. TypeOK /\ RangeInv
  BY DEF IInv
<1>2. /\ p.off \in Nat /\ p.len \in Nat /\ p.len >= 1 /\ n \in Nat /\ n <= p.len
      /\ p.off + p.len <= TotalSize
  BY <1>1, PieceFacts
<1>a. (n < p.len /\ p.off + n < TotalSize) = (n < p.len)
  BY <1>2, ConstantsAssumption
<1>3. gapFill' = (n < p.len)
  BY <1>a DEF RecvData, Gap
<1>4. inflight' = (inflight \ {p}) \cup
          (IF n < p.len THEN {[off |-> p.off + n, len |-> p.len - n]} ELSE {})
  BY <1>a DEF RecvData, Gap
<1>5. \/ pc' = "drain" /\ p.off = cursor /\ cursor' = cursor + n /\ reorder' = reorder
      \/ /\ pc' = "refill" /\ p.off # cursor /\ cursor' = cursor
         /\ reorder' = Insert(reorder, [off |-> p.off, len |-> n])
      \/ pc' = "failed" /\ reorder' = reorder
  BY DEF RecvData
<1>6. pc = "recv" /\ nextReq' = nextReq
  BY DEF RecvData
<1>7. QED
  BY <1>2, <1>3, <1>4, <1>5, <1>6 DEF AfterRecv

\* Writing piece q from the head of the buffer leaves the rest beyond it.
LEMMA DrainBeyond ==
  ASSUME IInv, pc = "drain", NEW q \in reorder, q.off = cursor,
         NEW r \in reorder, r # q
  PROVE  r.off >= cursor + q.len
<1>1. /\ q.off \in Nat /\ q.len \in Nat /\ r.off \in Nat /\ r.len \in Nat
      /\ cursor \in Nat
  BY BufferedFacts DEF IInv, TypeOK
<1>2. r.off # q.off /\ Apart(q, r) /\ r.off >= cursor
  BY DEF IInv, TileInv, RangeInv, Loop
<1>3. QED
  BY <1>1, <1>2 DEF Apart

\* Every step keeps the pieces inside the remote file.
LEMMA RangeStep == IInv /\ [Next]_vars => RangeInv'
<1> SUFFICES ASSUME IInv, [Next]_vars PROVE RangeInv'
  OBVIOUS
<1> USE ConstantsAssumption
<1>0. TypeOK /\ RangeInv /\ TileInv
  BY DEF IInv
<1>1. CASE Open
  BY <1>0, <1>1 DEF Open, RangeInv, Loop, Running, TypeOK
<1>2. CASE Seed
  <2>1. nextReq < TotalSize => NextPiece.len >= 1 /\ NextPiece.off + NextPiece.len <= TotalSize
    BY <1>0, NextPieceFacts
  <2>2. QED
    BY <1>0, <1>2, <2>1 DEF Seed, RangeInv, Loop, Running
<1>3. CASE Cancel
  BY <1>0, <1>3 DEF Cancel, RangeInv
<1>4. ASSUME NEW p \in inflight, RecvError(p) PROVE RangeInv'
  BY <1>0, <1>4 DEF RecvError, RangeInv, Loop, Running
<1>5. ASSUME NEW p \in inflight, NEW n \in MinRead .. p.len, NEW w \in 0 .. n,
             RecvData(p, n, w)
      PROVE  RangeInv'
  <2>1. AfterRecv(p, n)
    BY <1>5, RecvPieces
  <2>2. \A q \in inflight' : q.len >= 1 /\ q.off + q.len <= TotalSize
    BY <1>0, <2>1 DEF RangeInv, AfterRecv, Running
  <2>3. StartOffset < TotalSize /\ cursor <= p.off /\ cursor \in Nat
    BY <1>0, <2>1 DEF RangeInv, TileInv, Loop, AfterRecv, TypeOK, Running
  <2>4. CASE pc' = "refill"
    <3>1. \A q \in reorder' : q \in reorder \/ (q.off = p.off /\ q.len = n)
      BY <2>1, <2>4 DEF Insert, AfterRecv
    <3>2. \A q \in reorder' : q.off + q.len <= TotalSize /\ q.off >= cursor
      BY <1>0, <2>1, <2>3, <3>1 DEF RangeInv, AfterRecv, Loop, Running
    <3>3. QED
      BY <2>1, <2>2, <2>3, <2>4, <3>2 DEF RangeInv, AfterRecv, Running
  <2>5. CASE pc' = "drain"
    <3>1. cursor' = cursor + n /\ reorder' = reorder /\ p.off = cursor
      BY <2>1, <2>5 DEF AfterRecv
    <3>2. ASSUME NEW q \in reorder PROVE q.off >= cursor + n
      <4>1. q.off \in Nat /\ q.len \in Nat
        BY <1>0, BufferedFacts
      <4>2. q.off > cursor /\ Apart(p, q)
        BY <1>0, <2>1 DEF TileInv, Loop, AfterRecv
      <4>3. QED
        BY <2>1, <2>3, <3>1, <4>1, <4>2 DEF Apart, AfterRecv
    <3>3. QED
      BY <1>0, <2>2, <2>3, <2>5, <3>1, <3>2 DEF RangeInv, Running
  <2>6. CASE pc' = "failed"
    BY <1>0, <2>1, <2>2, <2>6 DEF RangeInv, AfterRecv, Loop, Running
  <2>7. QED
    BY <2>1, <2>4, <2>5, <2>6 DEF AfterRecv
<1>6. ASSUME NEW p \in inflight, NEW n \in {-1} \cup (MinRead .. p.len),
             NEW w \in WriteOutcomes(MaxOf(n, 0)), FlushChunk(p, n, w)
      PROVE  RangeInv'
  <2>1. \A q \in inflight' : q \in inflight
    BY <1>6 DEF FlushChunk
  <2>2. ASSUME NEW q \in reorder' PROVE q.off + q.len <= TotalSize
    <3>1. q \in reorder \/ (n >= 0 /\ q.off = p.off /\ q.len = n)
      BY <1>6 DEF FlushChunk, Insert
    <3>2. CASE q \in reorder
      BY <1>0, <3>2 DEF RangeInv, Running
    <3>3. CASE n >= 0 /\ q.off = p.off /\ q.len = n
      <4>1. n \in MinRead .. p.len
        BY <3>3
      <4>2. p.off \in Nat /\ p.len \in Nat /\ n \in Nat /\ n <= p.len
            /\ p.off + p.len <= TotalSize
        BY <1>0, <4>1, PieceFacts
      <4>3. QED
        BY <3>3, <4>2
    <3>4. QED
      BY <3>1, <3>2, <3>3
  <2>3. QED
    BY <1>0, <1>6, <2>1, <2>2 DEF FlushChunk, RangeInv, Loop, Running
<1>7. ASSUME NEW q \in reorder, NEW w \in 0 .. q.len, Drain(q, w)
      PROVE  RangeInv'
  <2>1. q.off = cursor /\ pc = "drain"
    BY <1>7 DEF Drain, AtCursor
  <2>2. \A r \in reorder : r # q => r.off >= cursor + q.len
    BY <2>1, DrainBeyond
  <2>3. QED
    BY <1>0, <1>7, <2>1, <2>2 DEF Drain, RangeInv, Loop, Running
<1>8. ASSUME NEW q \in reorder, NEW w \in WriteOutcomes(q.len), CancelDrain(q, w)
      PROVE  RangeInv'
  BY <1>0, <1>8 DEF CancelDrain, RangeInv, Loop, Running
<1>9. CASE DrainDone
  BY <1>0, <1>9 DEF DrainDone, RangeInv, Loop, Running
<1>10. CASE Refill
  <2>1. nextReq < TotalSize => NextPiece.len >= 1 /\ NextPiece.off + NextPiece.len <= TotalSize
    BY <1>0, NextPieceFacts
  <2>2. QED
    BY <1>0, <1>10, <2>1 DEF Refill, RangeInv, Loop, Running
<1>11. CASE Finish
  BY <1>0, <1>11 DEF Finish, RangeInv, Loop, Running
<1>12. CASE CancelDone
  BY <1>0, <1>12 DEF CancelDone, RangeInv, Loop, Running
<1>13. CASE UNCHANGED vars
  BY <1>0, <1>13 DEF vars, RangeInv
<1>14. QED
  BY <1>1, <1>2, <1>3, <1>4, <1>5, <1>6, <1>7, <1>8, <1>9, <1>10, <1>11, <1>12,
     <1>13 DEF Next, Respond, WriteBuffered

\* A fresh request at the high-water mark extends the tiling.
LEMMA TileFresh ==
  ASSUME TypeOK, RangeInv, TileInv, pc \in Loop, pc # "drain", nextReq < TotalSize,
         inflight' = inflight \cup {NextPiece}, nextReq' = nextReq + NextPiece.len,
         reorder' = reorder, cursor' = cursor
  PROVE  TileInv'
<1> DEFINE f == NextPiece
<1>1. /\ f.off = nextReq /\ f.len \in Nat /\ f.len >= 1 /\ f.off \in Nat
      /\ nextReq + f.len <= TotalSize
  BY NextPieceFacts DEF Piece, Offsets
<1> HIDE DEF f
<1>2. cursor \in Nat /\ nextReq \in Nat /\ cursor <= nextReq
  BY DEF TypeOK, TileInv
<1>3. /\ inflight' = inflight \cup {f} /\ nextReq' = nextReq + f.len
  BY DEF f
<1>4. /\ \A q \in inflight : q.off \in Nat /\ q.len \in Nat
      /\ \A q \in reorder : q.off \in Nat /\ q.len \in Nat
  BY DEF TypeOK, Piece, Offsets
<1>5. cursor' <= nextReq' /\ nextReq' <= TotalSize
  BY <1>1, <1>2, <1>3
<1>6. /\ \A q \in inflight' : cursor' <= q.off /\ q.off + q.len <= nextReq'
      /\ \A q \in reorder' : q.off + q.len <= nextReq' /\ q.off > cursor'
  BY <1>1, <1>2, <1>3, <1>4 DEF TileInv
<1>7. /\ \A q, r \in inflight' : q # r => Apart(q, r)
      /\ \A q \in inflight', r \in reorder' : Apart(q, r)
      /\ \A q, r \in reorder' : q # r => q.off # r.off /\ Apart(q, r)
  <2>1. /\ \A q \in inflight : Apart(q, f) /\ Apart(f, q)
        /\ \A q \in reorder : Apart(f, q)
    BY <1>1 DEF TileInv, Apart
  <2>2. QED
    BY <1>3, <2>1 DEF TileInv
<1>8. ASSUME NEW b \in Offsets, cursor' <= b, b < nextReq'
      PROVE  \E q \in inflight' \cup reorder' : q.off <= b /\ b < q.off + q.len
  <2>1. CASE b < nextReq
    BY <1>3, <1>8, <2>1 DEF TileInv
  <2>2. CASE ~(b < nextReq)
    <3>1. f \in inflight' /\ f.off <= b /\ b < f.off + f.len
      BY <1>1, <1>2, <1>3, <1>8, <2>2 DEF Offsets
    <3>2. QED
      BY <3>1
  <2>3. QED
    BY <2>1, <2>2
<1>9. QED
  BY <1>5, <1>6, <1>7, <1>8 DEF TileInv

\* Every step keeps the tiling between cursor and high-water mark: gaps replace
\* what a short read left out, drains remove from its lower end, refills add at its
\* upper end.
LEMMA TileStep == IInv /\ [Next]_vars => TileInv'
<1> SUFFICES ASSUME IInv, [Next]_vars PROVE TileInv'
  OBVIOUS
<1> USE ConstantsAssumption
<1>0. TypeOK /\ RangeInv /\ TileInv
  BY DEF IInv
<1>a. ASSUME pc' \notin Loop PROVE TileInv'
  BY <1>a DEF TileInv
<1>b. ASSUME pc \in Loop, pc # "drain" \/ AtCursor = {},
             inflight' = inflight, reorder' = reorder, cursor' = cursor,
             nextReq' = nextReq
      PROVE  TileInv'
  <2>1. \A q \in reorder : q.off > cursor
    <3>1. \A q \in reorder : q.off >= cursor /\ q.off \in Nat /\ cursor \in Nat
      BY <1>0, <1>b DEF RangeInv, TypeOK, Piece, Offsets
    <3>2. CASE pc # "drain"
      BY <1>0, <1>b, <3>2 DEF TileInv
    <3>3. CASE AtCursor = {}
      BY <3>1, <3>3 DEF AtCursor
    <3>4. QED
      BY <1>b, <3>2, <3>3
  <2>2. /\ cursor <= nextReq /\ nextReq <= TotalSize
        /\ \A p \in inflight : cursor <= p.off /\ p.off + p.len <= nextReq
        /\ \A q \in reorder : q.off + q.len <= nextReq
        /\ \A p, q \in inflight : p # q => Apart(p, q)
        /\ \A p, q \in reorder : p # q => p.off # q.off /\ Apart(p, q)
        /\ \A p \in inflight, q \in reorder : Apart(p, q)
        /\ \A b \in Offsets : cursor <= b /\ b < nextReq =>
             \E p \in inflight \cup reorder : p.off <= b /\ b < p.off + p.len
    BY <1>0, <1>b DEF TileInv
  <2>3. /\ cursor' <= nextReq' /\ nextReq' <= TotalSize
        /\ \A p \in inflight' : cursor' <= p.off /\ p.off + p.len <= nextReq'
        /\ \A q \in reorder' : q.off + q.len <= nextReq' /\ q.off > cursor'
        /\ \A p, q \in inflight' : p # q => Apart(p, q)
        /\ \A p, q \in reorder' : p # q => p.off # q.off /\ Apart(p, q)
        /\ \A p \in inflight', q \in reorder' : Apart(p, q)
    BY <1>b, <2>1, <2>2
  <2>4. \A b \in Offsets : cursor' <= b /\ b < nextReq' =>
          \E p \in inflight' \cup reorder' : p.off <= b /\ b < p.off + p.len
    BY <1>b, <2>2
  <2>5. QED
    BY <2>3, <2>4 DEF TileInv
<1>1. CASE Open
  <2>1. CASE pc' = "seed"
    <3>1. /\ inflight' = {} /\ reorder' = {} /\ cursor' = StartOffset
          /\ nextReq' = StartOffset
      BY <1>0, <1>1 DEF Open, RangeInv
    <3>2. StartOffset < TotalSize
      BY <1>1, <2>1 DEF Open
    <3>3. \A b \in Offsets : ~(StartOffset <= b /\ b < StartOffset)
      BY DEF Offsets
    <3>4. QED
      BY <3>1, <3>2, <3>3 DEF TileInv
  <2>2. QED
    BY <1>1, <2>1, <1>a DEF Open, Loop
<1>2. CASE Seed
  <2>1. pc \in Loop /\ pc # "drain" /\ reorder' = reorder /\ cursor' = cursor
    BY <1>2 DEF Seed, Loop
  <2>2. CASE Cardinality(inflight) < Depth /\ nextReq < TotalSize
    BY <1>0, <1>2, <2>1, <2>2, TileFresh DEF Seed
  <2>3. CASE ~(Cardinality(inflight) < Depth /\ nextReq < TotalSize)
    BY <1>2, <2>1, <2>3, <1>b DEF Seed
  <2>4. QED
    BY <2>2, <2>3
<1>3. CASE Cancel
  BY <1>0, <1>3 DEF Cancel, TileInv
<1>4. ASSUME NEW p \in inflight, RecvError(p) PROVE TileInv'
  BY <1>4, <1>a DEF RecvError, Loop
<1>5. ASSUME NEW p \in inflight, NEW n \in MinRead .. p.len, NEW w \in 0 .. n,
             RecvData(p, n, w)
      PROVE  TileInv'
  <2>1. AfterRecv(p, n)
    BY <1>5, RecvPieces
  <2>2. SUFFICES ASSUME pc' \in {"drain", "refill"} PROVE TileInv'
    BY <2>1, <1>a DEF AfterRecv, Loop
  <2>3. /\ p.off \in Nat /\ p.len \in Nat /\ p.len >= 1 /\ n \in Nat /\ n <= p.len
        /\ nextReq' = nextReq /\ cursor \in Nat /\ nextReq \in Nat
        /\ cursor <= p.off /\ p.off + p.len <= nextReq
        /\ cursor <= nextReq /\ nextReq <= TotalSize
    BY <1>0, <2>1 DEF AfterRecv, TileInv, Loop, TypeOK
  <2>4. /\ \A q \in inflight : q.off \in Nat /\ q.len \in Nat
        /\ \A q \in reorder : q.off \in Nat /\ q.len \in Nat
    BY <1>0 DEF TypeOK, Piece, Offsets
  <2>5. /\ \A q \in inflight : q # p => Apart(p, q) /\ Apart(q, p)
        /\ \A q \in reorder : Apart(p, q) /\ q.off > cursor
    BY <1>0, <2>1 DEF TileInv, Loop, AfterRecv
  \* The outstanding pieces: the others, and the gap inside p.
  <2>6. \A q \in inflight' :
          \/ q \in inflight /\ q # p
          \/ n < p.len /\ q.off = p.off + n /\ q.len = p.len - n
    BY <2>1 DEF AfterRecv
  <2>7. \A q \in inflight' : q.off >= p.off + n \/ q.off + q.len <= p.off
    BY <2>3, <2>4, <2>5, <2>6 DEF Apart
  <2>8. \A q \in inflight' : q.off + q.len <= nextReq /\ cursor <= q.off
    BY <1>0, <2>1, <2>3, <2>4, <2>6 DEF TileInv, Loop, AfterRecv
  <2>9. \A q, r \in inflight' : q # r => Apart(q, r)
    <3>1. SUFFICES ASSUME NEW q \in inflight', NEW r \in inflight', q # r
                   PROVE  Apart(q, r)
      OBVIOUS
    <3>2. CASE q \in inflight /\ q # p /\ r \in inflight /\ r # p
      BY <1>0, <2>1, <3>1, <3>2 DEF TileInv, Loop, AfterRecv
    <3>3. CASE q \in inflight /\ q # p /\ ~(r \in inflight /\ r # p)
      BY <2>3, <2>4, <2>5, <2>6, <3>1, <3>3 DEF Apart
    <3>4. CASE r \in inflight /\ r # p /\ ~(q \in inflight /\ q # p)
      BY <2>3, <2>4, <2>5, <2>6, <3>1, <3>4 DEF Apart
    <3>5. CASE ~(r \in inflight /\ r # p) /\ ~(q \in inflight /\ q # p)
      BY <2>1, <3>1, <3>5 DEF AfterRecv
    <3>6. QED
      BY <3>2, <3>3, <3>4, <3>5
  <2>10. \A q \in inflight', r \in reorder : Apart(q, r)
    BY <1>0, <2>1, <2>3, <2>4, <2>5, <2>6 DEF TileInv, Loop, AfterRecv, Apart
  \* Every byte is still in some piece, or among the n that arrived.
  <2>11. ASSUME NEW b \in Offsets, cursor <= b, b < nextReq
         PROVE  \/ p.off <= b /\ b < p.off + n
                \/ \E q \in inflight' : q.off <= b /\ b < q.off + q.len
                \/ \E q \in reorder : q.off <= b /\ b < q.off + q.len
    <3>1. PICK q \in inflight \cup reorder : q.off <= b /\ b < q.off + q.len
      BY <1>0, <2>1, <2>11 DEF TileInv, Loop, AfterRecv
    <3>2. CASE q = p /\ b >= p.off + n
      <4>1. n < p.len
        BY <2>3, <3>1, <3>2 DEF Offsets
      <4> DEFINE g == [off |-> p.off + n, len |-> p.len - n]
      <4>2. g \in inflight'
        BY <2>1, <4>1 DEF AfterRecv
      <4>3. g.off <= b /\ b < g.off + g.len
        BY <2>3, <3>1, <3>2 DEF Offsets
      <4>4. QED
        BY <4>2, <4>3
    <3>3. CASE q = p /\ ~(b >= p.off + n)
      BY <2>3, <3>1, <3>3 DEF Offsets
    <3>4. CASE q # p
      BY <2>1, <3>1, <3>4 DEF AfterRecv
    <3>5. QED
      BY <3>2, <3>3, <3>4
  <2>12. CASE pc' = "drain"
    <3>1. cursor' = cursor + n /\ reorder' = reorder /\ p.off = cursor
      BY <2>1, <2>12 DEF AfterRecv
    <3>2. cursor' <= nextReq' /\ nextReq' <= TotalSize
      BY <2>3, <3>1
    <3>3. \A q \in inflight' : cursor' <= q.off /\ q.off + q.len <= nextReq'
      <4>1. \A q \in inflight' : q.off \in Nat /\ q.len \in Nat /\ q.len >= 1
        BY <1>0, <2>3, <2>4, <2>6 DEF RangeInv
      <4>2. QED
        BY <2>3, <2>7, <2>8, <3>1, <4>1
    <3>4. /\ \A q \in reorder' : q.off + q.len <= nextReq'
          /\ \A q, r \in reorder' : q # r => q.off # r.off /\ Apart(q, r)
      BY <1>0, <2>1, <2>3, <3>1 DEF TileInv, Loop, AfterRecv
    <3>5. ASSUME NEW b \in Offsets, cursor' <= b, b < nextReq'
          PROVE  \E q \in inflight' \cup reorder' : q.off <= b /\ b < q.off + q.len
      <4>1. cursor <= b /\ b < nextReq /\ ~(b < p.off + n)
        BY <2>3, <3>1, <3>5 DEF Offsets
      <4>2. QED
        BY <2>11, <3>1, <4>1
    <3>6. QED
      BY <2>9, <2>10, <2>12, <3>1, <3>2, <3>3, <3>4, <3>5 DEF TileInv
  <2>13. CASE pc' = "refill"
    <3> DEFINE g == [off |-> p.off, len |-> n]
    <3>1. /\ cursor' = cursor /\ p.off # cursor
          /\ reorder' = {q \in reorder : q.off # g.off} \cup {g}
      BY <2>1, <2>13 DEF AfterRecv, Insert
    <3>2. g.off = p.off /\ g.len = n
      OBVIOUS
    <3> HIDE DEF g
    <3>3. \A q \in reorder' : q = g \/ (q \in reorder /\ q.off # p.off)
      BY <3>1, <3>2
    <3>4. \A q \in reorder' : q.off + q.len <= nextReq' /\ q.off > cursor'
      BY <1>0, <2>1, <2>3, <2>5, <3>1, <3>2, <3>3 DEF TileInv, Loop, AfterRecv
    <3>5. \A q \in reorder : q.off # p.off => Apart(q, g) /\ Apart(g, q)
      BY <2>3, <2>4, <2>5, <3>2 DEF Apart
    <3>6. \A q, r \in reorder' : q # r => q.off # r.off /\ Apart(q, r)
      <4>1. \A q, r \in reorder : q # r => q.off # r.off /\ Apart(q, r)
        BY <1>0, <2>1 DEF TileInv, Loop, AfterRecv
      <4>2. QED
        BY <3>2, <3>3, <3>5, <4>1
    <3>7. \A q \in inflight', r \in reorder' : Apart(q, r)
      <4>1. \A q \in inflight' : Apart(q, g)
        BY <2>3, <2>4, <2>6, <2>7, <3>2 DEF Apart
      <4>2. QED
        BY <2>10, <3>3, <4>1
    <3>8. ASSUME NEW b \in Offsets, cursor' <= b, b < nextReq'
          PROVE  \E q \in inflight' \cup reorder' : q.off <= b /\ b < q.off + q.len
      <4>1. CASE p.off <= b /\ b < p.off + n
        BY <3>1, <3>2, <4>1
      <4>2. CASE \E q \in inflight' : q.off <= b /\ b < q.off + q.len
        BY <4>2
      <4>3. ASSUME NEW q \in reorder, q.off <= b, b < q.off + q.len,
                   ~(p.off <= b /\ b < p.off + n)
            PROVE  \E r \in inflight' \cup reorder' : r.off <= b /\ b < r.off + r.len
        <5>1. q.off # p.off
          BY <2>3, <2>4, <2>5, <4>3 DEF Apart, Offsets
        <5>2. q \in reorder'
          BY <3>1, <3>2, <5>1
        <5>3. QED
          BY <4>3, <5>2
      <4>4. QED
        BY <2>3, <2>11, <3>1, <3>8, <4>1, <4>2, <4>3
    <3>9. cursor' <= nextReq' /\ nextReq' <= TotalSize
          /\ \A q \in inflight' : cursor' <= q.off /\ q.off + q.len <= nextReq'
      BY <2>3, <2>8, <3>1
    <3>10. QED
      BY <2>9, <3>4, <3>6, <3>7, <3>8, <3>9 DEF TileInv
  <2>14. QED
    BY <2>2, <2>12, <2>13
<1>6. ASSUME NEW p \in inflight, NEW n \in {-1} \cup (MinRead .. p.len),
             NEW w \in WriteOutcomes(MaxOf(n, 0)), FlushChunk(p, n, w)
      PROVE  TileInv'
  BY <1>6, <1>a DEF FlushChunk, Loop
<1>7. ASSUME NEW q \in reorder, NEW w \in 0 .. q.len, Drain(q, w)
      PROVE  TileInv'
  <2>1. pc = "drain" /\ q.off = cursor /\ reorder' = reorder \ {q}
        /\ inflight' = inflight /\ nextReq' = nextReq
    BY <1>7 DEF Drain, AtCursor
  <2>2. SUFFICES ASSUME pc' \in Loop PROVE TileInv'
    BY <1>a
  <2>3. cursor' = cursor + q.len /\ pc' = "drain"
    BY <1>7, <2>2 DEF Drain, Loop
  <2>4. /\ q.off \in Nat /\ q.len \in Nat /\ cursor \in Nat /\ nextReq \in Nat
        /\ q.off + q.len <= nextReq /\ nextReq <= TotalSize
    BY <1>0, <2>1, BufferedFacts DEF TypeOK, TileInv, Loop
  <2>5. \A p \in inflight : p.off \in Nat /\ p.len \in Nat /\ p.len >= 1
    BY <1>0 DEF TypeOK, Piece, Offsets, RangeInv
  <2>6. \A p \in inflight : cursor <= p.off /\ p.off + p.len <= nextReq /\ Apart(p, q)
    BY <1>0, <2>1 DEF TileInv, Loop
  <2>7. \A p \in inflight' : cursor' <= p.off /\ p.off + p.len <= nextReq'
    BY <2>1, <2>3, <2>4, <2>5, <2>6 DEF Apart
  <2>8. ASSUME NEW b \in Offsets, cursor' <= b, b < nextReq'
        PROVE  \E r \in inflight' \cup reorder' : r.off <= b /\ b < r.off + r.len
    <3>1. cursor <= b /\ b < nextReq /\ ~(b < q.off + q.len)
      BY <2>1, <2>3, <2>4, <2>8 DEF Offsets
    <3>2. PICK r \in inflight \cup reorder : r.off <= b /\ b < r.off + r.len
      BY <1>0, <2>1, <3>1 DEF TileInv, Loop
    <3>3. r # q
      BY <3>1, <3>2
    <3>4. QED
      BY <2>1, <3>2, <3>3
  <2>9. /\ \A r \in reorder' : r.off + r.len <= nextReq'
        /\ \A r, t \in inflight' : r # t => Apart(r, t)
        /\ \A r, t \in reorder' : r # t => r.off # t.off /\ Apart(r, t)
        /\ \A r \in inflight', t \in reorder' : Apart(r, t)
    BY <1>0, <2>1 DEF TileInv, Loop
  <2>10. cursor' <= nextReq' /\ nextReq' <= TotalSize
    BY <2>1, <2>3, <2>4
  <2>11. QED
    BY <2>3, <2>7, <2>8, <2>9, <2>10 DEF TileInv
<1>8. ASSUME NEW q \in reorder, NEW w \in WriteOutcomes(q.len), CancelDrain(q, w)
      PROVE  TileInv'
  BY <1>8, <1>a DEF CancelDrain, Loop
<1>9. CASE DrainDone
  BY <1>9, <1>b DEF DrainDone, Loop
<1>10. CASE Refill
  <2>1. pc \in Loop /\ pc # "drain" /\ reorder' = reorder /\ cursor' = cursor
    BY <1>10 DEF Refill, Loop
  <2>2. CASE ~gapFill /\ nextReq < TotalSize
    BY <1>0, <1>10, <2>1, <2>2, TileFresh DEF Refill
  <2>3. CASE ~(~gapFill /\ nextReq < TotalSize)
    BY <1>10, <2>1, <2>3, <1>b DEF Refill
  <2>4. QED
    BY <2>2, <2>3
<1>11. CASE Finish
  BY <1>11, <1>a DEF Finish, Loop
<1>12. CASE CancelDone
  BY <1>12, <1>a DEF CancelDone, Loop
<1>13. CASE UNCHANGED vars
  BY <1>0, <1>13 DEF vars, TileInv
<1>14. QED
  BY <1>1, <1>2, <1>3, <1>4, <1>5, <1>6, <1>7, <1>8, <1>9, <1>10, <1>11, <1>12,
     <1>13 DEF Next, Respond, WriteBuffered

\* Every step leaves room for the refill the loop is about to make.
LEMMA DepthStep == IInv /\ [Next]_vars => DepthInv'
<1> SUFFICES ASSUME IInv, [Next]_vars PROVE DepthInv'
  OBVIOUS
<1> USE ConstantsAssumption
<1>0. TypeOK /\ RangeInv /\ TileInv /\ DepthInv
  BY DEF IInv
<1>a. Cardinality(inflight) \in Nat /\ (inflight = {} <=> Cardinality(inflight) = 0)
  BY <1>0, FS_CardinalityType, FS_EmptySet DEF DepthInv
<1>b. ASSUME inflight' = inflight, pc' \notin {"drain", "refill", "recv"}
      PROVE  DepthInv'
  BY <1>0, <1>b DEF DepthInv
<1>c. ASSUME NEW p \in inflight, inflight' = inflight \ {p},
             pc' \notin {"drain", "refill", "recv"}
      PROVE  DepthInv'
  <2>1. IsFiniteSet(inflight') /\ Cardinality(inflight') = Cardinality(inflight) - 1
    BY <1>0, <1>c, FS_RemoveElement DEF DepthInv
  <2>2. Cardinality(inflight) <= Depth
    BY <1>0, <1>c DEF DepthInv
  <2>3. Depth \in Int
    BY DEF Depth, MinOf, MaxOf, TotalChunks
  <2>4. QED
    BY <1>a, <1>c, <2>1, <2>2, <2>3 DEF DepthInv
<1>d. ASSUME pc \in Loop PROVE Depth \in Nat /\ Depth >= 1
  BY <1>0, <1>d, DepthPositive DEF RangeInv, Loop, Running
<1>e. ASSUME nextReq < TotalSize, Cardinality(inflight) < Depth, Depth \in Nat,
             inflight' = inflight \cup {NextPiece}
      PROVE  IsFiniteSet(inflight') /\ inflight' # {} /\ Cardinality(inflight') <= Depth
  <2>1. IsFiniteSet(inflight') /\ Cardinality(inflight') <= Cardinality(inflight) + 1
    <3>1. CASE NextPiece \in inflight
      <4>1. inflight' = inflight
        BY <1>e, <3>1
      <4>2. QED
        BY <1>0, <1>a, <4>1 DEF DepthInv
    <3>2. CASE NextPiece \notin inflight
      BY <1>0, <1>a, <1>e, <3>2, FS_AddElement DEF DepthInv
    <3>3. QED
      BY <3>1, <3>2
  <2>2. Cardinality(inflight') \in Nat
    BY <2>1, FS_CardinalityType
  <2>3. QED
    BY <1>a, <1>e, <2>1, <2>2
<1>1. CASE Open
  BY <1>1, <1>b DEF Open
<1>2. CASE Seed
  <2>1. CASE Cardinality(inflight) < Depth /\ nextReq < TotalSize
    BY <1>2, <2>1, <1>d, <1>e DEF Seed, Loop, DepthInv
  <2>2. CASE ~(Cardinality(inflight) < Depth /\ nextReq < TotalSize)
    <3>1. inflight' = inflight /\ nextReq' = nextReq /\ pc' = "recv" /\ pc = "seed"
      BY <1>2, <2>2 DEF Seed
    <3>2. inflight = {} => nextReq = TotalSize
      BY <1>0, <1>a, <1>d, <2>2, <3>1 DEF TileInv, Loop, TypeOK
    <3>3. QED
      BY <1>0, <3>1, <3>2 DEF DepthInv
  <2>3. QED
    BY <2>1, <2>2
<1>3. CASE Cancel
  BY <1>0, <1>3 DEF Cancel, DepthInv
<1>4. ASSUME NEW p \in inflight, RecvError(p) PROVE DepthInv'
  BY <1>4, <1>c DEF RecvError
<1>5. ASSUME NEW p \in inflight, NEW n \in MinRead .. p.len, NEW w \in 0 .. n,
             RecvData(p, n, w)
      PROVE  DepthInv'
  <2>1. AfterRecv(p, n)
    BY <1>5, RecvPieces
  <2>2. /\ IsFiniteSet(inflight \ {p})
        /\ Cardinality(inflight \ {p}) = Cardinality(inflight) - 1
        /\ Cardinality(inflight) <= Depth /\ Depth \in Nat
    BY <1>0, <1>d, <2>1, FS_RemoveElement DEF DepthInv, AfterRecv, Loop
  <2>3. CASE n < p.len
    <3> DEFINE g == [off |-> p.off + n, len |-> p.len - n]
    <3>1. inflight' = (inflight \ {p}) \cup {g} /\ gapFill' /\ pc' # "recv"
      BY <2>1, <2>3 DEF AfterRecv
    <3> HIDE DEF g
    <3>2. IsFiniteSet(inflight') /\ Cardinality(inflight') <= Cardinality(inflight)
      <4>1. CASE g \in inflight \ {p}
        <5>1. inflight' = inflight \ {p}
          BY <3>1, <4>1
        <5>2. QED
          BY <1>a, <2>2, <5>1
      <4>2. CASE g \notin inflight \ {p}
        BY <1>a, <2>2, <3>1, <4>2, FS_AddElement
      <4>3. QED
        BY <4>1, <4>2
    <3>3. Cardinality(inflight') \in Nat
      BY <3>2, FS_CardinalityType
    <3>4. QED
      BY <1>a, <2>2, <3>1, <3>2, <3>3 DEF DepthInv
  <2>4. CASE ~(n < p.len)
    <3>1. inflight' = inflight \ {p} /\ ~gapFill' /\ pc' # "recv"
      BY <2>1, <2>4 DEF AfterRecv
    <3>2. QED
      BY <1>a, <2>2, <3>1 DEF DepthInv
  <2>5. QED
    BY <2>3, <2>4
<1>6. ASSUME NEW p \in inflight, NEW n \in {-1} \cup (MinRead .. p.len),
             NEW w \in WriteOutcomes(MaxOf(n, 0)), FlushChunk(p, n, w)
      PROVE  DepthInv'
  BY <1>6, <1>c DEF FlushChunk
<1>7. ASSUME NEW q \in reorder, NEW w \in 0 .. q.len, Drain(q, w)
      PROVE  DepthInv'
  BY <1>0, <1>7 DEF Drain, DepthInv
<1>8. ASSUME NEW q \in reorder, NEW w \in WriteOutcomes(q.len), CancelDrain(q, w)
      PROVE  DepthInv'
  BY <1>8, <1>b DEF CancelDrain
<1>9. CASE DrainDone
  BY <1>0, <1>9 DEF DrainDone, DepthInv
<1>10. CASE Refill
  <2>1. CASE ~gapFill /\ nextReq < TotalSize
    <3>1. Cardinality(inflight) < Depth /\ Depth \in Nat
      BY <1>0, <1>10, <1>d, <2>1 DEF Refill, DepthInv, Loop
    <3>2. QED
      BY <1>10, <2>1, <3>1, <1>e DEF Refill, DepthInv
  <2>2. CASE ~(~gapFill /\ nextReq < TotalSize)
    <3>1. inflight' = inflight /\ nextReq' = nextReq /\ pc' = "recv" /\ pc = "refill"
      BY <1>10, <2>2 DEF Refill
    <3>2. inflight = {} => nextReq = TotalSize
      BY <1>0, <2>2, <3>1 DEF TileInv, Loop, TypeOK, DepthInv
    <3>3. QED
      BY <1>0, <3>1, <3>2 DEF DepthInv
  <2>3. QED
    BY <2>1, <2>2
<1>11. CASE Finish
  BY <1>11, <1>b DEF Finish
<1>12. CASE CancelDone
  BY <1>12, <1>b DEF CancelDone
<1>13. CASE UNCHANGED vars
  BY <1>0, <1>13 DEF vars, DepthInv
<1>14. QED
  BY <1>1, <1>2, <1>3, <1>4, <1>5, <1>6, <1>7, <1>8, <1>9, <1>10, <1>11, <1>12,
     <1>13 DEF Next, Respond, WriteBuffered

\* With no request outstanding the cursor has reached the end of the file.
LEMMA NothingOutstanding ==
  ASSUME IInv, pc = "recv", inflight = {}
  PROVE  cursor = TotalSize
<1>1. nextReq = TotalSize /\ cursor <= nextReq /\ cursor \in Nat
  BY DEF IInv, DepthInv, TileInv, Loop, TypeOK
<1>2. SUFFICES ASSUME cursor < TotalSize PROVE FALSE
  BY <1>1, ConstantsAssumption
<1>3. cursor \in Offsets
  BY <1>1, <1>2, ConstantsAssumption DEF Offsets
<1>4. PICK q \in reorder : q.off <= cursor
  BY <1>1, <1>2, <1>3 DEF IInv, TileInv, Loop
<1>5. q.off > cursor /\ q.off \in Nat
  BY DEF IInv, TileInv, Loop, TypeOK, Piece, Offsets
<1>6. QED
  BY <1>1, <1>4, <1>5

\* A step that returns Ok has nothing left to read.
LEMMA OkStep == IInv /\ [Next]_vars => OkMeansComplete'
<1> SUFFICES ASSUME IInv, [Next]_vars, pc' = "ok" PROVE Len(file') >= TotalSize
  BY DEF OkMeansComplete
<1>1. CASE Finish
  <2>1. cursor = TotalSize /\ Len(file) = cursor /\ file' = file
    BY <1>1, NothingOutstanding DEF Finish, IInv, FileInv, NoFault, Running
  <2>2. QED
    BY <2>1, ConstantsAssumption
<1>2. CASE Open
  <2>1. file' = file /\ Len(file) = StartOffset /\ (TotalSize = 0 \/ StartOffset >= TotalSize)
    BY <1>2 DEF Open, IInv, FileInv, NoFault, Running, RangeInv
  <2>2. QED
    BY <2>1, ConstantsAssumption
<1>3. CASE UNCHANGED vars
  BY <1>3 DEF vars, IInv, OkMeansComplete
<1>4. ASSUME ~Finish, ~Open, ~UNCHANGED vars PROVE FALSE
  BY <1>4 DEF Next, Respond, WriteBuffered, Seed, Cancel, RecvError, RecvData, Drain,
     DrainDone, Refill, FlushChunk, CancelDrain, CancelDone, IInv, TypeOK, Running
<1>5. QED
  BY <1>1, <1>2, <1>3, <1>4

\* The inductive invariant: the file is the prefix below the cursor, the pieces
\* tile what is between the cursor and the high-water mark, and the number of
\* outstanding requests leaves room for the refill the loop is about to make.
THEOREM InductiveInvariant == Spec => []IInv
<1>1. IInv /\ [Next]_vars => IInv'
  BY TypeStep, FileStep, RangeStep, TileStep, DepthStep, OkStep DEF IInv
<1>2. QED
  BY <1>1, InitInv, PTL DEF Spec

\* The variables of download_inner() keep their types for every file size,
\* resume offset, chunk size and depth.
THEOREM TypeCorrect == Spec => []TypeOK
<1>1. IInv => TypeOK
  BY DEF IInv
<1>2. QED
  BY <1>1, InductiveInvariant, PTL

\* The size of the local file is a safe resume point: unless a local write fails
\* during a cancel, the file is a prefix of the remote file in every state.
THEOREM ResumePointSafe ==
  ASSUME ~CancelFaults
  PROVE  Spec => []Contiguous
<1>1. IInv => Contiguous
  BY DEF IInv, FileInv, NoFault
<1>2. QED
  BY <1>1, InductiveInvariant, PTL

\* download() returns Ok only after every byte has been written.
THEOREM OkIsComplete == Spec => []OkMeansComplete
<1>1. IInv => OkMeansComplete
  BY DEF IInv
<1>2. QED
  BY <1>1, InductiveInvariant, PTL

\* Gap fills and refills never put more than Depth requests in flight.
THEOREM DepthRespected == Spec => []InflightBounded
<1>1. IInv => InflightBounded
  BY DEF IInv, DepthInv, InflightBounded
<1>2. QED
  BY <1>1, InductiveInvariant, PTL

\* No byte is requested twice, held twice or forgotten while the loop runs.
THEOREM TilingKept == Spec => []NothingLostOrDoubled
<1>1. ASSUME IInv, pc \in {"seed", "recv", "drain", "refill"}
      PROVE  NothingLostOrDoubled
  <2>1. pc \in Loop /\ TileInv /\ TypeOK
    BY <1>1 DEF Loop, IInv
  <2>2. /\ \A q \in inflight : q.off \in Nat /\ q.len \in Nat
        /\ \A q \in reorder : q.off \in Nat /\ q.len \in Nat
    BY <2>1 DEF TypeOK, Piece, Offsets
  <2>3. \A p, q \in inflight \cup reorder : Apart(p, q) => Bytes(p) \cap Bytes(q) = {}
    BY <2>2 DEF Apart, Bytes
  <2>4. ASSUME NEW b \in cursor .. (nextReq - 1)
        PROVE  \E p \in inflight \cup reorder : b \in Bytes(p)
    <3>1. b \in Offsets /\ cursor <= b /\ b < nextReq
      BY <2>1, ConstantsAssumption DEF TileInv, TypeOK, Offsets
    <3>2. PICK p \in inflight \cup reorder : p.off <= b /\ b < p.off + p.len
      BY <2>1, <3>1 DEF TileInv
    <3>3. b \in Bytes(p)
      BY <2>2, <3>1, <3>2 DEF Bytes, Offsets
    <3>4. QED
      BY <3>3
  <2>5. QED
    BY <2>1, <2>3, <2>4 DEF NothingLostOrDoubled, TileInv
<1>2. IInv => NothingLostOrDoubled
  BY <1>1 DEF NothingLostOrDoubled
<1>3. QED
  BY <1>2, InductiveInvariant, PTL
-----------------------------------------------------------------------------
\* A step appends to the file or leaves it alone; it reports success only when
\* it leaves it alone, and nothing happens after the end.
LEMMA StepShape ==
  ASSUME IInv, Next
  PROVE  /\ pc \in Running
         /\ file' = file \/ \E s \in Seq(Nat) : file' = file \o s
         /\ pc' = "ok" => file' = file
         /\ file' # file => pc # "open"
<1> USE ConstantsAssumption
<1>0. TypeOK /\ RangeInv
  BY DEF IInv
<1>1. CASE Open \/ Seed \/ Cancel \/ DrainDone \/ Refill \/ Finish \/ CancelDone
  BY <1>1 DEF Open, Seed, Cancel, DrainDone, Refill, Finish, CancelDone, Running
<1>2. ASSUME NEW p \in inflight, RecvError(p) PROVE file' = file /\ pc \in Running
  BY <1>2 DEF RecvError, Running
<1>3. ASSUME NEW p \in inflight, NEW n \in MinRead .. p.len, NEW w \in 0 .. n,
             RecvData(p, n, w)
      PROVE  /\ pc = "recv" /\ pc' # "ok" /\ w \in Nat /\ p.off \in Nat
             /\ file' = file \/ file' = file \o Segment(p.off, w)
  <2>1. n \in Nat /\ p.off \in Nat
    BY <1>0, PieceFacts
  <2>2. w \in Nat
    BY <2>1
  <2>3. QED
    BY <1>3, <2>1, <2>2 DEF RecvData
<1>4. ASSUME NEW p \in inflight, NEW n \in {-1} \cup (MinRead .. p.len),
             NEW w \in WriteOutcomes(MaxOf(n, 0)), FlushChunk(p, n, w)
      PROVE  /\ pc \in {"recv", "cancelDrain"} /\ pc' # "ok" /\ w \in Nat /\ p.off \in Nat
             /\ file' = file \/ file' = file \o Segment(p.off, w)
  <2>1. p.off \in Nat /\ p.len \in Nat
    BY <1>0 DEF TypeOK, Piece, Offsets
  <2>2. MaxOf(n, 0) \in Nat
    BY <2>1 DEF MaxOf
  <2>3. w \in Nat
    BY <2>2 DEF WriteOutcomes
  <2>4. QED
    BY <1>4, <2>1, <2>3 DEF FlushChunk
<1>5. ASSUME NEW q \in reorder, NEW w \in 0 .. q.len, Drain(q, w)
      PROVE  /\ pc = "drain" /\ pc' # "ok" /\ w \in Nat /\ q.off \in Nat
             /\ file' = file \o Segment(q.off, w)
  <2>1. q.off \in Nat /\ q.len \in Nat
    BY <1>0, BufferedFacts
  <2>2. QED
    BY <1>5, <2>1 DEF Drain
<1>6. ASSUME NEW q \in reorder, NEW w \in WriteOutcomes(q.len), CancelDrain(q, w)
      PROVE  /\ pc = "cancelDrain" /\ pc' # "ok" /\ w \in Nat /\ q.off \in Nat
             /\ file' = file \o Segment(q.off, w)
  <2>1. q.off \in Nat /\ q.len \in Nat
    BY <1>0, BufferedFacts
  <2>2. QED
    BY <1>6, <2>1 DEF CancelDrain, WriteOutcomes
<1>7. CASE Respond
  <2>1. PICK p \in inflight :
          \/ RecvError(p)
          \/ \E n \in MinRead .. p.len : \E w \in 0 .. n : RecvData(p, n, w)
          \/ \E n \in {-1} \cup (MinRead .. p.len) :
               \E w \in WriteOutcomes(MaxOf(n, 0)) : FlushChunk(p, n, w)
    BY <1>7 DEF Respond
  <2>2. CASE RecvError(p)
    BY <1>2, <2>2 DEF RecvError
  <2>3. ASSUME NEW n \in MinRead .. p.len, NEW w \in 0 .. n, RecvData(p, n, w)
        PROVE  /\ pc \in Running /\ pc' # "ok" /\ pc # "open"
               /\ file' = file \/ \E s \in Seq(Nat) : file' = file \o s
    BY <1>3, <2>3, SegmentType DEF Running
  <2>4. ASSUME NEW n \in {-1} \cup (MinRead .. p.len),
               NEW w \in WriteOutcomes(MaxOf(n, 0)), FlushChunk(p, n, w)
        PROVE  /\ pc \in Running /\ pc' # "ok" /\ pc # "open"
               /\ file' = file \/ \E s \in Seq(Nat) : file' = file \o s
    BY <1>4, <2>4, SegmentType DEF Running
  <2>5. QED
    BY <2>1, <2>2, <2>3, <2>4
<1>8. CASE WriteBuffered
  <2>1. PICK q \in reorder :
          \/ \E w \in 0 .. q.len : Drain(q, w)
          \/ \E w \in WriteOutcomes(q.len) : CancelDrain(q, w)
    BY <1>8 DEF WriteBuffered
  <2>2. ASSUME NEW w \in 0 .. q.len, Drain(q, w)
        PROVE  /\ pc \in Running /\ pc' # "ok" /\ pc # "open"
               /\ \E s \in Seq(Nat) : file' = file \o s
    BY <1>5, <2>2, SegmentType DEF Running
  <2>3. ASSUME NEW w \in WriteOutcomes(q.len), CancelDrain(q, w)
        PROVE  /\ pc \in Running /\ pc' # "ok" /\ pc # "open"
               /\ \E s \in Seq(Nat) : file' = file \o s
    BY <1>6, <2>3, SegmentType DEF Running
  <2>4. QED
    BY <2>1, <2>2, <2>3
<1>9. QED
  BY <1>1, <1>7, <1>8 DEF Next, Open, Seed, Cancel, DrainDone, Refill, Finish, CancelDone

\* A contiguous file is the abstract prefix of its length.
LEMMA ContiguousIsPrefix ==
  ASSUME NEW f \in Seq(Nat), \A i \in 1 .. Len(f) : f[i] = i - 1
  PROVE  f = Copy!Prefix(Len(f))
<1>1. Len(f) \in Nat /\ DOMAIN f = 1 .. Len(f) /\ f \in [1 .. Len(f) -> Nat]
  BY LenProperties
<1>2. QED
  BY <1>1 DEF Copy!Prefix

\* The pipelined, reordering, cancellable download implements the sequential
\* prefix copy its callers rely on.
THEOREM Refinement ==
  ASSUME ~CancelFaults
  PROVE  Spec => ImplementsPrefixCopy
<1>1. Init => Copy!Init
  BY DEF Init, Copy!Init, Segment, Copy!Prefix, Running
<1>2. IInv /\ IInv' /\ [Next]_vars => [Copy!Next]_(Copy!vars)
  <2> SUFFICES ASSUME IInv, IInv', [Next]_vars PROVE [Copy!Next]_(Copy!vars)
    OBVIOUS
  <2>1. CASE UNCHANGED vars
    BY <2>1 DEF vars, Copy!vars
  <2>2. CASE Next
    <3>1. /\ pc \in Running
          /\ file' = file \/ \E s \in Seq(Nat) : file' = file \o s
          /\ pc' = "ok" => file' = file
          /\ file' # file => pc # "open"
      BY <2>2, StepShape
    <3>2. pc' \in Running \/ pc' \in {"ok", "failed", "cancelled"}
      BY DEF IInv, TypeOK, Ended
    <3>3. "running" \notin {"ok", "failed", "cancelled"} /\ "ok" \notin Running
          /\ "failed" \notin Running /\ "cancelled" \notin Running
      BY DEF Running
    <3>4. CASE file' = file
      <4>1. CASE pc' \in Running
        BY <3>1, <3>4, <4>1 DEF Copy!vars
      <4>2. CASE pc' \in {"failed", "cancelled"}
        BY <3>1, <3>3, <3>4, <4>2 DEF Copy!Next, Copy!End
      <4>3. CASE pc' = "ok"
        <5>1. Len(file) >= TotalSize
          BY <3>4, <4>3 DEF IInv, OkMeansComplete
        <5>2. QED
          BY <3>1, <3>3, <3>4, <4>3, <5>1 DEF Copy!Next, Copy!End
      <4>4. QED
        BY <3>2, <4>1, <4>2, <4>3
    <3>5. CASE file' # file
      <4>1. PICK s \in Seq(Nat) : file' = file \o s
        BY <3>1, <3>5
      <4>2. /\ Len(file') = Len(file) + Len(s)
            /\ Len(file) \in Nat /\ Len(s) \in Nat
        BY <4>1, ConcatProperties, LenProperties DEF IInv, TypeOK
      <4>3. Len(file') <= TotalSize
        <5>1. Len(file') <= MaxOf(StartOffset, TotalSize)
          BY DEF IInv, FileInv, NoFault
        <5>2. StartOffset < TotalSize
          BY <3>1, <3>5 DEF IInv, RangeInv
        <5>3. QED
          BY <5>1, <5>2, ConstantsAssumption DEF MaxOf
      <4>4. file' = Copy!Prefix(Len(file'))
        <5>1. file' \in Seq(Nat) /\ \A i \in 1 .. Len(file') : file'[i] = i - 1
          BY DEF IInv, TypeOK, FileInv, NoFault, Contiguous
        <5>2. QED
          BY <5>1, ContiguousIsPrefix
      <4>5. Len(file') \in Len(file) .. TotalSize
        BY <4>2, <4>3, ConstantsAssumption
      <4>6. pc' \in Running \/ pc' \in {"failed", "cancelled"}
        BY <3>1, <3>2, <3>5
      <4>7. QED
        BY <3>1, <3>3, <4>4, <4>5, <4>6 DEF Copy!Next, Copy!Copy
    <3>6. QED
      BY <3>4, <3>5
  <2>3. QED
    BY <2>1, <2>2
<1>3. QED
  BY <1>1, <1>2, InductiveInvariant, PTL DEF Spec, ImplementsPrefixCopy, Copy!Spec

-------------------------------------------------------------------------------
(* The `.part` file.                                                         *)

Cells    == (Versions \X Nat) \cup {Hole}
Local    == [pc : {"idle", "open", "copy", "done", "failed"}, kind : Kinds, total : Nat,
             off : Nat, ino : Inodes \cup {None}, append : BOOLEAN]

\* Transfers whose present attempt may have created a file.
Started == {t \in Transfers : tr[t].pc \in {"copy", "done", "failed"}}

Types ==
  /\ version \in Versions
  /\ content \in [Inodes -> Seq(Cells)]
  /\ nextIno \in Nat /\ nextIno >= 1
  /\ tr \in [Transfers -> Local]
  /\ failures \in 0 .. MaxFailures
  /\ shared \in BOOLEAN

\* There is an inode left for every attempt that still has to open its file.
CountInv == nextIno <= 1 + failures + Cardinality(Started)

\* The `.part` file is never the file at the target path.
PathsInv ==
  /\ part \in (1 .. (nextIno - 1) \cap Inodes) \cup {None}
  /\ final \in (0 .. (nextIno - 1) \cap Inodes) \cup {None}
  /\ part # None => part # final

\* A transfer that has the `.part` file to itself has written all of it.
AloneInv ==
  ~shared =>
    /\ \A t, u \in Transfers : tr[t].pc = "copy" /\ tr[u].pc = "copy" => t = u
    /\ \A t \in Transfers : tr[t].pc = "copy" =>
         /\ part = tr[t].ino /\ part # None
         /\ Len(content[part]) = tr[t].off /\ tr[t].off <= tr[t].total

\* A copying transfer has an open file.
OpenInv == \A t \in Transfers : tr[t].pc = "copy" => tr[t].ino \in Inodes

PartInv == Types /\ CountInv /\ PathsInv /\ AloneInv /\ OpenInv

-----------------------------------------------------------------------------
\* The set of started transfers is finite and loses or gains one at a time.
LEMMA StartedFinite ==
  /\ IsFiniteSet(Started) /\ Cardinality(Started) \in Nat
  /\ IsFiniteSet(Transfers) /\ Cardinality(Transfers) \in Nat
  /\ Cardinality(Started) <= Cardinality(Transfers)
  BY FS_Subset, FS_CardinalityType, PartFileAssumption DEF Started

\* While a transfer has not opened its file there is an unused inode.
LEMMA InodeLeft ==
  ASSUME Types, CountInv, NEW t \in Transfers, t \notin Started
  PROVE  nextIno \in Inodes
<1>1. Started \subseteq Transfers \ {t}
  BY DEF Started
<1>2. Cardinality(Transfers \ {t}) = Cardinality(Transfers) - 1 /\ IsFiniteSet(Transfers \ {t})
  BY PartFileAssumption, FS_RemoveElement
<1>3. Cardinality(Started) <= Cardinality(Transfers) - 1
  BY <1>1, <1>2, FS_Subset
<1> DEFINE s == Cardinality(Started)
           n == Cardinality(Transfers)
<1>4. s \in Nat /\ n \in Nat /\ s <= n - 1
  BY <1>3, StartedFinite
<1>5. nextIno <= 1 + failures + s /\ nextIno \in Nat /\ failures \in Nat /\ failures <= MaxFailures
      /\ MaxFailures \in Nat
  BY PartFileAssumption DEF CountInv, Types
<1> HIDE DEF s, n
<1>6. nextIno \in 0 .. (n + MaxFailures)
  BY <1>4, <1>5
<1>7. QED
  BY <1>6 DEF Inodes, n

\* A write yields a file that reaches at least to the position written.
LEMMA WriteFacts ==
  ASSUME NEW c \in Seq(Cells), NEW pos \in Nat, NEW b \in Cells
  PROVE  /\ WriteAt(c, pos, b) \in Seq(Cells)
         /\ Len(WriteAt(c, pos, b)) = IF pos < Len(c) THEN Len(c) ELSE pos + 1
<1> DEFINE n == IF pos < Len(c) THEN Len(c) ELSE pos + 1
           e(i) == IF i = pos + 1 THEN b ELSE IF i <= Len(c) THEN c[i] ELSE Hole
<1>1. n \in Nat
  BY LenProperties
<1>2. \A i \in 1 .. n : e(i) \in Cells
  BY ElementOfSeq, LenProperties DEF Cells
<1>3. WriteAt(c, pos, b) = [i \in 1 .. n |-> e(i)]
  BY DEF WriteAt
<1> HIDE DEF n, e
<1>4. [i \in 1 .. n |-> e(i)] \in Seq(Cells) /\ Len([i \in 1 .. n |-> e(i)]) = n
  BY <1>1, <1>2
<1>5. QED
  BY <1>3, <1>4 DEF n

\* The whole of a version is a file.
LEMMA WholeFacts == \A v \in Versions : Whole(v) \in Seq(Cells)
<1> SUFFICES ASSUME NEW v \in Versions PROVE Whole(v) \in Seq(Cells)
  OBVIOUS
<1>1. SizeOf[v] \in Nat
  BY PartFileAssumption DEF Versions
<1>2. \A i \in 1 .. SizeOf[v] : Byte(v, i - 1) \in Cells
  BY <1>1 DEF Byte, Cells
<1>3. QED
  BY <1>1, <1>2 DEF Whole

\* At first there is at most the target file.
LEMMA PartInitInv == PartInit => PartInv
<1> SUFFICES ASSUME PartInit PROVE PartInv
  OBVIOUS
<1>1. 1 \in Versions /\ 0 \in Inodes
  BY PartFileAssumption, StartedFinite, EmptySeq DEF Versions, Inodes
<1>2. content \in [Inodes -> Seq(Cells)]
  BY <1>1, WholeFacts DEF PartInit
<1>3. tr \in [Transfers -> Local] /\ \A t \in Transfers : tr[t].pc = "idle"
  <2>1. tr \in [Transfers -> {Idle(k) : k \in Kinds}]
    BY DEF PartInit
  <2>2. \A k \in Kinds : Idle(k) \in Local /\ Idle(k).pc = "idle"
    BY DEF Idle, Local
  <2>3. \A t \in Transfers : tr[t] \in Local /\ tr[t].pc = "idle"
    BY <2>1, <2>2
  <2>4. QED
    BY <2>1, <2>3
<1>4. Types
  <2>1. failures \in 0 .. MaxFailures /\ nextIno \in Nat /\ nextIno >= 1
    BY PartFileAssumption DEF PartInit
  <2>2. version \in Versions /\ shared \in BOOLEAN
    BY <1>1 DEF PartInit
  <2>3. QED
    BY <1>2, <1>3, <2>1, <2>2 DEF Types
<1>5. CountInv
  BY StartedFinite DEF PartInit, CountInv
<1>6. PathsInv
  BY <1>1 DEF PartInit, PathsInv
<1>7. AloneInv /\ OpenInv
  BY <1>3 DEF AloneInv, OpenInv
<1>8. QED
  BY <1>4, <1>5, <1>6, <1>7 DEF PartInv

-----------------------------------------------------------------------------
\* Starting, stopping and finishing without a file: only one record changes,
\* and it does not come to be copying.
LEMMA RecordInv ==
  ASSUME PartInv, NEW t \in Transfers, NEW r \in Local, r.pc # "copy",
         tr' = [tr EXCEPT ![t] = r],
         failures' \in 0 .. MaxFailures, failures' >= failures,
         tr[t].pc = "copy" /\ r.pc \notin {"done", "failed"} => failures' = failures + 1,
         tr[t].pc \in {"idle", "open", "copy"},
         UNCHANGED <<version, content, nextIno, part, final, shared>>
  PROVE  PartInv'
<1> USE DEF PartInv
<1>1. Types'
  BY DEF Types
<1>2. tr'[t] = r /\ \A u \in Transfers \ {t} : tr'[u] = tr[u]
  BY DEF Types
<1>3. Started \ {t} \subseteq Started'
  BY <1>2 DEF Started
<1>4. IsFiniteSet(Started') /\ Cardinality(Started') \in Nat
  BY <1>1, PartFileAssumption, FS_Subset, FS_CardinalityType DEF Started
<1>5. CountInv'
  <2>1. CASE t \in Started /\ r.pc \notin {"done", "failed"}
    <3>1. Cardinality(Started \ {t}) = Cardinality(Started) - 1
      BY <2>1, StartedFinite, FS_RemoveElement
    <3>2. Cardinality(Started \ {t}) <= Cardinality(Started')
      BY <1>3, <1>4, FS_Subset
    <3>3. failures' = failures + 1
      BY <2>1 DEF Started
    <3>4. QED
      BY <1>4, <3>1, <3>2, <3>3, StartedFinite DEF CountInv, Types
  <2>2. CASE t \notin Started \/ r.pc \in {"done", "failed"}
    <3>1. Started \subseteq Started'
      BY <1>2, <2>2 DEF Started
    <3>2. Cardinality(Started) <= Cardinality(Started')
      BY <1>4, <3>1, FS_Subset
    <3>3. QED
      BY <1>4, <3>2, StartedFinite, PartFileAssumption DEF CountInv, Types
  <2>3. QED
    BY <2>1, <2>2
<1>6. PathsInv'
  BY DEF PathsInv
<1>7. AloneInv' /\ OpenInv'
  BY <1>2 DEF AloneInv, OpenInv
<1>8. QED
  BY <1>1, <1>5, <1>6, <1>7

\* A transfer begins with what the remote file is at that moment.
LEMMA BeginInv == ASSUME PartInv, NEW t \in Transfers, Begin(t) PROVE PartInv'
<1>1. SizeOf[version] \in Nat
  BY PartFileAssumption DEF PartInv, Types, Versions
<1>2. tr[t] \in Local /\ tr[t].pc = "idle" /\ tr \in [Transfers -> Local]
  BY DEF PartInv, Types, Begin
<1>3. PICK where \in {"done", "open"} :
        tr' = [tr EXCEPT ![t] = [@ EXCEPT !.pc = where, !.total = SizeOf[version]]]
  BY DEF Begin
<1> DEFINE r == [tr[t] EXCEPT !.pc = where, !.total = SizeOf[version]]
<1>4. r \in Local /\ r.pc = where
  BY <1>1, <1>2 DEF Local
<1>5. tr' = [tr EXCEPT ![t] = r]
  BY <1>3
<1>6. UNCHANGED <<version, content, nextIno, part, final, failures, shared>>
  BY DEF Begin
<1>7. failures' \in 0 .. MaxFailures /\ failures' >= failures
  BY <1>6, PartFileAssumption DEF PartInv, Types
<1> HIDE DEF r
<1>8. QED
  BY <1>2, <1>4, <1>5, <1>6, <1>7, RecordInv

\* A failure leaves the .part file where it is.
LEMMA FailInv == ASSUME PartInv, NEW t \in Transfers, Fail(t) PROVE PartInv'
<1>1. tr[t] \in Local /\ tr[t].kind \in Kinds
  BY DEF PartInv, Types, Local
<1>2. Idle(tr[t].kind) \in Local /\ Idle(tr[t].kind).pc = "idle"
  BY <1>1 DEF Idle, Local
<1>3. failures' \in 0 .. MaxFailures /\ failures' = failures + 1 /\ failures' >= failures
  BY PartFileAssumption DEF Fail, PartInv, Types
<1>4. QED
  BY <1>2, <1>3, RecordInv DEF Fail

\* The end of the remote file is reached with the expected length or not at all.
LEMMA EndOfFileInv == ASSUME PartInv, NEW t \in Transfers, EndOfFile(t) PROVE PartInv'
<1> DEFINE r == [tr[t] EXCEPT !.pc = "failed"]
<1>1. tr[t] \in Local /\ tr[t].pc = "copy"
  BY DEF PartInv, Types, EndOfFile
<1>2. r \in Local /\ r.pc = "failed"
  BY <1>1 DEF Local
<1>3. tr' = [tr EXCEPT ![t] = r]
  BY DEF EndOfFile
<1>4. failures' \in 0 .. MaxFailures /\ failures' >= failures
  BY PartFileAssumption DEF EndOfFile, PartInv, Types
<1>5. UNCHANGED <<version, content, nextIno, part, final, failures, shared>>
  BY DEF EndOfFile
<1> HIDE DEF r
<1>6. QED
  BY <1>1, <1>2, <1>3, <1>4, <1>5, RecordInv

\* A byte is appended where the transfer believes the end to be.
LEMMA CopyByteInv == ASSUME PartInv, NEW t \in Transfers, CopyByte(t) PROVE PartInv'
<1> USE DEF PartInv
<1> DEFINE x == tr[t]
           pos == IF x.append THEN Len(content[x.ino]) ELSE x.off
           b == Byte(version, x.off)
           c == WriteAt(content[x.ino], pos, b)
           r == [x EXCEPT !.off = @ + 1]
<1>1. /\ x.pc = "copy" /\ x.off < x.total
      /\ content' = [content EXCEPT ![x.ino] = c]
      /\ tr' = [tr EXCEPT ![t] = r]
      /\ UNCHANGED <<version, nextIno, part, final, failures, shared>>
  BY DEF CopyByte
<1>2. /\ x \in Local /\ x.ino \in Inodes /\ x.off \in Nat /\ x.total \in Nat
      /\ content[x.ino] \in Seq(Cells) /\ version \in Versions
  BY <1>1 DEF OpenInv, Types, Local
<1>3. pos \in Nat /\ b \in Cells
  BY <1>2, LenProperties DEF Byte, Cells
<1>4. c \in Seq(Cells)
      /\ Len(c) = IF pos < Len(content[x.ino]) THEN Len(content[x.ino]) ELSE pos + 1
  BY <1>2, <1>3, WriteFacts
<1>5. r \in Local /\ r.pc = "copy" /\ r.ino = x.ino /\ r.total = x.total /\ r.off = x.off + 1
  BY <1>1, <1>2 DEF Local
<1>6. tr'[t] = r /\ \A u \in Transfers \ {t} : tr'[u] = tr[u]
  BY <1>1 DEF Types
<1>7. content'[x.ino] = c /\ \A i \in Inodes \ {x.ino} : content'[i] = content[i]
  BY <1>1, <1>2 DEF Types
<1> HIDE DEF c, r, b
<1>8. Types'
  BY <1>1, <1>4, <1>5 DEF Types
<1>9. CountInv'
  <2>1. Started' = Started
    BY <1>1, <1>5, <1>6 DEF Started
  <2>2. QED
    BY <1>1, <2>1 DEF CountInv
<1>10. PathsInv' /\ OpenInv'
  BY <1>1, <1>2, <1>5, <1>6 DEF PathsInv, OpenInv
<1>11. AloneInv'
  <2> SUFFICES ASSUME ~shared PROVE AloneInv'
    BY <1>1 DEF AloneInv
  <2>1. part = x.ino /\ part # None /\ Len(content[x.ino]) = x.off
    BY <1>1 DEF AloneInv
  <2>2. pos = x.off /\ Len(c) = x.off + 1 /\ x.off + 1 <= x.total
    BY <1>1, <1>2, <1>4, <2>1
  <2>3. \A u \in Transfers : tr'[u].pc = "copy" => u = t
    BY <1>1, <1>6 DEF AloneInv
  <2>4. Len(content'[part]) = r.off /\ r.off <= r.total
    BY <1>5, <1>7, <2>1, <2>2
  <2>5. QED
    BY <1>1, <1>5, <1>6, <2>1, <2>3, <2>4 DEF AloneInv
<1>12. QED
  BY <1>8, <1>9, <1>10, <1>11

\* The rename takes a whole file to the target and the .part name away.
LEMMA RenameInv == ASSUME PartInv, NEW t \in Transfers, Rename(t) PROVE PartInv'
<1> USE DEF PartInv
<1>1. PICK where \in {"done", "failed"} : tr' = [tr EXCEPT ![t] = [@ EXCEPT !.pc = where]]
  BY DEF Rename
<1> DEFINE r == [tr[t] EXCEPT !.pc = where]
<1>2. /\ tr[t].pc = "copy" /\ tr[t] \in Local
      /\ UNCHANGED <<version, content, nextIno, failures, shared>>
      /\ \/ part = None /\ UNCHANGED <<part, final>>
         \/ part # None /\ final' = part /\ part' = None
  BY DEF Rename, Types
<1>3. r \in Local /\ r.pc = where
  BY <1>2 DEF Local
<1>4. tr' = [tr EXCEPT ![t] = r]
  BY <1>1
<1> HIDE DEF r
<1>5. tr'[t] = r /\ \A u \in Transfers \ {t} : tr'[u] = tr[u]
  BY <1>4 DEF Types
<1>6. Types'
  BY <1>2, <1>3, <1>4 DEF Types
<1>7. CountInv'
  <2>1. Started' = Started
    BY <1>2, <1>3, <1>5 DEF Started
  <2>2. QED
    BY <1>2, <2>1 DEF CountInv
<1>8. PathsInv'
  BY <1>2 DEF PathsInv, Types
<1>9. OpenInv'
  BY <1>2, <1>3, <1>5 DEF OpenInv
<1>10. AloneInv'
  <2> SUFFICES ASSUME ~shared PROVE \A u \in Transfers : tr'[u].pc # "copy"
    BY <1>2 DEF AloneInv
  <2>1. \A u \in Transfers : tr[u].pc = "copy" => u = t
    BY <1>2 DEF AloneInv
  <2>2. QED
    BY <1>3, <1>5, <2>1
<1>11. QED
  BY <1>6, <1>7, <1>8, <1>9, <1>10

\* Opening to append keeps what is there, opening afresh empties the file or
\* takes a new one; either way the transfer starts where the file ends.
LEMMA OpenPartFacts ==
  ASSUME PartInv, NEW t \in Transfers, OpenPart(t)
  PROVE  \E i \in Inodes, r \in Local :
           /\ r.pc = "copy" /\ r.ino = i /\ part' = i /\ i \in 1 .. (nextIno' - 1)
           /\ i # final
           /\ tr' = [tr EXCEPT ![t] = r]
           /\ content' \in [Inodes -> Seq(Cells)]
           /\ \A k \in Inodes \ {i} : content'[k] = content[k]
           /\ Len(content'[i]) = r.off /\ r.off <= r.total
           /\ nextIno' \in {nextIno, nextIno + 1}
<1> USE DEF PartInv
<1>1. tr[t].pc = "open" /\ tr[t] \in Local /\ tr[t].total \in Nat /\ t \notin Started
  BY DEF OpenPart, Types, Local, Started
<1>2. nextIno \in Inodes /\ nextIno \in Nat /\ nextIno >= 1
  BY <1>1, InodeLeft DEF Types
<1>3. CASE CanResume(t)
  <2> DEFINE r == [tr[t] EXCEPT !.pc = "copy", !.off = Len(content[part]), !.ino = part,
                                !.append = TRUE]
  <2>1. part # None /\ part \in Inodes /\ Len(content[part]) < tr[t].total
    BY <1>3 DEF CanResume, PathsInv
  <2>2. Len(content[part]) \in Nat
    BY <2>1, LenProperties DEF Types
  <2>3. /\ r \in Local /\ r.pc = "copy" /\ r.ino = part /\ r.total = tr[t].total
        /\ r.off = Len(content[part])
    BY <1>1, <2>1, <2>2 DEF Local
  <2>4. tr' = [tr EXCEPT ![t] = r] /\ UNCHANGED <<content, nextIno, part>>
    BY <1>3 DEF OpenPart
  <2> HIDE DEF r
  <2>5. r.off <= r.total
    BY <1>1, <2>1, <2>2, <2>3
  <2>6. part \in 1 .. (nextIno' - 1) /\ part # final
    BY <2>1, <2>4 DEF PathsInv
  <2>7. QED
    BY <2>1, <2>3, <2>4, <2>5, <2>6 DEF Types
<1>4. CASE ~CanResume(t)
  <2> DEFINE i == IF part = None THEN nextIno ELSE part
             r == [tr[t] EXCEPT !.pc = "copy", !.off = 0, !.ino = i, !.append = FALSE]
  <2>1. i \in Inodes /\ i # final
    BY <1>2, NoneAssumption DEF PathsInv
  <2>2. /\ r \in Local /\ r.pc = "copy" /\ r.ino = i /\ r.total = tr[t].total /\ r.off = 0
    BY <1>1, <2>1 DEF Local
  <2>3. /\ tr' = [tr EXCEPT ![t] = r] /\ part' = i
        /\ content' = [content EXCEPT ![i] = <<>>]
        /\ nextIno' = IF part = None THEN nextIno + 1 ELSE nextIno
    BY <1>4 DEF OpenPart
  <2>4. i \in 1 .. (nextIno' - 1) /\ nextIno' \in {nextIno, nextIno + 1}
    BY <1>2, <2>3 DEF PathsInv
  <2> HIDE DEF i, r
  <2>5. <<>> \in Seq(Cells) /\ Len(<<>>) = 0
    BY EmptySeq
  <2>6. content'[i] = <<>> /\ \A k \in Inodes \ {i} : content'[k] = content[k]
    BY <2>1, <2>3 DEF Types
  <2>7. content' \in [Inodes -> Seq(Cells)]
    BY <2>1, <2>3, <2>5 DEF Types
  <2>8. Len(content'[i]) = r.off /\ r.off <= r.total
    BY <1>1, <2>2, <2>5, <2>6
  <2>9. QED
    BY <2>1, <2>2, <2>3, <2>4, <2>6, <2>7, <2>8
<1>5. QED
  BY <1>3, <1>4

\* Earlier numbers stay in the range as it grows.
LEMMA Below ==
  ASSUME NEW a \in Nat, NEW b \in Nat, b >= a
  PROVE  \A k \in 0 .. (a - 1) : k \in 0 .. (b - 1)
  OBVIOUS

\* Opening continues the .part file or starts a new one.
LEMMA OpenPartInv == ASSUME PartInv, NEW t \in Transfers, OpenPart(t) PROVE PartInv'
<1> USE DEF PartInv
<1>1. PICK i \in Inodes, r \in Local :
           /\ r.pc = "copy" /\ r.ino = i /\ part' = i /\ i \in 1 .. (nextIno' - 1)
           /\ i # final
           /\ tr' = [tr EXCEPT ![t] = r]
           /\ content' \in [Inodes -> Seq(Cells)]
           /\ \A k \in Inodes \ {i} : content'[k] = content[k]
           /\ Len(content'[i]) = r.off /\ r.off <= r.total
           /\ nextIno' \in {nextIno, nextIno + 1}
  BY OpenPartFacts
<1>2. /\ tr[t].pc = "open"
      /\ shared' = (shared \/ \E u \in Transfers \ {t} : tr[u].pc = "copy")
      /\ UNCHANGED <<version, final, failures>>
  BY DEF OpenPart
<1>3. tr'[t] = r /\ \A u \in Transfers \ {t} : tr'[u] = tr[u]
  BY <1>1 DEF Types
<1>4. shared' \in BOOLEAN
  BY <1>2 DEF Types
<1>5. /\ nextIno \in Nat /\ nextIno' \in Nat /\ nextIno >= 1
      /\ nextIno' >= nextIno /\ nextIno' <= nextIno + 1
  BY <1>1 DEF Types
<1>6. Types'
  BY <1>1, <1>2, <1>4, <1>5 DEF Types
<1>7. CountInv'
  <2>1. Started' = Started \cup {t} /\ t \notin Started
    BY <1>1, <1>2, <1>3 DEF Started
  <2>2. Cardinality(Started') = Cardinality(Started) + 1
    BY <2>1, StartedFinite, FS_AddElement
  <2> DEFINE n == Cardinality(Started)
             m == Cardinality(Started')
  <2>3. n \in Nat /\ m = n + 1 /\ nextIno <= 1 + failures + n /\ failures \in Nat
        /\ failures' = failures /\ nextIno \in Nat
    BY <1>2, <2>2, StartedFinite, PartFileAssumption DEF CountInv, Types
  <2> HIDE DEF n, m
  <2>4. nextIno' <= 1 + failures' + m
    BY <1>5, <2>3
  <2>5. QED
    BY <2>4 DEF CountInv, m
<1>8. PathsInv'
  <2>1. \A k \in 0 .. (nextIno - 1) : k \in 0 .. (nextIno' - 1)
    BY <1>5, Below
  <2>2. final' \in (0 .. (nextIno' - 1) \cap Inodes) \cup {None}
    BY <1>2, <2>1 DEF PathsInv
  <2>3. part' \in (1 .. (nextIno' - 1) \cap Inodes) \cup {None} /\ part' # final'
    BY <1>1, <1>2
  <2>4. QED
    BY <2>2, <2>3 DEF PathsInv
<1>9. OpenInv'
  BY <1>1, <1>3 DEF OpenInv
<1>10. AloneInv'
  <2> SUFFICES ASSUME ~shared' PROVE AloneInv'
    BY DEF AloneInv
  <2>1. \A u \in Transfers : tr'[u].pc = "copy" => u = t
    BY <1>2, <1>3
  <2>2. part' = tr'[t].ino /\ part' # None /\ Len(content'[part']) = tr'[t].off
        /\ tr'[t].off <= tr'[t].total
    BY <1>1, <1>3, NoneAssumption
  <2>3. QED
    BY <2>1, <2>2 DEF AloneInv
<1>11. QED
  BY <1>6, <1>7, <1>8, <1>9, <1>10

\* Changes of the remote file touch nothing local.
LEMMA RestInv == ASSUME PartInv, RemoteChange \/ UNCHANGED partVars PROVE PartInv'
<1> USE DEF PartInv
<1>1. UNCHANGED <<content, nextIno, part, final, tr, failures, shared>>
  BY DEF RemoteChange, partVars
<1>2. version' \in Versions
  <2>1. CASE RemoteChange
    <3>1. Versions = 1 .. Len(SizeOf) /\ Len(SizeOf) \in Nat
      BY PartFileAssumption, LenProperties DEF Versions
    <3>2. QED
      BY <2>1, <3>1 DEF RemoteChange, Types
  <2>2. QED
    BY <2>1 DEF partVars, Types
<1>3. Types'
  BY <1>1, <1>2 DEF Types
<1>4. Started' = Started
  BY <1>1 DEF Started
<1>5. CountInv' /\ PathsInv'
  BY <1>1, <1>4 DEF CountInv, PathsInv
<1>6. AloneInv' /\ OpenInv'
  BY <1>1 DEF AloneInv, OpenInv
<1>7. QED
  BY <1>3, <1>5, <1>6

\* The invariant is inductive.
LEMMA StepInv == PartInv /\ [PartNext]_partVars => PartInv'
  BY BeginInv, OpenPartInv, CopyByteInv, EndOfFileInv, RenameInv, FailInv, RestInv
     DEF PartNext, Advance

-----------------------------------------------------------------------------
\* What one step may do to the target: nothing, or replace it by a whole file.
ReplacedWhole ==
  ~shared' =>
    /\ final # None /\ final' = final => content'[final] = content[final]
    /\ final' # final =>
         \E t \in Transfers : tr'[t].pc = "done" /\ Len(content'[final']) = tr[t].total

\* Every step that changes the target replaces it by a whole file.
LEMMA StepReplaces == PartInv /\ [PartNext]_partVars => ReplacedWhole
<1> SUFFICES ASSUME PartInv, [PartNext]_partVars, ~shared'
             PROVE  /\ final # None /\ final' = final => content'[final] = content[final]
                    /\ final' # final =>
                         \E t \in Transfers :
                           tr'[t].pc = "done" /\ Len(content'[final']) = tr[t].total
  BY DEF ReplacedWhole
<1> USE DEF PartInv
<1>1. CASE UNCHANGED <<content, final>>
  BY <1>1
<1>2. ASSUME NEW t \in Transfers, OpenPart(t)
      PROVE  final' = final /\ (final # None => content'[final] = content[final])
  <2>1. final' = final
    BY <1>2 DEF OpenPart
  <2>2. final # None => final \in Inodes
    BY DEF PathsInv
  <2>3. QED
    BY <1>2, <2>1, <2>2, OpenPartFacts
<1>3. ASSUME NEW t \in Transfers, CopyByte(t)
      PROVE  final' = final /\ (final # None => content'[final] = content[final])
  <2>1. ~shared /\ tr[t].pc = "copy" /\ final' = final
    BY <1>3 DEF CopyByte
  <2>2. tr[t].ino = part /\ part # None
    BY <2>1 DEF AloneInv
  <2>3. part # final
    BY <2>2 DEF PathsInv
  <2>4. \E c : content' = [content EXCEPT ![part] = c]
    BY <1>3, <2>2 DEF CopyByte
  <2>5. final # None => final \in Inodes
    BY DEF PathsInv
  <2>6. QED
    BY <2>1, <2>3, <2>4, <2>5 DEF Types
<1>4. ASSUME NEW t \in Transfers, Rename(t), final' # final
      PROVE  tr'[t].pc = "done" /\ Len(content'[final']) = tr[t].total
  <2>1. /\ final' = part /\ content' = content /\ ~shared
        /\ tr' = [tr EXCEPT ![t].pc = "done"]
        /\ tr[t].pc = "copy" /\ tr[t].off >= tr[t].total
    BY <1>4 DEF Rename
  <2>2. Len(content[part]) = tr[t].off /\ tr[t].off <= tr[t].total
    BY <2>1 DEF AloneInv
  <2>3. tr[t].off \in Nat /\ tr[t].total \in Nat /\ tr[t] \in Local
    BY DEF Types, Local
  <2>4. tr'[t].pc = "done"
    BY <2>1, <2>3 DEF Types, Local
  <2>5. QED
    BY <2>1, <2>2, <2>3, <2>4
<1>5. ASSUME NEW t \in Transfers, Rename(t), final' = final
      PROVE  content' = content
  BY <1>5 DEF Rename
<1>6. ASSUME NEW t \in Transfers, Begin(t) \/ EndOfFile(t) \/ Fail(t)
      PROVE  UNCHANGED <<content, final>>
  BY <1>6 DEF Begin, EndOfFile, Fail
<1>7. CASE RemoteChange \/ UNCHANGED partVars
  BY <1>7 DEF RemoteChange, partVars
<1>8. QED
  BY <1>1, <1>2, <1>3, <1>4, <1>5, <1>6, <1>7 DEF PartNext, Advance

\* Every state of the protocol satisfies the invariant: a transfer that has the
\* `.part` file to itself has written all of it, and the `.part` file is never
\* the file at the target path.
THEOREM PartInductiveInvariant == PartSpec => []PartInv
  BY PartInitInv, StepInv, PTL DEF PartSpec

\* A file at the target path is never written to, and what replaces it has the
\* length its transfer expected, however often transfers fail and are resumed.
THEOREM TargetIsReplacedWhole == PartSpec => TargetReplacedWhole
<1>1. PartInv /\ [PartNext]_partVars => [ReplacedWhole]_partVars
  BY StepReplaces
<1>2. PartSpec => [][ReplacedWhole]_partVars
  BY <1>1, PartInductiveInvariant, PTL DEF PartSpec
<1>3. [][ReplacedWhole]_partVars <=> TargetReplacedWhole
  BY DEF ReplacedWhole, TargetReplacedWhole
<1>4. QED
  BY <1>2, <1>3
-----------------------------------------------------------------------------
(* The target while the remote file stays what it was.                     *)

\* A file that holds the beginning of the first version and nothing else.
Beginning(c) == Len(c) <= SizeOf[1] /\ \A k \in 1 .. Len(c) : c[k] = Byte(1, k - 1)

\* Undisturbed transfers expect the first version, continue its beginning, and
\* have only moved complete copies of it to the target.
FirstInv ==
  version = 1 /\ ~shared =>
    /\ \A t \in Transfers : tr[t].pc \in {"open", "copy"} => tr[t].total = SizeOf[1]
    /\ part # None => Beginning(content[part])
    /\ final # None => Intact(content[final])

\* A beginning as long as the first version is all of it.
LEMMA BeginningWhole ==
  ASSUME NEW c \in Seq(Cells), Beginning(c), Len(c) >= SizeOf[1]
  PROVE  Intact(c)
<1>1. 1 \in Versions /\ SizeOf[1] \in Nat /\ Len(c) \in Nat
  BY PartFileAssumption, LenProperties DEF Versions
<1>2. Len(c) = SizeOf[1]
  BY <1>1 DEF Beginning
<1>3. c = [k \in 1 .. Len(c) |-> c[k]]
  BY LenProperties
<1>4. c = Whole(1)
  BY <1>2, <1>3 DEF Beginning, Whole
<1>5. QED
  BY <1>1, <1>4 DEF Intact

\* The next byte of the first version, written at the end, makes a longer beginning.
LEMMA BeginningGrows ==
  ASSUME NEW c \in Seq(Cells), Beginning(c), Len(c) < SizeOf[1]
  PROVE  Beginning(WriteAt(c, Len(c), Byte(1, Len(c))))
<1> DEFINE n == Len(c)
           d == WriteAt(c, n, Byte(1, n))
<1>1. 1 \in Versions /\ SizeOf[1] \in Nat /\ n \in Nat
  BY PartFileAssumption, LenProperties DEF Versions
<1>2. Byte(1, n) \in Cells
  BY <1>1 DEF Byte, Cells
<1>3. Len(d) = n + 1
  BY <1>1, <1>2, WriteFacts
<1>4. \A k \in 1 .. (n + 1) : d[k] = IF k = n + 1 THEN Byte(1, n) ELSE c[k]
  BY <1>1 DEF WriteAt
<1>5. \A k \in 1 .. n : c[k] = Byte(1, k - 1)
  BY DEF Beginning
<1> HIDE DEF n, d
<1>6. ASSUME NEW k \in 1 .. (n + 1)
      PROVE  d[k] = Byte(1, k - 1)
  <2>1. CASE k = n + 1
    <3>1. k - 1 = n
      BY <1>1, <2>1
    <3>2. QED
      BY <1>4, <2>1, <3>1
  <2>2. CASE k # n + 1
    <3>1. k \in 1 .. n
      BY <1>1, <2>2
    <3>2. QED
      BY <1>4, <1>5, <2>2, <3>1
  <2>3. QED
    BY <2>1, <2>2
<1>7. n + 1 <= SizeOf[1]
  BY <1>1 DEF n
<1>8. QED
  BY <1>3, <1>6, <1>7 DEF Beginning, d, n

\* At first the target, if there is one, is the first version.
LEMMA FirstInit == PartInit => FirstInv
<1> SUFFICES ASSUME PartInit PROVE FirstInv
  OBVIOUS
<1>1. 1 \in Versions /\ 0 \in Inodes
  BY PartFileAssumption, StartedFinite, EmptySeq DEF Versions, Inodes
<1>2. \A t \in Transfers : tr[t].pc = "idle"
  BY DEF PartInit, Idle
<1>3. content[0] = Whole(1)
  BY <1>1 DEF PartInit
<1>4. Intact(content[0])
  BY <1>1, <1>3 DEF Intact
<1>5. part = None /\ final \in {None, 0}
  BY DEF PartInit
<1>6. QED
  BY <1>2, <1>4, <1>5 DEF FirstInv

\* Undisturbed steps were undisturbed before.
LEMMA StillFirst ==
  ASSUME PartInv, [PartNext]_partVars, version' = 1, ~shared'
  PROVE  version = 1 /\ ~shared
<1>1. Versions = 1 .. Len(SizeOf) /\ Len(SizeOf) \in Nat
  BY PartFileAssumption, LenProperties DEF Versions
<1>2. version \in Nat /\ version >= 1
  BY <1>1 DEF PartInv, Types
<1>3. version' = version \/ RemoteChange
  BY DEF PartNext, Advance, Begin, OpenPart, CopyByte, EndOfFile, Rename, Fail, partVars
<1>4. shared' = shared \/ \E t \in Transfers : OpenPart(t)
  BY DEF PartNext, Advance, Begin, CopyByte, EndOfFile, Rename, Fail, RemoteChange, partVars
<1>5. version' \in {version, version + 1}
  BY <1>3 DEF RemoteChange
<1>6. ~shared
  BY <1>4 DEF OpenPart
<1>7. QED
  BY <1>2, <1>5, <1>6

\* A transfer that starts expects the file that is there.
LEMMA FirstTotals ==
  ASSUME PartInv, [PartNext]_partVars, FirstInv, version' = 1, ~shared', NEW t \in Transfers,
         tr'[t].pc \in {"open", "copy"}
  PROVE  tr'[t].total = SizeOf[1]
<1>1. version = 1 /\ ~shared
  BY StillFirst
<1>2. tr \in [Transfers -> Local] /\ tr[t] \in Local
  BY DEF PartInv, Types
<1>3. \A u \in Transfers : tr[u].pc \in {"open", "copy"} => tr[u].total = SizeOf[1]
  BY <1>1 DEF FirstInv
<1> USE DEF Local
<1>4. CASE Begin(t)
  BY <1>1, <1>2, <1>4 DEF Begin
<1>5. CASE OpenPart(t)
  BY <1>2, <1>3, <1>5 DEF OpenPart
<1>6. CASE CopyByte(t)
  BY <1>2, <1>3, <1>6 DEF CopyByte
<1>7. CASE EndOfFile(t) \/ Rename(t) \/ Fail(t)
  BY <1>2, <1>3, <1>7 DEF EndOfFile, Rename, Fail, Idle
<1>8. ASSUME NEW u \in Transfers, u # t, Advance(u) \/ Fail(u)
      PROVE  tr'[t] = tr[t]
  BY <1>2, <1>8 DEF Advance, Begin, OpenPart, CopyByte, EndOfFile, Rename, Fail
<1>9. CASE RemoteChange \/ UNCHANGED partVars
  BY <1>3, <1>9 DEF RemoteChange, partVars
<1>10. QED
  BY <1>3, <1>4, <1>5, <1>6, <1>7, <1>8, <1>9 DEF PartNext, Advance

\* The `.part` file stays a beginning of the first version.
LEMMA FirstPart ==
  ASSUME PartInv, [PartNext]_partVars, FirstInv, version' = 1, ~shared', part' # None
  PROVE  Beginning(content'[part'])
<1> USE DEF PartInv
<1>1. version = 1 /\ ~shared
  BY StillFirst
<1>2. part # None => part \in Inodes /\ Beginning(content[part])
  BY <1>1 DEF FirstInv, PathsInv
<1>3. CASE UNCHANGED <<content, part>>
  BY <1>2, <1>3
<1>4. ASSUME NEW t \in Transfers, OpenPart(t)
      PROVE  Beginning(content'[part'])
  <2>1. CASE CanResume(t)
    <3>1. UNCHANGED <<content, part>>
      BY <1>4, <2>1 DEF OpenPart
    <3>2. QED
      BY <1>2, <3>1
  <2>2. CASE ~CanResume(t)
    <3>1. t \notin Started
      BY <1>4 DEF OpenPart, Started
    <3>2. nextIno \in Inodes
      BY <3>1, InodeLeft
    <3>3. \E i \in Inodes : part' = i /\ content' = [content EXCEPT ![i] = <<>>]
      BY <1>2, <1>4, <2>2, <3>2 DEF OpenPart
    <3>4. content'[part'] = <<>>
      BY <3>3 DEF Types
    <3>5. SizeOf[1] \in Nat
      BY PartFileAssumption DEF Versions
    <3>6. QED
      BY <3>4, <3>5, EmptySeq DEF Beginning
  <2>3. QED
    BY <2>1, <2>2
<1>5. ASSUME NEW t \in Transfers, CopyByte(t)
      PROVE  Beginning(content'[part'])
  <2> DEFINE x == tr[t]
  <2>1. /\ x.pc = "copy" /\ x.off < x.total /\ part' = part
        /\ content' = [content EXCEPT ![x.ino] = WriteAt(@,
              IF x.append THEN Len(content[x.ino]) ELSE x.off, Byte(version, x.off))]
    BY <1>5 DEF CopyByte
  <2>2. part = x.ino /\ part # None /\ Len(content[part]) = x.off /\ x.total = SizeOf[1]
    BY <1>1, <2>1 DEF AloneInv, FirstInv
  <2>3. content[part] \in Seq(Cells)
    BY <1>2, <2>2 DEF Types
  <2> DEFINE c == content[part]
  <2>4. content'[part] = WriteAt(c, Len(c), Byte(1, Len(c)))
    BY <1>1, <1>2, <2>1, <2>2 DEF Types
  <2>5. Beginning(c) /\ Len(c) < SizeOf[1]
    BY <1>2, <2>1, <2>2
  <2> HIDE DEF c
  <2>6. Beginning(WriteAt(c, Len(c), Byte(1, Len(c))))
    BY <2>3, <2>5, BeginningGrows DEF c
  <2>7. QED
    BY <2>1, <2>4, <2>6
<1>6. ASSUME NEW t \in Transfers, Rename(t)
      PROVE  UNCHANGED <<content, part>>
  BY <1>6 DEF Rename
<1>7. ASSUME NEW t \in Transfers, Begin(t) \/ EndOfFile(t) \/ Fail(t)
      PROVE  UNCHANGED <<content, part>>
  BY <1>7 DEF Begin, EndOfFile, Fail
<1>8. CASE RemoteChange \/ UNCHANGED partVars
  BY <1>3, <1>8 DEF RemoteChange, partVars
<1>9. QED
  BY <1>3, <1>4, <1>5, <1>6, <1>7, <1>8 DEF PartNext, Advance

\* Only the complete first version comes to the target.
LEMMA FirstFinal ==
  ASSUME PartInv, [PartNext]_partVars, FirstInv, version' = 1, ~shared', final' # None
  PROVE  Intact(content'[final'])
<1>1. version = 1 /\ ~shared
  BY StillFirst
<1>2. CASE final' = final
  <2>1. content'[final] = content[final]
    BY <1>2, StepReplaces DEF ReplacedWhole
  <2>2. Intact(content[final])
    BY <1>1, <1>2 DEF FirstInv
  <2>3. QED
    BY <1>2, <2>1, <2>2
<1>3. CASE final' # final
  <2>1. PICK t \in Transfers : Rename(t)
    BY <1>3 DEF PartNext, Advance, Begin, OpenPart, CopyByte, EndOfFile, Fail, RemoteChange, partVars
  <2>2. /\ part # None /\ final' = part /\ content' = content
        /\ tr[t].pc = "copy" /\ tr[t].off >= tr[t].total
    BY <1>3, <2>1 DEF Rename
  <2>3. Len(content[part]) = tr[t].off /\ tr[t].total = SizeOf[1] /\ Beginning(content[part])
    BY <1>1, <2>2 DEF PartInv, AloneInv, FirstInv
  <2>4. content[part] \in Seq(Cells)
    BY <2>2 DEF PartInv, Types, PathsInv
  <2>5. Intact(content[part])
    BY <2>2, <2>3, <2>4, BeginningWhole
  <2>6. QED
    BY <2>2, <2>5
<1>4. QED
  BY <1>2, <1>3

\* However often downloads of the target are interrupted, killed and resumed, by
\* whichever command, it is intact as long as the remote file stays what it was
\* and no two downloads of it overlap.
THEOREM TargetStaysIntact == PartSpec => []IntactWhenUndisturbed
<1>1. PartInit => PartInv /\ FirstInv
  BY PartInitInv, FirstInit
<1>2. PartInv /\ FirstInv /\ [PartNext]_partVars => (PartInv /\ FirstInv)'
  <2> SUFFICES ASSUME PartInv, FirstInv, [PartNext]_partVars PROVE PartInv' /\ FirstInv'
    OBVIOUS
  <2>1. FirstInv'
    BY FirstTotals, FirstPart, FirstFinal DEF FirstInv
  <2>2. QED
    BY StepInv, <2>1
<1>3. FirstInv => IntactWhenUndisturbed
  BY DEF FirstInv, IntactWhenUndisturbed
<1>4. QED
  BY <1>1, <1>2, <1>3, PTL DEF PartSpec
===============================================================================
