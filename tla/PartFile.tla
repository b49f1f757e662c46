------------------------------- MODULE PartFile -------------------------------
(***************************************************************************)
(* The `.part` protocol around a download: shortcuts::download (sshore     *)
(* scp, with or without --resume) and run_file_transfer of the browser.    *)
(* A download is stat'ed, opened (appending to a `.part` file it can       *)
(* resume, else truncating or creating it), copied and renamed over the    *)
(* target path.  It may fail or its process may die between any two steps, *)
(* the remote file may be replaced, and several transfers may be told to   *)
(* produce the same target.                                                *)
(*                                                                         *)
(* The copy itself is PrefixCopy, which DownloadPipeline implements: bytes *)
(* arrive in order, the copy can stop anywhere.  A byte is named by the    *)
(* version of the remote file it was read from and its offset there.       *)
(* Files are inodes, because a rename moves a file others have open.       *)
(***************************************************************************)
EXTENDS Integers, Sequences, FiniteSets

CONSTANTS
  Transfers,    \* transfers that write one target path
  SizeOf,       \* SizeOf[v]: size of version v of the remote file (v \in 1..n)
  MaxFailures,  \* bound: how many attempts fail or die
  Kinds,        \* which callers: subset of {"scp", "resume", "browser"}
  None          \* no file at a path

Versions == DOMAIN SizeOf

ASSUME PartFileAssumption ==
  /\ SizeOf \in Seq(Nat) /\ SizeOf # <<>>
  /\ MaxFailures \in Nat
  /\ Kinds \subseteq {"scp", "resume", "browser"}
  /\ IsFiniteSet(Transfers)

\* One inode per attempt that can create one, and 0 for the file that may be
\* at the target path from before.
Inodes == 0 .. (Cardinality(Transfers) + MaxFailures)
ASSUME NoneAssumption == None \notin Inodes
Hole   == <<0, 0>>

VARIABLES
  version,    \* current version of the remote file
  content,    \* content[i]: bytes of inode i
  nextIno,    \* next unused inode
  part,       \* inode at the `.part` path, or None
  final,      \* inode at the target path, or None
  tr,         \* tr[t]: the transfer's local variables
  failures,   \* attempts that failed so far
  shared      \* history: two transfers used the `.part` file at a time

partVars == <<version, content, nextIno, part, final, tr, failures, shared>>

Byte(v, off) == <<v, off>>
Whole(v)     == [i \in 1 .. SizeOf[v] |-> Byte(v, i - 1)]

\* A file whose bytes are one version of the remote file, all of it.
Intact(c) == \E v \in Versions : c = Whole(v)

\* write(2) of byte b at position pos: past the end it leaves a hole.
WriteAt(c, pos, b) ==
  [i \in 1 .. (IF pos < Len(c) THEN Len(c) ELSE pos + 1) |->
     IF i = pos + 1 THEN b ELSE IF i <= Len(c) THEN c[i] ELSE Hole]

Idle(k) == [pc |-> "idle", kind |-> k, total |-> 0, off |-> 0, ino |-> None,
            append |-> FALSE]

PartInit ==
  /\ version = 1
  /\ content = [i \in Inodes |-> IF i = 0 THEN Whole(1) ELSE <<>>]
  /\ nextIno = 1
  /\ part = None
  /\ final \in {None, 0}          \* nothing, or an earlier complete download
  /\ tr \in [Transfers -> {Idle(k) : k \in Kinds}]
  /\ failures = 0
  /\ shared = FALSE

\* stat of the remote file (scp) or the size of the listing (browser); scp
\* --resume stops here when the target is already long enough.
Begin(t) ==
  LET total == SizeOf[version]
      complete == /\ tr[t].kind = "resume"
                  /\ final # None
                  /\ Len(content[final]) >= total
  IN /\ tr[t].pc = "idle"
     /\ tr' = [tr EXCEPT ![t].pc = IF complete THEN "done" ELSE "open",
                         ![t].total = total]
     /\ UNCHANGED <<version, content, nextIno, part, final, failures, shared>>

\* A `.part` that is neither empty nor as long as the remote file.
CanResume(t) ==
  /\ tr[t].kind # "scp"
  /\ part # None
  /\ Len(content[part]) > 0
  /\ Len(content[part]) < tr[t].total

\* MUTANT of OpenPart: the file is opened for append, the download starts at 0.
OpenPartFromZero(t) ==
  /\ tr[t].pc = "open"
  /\ IF CanResume(t)
       THEN /\ tr' = [tr EXCEPT ![t].pc = "copy", ![t].ino = part, ![t].append = TRUE]
            /\ UNCHANGED <<content, nextIno, part>>
       ELSE LET i == IF part = None THEN nextIno ELSE part
            IN  /\ tr' = [tr EXCEPT ![t].pc = "copy", ![t].ino = i]
                /\ content' = [content EXCEPT ![i] = <<>>]
                /\ part' = i
                /\ nextIno' = IF part = None THEN nextIno + 1 ELSE nextIno
  /\ shared' = (shared \/ \E u \in Transfers \ {t} : tr[u].pc = "copy")
  /\ UNCHANGED <<version, final, failures>>

\* MUTANT of OpenPart: File::create_new, which refuses a `.part` left behind.
OpenPartNew(t) ==
  /\ tr[t].pc = "open"
  /\ part = None
  /\ tr' = [tr EXCEPT ![t].pc = "copy", ![t].ino = nextIno]
  /\ content' = [content EXCEPT ![nextIno] = <<>>]
  /\ part' = nextIno
  /\ nextIno' = nextIno + 1
  /\ shared' = (shared \/ \E u \in Transfers \ {t} : tr[u].pc = "copy")
  /\ UNCHANGED <<version, final, failures>>

\* Append to the `.part` from its end, or File::create: truncate or create.
OpenPart(t) ==
  /\ tr[t].pc = "open"
  /\ IF CanResume(t)
       THEN /\ tr' = [tr EXCEPT ![t].pc = "copy", ![t].off = Len(content[part]),
                                ![t].ino = part, ![t].append = TRUE]
            /\ UNCHANGED <<content, nextIno, part>>
       ELSE LET i == IF part = None THEN nextIno ELSE part
            IN  /\ tr' = [tr EXCEPT ![t].pc = "copy", ![t].off = 0,
                                    ![t].ino = i, ![t].append = FALSE]
                /\ content' = [content EXCEPT ![i] = <<>>]
                /\ part' = i
                /\ nextIno' = IF part = None THEN nextIno + 1 ELSE nextIno
  /\ shared' = (shared \/ \E u \in Transfers \ {t} : tr[u].pc = "copy")
  /\ UNCHANGED <<version, final, failures>>

\* PrefixCopy: the next byte of the remote file, as it is now, is written; with
\* O_APPEND at the end of the file, otherwise at this descriptor's position.
CopyByte(t) ==
  LET s == tr[t]
      pos == IF s.append THEN Len(content[s.ino]) ELSE s.off
  IN /\ s.pc = "copy" /\ s.off < s.total
     /\ s.off < SizeOf[version]
     /\ content' = [content EXCEPT ![s.ino] = WriteAt(@, pos, Byte(version, s.off))]
     /\ tr' = [tr EXCEPT ![t].off = @ + 1]
     /\ UNCHANGED <<version, nextIno, part, final, failures, shared>>

\* The copy fails, or the process dies: the .part stays, and the user starts
\* the same download again.
Fail(t) ==
  /\ tr[t].pc \in {"open", "copy"}
  /\ failures < MaxFailures
  /\ failures' = failures + 1
  /\ tr' = [tr EXCEPT ![t] = Idle(tr[t].kind)]
  /\ UNCHANGED <<version, content, nextIno, part, final, shared>>

\* The remote file is now shorter than expected: READ past its end fails, and
\* the download is over.
EndOfFile(t) ==
  /\ tr[t].pc = "copy"
  /\ tr[t].off < tr[t].total /\ tr[t].off >= SizeOf[version]
  /\ tr' = [tr EXCEPT ![t].pc = "failed"]
  /\ UNCHANGED <<version, content, nextIno, part, final, failures, shared>>

\* MUTANT of Rename: the file goes to its target before it is complete.
RenameEarly(t) ==
  /\ tr[t].pc = "copy"
  /\ IF part = None
       THEN tr' = [tr EXCEPT ![t].pc = "failed"] /\ UNCHANGED <<part, final>>
       ELSE /\ final' = part
            /\ part' = None
            /\ tr' = [tr EXCEPT ![t].pc = "done"]
  /\ UNCHANGED <<version, content, nextIno, failures, shared>>

\* Copy complete: rename whatever is at the `.part` path over the target.
Rename(t) ==
  /\ tr[t].pc = "copy" /\ tr[t].off >= tr[t].total
  /\ IF part = None
       THEN tr' = [tr EXCEPT ![t].pc = "failed"] /\ UNCHANGED <<part, final>>
       ELSE /\ final' = part
            /\ part' = None
            /\ tr' = [tr EXCEPT ![t].pc = "done"]
  /\ UNCHANGED <<version, content, nextIno, failures, shared>>

\* The remote file is overwritten by its next version.
RemoteChange ==
  /\ version < Len(SizeOf)
  /\ version' = version + 1
  /\ UNCHANGED <<content, nextIno, part, final, tr, failures, shared>>

Advance(t) == Begin(t) \/ OpenPart(t) \/ CopyByte(t) \/ EndOfFile(t) \/ Rename(t)

PartNext ==
  \/ \E t \in Transfers : Advance(t) \/ Fail(t)
  \/ RemoteChange

PartSpec     == PartInit /\ [][PartNext]_partVars
PartFairSpec == PartSpec /\ \A t \in Transfers : WF_partVars(Advance(t))

-----------------------------------------------------------------------------
\* Types of the files and of a transfer's local variables.
PartTypeOK ==
  /\ version \in Versions
  /\ \A i \in Inodes : \A k \in DOMAIN content[i] :
       content[i][k] \in (Versions \X Nat) \cup {Hole}
  /\ nextIno \in 1 .. (Cardinality(Transfers) + MaxFailures + 1)
  /\ part \in Inodes \cup {None} /\ final \in Inodes \cup {None}
  /\ \A t \in Transfers :
       /\ tr[t].pc \in {"idle", "open", "copy", "done", "failed"}
       /\ tr[t].ino \in Inodes \cup {None}
       /\ tr[t].off \in 0 .. tr[t].total
  /\ failures \in 0 .. MaxFailures

\* However often downloads of the target are interrupted, killed and resumed,
\* by whichever command, the target is intact as long as the remote file stays
\* what it was and no two downloads of it overlap.
IntactWhenUndisturbed ==
  version = 1 /\ ~shared /\ final # None => Intact(content[final])

\* "The file is renamed to the final path only on success, so interrupted
\* downloads never corrupt an existing file at the target path": a file at the
\* target path is never written to, and what replaces it has the full length
\* the transfer expected, even when the remote file changes under it.
TargetReplacedWhole ==
  [][~shared' =>
       /\ final # None /\ final' = final => content'[final] = content[final]
       /\ final' # final =>
            \E t \in Transfers :
              tr'[t].pc = "done" /\ Len(content'[final']) = tr[t].total]_partVars

\* Downloads that are started again after each failure complete, unless the
\* remote file shrank under them or they took each other's `.part` file.
EventuallyPresent ==
  <>[](final # None /\ \A t \in Transfers : tr[t].pc = "done") \/ <>(version > 1 \/ shared)
=============================================================================
