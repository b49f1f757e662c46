----------------------------- MODULE TransferPool -----------------------------
(***************************************************************************)
(* One background copy or move of the dual-pane browser                    *)
(* (src/tui/views/browser.rs): a feeder fills a bounded queue with the     *)
(* expanded file list, workers on their own SFTP sessions take files from  *)
(* it, each transferring one file while prefetching the next, asking the   *)
(* user before an existing file is replaced; a heartbeat watches the       *)
(* sessions, extra workers join late, and the event loop collects the      *)
(* result and, for a move, removes the source directories.                 *)
(*                                                                         *)
(* main[w] is the worker loop, rx[w] the call of recv_next_target() it is  *)
(* making, either from the loop itself or from the prefetch future that    *)
(* runs beside a transfer.  A file's transfer is one step here: its inside *)
(* is DownloadPipeline, UploadPipeline and PartFile.                       *)
(***************************************************************************)
EXTENDS Integers, Sequences, FiniteSets

CONSTANTS
  Files,        \* the expanded file list
  Zero,         \* files of size zero
  Existing,     \* files already present at the destination
  InDir,        \* files that belong to a marked directory
  Workers,      \* workers that start with the transfer
  Extra,        \* workers that join while it runs
  QueueCap,     \* capacity of the work queue
  Upload,       \* direction: LocalToRemote
  Move,         \* is_move
  Faults,       \* TRUE: opens, transfers and sessions fail
  Answers,      \* what the user answers to an overwrite prompt
  Keys,         \* what else the user does: "skip", "cancel", "abandon"
  NoFile, NoWorker

ASSUME PoolAssumption ==
  /\ Zero \subseteq Files /\ Existing \subseteq Files /\ InDir \subseteq Files
  /\ Workers # {} /\ Workers \cap Extra = {} /\ NoFile \notin Files
  /\ QueueCap \in Nat \ {0}
  /\ {Upload, Move, Faults} \subseteq BOOLEAN
  /\ Answers \subseteq {"overwrite", "overwriteAll", "skip", "skipAll", "cancel"}
  /\ Keys \subseteq {"skip", "cancel", "abandon"}

VARIABLES
  unsent,     \* files the feed task has not sent yet
  queue,      \* the work queue
  txOpen,     \* the feed task still holds the sender
  main,       \* main[w]: [pc, cur, h, x, cc]
  rx,         \* rx[w]: [pc, file, pol, ans]
  pf,         \* pf[w]: prefetched [file, h]
  handles,    \* open file handles <<w, f>>
  cancel, skip, dead, policy, lastError,     \* the pool's shared flags
  closed,     \* workers whose session is closed
  copied,     \* files counted as copied
  src,        \* files still present at the source
  dst,        \* dst[f]: "absent", "old", "partial" or "new"
  deletions,  \* source deletions spawned and not yet carried out
  prompt,     \* worker whose query the user is looking at
  attached,   \* the browser still lists the transfer
  phase,      \* run_background_transfer: run, joined, stopping, returned, over
  result,     \* TransferResult: [copied, error]
  ghost       \* history: [attempts, skipped, allowed, stopped]

pool == <<cancel, skip, dead, policy, lastError>>
work == <<unsent, queue, txOpen>>
disk == <<src, dst, deletions>>
ui   == <<prompt, attached>>
bg   == <<phase, result>>
vars == <<work, main, rx, pf, handles, pool, closed, copied, disk, ui, bg, ghost>>

All       == Workers \cup Extra
At(pc, f) == [pc |-> pc, file |-> f, pol |-> 0, ans |-> "none"]
Off       == At("off", NoFile)
NoPf      == [file |-> NoFile, h |-> "none"]
NoMain    == [pc |-> "get", cur |-> NoFile, h |-> "none", x |-> "none", cc |-> FALSE]
Ready(f, h) == [At("ready", f) EXCEPT !.ans = h]

Init ==
  /\ unsent = Files /\ queue = <<>> /\ txOpen = TRUE
  /\ main = [w \in All |-> IF w \in Workers THEN NoMain ELSE [NoMain EXCEPT !.pc = "absent"]]
  /\ rx = [w \in All |-> Off]
  /\ pf = [w \in All |-> NoPf]
  /\ handles = {}
  /\ cancel = FALSE /\ skip = FALSE /\ dead = FALSE /\ lastError = FALSE
  /\ policy \in {0, 1, 2}             \* kept from earlier transfers
  /\ closed = {}
  /\ copied = {}
  /\ src = Files
  /\ dst = [f \in Files |-> IF f \in Existing THEN "old" ELSE "absent"]
  /\ deletions = {}
  /\ prompt = NoWorker /\ attached = TRUE
  /\ phase = "run" /\ result = [copied |-> 0, error |-> FALSE]
  /\ ghost = [attempts |-> [f \in Files |-> 0], skipped |-> {}, allowed |-> {},
              stopped |-> FALSE]

-----------------------------------------------------------------------------
(* The feed task: largest files first, so the empty ones come last.        *)

\* One send; it waits while the queue is full.
Feed(f) ==
  /\ txOpen /\ ~cancel
  /\ f \in unsent /\ (f \in Zero => unsent \subseteq Zero)
  /\ Len(queue) < QueueCap
  /\ queue' = Append(queue, f)
  /\ unsent' = unsent \ {f}
  /\ UNCHANGED <<txOpen, main, rx, pf, handles, pool, closed, copied, disk, ui, bg, ghost>>


\* The sender is dropped when everything is sent or the transfer is cancelled.
FeedEnd ==
  /\ txOpen
  /\ unsent = {} \/ cancel
  /\ txOpen' = FALSE
  /\ UNCHANGED <<unsent, queue, main, rx, pf, handles, pool, closed, copied, disk, ui, bg, ghost>>

-----------------------------------------------------------------------------
(* recv_next_target()                                                      *)

\* A file arrives.  The policy is read here and may be stale when it is used.
RecvItem(w) ==
  LET f == Head(queue)
  IN /\ rx[w].pc = "recv" /\ queue # <<>>
     /\ queue' = Tail(queue)
     /\ rx' = [rx EXCEPT ![w] = CASE cancel -> At("none", NoFile)
                                   [] ~cancel /\ policy = 1 -> At("take", f)
                                   [] OTHER -> [At("stat", f) EXCEPT !.pol = policy]]
     /\ ghost' = [ghost EXCEPT !.allowed = IF ~cancel /\ policy = 1 THEN @ \cup {f} ELSE @]
     /\ UNCHANGED <<unsent, txOpen, main, pf, handles, pool, closed, copied, disk, ui, bg>>

RecvClosed(w) ==
  /\ rx[w].pc = "recv" /\ queue = <<>> /\ ~txOpen
  /\ rx' = [rx EXCEPT ![w] = At("none", NoFile)]
  /\ UNCHANGED <<work, main, pf, handles, pool, closed, copied, disk, ui, bg, ghost>>

\* What stat() of the destination says: an error counts as absent.
StatSays(w) ==
  {dst[rx[w].file] # "absent"} \cup (IF Upload /\ (Faults \/ w \in closed) THEN {FALSE} ELSE {})

\* MUTANT of Stat: only policy 0 looks at what exists.
StatOnlyAsking(w) ==
  /\ rx[w].pc = "stat"
  /\ \E exists \in StatSays(w) :
       rx' = [rx EXCEPT ![w] = CASE ~exists \/ rx[w].pol = 2 -> At("take", rx[w].file)
                                 [] exists /\ rx[w].pol = 0 /\ attached -> At("asked", rx[w].file)
                                 [] OTHER -> At("none", NoFile)]
  /\ UNCHANGED <<work, main, pf, handles, pool, closed, copied, disk, ui, bg, ghost>>

\* The destination exists: skip it under policy 2, ask under policy 0.  The
\* query cannot be sent once the browser has dropped the transfer.
Stat(w) ==
  /\ rx[w].pc = "stat"
  /\ \E exists \in StatSays(w) :
       IF ~exists
         THEN rx' = [rx EXCEPT ![w] = At("take", rx[w].file)] /\ UNCHANGED ghost
         ELSE IF rx[w].pol = 2
           THEN /\ rx' = [rx EXCEPT ![w] = At("skip", rx[w].file)]
                /\ ghost' = [ghost EXCEPT !.skipped = @ \cup {rx[w].file}]
           ELSE /\ rx' = [rx EXCEPT ![w] = IF attached THEN At("asked", rx[w].file)
                                            ELSE At("none", NoFile)]
                /\ UNCHANGED ghost
  /\ UNCHANGED <<work, main, pf, handles, pool, closed, copied, disk, ui, bg>>

ProcessAnswer(w) ==
  LET a == rx[w].ans
      f == rx[w].file
  IN /\ rx[w].pc = "answered"
     /\ rx' = [rx EXCEPT ![w] = CASE a \in {"overwrite", "overwriteAll"} -> At("take", f)
                                   [] a \in {"skip", "skipAll"} -> At("skip", f)
                                   [] OTHER -> At("none", NoFile)]
     /\ policy' = CASE a = "overwriteAll" -> 1 [] a = "skipAll" -> 2 [] OTHER -> policy
     /\ cancel' = (cancel \/ a = "cancel")
     /\ ghost' = [ghost EXCEPT
          !.allowed = IF a \in {"overwrite", "overwriteAll"} THEN @ \cup {f} ELSE @,
          !.skipped = IF a \in {"skip", "skipAll"} THEN @ \cup {f} ELSE @,
          !.stopped = @ \/ a = "cancel"]
     /\ UNCHANGED <<skip, dead, lastError>>
     /\ UNCHANGED <<work, main, pf, handles, closed, copied, disk, ui, bg>>

RecvNextTarget(w) == RecvItem(w) \/ RecvClosed(w) \/ Stat(w) \/ ProcessAnswer(w)

-----------------------------------------------------------------------------
(* The worker loop of spawn_worker()                                       *)

\* Next target: the prefetched one, or a call of recv_next_target().
GetTarget(w) ==
  /\ main[w].pc = "get"
  /\ \/ /\ pf[w] # NoPf
        /\ main' = [main EXCEPT ![w].pc = "check", ![w].cur = pf[w].file, ![w].h = pf[w].h]
        /\ pf' = [pf EXCEPT ![w] = NoPf]
        /\ UNCHANGED rx
     \/ /\ pf[w] = NoPf /\ rx[w].pc = "off"
        /\ rx' = [rx EXCEPT ![w] = At("recv", NoFile)]
        /\ UNCHANGED <<main, pf>>
     \/ /\ rx[w].pc = "take"
        /\ main' = [main EXCEPT ![w].pc = "check", ![w].cur = rx[w].file, ![w].h = "none"]
        /\ rx' = [rx EXCEPT ![w] = Off]
        /\ UNCHANGED pf
     \/ /\ rx[w].pc = "skip"
        /\ rx' = [rx EXCEPT ![w] = Off]
        /\ UNCHANGED <<main, pf>>
     \/ /\ rx[w].pc = "none"
        /\ main' = [main EXCEPT ![w].pc = "exit"]
        /\ rx' = [rx EXCEPT ![w] = Off]
        /\ UNCHANGED pf
  /\ UNCHANGED <<work, handles, pool, closed, copied, disk, ui, bg, ghost>>

\* The transfer of cur starts together with the prefetch of the next file.
StartTransfer(w, h) ==
  /\ main' = [main EXCEPT ![w].pc = "xfer", ![w].h = h, ![w].x = "run", ![w].cc = FALSE]
  /\ rx' = [rx EXCEPT ![w] = At("recv", NoFile)]
  /\ ghost' = [ghost EXCEPT !.attempts[main[w].cur] = @ + 1]

\* The three checks before a transfer; only the last one records an error.
Check(w) ==
  LET stop == cancel \/ dead
      lost == ~stop /\ w \in closed
  IN /\ main[w].pc = "check"
     /\ dead' = (dead \/ lost)
     /\ lastError' = (lastError \/ lost)
     /\ IF stop \/ lost
          THEN /\ main' = [main EXCEPT ![w] = [NoMain EXCEPT !.pc = "exit"]]
               /\ handles' = handles \ {<<w, main[w].cur>>}
               /\ UNCHANGED <<rx, ghost>>
          ELSE /\ IF main[w].h = "none"
                    THEN main' = [main EXCEPT ![w].pc = "open"] /\ UNCHANGED <<rx, ghost>>
                    ELSE StartTransfer(w, main[w].h)
               /\ UNCHANGED handles
     /\ UNCHANGED <<cancel, skip, policy>>
     /\ UNCHANGED <<work, pf, closed, copied, disk, ui, bg>>

\* Opening for an upload truncates what is there.
Opened(f) == IF Upload THEN [dst EXCEPT ![f] = "partial"] ELSE dst

OpenTarget(w) ==
  LET f == main[w].cur
  IN /\ main[w].pc = "open"
     /\ \/ /\ w \notin closed
           /\ handles' = handles \cup {<<w, f>>}
           /\ dst' = Opened(f)
           /\ StartTransfer(w, "real")
           /\ UNCHANGED <<dead, lastError>>
        \/ /\ Faults \/ w \in closed
           /\ lastError' = TRUE
           /\ dead' = (dead \/ w \in closed)
           /\ main' = [main EXCEPT ![w] =
                         [NoMain EXCEPT !.pc = IF w \in closed THEN "exit" ELSE "get"]]
           /\ UNCHANGED <<handles, dst, rx, ghost>>
     /\ UNCHANGED <<cancel, skip, policy, src, deletions>>
     /\ UNCHANGED <<work, pf, closed, copied, ui, bg>>

\* Every 50 ms a running transfer looks at the cancel and skip flags.
PollFlags(w) ==
  /\ main[w].pc = "xfer" /\ main[w].x = "run" /\ ~main[w].cc
  /\ cancel \/ skip
  /\ main' = [main EXCEPT ![w].cc = TRUE]
  /\ UNCHANGED <<work, rx, pf, handles, pool, closed, copied, disk, ui, bg, ghost>>

\* The transfer ends well: with a valid handle, or because an empty file needs
\* no request at all.  A download renames its .part file over the destination.
TransferOk(w) ==
  LET f == main[w].cur
  IN /\ main[w].pc = "xfer" /\ main[w].x = "run"
     /\ f \in Zero \/ (main[w].h = "real" /\ w \notin closed)
     /\ main' = [main EXCEPT ![w].x = "ok"]
     /\ dst' = IF Upload /\ main[w].h # "real" THEN dst ELSE [dst EXCEPT ![f] = "new"]
     /\ UNCHANGED <<work, rx, pf, handles, pool, closed, copied, src, deletions, ui, bg, ghost>>

\* It fails: a fault, a closed session, a handle that is not one, or the flag.
TransferErr(w) ==
  /\ main[w].pc = "xfer" /\ main[w].x = "run"
  /\ \/ Faults
     \/ main[w].cur \notin Zero /\ (main[w].cc \/ w \in closed \/ main[w].h # "real")
  /\ main' = [main EXCEPT ![w].x = "err"]
  /\ UNCHANGED <<work, rx, pf, handles, pool, closed, copied, disk, ui, bg, ghost>>

\* The prefetch future has its target, or none.
PrefetchDecide(w) ==
  /\ main[w].pc = "xfer" /\ rx[w].pc \in {"take", "skip", "none"}
  /\ rx' = [rx EXCEPT ![w] =
       CASE cancel \/ dead \/ rx[w].pc = "none" -> Ready(NoFile, "none")
         [] ~(cancel \/ dead) /\ rx[w].pc = "skip" -> Ready(rx[w].file, "empty")
         [] OTHER -> At("pfopen", rx[w].file)]
  /\ UNCHANGED <<work, main, pf, handles, pool, closed, copied, disk, ui, bg, ghost>>

PrefetchOpen(w) ==
  LET f == rx[w].file
  IN /\ rx[w].pc = "pfopen"
     /\ \/ /\ w \notin closed
           /\ handles' = handles \cup {<<w, f>>}
           /\ dst' = Opened(f)
           /\ rx' = [rx EXCEPT ![w] = Ready(f, "real")]
        \/ /\ Faults \/ w \in closed
           /\ rx' = [rx EXCEPT ![w] = Ready(f, "empty")]
           /\ UNCHANGED <<handles, dst>>
     /\ UNCHANGED <<work, main, pf, pool, closed, copied, src, deletions, ui, bg, ghost>>

\* MUTANT of SpawnDelete: the source goes whatever the outcome.
SpawnDeleteAlways(w) == IF Move THEN deletions \cup {main[w].cur} ELSE deletions

\* For a move, the source of a file transferred well is deleted in the background.
SpawnDelete(w) ==
  IF Move /\ main[w].x = "ok" THEN deletions \cup {main[w].cur} ELSE deletions

\* MUTANT of NextPrefetched: a file that failed is tried again.
NextPrefetchedRetry(w) ==
  IF main[w].x = "err" THEN [file |-> main[w].cur, h |-> "empty"]
  ELSE [file |-> rx[w].file, h |-> rx[w].ans]

\* The target the prefetch leaves for the next iteration.
NextPrefetched(w) == [file |-> rx[w].file, h |-> rx[w].ans]

\* tokio::join! of transfer and prefetch has both; the handle is closed, and
\* the outcome decides how the loop goes on.
Joined(w) ==
  LET f == main[w].cur
      next == NextPrefetched(w)
      rest == handles \ {<<w, f>>}
      skipped == main[w].x = "err" /\ ~cancel /\ skip
      failed == main[w].x = "err" /\ ~cancel /\ ~skip
      leave == main[w].x = "err" /\ (cancel \/ (failed /\ w \in closed))
  IN /\ main[w].pc = "xfer" /\ main[w].x # "run" /\ rx[w].pc = "ready"
     /\ pf' = [pf EXCEPT ![w] = next]
     /\ rx' = [rx EXCEPT ![w] = Off]
     /\ main' = [main EXCEPT ![w] = [NoMain EXCEPT !.pc = IF leave THEN "exit" ELSE "get"]]
     /\ handles' = IF main[w].x = "err" /\ cancel THEN rest \ {<<w, next.file>>} ELSE rest
     /\ copied' = IF main[w].x = "ok" THEN copied \cup {f} ELSE copied
     /\ deletions' = SpawnDelete(w)
     /\ skip' = (skip /\ ~skipped)
     /\ lastError' = (lastError \/ failed)
     /\ dead' = (dead \/ (failed /\ w \in closed))
     /\ ghost' = [ghost EXCEPT !.skipped = IF skipped THEN @ \cup {f} ELSE @]
     /\ UNCHANGED <<cancel, policy, src, dst>>
     /\ UNCHANGED <<work, closed, ui, bg>>

\* MUTANT of Exit: the prefetched handle is forgotten.
ExitLeavingHandle(w) ==
  /\ main[w].pc = "exit"
  /\ main' = [main EXCEPT ![w].pc = "done"]
  /\ UNCHANGED <<work, rx, pf, handles, pool, closed, copied, disk, ui, bg, ghost>>

\* The worker leaves; a prefetched handle is closed.
Exit(w) ==
  /\ main[w].pc = "exit"
  /\ main' = [main EXCEPT ![w].pc = "done"]
  /\ handles' = handles \ {<<w, pf[w].file>>}
  /\ UNCHANGED <<work, rx, pf, pool, closed, copied, disk, ui, bg, ghost>>

\* A deletion of a moved file's source, spawned on its own; it may fail.
DeleteSource(f) ==
  /\ f \in deletions
  /\ deletions' = deletions \ {f}
  /\ src' \in {src \ {f}} \cup (IF Faults THEN {src} ELSE {})
  /\ UNCHANGED <<work, main, rx, pf, handles, pool, closed, copied, dst, ui, bg, ghost>>

-----------------------------------------------------------------------------
(* Sessions, heartbeat, late workers                                       *)

SessionDies(w) ==
  /\ Faults /\ w \notin closed /\ main[w].pc \notin {"absent", "done"}
  /\ closed' = closed \cup {w}
  /\ UNCHANGED <<work, main, rx, pf, handles, pool, copied, disk, ui, bg, ghost>>

\* A closed session, or a ping that times out and closes it, stops the pool.
Heartbeat(w) ==
  /\ main[w].pc # "absent" /\ ~cancel /\ ~dead
  /\ w \in closed \/ Faults
  /\ closed' = closed \cup {w}
  /\ dead' = TRUE
  /\ UNCHANGED <<cancel, skip, policy, lastError>>
  /\ UNCHANGED <<work, main, rx, pf, handles, copied, disk, ui, bg, ghost>>

ExtraWorker(w) ==
  /\ w \in Extra /\ main[w].pc = "absent"
  /\ phase \in {"run", "joined"} /\ ~cancel
  /\ main' = [main EXCEPT ![w].pc = "get"]
  /\ UNCHANGED <<work, rx, pf, handles, pool, closed, copied, disk, ui, bg, ghost>>

-----------------------------------------------------------------------------
(* The end of run_background_transfer() and of the event loop's entry      *)

\* MUTANT of JoinWorkers: only the initial workers are awaited.
JoinInitialWorkers ==
  /\ phase = "run"
  /\ \A w \in Workers : main[w].pc = "done"
  /\ phase' = "joined"
  /\ UNCHANGED <<work, main, rx, pf, handles, pool, closed, copied, disk, ui, result, ghost>>

\* All worker handles, late ones included, have been awaited.
JoinWorkers ==
  /\ phase = "run"
  /\ \A w \in All : main[w].pc \in {"absent", "done"}
  /\ phase' = "joined"
  /\ UNCHANGED <<work, main, rx, pf, handles, pool, closed, copied, disk, ui, result, ghost>>

StopHelpers ==
  /\ phase = "joined"
  /\ phase' = "stopping"
  /\ cancel' = TRUE
  /\ UNCHANGED <<skip, dead, policy, lastError, result>>
  /\ UNCHANGED <<work, main, rx, pf, handles, closed, copied, disk, ui, ghost>>

Return ==
  /\ phase = "stopping" /\ ~txOpen
  /\ phase' = "returned"
  /\ result' = [copied |-> Cardinality(copied), error |-> lastError]
  /\ UNCHANGED <<work, main, rx, pf, handles, pool, closed, copied, disk, ui, ghost>>

\* The event loop collects the result; after a move in which something was
\* copied and nothing failed it removes the marked directories, recursively.
CollectResult ==
  /\ phase = "returned"
  /\ phase' = "over"
  /\ src' = IF attached /\ Move /\ result.copied > 0 /\ ~result.error
              THEN src \ InDir ELSE src
  /\ UNCHANGED <<work, main, rx, pf, handles, pool, closed, copied, dst, deletions, ui,
                 result, ghost>>

-----------------------------------------------------------------------------
(* The browser and its user                                                *)

Respond(w, a) == [rx[w] EXCEPT !.pc = "answered", !.ans = a]

ShowPrompt(w) ==
  /\ attached /\ prompt = NoWorker /\ ~cancel /\ policy = 0
  /\ rx[w].pc = "asked"
  /\ prompt' = w
  /\ UNCHANGED <<work, main, rx, pf, handles, pool, closed, copied, disk, attached, bg, ghost>>

\* Queries of a cancelled transfer, or under a policy, are answered at once.
AutoAnswer(w) ==
  /\ attached /\ prompt = NoWorker /\ rx[w].pc = "asked"
  /\ cancel \/ policy # 0
  /\ rx' = [rx EXCEPT ![w] = Respond(w, CASE cancel -> "cancel"
                                          [] ~cancel /\ policy = 1 -> "overwriteAll"
                                          [] OTHER -> "skipAll")]
  /\ UNCHANGED <<work, main, pf, handles, pool, closed, copied, disk, ui, bg, ghost>>

\* An "all" answer sets the policy and drains the waiting queries.
UserAnswer(a) ==
  /\ prompt # NoWorker /\ a \in Answers
  /\ prompt' = NoWorker
  /\ policy' = CASE a = "overwriteAll" -> 1 [] a = "skipAll" -> 2 [] OTHER -> policy
  /\ rx' = [w \in All |-> IF w = prompt \/ (a \in {"overwriteAll", "skipAll"}
                                             /\ rx[w].pc = "asked")
                            THEN Respond(w, a) ELSE rx[w]]
  /\ UNCHANGED <<cancel, skip, dead, lastError, attached>>
  /\ UNCHANGED <<work, main, pf, handles, closed, copied, disk, bg, ghost>>

SkipKey ==
  /\ "skip" \in Keys /\ attached /\ prompt = NoWorker /\ ~skip
  /\ phase = "run"
  /\ skip' = TRUE
  /\ UNCHANGED <<cancel, dead, policy, lastError>>
  /\ UNCHANGED <<work, main, rx, pf, handles, closed, copied, disk, ui, bg, ghost>>

\* Esc or Ctrl-C outside the popup: the transfer stays listed.
CancelKey ==
  /\ "cancel" \in Keys /\ attached /\ prompt = NoWorker /\ ~cancel
  /\ cancel' = TRUE
  /\ ghost' = [ghost EXCEPT !.stopped = TRUE]
  /\ UNCHANGED <<skip, dead, policy, lastError>>
  /\ UNCHANGED <<work, main, rx, pf, handles, closed, copied, disk, ui, bg>>

\* Esc in the popup: cancelled and dropped from the list, with its queries.
AbandonKey ==
  /\ "abandon" \in Keys /\ attached /\ prompt = NoWorker
  /\ phase \in {"run", "joined", "stopping"}
  /\ cancel' = TRUE
  /\ attached' = FALSE
  /\ ghost' = [ghost EXCEPT !.stopped = TRUE]
  /\ rx' = [w \in All |-> IF rx[w].pc = "asked" THEN At("none", NoFile) ELSE rx[w]]
  /\ UNCHANGED <<skip, dead, policy, lastError, prompt>>
  /\ UNCHANGED <<work, main, pf, handles, closed, copied, disk, bg>>

-----------------------------------------------------------------------------
WorkerStep(w) ==
  \/ RecvNextTarget(w)
  \/ GetTarget(w) \/ Check(w) \/ OpenTarget(w)
  \/ PollFlags(w) \/ TransferOk(w) \/ TransferErr(w)
  \/ PrefetchDecide(w) \/ PrefetchOpen(w) \/ Joined(w) \/ Exit(w)

Background == (\E f \in Files : Feed(f)) \/ FeedEnd \/ JoinWorkers \/ StopHelpers \/ Return

EventLoop ==
  \/ \E w \in All : ShowPrompt(w) \/ AutoAnswer(w)
  \/ CollectResult

User == (\E a \in Answers : UserAnswer(a)) \/ SkipKey \/ CancelKey \/ AbandonKey

Next ==
  \/ \E w \in All : WorkerStep(w) \/ SessionDies(w) \/ Heartbeat(w) \/ ExtraWorker(w)
  \/ \E f \in Files : DeleteSource(f)
  \/ Background \/ EventLoop \/ User

\* The runtime schedules every task, requests end at the latest with their
\* timeout, the event loop polls, and the user answers a prompt in the end.
Fairness ==
  /\ \A w \in All : WF_vars(WorkerStep(w))
  /\ WF_vars(Background) /\ WF_vars(EventLoop)
  /\ WF_vars(\E a \in Answers : UserAnswer(a))

Spec     == Init /\ [][Next]_vars
FairSpec == Spec /\ Fairness

-----------------------------------------------------------------------------
\* Types of the pool's shared state and of the workers' local variables.
TypeOK ==
  /\ unsent \subseteq Files /\ queue \in Seq(Files) /\ Len(queue) <= QueueCap
  /\ \A w \in All :
       /\ main[w].pc \in {"absent", "get", "check", "open", "xfer", "exit", "done"}
       /\ main[w].cur \in Files \cup {NoFile} /\ main[w].h \in {"none", "empty", "real"}
       /\ main[w].x \in {"none", "run", "ok", "err"}
       /\ rx[w].pc \in {"off", "recv", "stat", "asked", "answered", "take", "skip", "none",
                        "pfopen", "ready"}
       /\ rx[w].file \in Files \cup {NoFile}
       /\ pf[w].file \in Files \cup {NoFile}
  /\ handles \subseteq All \X Files
  /\ policy \in {0, 1, 2} /\ {cancel, skip, dead, lastError, txOpen, attached} \subseteq BOOLEAN
  /\ copied \subseteq Files /\ src \subseteq Files /\ deletions \subseteq Files
  /\ dst \in [Files -> {"absent", "old", "partial", "new"}]
  /\ prompt \in All \cup {NoWorker}

\* No file is forgotten, and none is transferred twice or by two workers: queue,
\* prefetch and retry hand every file to one place at a time, and a result
\* without an error, of a transfer nobody stopped and whose sessions all lived,
\* accounts for each: copied, or skipped because the user said so.  Nothing is
\* copied behind the result's back, not even by a worker that joined after the
\* others had been awaited.
EachFileOnce ==
  /\ \A f \in Files : ghost.attempts[f] <= 1
  /\ phase \in {"returned", "over"} => result.copied = Cardinality(copied)
  /\ phase \in {"returned", "over"} /\ ~result.error /\ ~ghost.stopped /\ ~dead =>
       Files = copied \cup ghost.skipped

\* When a worker has ended, every handle it opened, prefetched ones included,
\* has been closed, however the loop was left.
NoHandleLeak == \A w \in All : main[w].pc = "done" => ~\E f \in Files : <<w, f>> \in handles

\* "Policy == 0: ask the user": an existing file is only replaced when the
\* user agreed, for this file or for all.
OverwriteConsent ==
  \A f \in Existing : dst[f] # "old" => f \in ghost.allowed

\* "Delete each source file immediately after successful transfer (move)": the
\* source of a file that was not copied completely is only gone when the event
\* loop removed its directory after a transfer that was stopped, lost a session
\* or skipped the file.
MoveLosesOnlyUnfinished ==
  \A f \in Files \ src :
    \/ dst[f] = "new"
    \/ phase = "over" /\ (ghost.stopped \/ dead \/ f \in ghost.skipped)

\* The whole move: a source that is gone has been copied, "files are already
\* deleted per-file during the transfer, only directories remain".
MoveKeepsData == \A f \in Files \ src : dst[f] = "new"

=============================================================================
