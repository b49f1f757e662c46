--------------------------- MODULE TransferPoolProofs ---------------------------
(***************************************************************************)
(* Proofs about TransferPool, for every list of files, every number of     *)
(* workers, every queue and every key the user presses: handles are        *)
(* closed, existing files replaced with consent, files accounted for, and  *)
(* a move loses only what it said it would.                                *)
(***************************************************************************)
EXTENDS TransferPool, TLAPS

Mains == [pc  : {"absent", "get", "check", "open", "xfer", "exit", "done"},
          cur : Files \cup {NoFile}, h : {"none", "empty", "real"},
          x   : {"none", "run", "ok", "err"}, cc : BOOLEAN]
Calls == [pc   : {"off", "recv", "stat", "asked", "answered", "take", "skip", "none",
                  "pfopen", "ready"},
          file : Files \cup {NoFile}, pol : {0, 1, 2},
          ans  : {"none", "empty", "real"} \cup Answers
                   \cup {"cancel", "overwriteAll", "skipAll"}]
Prefetched == [file : Files \cup {NoFile}, h : {"none", "empty", "real"}]

\* Types of what the workers keep and share.
MainType == main \in [All -> Mains]
CallType == rx \in [All -> Calls]
PfType   == pf \in [All -> Prefetched]
RestType == queue \in Seq(Files) /\ policy \in {0, 1, 2}
            /\ dst \in [Files -> {"absent", "old", "partial", "new"}]

Types == MainType /\ CallType /\ PfType /\ RestType

\* A call for the next file belongs to the loop or to the prefetch that runs beside a
\* transfer, and nothing is prefetched already; a worker that was asked about waits.
FlowAt(w) ==
  /\ pf[w] # NoPf => main[w].pc \in {"get", "exit", "done"}
  /\ rx[w].pc # "off" => main[w].pc \in {"get", "xfer"} /\ pf[w] = NoPf
  /\ rx[w].pc \in {"pfopen", "ready"} => main[w].pc = "xfer"
  /\ rx[w].pc = "ready" => rx[w].ans \in {"none", "empty", "real"}
  /\ rx[w].pc = "ready" /\ rx[w].ans = "none" => rx[w].file = NoFile

\* The worker whose query the user looks at is waiting for the answer.
Asking == prompt # NoWorker => prompt \in All /\ rx[prompt].pc = "asked"

Flow == Asking /\ \A w \in All : FlowAt(w)

\* An open handle is the current file's, the prefetched file's, or the one the prefetch
\* is about to return; a worker that has ended has none.
Held ==
  \A w \in All, f \in Files : <<w, f>> \in handles =>
    /\ main[w].pc # "done"
    /\ \/ main[w].pc \in {"check", "xfer"} /\ main[w].cur = f /\ main[w].h = "real"
       \/ pf[w].file = f /\ pf[w].h = "real"
       \/ rx[w].pc = "ready" /\ rx[w].file = f /\ rx[w].ans = "real"

IInv == Types /\ Flow /\ Held


\* Initially nobody has a file, a handle or a query.
LEMMA InitInv == Init => IInv
<1> SUFFICES ASSUME Init PROVE IInv
  OBVIOUS
<1>1. MainType
  BY DEF Init, MainType, Mains, NoMain, All
<1>2. CallType /\ PfType
  BY DEF Init, CallType, PfType, Calls, Prefetched, Off, At, NoPf
<1>3. RestType
  BY DEF Init, RestType
<1>4. Flow /\ Held
  BY DEF Init, Flow, FlowAt, Asking, Held, Off, At
<1> QED BY <1>1, <1>2, <1>3, <1>4 DEF IInv, Types

\* Replacing one worker's loop state, and the values it is replaced by.
LEMMA MainAt ==
  ASSUME MainType, NEW w \in All, NEW m \in Mains, main' = [main EXCEPT ![w] = m]
  PROVE  MainType'
  BY DEF MainType

\* Every value the loop state takes is one of its type.
LEMMA MainWith ==
  ASSUME NEW m \in Mains
  PROVE  /\ [m EXCEPT !.cc = TRUE] \in Mains
         /\ \A p \in {"get", "check", "open", "xfer", "exit", "done"} : [m EXCEPT !.pc = p] \in Mains
         /\ \A f \in Files \cup {NoFile}, k \in {"none", "empty", "real"} :
               [m EXCEPT !.pc = "check", !.cur = f, !.h = k] \in Mains
         /\ \A k \in {"none", "empty", "real"} :
               [m EXCEPT !.pc = "xfer", !.h = k, !.x = "run", !.cc = FALSE] \in Mains
         /\ \A p \in {"get", "exit"} : [NoMain EXCEPT !.pc = p] \in Mains
<1>1. [m EXCEPT !.cc = TRUE] \in Mains
  BY DEF Mains
<1>2. \A p \in {"get", "check", "open", "xfer", "exit", "done"} : [m EXCEPT !.pc = p] \in Mains
  BY DEF Mains
<1>3. \A f \in Files \cup {NoFile}, k \in {"none", "empty", "real"} :
               [m EXCEPT !.pc = "check", !.cur = f, !.h = k] \in Mains
  BY DEF Mains
<1>4. \A k \in {"none", "empty", "real"} :
               [m EXCEPT !.pc = "xfer", !.h = k, !.x = "run", !.cc = FALSE] \in Mains
  BY DEF Mains
<1>5. \A p \in {"get", "exit"} : [NoMain EXCEPT !.pc = p] \in Mains
  BY DEF Mains, NoMain
<1> QED BY <1>1, <1>2, <1>3, <1>4, <1>5

\* Replacing one worker's call of recv_next_target().
LEMMA CallAt ==
  ASSUME CallType, NEW w \in All, NEW r \in Calls, rx' = [rx EXCEPT ![w] = r]
  PROVE  CallType'
  BY DEF CallType

\* Each step keeps the loop state of every worker typed.
LEMMA MainStep ==
  ASSUME IInv, [Next]_vars
  PROVE  MainType'
<1>0. MainType /\ CallType /\ PfType
  BY DEF IInv, Types
<1>1. ASSUME NEW w \in All, RecvNextTarget(w)
      PROVE  MainType'
  BY <1>0, <1>1 DEF RecvNextTarget, RecvItem, RecvClosed, Stat, ProcessAnswer, MainType
<1>2. ASSUME NEW w \in All, GetTarget(w)
      PROVE  MainType'
  <2>1. main[w] \in Mains /\ pf[w] \in Prefetched /\ rx[w] \in Calls
    BY <1>0 DEF MainType, PfType, CallType
  <2>2. CASE main' = [main EXCEPT ![w].pc = "check", ![w].cur = pf[w].file, ![w].h = pf[w].h]
    <3> DEFINE m == [main[w] EXCEPT !.pc = "check", !.cur = pf[w].file, !.h = pf[w].h]
    <3>1. m \in Mains
      BY <2>1, MainWith DEF Prefetched
    <3>2. main' = [main EXCEPT ![w] = m]
      BY <1>0, <2>2 DEF MainType
    <3> QED BY <1>0, <3>1, <3>2, MainAt
  <2>3. CASE main' = [main EXCEPT ![w].pc = "check", ![w].cur = rx[w].file, ![w].h = "none"]
    <3> DEFINE m == [main[w] EXCEPT !.pc = "check", !.cur = rx[w].file, !.h = "none"]
    <3>1. m \in Mains
      BY <2>1, MainWith DEF Calls
    <3>2. main' = [main EXCEPT ![w] = m]
      BY <1>0, <2>3 DEF MainType
    <3> QED BY <1>0, <3>1, <3>2, MainAt
  <2>4. CASE main' = [main EXCEPT ![w].pc = "exit"]
    BY <1>0, <2>1, <2>4, MainWith, MainAt DEF MainType
  <2>5. CASE main' = main
    BY <1>0, <2>5 DEF MainType
  <2> QED BY <1>2, <2>2, <2>3, <2>4, <2>5 DEF GetTarget
<1>3. ASSUME NEW w \in All, NEW k \in {"none", "empty", "real"}, StartTransfer(w, k)
      PROVE  MainType'
  <2> DEFINE m == [main[w] EXCEPT !.pc = "xfer", !.h = k, !.x = "run", !.cc = FALSE]
  <2>1. m \in Mains
    BY <1>0, MainWith DEF MainType
  <2>2. main' = [main EXCEPT ![w] = m]
    BY <1>0, <1>3 DEF StartTransfer, MainType
  <2> QED BY <1>0, <2>1, <2>2, MainAt
<1>4. ASSUME NEW w \in All, Check(w)
      PROVE  MainType'
  <2>1. main[w] \in Mains
    BY <1>0 DEF MainType
  <2>2. CASE main' = [main EXCEPT ![w] = [NoMain EXCEPT !.pc = "exit"]]
    BY <1>0, <2>1, <2>2, MainWith, MainAt
  <2>3. CASE main' = [main EXCEPT ![w].pc = "open"]
    BY <1>0, <2>1, <2>3, MainWith, MainAt DEF MainType
  <2>4. CASE StartTransfer(w, main[w].h)
    BY <1>3, <2>1, <2>4 DEF Mains
  <2> QED BY <1>4, <2>2, <2>3, <2>4 DEF Check
<1>5. ASSUME NEW w \in All, OpenTarget(w)
      PROVE  MainType'
  <2>1. CASE StartTransfer(w, "real")
    BY <1>3, <2>1
  <2>2. CASE main' = [main EXCEPT ![w] = [NoMain EXCEPT !.pc = IF w \in closed THEN "exit" ELSE "get"]]
    BY <1>0, <2>2, MainWith, MainAt DEF MainType
  <2> QED BY <1>5, <2>1, <2>2 DEF OpenTarget
<1>6. ASSUME NEW w \in All, PollFlags(w)
      PROVE  MainType'
  BY <1>0, <1>6, MainWith, MainAt DEF PollFlags, MainType
<1>7. ASSUME NEW w \in All, TransferOk(w) \/ TransferErr(w)
      PROVE  MainType'
  BY <1>0, <1>7 DEF TransferOk, TransferErr, MainType, Mains
<1>8. ASSUME NEW w \in All, Joined(w)
      PROVE  MainType'
  BY <1>0, <1>8, MainWith, MainAt DEF Joined, MainType
<1>9. ASSUME NEW w \in All, Exit(w) \/ ExtraWorker(w)
      PROVE  MainType'
  BY <1>0, <1>9, MainWith, MainAt DEF Exit, ExtraWorker, MainType
<1>10. ASSUME NEW w \in All, PrefetchDecide(w) \/ PrefetchOpen(w) \/ SessionDies(w) \/ Heartbeat(w)
                               \/ ShowPrompt(w) \/ AutoAnswer(w)
      PROVE  MainType'
  BY <1>0, <1>10 DEF PrefetchDecide, PrefetchOpen, SessionDies, Heartbeat, ShowPrompt, AutoAnswer, MainType
<1>11. ASSUME NEW f \in Files, DeleteSource(f) \/ Feed(f)
      PROVE  MainType'
  BY <1>0, <1>11 DEF DeleteSource, Feed, MainType
<1>12. CASE \/ FeedEnd \/ JoinWorkers \/ StopHelpers \/ Return \/ CollectResult
            \/ (\E a \in Answers : UserAnswer(a)) \/ SkipKey \/ CancelKey \/ AbandonKey \/ UNCHANGED vars
  BY <1>0, <1>12 DEF FeedEnd, JoinWorkers, StopHelpers, Return, CollectResult, UserAnswer, SkipKey,
                     CancelKey, AbandonKey, vars, MainType
<1> QED BY <1>1, <1>2, <1>4, <1>5, <1>6, <1>7, <1>8, <1>9, <1>10, <1>11, <1>12
        DEF Next, WorkerStep, Background, EventLoop, User

\* ... and the calls for the next file,
LEMMA CallStep ==
  ASSUME IInv, [Next]_vars
  PROVE  CallType'
<1>0. CallType /\ RestType
  BY DEF IInv, Types
<1>1. ASSUME NEW w \in All, RecvItem(w)
      PROVE  CallType'
  BY <1>0, <1>1 DEF RecvItem, At, RestType, CallType, Calls
<1>2. ASSUME NEW w \in All, RecvClosed(w) \/ Stat(w) \/ ProcessAnswer(w)
      PROVE  CallType'
  BY <1>0, <1>2 DEF RecvClosed, Stat, ProcessAnswer, At, CallType, Calls
<1>3. ASSUME NEW w \in All, GetTarget(w) \/ Check(w) \/ OpenTarget(w)
      PROVE  CallType'
  BY <1>0, <1>3 DEF GetTarget, Check, OpenTarget, StartTransfer, Off, At, CallType, Calls
<1>4. ASSUME NEW w \in All, PrefetchDecide(w)
      PROVE  CallType'
  BY <1>0, <1>4 DEF PrefetchDecide, Ready, At, CallType, Calls
<1>5. ASSUME NEW w \in All, PrefetchOpen(w)
      PROVE  CallType'
  <2>1. At("ready", rx[w].file) \in Calls /\ Ready(rx[w].file, "real") \in Calls /\ Ready(rx[w].file, "empty") \in Calls
    BY <1>0 DEF CallType, Calls, Ready, At
  <2> QED BY <1>0, <1>5, <2>1, CallAt DEF PrefetchOpen
<1>6. ASSUME NEW w \in All, NEW a \in Answers \cup {"cancel", "overwriteAll", "skipAll"}
      PROVE  Respond(w, a) \in Calls
  <2>1. \A r \in Calls : [r EXCEPT !.pc = "answered", !.ans = a] \in Calls
    BY <1>6 DEF Calls
  <2> QED BY <1>0, <2>1 DEF Respond, CallType
<1>7. ASSUME NEW w \in All, AutoAnswer(w)
      PROVE  CallType'
  BY <1>0, <1>6, <1>7, CallAt DEF AutoAnswer
<1>8. ASSUME NEW a \in Answers, UserAnswer(a)
      PROVE  CallType'
  BY <1>0, <1>6, <1>8 DEF UserAnswer, CallType
<1>9. CASE AbandonKey
  BY <1>0, <1>9 DEF AbandonKey, At, CallType, Calls
<1>10. ASSUME NEW w \in All, PollFlags(w) \/ TransferOk(w) \/ TransferErr(w)
                               \/ Exit(w) \/ ExtraWorker(w) \/ SessionDies(w) \/ Heartbeat(w) \/ ShowPrompt(w)
      PROVE  CallType'
  BY <1>0, <1>10 DEF PollFlags, TransferOk, TransferErr, Exit, ExtraWorker, SessionDies, Heartbeat,
                     ShowPrompt, CallType
<1>11. ASSUME NEW w \in All, Joined(w)
      PROVE  CallType'
  BY <1>0, <1>11 DEF Joined, Off, At, CallType, Calls
<1>12. ASSUME NEW f \in Files, DeleteSource(f) \/ Feed(f)
      PROVE  CallType'
  BY <1>0, <1>12 DEF DeleteSource, Feed, CallType
<1>13. CASE \/ FeedEnd \/ JoinWorkers \/ StopHelpers \/ Return \/ CollectResult
            \/ SkipKey \/ CancelKey \/ UNCHANGED vars
  BY <1>0, <1>13 DEF FeedEnd, JoinWorkers, StopHelpers, Return, CollectResult, SkipKey, CancelKey,
                     vars, CallType
<1> QED BY <1>1, <1>2, <1>3, <1>4, <1>5, <1>7, <1>8, <1>9, <1>10, <1>11, <1>12, <1>13
        DEF Next, WorkerStep, RecvNextTarget, Background, EventLoop, User

\* ... and the prefetched files,
LEMMA PfStep ==
  ASSUME IInv, [Next]_vars
  PROVE  PfType'
<1>0. PfType /\ CallType /\ Flow
  BY DEF IInv, Types
<1>1. ASSUME NEW w \in All, GetTarget(w) \/ Joined(w)
      PROVE  PfType'
  BY <1>0, <1>1 DEF GetTarget, Joined, NextPrefetched, NoPf, PfType, CallType, Flow, FlowAt, Calls,
       Prefetched
<1>2. ASSUME pf' = pf
      PROVE  PfType'
  BY <1>0, <1>2 DEF PfType
<1>3. ASSUME NEW w \in All,
             \/ RecvNextTarget(w) \/ Check(w) \/ OpenTarget(w) \/ PollFlags(w) \/ TransferOk(w)
             \/ TransferErr(w) \/ PrefetchDecide(w) \/ PrefetchOpen(w) \/ Exit(w) \/ ExtraWorker(w)
             \/ SessionDies(w) \/ Heartbeat(w) \/ ShowPrompt(w) \/ AutoAnswer(w)
      PROVE  pf' = pf
  BY <1>3 DEF RecvNextTarget, RecvItem, RecvClosed, Stat, ProcessAnswer, Check, OpenTarget,
       PollFlags, TransferOk, TransferErr, PrefetchDecide,
              PrefetchOpen, Exit, ExtraWorker, SessionDies, Heartbeat, ShowPrompt, AutoAnswer
<1>4. CASE \/ (\E f \in Files : DeleteSource(f) \/ Feed(f))
           \/ FeedEnd \/ JoinWorkers \/ StopHelpers \/ Return \/ CollectResult
           \/ (\E a \in Answers : UserAnswer(a)) \/ SkipKey \/ CancelKey \/ AbandonKey \/ UNCHANGED vars
  <2>1. pf' = pf
    BY <1>4 DEF DeleteSource, Feed, FeedEnd, JoinWorkers, StopHelpers, Return, CollectResult,
         UserAnswer, SkipKey,
                     CancelKey, AbandonKey, vars
  <2> QED BY <1>2, <2>1
<1> QED BY <1>1, <1>2, <1>3, <1>4 DEF Next, WorkerStep, Background, EventLoop, User


\* ... and the queue, the policy and the destination.
LEMMA RestStep ==
  ASSUME IInv, [Next]_vars
  PROVE  RestType'
<1>0. RestType /\ MainType /\ CallType
  BY DEF IInv, Types
<1>1. ASSUME NEW w \in All, RecvItem(w) \/ RecvClosed(w)
      PROVE  RestType'
  BY <1>0, <1>1 DEF RecvItem, RecvClosed, work, disk, pool, RestType
<1>2. ASSUME NEW w \in All, Stat(w) \/ ProcessAnswer(w)
      PROVE  RestType'
  BY <1>0, <1>2 DEF Stat, ProcessAnswer, work, disk, pool, RestType
<1>3. ASSUME NEW w \in All, OpenTarget(w) \/ PrefetchOpen(w)
      PROVE  RestType'
  BY <1>0, <1>3 DEF OpenTarget, PrefetchOpen, Opened, work, disk, pool, RestType
<1>4. ASSUME NEW w \in All, TransferOk(w)
      PROVE  RestType'
  BY <1>0, <1>4 DEF TransferOk, work, pool, RestType
<1>5. ASSUME NEW w \in All, GetTarget(w) \/ Check(w) \/ PollFlags(w) \/ TransferErr(w) \/ PrefetchDecide(w)
                               \/ Joined(w) \/ Exit(w) \/ ExtraWorker(w)
                               \/ SessionDies(w) \/ Heartbeat(w) \/ ShowPrompt(w) \/ AutoAnswer(w)
      PROVE  RestType'
  BY <1>0, <1>5 DEF GetTarget, Check, PollFlags, TransferErr, PrefetchDecide, Joined, Exit,
       ExtraWorker, SessionDies,
                    Heartbeat, ShowPrompt, AutoAnswer, work, disk, pool, RestType
<1>6. ASSUME NEW f \in Files, Feed(f) \/ DeleteSource(f)
      PROVE  RestType'
  BY <1>0, <1>6 DEF Feed, DeleteSource, work, disk, pool, RestType
<1>7. ASSUME NEW a \in Answers, UserAnswer(a)
      PROVE  RestType'
  BY <1>0, <1>7 DEF UserAnswer, work, disk, RestType
<1>8. CASE \/ FeedEnd \/ JoinWorkers \/ StopHelpers \/ Return \/ CollectResult
           \/ SkipKey \/ CancelKey \/ AbandonKey \/ UNCHANGED vars
  BY <1>0, <1>8 DEF FeedEnd, JoinWorkers, StopHelpers, Return, CollectResult, SkipKey,
                    CancelKey, AbandonKey, vars, work, disk, pool, RestType
<1> QED BY <1>1, <1>2, <1>3, <1>4, <1>5, <1>6, <1>7, <1>8
        DEF Next, WorkerStep, RecvNextTarget, Background, EventLoop, User

\* A worker's own step leaves the others alone.
LEMMA OtherWorkers ==
  ASSUME IInv, NEW w \in All, NEW v \in All \ {w}, WorkerStep(w) \/ ExtraWorker(w) \/ AutoAnswer(w)
  PROVE  main'[v] = main[v] /\ rx'[v] = rx[v] /\ pf'[v] = pf[v]
<1> USE DEF IInv, Types, MainType, CallType, PfType
<1>1. CASE RecvItem(w)
  BY <1>1 DEF RecvItem, At
<1>2. CASE RecvClosed(w)
  BY <1>2 DEF RecvClosed, At
<1>3. CASE Stat(w)
  BY <1>3 DEF Stat, At
<1>4. CASE ProcessAnswer(w)
  BY <1>4 DEF ProcessAnswer, At
<1>5. CASE GetTarget(w)
  BY <1>5 DEF GetTarget, At, Off, NoPf
<1>6. CASE Check(w)
  BY <1>6 DEF Check, StartTransfer, At, NoMain
<1>7. CASE OpenTarget(w)
  BY <1>7 DEF OpenTarget, StartTransfer, At, NoMain
<1>8. CASE PollFlags(w)
  BY <1>8 DEF PollFlags
<1>9. CASE TransferOk(w) \/ TransferErr(w)
  BY <1>9 DEF TransferOk, TransferErr
<1>10. CASE PrefetchDecide(w)
  BY <1>10 DEF PrefetchDecide, Ready, At
<1>11. CASE PrefetchOpen(w)
  BY <1>11 DEF PrefetchOpen, Ready, At
<1>12. CASE Joined(w)
  BY <1>12 DEF Joined, NextPrefetched, Off, At, NoMain, NoPf
<1>13. CASE Exit(w) \/ ExtraWorker(w)
  BY <1>13 DEF Exit, ExtraWorker
<1>14. CASE AutoAnswer(w)
  BY <1>14 DEF AutoAnswer, Respond
<1> QED BY <1>1, <1>2, <1>3, <1>4, <1>5, <1>6, <1>7, <1>8, <1>9, <1>10, <1>11, <1>12, <1>13, <1>14
     DEF WorkerStep, RecvNextTarget

\* The loop and the prefetch never both hold a file for the next round.
LEMMA FlowStep ==
  ASSUME IInv, [Next]_vars, NEW v \in All
  PROVE  FlowAt(v)'
<1>0. /\ main \in [All -> Mains] /\ rx \in [All -> Calls] /\ pf \in [All -> Prefetched]
      /\ main[v] \in Mains /\ rx[v] \in Calls /\ pf[v] \in Prefetched /\ FlowAt(v)
  BY DEF IInv, Types, MainType, CallType, PfType, Flow
<1>a. ASSUME NEW w \in All, w # v, WorkerStep(w) \/ ExtraWorker(w) \/ AutoAnswer(w)
      PROVE  FlowAt(v)'
  BY <1>0, <1>a, OtherWorkers DEF FlowAt
<1> USE <1>0 DEF FlowAt, Mains, Calls, Prefetched
<1>1. CASE RecvItem(v)
  BY <1>1 DEF RecvItem, At
<1>2. CASE RecvClosed(v)
  BY <1>2 DEF RecvClosed, At
<1>3. CASE Stat(v)
  BY <1>3 DEF Stat, At
<1>4. CASE ProcessAnswer(v)
  BY <1>4 DEF ProcessAnswer, At
<1>5. CASE GetTarget(v)
  BY <1>5 DEF GetTarget, At, Off, NoPf
<1>6. CASE Check(v)
  BY <1>6 DEF Check, StartTransfer, At, NoMain
<1>7. CASE OpenTarget(v)
  BY <1>7 DEF OpenTarget, StartTransfer, At, NoMain
<1>8. CASE PollFlags(v)
  BY <1>8 DEF PollFlags
<1>9. CASE TransferOk(v) \/ TransferErr(v)
  BY <1>9 DEF TransferOk, TransferErr
<1>10. CASE PrefetchDecide(v)
  BY <1>10 DEF PrefetchDecide, Ready, At
<1>11. CASE PrefetchOpen(v)
  BY <1>11 DEF PrefetchOpen, Ready, At
<1>12. CASE Joined(v)
  BY <1>12 DEF Joined, NextPrefetched, Off, At, NoMain, NoPf
<1>13. CASE Exit(v) \/ ExtraWorker(v)
  BY <1>13 DEF Exit, ExtraWorker
<1>14. CASE AutoAnswer(v)
  BY <1>14 DEF AutoAnswer, Respond
<1>20. ASSUME NEW a \in Answers, UserAnswer(a)
      PROVE  FlowAt(v)'
  BY <1>20 DEF UserAnswer, Respond, IInv, Flow, Asking
<1>21. CASE AbandonKey
  BY <1>21 DEF AbandonKey, At
<1>22. CASE \/ (\E w \in All : SessionDies(w) \/ Heartbeat(w) \/ ShowPrompt(w)) \/ (\E f \in Files : Feed(f) \/ DeleteSource(f))
            \/ FeedEnd \/ JoinWorkers \/ StopHelpers \/ Return \/ CollectResult
            \/ SkipKey \/ CancelKey \/ UNCHANGED vars
  <2>1. UNCHANGED <<main, rx, pf>>
    BY <1>22 DEF SessionDies, Heartbeat, ShowPrompt, Feed, DeleteSource, FeedEnd, JoinWorkers,
         StopHelpers, Return,
                 CollectResult, SkipKey, CancelKey, vars
  <2> QED BY <2>1
<1> HIDE <1>0 DEF FlowAt, Mains, Calls, Prefetched
<1> QED BY <1>a, <1>1, <1>2, <1>3, <1>4, <1>5, <1>6, <1>7, <1>8, <1>9, <1>10, <1>11, <1>12, <1>13,
     <1>14, <1>20, <1>21, <1>22
        DEF Next, WorkerStep, RecvNextTarget, Background, EventLoop, User

\* A worker whose query is on the screen waits until it is answered.
LEMMA AskingStep ==
  ASSUME IInv, [Next]_vars
  PROVE  Asking'
<1>0. rx \in [All -> Calls] /\ Asking
  BY DEF IInv, Types, CallType, Flow
<1>1. ASSUME NEW w \in All, WorkerStep(w)
      PROVE  Asking'
  <2>1. prompt' = prompt
    BY <1>1 DEF WorkerStep, RecvNextTarget, RecvItem, RecvClosed, Stat, ProcessAnswer, GetTarget,
         Check, OpenTarget,
                PollFlags, TransferOk, TransferErr, PrefetchDecide, PrefetchOpen, Joined, Exit, ui
  <2>2. CASE prompt = w /\ w # NoWorker
    <3>1. w \in All /\ rx[w].pc = "asked" /\ main[w].pc \in {"get", "xfer"} /\ pf[w] = NoPf
      BY <1>0, <2>2 DEF Asking, IInv, Flow, FlowAt
    <3>2. ~RecvNextTarget(w) /\ ~GetTarget(w) /\ ~Check(w) /\ ~OpenTarget(w)
          /\ ~PrefetchDecide(w) /\ ~PrefetchOpen(w) /\ ~Joined(w)
      BY <3>1 DEF RecvNextTarget, RecvItem, RecvClosed, Stat, ProcessAnswer, GetTarget, Check, OpenTarget,
                  PrefetchDecide, PrefetchOpen, Joined
    <3>3. rx' = rx
      BY <1>1, <3>2 DEF WorkerStep, PollFlags, TransferOk, TransferErr, Exit
    <3> QED BY <1>0, <2>1, <3>3 DEF Asking
  <2>3. CASE prompt # w
    BY <1>0, <1>1, <2>1, <2>3, OtherWorkers DEF Asking
  <2> QED BY <2>1, <2>2, <2>3 DEF Asking
<1>2. ASSUME NEW w \in All, ExtraWorker(w) \/ SessionDies(w) \/ Heartbeat(w)
      PROVE  Asking'
  BY <1>0, <1>2 DEF ExtraWorker, SessionDies, Heartbeat, ui, Asking
<1>3. ASSUME NEW w \in All, ShowPrompt(w) \/ AutoAnswer(w)
      PROVE  Asking'
  BY <1>0, <1>3 DEF ShowPrompt, AutoAnswer, ui, Asking
<1>4. ASSUME NEW a \in Answers, UserAnswer(a)
      PROVE  Asking'
  BY <1>4 DEF UserAnswer, Asking
<1>5. CASE AbandonKey
  BY <1>5 DEF AbandonKey, Asking
<1>6. CASE \/ (\E f \in Files : Feed(f) \/ DeleteSource(f))
           \/ FeedEnd \/ JoinWorkers \/ StopHelpers \/ Return \/ CollectResult
           \/ SkipKey \/ CancelKey \/ UNCHANGED vars
  BY <1>0, <1>6 DEF Feed, DeleteSource, FeedEnd, JoinWorkers, StopHelpers, Return,
                 CollectResult, SkipKey, CancelKey, vars, ui, Asking
<1> QED BY <1>1, <1>2, <1>3, <1>4, <1>5, <1>6 DEF Next, Background, EventLoop, User

\* No step lets a handle out of its worker's hands.
LEMMA HeldStep ==
  ASSUME IInv, [Next]_vars
  PROVE  Held'
<1>0. MainType /\ CallType /\ PfType /\ Flow /\ Held
  BY DEF IInv, Types
<1> USE <1>0 DEF MainType, CallType, PfType, Flow, FlowAt, Held, Mains, Calls, Prefetched
<1>1. ASSUME NEW w \in All, RecvItem(w) \/ RecvClosed(w)
      PROVE  Held'
  <2>1. UNCHANGED <<main, pf, handles>> /\ rx[w].pc = "recv" /\ \A v \in All \ {w} : rx'[v] = rx[v]
    BY <1>1 DEF RecvItem, RecvClosed
  <2> QED BY <2>1
<1>2. ASSUME NEW w \in All, Stat(w) \/ ProcessAnswer(w)
      PROVE  Held'
  BY <1>2 DEF Stat, ProcessAnswer, At
<1>3. ASSUME NEW w \in All, GetTarget(w)
      PROVE  Held'
  BY <1>3 DEF GetTarget, At, Off, NoPf
<1>4. ASSUME NEW w \in All, Check(w)
      PROVE  Held'
  BY <1>4 DEF Check, StartTransfer, At, NoMain
<1>5. ASSUME NEW w \in All, OpenTarget(w)
      PROVE  Held'
  BY <1>5 DEF OpenTarget, StartTransfer, At, NoMain
<1>6. ASSUME NEW w \in All, PollFlags(w) \/ TransferOk(w) \/ TransferErr(w)
      PROVE  Held'
  BY <1>6 DEF PollFlags, TransferOk, TransferErr
<1>7. ASSUME NEW w \in All, PrefetchDecide(w)
      PROVE  Held'
  BY <1>7 DEF PrefetchDecide, Ready, At
<1>8. ASSUME NEW w \in All, PrefetchOpen(w)
      PROVE  Held'
  BY <1>8 DEF PrefetchOpen, Ready, At
<1>9. ASSUME NEW w \in All, Joined(w)
      PROVE  Held'
  BY <1>9 DEF Joined, NextPrefetched, Off, At, NoMain, NoPf
<1>10. ASSUME NEW w \in All, Exit(w) \/ ExtraWorker(w)
      PROVE  Held'
  BY <1>10 DEF Exit, ExtraWorker
<1>11. ASSUME NEW w \in All, ShowPrompt(w) \/ AutoAnswer(w)
      PROVE  Held'
  BY <1>11 DEF ShowPrompt, AutoAnswer, Respond
<1>12. ASSUME NEW a \in Answers, UserAnswer(a)
      PROVE  Held'
  <2>1. UNCHANGED <<main, pf, handles>> /\ \A v \in All : rx[v].pc = "ready" => rx'[v] = rx[v]
    BY <1>12 DEF UserAnswer, Asking
  <2> QED BY <2>1
<1>13. CASE AbandonKey
  BY <1>13 DEF AbandonKey, At
<1>14. CASE \/ (\E w \in All : SessionDies(w) \/ Heartbeat(w)) \/ (\E f \in Files : Feed(f) \/ DeleteSource(f))
            \/ FeedEnd \/ JoinWorkers \/ StopHelpers \/ Return \/ CollectResult
            \/ SkipKey \/ CancelKey \/ UNCHANGED vars
  <2>1. UNCHANGED <<main, rx, pf, handles>>
    BY <1>14 DEF SessionDies, Heartbeat, Feed, DeleteSource, FeedEnd, JoinWorkers, StopHelpers, Return,
                 CollectResult, SkipKey, CancelKey, vars
  <2> QED BY <2>1
<1> QED BY <1>1, <1>2, <1>3, <1>4, <1>5, <1>6, <1>7, <1>8, <1>9, <1>10, <1>11, <1>12, <1>13, <1>14
        DEF Next, WorkerStep, RecvNextTarget, Background, EventLoop, User

\* All of it together.
LEMMA StepInv == IInv /\ [Next]_vars => IInv'
  BY MainStep, CallStep, PfStep, RestStep, FlowStep, AskingStep, HeldStep DEF IInv, Types, Flow

\* In every reachable state every open handle is in the hands of a worker that has
\* not ended (the loop of spawn_worker() with its prefetch).
THEOREM InductiveInvariant == Spec => []IInv
  BY InitInv, StepInv, PTL DEF Spec

\* A worker that has ended has closed every handle it opened, however many workers,
\* files, faults and keys there are.
THEOREM HandlesAreClosed == Spec => []NoHandleLeak
<1>1. IInv => NoHandleLeak
  BY DEF IInv, Held, NoHandleLeak
<1> QED BY InductiveInvariant, <1>1, PTL

-----------------------------------------------------------------------------
(* Overwriting.                                                            *)

\* Who works on an existing file with a handle, or is about to open it, was allowed to;
\* no existing file is ever missing, so that no stat() says it is absent.
AllowedAt(w) ==
  /\ main[w].pc \in {"check", "open", "xfer"} /\ main[w].h # "empty" /\ main[w].cur \in Existing =>
        main[w].cur \in ghost.allowed
  /\ rx[w].pc \in {"take", "pfopen"} /\ rx[w].file \in Existing => rx[w].file \in ghost.allowed
  /\ rx[w].pc = "ready" /\ rx[w].ans = "real" /\ rx[w].file \in Existing => rx[w].file \in ghost.allowed
  /\ pf[w].h # "empty" /\ pf[w].file \in Existing => pf[w].file \in ghost.allowed

Consent ==
  /\ \A f \in Existing : dst[f] # "absent" /\ (dst[f] # "old" => f \in ghost.allowed)
  /\ \A w \in All : AllowedAt(w)

History == ghost \in [attempts : [Files -> Nat], skipped : SUBSET (Files \cup {NoFile}),
                      allowed : SUBSET (Files \cup {NoFile}), stopped : BOOLEAN]

\* Downloads whose empty files do not exist yet: for an upload a failing stat() counts as
\* "does not exist", and an empty file needs no handle, so that one the prefetch was told
\* to skip is transferred all the same.
Downloads == ~Upload /\ Zero \cap Existing = {}

CInv == IInv /\ History /\ Consent

\* Initially nothing has been replaced, and no file is missing that existed.
LEMMA ConsentInit == Init => History /\ Consent
  BY PoolAssumption DEF Init, History, Consent, AllowedAt, NoMain, NoPf, Off, At

\* What the user allowed stays allowed.
LEMMA HistoryStep ==
  ASSUME IInv, History, [Next]_vars
  PROVE  History' /\ ghost.allowed \subseteq ghost'.allowed
<1> DEFINE Goal == History' /\ ghost.allowed \subseteq ghost'.allowed
<1> SUFFICES Goal
  OBVIOUS
<1>0. /\ main \in [All -> Mains] /\ rx \in [All -> Calls] /\ queue \in Seq(Files)
      /\ ghost \in [attempts : [Files -> Nat], skipped : SUBSET (Files \cup {NoFile}),
                    allowed : SUBSET (Files \cup {NoFile}), stopped : BOOLEAN]
  BY DEF IInv, Types, MainType, CallType, RestType, History
<1>1. ASSUME NEW w \in All, RecvItem(w)
      PROVE  Goal
  <2>1. Head(queue) \in Files
    BY <1>0, <1>1 DEF RecvItem
  <2> QED BY <1>0, <1>1, <2>1 DEF RecvItem, History
<1>2. ASSUME NEW w \in All, Stat(w)
      PROVE  Goal
  <2>1. rx[w].file \in Files \cup {NoFile}
    BY <1>0 DEF Calls
  <2> QED BY <1>0, <1>2, <2>1 DEF Stat, History
<1>3. ASSUME NEW w \in All, ProcessAnswer(w)
      PROVE  Goal
  <2>1. rx[w].file \in Files \cup {NoFile}
    BY <1>0 DEF Calls
  <2> QED BY <1>0, <1>3, <2>1 DEF ProcessAnswer, History
<1>4. ASSUME NEW f, ghost' = [ghost EXCEPT !.attempts[f] = @ + 1]
      PROVE  Goal
  <2>0. ghost.attempts \in [Files -> Nat]
    BY <1>0
  <2>1. [ghost.attempts EXCEPT ![f] = @ + 1] \in [Files -> Nat]
    <3>1. CASE f \in Files
      <4>1. ghost.attempts[f] + 1 \in Nat
        BY <2>0, <3>1
      <4> QED BY <2>0, <4>1
    <3>2. CASE f \notin Files
      <4>1. [ghost.attempts EXCEPT ![f] = @ + 1] = ghost.attempts
        BY <2>0, <3>2
      <4> QED BY <2>0, <4>1
    <3> QED BY <3>1, <3>2
  <2>2. ghost' = [ghost EXCEPT !.attempts = [ghost.attempts EXCEPT ![f] = @ + 1]]
    BY <1>0, <1>4
  <2> QED BY <1>0, <2>1, <2>2 DEF History
<1>5. ASSUME ghost' = ghost
      PROVE  Goal
  BY <1>0, <1>5 DEF History
<1>6. ASSUME NEW w \in All, Check(w) \/ OpenTarget(w)
      PROVE  Goal
  <2>1. ghost' = ghost \/ ghost' = [ghost EXCEPT !.attempts[main[w].cur] = @ + 1]
    BY <1>6 DEF Check, OpenTarget, StartTransfer
  <2> HIDE DEF Goal
  <2> QED BY <2>1, <1>4, <1>5
<1>7. ASSUME NEW w \in All, Joined(w)
      PROVE  Goal
  <2>1. main[w].cur \in Files \cup {NoFile}
    BY <1>0 DEF Mains
  <2> QED BY <1>0, <1>7, <2>1 DEF Joined, History
<1>8. CASE CancelKey \/ AbandonKey
  BY <1>0, <1>8 DEF CancelKey, AbandonKey, History
<1>9. ASSUME NEW w \in All, RecvClosed(w) \/ GetTarget(w) \/ PollFlags(w) \/ TransferOk(w) \/ TransferErr(w)
                     \/ PrefetchDecide(w) \/ PrefetchOpen(w) \/ Exit(w) \/ ExtraWorker(w)
                     \/ SessionDies(w) \/ Heartbeat(w) \/ ShowPrompt(w) \/ AutoAnswer(w)
      PROVE  ghost' = ghost
  BY <1>9 DEF RecvClosed, GetTarget, PollFlags, TransferOk, TransferErr, PrefetchDecide, PrefetchOpen, Exit,
              ExtraWorker, SessionDies, Heartbeat, ShowPrompt, AutoAnswer
<1> HIDE DEF Goal
<1>11. ASSUME NEW w \in All, WorkerStep(w) \/ SessionDies(w) \/ Heartbeat(w) \/ ExtraWorker(w)
       PROVE  Goal
  BY <1>1, <1>2, <1>3, <1>5, <1>6, <1>7, <1>9, <1>11 DEF WorkerStep, RecvNextTarget
<1>12. ASSUME NEW w \in All, ShowPrompt(w) \/ AutoAnswer(w)
       PROVE  Goal
  BY <1>5, <1>9, <1>12
<1>13. CASE Background \/ CollectResult \/ (\E f \in Files : DeleteSource(f))
  <2>1. ghost' = ghost
    BY <1>13 DEF Background, Feed, DeleteSource, FeedEnd, JoinWorkers, StopHelpers, Return, CollectResult
  <2> QED BY <1>5, <2>1
<1>14. CASE (\E a \in Answers : UserAnswer(a)) \/ SkipKey \/ UNCHANGED vars
  <2>1. ghost' = ghost
    BY <1>14 DEF UserAnswer, SkipKey, vars
  <2> QED BY <1>5, <2>1
<1>15. CASE \E w \in All : WorkerStep(w) \/ SessionDies(w) \/ Heartbeat(w) \/ ExtraWorker(w)
  BY <1>11, <1>15
<1>16. CASE EventLoop
  BY <1>12, <1>13, <1>16 DEF EventLoop
<1>17. CASE User
  BY <1>8, <1>14, <1>17 DEF User
<1>18. Goal
  BY <1>13, <1>14, <1>15, <1>16, <1>17 DEF Next
<1> QED BY <1>18

\* An answer of the user reaches workers that asked, and changes nothing else of any.
LEMMA Answered ==
  ASSUME IInv, NEW a \in Answers, UserAnswer(a), NEW v \in All
  PROVE  /\ \/ rx'[v] = rx[v]
            \/ rx[v].pc = "asked" /\ rx'[v] = [rx[v] EXCEPT !.pc = "answered", !.ans = a]
         /\ rx'[v].file = rx[v].file /\ (rx'[v] # rx[v] => rx'[v].pc = "answered" /\ rx'[v].ans = a)
         /\ main' = main /\ pf' = pf /\ ghost' = ghost
<1>1. rx \in [All -> Calls] /\ rx[v] \in Calls /\ rx[prompt].pc = "asked"
  BY DEF IInv, Types, CallType, Flow, Asking, UserAnswer
<1>2. \/ rx'[v] = rx[v]
      \/ rx[v].pc = "asked" /\ rx'[v] = [rx[v] EXCEPT !.pc = "answered", !.ans = a]
  BY <1>1 DEF UserAnswer, Respond
<1>3. rx'[v].file = rx[v].file /\ (rx'[v] # rx[v] => rx'[v].pc = "answered" /\ rx'[v].ans = a)
  BY <1>1, <1>2 DEF Calls
<1> QED BY <1>2, <1>3 DEF UserAnswer

\* Who gets a file to work on has asked for it, or need not ask.
LEMMA AllowedStep ==
  ASSUME Downloads, CInv, [Next]_vars, NEW v \in All
  PROVE  AllowedAt(v)'
<1>0. /\ main \in [All -> Mains] /\ rx \in [All -> Calls] /\ pf \in [All -> Prefetched]
      /\ main[v] \in Mains /\ rx[v] \in Calls /\ pf[v] \in Prefetched /\ FlowAt(v) /\ AllowedAt(v)
      /\ ghost.allowed \subseteq ghost'.allowed
      /\ IInv /\ NoFile \notin Existing /\ History
  BY HistoryStep, PoolAssumption DEF CInv, IInv, Types, MainType, CallType, PfType, Flow, Consent
<1>a. ASSUME NEW w \in All, w # v, WorkerStep(w) \/ ExtraWorker(w) \/ AutoAnswer(w)
      PROVE  AllowedAt(v)'
  BY <1>0, <1>a, OtherWorkers DEF AllowedAt
<1>b. ASSUME NEW f \in Existing, dst[f] = "absent"
      PROVE  FALSE
  BY <1>b DEF CInv, Consent
<1> USE <1>0 DEF FlowAt, AllowedAt, Mains, Calls, Prefetched
<1>1. CASE RecvItem(v)
  BY <1>1 DEF RecvItem, At, History
<1>2. CASE RecvClosed(v)
  BY <1>2 DEF RecvClosed, At
<1>3. CASE Stat(v)
  <2>1. rx'[v].pc = "take" => rx'[v].file \notin Existing
    <3>1. CASE rx[v].file \in Existing
      <4>1. dst[rx[v].file] # "absent"
        BY <3>1, <1>b
      <4>2. StatSays(v) = {TRUE}
        BY <4>1 DEF StatSays, Downloads
      <4>3. rx'[v].pc # "take"
        BY <1>3, <4>2 DEF Stat, At
      <4> QED BY <4>3
    <3>2. CASE rx[v].file \notin Existing
      <4>1. rx'[v].pc = "take" => rx'[v].file = rx[v].file
        BY <1>3 DEF Stat, At
      <4> QED BY <3>2, <4>1
    <3> QED BY <3>1, <3>2
  <2> QED BY <1>3, <2>1 DEF Stat, At
<1>4. CASE ProcessAnswer(v)
  BY <1>4 DEF ProcessAnswer, At, History
<1>5. CASE GetTarget(v)
  BY <1>5 DEF GetTarget, At, Off, NoPf
<1>6. CASE Check(v)
  BY <1>6 DEF Check, StartTransfer, At, NoMain
<1>7. CASE OpenTarget(v)
  BY <1>7 DEF OpenTarget, StartTransfer, At, NoMain
<1>8. CASE PollFlags(v)
  BY <1>8 DEF PollFlags
<1>9. CASE TransferOk(v) \/ TransferErr(v)
  BY <1>9 DEF TransferOk, TransferErr
<1>10. CASE PrefetchDecide(v)
  BY <1>10 DEF PrefetchDecide, Ready, At
<1>11. CASE PrefetchOpen(v)
  BY <1>11 DEF PrefetchOpen, Ready, At
<1>12. CASE Joined(v)
  BY <1>12 DEF Joined, NextPrefetched, Off, At, NoMain, NoPf
<1>13. CASE Exit(v) \/ ExtraWorker(v)
  BY <1>13 DEF Exit, ExtraWorker
<1>14. CASE AutoAnswer(v)
  BY <1>14 DEF AutoAnswer, Respond
<1>20. ASSUME NEW a \in Answers, UserAnswer(a)
      PROVE  AllowedAt(v)'
  <2>1. /\ rx'[v] = rx[v] \/ rx'[v].pc = "answered"
        /\ main' = main /\ pf' = pf /\ ghost' = ghost
    <3>1. /\ rx'[v] = rx[v] \/ rx[v].pc = "asked"
          /\ rx'[v].file = rx[v].file /\ (rx'[v] # rx[v] => rx'[v].pc = "answered" /\ rx'[v].ans = a)
          /\ main' = main /\ pf' = pf /\ ghost' = ghost
      BY ONLY IInv, <1>20, v \in All, Answered
    <3> QED BY ONLY <3>1
  <2>2. CASE rx'[v] = rx[v]
    BY <2>1, <2>2
  <2>3. CASE rx'[v].pc = "answered"
    BY <2>1, <2>3
  <2> QED BY <2>1, <2>2, <2>3
<1>21. CASE AbandonKey
  BY <1>21 DEF AbandonKey, At
<1>22. CASE \/ (\E w \in All : SessionDies(w) \/ Heartbeat(w) \/ ShowPrompt(w)) \/ (\E f \in Files : Feed(f) \/ DeleteSource(f))
            \/ FeedEnd \/ JoinWorkers \/ StopHelpers \/ Return \/ CollectResult
            \/ SkipKey \/ CancelKey \/ UNCHANGED vars
  <2>1. UNCHANGED <<main, rx, pf>>
    BY <1>22 DEF SessionDies, Heartbeat, ShowPrompt, Feed, DeleteSource, FeedEnd, JoinWorkers,
         StopHelpers, Return,
                 CollectResult, SkipKey, CancelKey, vars
  <2> QED BY <2>1
<1> HIDE <1>0 DEF FlowAt, AllowedAt, Mains, Calls, Prefetched
<1> QED BY <1>a, <1>1, <1>2, <1>3, <1>4, <1>5, <1>6, <1>7, <1>8, <1>9, <1>10, <1>11, <1>12, <1>13,
     <1>14, <1>20, <1>21, <1>22
        DEF Next, WorkerStep, RecvNextTarget, Background, EventLoop, User

\* Only a transfer with a handle changes an existing file.
LEMMA ExistingStep ==
  ASSUME Downloads, CInv, [Next]_vars, NEW f \in Existing
  PROVE  dst'[f] # "absent" /\ (dst'[f] # "old" => f \in ghost'.allowed)
<1>0. /\ dst \in [Files -> {"absent", "old", "partial", "new"}] /\ f \in Files /\ f \notin Zero
      /\ dst[f] # "absent" /\ (dst[f] # "old" => f \in ghost.allowed)
      /\ ghost.allowed \subseteq ghost'.allowed
  BY HistoryStep, PoolAssumption DEF CInv, IInv, Types, RestType, Consent, Downloads
<1>1. ASSUME NEW w \in All, TransferOk(w)
      PROVE  dst'[f] # "absent" /\ (dst'[f] # "old" => f \in ghost'.allowed)
  <2>1. CASE main[w].cur = f
    <3>1. f \in ghost.allowed
      BY <1>0, <1>1, <2>1 DEF TransferOk, CInv, Consent, AllowedAt
    <3> QED BY <1>0, <1>1, <2>1, <3>1 DEF TransferOk
  <2>2. CASE main[w].cur # f
    BY <1>0, <1>1, <2>2 DEF TransferOk
  <2> QED BY <2>1, <2>2
<1>2. ASSUME NEW w \in All, \/ RecvNextTarget(w) \/ GetTarget(w) \/ Check(w) \/ OpenTarget(w) \/ PollFlags(w)
                            \/ TransferErr(w) \/ PrefetchDecide(w) \/ PrefetchOpen(w) \/ Joined(w) \/ Exit(w)
                            \/ ExtraWorker(w) \/ SessionDies(w) \/ Heartbeat(w) \/ ShowPrompt(w) \/ AutoAnswer(w)
      PROVE  dst' = dst
  BY <1>2 DEF RecvNextTarget, RecvItem, RecvClosed, Stat, ProcessAnswer, GetTarget, Check,
       OpenTarget, Opened, Downloads,
              PollFlags, TransferErr, PrefetchDecide, PrefetchOpen, Joined, Exit, ExtraWorker, SessionDies,
              Heartbeat, ShowPrompt, AutoAnswer, disk
<1>3. ASSUME \/ (\E g \in Files : Feed(g) \/ DeleteSource(g))
             \/ FeedEnd \/ JoinWorkers \/ StopHelpers \/ Return \/ CollectResult
             \/ (\E a \in Answers : UserAnswer(a)) \/ SkipKey \/ CancelKey \/ AbandonKey \/ UNCHANGED vars
      PROVE  dst' = dst
  BY <1>3 DEF Feed, DeleteSource, FeedEnd, JoinWorkers, StopHelpers, Return, CollectResult, UserAnswer,
              SkipKey, CancelKey, AbandonKey, vars, disk
<1>4. dst' = dst => dst'[f] # "absent" /\ (dst'[f] # "old" => f \in ghost'.allowed)
  BY <1>0
<1> QED BY <1>1, <1>2, <1>3, <1>4 DEF Next, WorkerStep, Background, EventLoop, User

\* All of it together.
LEMMA ConsentStep ==
  ASSUME Downloads, CInv, [Next]_vars
  PROVE  CInv'
  BY StepInv, HistoryStep, AllowedStep, ExistingStep DEF CInv, Consent

\* A download replaces an existing file only after the user agreed, for this file or for
\* all, however the prompts of the workers, the prefetches and the answers interleave:
\* for every list of files whose empty ones do not exist yet.
THEOREM OverwritesAreAllowed == Downloads => (Spec => []OverwriteConsent)
<1> SUFFICES ASSUME Downloads PROVE Spec => []OverwriteConsent
  OBVIOUS
<1>1. Init => CInv
  BY InitInv, ConsentInit DEF CInv
<1>2. CInv /\ [Next]_vars => CInv'
  BY ConsentStep
<1>3. CInv => OverwriteConsent
  BY DEF CInv, Consent, OverwriteConsent
<1> QED BY <1>1, <1>2, <1>3, PTL DEF Spec

-----------------------------------------------------------------------------
(* Where the files are: every file is in one place, is transferred at most *)
(* once, and is accounted for in a result without an error.                *)

Queued == {queue[i] : i \in 1 .. Len(queue)}

\* The files a worker has taken and not begun to transfer, and the one it transfers.
Pending(w) ==
  ({rx[w].file, pf[w].file} \cup (IF main[w].pc \in {"check", "open"} THEN {main[w].cur} ELSE {}))
    \ {NoFile}
Busy(w) == {f \in Files : main[w].pc = "xfer" /\ main[w].cur = f}

\* The parts of a worker's state agree on whether it has a file.
ShapeAt(w) ==
  /\ main[w].pc \in {"check", "open", "xfer"} <=> main[w].cur # NoFile
  /\ main[w].pc = "xfer" => main[w].x # "none"
  /\ rx[w].pc \in {"off", "recv", "none"} => rx[w].file = NoFile
  /\ rx[w].pc \in {"stat", "asked", "answered", "take", "skip", "pfopen"} => rx[w].file # NoFile
  /\ rx[w].pc = "ready" /\ rx[w].file = NoFile => rx[w].ans = "none"
  /\ pf[w].file = NoFile => pf[w] = NoPf
  /\ rx[w].pc = "answered" => rx[w].ans \in Answers \cup {"cancel", "overwriteAll", "skipAll"}
  /\ rx[w].pc = "skip" => rx[w].file \in ghost.skipped

Shape == \A w \in All : ShapeAt(w)

\* A file that was not begun is at one place.
Once ==
  /\ \A i, j \in 1 .. Len(queue) : queue[i] = queue[j] => i = j
  /\ unsent \subseteq Files /\ unsent \cap Queued = {}
  /\ \A w \in All : Pending(w) \cap (unsent \cup Queued) = {}
  /\ \A v, w \in All : v # w => Pending(v) \cap Pending(w) = {}
  /\ \A f \in unsent \cup Queued : ghost.attempts[f] = 0
  /\ \A w \in All : \A f \in Pending(w) : ghost.attempts[f] = 0
  /\ \A w \in All : \A f \in Busy(w) : ghost.attempts[f] = 1
  /\ \A f \in Files : ghost.attempts[f] <= 1

\* Why a file may be lost: the user stopped the transfer, a session or a file failed.
Lost == ghost.stopped \/ dead \/ lastError

\* Otherwise a file that is neither copied nor skipped is still at some place.
Found(f) == \/ f \in unsent \cup Queued \cup copied \cup ghost.skipped
            \/ \E w \in All : f \in Pending(w) \cup Busy(w)
Accounted == ~Lost => \A f \in Files : Found(f)

\* The flags and the phases of the transfer.
Stopping ==
  /\ ghost.stopped => cancel
  /\ phase \in {"run", "joined"} /\ cancel => ghost.stopped
  /\ phase \in {"stopping", "returned", "over"} => cancel
  /\ phase \in {"run", "joined", "stopping", "returned", "over"}
  /\ ~attached => ghost.stopped

\* Why a worker ends: it was told to, or there is no file left.
Drained ==
  /\ \A w \in All : main[w].pc \in {"exit", "done"} \/ rx[w].pc = "none" =>
       cancel \/ dead \/ (queue = <<>> /\ ~txOpen)
  /\ ~txOpen /\ ~ghost.stopped /\ ~dead => unsent = {}
  /\ \A w \in All : main[w].pc \in {"exit", "done"} /\ pf[w] # NoPf => ghost.stopped \/ dead
  /\ \A w \in Workers : main[w].pc # "absent"

\* After the workers were awaited a late one finds nothing to transfer.
Late ==
  phase # "run" =>
    /\ \A w \in All : main[w].pc \notin {"open", "xfer"}
    /\ ~ghost.stopped /\ ~dead =>
         /\ queue = <<>> /\ ~txOpen /\ unsent = {}
         /\ \A w \in All : Pending(w) = {}

\* What the result says.
Reported ==
  /\ copied \subseteq Files /\ ghost.skipped \subseteq Files
  /\ phase \in {"returned", "over"} =>
       /\ result.copied = Cardinality(copied)
       /\ ~result.error /\ ~ghost.stopped /\ ~dead => Files = copied \cup ghost.skipped

PInv == IInv /\ History /\ Shape /\ Once /\ Accounted /\ Stopping /\ Drained /\ Late /\ Reported

\* Copied files are complete, and their sources are the only ones deleted one by one.
Moved ==
  /\ \A f \in copied : dst[f] = "new" /\ ghost.attempts[f] = 1
  /\ \A w \in All : \A f \in Busy(w) : main[w].x = "ok" => dst[f] = "new"
  /\ deletions \subseteq copied
  /\ \A f \in Files \ src :
       f \in copied \/ (phase = "over" /\ (ghost.stopped \/ dead \/ f \in ghost.skipped))

\* Initially every file waits to be sent, and nothing is lost.
LEMMA PlacesInit == Init => PInv /\ Moved
<1> SUFFICES ASSUME Init PROVE PInv /\ Moved
  OBVIOUS
<1>1. /\ unsent = Files /\ queue = <<>> /\ txOpen = TRUE /\ copied = {} /\ src = Files
      /\ deletions = {} /\ cancel = FALSE /\ dead = FALSE /\ lastError = FALSE /\ attached = TRUE
      /\ phase = "run" /\ pf = [w \in All |-> NoPf] /\ rx = [w \in All |-> Off]
      /\ ghost = [attempts |-> [f \in Files |-> 0], skipped |-> {}, allowed |-> {}, stopped |-> FALSE]
      /\ main = [w \in All |-> IF w \in Workers THEN NoMain ELSE [NoMain EXCEPT !.pc = "absent"]]
  BY DEF Init
<1>2. Workers \subseteq All
  BY DEF All
<1>3. /\ \A w \in All : rx[w].file = NoFile /\ rx[w].pc = "off" /\ pf[w] = NoPf
      /\ \A w \in All : main[w].pc \in {"get", "absent"} /\ main[w].cur = NoFile
      /\ \A w \in Workers : main[w].pc = "get"
      /\ NoPf.file = NoFile
  BY <1>1, <1>2 DEF NoPf, Off, At, NoMain
<1>4. Queued = {}
  BY <1>1 DEF Queued
<1>5. \A w \in All : Pending(w) = {} /\ Busy(w) = {}
  BY <1>3 DEF Pending, Busy
<1>6. History
  BY <1>1 DEF History
<1>7. Shape
  BY <1>3 DEF Shape, ShapeAt
<1>8. ghost.attempts = [f \in Files |-> 0] /\ ghost.stopped = FALSE /\ ghost.skipped = {}
  BY <1>1
<1>9. Once
  BY <1>1, <1>4, <1>5, <1>8 DEF Once
<1>10. Accounted
  BY <1>1 DEF Accounted, Found
<1>11. Stopping /\ Drained /\ Late /\ Reported
  BY <1>1, <1>3, <1>8 DEF Stopping, Drained, Late, Reported
<1>12. Moved
  BY <1>1, <1>5 DEF Moved
<1> QED BY <1>6, <1>7, <1>9, <1>10, <1>11, <1>12, InitInv DEF PInv

\* What the shared flags and the history gain, they keep.
LEMMA Growing ==
  ASSUME IInv, History, [Next]_vars
  PROVE  /\ ghost.skipped \subseteq ghost'.skipped /\ copied \subseteq copied'
         /\ (ghost.stopped => ghost'.stopped) /\ (dead => dead') /\ (lastError => lastError')
         /\ (cancel => cancel') /\ (attached' => attached) /\ (txOpen' => txOpen)
<1> DEFINE G == /\ ghost.skipped \subseteq ghost'.skipped /\ copied \subseteq copied'
                /\ (ghost.stopped => ghost'.stopped) /\ (dead => dead') /\ (lastError => lastError')
                /\ (cancel => cancel') /\ (attached' => attached) /\ (txOpen' => txOpen)
<1> SUFFICES G
  OBVIOUS
<1>0. ghost \in [attempts : [Files -> Nat], skipped : SUBSET (Files \cup {NoFile}),
                 allowed : SUBSET (Files \cup {NoFile}), stopped : BOOLEAN]
  BY DEF History
<1>1. ASSUME NEW w \in All, RecvNextTarget(w)
      PROVE  G
  <2>1. CASE RecvItem(w)
    <3>1. ghost'.skipped = ghost.skipped /\ ghost'.stopped = ghost.stopped
      BY <1>0, <2>1 DEF RecvItem
    <3> QED BY <2>1, <3>1 DEF RecvItem, pool, ui
  <2>2. CASE RecvClosed(w)
    BY <2>2 DEF RecvClosed, pool, ui, work
  <2>3. CASE Stat(w)
    <3>1. ghost.skipped \subseteq ghost'.skipped /\ ghost'.stopped = ghost.stopped
      BY <1>0, <2>3 DEF Stat
    <3> QED BY <2>3, <3>1 DEF Stat, pool, ui, work
  <2>4. CASE ProcessAnswer(w)
    <3>1. ghost.skipped \subseteq ghost'.skipped /\ (ghost.stopped => ghost'.stopped)
      BY <1>0, <2>4 DEF ProcessAnswer
    <3> QED BY <2>4, <3>1 DEF ProcessAnswer, pool, ui, work
  <2> QED BY <1>1, <2>1, <2>2, <2>3, <2>4 DEF RecvNextTarget
<1>2. ASSUME NEW w \in All, GetTarget(w) \/ PollFlags(w) \/ TransferOk(w) \/ TransferErr(w)
                            \/ PrefetchDecide(w) \/ PrefetchOpen(w) \/ Exit(w) \/ ExtraWorker(w)
      PROVE  G
  BY <1>2 DEF GetTarget, PollFlags, TransferOk, TransferErr, PrefetchDecide, PrefetchOpen, Exit,
              ExtraWorker, pool, ui, work
<1>3. ASSUME NEW w \in All, Check(w) \/ OpenTarget(w)
      PROVE  G
  <2>1. ghost'.skipped = ghost.skipped /\ ghost'.stopped = ghost.stopped
    BY <1>0, <1>3 DEF Check, OpenTarget, StartTransfer
  <2>2. (dead => dead') /\ (lastError => lastError') /\ cancel' = cancel
    <3>1. CASE Check(w)
      <4>1. \E lost \in BOOLEAN : dead' = (dead \/ lost) /\ lastError' = (lastError \/ lost)
        BY <3>1, Zenon DEF Check
      <4>2. cancel' = cancel
        BY <3>1 DEF Check
      <4> QED BY <4>1, <4>2
    <3>2. CASE OpenTarget(w)
      <4>1. dead => dead'
        BY <3>2, Zenon DEF OpenTarget
      <4>2. lastError => lastError'
        BY <3>2, Zenon DEF OpenTarget
      <4>3. cancel' = cancel
        BY <3>2 DEF OpenTarget
      <4> QED BY <4>1, <4>2, <4>3
    <3> QED BY <1>3, <3>1, <3>2
  <2>3. copied' = copied /\ attached' = attached /\ txOpen' = txOpen
    BY <1>3 DEF Check, OpenTarget, ui, work
  <2> QED BY <2>1, <2>2, <2>3
<1>4. ASSUME NEW w \in All, Joined(w)
      PROVE  G
  BY <1>0, <1>4 DEF Joined, ui, work
<1>5. ASSUME NEW w \in All, SessionDies(w) \/ Heartbeat(w) \/ ShowPrompt(w) \/ AutoAnswer(w)
      PROVE  G
  BY <1>5 DEF SessionDies, Heartbeat, ShowPrompt, AutoAnswer, pool, ui, work
<1>6. CASE CancelKey \/ AbandonKey \/ SkipKey \/ \E a \in Answers : UserAnswer(a)
  BY <1>0, <1>6 DEF CancelKey, AbandonKey, SkipKey, UserAnswer, ui, work
<1>7. CASE (\E f \in Files : DeleteSource(f)) \/ Background \/ CollectResult \/ UNCHANGED vars
  BY <1>7 DEF Background, Feed, DeleteSource, FeedEnd, JoinWorkers, StopHelpers, Return, CollectResult,
              vars, pool, ui, work
<1> HIDE DEF G
<1> QED BY <1>1, <1>2, <1>3, <1>4, <1>5, <1>6, <1>7 DEF Next, WorkerStep, RecvNextTarget, EventLoop, User

\* A worker has a file exactly where its state says so.
LEMMA ShapeStep ==
  ASSUME IInv, History, Shape, [Next]_vars, NEW v \in All
  PROVE  ShapeAt(v)'
<1>0. /\ main \in [All -> Mains] /\ rx \in [All -> Calls] /\ pf \in [All -> Prefetched]
      /\ main[v] \in Mains /\ rx[v] \in Calls /\ pf[v] \in Prefetched /\ FlowAt(v) /\ ShapeAt(v)
      /\ ghost.skipped \subseteq ghost'.skipped /\ NoFile \notin Files /\ queue \in Seq(Files)
  BY Growing, PoolAssumption DEF IInv, Types, MainType, CallType, PfType, RestType, Flow, Shape
<1>h. ghost \in [attempts : [Files -> Nat], skipped : SUBSET (Files \cup {NoFile}),
                 allowed : SUBSET (Files \cup {NoFile}), stopped : BOOLEAN]
  BY DEF History
<1>a. ASSUME NEW w \in All, w # v, WorkerStep(w) \/ ExtraWorker(w) \/ AutoAnswer(w)
      PROVE  ShapeAt(v)'
  BY <1>0, <1>a, OtherWorkers DEF ShapeAt
<1> USE <1>0 DEF FlowAt, ShapeAt, Mains, Calls, Prefetched
<1>1. CASE RecvItem(v)
  <2>1. Head(queue) \in Files
    BY <1>1 DEF RecvItem
  <2> QED BY <1>1, <2>1 DEF RecvItem, At
<1>2. CASE RecvClosed(v)
  BY <1>2 DEF RecvClosed, At
<1>3. CASE Stat(v)
  BY <1>3, <1>h DEF Stat, At
<1>4. CASE ProcessAnswer(v)
  BY <1>4, <1>h DEF ProcessAnswer, At
<1>5. CASE GetTarget(v)
  BY <1>5 DEF GetTarget, At, Off, NoPf
<1>6. CASE Check(v)
  BY <1>6 DEF Check, StartTransfer, At, NoMain
<1>7. CASE OpenTarget(v)
  BY <1>7 DEF OpenTarget, StartTransfer, At, NoMain
<1>8. CASE PollFlags(v)
  BY <1>8 DEF PollFlags
<1>9. CASE TransferOk(v) \/ TransferErr(v)
  BY <1>9 DEF TransferOk, TransferErr
<1>10. CASE PrefetchDecide(v)
  BY <1>10 DEF PrefetchDecide, Ready, At
<1>11. CASE PrefetchOpen(v)
  BY <1>11 DEF PrefetchOpen, Ready, At
<1>12. CASE Joined(v)
  BY <1>12 DEF Joined, NextPrefetched, Off, At, NoMain, NoPf
<1>13. CASE Exit(v) \/ ExtraWorker(v)
  BY <1>13 DEF Exit, ExtraWorker
<1>14. CASE AutoAnswer(v)
  BY <1>14 DEF AutoAnswer, Respond
<1>20. ASSUME NEW a \in Answers, UserAnswer(a)
      PROVE  ShapeAt(v)'
  <2>1. /\ main' = main /\ pf' = pf /\ ghost' = ghost /\ rx'[v].file = rx[v].file
        /\ rx'[v] = rx[v] \/ (rx[v].pc = "asked" /\ rx'[v].pc = "answered" /\ rx'[v].ans = a)
    <3>1. /\ rx'[v] = rx[v] \/ rx[v].pc = "asked"
          /\ rx'[v].file = rx[v].file /\ (rx'[v] # rx[v] => rx'[v].pc = "answered" /\ rx'[v].ans = a)
          /\ main' = main /\ pf' = pf /\ ghost' = ghost
      BY ONLY IInv, <1>20, v \in All, Answered
    <3> QED BY ONLY <3>1
  <2>2. CASE rx'[v] = rx[v]
    BY <2>1, <2>2
  <2>3. CASE rx[v].pc = "asked" /\ rx'[v].pc = "answered" /\ rx'[v].ans = a
    BY <2>1, <2>3
  <2> QED BY <2>1, <2>2, <2>3
<1>21. CASE AbandonKey
  BY <1>21 DEF AbandonKey, At
<1>22. CASE \/ (\E w \in All : SessionDies(w) \/ Heartbeat(w) \/ ShowPrompt(w)) \/ (\E f \in Files : Feed(f) \/ DeleteSource(f))
            \/ FeedEnd \/ JoinWorkers \/ StopHelpers \/ Return \/ CollectResult
            \/ SkipKey \/ CancelKey \/ UNCHANGED vars
  <2>1. UNCHANGED <<main, rx, pf>>
    BY <1>22 DEF SessionDies, Heartbeat, ShowPrompt, Feed, DeleteSource, FeedEnd, JoinWorkers,
         StopHelpers, Return, CollectResult, SkipKey, CancelKey, vars
  <2> QED BY <2>1
<1> HIDE <1>0 DEF FlowAt, ShapeAt, Mains, Calls, Prefetched
<1> QED BY <1>a, <1>1, <1>2, <1>3, <1>4, <1>5, <1>6, <1>7, <1>8, <1>9, <1>10, <1>11, <1>12, <1>13,
     <1>14, <1>20, <1>21, <1>22
        DEF Next, WorkerStep, RecvNextTarget, Background, EventLoop, User

\* A worker keeps the files it has, or it is clear what became of them.
Keeps(w) ==
  /\ Pending(w)' \subseteq Pending(w) /\ Busy(w)' \subseteq Busy(w)
  /\ \A f \in Pending(w) \cup Busy(w) :
       f \in Pending(w)' \cup Busy(w)' \cup copied' \cup ghost'.skipped \/ Lost'

\* The beginning of a transfer is the only step that gives a worker a file to transfer.
Begins(w) == main[w].pc \in {"check", "open"} /\ main'[w].pc = "xfer"

\* A worker that must stop is one of a transfer that was stopped or lost a session.
LEMMA ToldToStop ==
  ASSUME PInv, NEW w \in All, main[w].pc \in {"check", "open", "xfer"}, cancel \/ dead
  PROVE  ghost.stopped \/ dead
<1>1. CASE phase = "run"
  BY <1>1 DEF PInv, Stopping
<1>2. CASE phase # "run"
  <2>1. main[w].pc = "check"
    BY <1>2 DEF PInv, Late
  <2>2. main[w].cur \in Pending(w)
    BY <2>1 DEF PInv, Shape, ShapeAt, Pending
  <2> QED BY <1>2, <2>2 DEF PInv, Late
<1> QED BY <1>1, <1>2

\* A worker's own steps, but the arrival of a file and the beginning of a transfer.
LEMMA KeepsOwn ==
  ASSUME PInv, [Next]_vars, NEW w \in All,
         WorkerStep(w) \/ ExtraWorker(w) \/ AutoAnswer(w), ~RecvItem(w), ~Begins(w)
  PROVE  Keeps(w)
<1>0. /\ main \in [All -> Mains] /\ rx \in [All -> Calls] /\ pf \in [All -> Prefetched]
      /\ main[w] \in Mains /\ rx[w] \in Calls /\ pf[w] \in Prefetched
      /\ FlowAt(w) /\ ShapeAt(w) /\ NoFile \notin Files
      /\ ghost.skipped \subseteq ghost'.skipped
      /\ (ghost.stopped => ghost'.stopped) /\ (dead => dead') /\ (lastError => lastError')
  BY Growing, PoolAssumption
     DEF PInv, IInv, Types, MainType, CallType, PfType, RestType, Flow, Shape
<1>h. ghost \in [attempts : [Files -> Nat], skipped : SUBSET (Files \cup {NoFile}),
                 allowed : SUBSET (Files \cup {NoFile}), stopped : BOOLEAN]
  BY DEF PInv, History
<1>a. /\ NoPf.file = NoFile /\ NoMain.cur = NoFile /\ Off.file = NoFile /\ Off.pc = "off"
      /\ \A p, f : At(p, f).file = f /\ At(p, f).pc = p
      /\ \A f, h : Ready(f, h).file = f /\ Ready(f, h).pc = "ready" /\ Ready(f, h).ans = h
  BY DEF NoPf, NoMain, Off, At, Ready
<1>l. Lost <=> ghost.stopped \/ dead \/ lastError
  BY DEF Lost
<1>b. ASSUME rx'[w].file = rx[w].file, pf'[w].file = pf[w].file, main'[w].cur = main[w].cur,
             \/ main'[w].pc = main[w].pc
             \/ main[w].pc \in {"check", "open"} /\ main'[w].pc \in {"check", "open"}
             \/ main[w].pc \notin {"check", "open", "xfer"} /\ main'[w].pc \notin {"check", "open", "xfer"}
      PROVE  Keeps(w)
  BY <1>b DEF Keeps, Pending, Busy
<1>1. CASE RecvClosed(w)
  <2>1. rx[w].pc = "recv" /\ rx' = [rx EXCEPT ![w] = At("none", NoFile)] /\ UNCHANGED <<main, pf>>
    BY <1>1 DEF RecvClosed
  <2>2. rx'[w].file = NoFile /\ rx[w].file = NoFile
    BY <1>0, <1>a, <2>1 DEF ShapeAt
  <2> QED BY <1>b, <2>1, <2>2
<1>2. CASE Stat(w)
  <2>1. rx'[w].file = rx[w].file \/ (~attached /\ rx'[w].file = NoFile)
    BY <1>0, <1>a, <1>2 DEF Stat
  <2>2. UNCHANGED <<main, pf>>
    BY <1>2 DEF Stat
  <2>3. ~attached => Lost'
    BY <1>0 DEF PInv, Stopping, Lost
  <2>4. CASE rx'[w].file = rx[w].file
    BY <1>b, <2>2, <2>4
  <2>5. CASE ~attached /\ rx'[w].file = NoFile
    BY <2>2, <2>3, <2>5 DEF Keeps, Pending, Busy
  <2> QED BY <2>1, <2>4, <2>5
<1>3. CASE ProcessAnswer(w)
  <2>1. rx[w].ans \in Answers \cup {"cancel", "overwriteAll", "skipAll"} /\ rx[w].pc = "answered"
    BY <1>0, <1>3 DEF ProcessAnswer, ShapeAt
  <2>2. rx[w].ans \in {"overwrite", "overwriteAll", "skip", "skipAll", "cancel"}
    BY <2>1, PoolAssumption
  <2>3. UNCHANGED <<main, pf>>
    BY <1>3 DEF ProcessAnswer
  <2>4. CASE rx[w].ans \in {"overwrite", "overwriteAll", "skip", "skipAll"}
    <3>1. rx'[w].file = rx[w].file
      BY <1>0, <1>a, <1>3, <2>4 DEF ProcessAnswer
    <3> QED BY <1>b, <2>3, <3>1
  <2>5. CASE rx[w].ans = "cancel"
    <3>1. rx'[w].file = NoFile
      BY <1>0, <1>a, <1>3, <2>5 DEF ProcessAnswer
    <3>2. ghost'.stopped
      BY <1>h, <1>3, <2>5 DEF ProcessAnswer
    <3> QED BY <2>3, <3>1, <3>2 DEF Keeps, Pending, Busy, Lost
  <2> QED BY <2>2, <2>4, <2>5
<1>4. CASE GetTarget(w)
  <2>0. main[w].pc = "get" /\ main[w].cur = NoFile
    BY <1>0, <1>4 DEF GetTarget, ShapeAt
  <2>1. CASE /\ pf[w] # NoPf /\ rx' = rx /\ pf' = [pf EXCEPT ![w] = NoPf]
             /\ main' = [main EXCEPT ![w].pc = "check", ![w].cur = pf[w].file, ![w].h = pf[w].h]
    <3>1. main'[w].pc = "check" /\ main'[w].cur = pf[w].file /\ pf'[w].file = NoFile
      BY <1>0, <1>a, <2>1 DEF Mains
    <3> QED BY <2>0, <2>1, <3>1 DEF Keeps, Pending, Busy
  <2>2. CASE /\ rx[w].pc = "off" /\ rx' = [rx EXCEPT ![w] = At("recv", NoFile)]
             /\ UNCHANGED <<main, pf>>
    <3>1. rx[w].file = NoFile /\ rx'[w].file = NoFile
      BY <1>0, <1>a, <2>2 DEF ShapeAt
    <3> QED BY <1>b, <2>2, <3>1
  <2>3. CASE /\ rx' = [rx EXCEPT ![w] = Off] /\ pf' = pf
             /\ main' = [main EXCEPT ![w].pc = "check", ![w].cur = rx[w].file, ![w].h = "none"]
    <3>1. main'[w].pc = "check" /\ main'[w].cur = rx[w].file /\ rx'[w].file = NoFile
      BY <1>0, <1>a, <2>3 DEF Mains
    <3> QED BY <2>0, <2>3, <3>1 DEF Keeps, Pending, Busy
  <2>4. CASE rx[w].pc = "skip" /\ rx' = [rx EXCEPT ![w] = Off] /\ UNCHANGED <<main, pf>>
    <3>1. rx'[w].file = NoFile /\ rx[w].file \in ghost'.skipped
      BY <1>0, <1>a, <2>4 DEF ShapeAt
    <3> QED BY <2>4, <3>1 DEF Keeps, Pending, Busy
  <2>5. CASE /\ rx[w].pc = "none" /\ rx' = [rx EXCEPT ![w] = Off] /\ pf' = pf
             /\ main' = [main EXCEPT ![w].pc = "exit"]
    <3>1. rx[w].file = NoFile /\ rx'[w].file = NoFile /\ main'[w].cur = main[w].cur /\ main'[w].pc = "exit"
      BY <1>0, <1>a, <2>5 DEF ShapeAt, Mains
    <3> QED BY <1>b, <2>0, <2>5, <3>1
  <2> QED BY <1>4, <2>1, <2>2, <2>3, <2>4, <2>5 DEF GetTarget
<1>5. CASE Check(w)
  <2>1. main[w].pc = "check" /\ pf' = pf
    BY <1>5 DEF Check
  <2>2. CASE main' = [main EXCEPT ![w].pc = "open"] /\ rx' = rx
    <3>1. main'[w].pc = "open" /\ main'[w].cur = main[w].cur
      BY <1>0, <2>2 DEF Mains
    <3> QED BY <1>b, <2>1, <2>2, <3>1
  <2>3. CASE /\ main' = [main EXCEPT ![w] = [NoMain EXCEPT !.pc = "exit"]] /\ rx' = rx
             /\ cancel \/ dead \/ w \in closed
    <3>1. main'[w].pc = "exit" /\ main'[w].cur = NoFile
      BY <1>0, <2>3 DEF NoMain
    <3>2. Lost'
      <4>1. CASE cancel \/ dead
        BY <1>0, <2>1, <4>1, ToldToStop DEF Lost
      <4>2. CASE ~(cancel \/ dead)
        <5>1. dead'
          BY <1>5, <2>3, <4>2, Zenon DEF Check
        <5> QED BY <5>1 DEF Lost
      <4> QED BY <4>1, <4>2
    <3> QED BY <2>1, <2>3, <3>1, <3>2 DEF Keeps, Pending, Busy
  <2>4. CASE StartTransfer(w, main[w].h)
    <3>1. main'[w].pc = "xfer"
      BY <1>0, <2>4 DEF StartTransfer, Mains
    <3> QED BY <2>1, <3>1 DEF Begins
  <2> QED BY <1>5, <2>2, <2>3, <2>4 DEF Check
<1>6. CASE OpenTarget(w)
  <2>1. CASE StartTransfer(w, "real")
    <3>1. main'[w].pc = "xfer" /\ main[w].pc = "open"
      BY <1>0, <1>6, <2>1 DEF StartTransfer, OpenTarget, Mains
    <3> QED BY <3>1 DEF Begins
  <2>2. CASE /\ lastError' = TRUE /\ rx' = rx
             /\ main' = [main EXCEPT ![w] = [NoMain EXCEPT !.pc = IF w \in closed THEN "exit" ELSE "get"]]
    <3>1. main'[w].pc \in {"exit", "get"} /\ main'[w].cur = NoFile
      BY <1>0, <2>2 DEF NoMain
    <3>2. pf' = pf
      BY <1>6 DEF OpenTarget
    <3> QED BY <2>2, <3>1, <3>2 DEF Keeps, Pending, Busy, Lost
  <2> QED BY <1>6, <2>1, <2>2 DEF OpenTarget
<1>7. CASE PollFlags(w) \/ TransferOk(w) \/ TransferErr(w) \/ Exit(w) \/ ExtraWorker(w)
  <2>1. UNCHANGED <<rx, pf>>
    BY <1>7 DEF PollFlags, TransferOk, TransferErr, Exit, ExtraWorker
  <2>2. CASE PollFlags(w) \/ TransferOk(w) \/ TransferErr(w)
    <3>1. main'[w].pc = main[w].pc /\ main'[w].cur = main[w].cur
      BY <1>0, <2>2 DEF PollFlags, TransferOk, TransferErr, Mains
    <3> QED BY <1>b, <2>1, <3>1
  <2>3. CASE Exit(w) \/ ExtraWorker(w)
    <3>1. /\ main[w].pc \in {"exit", "absent"} /\ main'[w].pc \in {"done", "get"}
          /\ main'[w].cur = main[w].cur
      BY <1>0, <2>3 DEF Exit, ExtraWorker, Mains
    <3> QED BY <1>b, <2>1, <3>1
  <2> QED BY <1>7, <2>2, <2>3
<1>8. CASE PrefetchDecide(w)
  <2>1. UNCHANGED <<main, pf>> /\ main[w].pc = "xfer" /\ rx[w].pc \in {"take", "skip", "none"}
    BY <1>8 DEF PrefetchDecide
  <2>2. CASE cancel \/ dead
    <3>1. Lost'
      BY <1>0, <2>1, <2>2, ToldToStop DEF Lost
    <3>2. rx'[w].file = NoFile
      BY <1>0, <1>a, <1>8, <2>2 DEF PrefetchDecide
    <3> QED BY <2>1, <3>1, <3>2 DEF Keeps, Pending, Busy
  <2>3. CASE ~(cancel \/ dead)
    <3>1. rx'[w].file = rx[w].file
      BY <1>0, <1>a, <1>8, <2>3 DEF PrefetchDecide, ShapeAt
    <3> QED BY <1>b, <2>1, <3>1
  <2> QED BY <2>2, <2>3
<1>9. CASE PrefetchOpen(w)
  <2>1. UNCHANGED <<main, pf>> /\ rx'[w].file = rx[w].file
    BY <1>0, <1>a, <1>9 DEF PrefetchOpen
  <2> QED BY <1>b, <2>1
<1>10. CASE Joined(w)
  <2>1. /\ main[w].pc = "xfer" /\ main[w].x \in {"ok", "err"} /\ rx[w].pc = "ready"
        /\ pf[w].file = NoFile
    BY <1>0, <1>a, <1>10 DEF Joined, ShapeAt, FlowAt, Mains
  <2>2. pf'[w].file = rx[w].file /\ rx'[w].file = NoFile /\ main'[w].cur = NoFile
        /\ main'[w].pc \in {"exit", "get"}
    BY <1>0, <1>a, <1>10 DEF Joined, NextPrefetched, NoMain
  <2>3. main[w].cur \in copied' \cup ghost'.skipped \/ Lost'
    <3>1. CASE main[w].x = "ok"
      BY <1>10, <3>1 DEF Joined
    <3>2. CASE main[w].x = "err" /\ cancel
      BY <1>0, <2>1, <3>2, ToldToStop DEF Lost
    <3>3. CASE main[w].x = "err" /\ ~cancel /\ skip
      BY <1>h, <1>10, <3>3 DEF Joined
    <3>4. CASE main[w].x = "err" /\ ~cancel /\ ~skip
      <4>1. lastError'
        BY <1>10, <3>4, Zenon DEF Joined
      <4> QED BY <4>1 DEF Lost
    <3> QED BY <2>1, <3>1, <3>2, <3>3, <3>4
  <2> QED BY <2>1, <2>2, <2>3 DEF Keeps, Pending, Busy
<1>11. CASE AutoAnswer(w)
  <2>1. UNCHANGED <<main, pf>> /\ rx'[w].file = rx[w].file
    BY <1>0, <1>11 DEF AutoAnswer, Respond, Calls
  <2> QED BY <1>b, <2>1
<1> QED BY <1>1, <1>2, <1>3, <1>4, <1>5, <1>6, <1>7, <1>8, <1>9, <1>10, <1>11 DEF WorkerStep, RecvNextTarget


\* Every worker keeps its files, and nothing enters or leaves the queue.
Kept ==
  /\ \A v \in All : Keeps(v)
  /\ UNCHANGED <<unsent, queue>> /\ ghost'.attempts = ghost.attempts

\* A worker none of whose state changes keeps its files.
LEMMA KeepsStill ==
  ASSUME NEW v \in All, main'[v] = main[v], rx'[v] = rx[v], pf'[v] = pf[v]
  PROVE  Keeps(v)
  BY DEF Keeps, Pending, Busy

\* Files move only where they are sent, received or begun.
LEMMA KeptOrMoved ==
  ASSUME PInv, [Next]_vars
  PROVE  \/ Kept
         \/ \E f \in Files : Feed(f)
         \/ \E w \in All : RecvItem(w)
         \/ \E w \in All : (Check(w) \/ OpenTarget(w)) /\ Begins(w)
<1>0. /\ main \in [All -> Mains] /\ rx \in [All -> Calls] /\ pf \in [All -> Prefetched] /\ IInv
      /\ ghost \in [attempts : [Files -> Nat], skipped : SUBSET (Files \cup {NoFile}),
                    allowed : SUBSET (Files \cup {NoFile}), stopped : BOOLEAN]
  BY DEF PInv, IInv, Types, MainType, CallType, PfType, History
<1>1. ASSUME NEW w \in All, WorkerStep(w) \/ ExtraWorker(w) \/ AutoAnswer(w), ~RecvItem(w), ~Begins(w)
      PROVE  Kept
  <2>1. Keeps(w)
    BY <1>1, KeepsOwn
  <2>2. \A v \in All \ {w} : Keeps(v)
    BY <1>0, <1>1, OtherWorkers, KeepsStill
  <2>3. UNCHANGED <<unsent, queue>>
    BY <1>1 DEF WorkerStep, RecvNextTarget, RecvClosed, Stat, ProcessAnswer, GetTarget, Check, OpenTarget,
         PollFlags, TransferOk, TransferErr, PrefetchDecide, PrefetchOpen, Joined, Exit, ExtraWorker,
         AutoAnswer, work
  <2>4. ghost'.attempts = ghost.attempts
    <3>1. CASE RecvClosed(w) \/ Stat(w) \/ ProcessAnswer(w) \/ Joined(w)
      BY <1>0, <3>1 DEF RecvClosed, Stat, ProcessAnswer, Joined
    <3>2. CASE Check(w)
      <4>1. ASSUME StartTransfer(w, main[w].h)
            PROVE  FALSE
        BY <1>0, <1>1, <3>2, <4>1 DEF StartTransfer, Check, Begins, Mains
      <4> QED BY <3>2, <4>1 DEF Check
    <3>3. CASE OpenTarget(w)
      <4>1. ASSUME StartTransfer(w, "real")
            PROVE  FALSE
        BY <1>0, <1>1, <3>3, <4>1 DEF StartTransfer, OpenTarget, Begins, Mains
      <4> QED BY <3>3, <4>1 DEF OpenTarget
    <3>4. CASE \/ GetTarget(w) \/ PollFlags(w) \/ TransferOk(w) \/ TransferErr(w) \/ PrefetchDecide(w)
               \/ PrefetchOpen(w) \/ Exit(w) \/ ExtraWorker(w) \/ AutoAnswer(w)
      BY <3>4 DEF GetTarget, PollFlags, TransferOk, TransferErr, PrefetchDecide, PrefetchOpen, Exit,
                  ExtraWorker, AutoAnswer
    <3> QED BY <1>1, <3>1, <3>2, <3>3, <3>4 DEF WorkerStep, RecvNextTarget
  <2> QED BY <2>1, <2>2, <2>3, <2>4 DEF Kept
<1>2. ASSUME NEW w \in All, WorkerStep(w), Begins(w)
      PROVE  Check(w) \/ OpenTarget(w)
  <2>1. main[w].pc \in {"check", "open"} /\ main'[w].pc = "xfer"
    BY <1>2 DEF Begins
  <2>2. CASE RecvNextTarget(w)
    BY <2>1, <2>2 DEF RecvNextTarget, RecvItem, RecvClosed, Stat, ProcessAnswer
  <2>3. CASE GetTarget(w) \/ PollFlags(w) \/ TransferOk(w) \/ TransferErr(w) \/ PrefetchDecide(w)
             \/ Joined(w) \/ Exit(w)
    BY <2>1, <2>3 DEF GetTarget, PollFlags, TransferOk, TransferErr, PrefetchDecide, Joined, Exit
  <2>4. CASE PrefetchOpen(w)
    BY <2>1, <2>4 DEF PrefetchOpen
  <2> QED BY <1>2, <2>2, <2>3, <2>4 DEF WorkerStep
<1>3. ASSUME NEW w \in All, ExtraWorker(w) \/ AutoAnswer(w)
      PROVE  ~RecvItem(w) /\ ~Begins(w)
  <2>1. CASE ExtraWorker(w)
    BY <1>0, <2>1 DEF ExtraWorker, RecvItem, Begins, Mains
  <2>2. CASE AutoAnswer(w)
    BY <1>0, <2>2 DEF AutoAnswer, RecvItem, Begins
  <2> QED BY <1>3, <2>1, <2>2
<1>4. ASSUME UNCHANGED <<main, pf, unsent, queue>>, ghost'.attempts = ghost.attempts,
             \A v \in All : rx'[v].file = rx[v].file \/ (rx'[v].file = NoFile /\ Lost')
      PROVE  Kept
  BY <1>4 DEF Kept, Keeps, Pending, Busy
<1>5. CASE \/ (\E w \in All : SessionDies(w) \/ Heartbeat(w) \/ ShowPrompt(w)) \/ (\E f \in Files : DeleteSource(f))
           \/ FeedEnd \/ JoinWorkers \/ StopHelpers \/ Return \/ CollectResult \/ SkipKey \/ UNCHANGED vars
  <2>1. UNCHANGED <<main, rx, pf, unsent, queue, ghost>>
    BY <1>5 DEF SessionDies, Heartbeat, ShowPrompt, DeleteSource, FeedEnd, JoinWorkers,
         StopHelpers, Return, CollectResult, SkipKey, vars, work
  <2> QED BY <1>4, <2>1
<1>6. CASE CancelKey
  <2>1. UNCHANGED <<main, rx, pf, unsent, queue>> /\ ghost'.attempts = ghost.attempts
    BY <1>0, <1>6 DEF CancelKey, work
  <2> QED BY <1>4, <2>1
<1>7. ASSUME NEW a \in Answers, UserAnswer(a)
      PROVE  Kept
  <2>1. UNCHANGED <<main, pf, unsent, queue, ghost>>
    BY <1>7 DEF UserAnswer, work
  <2>2. \A v \in All : rx'[v].file = rx[v].file
    BY <1>0, <1>7 DEF UserAnswer, Respond, Calls
  <2> QED BY <1>4, <2>1, <2>2
<1>8. CASE AbandonKey
  <2>1. UNCHANGED <<main, pf, unsent, queue>> /\ ghost'.attempts = ghost.attempts /\ ghost'.stopped
    BY <1>0, <1>8 DEF AbandonKey, work
  <2>2. \A v \in All : rx'[v].file \in {rx[v].file, NoFile}
    BY <1>0, <1>8 DEF AbandonKey, At
  <2> QED BY <1>4, <2>1, <2>2 DEF Lost
<1> QED BY <1>1, <1>2, <1>3, <1>5, <1>6, <1>7, <1>8 DEF Next, WorkerStep, RecvNextTarget, Background, EventLoop, User

\* What is in a queue, after something is appended to it,
LEMMA AppendedElements ==
  ASSUME NEW S, NEW q \in Seq(S), NEW e \in S,
         \A i, j \in 1 .. Len(q) : q[i] = q[j] => i = j,
         e \notin {q[i] : i \in 1 .. Len(q)}
  PROVE  LET a == Append(q, e)
         IN /\ {a[i] : i \in 1 .. Len(a)} = {q[i] : i \in 1 .. Len(q)} \cup {e}
            /\ \A i, j \in 1 .. Len(a) : a[i] = a[j] => i = j
<1> DEFINE a == Append(q, e)
<1>1. /\ Len(a) = Len(q) + 1 /\ Len(q) \in Nat /\ a[Len(q) + 1] = e
      /\ \A i \in 1 .. Len(q) : a[i] = q[i]
  OBVIOUS
<1>2. \A i \in 1 .. Len(a) : i \in 1 .. Len(q) \/ i = Len(q) + 1
  BY <1>1
<1>3. 1 .. Len(q) \subseteq 1 .. Len(a) /\ Len(q) + 1 \in 1 .. Len(a)
  BY <1>1
<1> HIDE DEF a
<1>4. {a[i] : i \in 1 .. Len(a)} = {q[i] : i \in 1 .. Len(q)} \cup {e}
  BY <1>1, <1>2, <1>3
<1>5. \A i, j \in 1 .. Len(a) : a[i] = a[j] => i = j
  BY <1>1, <1>2
<1> QED BY <1>4, <1>5 DEF a

\* ... and after its head was taken.
LEMMA TakenElements ==
  ASSUME NEW S, NEW q \in Seq(S), q # <<>>,
         \A i, j \in 1 .. Len(q) : q[i] = q[j] => i = j
  PROVE  LET a == Tail(q)
         IN /\ {a[i] : i \in 1 .. Len(a)} = {q[i] : i \in 1 .. Len(q)} \ {Head(q)}
            /\ \A i, j \in 1 .. Len(a) : a[i] = a[j] => i = j
            /\ Head(q) \in {q[i] : i \in 1 .. Len(q)} /\ Head(q) \in S
<1> DEFINE a == Tail(q)
<1>1. /\ Len(a) = Len(q) - 1 /\ Len(q) \in Nat \ {0} /\ Head(q) = q[1] /\ q[1] \in S
      /\ \A i \in 1 .. Len(a) : a[i] = q[i + 1]
  OBVIOUS
<1>2. /\ \A i \in 1 .. Len(a) : i + 1 \in 1 .. Len(q) /\ i + 1 # 1
      /\ \A k \in 1 .. Len(q) : k # 1 => k - 1 \in 1 .. Len(a) /\ (k - 1) + 1 = k
      /\ 1 \in 1 .. Len(q)
  BY <1>1
<1> HIDE DEF a
<1>3. \A x : x \in {a[i] : i \in 1 .. Len(a)} => x \in {q[i] : i \in 1 .. Len(q)} \ {Head(q)}
  BY <1>1, <1>2
<1>4. \A x : x \in {q[i] : i \in 1 .. Len(q)} \ {Head(q)} => x \in {a[i] : i \in 1 .. Len(a)}
  <2> TAKE x
  <2> HAVE x \in {q[i] : i \in 1 .. Len(q)} \ {Head(q)}
  <2>1. PICK k \in 1 .. Len(q) : x = q[k]
    OBVIOUS
  <2>2. k # 1
    BY <1>1, <2>1
  <2>3. k - 1 \in 1 .. Len(a) /\ a[k - 1] = x
    BY <1>1, <1>2, <2>1, <2>2
  <2> QED BY <2>3
<1>5. \A i, j \in 1 .. Len(a) : a[i] = a[j] => i = j
  BY <1>1, <1>2
<1> QED BY <1>1, <1>2, <1>3, <1>4, <1>5 DEF a

\* Types and invariants the steps below use.
LEMMA Known ==
  ASSUME PInv
  PROVE  /\ Once /\ IInv /\ History /\ NoFile \notin Files /\ queue \in Seq(Files)
         /\ ghost \in [attempts : [Files -> Nat], skipped : SUBSET (Files \cup {NoFile}),
                       allowed : SUBSET (Files \cup {NoFile}), stopped : BOOLEAN]
         /\ main \in [All -> Mains] /\ rx \in [All -> Calls] /\ pf \in [All -> Prefetched]
         /\ \A w \in All : FlowAt(w) /\ ShapeAt(w)
  BY PoolAssumption
     DEF PInv, IInv, Types, MainType, CallType, PfType, RestType, Flow, Shape, History

\* A file that is sent goes from the feeder's list to the queue.
LEMMA Sent ==
  ASSUME PInv, NEW f \in Files, Feed(f)
  PROVE  /\ f \in unsent /\ unsent' = unsent \ {f} /\ Queued' = Queued \cup {f} /\ ghost' = ghost
         /\ \A i, j \in 1 .. Len(queue') : queue'[i] = queue'[j] => i = j
         /\ \A v \in All : Pending(v)' = Pending(v) /\ Busy(v)' = Busy(v)
<1>1. /\ f \in unsent /\ queue' = Append(queue, f) /\ unsent' = unsent \ {f} /\ ghost' = ghost
      /\ UNCHANGED <<main, rx, pf>>
  BY DEF Feed
<1>2. f \notin Queued
  BY <1>1, Known DEF Once
<1>3. Queued' = Queued \cup {f} /\ \A i, j \in 1 .. Len(queue') : queue'[i] = queue'[j] => i = j
  BY <1>1, <1>2, Known, AppendedElements DEF Queued, Once
<1>4. \A v \in All : Pending(v)' = Pending(v) /\ Busy(v)' = Busy(v)
  BY <1>1 DEF Pending, Busy
<1> QED BY <1>1, <1>3, <1>4

\* A file that arrives goes from the queue to one worker, which had nothing pending, or is
\* dropped because the transfer is cancelled.
LEMMA Received ==
  ASSUME PInv, NEW w \in All, RecvItem(w)
  PROVE  /\ Head(queue) \in Queued \cap Files /\ Queued' = Queued \ {Head(queue)}
         /\ unsent' = unsent /\ ghost'.attempts = ghost.attempts
         /\ \A i, j \in 1 .. Len(queue') : queue'[i] = queue'[j] => i = j
         /\ Pending(w) = {} /\ Pending(w)' \subseteq {Head(queue)}
         /\ Head(queue) \in Pending(w)' \/ cancel
         /\ \A v \in All \ {w} : Pending(v)' = Pending(v)
         /\ \A v \in All : Busy(v)' = Busy(v)
<1> DEFINE f == Head(queue)
<1>0. /\ rx[w].pc = "recv" /\ queue # <<>> /\ queue' = Tail(queue)
      /\ UNCHANGED <<unsent, main, pf>>
  BY DEF RecvItem
<1>1. ghost'.attempts = ghost.attempts
  BY Known DEF RecvItem
<1>2. /\ Queued' = Queued \ {f} /\ f \in Queued /\ f \in Files
      /\ \A i, j \in 1 .. Len(queue') : queue'[i] = queue'[j] => i = j
  <2>1. \A i, j \in 1 .. Len(queue) : queue[i] = queue[j] => i = j
    BY Known DEF Once
  <2>2. /\ {Tail(queue)[i] : i \in 1 .. Len(Tail(queue))} = {queue[i] : i \in 1 .. Len(queue)} \ {Head(queue)}
        /\ \A i, j \in 1 .. Len(Tail(queue)) : Tail(queue)[i] = Tail(queue)[j] => i = j
        /\ Head(queue) \in {queue[i] : i \in 1 .. Len(queue)} /\ Head(queue) \in Files
    <3> HIDE DEF f
    <3> QED BY <1>0, <2>1, Known, TakenElements
  <2>3. Queued' = {Tail(queue)[i] : i \in 1 .. Len(Tail(queue))}
    BY <1>0 DEF Queued
  <2>4. \A i, j \in 1 .. Len(queue') : queue'[i] = queue'[j] => i = j
    BY <1>0, <2>2
  <2> QED BY <2>2, <2>3, <2>4, Zenon DEF Queued
<1>3. /\ \A v \in All \ {w} : rx'[v] = rx[v]
      /\ rx'[w].file \in {f, NoFile} /\ (~cancel => rx'[w].file = f)
  BY Known DEF RecvItem, At
<1>4. main[w].pc \in {"get", "xfer"} /\ pf[w].file = NoFile /\ rx[w].file = NoFile
  BY <1>0, Known DEF FlowAt, ShapeAt, NoPf
<1>5. Pending(w) = {}
  BY <1>4 DEF Pending
<1>6. Pending(w)' \subseteq {f}
  BY <1>0, <1>3, <1>4 DEF Pending
<1>7. f \in Pending(w)' \/ cancel
  <2>1. f # NoFile
    BY <1>2, Known
  <2> HIDE DEF f
  <2> QED BY <1>0, <1>3, <2>1 DEF Pending
<1>8. \A v \in All \ {w} : Pending(v)' = Pending(v)
  BY <1>0, <1>3 DEF Pending
<1>9. \A v \in All : Busy(v)' = Busy(v)
  BY <1>0 DEF Busy
<1> QED BY <1>0, <1>1, <1>2, <1>5, <1>6, <1>7, <1>8, <1>9

\* A transfer that begins is that of the only file the worker has, tried once more.
LEMMA Begun ==
  ASSUME PInv, NEW w \in All, Check(w) \/ OpenTarget(w), Begins(w)
  PROVE  /\ main[w].cur \in Files /\ UNCHANGED <<unsent, queue>> /\ Queued' = Queued
         /\ Pending(w) = {main[w].cur} /\ Pending(w)' = {}
         /\ Busy(w) = {} /\ Busy(w)' = {main[w].cur} /\ main'[w].x = "run"
         /\ \A v \in All \ {w} : Pending(v)' = Pending(v) /\ Busy(v)' = Busy(v) /\ main'[v] = main[v]
         /\ ghost'.attempts = [ghost.attempts EXCEPT ![main[w].cur] = @ + 1]
<1> DEFINE f == main[w].cur
<1>1. PICK h \in {"none", "empty", "real"} : StartTransfer(w, h)
  <2>1. CASE Check(w)
    <3>1. main'[w].pc = "xfer" /\ main[w].h \in {"none", "empty", "real"}
      BY Known DEF Begins, Mains
    <3> QED BY <2>1, <3>1, Known DEF Check, NoMain, Mains
  <2>2. CASE OpenTarget(w)
    <3>1. main'[w].pc = "xfer"
      BY DEF Begins
    <3> QED BY <2>2, <3>1, Known DEF OpenTarget, NoMain
  <2> QED BY <2>1, <2>2
<1>2. UNCHANGED <<unsent, queue, pf>>
  BY DEF Check, OpenTarget, work
<1>3. main[w].pc \in {"check", "open"} /\ f # NoFile /\ f \in Files
  BY Known DEF Begins, ShapeAt, Mains
<1>4. main'[w].pc = "xfer" /\ main'[w].cur = f /\ main'[w].x = "run" /\ rx'[w].file = NoFile
  BY <1>1, Known DEF StartTransfer, At, Mains
<1>5. ghost'.attempts = [ghost.attempts EXCEPT ![f] = @ + 1]
  BY <1>1, Known DEF StartTransfer
<1>6. pf[w].file = NoFile /\ rx[w].file = NoFile
  <2>1. pf[w] = NoPf /\ rx[w].pc = "off"
    BY <1>3, Known DEF FlowAt
  <2> QED BY <2>1, Known DEF ShapeAt, NoPf
<1>7. Pending(w)' = {} /\ Busy(w)' = {f} /\ Pending(w) = {f} /\ Busy(w) = {}
  BY <1>2, <1>3, <1>4, <1>6 DEF Pending, Busy
<1>8. \A v \in All \ {w} : Pending(v)' = Pending(v) /\ Busy(v)' = Busy(v) /\ main'[v] = main[v]
  <2> SUFFICES ASSUME NEW v \in All \ {w}
               PROVE  Pending(v)' = Pending(v) /\ Busy(v)' = Busy(v) /\ main'[v] = main[v]
    OBVIOUS
  <2>1. main'[v] = main[v] /\ rx'[v] = rx[v] /\ pf'[v] = pf[v]
    BY Known, OtherWorkers DEF WorkerStep
  <2> QED BY <2>1 DEF Pending, Busy
<1> QED BY <1>2, <1>3, <1>4, <1>5, <1>7, <1>8 DEF Queued

\* No file is at two places: a file is sent once, received by one worker, begun once.
LEMMA OnceStep ==
  ASSUME PInv, [Next]_vars
  PROVE  Once'
<1>0. /\ Once /\ ghost.attempts \in [Files -> Nat]
      /\ Queued \subseteq Files /\ \A v \in All : Pending(v) \subseteq Files /\ Busy(v) \subseteq Files
  BY Known DEF Queued, Pending, Busy, Mains, Calls, Prefetched
<1>1. CASE Kept
  <2>1. Queued' = Queued /\ unsent' = unsent /\ queue' = queue /\ ghost'.attempts = ghost.attempts
    BY <1>1 DEF Kept, Queued
  <2>2. \A v \in All : Pending(v)' \subseteq Pending(v) /\ Busy(v)' \subseteq Busy(v)
    BY <1>1 DEF Kept, Keeps
  <2> QED BY <1>0, <2>1, <2>2 DEF Once
<1>2. ASSUME NEW f \in Files, Feed(f)
      PROVE  Once'
  <2>1. /\ f \in unsent /\ unsent' = unsent \ {f} /\ Queued' = Queued \cup {f} /\ ghost' = ghost
        /\ \A i, j \in 1 .. Len(queue') : queue'[i] = queue'[j] => i = j
        /\ \A v \in All : Pending(v)' = Pending(v) /\ Busy(v)' = Busy(v)
    BY <1>2, Sent
  <2>2. unsent' \subseteq Files /\ unsent' \cap Queued' = {} /\ unsent' \cup Queued' = unsent \cup Queued
    BY <1>0, <2>1 DEF Once
  <2> QED BY <1>0, <2>1, <2>2 DEF Once
<1>3. ASSUME NEW w \in All, RecvItem(w)
      PROVE  Once'
  <2> DEFINE f == Head(queue)
  <2>1. /\ f \in Queued \cap Files /\ Queued' = Queued \ {f}
        /\ unsent' = unsent /\ ghost'.attempts = ghost.attempts
        /\ \A i, j \in 1 .. Len(queue') : queue'[i] = queue'[j] => i = j
        /\ Pending(w)' \subseteq {f} /\ \A v \in All \ {w} : Pending(v)' = Pending(v)
        /\ \A v \in All : Busy(v)' = Busy(v)
    BY <1>3, Received
  <2> HIDE DEF f
  <2>2. unsent' \cup Queued' \subseteq unsent \cup Queued /\ f \notin unsent /\ f \notin Queued'
         /\ ghost.attempts[f] = 0
    BY <1>0, <2>1 DEF Once
  <2>3. \A v \in All : f \notin Pending(v)
    BY <1>0, <2>1 DEF Once
  <2>4. \A v \in All : Pending(v)' \cap (unsent' \cup Queued') = {}
    BY <1>0, <2>1, <2>2 DEF Once
  <2>5. \A u, v \in All : u # v => Pending(u)' \cap Pending(v)' = {}
    BY <1>0, <2>1, <2>3 DEF Once
  <2>6. \A v \in All : \A g \in Pending(v)' : ghost'.attempts[g] = 0
    BY <1>0, <2>1, <2>2 DEF Once
  <2>7. unsent' \subseteq Files /\ unsent' \cap Queued' = {}
    BY <1>0, <2>1 DEF Once
  <2> QED BY <1>0, <2>1, <2>2, <2>4, <2>5, <2>6, <2>7 DEF Once
<1>4. ASSUME NEW w \in All, Check(w) \/ OpenTarget(w), Begins(w)
      PROVE  Once'
  <2> DEFINE f == main[w].cur
  <2>1. /\ f \in Files /\ UNCHANGED <<unsent, queue>> /\ Queued' = Queued
        /\ Pending(w) = {f} /\ Pending(w)' = {} /\ Busy(w)' = {f}
        /\ \A v \in All \ {w} : Pending(v)' = Pending(v) /\ Busy(v)' = Busy(v)
        /\ ghost'.attempts = [ghost.attempts EXCEPT ![f] = @ + 1]
    BY <1>4, Begun
  <2> HIDE DEF f
  <2>2. ghost.attempts[f] = 0 /\ f \notin unsent \cup Queued /\ \A v \in All \ {w} : f \notin Pending(v)
    BY <1>0, <2>1 DEF Once
  <2>3. \A v \in All \ {w} : f \notin Busy(v)
    BY <1>0, <2>2 DEF Once
  <2>4. ghost'.attempts[f] = 1 /\ \A g \in Files \ {f} : ghost'.attempts[g] = ghost.attempts[g]
    BY <1>0, <2>1, <2>2
  <2>5. \A v \in All : Pending(v)' \subseteq Pending(v)
    BY <2>1
  <2>6. \A g \in unsent \cup Queued : ghost'.attempts[g] = 0
    BY <1>0, <2>2, <2>4 DEF Once
  <2>7. \A v \in All : \A g \in Pending(v)' : ghost'.attempts[g] = 0
    <3>1. \A v \in All : \A g \in Pending(v)' : g \in Pending(v) /\ g # f /\ g \in Files
      BY <1>0, <2>1, <2>2
    <3> QED BY <1>0, <2>4, <3>1 DEF Once
  <2>8. \A v \in All : \A g \in Busy(v)' : ghost'.attempts[g] = 1
    BY <1>0, <2>1, <2>3, <2>4 DEF Once
  <2>9. \A g \in Files : ghost'.attempts[g] <= 1
    BY <1>0, <2>4 DEF Once
  <2> QED BY <1>0, <2>1, <2>5, <2>6, <2>7, <2>8, <2>9 DEF Once
<1> QED BY <1>1, <1>2, <1>3, <1>4, KeptOrMoved

\* A file leaves its place for another one, is copied, is skipped, or something went wrong.
LEMMA AccountedStep ==
  ASSUME PInv, [Next]_vars
  PROVE  Accounted'
<1> SUFFICES ASSUME ~Lost', NEW f \in Files PROVE Found(f)'
  BY DEF Accounted
<1>1. /\ ghost.skipped \subseteq ghost'.skipped /\ copied \subseteq copied' /\ ~Lost
  BY Known, Growing DEF Lost
<1>2. Found(f)
  BY <1>1 DEF PInv, Accounted
<1>3. CASE f \in copied \cup ghost.skipped
  BY <1>1, <1>3 DEF Found
<1>4. CASE f \in unsent \cup Queued \/ \E w \in All : f \in Pending(w) \cup Busy(w)
  <2>1. CASE Kept
    <3>1. CASE f \in unsent \cup Queued
      BY <2>1, <3>1 DEF Kept, Queued, Found
    <3>2. ASSUME NEW w \in All, f \in Pending(w) \cup Busy(w)
          PROVE  Found(f)'
      <4>1. f \in Pending(w)' \cup Busy(w)' \cup copied' \cup ghost'.skipped
        BY <2>1, <3>2 DEF Kept, Keeps
      <4> QED BY <4>1 DEF Found
    <3> QED BY <1>4, <3>1, <3>2
  <2>2. ASSUME NEW g \in Files, Feed(g)
        PROVE  Found(f)'
    BY <1>4, <2>2, Sent DEF Found
  <2>3. ASSUME NEW w \in All, RecvItem(w)
        PROVE  Found(f)'
    <3>1. ~cancel
      <4>1. queue # <<>>
        BY <2>3 DEF RecvItem
      <4>2. CASE phase \in {"run", "joined"}
        BY <1>1, <4>2 DEF PInv, Stopping, Lost
      <4>3. CASE phase \notin {"run", "joined"}
        BY <1>1, <4>1, <4>3 DEF PInv, Late, Lost
      <4> QED BY <4>2, <4>3
    <3> DEFINE g == Head(queue)
    <3>2. /\ Queued' = Queued \ {g} /\ unsent' = unsent /\ Pending(w) = {} /\ g \in Pending(w)'
          /\ \A v \in All \ {w} : Pending(v)' = Pending(v)
          /\ \A v \in All : Busy(v)' = Busy(v)
      BY <2>3, <3>1, Received
    <3> HIDE DEF g
    <3> QED BY <1>4, <3>2 DEF Found
  <2>4. ASSUME NEW w \in All, Check(w) \/ OpenTarget(w), Begins(w)
        PROVE  Found(f)'
    <3> DEFINE g == main[w].cur
    <3>1. /\ unsent' = unsent /\ Queued' = Queued /\ Pending(w) = {g} /\ Busy(w) = {} /\ Busy(w)' = {g}
          /\ \A v \in All \ {w} : Pending(v)' = Pending(v) /\ Busy(v)' = Busy(v)
      BY <2>4, Begun
    <3> HIDE DEF g
    <3> QED BY <1>4, <3>1 DEF Found
  <2> QED BY <2>1, <2>2, <2>3, <2>4, KeptOrMoved
<1> QED BY <1>2, <1>3, <1>4 DEF Found

\* The flags and the phases change together.
LEMMA StoppingStep ==
  ASSUME PInv, [Next]_vars
  PROVE  Stopping'
<1>0. Stopping
  BY DEF PInv
<1>1. ASSUME UNCHANGED <<cancel, phase, attached>>, ghost'.stopped = ghost.stopped
      PROVE  Stopping'
  BY <1>0, <1>1 DEF Stopping
<1>2. ASSUME NEW w \in All, ProcessAnswer(w)
      PROVE  Stopping'
  <2>1. UNCHANGED <<phase, attached>>
    BY <1>2 DEF ProcessAnswer, ui, bg
  <2>2. CASE rx[w].ans = "cancel"
    <3>1. cancel' /\ ghost'.stopped
      BY <1>2, <2>2, Known DEF ProcessAnswer
    <3> QED BY <1>0, <2>1, <3>1 DEF Stopping
  <2>3. CASE rx[w].ans # "cancel"
    <3>1. (cancel' <=> cancel) /\ (ghost'.stopped <=> ghost.stopped)
      BY <1>2, <2>3, Known DEF ProcessAnswer
    <3> QED BY <1>0, <2>1, <3>1 DEF Stopping
  <2> QED BY <2>2, <2>3
<1>3. ASSUME NEW w \in All,
             \/ RecvItem(w) \/ RecvClosed(w) \/ Stat(w) \/ GetTarget(w) \/ Check(w) \/ OpenTarget(w)
             \/ PollFlags(w) \/ TransferOk(w) \/ TransferErr(w) \/ PrefetchDecide(w) \/ PrefetchOpen(w)
             \/ Joined(w) \/ Exit(w) \/ ExtraWorker(w) \/ SessionDies(w) \/ Heartbeat(w)
             \/ ShowPrompt(w) \/ AutoAnswer(w)
      PROVE  Stopping'
  <2>1. UNCHANGED <<cancel, phase, attached>>
    BY <1>3 DEF RecvItem, RecvClosed, Stat, GetTarget, Check, OpenTarget, PollFlags, TransferOk,
         TransferErr, PrefetchDecide, PrefetchOpen, Joined, Exit, ExtraWorker, SessionDies, Heartbeat,
         ShowPrompt, AutoAnswer, pool, ui, bg
  <2>2. ghost'.stopped = ghost.stopped
    BY <1>3, Known DEF RecvItem, RecvClosed, Stat, GetTarget, Check, OpenTarget, StartTransfer,
         PollFlags, TransferOk, TransferErr, PrefetchDecide, PrefetchOpen, Joined, Exit, ExtraWorker,
         SessionDies, Heartbeat, ShowPrompt, AutoAnswer
  <2> QED BY <1>1, <2>1, <2>2
<1>4. CASE CancelKey
  <2>1. cancel' /\ ghost'.stopped /\ phase' = phase
    BY <1>4, Known DEF CancelKey, bg
  <2> QED BY <1>0, <2>1 DEF Stopping
<1>5. CASE AbandonKey
  <2>1. cancel' /\ ghost'.stopped /\ phase' = phase
    BY <1>5, Known DEF AbandonKey, bg
  <2> QED BY <1>0, <2>1 DEF Stopping
<1>6. CASE StopHelpers \/ JoinWorkers \/ Return \/ CollectResult
  BY <1>0, <1>6 DEF StopHelpers, JoinWorkers, Return, CollectResult, pool, ui, Stopping
<1>7. CASE \/ (\E f \in Files : Feed(f) \/ DeleteSource(f)) \/ FeedEnd
           \/ (\E a \in Answers : UserAnswer(a)) \/ SkipKey \/ UNCHANGED vars
  <2>1. UNCHANGED <<cancel, phase, attached, ghost>>
    BY <1>7 DEF Feed, DeleteSource, FeedEnd, UserAnswer, SkipKey, vars, pool, ui, bg
  <2> QED BY <1>1, <2>1
<1> QED BY <1>2, <1>3, <1>4, <1>5, <1>6, <1>7
        DEF Next, WorkerStep, RecvNextTarget, Background, EventLoop, User

\* The reasons for a worker to end.
NoMore == cancel \/ dead \/ (queue = <<>> /\ ~txOpen)

\* A closed queue is not filled again.
LEMMA NoMoreStep ==
  ASSUME PInv, [Next]_vars, NoMore
  PROVE  NoMore'
<1>1. CASE cancel \/ dead
  BY <1>1, Known, Growing DEF NoMore
<1>2. CASE queue = <<>> /\ ~txOpen
  <2>1. ~txOpen'
    BY <1>2, Known, Growing
  <2>2. queue' = queue
    <3>1. ASSUME NEW f \in Files, Feed(f)
          PROVE  FALSE
      BY <1>2, <3>1 DEF Feed
    <3>2. ASSUME NEW w \in All, RecvItem(w)
          PROVE  FALSE
      BY <1>2, <3>2 DEF RecvItem
    <3>3. ASSUME NEW w \in All, Check(w) \/ OpenTarget(w)
          PROVE  queue' = queue
      BY <3>3 DEF Check, OpenTarget, work
    <3> QED BY <3>1, <3>2, <3>3, KeptOrMoved DEF Kept
  <2> QED BY <1>2, <2>1, <2>2 DEF NoMore
<1> QED BY <1>1, <1>2 DEF NoMore

\* What a worker that ends knows.
EndsAt(w) ==
  /\ main[w].pc \in {"exit", "done"} \/ rx[w].pc = "none" => NoMore
  /\ main[w].pc \in {"exit", "done"} /\ pf[w] # NoPf => ghost.stopped \/ dead
  /\ w \in Workers => main[w].pc # "absent"

\* A worker ends when it is told to, when its session is gone, or when the queue is empty
\* and closed.
LEMMA EndsStep ==
  ASSUME PInv, [Next]_vars, NEW w \in All
  PROVE  EndsAt(w)'
<1>0. /\ EndsAt(w) /\ (NoMore => NoMore') /\ (cancel => cancel')
      /\ (ghost.stopped => ghost'.stopped) /\ (dead => dead')
      /\ main \in [All -> Mains] /\ rx \in [All -> Calls] /\ pf \in [All -> Prefetched]
      /\ FlowAt(w) /\ ShapeAt(w)
  BY Known, Growing, NoMoreStep DEF PInv, Drained, EndsAt, NoMore
<1>r. /\ NoMain.pc = "get" /\ Off.pc = "off" /\ \A p, f : At(p, f).pc = p
      /\ \A f, h : Ready(f, h).pc = "ready"
  BY DEF NoMain, Off, At, Ready
<1>a. ASSUME main'[w] = main[w], pf'[w] = pf[w], rx'[w].pc = rx[w].pc \/ rx'[w].pc # "none" \/ NoMore'
      PROVE  EndsAt(w)'
  BY <1>0, <1>a DEF EndsAt
<1>1. ASSUME NEW v \in All, v # w, WorkerStep(v) \/ ExtraWorker(v) \/ AutoAnswer(v)
      PROVE  EndsAt(w)'
  BY <1>a, <1>1, Known, OtherWorkers
<1>2. CASE RecvItem(w)
  <2>1. UNCHANGED <<main, pf>> /\ (rx'[w].pc # "none" \/ cancel)
    BY <1>0, <1>r, <1>2 DEF RecvItem, At
  <2> QED BY <1>a, <1>0, <2>1 DEF NoMore
<1>3. CASE RecvClosed(w)
  <2>1. UNCHANGED <<main, pf>> /\ NoMore
    BY <1>3 DEF RecvClosed, NoMore
  <2> QED BY <1>a, <1>0, <2>1
<1>4. CASE Stat(w)
  <2>1. UNCHANGED <<main, pf>> /\ (rx'[w].pc # "none" \/ ~attached)
    BY <1>0, <1>r, <1>4 DEF Stat
  <2>2. ~attached => NoMore
    BY DEF PInv, Stopping, NoMore
  <2> QED BY <1>a, <1>0, <2>1, <2>2
<1>5. CASE ProcessAnswer(w)
  <2>1. UNCHANGED <<main, pf>>
    BY <1>5 DEF ProcessAnswer
  <2>2. rx[w].ans \in {"overwrite", "overwriteAll", "skip", "skipAll", "cancel"}
    BY <1>0, <1>5, PoolAssumption DEF ProcessAnswer, ShapeAt
  <2>3. CASE rx[w].ans = "cancel"
    <3>1. NoMore'
      BY <1>5, <2>3 DEF ProcessAnswer, NoMore
    <3> QED BY <1>a, <2>1, <3>1
  <2>4. CASE rx[w].ans \in {"overwrite", "overwriteAll", "skip", "skipAll"}
    <3>1. rx'[w].pc # "none"
      BY <1>0, <1>r, <1>5, <2>4 DEF ProcessAnswer
    <3> QED BY <1>a, <2>1, <3>1
  <2> QED BY <2>2, <2>3, <2>4
<1>6. CASE GetTarget(w)
  <2>1. main[w].pc = "get"
    BY <1>6 DEF GetTarget
  <2>2. CASE main'[w].pc \in {"get", "check"} /\ rx'[w].pc # "none"
    BY <1>0, <2>2 DEF EndsAt
  <2>3. CASE rx[w].pc = "none" /\ main'[w].pc = "exit" /\ pf' = pf
    <3>1. pf[w] = NoPf /\ NoMore'
      BY <1>0, <2>3 DEF FlowAt, EndsAt
    <3> QED BY <2>3, <3>1 DEF EndsAt
  <2>4. \/ main'[w].pc \in {"get", "check"} /\ rx'[w].pc # "none"
        \/ rx[w].pc = "none" /\ main'[w].pc = "exit" /\ pf' = pf
    <3>1. CASE /\ pf[w] # NoPf /\ rx' = rx
               /\ main' = [main EXCEPT ![w].pc = "check", ![w].cur = pf[w].file, ![w].h = pf[w].h]
      <4>1. rx[w].pc = "off"
        BY <1>0, <3>1 DEF FlowAt
      <4> QED BY <1>0, <3>1, <4>1 DEF Mains
    <3>2. CASE main' = main /\ (rx' = [rx EXCEPT ![w] = At("recv", NoFile)] \/ rx' = [rx EXCEPT ![w] = Off])
      BY <1>0, <1>r, <2>1, <3>2
    <3>3. CASE /\ rx' = [rx EXCEPT ![w] = Off]
               /\ main' = [main EXCEPT ![w].pc = "check", ![w].cur = rx[w].file, ![w].h = "none"]
      BY <1>0, <1>r, <3>3 DEF Mains
    <3>4. CASE rx[w].pc = "none" /\ main' = [main EXCEPT ![w].pc = "exit"] /\ pf' = pf
      BY <1>0, <3>4 DEF Mains
    <3> QED BY <1>6, <3>1, <3>2, <3>3, <3>4 DEF GetTarget
  <2> QED BY <2>2, <2>3, <2>4
<1>7. ASSUME Check(w) \/ OpenTarget(w)
      PROVE  EndsAt(w)'
  <2>1. pf' = pf /\ pf[w] = NoPf /\ rx[w].pc = "off"
    BY <1>0, <1>7 DEF Check, OpenTarget, FlowAt
  <2>2. rx'[w].pc \in {"off", "recv"}
    BY <1>0, <1>r, <1>7, <2>1 DEF Check, OpenTarget, StartTransfer
  <2>3. main'[w].pc # "absent" /\ main'[w].pc # "done"
    BY <1>0, <1>7 DEF Check, OpenTarget, StartTransfer, NoMain, Mains
  <2>4. ASSUME main'[w].pc = "exit"
        PROVE  NoMore'
    <3>1. CASE Check(w)
      <4>1. cancel \/ dead \/ w \in closed
        BY <1>0, <2>4, <3>1 DEF Check, StartTransfer, Mains
      <4>2. CASE ~(cancel \/ dead)
        <5>1. dead'
          BY <3>1, <4>1, <4>2, Zenon DEF Check
        <5> QED BY <5>1 DEF NoMore
      <4> QED BY <1>0, <4>2 DEF NoMore
    <3>2. CASE OpenTarget(w)
      <4>1. w \in closed
        BY <1>0, <2>4, <3>2 DEF OpenTarget, StartTransfer, NoMain, Mains
      <4>2. main'[w].pc # "xfer"
        BY <2>4
      <4>3. ~StartTransfer(w, "real")
        BY <1>0, <4>2 DEF StartTransfer, Mains
      <4>4. dead'
        BY <3>2, <4>1, <4>3, Zenon DEF OpenTarget
      <4> QED BY <4>4 DEF NoMore
    <3> QED BY <1>7, <3>1, <3>2
  <2> QED BY <2>1, <2>2, <2>3, <2>4 DEF EndsAt
<1>8. CASE PollFlags(w) \/ TransferOk(w) \/ TransferErr(w)
  <2>1. UNCHANGED <<rx, pf>> /\ main'[w].pc = main[w].pc
    BY <1>0, <1>8 DEF PollFlags, TransferOk, TransferErr, Mains
  <2> QED BY <1>0, <2>1 DEF EndsAt
<1>9. CASE PrefetchDecide(w) \/ PrefetchOpen(w)
  <2>1. UNCHANGED <<main, pf>> /\ rx'[w].pc # "none"
    BY <1>0, <1>r, <1>9 DEF PrefetchDecide, PrefetchOpen
  <2> QED BY <1>a, <2>1
<1>10. CASE Joined(w)
  <2>1. main[w].pc = "xfer" /\ rx'[w].pc = "off" /\ main'[w].pc \in {"exit", "get"}
    BY <1>0, <1>r, <1>10 DEF Joined, NoMain
  <2>2. ASSUME main'[w].pc = "exit"
        PROVE  ghost'.stopped \/ dead'
    <3>1. main[w].x = "err" /\ (cancel \/ (~cancel /\ ~skip /\ w \in closed))
      BY <1>0, <2>2, <1>10 DEF Joined, NoMain
    <3>2. CASE cancel
      BY <1>0, <2>1, <3>2, ToldToStop
    <3>3. CASE ~cancel /\ ~skip /\ w \in closed
      <4>1. dead'
        BY <1>10, <3>1, <3>3, Zenon DEF Joined
      <4> QED BY <4>1
    <3> QED BY <3>1, <3>2, <3>3
  <2>3. ghost'.stopped => cancel'
    BY StoppingStep DEF Stopping
  <2> QED BY <2>1, <2>2, <2>3 DEF EndsAt, NoMore
<1>11. CASE Exit(w)
  <2>1. main[w].pc = "exit" /\ main'[w].pc = "done" /\ UNCHANGED <<rx, pf>>
    BY <1>0, <1>11 DEF Exit, Mains
  <2> QED BY <1>0, <2>1 DEF EndsAt
<1>12. CASE ExtraWorker(w)
  <2>1. main[w].pc = "absent" /\ main'[w].pc = "get" /\ UNCHANGED <<rx, pf>>
    BY <1>0, <1>12 DEF ExtraWorker, Mains
  <2> QED BY <1>0, <2>1 DEF EndsAt
<1>13. CASE AutoAnswer(w)
  <2>1. UNCHANGED <<main, pf>> /\ rx'[w].pc # "none"
    BY <1>0, <1>13 DEF AutoAnswer, Respond, Calls
  <2> QED BY <1>a, <2>1
<1>14. ASSUME NEW a \in Answers, UserAnswer(a)
       PROVE  EndsAt(w)'
  <2>1. UNCHANGED <<main, pf>> /\ (rx'[w].pc = rx[w].pc \/ rx'[w].pc # "none")
    BY <1>0, <1>14 DEF UserAnswer, Respond, Calls
  <2> QED BY <1>a, <2>1
<1>15. CASE AbandonKey
  <2>1. UNCHANGED <<main, pf>> /\ cancel'
    BY <1>15 DEF AbandonKey
  <2> QED BY <1>a, <2>1 DEF NoMore
<1>16. CASE \/ (\E v \in All : SessionDies(v) \/ Heartbeat(v) \/ ShowPrompt(v)) \/ (\E f \in Files : Feed(f) \/ DeleteSource(f))
            \/ FeedEnd \/ JoinWorkers \/ StopHelpers \/ Return \/ CollectResult
            \/ SkipKey \/ CancelKey \/ UNCHANGED vars
  <2>1. UNCHANGED <<main, rx, pf>>
    BY <1>16 DEF SessionDies, Heartbeat, ShowPrompt, Feed, DeleteSource, FeedEnd, JoinWorkers,
         StopHelpers, Return, CollectResult, SkipKey, CancelKey, vars
  <2> QED BY <1>a, <2>1
<1> HIDE <1>0
<1> QED BY <1>1, <1>2, <1>3, <1>4, <1>5, <1>6, <1>7, <1>8, <1>9, <1>10, <1>11, <1>12, <1>13, <1>14,
           <1>15, <1>16 DEF Next, WorkerStep, RecvNextTarget, Background, EventLoop, User

\* Once the session is well and nobody stopped the transfer, a cancel flag comes after the
\* end of the work.
LEMMA CancelledLate ==
  ASSUME PInv, cancel, ~ghost.stopped, ~dead
  PROVE  queue = <<>> /\ ~txOpen /\ unsent = {}
<1>1. phase # "run"
  BY DEF PInv, Stopping
<1> QED BY <1>1 DEF PInv, Late

\* The feeder closes the queue when it has sent everything, or is told to stop.
LEMMA DrainedStep ==
  ASSUME PInv, [Next]_vars
  PROVE  Drained'
<1>1. \A w \in All : EndsAt(w)'
  BY EndsStep
<1>2. ASSUME ~txOpen', ~ghost'.stopped, ~dead'
      PROVE  unsent' = {}
  <2>0. ~ghost.stopped /\ ~dead
    BY <1>2, Known, Growing
  <2>1. CASE ~txOpen
    <3>1. unsent = {}
      BY <2>0, <2>1 DEF PInv, Drained
    <3>2. unsent' \subseteq unsent
      BY Sent, Received, Begun, KeptOrMoved DEF Kept
    <3> QED BY <3>1, <3>2
  <2>2. CASE txOpen
    <3>1. FeedEnd
      <4>1. ASSUME NEW w \in All, WorkerStep(w) \/ SessionDies(w) \/ Heartbeat(w) \/ ExtraWorker(w)
            PROVE  txOpen' = txOpen
        BY <4>1 DEF WorkerStep, RecvNextTarget, RecvItem, RecvClosed, Stat, ProcessAnswer, GetTarget, Check,
           OpenTarget, PollFlags, TransferOk, TransferErr, PrefetchDecide, PrefetchOpen, Joined,
           Exit, ExtraWorker, SessionDies, Heartbeat, work
      <4>2. ASSUME \/ (\E f \in Files : Feed(f) \/ DeleteSource(f))
                   \/ (\E w \in All : ShowPrompt(w) \/ AutoAnswer(w))
                   \/ JoinWorkers \/ StopHelpers \/ Return \/ CollectResult
                   \/ (\E a \in Answers : UserAnswer(a)) \/ SkipKey \/ CancelKey \/ AbandonKey \/ UNCHANGED vars
            PROVE  txOpen' = txOpen
        BY <4>2 DEF Feed, DeleteSource, ShowPrompt, AutoAnswer, JoinWorkers, StopHelpers, Return,
           CollectResult, UserAnswer, SkipKey, CancelKey, AbandonKey, vars, work
      <4> QED BY <1>2, <2>2, <4>1, <4>2 DEF Next, Background, EventLoop, User
    <3>2. unsent = {} \/ cancel
      BY <3>1 DEF FeedEnd
    <3>3. unsent' = unsent
      BY <3>1 DEF FeedEnd
    <3> QED BY <2>0, <3>2, <3>3, CancelledLate
  <2> QED BY <2>1, <2>2
<1> QED BY <1>1, <1>2 DEF Drained, EndsAt, NoMore, All

\* When all workers have been awaited, there is nothing left: none of them ended before the
\* queue was empty and closed, and a late worker only joins to find it so.
LEMMA LateStep ==
  ASSUME PInv, [Next]_vars
  PROVE  Late'
<1>0. /\ Late /\ Drained /\ Stopping /\ Workers # {} /\ Workers \subseteq All
  BY PoolAssumption DEF PInv, All
<1>a. (ghost.stopped => ghost'.stopped) /\ (dead => dead') /\ (txOpen' => txOpen)
  BY Known, Growing
<1>1. CASE JoinWorkers
  <2>1. /\ \A w \in All : main[w].pc \in {"absent", "done"}
        /\ phase = "run" /\ UNCHANGED <<unsent, queue, txOpen, main, rx, pf, cancel, dead, ghost>>
    BY <1>1 DEF JoinWorkers, work, pool
  <2>2. ASSUME ~ghost.stopped, ~dead
        PROVE  /\ queue = <<>> /\ ~txOpen /\ unsent = {}
               /\ \A w \in All : Pending(w) = {}
    <3>1. PICK w \in Workers : main[w].pc = "done"
      BY <1>0, <2>1 DEF Drained
    <3>2. ~cancel
      BY <1>0, <2>1, <2>2 DEF Stopping
    <3>3. queue = <<>> /\ ~txOpen /\ unsent = {}
      BY <1>0, <2>2, <3>1, <3>2 DEF Drained
    <3>4. ASSUME NEW v \in All
          PROVE  Pending(v) = {}
      <4>1. rx[v].pc = "off" /\ pf[v] = NoPf
        BY <1>0, <2>1, <2>2, Known DEF FlowAt, Drained
      <4>2. rx[v].file = NoFile /\ pf[v].file = NoFile
        BY <4>1, Known DEF ShapeAt, NoPf
      <4> QED BY <2>1, <4>2 DEF Pending
    <3> QED BY <3>3, <3>4
  <2>3. \A w \in All : Pending(w)' = Pending(w)
    BY <2>1 DEF Pending
  <2> QED BY <2>1, <2>2, <2>3 DEF Late
<1>2. CASE phase # "run"
  <2>1. ASSUME NEW w \in All
        PROVE  main'[w].pc \notin {"open", "xfer"}
    <3>1. main[w].pc \notin {"open", "xfer"}
      BY <1>0, <1>2 DEF Late
    <3>2. ASSUME Check(w)
          PROVE  main'[w].pc \notin {"open", "xfer"}
      <4>1. main[w].pc = "check" /\ main[w].cur \in Pending(w)
        BY <3>2, Known DEF Check, ShapeAt, Pending
      <4>2. cancel \/ dead
        BY <1>0, <1>2, <4>1 DEF Late, Stopping
      <4>3. main' = [main EXCEPT ![w] = [NoMain EXCEPT !.pc = "exit"]]
        BY <3>2, <4>2 DEF Check
      <4> QED BY <4>3, Known DEF NoMain
    <3>3. ASSUME NEW v \in All, v # w, WorkerStep(v) \/ ExtraWorker(v) \/ AutoAnswer(v)
          PROVE  main'[w] = main[w]
      BY <3>3, Known, OtherWorkers
    <3>4. ASSUME \/ RecvItem(w) \/ RecvClosed(w) \/ Stat(w) \/ ProcessAnswer(w) \/ GetTarget(w)
                 \/ OpenTarget(w) \/ PollFlags(w) \/ TransferOk(w) \/ TransferErr(w) \/ PrefetchDecide(w)
                 \/ Joined(w) \/ Exit(w) \/ ExtraWorker(w) \/ AutoAnswer(w)
          PROVE  main'[w].pc \notin {"open", "xfer"}
      <4>1. CASE RecvItem(w) \/ RecvClosed(w) \/ Stat(w) \/ ProcessAnswer(w) \/ AutoAnswer(w)
        BY <3>1, <4>1 DEF RecvItem, RecvClosed, Stat, ProcessAnswer, AutoAnswer
      <4>2. CASE GetTarget(w) \/ PrefetchDecide(w) \/ Joined(w)
        BY <3>1, <4>2, Known DEF GetTarget, PrefetchDecide, Joined, Mains, NoMain
      <4>3. CASE OpenTarget(w) \/ PollFlags(w) \/ TransferOk(w) \/ TransferErr(w)
        BY <3>1, <4>3 DEF OpenTarget, PollFlags, TransferOk, TransferErr
      <4>4. CASE Exit(w) \/ ExtraWorker(w)
        BY <3>1, <4>4, Known DEF Exit, ExtraWorker, Mains, NoMain
      <4> QED BY <3>4, <4>1, <4>2, <4>3, <4>4
    <3>5. ASSUME \/ PrefetchOpen(w)
                 \/ (\E v \in All : SessionDies(v) \/ Heartbeat(v) \/ ShowPrompt(v))
                 \/ (\E f \in Files : Feed(f) \/ DeleteSource(f))
                 \/ FeedEnd \/ JoinWorkers \/ StopHelpers \/ Return \/ CollectResult
                 \/ (\E a \in Answers : UserAnswer(a)) \/ SkipKey \/ CancelKey \/ AbandonKey \/ UNCHANGED vars
          PROVE  main' = main
      BY <3>5 DEF PrefetchOpen, SessionDies, Heartbeat, ShowPrompt, Feed, DeleteSource, FeedEnd,
         JoinWorkers, StopHelpers, Return, CollectResult, UserAnswer, SkipKey, CancelKey, AbandonKey, vars
    <3> QED BY <3>1, <3>2, <3>3, <3>4, <3>5
            DEF Next, WorkerStep, RecvNextTarget, Background, EventLoop, User
  <2>2. ASSUME ~ghost'.stopped, ~dead'
        PROVE  /\ queue' = <<>> /\ ~txOpen' /\ unsent' = {}
               /\ \A w \in All : Pending(w)' = {}
    <3>1. /\ queue = <<>> /\ ~txOpen /\ unsent = {} /\ \A w \in All : Pending(w) = {}
      BY <1>0, <1>2, <1>a, <2>2 DEF Late
    <3>2. Kept
      <4>1. ASSUME NEW f \in Files, Feed(f)
            PROVE  FALSE
        BY <3>1, <4>1 DEF Feed
      <4>2. ASSUME NEW w \in All, RecvItem(w)
            PROVE  FALSE
        BY <3>1, <4>2 DEF RecvItem
      <4>3. ASSUME NEW w \in All, Check(w) \/ OpenTarget(w), Begins(w)
            PROVE  FALSE
        BY <3>1, <4>3, Begun
      <4> QED BY <4>1, <4>2, <4>3, KeptOrMoved
    <3> QED BY <1>a, <3>1, <3>2 DEF Kept, Keeps
  <2> QED BY <2>1, <2>2 DEF Late
<1>3. CASE phase = "run" /\ ~JoinWorkers
  <2>1. phase' = phase
    <3>1. ASSUME NEW w \in All, WorkerStep(w) \/ SessionDies(w) \/ Heartbeat(w) \/ ExtraWorker(w)
          PROVE  phase' = phase
      BY <3>1 DEF WorkerStep, RecvNextTarget, RecvItem, RecvClosed, Stat, ProcessAnswer, GetTarget, Check,
         OpenTarget, PollFlags, TransferOk, TransferErr, PrefetchDecide, PrefetchOpen, Joined,
         Exit, ExtraWorker, SessionDies, Heartbeat, bg
    <3>2. ASSUME \/ (\E f \in Files : Feed(f) \/ DeleteSource(f)) \/ FeedEnd
                 \/ (\E w \in All : ShowPrompt(w) \/ AutoAnswer(w))
                 \/ StopHelpers \/ Return \/ CollectResult
                 \/ (\E a \in Answers : UserAnswer(a)) \/ SkipKey \/ CancelKey \/ AbandonKey \/ UNCHANGED vars
          PROVE  phase' = phase
      BY <1>3, <3>2 DEF Feed, DeleteSource, FeedEnd, ShowPrompt, AutoAnswer, StopHelpers, Return,
         CollectResult, UserAnswer, SkipKey, CancelKey, AbandonKey, vars, bg
    <3> QED BY <1>3, <3>1, <3>2 DEF Next, Background, EventLoop, User
  <2> QED BY <1>3, <2>1 DEF Late
<1> QED BY <1>1, <1>2, <1>3

\* The result is taken when nothing is copied any more.
LEMMA ReportedStep ==
  ASSUME PInv, [Next]_vars
  PROVE  Reported'
<1>0. Reported /\ Late /\ copied \subseteq copied' /\ ghost.skipped \subseteq ghost'.skipped
      /\ (ghost.stopped => ghost'.stopped) /\ (dead => dead')
  BY Known, Growing DEF PInv
<1>1. copied' \subseteq Files /\ (phase # "run" => copied' = copied)
  <2>1. ASSUME NEW w \in All, Joined(w)
        PROVE  copied' \subseteq Files /\ phase = "run"
    <3>1. main[w].pc = "xfer"
      BY <2>1 DEF Joined
    <3>2. main[w].cur \in Files
      BY <3>1, Known DEF ShapeAt, Mains
    <3>3. copied' \subseteq copied \cup {main[w].cur}
      BY <2>1 DEF Joined
    <3> QED BY <1>0, <3>1, <3>2, <3>3 DEF Reported, Late
  <2>2. ASSUME NEW w \in All, WorkerStep(w) \/ SessionDies(w) \/ Heartbeat(w) \/ ExtraWorker(w), ~Joined(w)
        PROVE  copied' = copied
    BY <2>2 DEF WorkerStep, RecvNextTarget, RecvItem, RecvClosed, Stat, ProcessAnswer, GetTarget, Check,
       OpenTarget, PollFlags, TransferOk, TransferErr, PrefetchDecide, PrefetchOpen, Exit,
       ExtraWorker, SessionDies, Heartbeat
  <2>3. ASSUME \/ (\E f \in Files : Feed(f) \/ DeleteSource(f)) \/ FeedEnd
               \/ (\E w \in All : ShowPrompt(w) \/ AutoAnswer(w))
               \/ JoinWorkers \/ StopHelpers \/ Return \/ CollectResult
               \/ (\E a \in Answers : UserAnswer(a)) \/ SkipKey \/ CancelKey \/ AbandonKey \/ UNCHANGED vars
        PROVE  copied' = copied
    BY <2>3 DEF Feed, DeleteSource, FeedEnd, ShowPrompt, AutoAnswer, JoinWorkers, StopHelpers, Return,
       CollectResult, UserAnswer, SkipKey, CancelKey, AbandonKey, vars
  <2> QED BY <1>0, <2>1, <2>2, <2>3 DEF Next, Background, EventLoop, User, Reported
<1>2. ghost'.skipped \subseteq Files
  <2>1. ASSUME NEW w \in All, Stat(w) \/ ProcessAnswer(w) \/ Joined(w)
        PROVE  ghost'.skipped \subseteq Files
    <3>1. CASE Stat(w)
      <4>1. rx[w].file \in Files /\ ghost'.skipped \subseteq ghost.skipped \cup {rx[w].file}
        BY <3>1, Known DEF Stat, ShapeAt, Calls
      <4> QED BY <1>0, <4>1 DEF Reported
    <3>2. CASE ProcessAnswer(w)
      <4>1. rx[w].file \in Files /\ ghost'.skipped \subseteq ghost.skipped \cup {rx[w].file}
        BY <3>2, Known DEF ProcessAnswer, ShapeAt, Calls
      <4> QED BY <1>0, <4>1 DEF Reported
    <3>3. CASE Joined(w)
      <4>1. main[w].cur \in Files /\ ghost'.skipped \subseteq ghost.skipped \cup {main[w].cur}
        BY <3>3, Known DEF Joined, ShapeAt, Mains
      <4> QED BY <1>0, <4>1 DEF Reported
    <3> QED BY <2>1, <3>1, <3>2, <3>3
  <2>2. ASSUME NEW w \in All,
               \/ RecvItem(w) \/ RecvClosed(w) \/ GetTarget(w) \/ Check(w) \/ OpenTarget(w)
               \/ PollFlags(w) \/ TransferOk(w) \/ TransferErr(w) \/ PrefetchDecide(w) \/ PrefetchOpen(w)
               \/ Exit(w) \/ ExtraWorker(w) \/ SessionDies(w) \/ Heartbeat(w)
               \/ ShowPrompt(w) \/ AutoAnswer(w)
        PROVE  ghost'.skipped = ghost.skipped
    BY <2>2, Known DEF RecvItem, RecvClosed, GetTarget, Check, OpenTarget, StartTransfer,
       PollFlags, TransferOk, TransferErr, PrefetchDecide, PrefetchOpen, Exit, ExtraWorker,
       SessionDies, Heartbeat, ShowPrompt, AutoAnswer
  <2>3. ASSUME \/ (\E f \in Files : Feed(f) \/ DeleteSource(f)) \/ FeedEnd
               \/ JoinWorkers \/ StopHelpers \/ Return \/ CollectResult
               \/ (\E a \in Answers : UserAnswer(a)) \/ SkipKey \/ CancelKey \/ AbandonKey \/ UNCHANGED vars
        PROVE  ghost'.skipped = ghost.skipped
    BY <2>3, Known DEF Feed, DeleteSource, FeedEnd, JoinWorkers, StopHelpers, Return,
       CollectResult, UserAnswer, SkipKey, CancelKey, AbandonKey, vars
  <2> QED BY <1>0, <2>1, <2>2, <2>3
          DEF Next, WorkerStep, RecvNextTarget, Background, EventLoop, User, Reported
<1>3. CASE Return
  <2>1. /\ phase = "stopping" /\ result' = [copied |-> Cardinality(copied), error |-> lastError]
        /\ UNCHANGED <<copied, dead, ghost>>
    BY <1>3 DEF Return, pool
  <2>2. ASSUME ~lastError, ~ghost.stopped, ~dead
        PROVE  Files \subseteq copied \cup ghost.skipped
    <3>1. /\ queue = <<>> /\ unsent = {} /\ \A w \in All : Pending(w) = {} /\ main[w].pc # "xfer"
      BY <1>0, <2>1, <2>2 DEF Late
    <3>2. Queued = {} /\ \A w \in All : Busy(w) = {}
      BY <3>1 DEF Queued, Busy
    <3>3. \A f \in Files : Found(f)
      BY <2>2 DEF PInv, Accounted, Lost
    <3> QED BY <3>1, <3>2, <3>3 DEF Found
  <2> QED BY <1>0, <2>1, <2>2 DEF Reported
<1>4. CASE ~Return
  <2>1. result' = result /\ (phase' \in {"returned", "over"} => phase \in {"returned", "over"})
    <3>1. ASSUME NEW w \in All, WorkerStep(w) \/ SessionDies(w) \/ Heartbeat(w) \/ ExtraWorker(w)
          PROVE  phase' = phase /\ result' = result
      BY <3>1 DEF WorkerStep, RecvNextTarget, RecvItem, RecvClosed, Stat, ProcessAnswer, GetTarget, Check,
         OpenTarget, PollFlags, TransferOk, TransferErr, PrefetchDecide, PrefetchOpen, Joined,
         Exit, ExtraWorker, SessionDies, Heartbeat, bg
    <3>2. ASSUME \/ (\E f \in Files : Feed(f) \/ DeleteSource(f)) \/ FeedEnd
                 \/ (\E w \in All : ShowPrompt(w) \/ AutoAnswer(w))
                 \/ (\E a \in Answers : UserAnswer(a)) \/ SkipKey \/ CancelKey \/ AbandonKey \/ UNCHANGED vars
          PROVE  phase' = phase /\ result' = result
      BY <3>2 DEF Feed, DeleteSource, FeedEnd, ShowPrompt, AutoAnswer,
         UserAnswer, SkipKey, CancelKey, AbandonKey, vars, bg
    <3>3. ASSUME JoinWorkers \/ StopHelpers \/ CollectResult
          PROVE  /\ result' = result
                 /\ phase' \in {"returned", "over"} => phase \in {"returned", "over"}
      BY <3>3 DEF JoinWorkers, StopHelpers, CollectResult
    <3> QED BY <1>4, <3>1, <3>2, <3>3 DEF Next, Background, EventLoop, User
  <2>2. CASE phase' \in {"returned", "over"}
    <3>1. phase \in {"returned", "over"} /\ copied' = copied /\ result' = result
      BY <1>1, <2>1, <2>2
    <3> QED BY <1>0, <1>1, <1>2, <3>1 DEF Reported
  <2>3. CASE phase' \notin {"returned", "over"}
    BY <1>1, <1>2, <2>3 DEF Reported
  <2> QED BY <2>2, <2>3
<1> QED BY <1>3, <1>4

\* Every step keeps the files in their places.
LEMMA PlacesStep == PInv /\ [Next]_vars => PInv'
<1> SUFFICES ASSUME PInv, [Next]_vars PROVE PInv'
  OBVIOUS
<1>1. IInv' /\ History'
  BY Known, StepInv, HistoryStep
<1>2. Shape'
  BY Known, ShapeStep DEF PInv, Shape
<1> QED BY <1>1, <1>2, OnceStep, AccountedStep, StoppingStep, DrainedStep, LateStep, ReportedStep DEF PInv

\* No file is transferred twice or by two workers, and a result without an error, of a
\* transfer nobody stopped and whose sessions all lived, accounts for every file, whatever
\* the number of files and workers, the capacity of the queue and the user's keys.
THEOREM FilesAreAccounted == Spec => []EachFileOnce
<1>1. PInv => EachFileOnce
  BY DEF PInv, Once, Reported, EachFileOnce
<1>2. Init => PInv
  BY PlacesInit
<1> QED BY <1>1, <1>2, PlacesStep, PTL DEF Spec

-----------------------------------------------------------------------------
(* Moves.  An upload of empty files is left out: an empty file whose open  *)
(* failed in the prefetch counts as copied, although nothing is there.     *)

\* A file written completely is not opened again.
LEMMA CompleteStays ==
  ASSUME PInv, [Next]_vars, NEW f \in Files, dst[f] = "new", ghost.attempts[f] = 1
  PROVE  dst'[f] = "new"
<1>0. /\ dst \in [Files -> {"absent", "old", "partial", "new"}]
      /\ \A w \in All : f \notin Pending(w)
  BY Known DEF IInv, Types, RestType, Once
<1>1. ASSUME NEW w \in All, OpenTarget(w)
      PROVE  dst'[f] = "new"
  <2>1. main[w].pc = "open" /\ main[w].cur # NoFile /\ main[w].cur \in Files
    BY <1>1, Known DEF OpenTarget, ShapeAt, Mains
  <2>2. main[w].cur # f
    BY <1>0, <2>1 DEF Pending
  <2> QED BY <1>0, <1>1, <2>1, <2>2 DEF OpenTarget, Opened
<1>2. ASSUME NEW w \in All, PrefetchOpen(w)
      PROVE  dst'[f] = "new"
  <2>1. rx[w].pc = "pfopen" /\ rx[w].file # NoFile /\ rx[w].file \in Files
    BY <1>2, Known DEF PrefetchOpen, ShapeAt, Calls
  <2>2. rx[w].file # f
    BY <1>0, <2>1 DEF Pending
  <2> QED BY <1>0, <1>2, <2>1, <2>2 DEF PrefetchOpen, Opened
<1>3. ASSUME NEW w \in All, TransferOk(w)
      PROVE  dst'[f] = "new"
  BY <1>0, <1>3 DEF TransferOk
<1>4. ASSUME NEW w \in All,
             \/ RecvNextTarget(w) \/ GetTarget(w) \/ Check(w) \/ PollFlags(w) \/ TransferErr(w)
             \/ PrefetchDecide(w) \/ Joined(w) \/ Exit(w) \/ SessionDies(w) \/ Heartbeat(w)
             \/ ExtraWorker(w) \/ ShowPrompt(w) \/ AutoAnswer(w)
      PROVE  dst' = dst
  BY <1>4 DEF RecvNextTarget, RecvItem, RecvClosed, Stat, ProcessAnswer, GetTarget, Check, PollFlags,
     TransferErr, PrefetchDecide, Joined, Exit, SessionDies, Heartbeat, ExtraWorker, ShowPrompt,
     AutoAnswer, disk
<1>5. ASSUME \/ (\E g \in Files : Feed(g) \/ DeleteSource(g)) \/ FeedEnd
             \/ JoinWorkers \/ StopHelpers \/ Return \/ CollectResult
             \/ (\E a \in Answers : UserAnswer(a)) \/ SkipKey \/ CancelKey \/ AbandonKey \/ UNCHANGED vars
      PROVE  dst' = dst
  BY <1>5 DEF Feed, DeleteSource, FeedEnd, JoinWorkers, StopHelpers, Return,
     CollectResult, UserAnswer, SkipKey, CancelKey, AbandonKey, vars, disk
<1> QED BY <1>1, <1>2, <1>3, <1>4, <1>5 DEF Next, WorkerStep, Background, EventLoop, User

\* A transfer that has ended well has written its file, unless it just began.
LEMMA EndedWell ==
  ASSUME Upload => Zero = {}, PInv, Moved, [Next]_vars,
         NEW w \in All, NEW f \in Busy(w)', main'[w].x = "ok"
  PROVE  dst'[f] = "new"
<1>0. main'[w].pc = "xfer" /\ main'[w].cur = f /\ f \in Files
  BY DEF Busy
<1>1. CASE TransferOk(w)
  <2>1. main[w].cur = f
    BY <1>0, <1>1, Known DEF TransferOk, Mains
  <2>2. dst' = [dst EXCEPT ![f] = "new"]
    BY <1>1, <2>1 DEF TransferOk
  <2> QED BY <1>0, <2>2, Known DEF IInv, Types, RestType
<1>2. CASE main[w].pc = "xfer" /\ main[w].cur = f /\ main[w].x = "ok"
  <2>1. f \in Busy(w)
    BY <1>0, <1>2 DEF Busy
  <2>2. dst[f] = "new" /\ ghost.attempts[f] = 1
    BY <1>2, <2>1, Known DEF Moved, Once
  <2> QED BY <1>0, <2>2, CompleteStays
<1>3. TransferOk(w) \/ (main[w].pc = "xfer" /\ main[w].cur = f /\ main[w].x = "ok")
  <2>1. ASSUME main'[w] = main[w]
        PROVE  main[w].pc = "xfer" /\ main[w].cur = f /\ main[w].x = "ok"
    BY <1>0, <2>1
  <2>2. ASSUME NEW v \in All, v # w, WorkerStep(v) \/ ExtraWorker(v) \/ AutoAnswer(v)
        PROVE  main'[w] = main[w]
    BY <2>2, Known, OtherWorkers
  <2>3. ASSUME Check(w) \/ OpenTarget(w)
        PROVE  FALSE
    <3>1. Begins(w)
      BY <1>0, <2>3 DEF Check, OpenTarget, Begins
    <3>2. main'[w].x = "run"
      BY <2>3, <3>1, Begun
    <3> QED BY <3>2
  <2>4. ASSUME GetTarget(w) \/ TransferErr(w) \/ Joined(w) \/ Exit(w) \/ ExtraWorker(w)
        PROVE  FALSE
    BY <1>0, <2>4, Known DEF GetTarget, TransferErr, Joined, Exit, ExtraWorker, Mains, NoMain
  <2>5. ASSUME PollFlags(w)
        PROVE  FALSE
    <3>1. main[w].x = "run" /\ main'[w].x = main[w].x
      BY <2>5, Known DEF PollFlags, Mains
    <3> QED BY <3>1
  <2>6. ASSUME RecvNextTarget(w) \/ PrefetchDecide(w) \/ PrefetchOpen(w) \/ AutoAnswer(w)
        PROVE  main' = main
    BY <2>6 DEF RecvNextTarget, RecvItem, RecvClosed, Stat, ProcessAnswer, PrefetchDecide, PrefetchOpen,
       AutoAnswer
  <2>7. ASSUME \/ (\E v \in All : SessionDies(v) \/ Heartbeat(v) \/ ShowPrompt(v))
               \/ (\E g \in Files : Feed(g) \/ DeleteSource(g)) \/ FeedEnd
               \/ JoinWorkers \/ StopHelpers \/ Return \/ CollectResult
               \/ (\E a \in Answers : UserAnswer(a)) \/ SkipKey \/ CancelKey \/ AbandonKey \/ UNCHANGED vars
        PROVE  main' = main
    BY <2>7 DEF SessionDies, Heartbeat, ShowPrompt, Feed, DeleteSource, FeedEnd, JoinWorkers,
       StopHelpers, Return, CollectResult, UserAnswer, SkipKey, CancelKey, AbandonKey, vars
  <2> QED BY <2>1, <2>2, <2>3, <2>4, <2>5, <2>6, <2>7 DEF Next, WorkerStep, Background, EventLoop, User
<1> QED BY <1>1, <1>2, <1>3

\* What is copied is complete, and only what is copied, or skipped in a finished move, loses
\* its source.
LEMMA MovedStep ==
  ASSUME Upload => Zero = {}, PInv, Moved, [Next]_vars
  PROVE  Moved'
<1>0. /\ Moved /\ Once /\ Reported /\ copied \subseteq copied' /\ ghost.skipped \subseteq ghost'.skipped
      /\ (ghost.stopped => ghost'.stopped) /\ (dead => dead')
  BY Known, Growing DEF PInv
<1>1. ASSUME NEW f \in copied
      PROVE  f \in Files /\ dst'[f] = "new" /\ ghost'.attempts[f] = 1
  <2>1. f \in Files /\ dst[f] = "new" /\ ghost.attempts[f] = 1
    BY <1>0 DEF Moved, Reported
  <2>2. ghost'.attempts[f] = 1
    <3>1. ASSUME NEW w \in All, Check(w) \/ OpenTarget(w), Begins(w)
          PROVE  ghost'.attempts[f] = 1
      <4>1. main[w].cur # f /\ main[w].cur \in Files
        <5>1. Pending(w) = {main[w].cur} /\ main[w].cur \in Files
          BY <3>1, Begun
        <5>2. ghost.attempts[main[w].cur] = 0
          BY <1>0, <5>1 DEF Once
        <5> QED BY <2>1, <5>1, <5>2
      <4>2. ghost'.attempts = [ghost.attempts EXCEPT ![main[w].cur] = @ + 1]
        BY <3>1, Begun
      <4> QED BY <2>1, <4>1, <4>2, Known
    <3> QED BY <2>1, <3>1, Sent, Received, KeptOrMoved DEF Kept
  <2> QED BY <2>1, <2>2, CompleteStays
<1>2. ASSUME NEW w \in All, Joined(w), main[w].x = "ok"
      PROVE  dst'[main[w].cur] = "new" /\ ghost'.attempts[main[w].cur] = 1
  <2>1. main[w].cur \in Busy(w) /\ main[w].cur \in Files
    BY <1>2, Known DEF Joined, Busy, ShapeAt, Mains
  <2>2. dst[main[w].cur] = "new" /\ ghost.attempts[main[w].cur] = 1
    BY <1>0, <1>2, <2>1 DEF Moved, Once
  <2>3. ghost'.attempts = ghost.attempts
    BY <1>2, Known DEF Joined
  <2> QED BY <2>1, <2>2, <2>3, CompleteStays
<1>3. \A f \in copied' : dst'[f] = "new" /\ ghost'.attempts[f] = 1
  <2>1. ASSUME NEW w \in All, Joined(w)
        PROVE  \A f \in copied' : dst'[f] = "new" /\ ghost'.attempts[f] = 1
    BY <1>1, <1>2, <2>1 DEF Joined
  <2>2. ASSUME ~\E w \in All : Joined(w)
        PROVE  copied' = copied
    <3>1. ASSUME NEW w \in All, WorkerStep(w) \/ SessionDies(w) \/ Heartbeat(w) \/ ExtraWorker(w), ~Joined(w)
          PROVE  copied' = copied
      BY <3>1 DEF WorkerStep, RecvNextTarget, RecvItem, RecvClosed, Stat, ProcessAnswer, GetTarget, Check,
         OpenTarget, PollFlags, TransferOk, TransferErr, PrefetchDecide, PrefetchOpen, Exit,
         ExtraWorker, SessionDies, Heartbeat
    <3>2. ASSUME \/ (\E f \in Files : Feed(f) \/ DeleteSource(f)) \/ FeedEnd
                 \/ (\E w \in All : ShowPrompt(w) \/ AutoAnswer(w))
                 \/ JoinWorkers \/ StopHelpers \/ Return \/ CollectResult
                 \/ (\E a \in Answers : UserAnswer(a)) \/ SkipKey \/ CancelKey \/ AbandonKey \/ UNCHANGED vars
          PROVE  copied' = copied
      BY <3>2 DEF Feed, DeleteSource, FeedEnd, ShowPrompt, AutoAnswer, JoinWorkers, StopHelpers, Return,
         CollectResult, UserAnswer, SkipKey, CancelKey, AbandonKey, vars
    <3> QED BY <2>2, <3>1, <3>2 DEF Next, Background, EventLoop, User
  <2> QED BY <1>1, <2>1, <2>2
<1>4. deletions' \subseteq copied' /\ (CollectResult \/ src' = src \/ \E f \in deletions : src' = src \ {f})
  <2>1. ASSUME NEW w \in All, Joined(w)
        PROVE  deletions' \subseteq copied' /\ src' = src
    BY <1>0, <2>1 DEF Joined, SpawnDelete, Moved
  <2>2. ASSUME NEW w \in All, WorkerStep(w) \/ SessionDies(w) \/ Heartbeat(w) \/ ExtraWorker(w), ~Joined(w)
        PROVE  deletions' = deletions /\ src' = src
    BY <2>2 DEF WorkerStep, RecvNextTarget, RecvItem, RecvClosed, Stat, ProcessAnswer, GetTarget, Check,
       OpenTarget, PollFlags, TransferOk, TransferErr, PrefetchDecide, PrefetchOpen, Exit,
       ExtraWorker, SessionDies, Heartbeat, disk
  <2>3. ASSUME NEW f \in Files, DeleteSource(f)
        PROVE  deletions' \subseteq deletions /\ f \in deletions /\ src' \in {src \ {f}, src}
    BY <2>3 DEF DeleteSource
  <2>4. ASSUME \/ (\E f \in Files : Feed(f)) \/ FeedEnd
               \/ (\E w \in All : ShowPrompt(w) \/ AutoAnswer(w))
               \/ JoinWorkers \/ StopHelpers \/ Return
               \/ (\E a \in Answers : UserAnswer(a)) \/ SkipKey \/ CancelKey \/ AbandonKey \/ UNCHANGED vars
        PROVE  deletions' = deletions /\ src' = src
    BY <2>4 DEF Feed, FeedEnd, ShowPrompt, AutoAnswer, JoinWorkers, StopHelpers, Return,
       UserAnswer, SkipKey, CancelKey, AbandonKey, vars, disk
  <2>5. ASSUME CollectResult
        PROVE  deletions' = deletions
    BY <2>5 DEF CollectResult
  <2> QED BY <1>0, <2>1, <2>2, <2>3, <2>4, <2>5 DEF Next, Background, EventLoop, User, Moved
<1>5. phase = "over" => phase' = "over"
  <2>1. ASSUME NEW w \in All, WorkerStep(w) \/ SessionDies(w) \/ Heartbeat(w) \/ ExtraWorker(w)
        PROVE  phase' = phase
    BY <2>1 DEF WorkerStep, RecvNextTarget, RecvItem, RecvClosed, Stat, ProcessAnswer, GetTarget, Check,
       OpenTarget, PollFlags, TransferOk, TransferErr, PrefetchDecide, PrefetchOpen, Joined,
       Exit, ExtraWorker, SessionDies, Heartbeat, bg
  <2>2. ASSUME \/ (\E f \in Files : Feed(f) \/ DeleteSource(f)) \/ FeedEnd
               \/ (\E w \in All : ShowPrompt(w) \/ AutoAnswer(w))
               \/ (\E a \in Answers : UserAnswer(a)) \/ SkipKey \/ CancelKey \/ AbandonKey \/ UNCHANGED vars
        PROVE  phase' = phase
    BY <2>2 DEF Feed, DeleteSource, FeedEnd, ShowPrompt, AutoAnswer,
       UserAnswer, SkipKey, CancelKey, AbandonKey, vars, bg
  <2>3. ASSUME JoinWorkers \/ StopHelpers \/ Return \/ CollectResult
        PROVE  phase # "over"
    BY <2>3 DEF JoinWorkers, StopHelpers, Return, CollectResult
  <2> QED BY <2>1, <2>2, <2>3 DEF Next, Background, EventLoop, User
<1>6. ASSUME NEW f \in Files \ src'
      PROVE  f \in copied' \/ (phase' = "over" /\ (ghost'.stopped \/ dead' \/ f \in ghost'.skipped))
  <2>1. CASE f \notin src
    BY <1>0, <1>5, <2>1 DEF Moved
  <2>2. CASE f \in src /\ ~CollectResult
    BY <1>0, <1>4, <1>6, <2>2 DEF Moved
  <2>3. CASE f \in src /\ CollectResult
    <3>1. /\ phase = "returned" /\ phase' = "over" /\ ~result.error
          /\ copied' = copied /\ ghost' = ghost /\ dead' = dead
      BY <1>6, <2>3 DEF CollectResult, pool
    <3> QED BY <1>0, <3>1 DEF Reported
  <2> QED BY <2>1, <2>2, <2>3
<1>7. \A w \in All : \A f \in Busy(w)' : main'[w].x = "ok" => dst'[f] = "new"
  BY EndedWell
<1> QED BY <1>3, <1>4, <1>6, <1>7 DEF Moved

\* The source of a file that was not copied completely is gone only after the event loop
\* removed its directory, and then the transfer was stopped, lost a session, or skipped the
\* file; for downloads, and for uploads without empty files.
THEOREM MovesLoseOnlyUnfinished == (Upload => Zero = {}) => (Spec => []MoveLosesOnlyUnfinished)
<1> SUFFICES ASSUME Upload => Zero = {} PROVE Spec => []MoveLosesOnlyUnfinished
  OBVIOUS
<1>1. PInv /\ Moved => MoveLosesOnlyUnfinished
  BY DEF Moved, MoveLosesOnlyUnfinished
<1>2. Init => PInv /\ Moved
  BY PlacesInit
<1>3. PInv /\ Moved /\ [Next]_vars => (PInv /\ Moved)'
  BY PlacesStep, MovedStep
<1> QED BY <1>1, <1>2, <1>3, PTL DEF Spec

=============================================================================
