-------------------------------- MODULE SftpProofs --------------------------------
(***************************************************************************)
(* Proofs about RawSftp: for every number of workers and every span of     *)
(* request ids, in runs that do not use an id twice, an answer reaches the *)
(* call it was made for, the map of waiting requests is exact, and every   *)
(* open handle is accounted for.  And about UploadPipeline, for every file *)
(* size, chunk size, depth and set of lengths another program gives the    *)
(* local file.                                                             *)
(***************************************************************************)
EXTENDS RawSftp, UploadPipeline, FiniteSetTheorems, TLAPS

Ops   == {"init", "limits", "open", "data", "status", "close"}
AllIds == Ids \cup {NoId}
Msgs  == [op : Ops, no : Nos, id : AllIds, h : 0 .. MaxReqs]
Ends  == [op : {"end"}]
Anss  == [id : AllIds, no : Nos, ans : {"ok", "status"}]
Calls == [st : {"idle", "waiting", "answered"}, op : Ops \cup {"none"}, no : 0 .. MaxReqs,
          id : AllIds, ans : {"none", "ok", "status", "failed"}, from : 0 .. MaxReqs]

\* Types of what the callers and the tasks exchange.
Types ==
  /\ call \in [Callers -> Calls] /\ held \in [Callers -> 0 .. MaxReqs]
  /\ queue \in Seq(Msgs \cup Ends) /\ asked \subseteq Msgs /\ answers \subseteq Anss

\* The id of the n-th request: the first one, INIT, has none.
IdOf(n) == IF n = 1 THEN NoId ELSE n - 1

\* The counter is in step with the number of requests, until it wraps.
Counting ==
  /\ sent \in 0 .. MaxReqs /\ nextId \in Nat
  /\ phase # "init" => sent >= 1
  /\ sent = 0 => nextId = 1
  /\ sent >= 1 /\ sent < IdSpan => nextId = sent

\* Every message carries the id of its request.
Labelled ==
  /\ \A i \in 1 .. Len(queue) : queue[i].op # "end" => queue[i].id = IdOf(queue[i].no)
  /\ \A r \in asked : r.id = IdOf(r.no)
  /\ \A a \in answers : a.id = IdOf(a.no)

\* Calls that are under way were made for different requests.
Numbered ==
  /\ \A c \in Callers : call[c].st # "idle" =>
       call[c].no \in 1 .. sent /\ call[c].id = IdOf(call[c].no)
  /\ \A c, d \in Callers : call[c].st # "idle" /\ call[d].st # "idle" /\ c # d =>
       call[c].no # call[d].no

\* The map holds requests that were made, each under its id.
Mapped ==
  /\ pending = [i \in DOMAIN pending |-> pending[i]]
  /\ \A i \in DOMAIN pending : pending[i] \in 1 .. sent /\ i = IdOf(pending[i])

IInv == Types /\ Counting /\ Labelled /\ Numbered /\ Mapped /\ PendingExact /\ AnswersItsRequest

\* Different requests of a run have different ids.
LEMMA IdsDiffer ==
  ASSUME NEW m \in Nos, NEW n \in Nos, IdOf(m) = IdOf(n)
  PROVE  m = n
  BY RawSftpAssumption DEF IdOf, NoId, Nos

\* The next id is one further while it does not wrap.
LEMMA NextOf ==
  ASSUME NEW s \in Nat, s + 1 < IdSpan
  PROVE  (s + 1) % IdSpan = s + 1
  BY RawSftpAssumption

\* Initially no request is under way.
LEMMA InitInv == Init => IInv
  BY RawSftpAssumption DEF Init, IInv, Types, Counting, Labelled, Numbered, Mapped, PendingExact,
     AnswersItsRequest, Idle, Calls, Ops, AllIds, NoId

\* What a request changes, whoever makes it.
LEMMA SendStep ==
  ASSUME IInv, NEW c \in Callers, NEW op \in Ops, op = "init" <=> sent = 0, Send(c, op)
  PROVE  IInv' /\ phase' = phase
<1> DEFINE id  == IF op = "init" THEN NoId ELSE nextId
           new == [Idle EXCEPT !.op = op, !.no = sent', !.id = id]
           msg == [op |-> op, no |-> sent', id |-> id, h |-> held[c]]
<1>1. /\ sent \in 0 .. MaxReqs /\ sent < MaxReqs /\ sent' = sent + 1 /\ sent' \in Nos
      /\ phase' = phase /\ UNCHANGED <<held, asked, answers>> /\ call[c].st = "idle"
      /\ MaxReqs <= IdSpan /\ IdSpan \in Nat \ {0} /\ MaxReqs \in Nat
  BY RawSftpAssumption DEF IInv, Counting, Send, session, tasks, server, Nos
<1>2. id = IdOf(sent') /\ id \in AllIds
  BY <1>1 DEF IInv, Counting, IdOf, AllIds, Ids
<1>3. Counting'
  <2>1. CASE op = "init"
    BY <1>1, <2>1 DEF IInv, Counting, Send
  <2>2. CASE op # "init"
    <3>1. nextId = sent /\ nextId' = (sent + 1) % IdSpan
      BY <1>1, <2>2 DEF IInv, Counting, Send, UseNextId
    <3>2. nextId' \in Nat
      BY <1>1, <3>1
    <3>3. sent + 1 < IdSpan => nextId' = sent + 1
      BY <1>1, <3>1, NextOf
    <3> QED BY <1>1, <3>2, <3>3, <2>2 DEF Counting, IInv
  <2> QED BY <2>1, <2>2
<1>4. /\ pending' = [i \in DOMAIN pending \cup {id} |-> IF i = id THEN sent' ELSE pending[i]]
      /\ \/ /\ call' = [call EXCEPT ![c] = [new EXCEPT !.st = "waiting"]]
            /\ queue' = Append(queue, msg)
            /\ dropped' = dropped
         \/ /\ call' = [call EXCEPT ![c] = [new EXCEPT !.st = "answered", !.ans = "failed"]]
            /\ dropped' = dropped \cup {sent'}
            /\ queue' = queue
  BY DEF Send
<1>5. msg \in Msgs /\ new \in Calls /\ [new EXCEPT !.st = "waiting"] \in Calls
      /\ [new EXCEPT !.st = "answered", !.ans = "failed"] \in Calls
  <2>1. held[c] \in 0 .. MaxReqs
    BY DEF IInv, Types
  <2> HIDE DEF id
  <2>2. msg \in Msgs
    BY <1>1, <1>2, <2>1 DEF Msgs
  <2>3. Idle \in Calls
    BY <1>1 DEF Idle, Calls, AllIds
  <2>4. \A r \in Calls, n \in 0 .. MaxReqs, j \in AllIds :
          [r EXCEPT !.op = op, !.no = n, !.id = j] \in Calls
    BY DEF Calls
  <2>5. new \in Calls
    <3>1. sent' \in 0 .. MaxReqs
      BY <1>1
    <3> QED BY ONLY <1>2, <2>3, <2>4, <3>1
  <2> HIDE DEF new, msg
  <2> QED BY <2>2, <2>5 DEF Calls
<1>6. /\ new.no = sent' /\ new.id = id
  BY DEF Idle
<1> HIDE DEF id, new, msg
<1>7. Types'
  <2>1. call' \in [Callers -> Calls]
    BY <1>4, <1>5 DEF IInv, Types
  <2>2. queue' \in Seq(Msgs \cup Ends)
    <3>1. queue \in Seq(Msgs \cup Ends)
      BY DEF IInv, Types
    <3>2. queue' = queue \/ queue' = Append(queue, msg)
      BY <1>4
    <3> QED BY <1>5, <3>1, <3>2
  <2> QED BY <1>1, <2>1, <2>2 DEF IInv, Types
<1>8. /\ call'[c].st # "idle" /\ call'[c].no = sent' /\ call'[c].id = id
      /\ call'[c].st = "answered" => call'[c].ans = "failed" /\ sent' \in dropped'
      /\ \A d \in Callers \ {c} : call'[d] = call[d]
      /\ dropped \subseteq dropped'
  <2>1. call \in [Callers -> Calls]
    BY DEF IInv, Types
  <2>2. CASE call' = [call EXCEPT ![c] = [new EXCEPT !.st = "waiting"]] /\ dropped' = dropped
    BY <1>5, <1>6, <2>1, <2>2 DEF Calls
  <2>3. CASE /\ call' = [call EXCEPT ![c] = [new EXCEPT !.st = "answered", !.ans = "failed"]]
             /\ dropped' = dropped \cup {sent'}
    BY <1>5, <1>6, <2>1, <2>3 DEF Calls
  <2> QED BY <1>4, <2>2, <2>3
<1>9. Labelled' /\ Numbered'
  <2>1. \A i \in 1 .. Len(queue') : queue'[i].op # "end" => queue'[i].id = IdOf(queue'[i].no)
    <3>1. msg.id = IdOf(msg.no)
      BY <1>2 DEF msg
    <3>2. queue' = queue \/ queue' = Append(queue, msg)
      BY <1>4
    <3>3. queue \in Seq(Msgs \cup Ends)
          /\ \A i \in 1 .. Len(queue) : queue[i].op # "end" => queue[i].id = IdOf(queue[i].no)
      BY DEF IInv, Types, Labelled
    <3>4. CASE queue' = queue
      BY <3>3, <3>4
    <3>5. CASE queue' = Append(queue, msg)
      <4>1. Len(queue') = Len(queue) + 1 /\ queue'[Len(queue) + 1] = msg /\ Len(queue) \in Nat
            /\ \A i \in 1 .. Len(queue) : queue'[i] = queue[i]
        BY <3>3, <3>5
      <4> QED BY <3>1, <3>3, <4>1
    <3> QED BY <3>2, <3>4, <3>5
  <2>2. \A d \in Callers : call'[d].st # "idle" =>
          call'[d].no \in 1 .. sent' /\ call'[d].id = IdOf(call'[d].no)
    BY <1>1, <1>2, <1>8 DEF IInv, Numbered
  <2>3. \A d, e \in Callers : call'[d].st # "idle" /\ call'[e].st # "idle" /\ d # e =>
          call'[d].no # call'[e].no
    BY <1>1, <1>8 DEF IInv, Numbered
  <2> QED BY <1>1, <2>1, <2>2, <2>3 DEF IInv, Labelled, Numbered
<1>10. Mapped'
  BY <1>1, <1>2, <1>4 DEF IInv, Mapped
<1>11. \A i \in DOMAIN pending : i # id
  BY <1>1, <1>2, IdsDiffer DEF IInv, Mapped, Nos
<1>12. PendingExact'
  <2>1. ASSUME NEW d \in Callers, call'[d].st = "waiting"
        PROVE  call'[d].id \in DOMAIN pending' /\ pending'[call'[d].id] = call'[d].no
    <3>1. CASE d = c
      BY <1>4, <1>8, <3>1
    <3>2. CASE d # c
      BY <1>4, <1>8, <1>11, <2>1, <3>2 DEF IInv, PendingExact
    <3> QED BY <3>1, <3>2
  <2>2. ASSUME NEW i \in DOMAIN pending'
        PROVE  \/ pending'[i] \in dropped'
               \/ \E d \in Callers : call'[d].no = pending'[i] /\ call'[d].st = "waiting"
    <3>1. CASE i = id
      <4>1. pending'[i] = sent'
        BY <1>4, <3>1
      <4>2. call'[c].st \in {"waiting", "answered"}
        BY <1>7, <1>8 DEF Types, Calls
      <4> QED BY <1>8, <4>1, <4>2
    <3>2. CASE i # id
      <4>1. i \in DOMAIN pending /\ pending'[i] = pending[i]
        BY <1>4, <2>2, <3>2
      <4>2. CASE pending[i] \in dropped
        BY <1>8, <4>1, <4>2
      <4>3. CASE \E d \in Callers : call[d].no = pending[i] /\ call[d].st = "waiting"
        BY <1>1, <1>8, <4>1, <4>3
      <4> QED BY <4>1, <4>2, <4>3 DEF IInv, PendingExact
    <3> QED BY <3>1, <3>2
  <2> QED BY <2>1, <2>2 DEF PendingExact
<1>13. AnswersItsRequest'
  BY <1>8 DEF IInv, AnswersItsRequest
<1> QED BY <1>1, <1>3, <1>7, <1>9, <1>10, <1>12, <1>13 DEF IInv

\* Steps that make no request, answer no call, and leave the map alone.
LEMMA QuietStep ==
  ASSUME IInv, UNCHANGED <<sent, nextId, pending>>, phase' # "init" => sent >= 1,
         Types', Labelled', dropped \subseteq dropped',
         \A c \in Callers : \/ call'[c] = call[c]
                            \/ call'[c] = Idle /\ (call[c].st = "waiting" => call[c].no \in dropped')
  PROVE  IInv'
<1>1. Counting'
  BY DEF IInv, Counting
<1>2. Numbered'
  BY DEF IInv, Numbered, Idle
<1>3. Mapped'
  BY DEF IInv, Mapped
<1>4. PendingExact'
  <2>1. \A c \in Callers : call'[c].st = "waiting" => call'[c] = call[c]
    BY DEF Idle
  <2>2. ASSUME NEW i \in DOMAIN pending, NEW c \in Callers, call[c].no = pending[i], call[c].st = "waiting"
        PROVE  \/ pending[i] \in dropped'
               \/ \E d \in Callers : call'[d].no = pending[i] /\ call'[d].st = "waiting"
    BY <2>2
  <2> QED BY <2>1, <2>2 DEF IInv, PendingExact
<1>5. AnswersItsRequest'
  BY DEF IInv, AnswersItsRequest, Idle
<1> QED BY <1>1, <1>2, <1>3, <1>4, <1>5 DEF IInv

\* What is still in the channel after the writer took a message, or got one to end.
LEMMA QueueStep ==
  ASSUME Types, Labelled,
         \/ queue # << >> /\ queue' = Tail(queue)
         \/ CloseSession \/ queue' = << >> \/ queue' = queue
  PROVE  /\ queue' \in Seq(Msgs \cup Ends)
         /\ \A i \in 1 .. Len(queue') : queue'[i].op # "end" => queue'[i].id = IdOf(queue'[i].no)
<1>0. queue \in Seq(Msgs \cup Ends)
      /\ \A i \in 1 .. Len(queue) : queue[i].op # "end" => queue[i].id = IdOf(queue[i].no)
  BY DEF Types, Labelled
<1>1. CASE queue # << >> /\ queue' = Tail(queue)
  <2>1. /\ queue' \in Seq(Msgs \cup Ends) /\ Len(queue') = Len(queue) - 1 /\ Len(queue) \in Nat
        /\ \A i \in 1 .. Len(queue') : queue'[i] = queue[i + 1]
    BY <1>0, <1>1
  <2> QED BY <1>0, <2>1
<1>2. CASE queue' = Append(queue, [op |-> "end"])
  <2>1. [op |-> "end"] \in Ends
    BY DEF Ends
  <2>2. /\ queue' \in Seq(Msgs \cup Ends)
        /\ Len(queue') = Len(queue) + 1 /\ queue'[Len(queue) + 1] = [op |-> "end"] /\ Len(queue) \in Nat
        /\ \A i \in 1 .. Len(queue) : queue'[i] = queue[i]
    BY <1>0, <1>2, <2>1
  <2> QED BY <1>0, <2>2
<1>3. CASE queue' = << >>
  BY <1>3
<1>4. CASE queue' = queue
  BY <1>0, <1>4
<1> QED BY <1>1, <1>2, <1>3, <1>4 DEF CloseSession

\* The tasks and the server.
LEMMA TaskStep ==
  ASSUME IInv, Write \/ TaskEnds \/ Eof \/ (\E r \in asked : Serve(r)) \/ (\E a \in answers : Unparsable(a))
  PROVE  IInv'
<1>0. Types /\ Labelled /\ Counting
  BY DEF IInv
<1>1. CASE Write
  <2>1. queue # << >> /\ queue' = Tail(queue)
        /\ UNCHANGED <<call, held, answers, sent, nextId, pending, phase, dropped>>
    BY <1>1 DEF Write, session, past
  <2>2. Head(queue) = queue[1] /\ Head(queue) \in Msgs \cup Ends /\ 1 \in 1 .. Len(queue)
    BY <1>0, <2>1 DEF Types
  <2>3. Head(queue).op # "end" => Head(queue) \in Msgs /\ Head(queue).id = IdOf(Head(queue).no)
    BY <1>0, <2>2 DEF Labelled, Ends
  <2>4. asked' = asked \/ (Head(queue).op # "end" /\ asked' = asked \cup {Head(queue)})
    BY <1>1 DEF Write
  <2>5. Types' /\ Labelled'
    BY <1>0, <2>1, <2>3, <2>4, QueueStep DEF Types, Labelled
  <2> QED BY <2>1, <2>5, QuietStep, <1>0 DEF Counting
<1>2. CASE TaskEnds
  <2>1. (queue' = queue \/ queue' = << >>)
        /\ UNCHANGED <<call, held, asked, answers, sent, nextId, pending, phase, dropped>>
    BY <1>2 DEF TaskEnds, Cancelled, session, server, past
  <2>2. Types' /\ Labelled'
    BY <1>0, <2>1, QueueStep DEF Types, Labelled
  <2> QED BY <2>1, <2>2, QuietStep, <1>0 DEF Counting
<1>3. CASE Eof
  <2>1. UNCHANGED <<queue, call, held, asked, answers, sent, nextId, pending, phase, dropped>>
    BY <1>3 DEF Eof, session, server, past
  <2>2. Types' /\ Labelled'
    BY <1>0, <2>1 DEF Types, Labelled
  <2> QED BY <2>1, <2>2, QuietStep, <1>0 DEF Counting
<1>4. ASSUME NEW r \in asked, Serve(r)
      PROVE  IInv'
  <2>1. UNCHANGED <<queue, call, held, sent, nextId, pending, phase, dropped>> /\ asked' \subseteq asked
    BY <1>4 DEF Serve, session, past
  <2>2. PICK s \in {"ok", "status"} : answers' = answers \cup {[id |-> r.id, no |-> r.no, ans |-> s]}
    BY <1>4 DEF Serve
  <2>3. r \in Msgs /\ r.id = IdOf(r.no)
    BY <1>0 DEF Types, Labelled
  <2>4. [id |-> r.id, no |-> r.no, ans |-> s] \in Anss
    BY <2>3 DEF Msgs, Anss
  <2>5. Types' /\ Labelled'
    BY <1>0, <2>1, <2>2, <2>3, <2>4 DEF Types, Labelled
  <2> QED BY <2>1, <2>5, QuietStep, <1>0 DEF Counting
<1>5. ASSUME NEW a \in answers, Unparsable(a)
      PROVE  IInv'
  <2>1. UNCHANGED <<queue, call, held, asked, sent, nextId, pending, phase, dropped>>
        /\ answers' \subseteq answers
    BY <1>5 DEF Unparsable, session, server, past
  <2>2. Types' /\ Labelled'
    BY <1>0, <2>1 DEF Types, Labelled
  <2> QED BY <2>1, <2>2, QuietStep, <1>0 DEF Counting
<1> QED BY <1>1, <1>2, <1>3, <1>4, <1>5

\* Setting up, leaving, and calls that end.
LEMMA EndStep ==
  ASSUME IInv, \/ SetUpReturns \/ Leave \/ SeesClosed \/ PingTimesOut
               \/ \E c \in Callers : SkipClose(c) \/ Returns(c) \/ Drop(c)
  PROVE  IInv'
<1>0. Types /\ Labelled /\ Counting /\ Main \in Callers /\ Hb \in Callers /\ Idle \in Calls
  <2>1. Idle \in Calls
    BY RawSftpAssumption DEF Idle, Calls, AllIds
  <2> QED BY <2>1 DEF IInv, Callers
<1>a. \A c \in Callers : call[c].st # "idle" => sent >= 1
  BY <1>0 DEF IInv, Numbered, Counting
<1>b. \A c \in Callers : [call EXCEPT ![c] = Idle] \in [Callers -> Calls]
  BY <1>0 DEF Types
<1>1. CASE SetUpReturns
  <2>1. /\ call' = [call EXCEPT ![Main] = Idle] /\ call[Main].st = "answered"
        /\ CloseSession \/ queue' = queue
        /\ UNCHANGED <<held, asked, answers, sent, nextId, pending, dropped>>
    BY <1>1 DEF SetUpReturns, Abandon, server, past
  <2>2. Types' /\ Labelled'
    BY <1>0, <1>b, <2>1, QueueStep DEF Types, Labelled
  <2>3. sent >= 1
    BY <1>0, <1>a, <2>1
  <2>4. \A c \in Callers : call'[c] = call[c] \/ (call'[c] = Idle /\ call[c].st # "waiting")
    BY <1>0, <2>1 DEF Types
  <2> QED BY <2>1, <2>2, <2>3, <2>4, QuietStep
<1>2. CASE Leave
  <2>1. CloseSession /\ phase = "up"
        /\ UNCHANGED <<call, held, asked, answers, sent, nextId, pending, dropped>>
    BY <1>2 DEF Leave, Abandon, server, past
  <2>2. Types' /\ Labelled'
    BY <1>0, <2>1, QueueStep DEF Types, Labelled
  <2>3. sent >= 1
    BY <1>0, <2>1 DEF Counting
  <2> QED BY <2>1, <2>2, <2>3, QuietStep
<1>3. CASE SeesClosed
  <2>1. UNCHANGED <<queue, call, held, asked, answers, sent, nextId, pending, phase, dropped>>
    BY <1>3 DEF SeesClosed, session, server, past
  <2>2. Types' /\ Labelled'
    BY <1>0, <2>1 DEF Types, Labelled
  <2> QED BY <2>1, <2>2, QuietStep, <1>0 DEF Counting
<1>4. CASE PingTimesOut
  <2>1. /\ call' = [call EXCEPT ![Hb] = Idle] /\ dropped' = dropped \cup {call[Hb].no} /\ CloseSession
        /\ UNCHANGED <<held, asked, answers, sent, nextId, pending, phase>>
    BY <1>4 DEF PingTimesOut, session, server
  <2>2. Types' /\ Labelled'
    BY <1>0, <1>b, <2>1, QueueStep DEF Types, Labelled
  <2>3. \A c \in Callers : call'[c] = call[c] \/ (call'[c] = Idle /\ call[c].no \in dropped')
    BY <1>0, <2>1 DEF Types
  <2> QED BY <2>1, <2>2, <2>3, QuietStep, <1>0 DEF Counting
<1>5. ASSUME NEW c \in Callers, SkipClose(c)
      PROVE  IInv'
  <2>1. held' = [held EXCEPT ![c] = 0]
        /\ UNCHANGED <<queue, call, asked, answers, sent, nextId, pending, phase, dropped>>
    BY <1>5 DEF SkipClose, session, server, past
  <2>2. held' \in [Callers -> 0 .. MaxReqs]
    BY <1>0, <2>1, RawSftpAssumption DEF Types
  <2>3. Types' /\ Labelled'
    BY <1>0, <2>1, <2>2 DEF Types, Labelled
  <2> QED BY <2>1, <2>3, QuietStep, <1>0 DEF Counting
<1>6. ASSUME NEW c \in Callers, Returns(c)
      PROVE  IInv'
  <2>1. /\ call' = [call EXCEPT ![c] = Idle] /\ call[c].st = "answered"
        /\ held' \in {[held EXCEPT ![c] = call[c].no], [held EXCEPT ![c] = 0], held}
        /\ UNCHANGED <<queue, asked, answers, sent, nextId, pending, phase, dropped>>
    BY <1>6 DEF Returns, session, server
  <2>2. call[c].no \in 0 .. MaxReqs /\ 0 \in 0 .. MaxReqs
    BY <1>0, RawSftpAssumption DEF Types, Calls
  <2>3. held' \in [Callers -> 0 .. MaxReqs]
    BY <1>0, <2>1, <2>2 DEF Types
  <2>4. Types' /\ Labelled'
    BY <1>0, <1>b, <2>1, <2>3 DEF Types, Labelled
  <2>5. \A d \in Callers : call'[d] = call[d] \/ (call'[d] = Idle /\ call[d].st # "waiting")
    BY <1>0, <2>1 DEF Types
  <2> QED BY <2>1, <2>4, <2>5, QuietStep, <1>0 DEF Counting
<1>7. ASSUME NEW c \in Callers, Drop(c)
      PROVE  IInv'
  <2>1. /\ call' = [call EXCEPT ![c] = Idle] /\ dropped' = dropped \cup {call[c].no}
        /\ UNCHANGED <<queue, held, asked, answers, sent, nextId, pending, phase>>
    BY <1>7 DEF Drop, session, server
  <2>2. Types' /\ Labelled'
    BY <1>0, <1>b, <2>1 DEF Types, Labelled
  <2>3. \A d \in Callers : call'[d] = call[d] \/ (call'[d] = Idle /\ call[d].no \in dropped')
    BY <1>0, <2>1 DEF Types
  <2> QED BY <2>1, <2>2, <2>3, QuietStep, <1>0 DEF Counting
<1> QED BY <1>1, <1>2, <1>3, <1>4, <1>5, <1>6, <1>7

\* A call that ends in time or not takes its own entry away, and no other.
LEMMA AnswerStep ==
  ASSUME IInv, NEW id \in AllIds, NEW n \in Nos, id = IdOf(n),
         UNCHANGED <<phase, sent, nextId, held, queue, asked, dropped>>, answers' \subseteq answers,
         pending' = Forget(pending, id),
         call' \in [Callers -> Calls],
         \A c \in Callers :
           IF call[c].st = "waiting" /\ call[c].no = n
           THEN /\ call'[c].st = "answered" /\ call'[c].no = n /\ call'[c].id = call[c].id
                /\ call'[c].ans # "failed" => call'[c].from = n
           ELSE call'[c] = call[c]
  PROVE  IInv'
<1>1. Types' /\ Labelled' /\ Counting'
  BY DEF IInv, Types, Labelled, Counting
<1>2. Numbered'
  BY DEF IInv, Numbered
<1>3. /\ DOMAIN pending' = DOMAIN pending \ {id}
      /\ \A i \in DOMAIN pending' : pending'[i] = pending[i]
      /\ pending' = [i \in DOMAIN pending' |-> pending'[i]]
  BY DEF Forget, Restrict
<1>4. Mapped'
  BY <1>3 DEF IInv, Mapped
<1>5. \A i \in DOMAIN pending' : pending'[i] \in Nos /\ pending'[i] # n
  <2>1. sent \in 0 .. MaxReqs
    BY DEF IInv, Counting
  <2> QED BY <1>3, <2>1, RawSftpAssumption DEF IInv, Mapped, Nos
<1>6. PendingExact'
  <2>1. ASSUME NEW c \in Callers, call'[c].st = "waiting"
        PROVE  call'[c].id \in DOMAIN pending' /\ pending'[call'[c].id] = call'[c].no
    <3>1. call'[c] = call[c] /\ call[c].no # n
      BY <2>1
    <3>2. call[c].id \in DOMAIN pending /\ pending[call[c].id] = call[c].no
      BY <2>1, <3>1 DEF IInv, PendingExact
    <3>3. call[c].no \in Nos /\ call[c].id = IdOf(call[c].no)
      BY <2>1, <3>1, RawSftpAssumption DEF IInv, Numbered, Counting, Nos
    <3>4. call[c].id # id
      BY <3>1, <3>3, IdsDiffer
    <3> QED BY <1>3, <3>1, <3>2, <3>4
  <2>2. ASSUME NEW i \in DOMAIN pending'
        PROVE  \/ pending'[i] \in dropped'
               \/ \E c \in Callers : call'[c].no = pending'[i] /\ call'[c].st = "waiting"
    <3>1. i \in DOMAIN pending /\ pending'[i] = pending[i] /\ pending[i] # n
      BY <1>3, <1>5, <2>2
    <3>2. CASE pending[i] \in dropped
      BY <3>1, <3>2
    <3>3. ASSUME NEW c \in Callers, call[c].no = pending[i], call[c].st = "waiting"
          PROVE  call'[c].no = pending'[i] /\ call'[c].st = "waiting"
      BY <3>1, <3>3
    <3> QED BY <3>1, <3>2, <3>3 DEF IInv, PendingExact
  <2> QED BY <2>1, <2>2 DEF PendingExact
<1>7. AnswersItsRequest'
  BY DEF IInv, AnswersItsRequest
<1> QED BY <1>1, <1>2, <1>4, <1>6, <1>7 DEF IInv

\* A timeout takes the entry of its own request away.
LEMMA TimeoutStep ==
  ASSUME IInv, NEW c \in Callers, Timeout(c)
  PROVE  IInv'
<1> DEFINE n == call[c].no
           id == call[c].id
<1>0. call \in [Callers -> Calls] /\ call[c] \in Calls /\ call[c].st = "waiting"
  BY DEF IInv, Types, Timeout
<1>1. n \in Nos /\ id = IdOf(n) /\ id \in AllIds
  BY <1>0, RawSftpAssumption DEF IInv, Numbered, Counting, Nos, Calls
<1>2. /\ UNCHANGED <<phase, sent, nextId, held, queue, asked, dropped, answers>>
      /\ pending' = Forget(pending, id)
      /\ call' = [call EXCEPT ![c].st = "answered", ![c].ans = "failed"]
  BY DEF Timeout, session, server
<1>3. [call[c] EXCEPT !.st = "answered", !.ans = "failed"] \in Calls
  BY <1>0 DEF Calls
<1>4. call' = [call EXCEPT ![c] = [call[c] EXCEPT !.st = "answered", !.ans = "failed"]]
  BY <1>0, <1>2
<1>5. call' \in [Callers -> Calls]
  BY <1>0, <1>3, <1>4
<1>6. /\ call'[c].st = "answered" /\ call'[c].no = n /\ call'[c].id = id /\ call'[c].ans = "failed"
      /\ \A d \in Callers \ {c} : call'[d] = call[d]
  BY <1>0, <1>4 DEF Calls
<1>7. \A d \in Callers \ {c} : call[d].st = "waiting" => call[d].no # n
  BY <1>0 DEF IInv, Numbered
<1> HIDE DEF n, id
<1>8. \A d \in Callers :
           IF call[d].st = "waiting" /\ call[d].no = n
           THEN /\ call'[d].st = "answered" /\ call'[d].no = n /\ call'[d].id = call[d].id
                /\ call'[d].ans # "failed" => call'[d].from = n
           ELSE call'[d] = call[d]
  BY <1>0, <1>6, <1>7 DEF n, id
<1> QED BY <1>1, <1>2, <1>5, <1>8, AnswerStep

\* The entry under an answer's id is the entry of the request it answers.
LEMMA ReplyStep ==
  ASSUME IInv, NEW a \in answers, Reply(a)
  PROVE  IInv'
<1>0. /\ call \in [Callers -> Calls] /\ a \in Anss /\ a.id = IdOf(a.no) /\ answers' \subseteq answers
      /\ UNCHANGED <<phase, sent, nextId, held, queue, asked, dropped>> /\ Types /\ Labelled /\ Counting
  BY DEF IInv, Types, Labelled, Reply, server, past
<1>1. CASE a.id \in DOMAIN pending
  <2> DEFINE n == pending[a.id]
  <2>1. n \in Nos /\ a.id = IdOf(n) /\ a.no \in Nos /\ a.id \in AllIds /\ a.ans \in {"ok", "status"}
    BY <1>0, <1>1, RawSftpAssumption DEF IInv, Mapped, Counting, Nos, Anss
  <2>2. n = a.no
    BY <1>0, <2>1, IdsDiffer
  <2>3. /\ pending' = Forget(pending, a.id)
        /\ call' = [c \in Callers |-> IF Waits(c, n)
                      THEN [call[c] EXCEPT !.st = "answered", !.ans = a.ans, !.from = a.no] ELSE call[c]]
    BY <1>1 DEF Reply
  <2> HIDE DEF n
  <2>4. \A r \in Calls : LET q == [r EXCEPT !.st = "answered", !.ans = a.ans, !.from = a.no]
                         IN  q \in Calls /\ q.st = "answered" /\ q.no = r.no /\ q.id = r.id /\ q.from = a.no
    <3>1. a.no \in 0 .. MaxReqs
      BY <2>1 DEF Nos
    <3> QED BY <2>1, <3>1 DEF Calls
  <2>5. call' \in [Callers -> Calls]
    BY <1>0, <2>3, <2>4
  <2>6. \A c \in Callers :
           IF call[c].st = "waiting" /\ call[c].no = n
           THEN /\ call'[c].st = "answered" /\ call'[c].no = n /\ call'[c].id = call[c].id
                /\ call'[c].ans # "failed" => call'[c].from = n
           ELSE call'[c] = call[c]
    <3>1. ASSUME NEW c \in Callers, call[c].st = "waiting", call[c].no = n
          PROVE  /\ call'[c].st = "answered" /\ call'[c].no = n /\ call'[c].id = call[c].id
                 /\ call'[c].from = n
      <4>1. call'[c] = [call[c] EXCEPT !.st = "answered", !.ans = a.ans, !.from = a.no] /\ call[c] \in Calls
        BY <1>0, <2>3, <3>1 DEF Waits
      <4> QED BY <2>2, <2>4, <3>1, <4>1
    <3>2. ASSUME NEW c \in Callers, ~(call[c].st = "waiting" /\ call[c].no = n)
          PROVE  call'[c] = call[c]
      BY <2>3, <3>2 DEF Waits
    <3> SUFFICES ASSUME NEW c \in Callers
                 PROVE  IF call[c].st = "waiting" /\ call[c].no = n
                        THEN /\ call'[c].st = "answered" /\ call'[c].no = n /\ call'[c].id = call[c].id
                             /\ call'[c].ans # "failed" => call'[c].from = n
                        ELSE call'[c] = call[c]
      OBVIOUS
    <3>3. CASE call[c].st = "waiting" /\ call[c].no = n
      BY <3>1, <3>3
    <3>4. CASE ~(call[c].st = "waiting" /\ call[c].no = n)
      BY <3>2, <3>4
    <3> QED BY <3>3, <3>4
  <2> DEFINE id == a.id
  <2>7. id \in AllIds /\ id = IdOf(n) /\ pending' = Forget(pending, id)
    BY <2>1, <2>3
  <2> HIDE DEF id
  <2> QED BY <1>0, <2>1, <2>5, <2>6, <2>7, AnswerStep
<1>2. CASE a.id \notin DOMAIN pending
  <2>1. UNCHANGED <<call, pending>>
    BY <1>2 DEF Reply
  <2>2. Types' /\ Labelled'
    BY <1>0, <2>1 DEF Types, Labelled
  <2> QED BY <1>0, <2>1, <2>2, QuietStep DEF Counting
<1> QED BY <1>1, <1>2

\* Everybody who makes a request, and INIT is the first one.
LEMMA RequestStep ==
  ASSUME IInv, \/ SetUp \/ Ping
               \/ \E c \in Callers : Open(c) \/ OpenDir(c) \/ ReadWrite(c) \/ ReadDir(c) \/ Ask(c) \/ Close(c)
  PROVE  IInv'
<1>1. Main \in Callers /\ Hb \in Callers
  BY DEF Callers
<1>2. phase # "init" => sent # 0
  BY RawSftpAssumption DEF IInv, Counting
<1>3. PICK c \in Callers, op \in Ops : Send(c, op) /\ (op = "init" <=> sent = 0)
  BY <1>1, <1>2 DEF SetUp, Ping, Open, OpenDir, ReadWrite, ReadDir, Ask, Close, Free, Holds, Ops
<1> QED BY <1>3, SendStep

\* All of it together.
LEMMA StepInv ==
  ASSUME IInv, [Next]_vars
  PROVE  IInv'
<1>1. CASE UNCHANGED vars
  <2>1. UNCHANGED <<queue, call, held, asked, answers, sent, nextId, pending, phase, dropped>>
    BY <1>1 DEF vars, session, server, past
  <2>2. Types' /\ Labelled'
    BY <2>1 DEF IInv, Types, Labelled
  <2> QED BY <2>1, <2>2, QuietStep DEF IInv, Counting
<1>2. CASE Next
  BY <1>2, RequestStep, EndStep, TaskStep, TimeoutStep, ReplyStep DEF Next, CallerStep, ReaderStep
<1> QED BY <1>1, <1>2

\* As long as the request ids have not wrapped, every message that is under way carries
\* the id of its request (send(), run() and reply() of rawsession.rs and mod.rs).
THEOREM InductiveInvariant == Spec => []IInv
  BY InitInv, StepInv, PTL DEF Spec

\* An answer that a call returns was made for its request, although callers share one
\* counter and one map, time out, and drop calls whose answers are on the way.
THEOREM AnswersAreMatched == Spec => []AnswersItsRequest
  BY InductiveInvariant, PTL DEF IInv

\* Every waiting call can be reached under its id, and what else is in the map belongs
\* to calls that were dropped: a timeout and an answer take exactly their entry away.
THEOREM PendingIsExact == Spec => []PendingExact
  BY InductiveInvariant, PTL DEF IInv

-----------------------------------------------------------------------------
(* The handles: which of them the server keeps, who knows them, and the    *)
(* count of the session.                                                   *)

\* Requests in the channel or at the server: they are not answered yet.
UnderWay == asked \cup ({queue[i] : i \in 1 .. Len(queue)} \ Ends)

\* Every number belongs to a request that was made.
Given ==
  /\ \A r \in UnderWay : r.no \in 1 .. sent
  /\ \A a \in answers : a.no \in 1 .. sent
  /\ open \subseteq 1 .. sent /\ leaked \subseteq 1 .. sent
  /\ \A c \in Callers : held[c] \in 0 .. sent

\* A request is at one place: in the channel once, at the server, or answered.
OnePlace ==
  /\ \A i, j \in 1 .. Len(queue) :
       queue[i].op # "end" /\ queue[j].op # "end" /\ i # j => queue[i].no # queue[j].no
  /\ \A i \in 1 .. Len(queue) : \A r \in asked :
       queue[i].op # "end" => queue[i].no # r.no
  /\ \A r, s \in asked : r.no = s.no => r = s
  /\ \A r \in UnderWay : \A a \in answers : a.no # r.no

\* A request under way has opened nothing yet, and its call waits for it or
\* gave it up; a close asks for the handle its caller works with.
Asking ==
  \A r \in UnderWay :
    /\ r.no \notin open
    /\ \A c \in Callers : held[c] # r.no
    /\ \/ r.no \in dropped \cup expired
       \/ \E c \in Callers : call[c].st = "waiting" /\ call[c].no = r.no
    /\ \A c \in Callers : call[c].st # "idle" /\ call[c].no = r.no =>
         call[c].op = r.op /\ (r.op = "close" => r.h = held[c])

\* What an answer says of the handles is so, until it is read.
Telling ==
  \A a \in answers :
    /\ a.ans = "status" => a.no \notin open
    /\ \A c \in Callers : call[c].st = "waiting" /\ call[c].no = a.no /\ call[c].op = "close"
                          /\ a.ans = "ok" => held[c] \notin open

\* ... and until the call that got it returns.
Told ==
  \A c \in Callers :
    /\ call[c].op # "none" => call[c].st # "idle"
    /\ call[c].st = "answered" =>
         /\ call[c].ans # "none"
         /\ call[c].ans = "failed" => call[c].no \in dropped \cup expired
         /\ call[c].ans # "failed" => \A r \in UnderWay : r.no # call[c].no
         /\ call[c].ans = "status" => call[c].no \notin open
         /\ call[c].ans = "ok" /\ call[c].op = "close" => held[c] \notin open
    /\ call[c].op = "open" => phase = "up" /\ held[c] = 0
    /\ call[c].op \in {"close", "data"} => held[c] # 0

\* A handle has one holder, and a forgotten one has none.
OneHolder ==
  /\ \A c, d \in Callers : held[c] # 0 /\ held[c] = held[d] => c = d
  /\ \A c \in Callers : held[c] # 0 => held[c] \notin leaked
  /\ \A c, d \in Callers : call[c].st # "idle" => held[d] # call[c].no
  /\ \A c \in Callers : call[c].st # "idle" => call[c].no \notin leaked

HInv == Given /\ OnePlace /\ Asking /\ Telling /\ Told /\ OneHolder /\ HandlesAccounted

\* Initially no handle is open.
LEMMA InitHandles == Init => HInv
<1> SUFFICES ASSUME Init PROVE HInv
  OBVIOUS
<1>1. /\ queue = << >> /\ asked = {} /\ answers = {} /\ open = {} /\ leaked = {} /\ sent = 0
      /\ handles = 0 /\ held = [c \in Callers |-> 0] /\ call = [c \in Callers |-> Idle]
  BY DEF Init
<1>2. UnderWay = {}
  BY <1>1 DEF UnderWay
<1>3. \A c \in Callers : held[c] = 0 /\ call[c].st = "idle" /\ call[c].op = "none"
  BY <1>1 DEF Idle
<1> DEFINE H == {c \in Callers : held[c] # 0}
<1>4. H = {}
  BY <1>3
<1> HIDE DEF H
<1>5. HandlesAccounted
  <2>1. handles = Cardinality(H) + Cardinality(leaked)
    BY <1>1, <1>4, FS_EmptySet
  <2> QED BY <1>1, <2>1 DEF HandlesAccounted, H
<1>6. Given /\ OnePlace /\ Asking /\ Telling
  BY <1>1, <1>2, <1>3 DEF Given, OnePlace, Asking, Telling
<1>7. Told /\ OneHolder
  BY <1>1, <1>2, <1>3 DEF Told, OneHolder
<1> QED BY <1>5, <1>6, <1>7 DEF HInv

\* What the channel loses, and a message that only ends it, disturb no request.
LEMMA QueuePlaces ==
  ASSUME Types, OnePlace,
         \/ queue # << >> /\ queue' = Tail(queue)
         \/ CloseSession \/ queue' = << >> \/ queue' = queue
  PROVE  /\ {queue'[i] : i \in 1 .. Len(queue')} \ Ends \subseteq {queue[i] : i \in 1 .. Len(queue)} \ Ends
         /\ \A i, j \in 1 .. Len(queue') :
              queue'[i].op # "end" /\ queue'[j].op # "end" /\ i # j => queue'[i].no # queue'[j].no
         /\ \A i \in 1 .. Len(queue') : \A r \in asked :
              queue'[i].op # "end" => queue'[i].no # r.no
<1>0. queue \in Seq(Msgs \cup Ends) /\ Len(queue) \in Nat
  BY DEF Types
<1>1. CASE queue # << >> /\ queue' = Tail(queue)
  <2>1. Len(queue') = Len(queue) - 1 /\ \A i \in 1 .. Len(queue') : queue'[i] = queue[i + 1]
    BY <1>0, <1>1
  <2>2. \A i \in 1 .. Len(queue') : i + 1 \in 1 .. Len(queue)
    BY <1>0, <2>1
  <2>3. \A i, j \in 1 .. Len(queue') : i # j => i + 1 # j + 1
    BY <1>0, <2>1
  <2>4. \A i \in 1 .. Len(queue') : \E k \in 1 .. Len(queue) : queue'[i] = queue[k]
    BY <2>1, <2>2
  <2>5. \A i, j \in 1 .. Len(queue') : i # j =>
          \E k, l \in 1 .. Len(queue) : k # l /\ queue'[i] = queue[k] /\ queue'[j] = queue[l]
    BY <2>1, <2>2, <2>3
  <2>6. {queue'[i] : i \in 1 .. Len(queue')} \ Ends \subseteq {queue[i] : i \in 1 .. Len(queue)} \ Ends
    BY <2>4
  <2>7. /\ \A i, j \in 1 .. Len(queue) :
             queue[i].op # "end" /\ queue[j].op # "end" /\ i # j => queue[i].no # queue[j].no
        /\ \A i \in 1 .. Len(queue) : \A r \in asked : queue[i].op # "end" => queue[i].no # r.no
    BY DEF OnePlace
  <2>8. \A i, j \in 1 .. Len(queue') :
           queue'[i].op # "end" /\ queue'[j].op # "end" /\ i # j => queue'[i].no # queue'[j].no
    <3>1. ASSUME NEW i \in 1 .. Len(queue'), NEW j \in 1 .. Len(queue'), i # j,
                 queue'[i].op # "end", queue'[j].op # "end"
          PROVE  queue'[i].no # queue'[j].no
      <4>1. PICK k \in 1 .. Len(queue), l \in 1 .. Len(queue) :
              k # l /\ queue'[i] = queue[k] /\ queue'[j] = queue[l]
        BY <2>5, <3>1
      <4>2. queue[k].op # "end" /\ queue[l].op # "end"
        BY <3>1, <4>1
      <4>3. queue[k].no # queue[l].no
        BY <2>7, <4>1, <4>2
      <4> QED BY <4>1, <4>3
    <3> QED BY <3>1
  <2>9. \A i \in 1 .. Len(queue') : \A r \in asked : queue'[i].op # "end" => queue'[i].no # r.no
    <3>1. ASSUME NEW i \in 1 .. Len(queue'), NEW r \in asked, queue'[i].op # "end"
          PROVE  queue'[i].no # r.no
      <4>1. PICK k \in 1 .. Len(queue) : queue'[i] = queue[k]
        BY <2>4
      <4> QED BY <2>7, <3>1, <4>1
    <3> QED BY <3>1
  <2> QED BY <2>6, <2>8, <2>9
<1>2. CASE queue' = Append(queue, [op |-> "end"])
  <2>1. /\ Len(queue') = Len(queue) + 1 /\ queue'[Len(queue) + 1] = [op |-> "end"]
        /\ \A i \in 1 .. Len(queue) : queue'[i] = queue[i]
    BY <1>0, <1>2
  <2>2. \A i \in 1 .. Len(queue') : i \in 1 .. Len(queue) \/ i = Len(queue) + 1
    BY <1>0, <2>1
  <2>3. [op |-> "end"] \in Ends /\ [op |-> "end"].op = "end"
    BY DEF Ends
  <2> QED BY <2>1, <2>2, <2>3 DEF OnePlace
<1>3. CASE queue' = << >>
  BY <1>3
<1>4. CASE queue' = queue
  BY <1>4 DEF OnePlace
<1> QED BY <1>1, <1>2, <1>3, <1>4 DEF CloseSession

\* Steps that touch no handle: messages may be lost, and calls may be given up.
LEMMA QuietHandles ==
  ASSUME IInv, HInv, UNCHANGED <<sent, held, handles, open, leaked>>, OnePlace',
         UnderWay' \subseteq UnderWay, answers' \subseteq answers,
         dropped \subseteq dropped', expired \subseteq expired',
         \A c \in Callers :
           \/ call'[c] = call[c]
           \/ /\ call'[c] = Idle
              /\ call[c].st = "waiting" => call[c].no \in dropped'
              /\ call[c].op = "open" => call[c].no \in dropped' \cup expired' \/ call[c].no \notin open
           \/ /\ call'[c].st = "answered" /\ call'[c].ans = "failed" /\ call[c].st # "idle"
              /\ call'[c].op = call[c].op /\ call'[c].no = call[c].no
              /\ call[c].no \in expired',
         phase' = phase \/ \A c \in Callers : call[c].op # "open"
  PROVE  HInv'
<1> USE DEF HInv
<1>0. Idle.st = "idle" /\ Idle.op = "none"
  BY DEF Idle
<1>1. Given'
  BY DEF Given
<1>2. \A c \in Callers : call'[c].st # "idle" =>
        call[c].st # "idle" /\ call'[c].no = call[c].no /\ call'[c].op = call[c].op
  BY <1>0
<1>3. \A c \in Callers : call'[c].st = "waiting" => call'[c] = call[c]
  BY <1>0
<1>4. \A c \in Callers : call[c].st = "waiting" =>
        call'[c] = call[c] \/ call[c].no \in dropped' \cup expired'
  BY <1>0
<1>5. Asking'
  <2> SUFFICES ASSUME NEW r \in UnderWay'
               PROVE  /\ r.no \notin open'
                      /\ \A c \in Callers : held'[c] # r.no
                      /\ \/ r.no \in dropped' \cup expired'
                         \/ \E c \in Callers : call'[c].st = "waiting" /\ call'[c].no = r.no
                      /\ \A c \in Callers : call'[c].st # "idle" /\ call'[c].no = r.no =>
                           call'[c].op = r.op /\ (r.op = "close" => r.h = held'[c])
    BY DEF Asking
  <2>1. r \in UnderWay
    OBVIOUS
  <2>2. \/ r.no \in dropped' \cup expired'
        \/ \E c \in Callers : call'[c].st = "waiting" /\ call'[c].no = r.no
    BY <1>4, <2>1 DEF Asking
  <2> QED BY <1>2, <2>1, <2>2 DEF Asking
<1>6. Telling'
  BY <1>3 DEF Telling
<1>7. Told'
  <2> SUFFICES ASSUME NEW c \in Callers
               PROVE  /\ call'[c].op # "none" => call'[c].st # "idle"
                      /\ call'[c].st = "answered" =>
                           /\ call'[c].ans # "none"
                           /\ call'[c].ans = "failed" => call'[c].no \in dropped' \cup expired'
                           /\ call'[c].ans # "failed" => \A r \in UnderWay' : r.no # call'[c].no
                           /\ call'[c].ans = "status" => call'[c].no \notin open'
                           /\ call'[c].ans = "ok" /\ call'[c].op = "close" => held'[c] \notin open'
                      /\ call'[c].op = "open" => phase' = "up" /\ held'[c] = 0
                      /\ call'[c].op \in {"close", "data"} => held'[c] # 0
    BY DEF Told
  <2>1. CASE call'[c] = call[c]
    BY <2>1 DEF Told
  <2>2. CASE call'[c] = Idle
    BY <1>0, <2>2
  <2>3. CASE /\ call'[c].st = "answered" /\ call'[c].ans = "failed"
             /\ call'[c].op = call[c].op /\ call'[c].no = call[c].no /\ call[c].no \in expired'
    BY <2>3 DEF Told
  <2> QED BY <2>1, <2>2, <2>3
<1>8. OneHolder'
  BY <1>2 DEF OneHolder
<1>9. HandlesAccounted'
  <2>1. ASSUME NEW h \in open
        PROVE  Known(h)' \/ h \in expired' \cup dropped' \cup leaked'
    <3>1. CASE h \in expired \cup dropped \cup leaked
      BY <3>1
    <3>2. ASSUME NEW c \in Callers, held[c] = h
          PROVE  Known(h)'
      BY <3>2 DEF Known
    <3>3. ASSUME NEW c \in Callers, call[c].no = h, call[c].op = "open"
          PROVE  Known(h)' \/ h \in expired' \cup dropped'
      BY <2>1, <3>3 DEF Known
    <3> QED BY <3>1, <3>2, <3>3 DEF HandlesAccounted, Known
  <2> QED BY <2>1 DEF HandlesAccounted
<1> QED BY <1>1, <1>5, <1>6, <1>7, <1>8, <1>9

\* The tasks, timers, and the session's own steps touch no handle.
LEMMA QuietSteps ==
  ASSUME IInv, HInv,
         \/ Write \/ TaskEnds \/ Eof \/ SetUpReturns \/ Leave \/ SeesClosed \/ PingTimesOut
         \/ \E a \in answers : Unparsable(a)
         \/ \E c \in Callers : Timeout(c) \/ Drop(c)
  PROVE  HInv'
<1>0. /\ call \in [Callers -> Calls] /\ Types /\ OnePlace
      /\ Main \in Callers /\ Hb \in Callers /\ Workers \subseteq Callers
  BY DEF IInv, Types, HInv, Callers
<1>1. CASE Write
  <2>1. /\ queue # << >> /\ queue' = Tail(queue)
        /\ UNCHANGED <<call, held, handles, open, answers, sent, phase, dropped, expired, leaked>>
    BY <1>1 DEF Write, session, past
  <2>2. Head(queue) = queue[1] /\ 1 \in 1 .. Len(queue) /\ Len(queue) \in Nat
        /\ Len(queue') = Len(queue) - 1 /\ \A i \in 1 .. Len(queue') : queue'[i] = queue[i + 1]
    BY <1>0, <2>1 DEF Types
  <2>3. asked' = asked \/ (Head(queue).op # "end" /\ asked' = asked \cup {Head(queue)})
    BY <1>1 DEF Write
  <2>4. Head(queue).op # "end" => Head(queue) \notin Ends
    BY DEF Ends
  <2>5. UnderWay' \subseteq UnderWay
    BY <1>0, <2>1, <2>2, <2>3, <2>4, QueuePlaces DEF UnderWay
  <2>6. OnePlace'
    <3>1. /\ \A i, j \in 1 .. Len(queue') :
              queue'[i].op # "end" /\ queue'[j].op # "end" /\ i # j => queue'[i].no # queue'[j].no
          /\ \A i \in 1 .. Len(queue') : \A r \in asked :
              queue'[i].op # "end" => queue'[i].no # r.no
      BY <1>0, <2>1, QueuePlaces
    <3>2. \A r, s \in asked' : r.no = s.no => r = s
      BY <1>0, <2>2, <2>3 DEF OnePlace
    <3>3. \A r \in UnderWay' : \A a \in answers' : a.no # r.no
      BY <1>0, <2>1, <2>5 DEF OnePlace
    <3>4. ASSUME NEW i \in 1 .. Len(queue'), queue'[i].op # "end", Head(queue).op # "end"
          PROVE  queue'[i].no # Head(queue).no
      <4>1. i + 1 \in 1 .. Len(queue) /\ i + 1 # 1 /\ queue'[i] = queue[i + 1]
        BY <2>2
      <4> QED BY <1>0, <2>2, <3>4, <4>1 DEF OnePlace
    <3> QED BY <2>3, <3>1, <3>2, <3>3, <3>4 DEF OnePlace
  <2> QED BY <2>1, <2>5, <2>6, QuietHandles
<1>2. CASE TaskEnds \/ Leave
  <2>1. /\ queue' = << >> \/ queue' = queue \/ CloseSession
        /\ UNCHANGED <<call, held, handles, asked, open, answers, sent, dropped, expired, leaked>>
    BY <1>2 DEF TaskEnds, Cancelled, Leave, Abandon, session, server, past
  <2>2. phase' = phase \/ \A c \in Callers : call[c].op # "open"
    BY <1>2 DEF TaskEnds, Leave, session, HInv, Told
  <2>3. UnderWay' \subseteq UnderWay /\ OnePlace'
    BY <1>0, <2>1, QueuePlaces DEF UnderWay, OnePlace
  <2> QED BY <2>1, <2>2, <2>3, QuietHandles
<1>3. CASE Eof \/ SeesClosed \/ \E a \in answers : Unparsable(a)
  <2>1. /\ UNCHANGED <<queue, call, held, handles, asked, open, sent, phase, dropped, expired, leaked>>
        /\ answers' \subseteq answers
    BY <1>3 DEF Eof, SeesClosed, Unparsable, session, server, past
  <2>2. UnderWay' \subseteq UnderWay /\ OnePlace'
    BY <1>0, <2>1 DEF UnderWay, OnePlace
  <2> QED BY <2>1, <2>2, QuietHandles
<1>4. CASE SetUpReturns
  <2>1. /\ call' = [call EXCEPT ![Main] = Idle] /\ call[Main].st = "answered"
        /\ CloseSession \/ queue' = queue
        /\ phase \in {"init", "limits"}
        /\ UNCHANGED <<held, handles, asked, open, answers, sent, dropped, expired, leaked>>
    BY <1>4 DEF SetUpReturns, Abandon, server, past
  <2>2. \A c \in Callers : call[c].op # "open"
    BY <1>4 DEF SetUpReturns, HInv, Told
  <2>3. UnderWay' \subseteq UnderWay /\ OnePlace'
    BY <1>0, <2>1, QueuePlaces DEF UnderWay, OnePlace
  <2>4. \A c \in Callers : call'[c] = call[c]
          \/ (call'[c] = Idle /\ call[c].st # "waiting" /\ call[c].op # "open")
    BY <1>0, <2>1, <2>2
  <2> QED BY <2>1, <2>2, <2>3, <2>4, QuietHandles
<1>5. ASSUME NEW c \in Callers, Drop(c) \/ (c = Hb /\ PingTimesOut)
      PROVE  HInv'
  <2>1. /\ call' = [call EXCEPT ![c] = Idle] /\ dropped' = dropped \cup {call[c].no}
        /\ CloseSession \/ queue' = queue
        /\ UNCHANGED <<held, handles, asked, open, answers, sent, phase, expired, leaked>>
    BY <1>5 DEF Drop, PingTimesOut, session, server
  <2>2. UnderWay' \subseteq UnderWay /\ OnePlace'
    BY <1>0, <2>1, QueuePlaces DEF UnderWay, OnePlace
  <2>3. \A d \in Callers : call'[d] = call[d] \/ (call'[d] = Idle /\ call[d].no \in dropped')
    BY <1>0, <2>1
  <2> QED BY <2>1, <2>2, <2>3, QuietHandles
<1>6. ASSUME NEW c \in Callers, Timeout(c)
      PROVE  HInv'
  <2>1. /\ call' = [call EXCEPT ![c].st = "answered", ![c].ans = "failed"] /\ call[c].st = "waiting"
        /\ expired' = expired \cup {call[c].no}
        /\ UNCHANGED <<queue, held, handles, asked, open, answers, sent, phase, dropped, leaked>>
    BY <1>6 DEF Timeout, session, server
  <2>2. UnderWay' \subseteq UnderWay /\ OnePlace'
    BY <1>0, <2>1 DEF UnderWay, OnePlace
  <2>3. /\ call'[c].st = "answered" /\ call'[c].ans = "failed"
        /\ call'[c].op = call[c].op /\ call'[c].no = call[c].no
        /\ \A d \in Callers \ {c} : call'[d] = call[d]
    BY <1>0, <2>1 DEF Calls
  <2>4. call[c].no \in expired'
    BY <2>1
  <2> QED BY <2>1, <2>2, <2>3, <2>4, QuietHandles
<1> QED BY <1>0, <1>1, <1>2, <1>3, <1>4, <1>5, <1>6

\* A request takes the next number, which nobody knows yet, and asks for its
\* caller's handle.
LEMMA SendHandles ==
  ASSUME IInv, HInv, NEW c \in Callers, NEW op \in Ops, Send(c, op),
         op = "open" => phase = "up" /\ held[c] = 0,
         op \in {"close", "data"} => held[c] # 0
  PROVE  HInv'
<1> USE DEF HInv
<1> DEFINE id  == IF op = "init" THEN NoId ELSE nextId
           new == [Idle EXCEPT !.op = op, !.no = sent', !.id = id]
           msg == [op |-> op, no |-> sent', id |-> id, h |-> held[c]]
<1>1. /\ sent \in Nat /\ sent' = sent + 1 /\ call[c].st = "idle" /\ call \in [Callers -> Calls]
      /\ queue \in Seq(Msgs \cup Ends) /\ Len(queue) \in Nat
      /\ UNCHANGED <<phase, held, handles, asked, open, answers, expired, leaked>>
  BY DEF IInv, Types, Counting, Send, session, tasks, server
<1>2. /\ \/ /\ call' = [call EXCEPT ![c] = [new EXCEPT !.st = "waiting"]]
            /\ queue' = Append(queue, msg)
            /\ dropped' = dropped
         \/ /\ call' = [call EXCEPT ![c] = [new EXCEPT !.st = "answered", !.ans = "failed"]]
            /\ dropped' = dropped \cup {sent'}
            /\ queue' = queue
  BY DEF Send
<1> HIDE DEF id
<1>3. new \in [st : {"idle"}, op : {op}, no : {sent'}, id : {id}, ans : {"none"}, from : {0}]
  BY DEF Idle
<1>4. msg.op = op /\ msg.no = sent' /\ msg.h = held[c]
  OBVIOUS
<1> HIDE DEF new, msg
<1>5. /\ call'[c].op = op /\ call'[c].no = sent'
      /\ \A d \in Callers \ {c} : call'[d] = call[d]
      /\ \/ call'[c].st = "waiting"
         \/ call'[c].st = "answered" /\ call'[c].ans = "failed" /\ sent' \in dropped'
      /\ dropped \subseteq dropped'
  <2>1. CASE call' = [call EXCEPT ![c] = [new EXCEPT !.st = "waiting"]] /\ dropped' = dropped
    <3>1. call'[c] = [new EXCEPT !.st = "waiting"] /\ \A d \in Callers \ {c} : call'[d] = call[d]
      BY <1>1, <2>1
    <3>2. /\ [new EXCEPT !.st = "waiting"].op = op /\ [new EXCEPT !.st = "waiting"].no = sent'
          /\ [new EXCEPT !.st = "waiting"].st = "waiting"
      BY <1>3
    <3> QED BY <2>1, <3>1, <3>2
  <2>2. CASE /\ call' = [call EXCEPT ![c] = [new EXCEPT !.st = "answered", !.ans = "failed"]]
             /\ dropped' = dropped \cup {sent'}
    <3>1. /\ call'[c] = [new EXCEPT !.st = "answered", !.ans = "failed"]
          /\ \A d \in Callers \ {c} : call'[d] = call[d]
      BY <1>1, <2>2
    <3>2. LET failed == [new EXCEPT !.st = "answered", !.ans = "failed"]
          IN  failed.op = op /\ failed.no = sent' /\ failed.st = "answered" /\ failed.ans = "failed"
      BY <1>3
    <3>3. /\ call'[c].op = op /\ call'[c].no = sent'
          /\ call'[c].st = "answered" /\ call'[c].ans = "failed"
      BY <3>1, <3>2
    <3>4. sent' \in dropped' /\ dropped \subseteq dropped'
      BY <2>2
    <3> QED BY <3>1, <3>3, <3>4
  <2> QED BY <1>2, <2>1, <2>2
<1>6. \/ queue' = queue
      \/ /\ call'[c].st = "waiting" /\ queue' = Append(queue, msg)
         /\ Len(queue') = Len(queue) + 1 /\ queue'[Len(queue) + 1] = msg
         /\ \A i \in 1 .. Len(queue) : queue'[i] = queue[i]
  BY <1>1, <1>2, <1>3
<1>7. \A i \in 1 .. Len(queue') :
        \/ i \in 1 .. Len(queue) /\ queue'[i] = queue[i]
        \/ i = Len(queue) + 1 /\ queue'[i] = msg /\ call'[c].st = "waiting"
  BY <1>1, <1>6
<1>8. \A r \in UnderWay' : r \in UnderWay \/ (r = msg /\ call'[c].st = "waiting")
  BY <1>1, <1>7 DEF UnderWay
<1>9. sent' \notin 1 .. sent /\ sent' \notin 0 .. sent
  BY <1>1
<1>10. Given'
  <2>1. \A n \in 0 .. sent : n \in 0 .. sent'
    BY <1>1
  <2>2. \A n \in 1 .. sent : n \in 1 .. sent'
    BY <1>1
  <2>3. sent' \in 1 .. sent'
    BY <1>1
  <2> QED BY <1>1, <1>4, <1>8, <2>1, <2>2, <2>3 DEF Given
<1>11. \A i \in 1 .. Len(queue) : queue[i].op # "end" => queue[i] \in UnderWay
  BY DEF UnderWay, Ends
<1>12. OnePlace'
  <2>1. \A i, j \in 1 .. Len(queue') :
          queue'[i].op # "end" /\ queue'[j].op # "end" /\ i # j => queue'[i].no # queue'[j].no
    BY <1>4, <1>7, <1>9, <1>11 DEF OnePlace, Given
  <2>2. \A i \in 1 .. Len(queue') : \A r \in asked' :
          queue'[i].op # "end" => queue'[i].no # r.no
    BY <1>1, <1>4, <1>7, <1>9 DEF OnePlace, Given, UnderWay
  <2>3. \A r \in UnderWay' : \A a \in answers' : a.no # r.no
    BY <1>1, <1>4, <1>8, <1>9 DEF OnePlace, Given
  <2> QED BY <1>1, <2>1, <2>2, <2>3 DEF OnePlace
<1>13. Asking'
  <2> SUFFICES ASSUME NEW r \in UnderWay'
               PROVE  /\ r.no \notin open'
                      /\ \A d \in Callers : held'[d] # r.no
                      /\ \/ r.no \in dropped' \cup expired'
                         \/ \E d \in Callers : call'[d].st = "waiting" /\ call'[d].no = r.no
                      /\ \A d \in Callers : call'[d].st # "idle" /\ call'[d].no = r.no =>
                           call'[d].op = r.op /\ (r.op = "close" => r.h = held'[d])
    BY DEF Asking
  <2>1. CASE r \in UnderWay
    <3>1. r.no \in 1 .. sent
      BY <2>1 DEF Given
    <3>2. \A d \in Callers : call'[d].no = r.no => d # c
      BY <1>5, <1>9, <3>1
    <3>3. \/ r.no \in dropped' \cup expired'
          \/ \E d \in Callers : call'[d].st = "waiting" /\ call'[d].no = r.no
      BY <1>1, <1>5, <2>1 DEF Asking
    <3> QED BY <1>1, <1>5, <2>1, <3>2, <3>3 DEF Asking
  <2>2. CASE r = msg /\ call'[c].st = "waiting"
    <3>1. r.no = sent' /\ r.op = op /\ r.h = held[c]
      BY <1>4, <2>2
    <3>2. \A d \in Callers : call[d].st # "idle" => call[d].no # sent'
      BY <1>1 DEF IInv, Numbered
    <3>3. r.no \notin open' /\ \A d \in Callers : held'[d] # r.no
      BY <1>1, <1>9, <3>1 DEF Given
    <3> QED BY <1>1, <1>5, <2>2, <3>1, <3>2, <3>3
  <2> QED BY <1>8, <2>1, <2>2
<1>14. Telling'
  <2>1. \A a \in answers : a.no # sent'
    BY <1>9 DEF Given
  <2> QED BY <1>1, <1>5, <2>1 DEF Telling
<1>15. Told'
  <2> SUFFICES ASSUME NEW d \in Callers
               PROVE  /\ call'[d].op # "none" => call'[d].st # "idle"
                      /\ call'[d].st = "answered" =>
                           /\ call'[d].ans # "none"
                           /\ call'[d].ans = "failed" => call'[d].no \in dropped' \cup expired'
                           /\ call'[d].ans # "failed" => \A r \in UnderWay' : r.no # call'[d].no
                           /\ call'[d].ans = "status" => call'[d].no \notin open'
                           /\ call'[d].ans = "ok" /\ call'[d].op = "close" => held'[d] \notin open'
                      /\ call'[d].op = "open" => phase' = "up" /\ held'[d] = 0
                      /\ call'[d].op \in {"close", "data"} => held'[d] # 0
    BY DEF Told
  <2>1. CASE d = c
    BY <1>1, <1>5, <2>1
  <2>2. CASE d # c
    <3>1. call'[d] = call[d]
      BY <1>5, <2>2
    <3>2. call[d].st # "idle" => call[d].no # sent'
      BY <1>1 DEF IInv, Numbered
    <3>3. call[d].st # "idle" => \A r \in UnderWay' : r \in UnderWay \/ r.no # call[d].no
      BY <1>4, <1>8, <3>2
    <3> QED BY <1>1, <1>5, <3>1, <3>3 DEF Told
  <2> QED BY <2>1, <2>2
<1>16. OneHolder'
  <2>1. sent' \notin leaked /\ \A d \in Callers : held[d] # sent'
    BY <1>9 DEF Given
  <2> QED BY <1>1, <1>5, <2>1 DEF OneHolder
<1>17. HandlesAccounted'
  <2>1. ASSUME NEW h \in open
        PROVE  Known(h)' \/ h \in expired' \cup dropped' \cup leaked'
    <3>1. \A d \in Callers : call[d].op = "open" => d # c
      BY <1>1 DEF Told
    <3>2. Known(h) => Known(h)'
      BY <1>1, <1>5, <3>1 DEF Known
    <3> QED BY <1>1, <1>5, <3>2 DEF HandlesAccounted
  <2> QED BY <1>1, <2>1 DEF HandlesAccounted
<1> QED BY <1>10, <1>12, <1>13, <1>14, <1>15, <1>16, <1>17

\* The server grants a handle, or takes one back, and says so.
LEMMA ServeHandles ==
  ASSUME IInv, HInv, NEW r \in asked, Serve(r)
  PROVE  HInv'
<1> USE DEF HInv
<1>1. /\ asked' = asked \ {r}
      /\ UNCHANGED <<sent, phase, call, held, handles, queue, dropped, expired, leaked>>
  BY DEF Serve, session, past
<1>2. PICK ok \in BOOLEAN :
        /\ open' = CASE r.op = "open" /\ ok -> open \cup {r.no}
                     [] r.op = "close" -> open \ {r.h}
                     [] OTHER -> open
        /\ answers' = answers \cup {[id |-> r.id, no |-> r.no, ans |-> IF ok THEN "ok" ELSE "status"]}
  BY DEF Serve
<1>3. \A h \in open' : h \in open \/ (h = r.no /\ r.op = "open" /\ ok)
  BY <1>2
<1>4. r \in UnderWay /\ UnderWay' \subseteq UnderWay
  BY <1>1 DEF UnderWay
<1>5. \A q \in UnderWay' : q.no # r.no
  <2>1. queue \in Seq(Msgs \cup Ends) /\ Len(queue) \in Nat
    BY DEF IInv, Types
  <2>2. \A i \in 1 .. Len(queue) : queue[i] \notin Ends => queue[i].op # "end"
    BY <2>1 DEF Msgs, Ops
  <2>3. \A i \in 1 .. Len(queue) : queue[i].op # "end" => queue[i].no # r.no
    BY DEF OnePlace
  <2>4. \A q \in asked \ {r} : q.no # r.no
    BY DEF OnePlace
  <2> QED BY <1>1, <2>2, <2>3, <2>4 DEF UnderWay
<1>6. \A a \in answers' : a \in answers \/ (a.no = r.no /\ (a.ans = "status" <=> ~ok) /\ (a.ans = "ok" <=> ok))
  BY <1>2
<1>7. r.no \in 1 .. sent /\ r.no \notin open /\ (\A c \in Callers : held[c] # r.no)
  BY <1>4 DEF Given, Asking
<1>8. Given'
  BY <1>1, <1>3, <1>4, <1>6, <1>7 DEF Given
<1>9. OnePlace'
  BY <1>1, <1>4, <1>5, <1>6 DEF OnePlace
<1>10. Asking'
  BY <1>1, <1>3, <1>4, <1>5 DEF Asking
<1>11. Telling'
  <2>1. ASSUME NEW a \in answers', a.ans = "status"
        PROVE  a.no \notin open'
    <3>1. CASE a \in answers
      BY <1>3, <1>4, <2>1, <3>1 DEF Telling, OnePlace
    <3>2. CASE a.no = r.no /\ ~ok
      BY <1>3, <1>7, <3>2
    <3> QED BY <1>6, <2>1, <3>1, <3>2
  <2>2. ASSUME NEW a \in answers', NEW c \in Callers, call[c].st = "waiting", call[c].no = a.no,
               call[c].op = "close", a.ans = "ok"
        PROVE  held[c] \notin open'
    <3>1. CASE a \in answers
      BY <1>3, <1>7, <2>2, <3>1 DEF Telling
    <3>2. CASE a.no = r.no
      <4>1. r.op = "close" /\ r.h = held[c]
        BY <1>4, <2>2, <3>2 DEF Asking
      <4>2. open' = open \ {r.h}
        BY <1>2, <4>1
      <4> QED BY <4>1, <4>2
    <3> QED BY <1>6, <3>1, <3>2
  <2> QED BY <1>1, <2>1, <2>2 DEF Telling
<1>12. Told'
  <2>1. \A c \in Callers : call[c].st = "answered" /\ call[c].ans # "failed" => call[c].no # r.no
    BY <1>4 DEF Told
  <2>2. \A c \in Callers : held[c] \in open' => held[c] \in open
    BY <1>3, <1>7
  <2>3. \A c \in Callers : call[c].st = "answered" /\ call[c].ans # "failed" /\ call[c].no \in open'
                            => call[c].no \in open
    BY <1>3, <2>1
  <2> QED BY <1>1, <1>4, <2>2, <2>3 DEF Told
<1>13. OneHolder'
  BY <1>1 DEF OneHolder
<1>14. HandlesAccounted'
  <2>1. \A h : Known(h)' <=> Known(h)
    BY <1>1 DEF Known
  <2>2. ASSUME r.op = "open"
        PROVE  Known(r.no) \/ r.no \in expired \cup dropped
    BY <1>4, <2>2 DEF Asking, Known
  <2> QED BY <1>1, <1>3, <2>1, <2>2 DEF HandlesAccounted
<1> QED BY <1>8, <1>9, <1>10, <1>11, <1>12, <1>13, <1>14

\* The reader hands an answer to the call it was made for.
LEMMA ReplyHandles ==
  ASSUME IInv, HInv, NEW a \in answers, Reply(a)
  PROVE  HInv'
<1> USE DEF HInv
<1>1. /\ call \in [Callers -> Calls] /\ a \in Anss /\ a.id = IdOf(a.no) /\ answers' \subseteq answers
      /\ UNCHANGED <<phase, sent, held, handles, queue, asked, open, dropped, expired, leaked>>
      /\ UnderWay' = UnderWay
  BY DEF IInv, Types, Labelled, Reply, server, past, UnderWay
<1>2. OnePlace'
  BY <1>1 DEF OnePlace
<1>3. CASE a.id \notin DOMAIN pending
  <2>1. UNCHANGED call
    BY <1>3 DEF Reply
  <2> QED BY <1>1, <1>2, <2>1, QuietHandles
<1>4. CASE a.id \in DOMAIN pending
  <2>1. pending[a.id] = a.no
    BY <1>1, <1>4, IdsDiffer, RawSftpAssumption DEF IInv, Mapped, Counting, Nos, Anss
  <2>2. call' = [c \in Callers |-> IF Waits(c, a.no)
                   THEN [call[c] EXCEPT !.st = "answered", !.ans = a.ans, !.from = a.no] ELSE call[c]]
    BY <1>4, <2>1 DEF Reply
  <2>3. \A c \in Callers :
          \/ call'[c] = call[c] /\ ~Waits(c, a.no)
          \/ /\ Waits(c, a.no) /\ call'[c].st = "answered" /\ call'[c].ans = a.ans
             /\ call'[c].op = call[c].op /\ call'[c].no = call[c].no
    BY <1>1, <2>2 DEF Calls
  <2>4. a.ans \in {"ok", "status"}
    BY <1>1 DEF Anss
  <2>5. \A c \in Callers : /\ call'[c].st # "idle" <=> call[c].st # "idle"
                           /\ call'[c].op = call[c].op /\ call'[c].no = call[c].no
                           /\ call'[c].st = "waiting" => call'[c] = call[c]
    BY <2>3 DEF Waits
  <2>6. \A q \in UnderWay : q.no # a.no
    BY DEF OnePlace
  <2>7. Given'
    BY <1>1 DEF Given
  <2>8. Asking'
    <3>1. \A q \in UnderWay : \A c \in Callers : call[c].no = q.no => call'[c] = call[c]
      BY <2>3, <2>6 DEF Waits
    <3> QED BY <1>1, <2>5, <3>1 DEF Asking
  <2>9. Telling'
    BY <1>1, <2>5 DEF Telling
  <2>10. Told'
    <3>1. ASSUME NEW c \in Callers, Waits(c, a.no)
          PROVE  /\ call'[c].ans # "none" /\ call'[c].ans # "failed"
                 /\ \A q \in UnderWay : q.no # call[c].no
                 /\ call'[c].ans = "status" => call[c].no \notin open
                 /\ call'[c].ans = "ok" /\ call[c].op = "close" => held[c] \notin open
      BY <2>3, <2>4, <2>6, <3>1 DEF Waits, Telling
    <3> QED BY <1>1, <2>3, <2>5, <3>1 DEF Told
  <2>11. OneHolder'
    BY <1>1, <2>5 DEF OneHolder
  <2>12. HandlesAccounted'
    <3>1. \A h : Known(h)' <=> Known(h)
      BY <1>1, <2>5 DEF Known
    <3> QED BY <1>1, <3>1 DEF HandlesAccounted
  <2> QED BY <1>2, <2>7, <2>8, <2>9, <2>10, <2>11, <2>12
<1> QED BY <1>3, <1>4

\* Numbers of finite sets of handles: what a handle taken or forgotten changes.
Holders == {c \in Callers : held[c] # 0}

LEMMA HoldersFinite ==
  ASSUME IInv, HInv
  PROVE  IsFiniteSet(Holders) /\ IsFiniteSet(leaked)
<1>1. IsFiniteSet(Callers)
  <2>1. IsFiniteSet(Workers \cup {Hb}) /\ IsFiniteSet((Workers \cup {Hb}) \cup {Main})
    BY RawSftpAssumption, FS_AddElement
  <2> QED BY <2>1 DEF Callers
<1>2. IsFiniteSet(Holders)
  BY <1>1, FS_Subset DEF Holders
<1>3. sent \in Nat
  BY DEF IInv, Counting
<1> DEFINE one == 1
<1>4. IsFiniteSet(one .. sent)
  <2>1. one \in Int /\ sent \in Int
    BY <1>3
  <2> HIDE DEF one
  <2> QED BY <2>1, FS_Interval
<1>5. leaked \in SUBSET (one .. sent)
  BY DEF HInv, Given
<1>6. IsFiniteSet(leaked)
  <2> HIDE DEF one
  <2> QED BY <1>4, <1>5, FS_Subset
<1> QED BY <1>2, <1>6

\* A holder forgets its handle.
LEMMA ForgottenHandle ==
  ASSUME IInv, HInv, NEW c \in Callers, held[c] # 0, held' = [held EXCEPT ![c] = 0]
  PROVE  /\ leaked' = leaked \cup {held[c]} => handles = Cardinality(Holders') + Cardinality(leaked')
         /\ leaked' = leaked => handles = Cardinality(Holders') + 1 + Cardinality(leaked')
<1>1. handles = Cardinality(Holders) + Cardinality(leaked)
  BY DEF HInv, HandlesAccounted, Holders
<1>2. IsFiniteSet(Holders) /\ IsFiniteSet(leaked)
  BY HoldersFinite
<1>3. Cardinality(Holders) \in Nat /\ Cardinality(leaked) \in Nat
  BY <1>2, FS_CardinalityType
<1>4. held \in [Callers -> 0 .. MaxReqs]
  BY DEF IInv, Types
<1>5. Holders' = Holders \ {c} /\ c \in Holders
  BY <1>4 DEF Holders
<1>6. Cardinality(Holders') = Cardinality(Holders) - 1
  BY <1>2, <1>5, FS_RemoveElement
<1>7. Cardinality(leaked \cup {held[c]}) = Cardinality(leaked) + 1
  <2>1. held[c] \notin leaked
    BY DEF HInv, OneHolder
  <2> QED BY <1>2, <2>1, FS_AddElement
<1>8. ASSUME leaked' = leaked \cup {held[c]}
      PROVE  handles = Cardinality(Holders') + Cardinality(leaked')
  <2>1. Cardinality(leaked') = Cardinality(leaked) + 1
    BY <1>7, <1>8
  <2> QED BY <1>1, <1>3, <1>6, <2>1
<1>9. ASSUME leaked' = leaked
      PROVE  handles = Cardinality(Holders') + 1 + Cardinality(leaked')
  BY <1>1, <1>3, <1>6, <1>9
<1> QED BY <1>8, <1>9

\* A caller whose call ended lets go of its handle: the handle is closed, or
\* it is among the forgotten ones.
LEMMA LetGo ==
  ASSUME IInv, HInv, NEW c \in Callers, held[c] # 0, held' = [held EXCEPT ![c] = 0],
         UNCHANGED <<phase, sent, queue, asked, open, answers, dropped, expired>>,
         \/ leaked' = leaked \cup {held[c]} /\ handles' = handles
         \/ leaked' = leaked /\ held[c] \notin open /\ handles' = handles - 1,
         call' \in [Callers -> Calls], call'[c].st = "idle", call'[c].op = "none",
         \A d \in Callers \ {c} : call'[d] = call[d], call[c].st # "waiting", call[c].op # "open"
  PROVE  HInv'
<1> USE DEF HInv
<1>1. held \in [Callers -> 0 .. MaxReqs] /\ UnderWay' = UnderWay
  BY DEF IInv, Types, UnderWay
<1>2. /\ held'[c] = 0 /\ call'[c].st = "idle" /\ call'[c].op = "none"
      /\ \A d \in Callers \ {c} : held'[d] = held[d] /\ call'[d] = call[d]
  BY <1>1
<1>3. leaked' \subseteq leaked \cup {held[c]} /\ held[c] \in 1 .. sent
  BY <1>1 DEF Given
<1>4. Given'
  <2>1. \A d \in Callers : held[d] \in 0 .. sent /\ 0 \in 0 .. sent
    BY <1>3 DEF Given, IInv, Counting
  <2>2. \A d \in Callers : held'[d] \in 0 .. sent
    BY <1>2, <2>1
  <2>3. leaked' \subseteq 1 .. sent
    BY <1>3 DEF Given
  <2> QED BY <1>1, <2>2, <2>3 DEF Given
<1>5. OnePlace'
  BY <1>1 DEF OnePlace
<1>6. Asking'
  <2> SUFFICES ASSUME NEW r \in UnderWay
               PROVE  /\ r.no \notin open
                      /\ \A d \in Callers : held'[d] # r.no
                      /\ \/ r.no \in dropped \cup expired
                         \/ \E d \in Callers : call'[d].st = "waiting" /\ call'[d].no = r.no
                      /\ \A d \in Callers : call'[d].st # "idle" /\ call'[d].no = r.no =>
                           call'[d].op = r.op /\ (r.op = "close" => r.h = held'[d])
    BY <1>1 DEF Asking
  <2>1. r.no # 0
    BY DEF Given
  <2>2. \A d \in Callers : call[d].st = "waiting" => d # c
    OBVIOUS
  <2> QED BY <1>1, <1>2, <2>1, <2>2 DEF Asking
<1>7. Telling'
  BY <1>1, <1>2 DEF Telling
<1>8. Told'
  <2>1. \A d \in Callers : d = c \/ d # c
    OBVIOUS
  <2> QED BY <1>1, <1>2, <2>1 DEF Told
<1>9. OneHolder'
  <2>1. ASSUME NEW d \in Callers, d # c
        PROVE  /\ held[d] # 0 => held[d] \notin leaked'
               /\ call[d].st # "idle" => call[d].no \notin leaked'
               /\ call[d].st # "idle" => \A e \in Callers : held'[e] # call[d].no
    <3>1. call[d].st # "idle" => call[d].no # 0
      BY DEF IInv, Numbered
    <3> QED BY <1>2, <1>3, <2>1, <3>1 DEF OneHolder
  <2> QED BY <1>1, <1>2, <2>1 DEF OneHolder
<1>10. HandlesAccounted'
  <2>1. ASSUME NEW h \in open
        PROVE  Known(h)' \/ h \in expired' \cup dropped' \cup leaked'
    <3>1. CASE held[c] = h
      BY <2>1, <3>1
    <3>2. CASE held[c] # h /\ Known(h)
      BY <1>2, <3>2 DEF Known
    <3>3. leaked \subseteq leaked'
      OBVIOUS
    <3> QED BY <3>1, <3>2, <3>3 DEF HandlesAccounted
  <2>2. handles' = Cardinality(Holders') + Cardinality(leaked')
    <3>1. /\ leaked' = leaked \cup {held[c]} => handles = Cardinality(Holders') + Cardinality(leaked')
          /\ leaked' = leaked => handles = Cardinality(Holders') + 1 + Cardinality(leaked')
      BY ForgottenHandle
    <3>2. IsFiniteSet(Holders') /\ IsFiniteSet(leaked')
      <4>1. IsFiniteSet(Holders) /\ IsFiniteSet(leaked) /\ IsFiniteSet(leaked \cup {held[c]})
        BY HoldersFinite, FS_AddElement
      <4>2. Holders' \subseteq Holders
        BY <1>1, <1>2 DEF Holders
      <4> QED BY <4>1, <4>2, FS_Subset
    <3>3. Cardinality(Holders') \in Nat /\ Cardinality(leaked') \in Nat
      BY <3>2, FS_CardinalityType
    <3>4. held[c] \notin leaked
      BY DEF OneHolder
    <3> QED BY <3>1, <3>3, <3>4
  <2> QED BY <2>1, <2>2 DEF HandlesAccounted, Holders
<1> QED BY <1>4, <1>5, <1>6, <1>7, <1>8, <1>9, <1>10

\* A closed session's handle is forgotten without a close.
LEMMA SkipHandles ==
  ASSUME IInv, HInv, NEW c \in Callers, SkipClose(c)
  PROVE  HInv'
<1>1. /\ call[c].st = "idle" /\ held[c] # 0 /\ held' = [held EXCEPT ![c] = 0]
      /\ leaked' = leaked \cup {held[c]}
      /\ UNCHANGED <<phase, sent, queue, asked, open, answers, dropped, expired, call, handles>>
  BY DEF SkipClose, session, server
<1>2. call \in [Callers -> Calls] /\ call[c].op = "none"
  BY <1>1 DEF IInv, Types, HInv, Told
<1> QED BY <1>1, <1>2, LetGo

\* An open that was granted: its caller holds the handle from now on.
LEMMA OpenedHandles ==
  ASSUME IInv, HInv, NEW c \in Callers, Returns(c), Opened(c)
  PROVE  HInv'
<1> USE DEF HInv
<1> DEFINE n == call[c].no
<1>1. /\ held' = [held EXCEPT ![c] = n] /\ call' = [call EXCEPT ![c] = Idle]
      /\ handles' = handles + 1 /\ leaked' = leaked
      /\ UNCHANGED <<phase, sent, queue, asked, open, answers, dropped, expired>>
      /\ call[c].st = "answered" /\ call[c].ans = "ok" /\ call[c].op = "open"
  BY DEF Returns, Opened, Closed, ListFails, session, server
<1>2. /\ held \in [Callers -> 0 .. MaxReqs] /\ call \in [Callers -> Calls]
      /\ UnderWay' = UnderWay /\ Idle.st = "idle" /\ Idle.op = "none"
  BY <1>1 DEF IInv, Types, UnderWay, Idle
<1>3. /\ held'[c] = n /\ call'[c] = Idle
      /\ \A d \in Callers \ {c} : held'[d] = held[d] /\ call'[d] = call[d]
  BY <1>1, <1>2
<1>4. /\ n \in 1 .. sent /\ held[c] = 0 /\ n \notin leaked /\ \A d \in Callers : held[d] # n
      /\ \A d \in Callers \ {c} : call[d].st # "idle" => call[d].no # n
      /\ \A r \in UnderWay : r.no # n
      /\ sent \in Nat /\ n # 0
  BY <1>1 DEF IInv, Counting, Numbered, OneHolder, Told
<1> HIDE DEF n
<1>5. Given'
  <2>1. \A d \in Callers : held'[d] \in 0 .. sent
    BY <1>3, <1>4 DEF Given
  <2> QED BY <1>1, <1>2, <2>1 DEF Given
<1>6. OnePlace'
  BY <1>1, <1>2 DEF OnePlace
<1>7. Asking'
  <2> SUFFICES ASSUME NEW r \in UnderWay
               PROVE  /\ r.no \notin open
                      /\ \A d \in Callers : held'[d] # r.no
                      /\ \/ r.no \in dropped \cup expired
                         \/ \E d \in Callers : call'[d].st = "waiting" /\ call'[d].no = r.no
                      /\ \A d \in Callers : call'[d].st # "idle" /\ call'[d].no = r.no =>
                           call'[d].op = r.op /\ (r.op = "close" => r.h = held'[d])
    BY <1>1, <1>2 DEF Asking
  <2>1. \A d \in Callers : call[d].st = "waiting" => d # c
    BY <1>1
  <2> QED BY <1>2, <1>3, <1>4, <2>1 DEF Asking
<1>8. Telling'
  BY <1>1, <1>2, <1>3 DEF Telling
<1>9. Told'
  <2>1. \A d \in Callers : d = c \/ d # c
    OBVIOUS
  <2> QED BY <1>1, <1>2, <1>3, <2>1 DEF Told
<1>10. OneHolder'
  <2>1. ASSUME NEW d \in Callers, d # c, call'[d].st # "idle"
        PROVE  /\ call'[d].no \notin leaked' /\ \A e \in Callers : held'[e] # call'[d].no
    BY <1>1, <1>3, <1>4, <2>1 DEF OneHolder
  <2>2. ASSUME NEW d \in Callers, NEW e \in Callers, held'[d] # 0, held'[d] = held'[e]
        PROVE  d = e
    BY <1>3, <1>4, <2>2 DEF OneHolder
  <2>3. ASSUME NEW d \in Callers, held'[d] # 0
        PROVE  held'[d] \notin leaked'
    BY <1>1, <1>3, <1>4, <2>3 DEF OneHolder
  <2> QED BY <1>2, <1>3, <2>1, <2>2, <2>3 DEF OneHolder
<1>11. HandlesAccounted'
  <2>1. ASSUME NEW h \in open
        PROVE  Known(h)' \/ h \in expired' \cup dropped' \cup leaked'
    <3>1. CASE h = n
      BY <1>3, <3>1 DEF Known
    <3>2. CASE h # n /\ Known(h)
      <4>1. h # 0
        BY <1>4 DEF Given
      <4> QED BY <1>3, <1>4, <3>2, <4>1 DEF Known, n
    <3> QED BY <1>1, <3>1, <3>2 DEF HandlesAccounted
  <2>2. handles' = Cardinality(Holders') + Cardinality(leaked')
    <3>1. Holders' = Holders \cup {c} /\ c \notin Holders
      BY <1>3, <1>4 DEF Holders
    <3>2. IsFiniteSet(Holders) /\ IsFiniteSet(leaked)
      BY HoldersFinite
    <3>3. Cardinality(Holders') = Cardinality(Holders) + 1
      BY <3>1, <3>2, FS_AddElement
    <3>4. Cardinality(Holders) \in Nat /\ Cardinality(leaked) \in Nat
      BY <3>2, FS_CardinalityType
    <3>5. handles = Cardinality(Holders) + Cardinality(leaked)
      BY DEF HandlesAccounted, Holders
    <3> QED BY <1>1, <3>3, <3>4, <3>5
  <2> QED BY <1>1, <2>1, <2>2 DEF HandlesAccounted, Holders
<1> QED BY <1>5, <1>6, <1>7, <1>8, <1>9, <1>10, <1>11

\* An operation that returns takes a handle, lets go of one, or touches none.
LEMMA ReturnHandles ==
  ASSUME IInv, HInv, NEW c \in Callers, Returns(c)
  PROVE  HInv'
<1>1. /\ call' = [call EXCEPT ![c] = Idle] /\ call[c].st = "answered"
      /\ UNCHANGED <<phase, sent, queue, asked, open, answers, dropped, expired>>
  BY DEF Returns, session, server
<1>2. /\ call \in [Callers -> Calls] /\ Idle.st = "idle" /\ Idle.op = "none"
      /\ [call EXCEPT ![c] = Idle] \in [Callers -> Calls]
  <2>1. Idle \in Calls
    BY RawSftpAssumption DEF Idle, Calls, AllIds
  <2> QED BY <2>1 DEF IInv, Types, Idle
<1>3. CASE Opened(c)
  BY <1>3, OpenedHandles
<1>4. CASE ~Opened(c) /\ (call[c].op = "close" \/ ListFails(c)) /\ held' = [held EXCEPT ![c] = 0]
           /\ leaked' = IF Closed(c) THEN leaked ELSE leaked \cup {held[c]}
  <2>1. held[c] # 0 /\ call[c].op # "open"
    BY <1>4 DEF HInv, Told, ListFails
  <2>2. CASE Closed(c)
    <3>1. held[c] \notin open
      BY <1>1, <2>2 DEF HInv, Told, Closed
    <3>2. handles > 0
      <4>1. IsFiniteSet(Holders) /\ IsFiniteSet(leaked) /\ c \in Holders
        BY <2>1, HoldersFinite DEF Holders
      <4>2. Cardinality(Holders) \in Nat /\ Cardinality(leaked) \in Nat /\ Cardinality(Holders) # 0
        BY <4>1, FS_CardinalityType, FS_EmptySet
      <4>3. handles = Cardinality(Holders) + Cardinality(leaked)
        BY DEF HInv, HandlesAccounted, Holders
      <4> QED BY <4>2, <4>3
    <3>3. handles' = handles - 1 /\ leaked' = leaked
      BY <1>4, <2>2, <3>2 DEF Returns
    <3> QED BY <1>1, <1>2, <1>4, <2>1, <3>1, <3>3, LetGo
  <2>3. CASE ~Closed(c)
    <3>1. handles' = handles /\ leaked' = leaked \cup {held[c]}
      BY <1>4, <2>3 DEF Returns
    <3> QED BY <1>1, <1>2, <1>4, <2>1, <3>1, LetGo
  <2> QED BY <2>2, <2>3
<1>5. CASE ~Opened(c) /\ call[c].op # "close" /\ UNCHANGED <<held, leaked>>
  <2>1. handles' = handles
    BY <1>5 DEF Returns, Closed
  <2>2. call[c].op = "open" => call[c].no \in dropped \cup expired \/ call[c].no \notin open
    <3>1. call[c].ans \in {"none", "ok", "status", "failed"}
      BY DEF IInv, Types, Calls
    <3> QED BY <1>1, <1>5, <3>1 DEF HInv, Told, Opened
  <2>3. \A d \in Callers : call'[d] = call[d] \/ (d = c /\ call'[d] = Idle)
    BY <1>1, <1>2
  <2>4. UnderWay' = UnderWay /\ OnePlace'
    BY <1>1 DEF UnderWay, OnePlace, HInv
  <2> QED BY <1>1, <1>5, <2>1, <2>2, <2>3, <2>4, QuietHandles
<1> QED BY <1>3, <1>4, <1>5 DEF Returns, Opened, ListFails

\* The steps of the session, together.
LEMMA StepHandles ==
  ASSUME IInv, HInv, [Next]_vars
  PROVE  HInv'
<1>1. CASE UNCHANGED vars
  <2>1. UNCHANGED <<queue, call, held, handles, asked, answers, open, sent, phase, dropped, expired, leaked>>
    BY <1>1 DEF vars, session, server, past
  <2>2. UnderWay' = UnderWay /\ OnePlace'
    BY <2>1 DEF UnderWay, OnePlace, HInv
  <2> QED BY <2>1, <2>2, QuietHandles
<1>2. CASE \/ SetUp \/ Ping
           \/ \E c \in Callers : Open(c) \/ OpenDir(c) \/ ReadWrite(c) \/ ReadDir(c) \/ Ask(c) \/ Close(c)
  <2>1. Main \in Callers /\ Hb \in Callers
    BY DEF Callers
  <2>2. PICK c \in Callers, op \in Ops :
          /\ Send(c, op)
          /\ op = "open" => phase = "up" /\ held[c] = 0
          /\ op \in {"close", "data"} => held[c] # 0
    BY <1>2, <2>1 DEF SetUp, Ping, Open, OpenDir, ReadWrite, ReadDir, Ask, Close, Free, Holds, Ops
  <2> QED BY <2>2, SendHandles
<1>3. CASE Next
  BY <1>2, <1>3, QuietSteps, SkipHandles, ReturnHandles, ReplyHandles, ServeHandles
     DEF Next, CallerStep, ReaderStep
<1> QED BY <1>1, <1>3

\* A handle the server keeps open is known to a caller, or it was forgotten because its
\* open or close was not answered in time, a listing failed or the session was closed;
\* and the count that refuses further opens is off by exactly the forgotten handles.
THEOREM HandlesAreAccounted == Spec => []HandlesAccounted
<1>1. Init => IInv /\ HInv
  BY InitInv, InitHandles
<1>2. IInv /\ HInv /\ [Next]_vars => (IInv /\ HInv)'
  BY StepInv, StepHandles
<1>3. HInv => HandlesAccounted
  BY DEF HInv
<1> QED BY <1>1, <1>2, <1>3, PTL DEF Spec

-----------------------------------------------------------------------------
(* Uploads.                                                                *)

\* Two pieces one of which ends before the other begins.
Apart(p, q) == p.off + p.len <= q.off \/ q.off + q.len <= p.off

\* Byte b belongs to piece p.
In(b, p) == p.off <= b /\ b < p.off + p.len

\* Bytes that have been acknowledged, and bytes the server must have by now.
Acked == {b \in 0 .. (offset - 1) : \A p \in inflight : ~In(b, p)}
Sent  == {b \in 0 .. (offset - 1) : \A p \in inflight \ applied : ~In(b, p)}

UploadTypes ==
  /\ pc \in Running \cup Ended
  /\ offset \in 0 .. TotalSize
  /\ inflight \subseteq [off : 0 .. TotalSize, len : 1 .. ChunkSize]
  /\ applied \subseteq inflight
  /\ stored \subseteq 0 .. TotalSize
  /\ progress \in Nat
  /\ localLen \in LocalSizes \cup {TotalSize}
  /\ shrunk \in BOOLEAN /\ cancel \in BOOLEAN

\* The writes in flight are apart and have been read from the file.
TileInv ==
  /\ \A p \in inflight : p.off + p.len <= offset
  /\ \A p, q \in inflight : p # q => Apart(p, q)

\* Progress has counted what is acknowledged; the server has what was written.
CountInv  == Cardinality(Acked) = progress
StoredInv == pc # "open" /\ pc # "failed" => stored = Sent

\* The call waits for nothing only when the file is used up, or shrank.
ShrunkInv ==
  /\ ~shrunk => localLen >= TotalSize
  /\ pc = "open" => inflight = {} /\ applied = {} /\ offset = 0
  /\ pc = "ok" => inflight = {}
  /\ pc \in {"ack", "ok"} /\ inflight = {} /\ ~shrunk => offset = TotalSize

UploadInv == UploadTypes /\ TileInv /\ CountInv /\ StoredInv /\ ShrunkInv

-----------------------------------------------------------------------------
\* The adaptive depth is a positive number for a file that is not empty.
LEMMA DepthPositive ==
  ASSUME TotalSize >= 1
  PROVE  Depth \in Nat /\ Depth >= 1
<1> DEFINE x == TotalSize + ChunkSize - 1
           y == x \div ChunkSize
<1>1. x \in Nat /\ x >= ChunkSize /\ ChunkSize \in Nat \ {0}
  BY UploadAssumption
<1>2. y \in Nat /\ y >= 1
  BY <1>1
<1>3. MaxInflight \div ChunkSize \in Nat
  BY UploadAssumption
<1> HIDE DEF y
<1>4. QED
  BY <1>2, <1>3, UploadAssumption DEF Depth, MinOf, MaxOf, y

\* What read_chunk_into() returns stays inside the chunk and the file.
LEMMA ReadChunkFacts ==
  ASSUME UploadTypes
  PROVE  /\ ReadChunk \in Nat
         /\ ReadChunk <= ChunkSize
         /\ offset + ReadChunk <= TotalSize
         /\ offset < TotalSize /\ localLen >= TotalSize => ReadChunk > 0
  BY UploadAssumption DEF UploadTypes, ReadChunk, MinOf, MaxOf

\* The acknowledged bytes are a finite set, a part of what has been read.
LEMMA AckedFinite ==
  ASSUME UploadTypes
  PROVE  /\ IsFiniteSet(0 .. (offset - 1)) /\ Cardinality(0 .. (offset - 1)) = offset
         /\ IsFiniteSet(Acked) /\ Cardinality(Acked) \in Nat /\ Cardinality(Acked) <= offset
<1>1. offset \in Nat /\ offset - 1 \in Int
  BY UploadAssumption DEF UploadTypes
<1>2. IsFiniteSet(0 .. (offset - 1)) /\ Cardinality(0 .. (offset - 1)) = offset
  BY <1>1, FS_Interval
<1>3. Acked \subseteq 0 .. (offset - 1)
  BY DEF Acked
<1>4. QED
  BY <1>2, <1>3, FS_Subset, FS_CardinalityType

\* The invariant holds when upload() is called.
LEMMA UploadInitInv == UploadInit => UploadInv
<1> SUFFICES ASSUME UploadInit PROVE UploadInv
  OBVIOUS
<1> USE UploadAssumption DEF UploadInit
<1>1. UploadTypes
  <2>1. stored \subseteq 0 .. TotalSize
    OBVIOUS
  <2>2. pc \in Running \cup Ended
    BY DEF Running, Ended
  <2>3. offset \in 0 .. TotalSize /\ progress \in Nat
    OBVIOUS
  <2>4. inflight \subseteq [off : 0 .. TotalSize, len : 1 .. ChunkSize] /\ applied \subseteq inflight
    OBVIOUS
  <2>5. QED
    BY <2>1, <2>2, <2>3, <2>4 DEF UploadTypes
<1>2. Acked = {}
  BY DEF Acked
<1>3. CountInv
  BY <1>2, FS_EmptySet DEF CountInv
<1>4. TileInv /\ StoredInv /\ ShrunkInv
  BY DEF TileInv, StoredInv, ShrunkInv
<1>5. QED
  BY <1>1, <1>3, <1>4 DEF UploadInv

\* Reading and sending a chunk moves its bytes from the file into flight:
\* neither what is acknowledged nor what the server has changes.
LEMMA QueueKeeps ==
  ASSUME UploadTypes, TileInv, ReadChunk > 0, QueueWrite, UNCHANGED applied
  PROVE  /\ offset' \in 0 .. TotalSize
         /\ inflight' \subseteq [off : 0 .. TotalSize, len : 1 .. ChunkSize]
         /\ applied' \subseteq inflight' /\ inflight' # {}
         /\ TileInv' /\ Acked' = Acked /\ Sent' = Sent
<1> DEFINE n == ReadChunk
           w == [off |-> offset, len |-> n]
<1>1. n \in Nat /\ n >= 1 /\ n <= ChunkSize /\ offset + n <= TotalSize
  BY ReadChunkFacts
<1>2. inflight' = inflight \cup {w} /\ offset' = offset + n /\ applied' = applied
  BY DEF QueueWrite
<1> HIDE DEF n
<1>3. /\ offset \in Nat /\ w \in [off : 0 .. TotalSize, len : 1 .. ChunkSize]
      /\ w.off = offset /\ w.len = n /\ w \notin inflight
  BY <1>1, UploadAssumption DEF UploadTypes, TileInv
<1>4. \A p \in inflight : p.off \in Nat /\ p.len \in Nat /\ p.off + p.len <= offset
  BY UploadAssumption DEF UploadTypes, TileInv
<1> HIDE DEF w
<1>5. TileInv'
  <2>1. \A p \in inflight' : p.off + p.len <= offset'
    BY <1>1, <1>2, <1>3, <1>4
  <2>2. \A p \in inflight : Apart(p, w) /\ Apart(w, p)
    BY <1>3, <1>4 DEF Apart
  <2>3. \A p, q \in inflight' : p # q => Apart(p, q)
    BY <1>2, <2>2 DEF TileInv
  <2>4. QED
    BY <2>1, <2>3 DEF TileInv
<1>6. \A b \in 0 .. (offset - 1) : ~In(b, w)
  BY <1>3 DEF In
<1>7. \A b \in 0 .. (offset' - 1) : ~In(b, w) => b \in 0 .. (offset - 1)
  BY <1>1, <1>2, <1>3 DEF In
<1>8. 0 .. (offset - 1) \subseteq 0 .. (offset' - 1)
  BY <1>1, <1>2, <1>3
<1>9. Acked' = Acked
  BY <1>2, <1>6, <1>7, <1>8 DEF Acked
<1>10. inflight' \ applied' = (inflight \ applied) \cup {w}
  BY <1>2, <1>3 DEF UploadTypes
<1>11. Sent' = Sent
  BY <1>6, <1>7, <1>8, <1>10 DEF Sent
<1>12. QED
  BY <1>1, <1>2, <1>3, <1>5, <1>9, <1>11 DEF UploadTypes

\* The bytes of a piece are an interval of its length.
LEMMA BytesFacts ==
  ASSUME UploadTypes, NEW p \in inflight
  PROVE  /\ IsFiniteSet(Bytes(p)) /\ Cardinality(Bytes(p)) = p.len
         /\ \A b : b \in Bytes(p) <=> b \in Int /\ In(b, p)
         /\ p.off \in Nat /\ p.len \in Nat
<1>1. p.off \in Nat /\ p.len \in Nat /\ p.len >= 1
  BY UploadAssumption DEF UploadTypes
<1>2. p.off + p.len - 1 \in Int /\ p.off \in Int
  BY <1>1
<1>3. IsFiniteSet(Bytes(p)) /\ Cardinality(Bytes(p)) = p.len
  <2> DEFINE first == p.off  last == p.off + p.len - 1
  <2>1. first \in Int /\ last \in Int /\ ~(first > last) /\ last - first + 1 = p.len
    BY <1>1, <1>2
  <2>2. Bytes(p) = first .. last
    BY DEF Bytes
  <2> HIDE DEF first, last
  <2>3. /\ IsFiniteSet(first .. last)
        /\ Cardinality(first .. last) = IF first > last THEN 0 ELSE last - first + 1
    BY <2>1, FS_Interval
  <2>4. QED
    BY <2>1, <2>2, <2>3
<1>4. QED
  BY <1>1, <1>3 DEF Bytes, In

\* An acknowledged piece adds its length to what has been counted.
LEMMA AckCounts ==
  ASSUME UploadInv, NEW p \in inflight, p \in applied, Ack(p)
  PROVE  CountInv' /\ TileInv' /\ Sent' = Sent
<1> USE DEF UploadInv
<1>1. /\ inflight' = inflight \ {p} /\ applied' = applied \ {p}
      /\ offset' = offset /\ progress' = progress + p.len
  BY DEF Ack
<1>2. TileInv'
  BY <1>1 DEF TileInv
<1>3. Acked' = Acked \cup Bytes(p)
  <2>1. \A b \in Bytes(p) : b \in 0 .. (offset - 1)
    BY BytesFacts, UploadAssumption DEF TileInv, UploadTypes, In
  <2>2. \A b \in Bytes(p), q \in inflight \ {p} : ~In(b, q)
    <3> SUFFICES ASSUME NEW b \in Bytes(p), NEW q \in inflight \ {p} PROVE ~In(b, q)
      OBVIOUS
    <3>1. Apart(p, q) /\ In(b, p) /\ b \in Int
      BY BytesFacts DEF TileInv
    <3>2. p.off \in Nat /\ p.len \in Nat /\ q.off \in Nat /\ q.len \in Nat
      BY BytesFacts
    <3>3. QED
      BY <3>1, <3>2 DEF Apart, In
  <2>3. \A b \in 0 .. (offset - 1) : b \in Bytes(p) <=> In(b, p)
    BY BytesFacts
  <2>4. Acked' \subseteq Acked \cup Bytes(p)
    BY <1>1, <2>3 DEF Acked
  <2>5. Acked \subseteq Acked'
    BY <1>1 DEF Acked
  <2>6. Bytes(p) \subseteq Acked'
    BY <1>1, <2>1, <2>2 DEF Acked
  <2>7. QED
    BY <2>4, <2>5, <2>6
<1>4. Acked \cap Bytes(p) = {}
  BY BytesFacts DEF Acked
<1>5. Cardinality(Acked \cup Bytes(p)) = Cardinality(Acked) + p.len
  <2>1. Cardinality(Acked \cap Bytes(p)) = 0
    BY <1>4, FS_EmptySet
  <2>2. Cardinality(Acked \cup Bytes(p)) =
          Cardinality(Acked) + Cardinality(Bytes(p)) - Cardinality(Acked \cap Bytes(p))
    BY AckedFinite, BytesFacts, FS_Union
  <2> DEFINE a == Cardinality(Acked)
             u == Cardinality(Acked \cup Bytes(p))
  <2>3. a \in Nat /\ p.len \in Nat
    BY AckedFinite, BytesFacts
  <2>4. u = a + p.len - 0
    BY <2>1, <2>2, BytesFacts
  <2> HIDE DEF a, u
  <2>5. u = a + p.len
    BY <2>3, <2>4
  <2>6. QED
    BY <2>5 DEF a, u
<1>6. CountInv'
  BY <1>1, <1>3, <1>5 DEF CountInv
<1>7. inflight' \ applied' = inflight \ applied
  BY <1>1 DEF UploadTypes
<1>8. QED
  BY <1>1, <1>2, <1>6, <1>7 DEF Sent

\* A write the server carries out adds its bytes to what it must have.
LEMMA WriteStores ==
  ASSUME UploadInv, NEW p \in inflight, ServerWrite(p)
  PROVE  Sent' = Sent \cup Bytes(p)
<1> USE DEF UploadInv
<1>1. /\ inflight' \ applied' = (inflight \ applied) \ {p}
      /\ offset' = offset /\ p \in inflight \ applied
  BY DEF ServerWrite
<1>2. \A b \in Bytes(p) : b \in 0 .. (offset - 1)
  BY BytesFacts, UploadAssumption DEF TileInv, UploadTypes, In
<1>3. \A b \in Bytes(p), q \in inflight \ {p} : ~In(b, q)
  <2> SUFFICES ASSUME NEW b \in Bytes(p), NEW q \in inflight \ {p} PROVE ~In(b, q)
    OBVIOUS
  <2>1. Apart(p, q) /\ In(b, p) /\ b \in Int
    BY BytesFacts DEF TileInv
  <2>2. p.off \in Nat /\ p.len \in Nat /\ q.off \in Nat /\ q.len \in Nat
    BY BytesFacts
  <2>3. QED
    BY <2>1, <2>2 DEF Apart, In
<1>4. \A b \in 0 .. (offset - 1) : b \in Bytes(p) <=> In(b, p)
  BY BytesFacts
<1>5. Sent' \subseteq Sent \cup Bytes(p)
  BY <1>1, <1>4 DEF Sent
<1>6. Sent \subseteq Sent'
  BY <1>1 DEF Sent
<1>7. Bytes(p) \subseteq Sent'
  BY <1>1, <1>2, <1>3 DEF Sent
<1>8. QED
  BY <1>5, <1>6, <1>7

\* What does not touch the writes in flight changes neither set.
LEMMA Frame ==
  ASSUME TileInv, UNCHANGED <<offset, inflight, applied>>
  PROVE  TileInv' /\ Acked' = Acked /\ Sent' = Sent
  BY DEF TileInv, Acked, Sent

\* With nothing left to read and nothing in flight the file has been used up,
\* unless it shrank.
LEMMA UsedUp ==
  ASSUME UploadInv, ~shrunk, ~(offset < TotalSize /\ ReadChunk > 0)
  PROVE  offset = TotalSize
<1>1. localLen >= TotalSize /\ UploadTypes
  BY DEF UploadInv, ShrunkInv
<1>2. ~(offset < TotalSize)
  BY <1>1, ReadChunkFacts
<1>3. QED
  BY <1>1, <1>2, UploadAssumption DEF UploadTypes

-----------------------------------------------------------------------------
(* The steps, one lemma for each action that touches more than pc          *)

\* Opening starts with nothing sent and nothing acknowledged.
LEMMA OpenInv == ASSUME UploadInv, OpenTarget PROVE UploadInv'
<1> USE DEF UploadInv
<1>1. /\ inflight' = {} /\ applied' = {} /\ offset' = 0 /\ offset = 0
      /\ UNCHANGED <<progress, localLen, shrunk, cancel>>
      /\ inflight = {} /\ applied = {}
  BY DEF OpenTarget, ShrunkInv
<1>2. (pc' = "seed" /\ stored' = {}) \/ (pc' = "failed" /\ stored' = stored)
  BY DEF OpenTarget
<1>3. TileInv' /\ Acked' = Acked
  BY <1>1 DEF TileInv, Acked
<1>4. Sent' = {}
  BY <1>1 DEF Sent
<1>5. UploadTypes'
  BY <1>1, <1>2, UploadAssumption DEF UploadTypes, Running, Ended
<1>6. StoredInv'
  BY <1>2, <1>4 DEF StoredInv
<1>7. ShrunkInv'
  BY <1>1, <1>2 DEF ShrunkInv
<1>8. CountInv'
  BY <1>1, <1>3 DEF CountInv
<1>9. QED
  BY <1>3, <1>5, <1>6, <1>7, <1>8

\* A new write starts where the bytes that were read end.
LEMMA QueueInv ==
  ASSUME UploadInv, ReadChunk > 0, QueueWrite, pc \in {"seed", "refill"}, pc' \in {"seed", "ack"},
         UNCHANGED <<applied, stored, progress, localLen, shrunk, cancel>>
  PROVE  UploadInv'
<1> USE DEF UploadInv
<1>1. /\ offset' \in 0 .. TotalSize
      /\ inflight' \subseteq [off : 0 .. TotalSize, len : 1 .. ChunkSize]
      /\ applied' \subseteq inflight' /\ inflight' # {}
      /\ TileInv' /\ Acked' = Acked /\ Sent' = Sent
  BY QueueKeeps
<1>2. UploadTypes'
  BY <1>1 DEF UploadTypes, Running
<1>3. CountInv'
  BY <1>1 DEF CountInv
<1>4. StoredInv'
  BY <1>1 DEF StoredInv
<1>5. ShrunkInv'
  BY <1>1 DEF ShrunkInv
<1>6. QED
  BY <1>1, <1>2, <1>3, <1>4, <1>5

\* Steps that move pc only; the new place must be entitled to what it claims.
LEMMA MoveInv ==
  ASSUME UploadInv, pc # "open", pc # "failed", pc' \in {"ack", "failed", "cancelled", "ok"},
         UNCHANGED <<offset, inflight, applied, stored, progress, localLen, shrunk, cancel>>,
         pc' = "ok" => inflight = {},
         pc' \in {"ack", "ok"} /\ inflight = {} /\ ~shrunk => offset = TotalSize
  PROVE  UploadInv'
<1> USE DEF UploadInv
<1>1. TileInv' /\ Acked' = Acked /\ Sent' = Sent
  BY Frame
<1>2. UploadTypes'
  BY DEF UploadTypes, Running, Ended
<1>3. CountInv' /\ StoredInv'
  BY <1>1 DEF CountInv, StoredInv
<1>4. ShrunkInv'
  BY DEF ShrunkInv
<1>5. QED
  BY <1>1, <1>2, <1>3, <1>4

\* The first writes fill the pipeline.
LEMMA SeedInv == ASSUME UploadInv, Seed PROVE UploadInv'
<1>1. CASE ReadChunk > 0 /\ QueueWrite /\ UNCHANGED pc
  BY <1>1, QueueInv DEF Seed
<1>2. CASE pc' = "failed" /\ UNCHANGED <<inflight, offset>>
  BY <1>2, MoveInv DEF Seed
<1>3. CASE /\ ~(Cardinality(inflight) < Depth /\ offset < TotalSize /\ ReadChunk > 0)
           /\ pc' = "ack" /\ UNCHANGED <<inflight, offset>>
  <2>1. inflight = {} /\ ~shrunk => offset = TotalSize
    <3> SUFFICES ASSUME inflight = {}, ~shrunk PROVE offset = TotalSize
      OBVIOUS
    <3>1. CASE TotalSize = 0
      BY <3>1 DEF UploadInv, UploadTypes
    <3>2. CASE TotalSize # 0
      <4>1. TotalSize >= 1
        BY <3>2, UploadAssumption
      <4>2. Depth \in Nat /\ Depth >= 1 /\ Cardinality(inflight) = 0
        BY <4>1, DepthPositive, FS_EmptySet
      <4>3. ~(offset < TotalSize /\ ReadChunk > 0)
        BY <1>3, <4>2
      <4>4. QED
        BY <4>3, UsedUp
    <3>3. QED
      BY <3>1, <3>2
  <2>2. QED
    BY <1>3, <2>1, MoveInv DEF Seed
<1>4. QED
  BY <1>1, <1>2, <1>3 DEF Seed

\* Every acknowledgement makes room for one more write.
LEMMA RefillInv == ASSUME UploadInv, Refill PROVE UploadInv'
<1>1. CASE ReadChunk > 0 /\ QueueWrite /\ pc' = "ack"
  BY <1>1, QueueInv DEF Refill
<1>2. CASE pc' = "failed" /\ UNCHANGED <<inflight, offset>>
  BY <1>2, MoveInv DEF Refill
<1>3. CASE /\ ~(offset < TotalSize /\ ReadChunk > 0)
           /\ pc' = "ack" /\ UNCHANGED <<inflight, offset>>
  <2>1. ~shrunk => offset = TotalSize
    BY <1>3, UsedUp
  <2>2. QED
    BY <1>3, <2>1, MoveInv DEF Refill
<1>4. QED
  BY <1>1, <1>2, <1>3 DEF Refill

\* The server carries out a write that is in flight, in any order.
LEMMA ServerWriteInv == ASSUME UploadInv, NEW p \in inflight, ServerWrite(p) PROVE UploadInv'
<1> USE DEF UploadInv
<1>1. /\ applied' = applied \cup {p} /\ stored' = stored \cup Bytes(p) /\ pc \in Running
      /\ UNCHANGED <<pc, offset, inflight, progress, localLen, shrunk, cancel>>
  BY DEF ServerWrite
<1>2. pc # "open"
  BY DEF ShrunkInv
<1>3. pc # "failed" /\ pc # "ok"
  BY <1>1 DEF Running
<1>4. TileInv' /\ Acked' = Acked
  BY <1>1 DEF TileInv, Acked
<1>5. Sent' = Sent \cup Bytes(p)
  BY WriteStores
<1>6. Bytes(p) \subseteq 0 .. TotalSize
  BY BytesFacts, UploadAssumption DEF TileInv, UploadTypes, In
<1>7. UploadTypes'
  BY <1>1, <1>6 DEF UploadTypes
<1>8. StoredInv'
  BY <1>1, <1>2, <1>3, <1>5 DEF StoredInv
<1>9. CountInv' /\ ShrunkInv'
  BY <1>1, <1>2, <1>4 DEF CountInv, ShrunkInv
<1>10. QED
  BY <1>4, <1>7, <1>8, <1>9

\* An acknowledged write counts its bytes once.
LEMMA AckInv == ASSUME UploadInv, NEW p \in inflight, Ack(p) PROVE UploadInv'
<1> USE DEF UploadInv
<1>1. /\ inflight' = inflight \ {p} /\ applied' = applied \ {p} /\ p \in applied
      /\ progress' = progress + p.len /\ pc = "ack" /\ pc' = "refill"
      /\ UNCHANGED <<offset, stored, localLen, shrunk, cancel>>
  BY DEF Ack
<1>2. CountInv' /\ TileInv' /\ Sent' = Sent
  BY <1>1, AckCounts
<1>3. progress' \in Nat
  BY <1>1, BytesFacts DEF UploadTypes
<1>4. UploadTypes'
  BY <1>1, <1>3 DEF UploadTypes, Running
<1>5. StoredInv'
  BY <1>1, <1>2 DEF StoredInv
<1>6. ShrunkInv'
  BY <1>1 DEF ShrunkInv
<1>7. QED
  BY <1>2, <1>4, <1>5, <1>6

\* A cancel or a resize of the local file changes nothing that was sent.
LEMMA EnvInv == ASSUME UploadInv, Cancel \/ LocalResize PROVE UploadInv'
<1> USE DEF UploadInv
<1>1. UNCHANGED <<pc, offset, inflight, applied, stored, progress>>
  BY DEF Cancel, LocalResize
<1>2. TileInv' /\ Acked' = Acked /\ Sent' = Sent
  BY <1>1, Frame
<1>3. /\ localLen' \in LocalSizes \cup {TotalSize} /\ shrunk' \in BOOLEAN /\ cancel' \in BOOLEAN
      /\ ~shrunk' => ~shrunk /\ localLen' >= TotalSize
  <2>1. CASE Cancel
    BY <2>1 DEF Cancel, UploadTypes, ShrunkInv
  <2>2. CASE LocalResize
    <3>1. PICK n \in LocalSizes \ {localLen} :
            localLen' = n /\ shrunk' = (shrunk \/ n < TotalSize)
      BY <2>2 DEF LocalResize
    <3>2. n \in Nat /\ TotalSize \in Nat
      BY UploadAssumption
    <3>3. cancel' \in BOOLEAN /\ shrunk \in BOOLEAN
      BY <2>2 DEF LocalResize, UploadTypes
    <3>4. shrunk' \in BOOLEAN
      BY <3>1, <3>3
    <3>5. ~shrunk' => ~shrunk /\ ~(n < TotalSize)
      BY <3>1, <3>3, Zenon
    <3>6. ~(n < TotalSize) => n >= TotalSize
      BY <3>2
    <3>7. ~shrunk' => ~shrunk /\ localLen' >= TotalSize
      BY <3>1, <3>5, <3>6, Zenon
    <3>8. QED
      BY <3>1, <3>3, <3>4, <3>7
  <2>3. QED
    BY <2>1, <2>2
<1>4. UploadTypes'
  BY <1>1, <1>3 DEF UploadTypes
<1>5. CountInv' /\ StoredInv'
  BY <1>1, <1>2 DEF CountInv, StoredInv
<1>6. ShrunkInv'
  BY <1>1, <1>3 DEF ShrunkInv
<1>7. QED
  BY <1>2, <1>4, <1>5, <1>6

\* The invariant is inductive.
LEMMA UploadStepInv == UploadInv /\ [UploadNext]_uploadVars => UploadInv'
<1> SUFFICES ASSUME UploadInv, [UploadNext]_uploadVars PROVE UploadInv'
  OBVIOUS
<1>1. CASE OpenTarget
  BY <1>1, OpenInv
<1>2. CASE Seed
  BY <1>2, SeedInv
<1>3. CASE Server
  BY <1>3, ServerWriteInv DEF Server
<1>4. ASSUME NEW p \in inflight, AckCancelled(p) PROVE UploadInv'
  BY <1>4, MoveInv DEF AckCancelled
<1>5. ASSUME NEW p \in inflight, AckError(p) PROVE UploadInv'
  BY <1>5, MoveInv DEF AckError
<1>6. CASE Respond
  BY <1>4, <1>5, <1>6, AckInv DEF Respond
<1>7. CASE Refill
  BY <1>7, RefillInv
<1>8. CASE Finish
  <2>1. ~shrunk => offset = TotalSize
    BY <1>8 DEF Finish, UploadInv, ShrunkInv
  <2>2. QED
    BY <1>8, <2>1, MoveInv DEF Finish
<1>9. CASE Cancel \/ LocalResize
  BY <1>9, EnvInv
<1>10. CASE UNCHANGED uploadVars
  <2>1. TileInv' /\ Acked' = Acked /\ Sent' = Sent
    BY <1>10, Frame DEF uploadVars, UploadInv
  <2>2. UploadTypes' /\ ShrunkInv'
    BY <1>10 DEF uploadVars, UploadInv, UploadTypes, ShrunkInv
  <2>3. CountInv' /\ StoredInv'
    BY <1>10, <2>1 DEF uploadVars, UploadInv, CountInv, StoredInv
  <2>4. QED
    BY <2>1, <2>2, <2>3 DEF UploadInv
<1>11. QED
  BY <1>1, <1>2, <1>3, <1>6, <1>7, <1>8, <1>9, <1>10 DEF UploadNext

-----------------------------------------------------------------------------
\* Every state of upload() satisfies the invariant: the writes in flight are
\* apart, progress has counted what is acknowledged, and the remote file is
\* what has been sent less what the server has not carried out yet.
THEOREM UploadInductiveInvariant == UploadSpec => []UploadInv
<1>1. QED
  BY UploadInitInv, UploadStepInv, PTL DEF UploadSpec

\* The variables of upload() keep their types; in particular no more than the
\* file's size is ever reported as progress.
THEOREM UploadTypeCorrect == UploadSpec => []UploadTypeOK
<1>1. UploadInv => UploadTypeOK
  <2> SUFFICES ASSUME UploadInv PROVE UploadTypeOK
    OBVIOUS
  <2>1. progress <= offset /\ progress \in Nat
    BY AckedFinite DEF UploadInv, CountInv
  <2>2. offset \in Nat /\ offset <= TotalSize /\ TotalSize \in Nat
    BY UploadAssumption DEF UploadInv, UploadTypes
  <2>3. progress \in 0 .. TotalSize
    BY <2>1, <2>2
  <2>4. QED
    BY <2>3 DEF UploadInv, UploadTypes, UploadTypeOK
<1>2. QED
  BY <1>1, UploadInductiveInvariant, PTL

\* An upload that returns Ok has stored every byte it read, once and without a
\* hole, has counted each of them, and has read the whole file unless it shrank.
THEOREM OkIsStored == UploadSpec => []OkMeansStored
<1>1. UploadInv => OkMeansStored
  <2> SUFFICES ASSUME UploadInv, pc = "ok"
               PROVE  /\ stored = 0 .. (offset - 1) /\ progress = offset
                      /\ ~shrunk => offset = TotalSize
    BY DEF OkMeansStored
  <2>1. inflight = {} /\ applied = {}
    BY DEF UploadInv, ShrunkInv, UploadTypes
  <2>2. Acked = 0 .. (offset - 1) /\ Sent = 0 .. (offset - 1)
    BY <2>1 DEF Acked, Sent
  <2>3. progress = offset
    BY <2>2, AckedFinite DEF UploadInv, CountInv
  <2>4. stored = 0 .. (offset - 1)
    BY <2>2 DEF UploadInv, StoredInv
  <2>5. ~shrunk => offset = TotalSize
    BY <2>1 DEF UploadInv, ShrunkInv
  <2>6. QED
    BY <2>3, <2>4, <2>5
<1>2. QED
  BY <1>1, UploadInductiveInvariant, PTL
=============================================================================
