------------------------------- MODULE RawSftp -------------------------------
(***************************************************************************)
(* One SFTP session (crates/russh-sftp/src/client: rawsession.rs, mod.rs,  *)
(* session.rs) as sshore uses it: callers that share the session put       *)
(* requests into a queue, a writer task sends them, a reader task hands    *)
(* each answer to the call registered under its id.  A "raw" session       *)
(* (sftp/pipeline.rs) is shared by the workers of a transfer pool and the  *)
(* heartbeat that pings the server (browser.rs); an "sftp" session has one *)
(* user, the SFTP shell or a browser pane.  Contents of files and          *)
(* directories are left out: a request is its operation, a handle is the   *)
(* number of the request that opened it.                                   *)
(***************************************************************************)
EXTENDS Naturals, Sequences, FiniteSets, Functions

CONSTANTS
  Workers,    \* workers of the pool
  Hb,         \* the heartbeat
  Main,       \* who sets the session up, and the user of an "sftp" session
  IdSpan,     \* ids are counted modulo IdSpan (2^32 in the code)
  MaxReqs,    \* bound: requests made in a run
  SrvLimit    \* handles the server keeps open at a time

ASSUME RawSftpAssumption ==
  /\ IdSpan \in Nat \ {0} /\ MaxReqs \in 1..IdSpan
  /\ SrvLimit \in Nat \ {0}
  /\ Hb # Main /\ {Hb, Main} \cap Workers = {} /\ IsFiniteSet(Workers)

Callers == Workers \cup {Hb, Main}
Ids == 0 .. (IdSpan - 1)
NoId == IdSpan                  \* the id of INIT and VERSION: None

VARIABLES
  kind,     \* "raw" or "sftp"
  phase,    \* "init", "limits", "up", or "gone": the session object is dropped
  limit,    \* limits.open_handles, 0 when there is none
  version,  \* SessionInner.version is set
  nextId,   \* next_req_id
  sent,     \* number of requests so far
  pending,  \* requests: id -> number of the request waiting for its answer
  call,     \* call[c]: c's call, see Idle
  held,     \* held[c]: the handle c works with, 0 if none
  handles,  \* the session's count of open handles
  queue,    \* the channel to the writer task
  reader,   \* the reader task runs
  writer,   \* the writer task runs: the channel is open
  asked,    \* requests the server has and has not answered
  answers,  \* answers the reader has not read
  open,     \* handles open at the server
  dead,     \* the heartbeat found the session dead
  dropped,  \* history: requests whose caller dropped the call
  expired,  \* history: requests that were not answered in time
  leaked    \* history: handles whose holder forgot them without a close

session == <<kind, phase, limit, version>>
tasks == <<reader, writer>>
server == <<asked, open>>
past == <<dropped, expired, leaked>>
vars == <<session, nextId, sent, pending, call, held, handles, queue, tasks, server,
          answers, dead, past>>

\* st: "idle", "waiting", "answered"; no: the request; from: the request the answer was made for.
Idle == [st |-> "idle", op |-> "none", no |-> 0, id |-> NoId, ans |-> "none", from |-> 0]

Init ==
  /\ kind \in {"raw", "sftp"}
  /\ phase = "init" /\ limit = 0 /\ version = FALSE
  /\ nextId = 1 /\ sent = 0
  /\ pending = << >> /\ call = [c \in Callers |-> Idle]
  /\ held = [c \in Callers |-> 0] /\ handles = 0
  /\ queue = << >> /\ reader = TRUE /\ writer = TRUE
  /\ asked = {} /\ answers = {} /\ open = {}
  /\ dead = FALSE /\ dropped = {} /\ expired = {} /\ leaked = {}

-----------------------------------------------------------------------------
(* send(): what every operation of the session does                        *)

Forget(p, id) == Restrict(p, DOMAIN p \ {id})

\* MUTANT of UseNextId: the counter is not advanced.
UseNextIdVariant == nextId' = nextId

\* use_next_id(): fetch_add on an AtomicU32.
UseNextId == nextId' = (nextId + 1) % IdSpan

\* The writer is about to end: it has cancelled, or its next message ends it.
WriterEnding == ~reader \/ (queue # << >> /\ Head(queue).op = "end")

\* is_closed() was false: an entry for the answer is made under the id and the
\* request put into the channel.  When the writer ends between the two, the
\* call fails and the entry stays.
Send(c, op) ==
  /\ call[c].st = "idle" /\ writer /\ sent < MaxReqs
  /\ sent' = sent + 1
  /\ IF op = "init" THEN UNCHANGED nextId ELSE UseNextId
  /\ LET id == IF op = "init" THEN NoId ELSE nextId
         new == [Idle EXCEPT !.op = op, !.no = sent', !.id = id]
     IN  /\ pending' = [i \in DOMAIN pending \cup {id} |-> IF i = id THEN sent' ELSE pending[i]]
         /\ \/ /\ call' = [call EXCEPT ![c] = [new EXCEPT !.st = "waiting"]]
               /\ queue' = Append(queue, [op |-> op, no |-> sent', id |-> id, h |-> held[c]])
               /\ UNCHANGED dropped
            \/ /\ WriterEnding
               /\ call' = [call EXCEPT ![c] = [new EXCEPT !.st = "answered", !.ans = "failed"]]
               /\ dropped' = dropped \cup {sent'}
               /\ UNCHANGED queue
  /\ UNCHANGED <<session, held, handles, tasks, server, answers, dead, expired, leaked>>

\* MUTANT of Timeout: only a live session's calls time out.
TimeoutVariant(c) ==
  /\ call[c].st = "waiting" /\ writer
  /\ call' = [call EXCEPT ![c].st = "answered", ![c].ans = "failed"]
  /\ pending' = Forget(pending, call[c].id)
  /\ expired' = expired \cup {call[c].no}
  /\ UNCHANGED <<session, nextId, sent, held, handles, queue, tasks, server, answers,
                 dead, dropped, leaked>>

\* No answer in time: the call fails and takes its entry away.
Timeout(c) ==
  /\ call[c].st = "waiting"
  /\ call' = [call EXCEPT ![c].st = "answered", ![c].ans = "failed"]
  /\ pending' = Forget(pending, call[c].id)
  /\ expired' = expired \cup {call[c].no}
  /\ UNCHANGED <<session, nextId, sent, held, handles, queue, tasks, server, answers,
                 dead, dropped, leaked>>

\* close_session(): an empty message ends the writer.
CloseSession == queue' = IF writer THEN Append(queue, [op |-> "end"]) ELSE queue

-----------------------------------------------------------------------------
(* The two tasks of run() and the server                                   *)

\* The writer sends the next message; an error of the stream loses it.  The
\* end message ends the task, and with it the reader.
Write ==
  /\ writer /\ queue # << >>
  /\ queue' = Tail(queue)
  /\ IF Head(queue).op = "end"
       THEN writer' = FALSE /\ UNCHANGED asked
       ELSE asked' \in {asked \cup {Head(queue)}, asked} /\ UNCHANGED writer
  /\ UNCHANGED <<session, nextId, sent, pending, call, held, handles, reader, answers,
                 open, dead, past>>

\* The other task ended and cancelled the token.  Requests still in the
\* channel are dropped with it.
Cancelled ==
  \/ /\ writer /\ ~reader
     /\ writer' = FALSE /\ queue' = << >>
     /\ UNCHANGED reader
  \/ /\ reader /\ ~writer
     /\ reader' = FALSE
     /\ UNCHANGED <<writer, queue>>

TaskEnds ==
  /\ Cancelled
  /\ UNCHANGED <<session, nextId, sent, pending, call, held, handles, server, answers,
                 dead, past>>

\* The connection is lost: the reader sees the end of the stream.
Eof ==
  /\ reader /\ reader' = FALSE
  /\ UNCHANGED <<session, nextId, sent, pending, call, held, handles, queue, writer, server,
                 answers, dead, past>>

\* The server takes its requests in any order.  It grants a handle while it
\* has one, and may fail any request; a close that fails frees its handle.
Serve(r) ==
  /\ r \in asked
  /\ asked' = asked \ {r}
  /\ \E ok \in BOOLEAN :
       /\ r.op = "init" => ok
       /\ r.op = "open" /\ ok => Cardinality(open) < SrvLimit
       /\ r.op = "close" /\ ok => r.h \in open
       /\ open' = CASE r.op = "open" /\ ok -> open \cup {r.no}
                    [] r.op = "close" -> open \ {r.h}
                    [] OTHER -> open
       /\ answers' = answers \cup {[id |-> r.id, no |-> r.no,
                                    ans |-> IF ok THEN "ok" ELSE "status"]}
  /\ UNCHANGED <<session, nextId, sent, pending, call, held, handles, queue, tasks, dead,
                 past>>

Waits(c, n) == call[c].st = "waiting" /\ call[c].no = n

\* MUTANT of Reply: the entry stays after the answer is handed over.
ReplyVariant(a) ==
  /\ reader /\ a \in answers /\ answers' = answers \ {a}
  /\ IF a.id \in DOMAIN pending
       THEN call' = [c \in Callers |-> IF Waits(c, pending[a.id])
                       THEN [call[c] EXCEPT !.st = "answered", !.ans = a.ans, !.from = a.no] ELSE call[c]]
       ELSE UNCHANGED call
  /\ version' = (version \/ (a.id = NoId /\ call' # call))
  /\ UNCHANGED <<kind, phase, limit, nextId, sent, pending, held, handles, queue, tasks,
                 server, dead, past>>

\* reply(): the entry under the answer's id is removed and its call gets the
\* answer; without an entry, or when nobody holds the receiver, the reader
\* warns and goes on.  (An answer with an id cannot come before the version:
\* requests with ids are only made after init().)
Reply(a) ==
  /\ reader /\ a \in answers /\ answers' = answers \ {a}
  /\ IF a.id \in DOMAIN pending
       THEN /\ call' = [c \in Callers |-> IF Waits(c, pending[a.id])
                          THEN [call[c] EXCEPT !.st = "answered", !.ans = a.ans, !.from = a.no] ELSE call[c]]
            /\ pending' = Forget(pending, a.id)
       ELSE UNCHANGED <<call, pending>>
  /\ version' = (version \/ (a.id = NoId /\ call' # call))
  /\ UNCHANGED <<kind, phase, limit, nextId, sent, held, handles, queue, tasks, server,
                 dead, past>>

\* A packet that does not parse is warned about and skipped.
Unparsable(a) ==
  /\ reader /\ a \in answers /\ answers' = answers \ {a}
  /\ UNCHANGED <<session, nextId, sent, pending, call, held, handles, queue, tasks, server,
                 dead, past>>

-----------------------------------------------------------------------------
(* Setting a session up                                                    *)

SetUp ==
  \/ phase = "init" /\ sent = 0 /\ Send(Main, "init")
  \/ phase = "limits" /\ call[Main].st = "idle" /\ Send(Main, "limits")

\* The session object is dropped; its Drop closes the session.
Abandon == phase' = "gone" /\ CloseSession

\* create_raw_session() goes on without limits when the request for them fails.
WithoutLimits == phase = "limits" /\ call[Main].ans # "ok" /\ kind = "raw"

\* The version is there, or the limits, or the session cannot be set up.  The
\* limits are only asked for when the server announces them.
SetUpReturns ==
  /\ phase \in {"init", "limits"} /\ call[Main].st = "answered"
  /\ call' = [call EXCEPT ![Main] = Idle]
  /\ CASE phase = "init" /\ call[Main].ans = "ok" ->
            phase' \in {"limits", "up"} /\ UNCHANGED <<limit, queue>>
       [] phase = "limits" /\ call[Main].ans = "ok" ->
            phase' = "up" /\ limit' \in {0, SrvLimit} /\ UNCHANGED queue
       [] WithoutLimits -> phase' = "up" /\ UNCHANGED <<limit, queue>>
       [] OTHER -> Abandon /\ UNCHANGED limit
  /\ UNCHANGED <<kind, version, nextId, sent, pending, held, handles, tasks, server, answers,
                 dead, past>>

\* The user is done with the session and drops it.
Leave ==
  /\ phase = "up" /\ \A c \in Callers : call[c].st = "idle"
  /\ Abandon
  /\ UNCHANGED <<kind, limit, version, nextId, sent, pending, call, held, handles, tasks,
                 server, answers, dead, past>>

-----------------------------------------------------------------------------
(* The operations                                                          *)

Users == IF kind = "raw" THEN Workers ELSE {Main}

\* open() and opendir() are refused at the limit, which counts handles whose
\* answer has arrived.
UnderLimit == limit # 0 => handles < limit

Free(c) == c \in Users /\ phase = "up" /\ held[c] = 0 /\ ~dead
Holds(c) == c \in Users /\ phase = "up" /\ held[c] # 0 /\ ~dead

Open(c) == kind = "raw" /\ Free(c) /\ UnderLimit /\ Send(c, "open")

OpenDir(c) == kind = "sftp" /\ Free(c) /\ UnderLimit /\ Send(c, "open")

ReadWrite(c) == kind = "raw" /\ Holds(c) /\ Send(c, "data")

ReadDir(c) == kind = "sftp" /\ Holds(c) /\ Send(c, "data")

\* remove(), mkdir(), rmdir(), realpath(), stat(), rename() and the others that
\* name a path differ in what they ask for; their calls end alike.
Ask(c) == Free(c) /\ Send(c, "status")

\* close_handle() and close(): not on a session known to be closed.
Close(c) ==
  c \in Users /\ phase = "up" /\ held[c] # 0 /\ Send(c, "close")

\* close_handle() on a closed session: the handle is forgotten.
SkipClose(c) ==
  /\ c \in Users /\ held[c] # 0 /\ call[c].st = "idle" /\ ~writer
  /\ held' = [held EXCEPT ![c] = 0]
  /\ leaked' = leaked \cup {held[c]}
  /\ UNCHANGED <<session, nextId, sent, pending, call, handles, queue, tasks, server, answers,
                 dead, dropped, expired>>

Opened(c) == call[c].op = "open" /\ call[c].ans = "ok"
Closed(c) == call[c].op = "close" /\ call[c].ans = "ok"

\* read_dir() returns at the first error that is not the end of the listing,
\* without closing the directory.
ListFails(c) == kind = "sftp" /\ call[c].op = "data" /\ call[c].ans # "ok"

\* MUTANT of Returns: a handle stays counted when it is closed.
ReturnsVariant(c) ==
  /\ phase = "up" /\ call[c].st = "answered"
  /\ call' = [call EXCEPT ![c] = Idle]
  /\ handles' = IF Opened(c) THEN handles + 1 ELSE handles
  /\ \/ /\ Opened(c) /\ held' = [held EXCEPT ![c] = call[c].no] /\ UNCHANGED leaked
     \/ /\ call[c].op = "close" \/ ListFails(c)
        /\ held' = [held EXCEPT ![c] = 0]
        /\ leaked' = IF Closed(c) THEN leaked ELSE leaked \cup {held[c]}
     \/ /\ ~Opened(c) /\ call[c].op # "close"
        /\ ListFails(c) => call[c].ans = "status"
        /\ UNCHANGED <<held, leaked>>
  /\ UNCHANGED <<session, nextId, sent, pending, queue, tasks, server, answers, dead,
                 dropped, expired>>

\* What the operation does with its answer.  A close is not repeated: after it
\* the handle is forgotten, whatever the answer.  At an error of a listing the
\* end and a failure are both "status".
Returns(c) ==
  /\ phase = "up" /\ call[c].st = "answered"
  /\ call' = [call EXCEPT ![c] = Idle]
  /\ handles' = IF Opened(c) THEN handles + 1
                ELSE IF Closed(c) /\ handles > 0 THEN handles - 1 ELSE handles
  /\ \/ /\ Opened(c) /\ held' = [held EXCEPT ![c] = call[c].no] /\ UNCHANGED leaked
     \/ /\ call[c].op = "close" \/ ListFails(c)
        /\ held' = [held EXCEPT ![c] = 0]
        /\ leaked' = IF Closed(c) THEN leaked ELSE leaked \cup {held[c]}
     \/ /\ ~Opened(c) /\ call[c].op # "close"
        /\ ListFails(c) => call[c].ans = "status"
        /\ UNCHANGED <<held, leaked>>
  /\ UNCHANGED <<session, nextId, sent, pending, queue, tasks, server, answers, dead,
                 dropped, expired>>

\* A worker that cancels drops the reads and writes it has in flight: their
\* entries stay until the answer comes.
Drop(c) ==
  /\ c \in Workers /\ call[c].op = "data" /\ call[c].st \in {"waiting", "answered"}
  /\ call' = [call EXCEPT ![c] = Idle]
  /\ dropped' = dropped \cup {call[c].no}
  /\ UNCHANGED <<session, nextId, sent, pending, held, handles, queue, tasks, server, answers,
                 dead, expired, leaked>>

-----------------------------------------------------------------------------
(* The heartbeat of a pool's session                                       *)

Ping == kind = "raw" /\ phase = "up" /\ ~dead /\ Send(Hb, "status")

\* Before a ping: the session is closed.
SeesClosed ==
  /\ kind = "raw" /\ phase = "up" /\ ~dead /\ ~writer /\ call[Hb].st = "idle"
  /\ dead' = TRUE
  /\ UNCHANGED <<session, nextId, sent, pending, call, held, handles, queue, tasks, server,
                 answers, past>>

\* The ping has its own, shorter, time limit: its call is dropped and the
\* session closed.
PingTimesOut ==
  /\ call[Hb].st = "waiting"
  /\ call' = [call EXCEPT ![Hb] = Idle]
  /\ dropped' = dropped \cup {call[Hb].no}
  /\ CloseSession
  /\ dead' = TRUE
  /\ UNCHANGED <<session, nextId, sent, pending, held, handles, tasks, server, answers,
                 expired, leaked>>

-----------------------------------------------------------------------------
ReaderStep == TaskEnds \/ \E a \in answers : Reply(a) \/ Unparsable(a)
CallerStep(c) ==
  Open(c) \/ OpenDir(c) \/ ReadWrite(c) \/ ReadDir(c) \/ Ask(c) \/ Close(c) \/ SkipClose(c) \/ Returns(c) \/ Drop(c)

Next ==
  \/ SetUp \/ SetUpReturns \/ Leave
  \/ \E c \in Callers : CallerStep(c) \/ (c # Hb /\ Timeout(c))
  \/ Ping \/ SeesClosed \/ PingTimesOut
  \/ Write \/ Eof \/ ReaderStep \/ \E r \in asked : Serve(r)

Spec == Init /\ [][Next]_vars

\* The tasks run, callers take their answers, timers fire.  Nothing is assumed
\* of the server, nor that anybody makes a request.
Fairness ==
  /\ WF_vars(Write) /\ WF_vars(ReaderStep) /\ WF_vars(SetUpReturns)
  /\ WF_vars(SeesClosed) /\ WF_vars(PingTimesOut)
  /\ \A c \in Callers : WF_vars(Returns(c))

\* A request's own time limit (60 s; 10 s on an "sftp" session).
Timers == \A c \in Callers \ {Hb} : WF_vars(Timeout(c))

FairSpec == Spec /\ Fairness /\ Timers

-----------------------------------------------------------------------------
Nos == 1 .. MaxReqs

\* Types of the session's, the tasks' and the server's state.
TypeOK ==
  /\ kind \in {"raw", "sftp"} /\ phase \in {"init", "limits", "up", "gone"}
  /\ limit \in {0, SrvLimit} /\ version \in BOOLEAN
  /\ nextId \in Ids /\ sent \in 0 .. MaxReqs
  /\ DOMAIN pending \subseteq Ids \cup {NoId} /\ Range(pending) \subseteq Nos
  /\ \A c \in Callers : /\ call[c].st \in {"idle", "waiting", "answered"}
                       /\ call[c].no \in 0 .. MaxReqs /\ call[c].id \in Ids \cup {NoId}
  /\ held \in [Callers -> 0 .. MaxReqs] /\ handles \in 0 .. MaxReqs
  /\ reader \in BOOLEAN /\ writer \in BOOLEAN /\ dead \in BOOLEAN
  /\ open \subseteq Nos /\ Cardinality(open) <= SrvLimit
  /\ dropped \cup expired \cup leaked \subseteq Nos
  /\ phase = "up" => version

\* Calls share one map and one counter, and requests are abandoned while their
\* answers are on the way: an answer a call returns was made for its request.
AnswersItsRequest ==
  \A c \in Callers : call[c].st = "answered" /\ call[c].ans # "failed" =>
     call[c].from = call[c].no

\* Every waiting call can be reached under its id, and what else is in the map
\* belongs to calls that were dropped: a request that timed out leaves nothing.
PendingExact ==
  /\ \A c \in Callers : call[c].st = "waiting" =>
        call[c].id \in DOMAIN pending /\ pending[call[c].id] = call[c].no
  /\ \A id \in DOMAIN pending :
        \/ pending[id] \in dropped
        \/ \E c \in Callers : call[c].no = pending[id] /\ call[c].st = "waiting"

Known(h) == \E c \in Callers : held[c] = h \/ (call[c].no = h /\ call[c].op = "open")

\* A handle the server keeps open is known to a caller, or to nobody because
\* its open or its close was not answered in time or a listing failed; and the
\* count that refuses further opens is off by exactly the handles that were
\* forgotten without an acknowledged close.
HandlesAccounted ==
  /\ \A h \in open : Known(h) \/ h \in expired \cup dropped \cup leaked
  /\ handles = Cardinality({c \in Callers : held[c] # 0}) + Cardinality(leaked)

\* No call waits for ever: not for a server that never answers, not for a
\* session whose connection is lost or that is closed under it.
CallsReturn == \A c \in Callers : call[c].st = "waiting" ~> call[c].st # "waiting"

=============================================================================
