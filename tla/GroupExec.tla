------------------------------- MODULE GroupExec -------------------------------
(***************************************************************************)
(* exec_multi() of src/ssh/mod.rs: one task for every bookmark, no more of *)
(* them past the semaphore than the limit, each a Login and then one exec  *)
(* channel that is read until EOF.  The main task waits for all of them.   *)
(* The connections in Mux are the sessions mux_open_shell() opens for the  *)
(* TUI meanwhile: they take no permit and stay up.                         *)
(***************************************************************************)
EXTENDS Login

CONSTANTS
  Limit,     \* --concurrency
  Codes      \* exit codes of the remote command

ASSUME GroupAssumption == Limit \in Nat \ {0} /\ Codes \subseteq Nat

VARIABLES
  permits,   \* permits of the semaphore
  chan,      \* chan[c]: [eof, code, sent] of the exec channel; sent is what the remote exits with
  result,    \* result[c]: exit code, "error", or None
  main       \* "waiting", "done": the loop over the join handles

gvars == <<permits, chan, result, main>>
vars  == <<lvars, gvars>>

Tasks == Conns \ Mux
Waiting(c) == At(c, "idle")
Over(c)    == At(c, "finished")
Running    == {c \in Tasks : ~Waiting(c) /\ ~Over(c)}

Init ==
  /\ LoginInit /\ permits = Limit /\ main = "waiting"
  /\ chan = [c \in Conns |-> [eof |-> FALSE, code |-> None, sent |-> None]]
  /\ result = [c \in Conns |-> None]

\* The task gets its permit and starts the login; a mux session needs none.
Acquire(c) ==
  /\ At(c, "idle") /\ c \in Tasks /\ permits > 0 /\ permits' = permits - 1
  /\ Goto(c, "keys") /\ UNCHANGED <<stores, shown, refused, blind, chan, result, main>>

MuxOpen(c) == /\ At(c, "idle") /\ c \in Mux /\ Goto(c, "keys")
              /\ UNCHANGED <<stores, shown, refused, blind, gvars>>

Connecting(c) == LoginStep(c) /\ UNCHANGED gvars

\* channel_open_session() and exec()
OpenExec(c) ==
  /\ At(c, "up") /\ c \in Tasks /\ (Goto(c, "exec") \/ Goto(c, "failed"))
  /\ UNCHANGED <<stores, shown, refused, blind, gvars>>

\* External: the command ends, and its exit status may come before or after EOF.
RemoteExits(c) == \E code \in Codes :
  /\ At(c, "exec") /\ chan[c].sent = None /\ chan' = [chan EXCEPT ![c].sent = code]
  /\ UNCHANGED <<lvars, permits, result, main>>

ExitStatus(c) ==
  /\ At(c, "exec") /\ ~chan[c].eof /\ chan[c].sent # None /\ chan[c].code = None
  /\ chan' = [chan EXCEPT ![c].code = chan[c].sent]
  /\ UNCHANGED <<lvars, permits, result, main>>

ExitSignal(c) ==
  /\ At(c, "exec") /\ ~chan[c].eof
  /\ chan' = [chan EXCEPT ![c].code = IF @ = None THEN 128 ELSE @, ![c].sent = 128]
  /\ chan[c].sent = None
  /\ UNCHANGED <<lvars, permits, result, main>>

\* EOF, close or the end of the channel leave the loop at once.
ChannelEof(c) ==
  /\ At(c, "exec") /\ ~chan[c].eof /\ chan' = [chan EXCEPT ![c].eof = TRUE]
  /\ UNCHANGED <<lvars, permits, result, main>>

\* MUTANT of Finish: a failed login returns without giving its permit back.
FinishVariant(c) ==
  /\ At(c, "failed") \/ (At(c, "exec") /\ chan[c].eof)
  /\ conn' = [conn EXCEPT ![c] = [Fresh EXCEPT !.pc = "finished"]]
  /\ shown' = [shown EXCEPT ![c] = NoKeys]
  /\ result' = [result EXCEPT ![c] = IF At(c, "failed") THEN "error"
                                     ELSE IF chan[c].code = None THEN 1 ELSE chan[c].code]
  /\ permits' = IF At(c, "failed") THEN permits ELSE permits + 1
  /\ UNCHANGED <<stores, refused, blind, chan, main>>

\* The result is printed, and the permit comes back as the task drops it.
Finish(c) ==
  /\ At(c, "failed") \/ (At(c, "exec") /\ chan[c].eof)
  /\ conn' = [conn EXCEPT ![c] = [Fresh EXCEPT !.pc = "finished"]]
  /\ shown' = [shown EXCEPT ![c] = NoKeys]
  /\ result' = [result EXCEPT ![c] = IF At(c, "failed") THEN "error"
                                     ELSE IF chan[c].code = None THEN 1 ELSE chan[c].code]
  /\ permits' = IF c \in Tasks THEN permits + 1 ELSE permits
  /\ UNCHANGED <<stores, refused, blind, chan, main>>

JoinAll ==
  /\ main = "waiting" /\ \A c \in Tasks : Over(c) /\ main' = "done"
  /\ UNCHANGED <<lvars, permits, chan, result>>

Returned == main = "done" /\ UNCHANGED vars

Task(c) == Acquire(c) \/ MuxOpen(c) \/ Connecting(c) \/ OpenExec(c) \/ ExitStatus(c)
             \/ ChannelEof(c) \/ Finish(c)
Other(c) == RemoteExits(c) \/ ExitSignal(c)
Someone  == (PasswordSet \/ PasswordRemove) /\ UNCHANGED gvars
Next == (\E c \in Conns : Task(c) \/ Other(c)) \/ Someone \/ JoinAll \/ Returned

(* A task that can go on does, servers and users answer in the end: without *)
(* that last assumption a server that accepts the connection and never      *)
(* answers a login holds its permit for ever, for only connecting has a     *)
(* timeout.                                                                 *)
Fairness == WF_vars(JoinAll) /\ \A c \in Conns : WF_vars(Task(c))

Spec == Init /\ [][Next]_vars /\ Fairness

----------------------------------------------------------------------------
\* Every host is answered for and exec_multi() returns.
AllHostsAnswer == <>(main = "done")
================================================================================
