----------------------------- MODULE TunnelDaemon -----------------------------
(***************************************************************************)
(* sshore tunnel start / stop / status (src/ssh/tunnel.rs, src/main.rs):   *)
(* tunnel processes, each with its forwards and its entry in the shared    *)
(* state file tunnels.json, and the commands that read and rewrite that    *)
(* file.  The file is replaced atomically but nothing locks it between the *)
(* load and the save of an update, so the two are separate steps.          *)
(*                                                                         *)
(* SIGTERM and SIGHUP are caught from startup by install_signal_handlers() *)
(* and only noticed by a tunnel while it is in wait_for_termination_signal *)
(* (here in "serve" and "sleep").  SIGINT before the first such wait is a  *)
(* Crash, afterwards it is like SIGTERM.                                   *)
(***************************************************************************)
EXTENDS Integers, FiniteSets

CONSTANTS
  Procs,       \* tunnel processes, named by their pid
  Persistent,  \* the ones started with --persist
  Bookmarks,
  Of,          \* Of[p]: bookmark of p
  Ports,       \* Ports[p]: local ports p forwards
  Cmds,        \* stop and status commands
  MaxDelay,    \* RECONNECT_MAX_DELAY_SECS
  MaxCount,    \* bound on the reconnect counter
  MaxFaults,   \* bound on failures of network and disk
  Kills,       \* TRUE: processes crash and their pids are reused
  NoEntry, NoBuf

\* What tunnels.json can hold.
Entries == [pid : Procs, status : {"connected", "reconnecting"}, count : 0..MaxCount]
Files   == [Bookmarks -> Entries \cup {NoEntry}]

ASSUME TunnelAssumption ==
  /\ Persistent \subseteq Procs
  /\ Of \in [Procs -> Bookmarks]
  /\ MaxDelay \in Nat \ {0} /\ MaxCount \in Nat /\ MaxFaults \in Nat
  /\ Kills \in BOOLEAN
  /\ NoEntry \notin Procs \cup Entries

VARIABLES
  pc,        \* pc[p]: where the tunnel process is
  file,      \* tunnels.json: file[b] is b's entry, [pid, status, count]
  buf,       \* buf[p]: what p has loaded and not saved
  count,     \* reconnect_count of run_daemon_loop()
  delay,     \* delay_secs
  bound,     \* bound[p]: ports of the running listener tasks
  closing,   \* closing[p]: ports of listener tasks told to end
  sig,       \* processes with a signal their wait has not returned yet
  cmd,       \* cmd[c]: [pc, bm, pid, buf]
  strangers, \* pids that belong to an unrelated process now
  drift,     \* pids whose process ps does not show to have started within 120 s
             \* of the started_at registered under them
  faults,    \* failures so far
  raced,     \* history: tunnels that registered while another update was under way
  refused    \* history: live tunnels that a stop took for another process

local == <<count, delay>>
ports == <<bound, closing>>
marks == <<drift, raced, refused>>
vars  == <<pc, file, buf, local, ports, sig, cmd, strangers, marks, faults>>

Updating == {"register", "mark", "retry", "unregister"}
Gone     == {"new", "exited", "killed"}
Idle     == [pc |-> "idle", bm |-> NoEntry, pid |-> NoEntry, buf |-> NoBuf]
MinOf(a, b) == IF a <= b THEN a ELSE b

Init ==
  /\ pc = [p \in Procs |-> "new"]
  /\ file = [b \in Bookmarks |-> NoEntry]
  /\ buf = [p \in Procs |-> NoBuf]
  /\ count = [p \in Procs |-> 0]
  /\ delay = [p \in Procs |-> 1]
  /\ bound = [p \in Procs |-> {}]
  /\ closing = [p \in Procs |-> {}]
  /\ sig = {}
  /\ cmd = [c \in Cmds |-> Idle]
  /\ strangers = {} /\ drift = {} /\ raced = {} /\ refused = {}
  /\ faults = 0

\* is_process_alive(): some process has the pid.
IsProcessAlive(p) == pc[p] \notin Gone \/ p \in strangers

\* pid_matches_tunnel_entry(): the process that has the pid started near the
\* time in the entry.  Another process can have, and the tunnel need not: its
\* started_at is taken after a login of any length, and ps may be missing, speak
\* another language or name an hour that comes twice.
PidMatches(p) == IsProcessAlive(p) /\ p \notin drift
StartsNear(p) == drift' \in {drift \ {p}, drift \cup {p}}

\* An update of the state file by anyone else is under way.
UpdatingBeside(p) ==
  (\E q \in Procs \ {p} : buf[q] # NoBuf) \/ \E c \in Cmds : cmd[c].pc # "idle"
Taken(x)  == \E q \in Procs : x \in bound[q] \cup closing[q]
Fault     == faults < MaxFaults /\ faults' = faults + 1

\* The process ends: the system closes its sockets.
Exit(p, how) ==
  /\ pc' = [pc EXCEPT ![p] = how]
  /\ buf' = [buf EXCEPT ![p] = NoBuf]
  /\ bound' = [bound EXCEPT ![p] = {}]
  /\ closing' = [closing EXCEPT ![p] = {}]
  /\ sig' = sig \ {p}
  /\ drift' = drift \ {p} /\ raced' = raced \ {p} /\ refused' = refused \ {p}

Goto(p, where) == pc' = [pc EXCEPT ![p] = where] /\ UNCHANGED buf

-----------------------------------------------------------------------------
(* Load-modify-save of the state file                                      *)

Without(f, b) == [f EXCEPT ![b] = NoEntry]

\* register_tunnel, update_tunnel_status and unregister_tunnel find the entry
\* by its bookmark alone.
Apply(p, f) ==
  LET b == Of[p]
  IN CASE pc[p] = "register" ->
            [f EXCEPT ![b] = [pid |-> p, status |-> "connected", count |-> 0]]
       [] pc[p] = "mark" /\ f[b] # NoEntry ->
            [f EXCEPT ![b].status = "connected", ![b].count = 0]
       [] pc[p] = "retry" /\ f[b] # NoEntry ->
            [f EXCEPT ![b].status = "reconnecting", ![b].count = count[p]]
       [] pc[p] = "unregister" -> Without(f, b)
       [] OTHER -> f

Saved(p) ==
  CASE pc[p] = "register" -> IF p \in Persistent THEN "connect" ELSE "serve"
    [] pc[p] = "mark" -> "bind"
    [] pc[p] = "retry" -> "sleep"
    [] OTHER -> "exited"

Load(p) ==
  /\ pc[p] \in Updating /\ buf[p] = NoBuf
  /\ buf' = [buf EXCEPT ![p] = file]
  /\ UNCHANGED <<pc, file, local, ports, sig, cmd, strangers, marks, faults>>

Save(p) ==
  /\ buf[p] # NoBuf
  /\ file' = Apply(p, buf[p])
  /\ IF Saved(p) = "exited"
       THEN Exit(p, "exited")
       ELSE /\ pc' = [pc EXCEPT ![p] = Saved(p)]
            /\ buf' = [buf EXCEPT ![p] = NoBuf]
            /\ raced' = IF pc[p] = "register" /\ UpdatingBeside(p) THEN raced \cup {p} ELSE raced
            /\ UNCHANGED <<ports, sig, drift, refused>>
  /\ UNCHANGED <<local, cmd, strangers, faults>>

\* The file cannot be written, or is replaced but not synced to disk.  A status update ignores that, register and
\* unregister end the process with an error.
SaveFails(p) ==
  /\ buf[p] # NoBuf /\ Fault
  /\ file' \in {file, Apply(p, buf[p])}
  /\ IF pc[p] \in {"register", "unregister"}
       THEN Exit(p, "exited")
       ELSE /\ pc' = [pc EXCEPT ![p] = Saved(p)]
            /\ buf' = [buf EXCEPT ![p] = NoBuf]
            /\ UNCHANGED <<ports, sig, marks>>
  /\ UNCHANGED <<local, cmd, strangers>>

-----------------------------------------------------------------------------
(* run_daemon_loop() with run_single_session(), and run_foreground()       *)

Start(p) ==
  /\ pc[p] = "new"
  /\ Goto(p, IF p \in Persistent THEN "register" ELSE "connect")
  /\ IF p \in Persistent THEN StartsNear(p) ELSE UNCHANGED drift
  /\ UNCHANGED <<file, local, ports, sig, cmd, strangers, raced, refused, faults>>

Connected(p) ==
  /\ pc[p] = "connect"
  /\ Goto(p, IF p \in Persistent THEN "mark" ELSE "bind")
  /\ UNCHANGED <<file, local, ports, sig, cmd, strangers, marks, faults>>

\* An error of a session.  Its listener tasks lose their shutdown sender and
\* end; a persistent tunnel goes on, a foreground one ends.
Failed(p) ==
  IF p \in Persistent
    THEN /\ Goto(p, "retry")
         /\ count' = [count EXCEPT ![p] = MinOf(@ + 1, MaxCount)]
         /\ bound' = [bound EXCEPT ![p] = {}]
         /\ closing' = [closing EXCEPT ![p] = @ \cup bound[p]]
         /\ UNCHANGED <<sig, marks>>
    ELSE Exit(p, "exited") /\ UNCHANGED count

ConnectFails(p) ==
  /\ pc[p] = "connect" /\ Fault
  /\ Failed(p)
  /\ UNCHANGED <<file, delay, cmd, strangers>>

\* One local forward: its listener is bound.
Bind(p, x) ==
  /\ pc[p] = "bind" /\ x \in Ports[p] \ bound[p] /\ ~Taken(x)
  /\ bound' = [bound EXCEPT ![p] = @ \cup {x}]
  /\ UNCHANGED <<pc, file, buf, local, closing, sig, cmd, strangers, marks, faults>>

\* A port is taken, or a remote forward or the keepalive channel is refused.
ForwardFails(p) ==
  /\ pc[p] = "bind"
  /\ Fault \/ (UNCHANGED faults /\ \E x \in Ports[p] \ bound[p] : Taken(x))
  /\ Failed(p)
  /\ UNCHANGED <<file, delay, cmd, strangers>>

\* MUTANT of ReleaseListener: the tasks end only with the process.
ReleaseAtExit(p) ==
  /\ pc[p] \in Gone /\ closing[p] # {}
  /\ closing' = [closing EXCEPT ![p] = {}]
  /\ UNCHANGED <<pc, file, buf, local, bound, sig, cmd, strangers, marks, faults>>

\* The tasks see the dropped sender and close their listeners.
ReleaseListener(p) ==
  /\ closing[p] # {}
  /\ closing' = [closing EXCEPT ![p] = {}]
  /\ UNCHANGED <<pc, file, buf, local, bound, sig, cmd, strangers, marks, faults>>

ForwardsUp(p) ==
  /\ pc[p] = "bind" /\ bound[p] = Ports[p]
  /\ Goto(p, IF p \in Persistent THEN "serve" ELSE "register")
  /\ IF p \in Persistent THEN UNCHANGED drift ELSE StartsNear(p)
  /\ UNCHANGED <<file, local, ports, sig, cmd, strangers, raced, refused, faults>>

\* The keepalive channel of a persistent tunnel closes; the listeners are
\* stopped and awaited.  A signal that arrived with it is dropped.
SessionCloses(p) ==
  /\ pc[p] = "serve" /\ p \in Persistent /\ Fault
  /\ Goto(p, "retry")
  /\ count' = [count EXCEPT ![p] = MinOf(@ + 1, MaxCount)]
  /\ bound' = [bound EXCEPT ![p] = {}]
  /\ sig' = sig \ {p}
  /\ UNCHANGED <<file, delay, closing, cmd, strangers, marks>>

\* The delay is over, or is found over before the signal is.
WakeUp(p) ==
  /\ pc[p] = "sleep"
  /\ Goto(p, "connect")
  /\ delay' = [delay EXCEPT ![p] = MinOf(2 * @, MaxDelay)]
  /\ sig' = sig \ {p}
  /\ UNCHANGED <<file, count, ports, cmd, strangers, marks, faults>>

\* wait_for_termination_signal() returns.
TakeSignal(p) ==
  /\ p \in sig
  /\ Goto(p, "unregister")
  /\ bound' = [bound EXCEPT ![p] = {}]
  /\ sig' = sig \ {p}
  /\ UNCHANGED <<file, local, closing, cmd, strangers, marks, faults>>

\* SIGTERM or SIGHUP reaches p: only a process that waits for it notices.
Signal(p) == sig' = IF pc[p] \in {"serve", "sleep"} THEN sig \cup {p} ELSE sig

\* The terminal is closed, or Ctrl+C is pressed.
Hangup(p) ==
  /\ pc[p] \notin Gone
  /\ Signal(p)
  /\ UNCHANGED <<pc, file, buf, local, ports, cmd, strangers, marks, faults>>

Crash(p) ==
  /\ Kills /\ pc[p] \notin Gone
  /\ Exit(p, "killed")
  /\ UNCHANGED <<file, local, cmd, strangers, faults>>

\* Another process gets the pid of a dead tunnel.
ReusePid(p) ==
  /\ Kills /\ pc[p] \in {"exited", "killed"} /\ p \notin strangers
  /\ strangers' = strangers \cup {p} /\ StartsNear(p)
  /\ UNCHANGED <<pc, file, buf, local, ports, sig, cmd, raced, refused, faults>>

-----------------------------------------------------------------------------
(* cmd_tunnel_stop() and cmd_tunnel_status()                               *)

CleanupStale(f) ==
  [b \in Bookmarks |-> IF f[b] # NoEntry /\ IsProcessAlive(f[b].pid) THEN f[b] ELSE NoEntry]

StopLoad(c, b) ==
  LET state == CleanupStale(file)
  IN /\ cmd[c].pc = "idle" /\ state[b] # NoEntry
     /\ cmd' = [cmd EXCEPT ![c] = [pc |-> "check", bm |-> b, pid |-> state[b].pid, buf |-> state]]
     /\ UNCHANGED <<pc, file, buf, local, ports, sig, strangers, marks, faults>>

\* "Refusing to kill": the entry of a process that does not match is removed.
StopCheck(c) ==
  LET p == cmd[c].pid
  IN /\ cmd[c].pc = "check"
     /\ cmd' = [cmd EXCEPT ![c].pc = IF PidMatches(p) THEN "kill" ELSE "save"]
     /\ refused' = IF PidMatches(p) \/ pc[p] \in Gone THEN refused ELSE refused \cup {p}
     /\ UNCHANGED <<pc, file, buf, local, ports, sig, strangers, drift, raced, faults>>

\* SIGTERM is sent to whatever process has the pid by then.
StopKill(c) ==
  /\ cmd[c].pc = "kill"
  /\ Signal(cmd[c].pid)
  /\ cmd' = [cmd EXCEPT ![c].pc = "wait"]
  /\ UNCHANGED <<pc, file, buf, local, ports, strangers, marks, faults>>

\* MUTANT of StopWait: the entry goes once the signal is sent.
StopWaitNot(c) ==
  /\ cmd[c].pc = "wait"
  /\ cmd' = [cmd EXCEPT ![c].pc = "save"]
  /\ UNCHANGED <<pc, file, buf, local, ports, sig, strangers, marks, faults>>

\* Two seconds of polling, or one look when nothing was signalled; a process
\* that stays keeps its entry.
StopWait(c) ==
  /\ cmd[c].pc = "wait"
  /\ cmd' = [cmd EXCEPT ![c] = IF IsProcessAlive(cmd[c].pid) THEN Idle ELSE [@ EXCEPT !.pc = "save"]]
  /\ UNCHANGED <<pc, file, buf, local, ports, sig, strangers, marks, faults>>

StopSave(c) ==
  /\ cmd[c].pc = "save"
  /\ file' = Without(cmd[c].buf, cmd[c].bm)
  /\ cmd' = [cmd EXCEPT ![c] = Idle]
  /\ UNCHANGED <<pc, buf, local, ports, sig, strangers, marks, faults>>

StatusLoad(c) ==
  /\ cmd[c].pc = "idle"
  /\ cmd' = [cmd EXCEPT ![c].pc = "status", ![c].buf = CleanupStale(file)]
  /\ UNCHANGED <<pc, file, buf, local, ports, sig, strangers, marks, faults>>

StatusSave(c) ==
  /\ cmd[c].pc = "status"
  /\ file' = cmd[c].buf
  /\ cmd' = [cmd EXCEPT ![c] = Idle]
  /\ UNCHANGED <<pc, buf, local, ports, sig, strangers, marks, faults>>

-----------------------------------------------------------------------------
ProcStep(p) ==
  \/ Load(p) \/ Save(p) \/ SaveFails(p)
  \/ Connected(p) \/ ConnectFails(p)
  \/ \E x \in Ports[p] : Bind(p, x)
  \/ ForwardFails(p) \/ ForwardsUp(p)
  \/ SessionCloses(p) \/ WakeUp(p) \/ TakeSignal(p)

CmdStep(c) ==
  \/ \E b \in Bookmarks : StopLoad(c, b)
  \/ StopCheck(c) \/ StopKill(c) \/ StopWait(c) \/ StopSave(c)
  \/ StatusLoad(c) \/ StatusSave(c)

Next ==
  \/ \E p \in Procs : Start(p) \/ ProcStep(p) \/ ReleaseListener(p)
  \/ \E p \in Procs : Hangup(p) \/ Crash(p) \/ ReusePid(p)
  \/ \E c \in Cmds : CmdStep(c)

\* A tunnel process keeps running: requests end with an answer or a timeout,
\* delays expire and told listener tasks are scheduled.
Fairness == \A p \in Procs : WF_vars(ProcStep(p)) /\ WF_vars(ReleaseListener(p))

Spec     == Init /\ [][Next]_vars
FairSpec == Spec /\ Fairness

-----------------------------------------------------------------------------
\* Types of the state file, of the processes and of the commands.
TypeOK ==
  /\ pc \in [Procs -> Updating \cup Gone \cup {"connect", "bind", "serve", "sleep"}]
  /\ file \in Files
  /\ \A p \in Procs :
       /\ buf[p] = NoBuf \/ buf[p] \in Files
       /\ count[p] \in 0..MaxCount /\ delay[p] \in 1..MaxDelay
       /\ bound[p] \subseteq Ports[p] /\ closing[p] \subseteq Ports[p]
  /\ sig \subseteq {p \in Procs : pc[p] \in {"serve", "sleep"}}
  /\ \A c \in Cmds : cmd[c].pc \in {"idle", "check", "kill", "wait", "save", "status"}
  /\ strangers \subseteq {p \in Procs : pc[p] \in Gone}
  /\ drift \subseteq Procs /\ refused \cup raced \subseteq Procs
  /\ faults \in 0..MaxFaults

\* A tunnel was also started for the bookmark of p.
Twin(p) == \E q \in Procs \ {p} : Of[q] = Of[p] /\ pc[q] # "new"

\* "Top-level state file holding all active tunnels": a tunnel that serves is
\* in tunnels.json under its own pid, so that stop and status can reach it,
\* however updates, stops and deaths interleave.  Only three things lose it: its
\* registration overlapped another update, a stop did not recognise its start
\* time, or its bookmark has a second tunnel.
AllListed ==
  \A p \in Procs :
    pc[p] = "serve" /\ p \notin raced \cup refused /\ ~Twin(p) =>
      file[Of[p]] # NoEntry /\ file[Of[p]].pid = p

\* "persistent tunnels with auto-reconnect on disconnect": once failures
\* cease, a persistent tunnel serves again unless it is stopped or another
\* tunnel has taken one of its ports; its own listeners never stand in its way.
Reconnects ==
  \A p \in Persistent :
    pc[p] = "retry" ~>
      \/ pc[p] \in {"serve", "unregister"} \cup Gone
      \/ \E q \in Procs \ {p} : Ports[p] \cap bound[q] # {}
=============================================================================
