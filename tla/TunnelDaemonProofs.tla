-------------------------- MODULE TunnelDaemonProofs --------------------------
(***************************************************************************)
(* Proofs about TunnelDaemon, for every set of tunnels, commands, ports    *)
(* and faults.                                                             *)
(***************************************************************************)
EXTENDS TunnelDaemon, TLAPS

Dead == {"exited", "killed"}
PCs  == Updating \cup Gone \cup {"connect", "bind", "serve", "sleep"}
Stopping  == {"check", "kill", "wait", "save"}
CmdRecord == [pc : Stopping \cup {"idle", "status"},
              bm : Bookmarks \cup {NoEntry}, pid : Procs \cup {NoEntry},
              buf : Files \cup {NoBuf}]

Types ==
  /\ pc \in [Procs -> PCs]
  /\ file \in Files
  /\ buf \in [Procs -> Files \cup {NoBuf}]
  /\ count \in [Procs -> 0 .. MaxCount]
  /\ cmd \in [Cmds -> CmdRecord]

\* Signals are pending only where they are waited for; a pid is given out again
\* only after its tunnel is dead; an update is under way only where one belongs.
SigInv ==
  /\ \A p \in sig : p \in Procs /\ pc[p] \in {"serve", "sleep"}
  /\ \A p \in strangers : p \in Procs /\ pc[p] \in Dead
  /\ \A p \in Procs : buf[p] # NoBuf => pc[p] \in Updating
  /\ \A c \in Cmds : cmd[c].pc # "idle" => cmd[c].buf \in Files
  /\ \A c \in Cmds : cmd[c].pc \in Stopping => cmd[c].bm \in Bookmarks /\ cmd[c].pid \in Procs

-----------------------------------------------------------------------------
\* Tunnels that have registered and not unregistered, and those of them that
\* none of the three exceptions of AllListed is about.
At(where) == where \in {"mark", "retry", "sleep", "serve", "unregister"}
Listed == {p \in Procs : At(pc[p]) \/ (p \in Persistent /\ pc[p] \in {"connect", "bind"})}
Kept   == {p \in Listed : p \notin raced /\ p \notin refused /\ ~Twin(p)}

Lists(f, p)  == f[Of[p]] # NoEntry /\ f[Of[p]].pid = p
Covers(f, L) == \A p \in L : Lists(f, p)

\* Every copy of the state file that may still be saved lists every tunnel that
\* is to be kept; a stop removes the entry of another one.
KeptInv ==
  /\ Covers(file, Kept)
  /\ \A q \in Procs : buf[q] # NoBuf => Covers(buf[q], Kept)
  /\ \A c \in Cmds : cmd[c].pc # "idle" => Covers(cmd[c].buf, Kept)
  /\ \A c \in Cmds : cmd[c].pc \in Stopping =>
       /\ cmd[c].buf[cmd[c].bm] # NoEntry /\ cmd[c].buf[cmd[c].bm].pid = cmd[c].pid
       /\ cmd[c].pc = "save" => cmd[c].pid \notin Kept

IInv == Types /\ SigInv /\ KeptInv

-----------------------------------------------------------------------------
\* An entry is not the absence of one.
LEMMA EntryFacts == \A e \in Entries : e # NoEntry
  BY TunnelAssumption DEF Entries

\* At first no tunnel is registered and nothing is listed.
LEMMA InitInv == Init => IInv
<1> SUFFICES ASSUME Init PROVE IInv
  OBVIOUS
<1> USE DEF Init
<1>1. Idle \in CmdRecord /\ Idle.pc = "idle"
  BY DEF Idle, CmdRecord
<1>2. file \in Files
  BY DEF Files
<1>3. 0 \in 0 .. MaxCount
  BY TunnelAssumption
<1>4. pc \in [Procs -> PCs] /\ \A p \in Procs : pc[p] = "new"
  BY DEF PCs, Gone
<1>5. Types
  BY <1>1, <1>2, <1>3, <1>4, TunnelAssumption DEF Types
<1>6. SigInv
  BY <1>1, <1>4 DEF SigInv, Stopping
<1>7. Listed = {}
  BY <1>4 DEF Listed, At
<1>8. Kept = {}
  BY <1>7 DEF Kept
<1>9. KeptInv
  BY <1>1, <1>8 DEF KeptInv, Covers, Stopping
<1>10. QED
  BY <1>5, <1>6, <1>9 DEF IInv

\* A tunnel that is to be kept has been so since it registered.
LEMMA KeptShrinks ==
  ASSUME NEW q \in Kept', q \in Listed,
         q \in raced => q \in raced', q \in refused => q \in refused',
         \A p \in Procs : pc[p] # "new" => pc'[p] # "new"
  PROVE  q \in Kept
<1>1. q \notin raced /\ q \notin refused /\ ~Twin(q)'
  BY DEF Kept
<1>2. ~Twin(q)
  BY <1>1 DEF Twin
<1>3. QED
  BY <1>1, <1>2 DEF Kept

\* A step that registers no tunnel and touches neither the file nor a command.
LEMMA ShrinkInv ==
  ASSUME IInv, Types', SigInv', UNCHANGED <<file, cmd>>, Kept' \subseteq Kept,
         \A q \in Procs : buf'[q] # NoBuf => buf'[q] = buf[q]
  PROVE  IInv'
<1>1. KeptInv
  BY DEF IInv
<1>2. Covers(file', Kept')
  BY <1>1 DEF KeptInv, Covers
<1>3. \A q \in Procs : buf'[q] # NoBuf => Covers(buf'[q], Kept')
  BY <1>1 DEF KeptInv, Covers
<1>4. \A c \in Cmds : cmd'[c].pc # "idle" => Covers(cmd'[c].buf, Kept')
  BY <1>1 DEF KeptInv, Covers
<1>5. \A c \in Cmds : cmd'[c].pc \in Stopping =>
       /\ cmd'[c].buf[cmd'[c].bm] # NoEntry /\ cmd'[c].buf[cmd'[c].bm].pid = cmd'[c].pid
       /\ cmd'[c].pc = "save" => cmd'[c].pid \notin Kept'
  BY <1>1 DEF KeptInv
<1>6. QED
  BY <1>2, <1>3, <1>4, <1>5 DEF KeptInv, IInv

\* One process goes elsewhere, dropping what it has loaded if anything.
LEMMA MoveTypes ==
  ASSUME IInv, NEW p \in Procs, NEW to \in PCs \ {"new"}, pc[p] \notin Dead,
         pc' = [pc EXCEPT ![p] = to],
         buf' = [buf EXCEPT ![p] = NoBuf] \/ (buf' = buf /\ pc[p] \notin Updating),
         UNCHANGED <<cmd, strangers>>, count' \in [Procs -> 0 .. MaxCount], file' \in Files,
         sig' \subseteq sig, p \in sig' => to \in {"serve", "sleep"},
         \/ UNCHANGED <<raced, refused>>
         \/ to \in Dead /\ raced' = raced \ {p} /\ refused' = refused \ {p},
         At(to) \/ (p \in Persistent /\ to \in {"connect", "bind"}) => p \in Listed
  PROVE  /\ Types' /\ SigInv' /\ Kept' \subseteq Kept
         /\ pc'[p] = to /\ \A q \in Procs \ {p} : pc'[q] = pc[q]
         /\ \A q \in Procs : buf'[q] # NoBuf => buf'[q] = buf[q]
<1>1. pc'[p] = to /\ \A q \in Procs \ {p} : pc'[q] = pc[q]
  BY DEF IInv, Types
<1>2. /\ buf' \in [Procs -> Files \cup {NoBuf}] /\ buf'[p] = NoBuf
      /\ \A q \in Procs \ {p} : buf'[q] = buf[q]
  BY DEF IInv, Types, SigInv
<1>3. Types'
  BY <1>2 DEF IInv, Types
<1>4. SigInv'
  BY <1>1, <1>2 DEF IInv, SigInv
<1>5. Listed' \subseteq Listed /\ (to \in Dead => p \notin Listed')
  BY <1>1 DEF Listed, At, Dead
<1>6. ASSUME NEW q \in Kept' PROVE q \in Kept
  <2>1. q \in Listed' /\ q \in Listed
    BY <1>5 DEF Kept
  <2>2. (q \in raced => q \in raced') /\ (q \in refused => q \in refused')
    BY <1>5, <2>1
  <2>3. QED
    BY <1>1, <2>1, <2>2, KeptShrinks
<1>7. QED
  BY <1>1, <1>2, <1>3, <1>4, <1>6

LEMMA MoveInv ==
  ASSUME IInv, NEW p \in Procs, NEW to \in PCs \ {"new"}, pc[p] \notin Dead,
         pc' = [pc EXCEPT ![p] = to],
         buf' = [buf EXCEPT ![p] = NoBuf] \/ (buf' = buf /\ pc[p] \notin Updating),
         UNCHANGED <<file, cmd, strangers>>, count' \in [Procs -> 0 .. MaxCount],
         sig' \subseteq sig, p \in sig' => to \in {"serve", "sleep"},
         \/ UNCHANGED <<raced, refused>>
         \/ to \in Dead /\ raced' = raced \ {p} /\ refused' = refused \ {p},
         At(to) \/ (p \in Persistent /\ to \in {"connect", "bind"}) => p \in Listed
  PROVE  IInv'
<1>1. file' \in Files
  BY DEF IInv, Types
<1>2. QED
  BY <1>1, MoveTypes, ShrinkInv

\* A process that ends is no longer one that has to be listed.
LEMMA ExitInv ==
  ASSUME IInv, NEW p \in Procs, NEW how \in Dead, pc[p] \notin Dead, Exit(p, how),
         UNCHANGED <<file, cmd, strangers>>, count' \in [Procs -> 0 .. MaxCount]
  PROVE  IInv'
<1>1. how \in PCs \ {"new"} /\ ~At(how) /\ how \notin {"connect", "bind"}
  BY DEF Dead, PCs, Gone, At
<1>2. /\ pc' = [pc EXCEPT ![p] = how] /\ buf' = [buf EXCEPT ![p] = NoBuf]
      /\ sig' \subseteq sig /\ p \notin sig'
      /\ raced' = raced \ {p} /\ refused' = refused \ {p}
  BY DEF Exit
<1>3. QED
  BY <1>1, <1>2, MoveInv

\* The counter in an entry stays in its range.
LEMMA CountFacts ==
  ASSUME IInv, NEW p \in Procs
  PROVE  /\ count \in [Procs -> 0 .. MaxCount]
         /\ [count EXCEPT ![p] = MinOf(@ + 1, MaxCount)] \in [Procs -> 0 .. MaxCount]
<1>1. count \in [Procs -> 0 .. MaxCount] /\ count[p] \in 0 .. MaxCount
  BY DEF IInv, Types
<1>2. MinOf(count[p] + 1, MaxCount) \in 0 .. MaxCount
  BY <1>1, TunnelAssumption DEF MinOf
<1>3. QED
  BY <1>1, <1>2

\* A failed attempt ends the tunnel or has it try again.
LEMMA FailedInv ==
  ASSUME IInv, NEW p \in Procs, pc[p] \in {"connect", "bind"}, Failed(p),
         UNCHANGED <<file, cmd, strangers>>
  PROVE  IInv'
<1>1. pc[p] \notin Dead /\ pc[p] \notin Updating /\ pc[p] \notin {"serve", "sleep"}
  BY DEF Dead, Updating
<1>2. CASE p \in Persistent
  <2>1. p \in Listed
    BY <1>2 DEF Listed
  <2>2. "retry" \in PCs \ {"new"}
    BY DEF PCs, Updating
  <2>3. /\ pc' = [pc EXCEPT ![p] = "retry"] /\ buf' = buf /\ sig' = sig
        /\ count' \in [Procs -> 0 .. MaxCount] /\ UNCHANGED <<raced, refused>>
    BY <1>2, CountFacts DEF Failed, Goto, marks
  <2>4. p \notin sig
    BY <1>1 DEF IInv, SigInv
  <2>5. QED
    BY <1>1, <2>1, <2>2, <2>3, <2>4, MoveInv
<1>3. CASE p \notin Persistent
  <2>1. Exit(p, "exited") /\ "exited" \in Dead /\ count' \in [Procs -> 0 .. MaxCount]
    BY <1>3, CountFacts DEF Failed, Dead
  <2>2. QED
    BY <1>1, <2>1, ExitInv
<1>4. QED
  BY <1>2, <1>3

\* Steps of the daemon loop that only go elsewhere.
LEMMA GotoInv ==
  ASSUME IInv, NEW p \in Procs,
         Start(p) \/ Connected(p) \/ ForwardsUp(p) \/ SessionCloses(p) \/ WakeUp(p)
           \/ TakeSignal(p)
  PROVE  IInv'
<1>1. PICK to \in {"register", "connect", "mark", "bind", "serve", "retry", "unregister"} :
        /\ pc' = [pc EXCEPT ![p] = to] /\ buf' = buf
        /\ At(to) \/ (p \in Persistent /\ to \in {"connect", "bind"}) =>
             At(pc[p]) \/ (p \in Persistent /\ pc[p] \in {"connect", "bind"})
        /\ p \in sig' => p \in sig /\ pc[p] \notin {"serve", "sleep"}
  <2>1. CASE Start(p)
    <3>1. PICK to \in {"register", "connect"} : Goto(p, to) /\ (p \in Persistent => to = "register")
      BY <2>1 DEF Start
    <3>2. sig' = sig /\ pc[p] = "new"
      BY <2>1 DEF Start
    <3>3. QED
      BY <3>1, <3>2 DEF Goto, At
  <2>2. CASE Connected(p)
    <3>1. PICK to \in {"mark", "bind"} :
            Goto(p, to) /\ (p \in Persistent <=> to = "mark") /\ sig' = sig /\ pc[p] = "connect"
      BY <2>2 DEF Connected
    <3>2. QED
      BY <3>1 DEF Goto, At
  <2>3. CASE ForwardsUp(p)
    <3>1. PICK to \in {"serve", "register"} :
            Goto(p, to) /\ (p \in Persistent <=> to = "serve") /\ sig' = sig /\ pc[p] = "bind"
      BY <2>3 DEF ForwardsUp
    <3>2. QED
      BY <3>1 DEF Goto, At
  <2>4. CASE SessionCloses(p)
    BY <2>4 DEF SessionCloses, Goto, At
  <2>5. CASE WakeUp(p)
    BY <2>5 DEF WakeUp, Goto, At
  <2>6. CASE TakeSignal(p)
    <3>1. pc[p] \in {"serve", "sleep"}
      BY <2>6 DEF TakeSignal, IInv, SigInv
    <3>2. QED
      BY <2>6, <3>1 DEF TakeSignal, Goto, At
  <2>7. QED
    BY <2>1, <2>2, <2>3, <2>4, <2>5, <2>6
<1>2. /\ pc[p] \notin Dead /\ pc[p] \notin Updating /\ sig' \subseteq sig
      /\ UNCHANGED <<file, cmd, strangers, raced, refused>>
  BY DEF Start, Connected, ForwardsUp, SessionCloses, WakeUp, TakeSignal, ports, marks, Dead,
         Updating, IInv, SigInv
<1>3. count' \in [Procs -> 0 .. MaxCount]
  BY CountFacts DEF Start, Connected, ForwardsUp, SessionCloses, WakeUp, TakeSignal, local
<1>4. p \notin sig'
  BY <1>1 DEF IInv, SigInv
<1>5. to \in PCs \ {"new"}
  BY DEF PCs, Updating
<1>6. QED
  BY <1>1, <1>2, <1>3, <1>4, <1>5, MoveInv DEF Listed

\* Steps that leave every process where it is.
LEMMA StayInv ==
  ASSUME IInv, UNCHANGED <<pc, file, buf, count, cmd, raced, refused>>, SigInv'
  PROVE  IInv'
<1>1. Types'
  BY DEF IInv, Types
<1>2. Kept' \subseteq Kept
  BY KeptShrinks DEF Kept, Listed
<1>3. QED
  BY <1>1, <1>2, ShrinkInv

\* Binding, losing a listener, a hangup, a crash and the reuse of a pid leave the file alone.
LEMMA EnvInv ==
  ASSUME IInv, NEW p \in Procs,
         \/ \E x \in Ports[p] : Bind(p, x)
         \/ ReleaseListener(p) \/ Hangup(p) \/ Crash(p) \/ ReusePid(p)
  PROVE  IInv'
<1>1. CASE (\E x \in Ports[p] : Bind(p, x)) \/ ReleaseListener(p)
  <2>1. UNCHANGED <<pc, file, buf, count, cmd, sig, strangers, raced, refused>>
    BY <1>1 DEF Bind, ReleaseListener, local, marks
  <2>2. SigInv'
    BY <2>1 DEF IInv, SigInv
  <2>3. QED
    BY <2>1, <2>2, StayInv
<1>2. CASE Hangup(p)
  <2>1. UNCHANGED <<pc, file, buf, count, cmd, strangers, raced, refused>> /\ Signal(p)
    BY <1>2 DEF Hangup, local, marks
  <2>2. SigInv'
    BY <2>1 DEF IInv, SigInv, Signal
  <2>3. QED
    BY <2>1, <2>2, StayInv
<1>3. CASE Crash(p)
  <2>1. Exit(p, "killed") /\ pc[p] \notin Gone /\ UNCHANGED <<file, cmd, strangers, count>>
    BY <1>3 DEF Crash, local
  <2>2. "killed" \in Dead /\ pc[p] \notin Dead
    BY <2>1 DEF Dead, Gone
  <2>3. QED
    BY <2>1, <2>2, CountFacts, ExitInv
<1>4. CASE ReusePid(p)
  <2>1. /\ UNCHANGED <<pc, file, buf, count, cmd, sig, raced, refused>> /\ pc[p] \in Dead
        /\ strangers' = strangers \cup {p}
    BY <1>4 DEF ReusePid, local, Dead
  <2>2. SigInv'
    BY <2>1 DEF IInv, SigInv
  <2>3. QED
    BY <2>1, <2>2, StayInv
<1>5. QED
  BY <1>1, <1>2, <1>3, <1>4

-----------------------------------------------------------------------------
(* Updates of the state file                                               *)

\* What a tunnel loads lists everyone who is to be kept.
LEMMA LoadInv == ASSUME IInv, NEW p \in Procs, Load(p) PROVE IInv'
<1>1. /\ pc[p] \in Updating /\ buf' = [buf EXCEPT ![p] = file]
      /\ UNCHANGED <<pc, file, count, cmd, sig, strangers, raced, refused>>
  BY DEF Load, local, marks
<1>2. buf'[p] = file /\ \A q \in Procs \ {p} : buf'[q] = buf[q]
  BY <1>1 DEF IInv, Types
<1>3. Types' /\ SigInv'
  BY <1>1, <1>2 DEF IInv, Types, SigInv
<1>4. Kept' \subseteq Kept
  BY <1>1, KeptShrinks DEF Kept, Listed
<1>5. KeptInv /\ Covers(file', Kept')
  BY <1>1, <1>4 DEF IInv, KeptInv, Covers
<1>6. \A q \in Procs : buf'[q] # NoBuf => Covers(buf'[q], Kept')
  BY <1>2, <1>4, <1>5 DEF KeptInv, Covers
<1>7. \A c \in Cmds : cmd'[c].pc # "idle" => Covers(cmd'[c].buf, Kept')
  BY <1>1, <1>4, <1>5 DEF KeptInv, Covers
<1>8. \A c \in Cmds : cmd'[c].pc \in Stopping =>
       /\ cmd'[c].buf[cmd'[c].bm] # NoEntry /\ cmd'[c].buf[cmd'[c].bm].pid = cmd'[c].pid
       /\ cmd'[c].pc = "save" => cmd'[c].pid \notin Kept'
  BY <1>1, <1>4, <1>5 DEF KeptInv
<1>9. QED
  BY <1>3, <1>5, <1>6, <1>7, <1>8 DEF IInv, KeptInv

\* What an update makes of the entries: only its own bookmark's can change, and
\* that keeps or gets the pid of the process unless it is removed.
LEMMA ApplyFacts ==
  ASSUME IInv, NEW p \in Procs, NEW f \in Files, pc[p] \in Updating
  PROVE  /\ Apply(p, f) \in Files
         /\ \A b \in Bookmarks \ {Of[p]} : Apply(p, f)[b] = f[b]
         /\ pc[p] = "register" => Lists(Apply(p, f), p)
         /\ pc[p] \in {"mark", "retry"} /\ Lists(f, p) => Lists(Apply(p, f), p)
<1> DEFINE b == Of[p]
<1>1. b \in Bookmarks /\ count[p] \in 0 .. MaxCount /\ 0 \in 0 .. MaxCount
  BY TunnelAssumption DEF IInv, Types
<1>2. f \in [Bookmarks -> Entries \cup {NoEntry}]
  BY DEF Files
<1> HIDE DEF b
<1>3. \A e \in Entries : e.pid \in Procs
  BY DEF Entries
<1>4. CASE pc[p] = "register"
  <2> DEFINE e == [pid |-> p, status |-> "connected", count |-> 0]
  <2>1. e \in Entries /\ e.pid = p /\ e # NoEntry
    <3>1. e \in Entries /\ e.pid = p
      BY <1>1 DEF Entries
    <3>2. QED
      BY <3>1, EntryFacts
  <2>2. Apply(p, f) = [f EXCEPT ![b] = e]
    BY <1>4 DEF Apply, b
  <2> HIDE DEF e
  <2>3. QED
    BY <1>1, <1>2, <1>4, <2>1, <2>2 DEF Files, Lists, b
<1>5. CASE pc[p] \in {"mark", "retry"} /\ f[b] # NoEntry
  <2>1. f[b] \in Entries
    BY <1>1, <1>2, <1>5
  <2>2. PICK e \in Entries : Apply(p, f) = [f EXCEPT ![b] = e] /\ e.pid = f[b].pid
    <3> DEFINE e1 == [f[b] EXCEPT !.status = "connected", !.count = 0]
               e2 == [f[b] EXCEPT !.status = "reconnecting", !.count = count[p]]
    <3>1. e1 \in Entries /\ e2 \in Entries /\ e1.pid = f[b].pid /\ e2.pid = f[b].pid
      BY <1>1, <2>1 DEF Entries
    <3>2. CASE pc[p] = "mark"
      <4>1. Apply(p, f) = [f EXCEPT ![b] = e1]
        BY <1>1, <1>2, <1>5, <2>1, <3>2 DEF Apply, b
      <4>2. QED
        BY <3>1, <4>1
    <3>3. CASE pc[p] = "retry"
      <4>1. Apply(p, f) = [f EXCEPT ![b] = e2]
        BY <1>1, <1>2, <1>5, <2>1, <3>3 DEF Apply, b
      <4>2. QED
        BY <3>1, <4>1
    <3>4. QED
      BY <1>5, <3>2, <3>3
  <2>3. e # NoEntry
    BY EntryFacts
  <2>4. QED
    BY <1>1, <1>2, <1>5, <2>2, <2>3 DEF Files, Lists, b
<1>6. CASE pc[p] \in {"mark", "retry"} /\ f[b] = NoEntry
  <2>1. Apply(p, f) = f
    BY <1>6 DEF Apply, b
  <2>2. QED
    BY <1>6, <2>1 DEF Lists, b
<1>7. CASE pc[p] = "unregister"
  <2>1. Apply(p, f) = [f EXCEPT ![b] = NoEntry]
    BY <1>7 DEF Apply, Without, b
  <2>2. QED
    BY <1>1, <1>2, <1>7, <2>1 DEF Files, b
<1>8. QED
  BY <1>4, <1>5, <1>6, <1>7 DEF Updating

\* The places an update leads to.
LEMMA SavedFacts ==
  ASSUME NEW p \in Procs, pc[p] \in Updating
  PROVE  /\ Saved(p) \in PCs \ {"new"}
         /\ Saved(p) = "exited" <=> pc[p] = "unregister"
         /\ Saved(p) \notin {"serve", "sleep"} \/ pc[p] \in {"register", "retry"}
  BY DEF Saved, Updating, PCs, Gone

\* What an update saves lists a tunnel that is kept after it, if it was before or
\* has just registered.
LEMMA ApplyCovers ==
  ASSUME IInv, NEW p \in Procs, buf[p] # NoBuf, pc'[p] # "new", NEW q \in Kept',
         (q \in Kept /\ (q = p => pc[p] # "unregister")) \/ (q = p /\ pc[p] = "register")
  PROVE  Lists(Apply(p, buf[p]), q)
<1> DEFINE f == buf[p]
<1>1. f \in Files /\ pc[p] \in Updating /\ (q \in Kept => Lists(f, q))
  BY DEF IInv, Types, SigInv, KeptInv, Covers
<1>2. CASE q = p
  BY <1>1, <1>2, ApplyFacts DEF Updating
<1>3. CASE q # p
  <2>1. q \in Procs /\ ~Twin(q)' /\ q \in Kept
    BY <1>3 DEF Kept, Listed
  <2>2. Of[q] # Of[p] /\ Of[q] \in Bookmarks
    BY <1>3, <2>1, TunnelAssumption DEF Twin
  <2>3. QED
    BY <1>1, <2>1, <2>2, ApplyFacts DEF Lists
<1>4. QED
  BY <1>2, <1>3

\* What a tunnel saves lists everyone who is to be kept, and itself when it
\* registers; what others have loaded does too unless it is marked as raced.
LEMMA SaveInv == ASSUME IInv, NEW p \in Procs, Save(p) PROVE IInv'
<1> DEFINE f == buf[p]
           to == Saved(p)
<1>1. f # NoBuf /\ f \in Files /\ pc[p] \in Updating /\ pc[p] \notin Dead /\ p \notin sig
  BY DEF Save, IInv, Types, SigInv, Updating, Dead
<1>2. /\ pc' = [pc EXCEPT ![p] = to] /\ buf' = [buf EXCEPT ![p] = NoBuf]
      /\ sig' \subseteq sig
      /\ file' = Apply(p, f) /\ UNCHANGED <<count, cmd, strangers>>
  BY DEF Save, Exit, ports, local
<1>3. to \in PCs \ {"new"} /\ (to = "exited" <=> pc[p] = "unregister")
  BY <1>1, SavedFacts
<1>4. /\ \A q \in Procs \ {p} : (q \in raced <=> q \in raced') /\ (q \in refused <=> q \in refused')
      /\ to # "exited" =>
           /\ refused' = refused /\ raced \subseteq raced'
           /\ pc[p] = "register" /\ UpdatingBeside(p) => p \in raced'
  BY DEF Save, Exit, marks
<1> HIDE DEF to
<1>5. pc'[p] = to /\ \A q \in Procs \ {p} : pc'[q] = pc[q]
  BY <1>2 DEF IInv, Types
<1>6. buf'[p] = NoBuf /\ \A q \in Procs \ {p} : buf'[q] = buf[q]
  BY <1>2 DEF IInv, Types
<1>7. file' \in Files
  BY <1>1, <1>2, ApplyFacts
<1>8. Types'
  BY <1>2, <1>3, <1>7 DEF IInv, Types
<1>9. SigInv'
  BY <1>1, <1>2, <1>5, <1>6 DEF IInv, SigInv
<1>10. ASSUME NEW q \in Kept'
       PROVE  \/ q \in Kept /\ (q = p => pc[p] # "unregister")
              \/ q = p /\ pc[p] = "register" /\ ~UpdatingBeside(p)
  <2>1. q \in Listed' /\ q \in Procs /\ q \notin raced'
    BY DEF Kept, Listed
  <2>2. q = p => pc[p] # "unregister" /\ to # "exited"
    BY <1>3, <1>5, <2>1 DEF Listed, At
  <2>3. CASE q = p /\ pc[p] = "register"
    BY <1>4, <2>1, <2>2, <2>3
  <2>4. CASE ~(q = p /\ pc[p] = "register")
    <3>1. q \in Listed
      BY <1>1, <1>3, <1>5, <2>1, <2>2, <2>4 DEF Listed, At, Updating
    <3>2. (q \in raced => q \in raced') /\ (q \in refused => q \in refused')
      BY <1>4, <2>1, <2>2
    <3>3. \A r \in Procs : pc[r] # "new" => pc'[r] # "new"
      BY <1>3, <1>5
    <3>4. QED
      BY <2>2, <3>1, <3>2, <3>3, KeptShrinks
  <2>5. QED
    BY <2>3, <2>4
<1>11. Covers(file', Kept')
  BY <1>1, <1>2, <1>3, <1>5, <1>10, ApplyCovers DEF Covers
<1>12. KeptInv
  BY DEF IInv
<1>13. \A q \in Procs : buf'[q] # NoBuf => Covers(buf'[q], Kept')
  <2> SUFFICES ASSUME NEW q \in Procs, buf'[q] # NoBuf PROVE Kept' \subseteq Kept
    BY <1>6, <1>12 DEF KeptInv, Covers
  <2>1. q # p /\ buf[q] # NoBuf
    BY <1>6
  <2>2. QED
    BY <1>10, <2>1 DEF UpdatingBeside
<1>14. \A c \in Cmds : cmd[c].pc # "idle" => Kept' \subseteq Kept
  BY <1>10 DEF UpdatingBeside
<1>15. \A c \in Cmds : cmd'[c].pc # "idle" => Covers(cmd'[c].buf, Kept')
  BY <1>2, <1>12, <1>14 DEF KeptInv, Covers
<1>16. \A c \in Cmds : cmd'[c].pc \in Stopping =>
        /\ cmd'[c].buf[cmd'[c].bm] # NoEntry /\ cmd'[c].buf[cmd'[c].bm].pid = cmd'[c].pid
        /\ cmd'[c].pc = "save" => cmd'[c].pid \notin Kept'
  BY <1>2, <1>12, <1>14 DEF KeptInv, Stopping
<1>17. QED
  BY <1>8, <1>9, <1>11, <1>13, <1>15, <1>16 DEF IInv, KeptInv

\* A save that fails leaves the old file or the new one; both list everyone.
LEMMA SaveFailsInv == ASSUME IInv, NEW p \in Procs, SaveFails(p) PROVE IInv'
<1> DEFINE f == buf[p]
<1>1. /\ f # NoBuf /\ f \in Files /\ pc[p] \in Updating /\ pc[p] \notin Dead /\ p \notin sig
      /\ file' \in {file, Apply(p, f)}
  BY DEF SaveFails, IInv, Types, SigInv, Updating, Dead
<1>2. UNCHANGED <<cmd, strangers, count>>
  BY DEF SaveFails, local
<1>3. PICK to \in PCs \ {"new"} :
        /\ pc' = [pc EXCEPT ![p] = to] /\ buf' = [buf EXCEPT ![p] = NoBuf] /\ sig' \subseteq sig
        /\ \/ UNCHANGED <<raced, refused>>
           \/ to \in Dead /\ raced' = raced \ {p} /\ refused' = refused \ {p}
        /\ At(to) \/ (p \in Persistent /\ to \in {"connect", "bind"}) => p \in Listed
        /\ pc[p] = "unregister" => to \in Dead
  <2>1. CASE pc[p] \in {"register", "unregister"}
    <3>1. "exited" \in Dead /\ "exited" \in PCs \ {"new"} /\ ~At("exited")
      BY DEF Dead, PCs, Gone, At
    <3>2. QED
      BY <2>1, <3>1 DEF SaveFails, Exit
  <2>2. CASE pc[p] \notin {"register", "unregister"}
    <3>1. pc[p] \in {"mark", "retry"} /\ p \in Listed
      BY <1>1, <2>2 DEF Updating, Listed, At
    <3>2. Saved(p) \in PCs \ {"new"}
      BY <1>1, SavedFacts
    <3>3. QED
      BY <2>2, <3>1, <3>2 DEF SaveFails, marks, ports
  <2>3. QED
    BY <2>1, <2>2
<1>4. file' \in Files
  BY <1>1, ApplyFacts DEF IInv, Types
<1>5. /\ Types' /\ SigInv' /\ Kept' \subseteq Kept
      /\ pc'[p] = to /\ \A q \in Procs : buf'[q] # NoBuf => buf'[q] = buf[q]
  BY <1>1, <1>2, <1>3, <1>4, CountFacts, MoveTypes
<1>6. KeptInv
  BY DEF IInv
<1>7. Covers(file', Kept')
  <2>1. CASE file' = file
    BY <1>5, <1>6, <2>1 DEF KeptInv, Covers
  <2>2. CASE file' = Apply(p, f)
    <3>1. pc[p] = "unregister" => p \notin Kept'
      BY <1>3, <1>5 DEF Kept, Listed, At, Dead
    <3>2. QED
      BY <1>1, <1>3, <1>5, <2>2, <3>1, ApplyCovers DEF Covers
  <2>3. QED
    BY <1>1, <2>1, <2>2
<1>8. \A q \in Procs : buf'[q] # NoBuf => Covers(buf'[q], Kept')
  BY <1>5, <1>6 DEF KeptInv, Covers
<1>9. \A c \in Cmds : cmd'[c].pc # "idle" => Covers(cmd'[c].buf, Kept')
  BY <1>2, <1>5, <1>6 DEF KeptInv, Covers
<1>10. \A c \in Cmds : cmd'[c].pc \in Stopping =>
        /\ cmd'[c].buf[cmd'[c].bm] # NoEntry /\ cmd'[c].buf[cmd'[c].bm].pid = cmd'[c].pid
        /\ cmd'[c].pc = "save" => cmd'[c].pid \notin Kept'
  BY <1>2, <1>5, <1>6 DEF KeptInv
<1>11. QED
  BY <1>5, <1>7, <1>8, <1>9, <1>10 DEF IInv, KeptInv

-----------------------------------------------------------------------------
(* The commands                                                            *)

\* Tunnels to be kept are alive, so cleaning up keeps their entries.
LEMMA CleanupFacts ==
  ASSUME IInv
  PROVE  CleanupStale(file) \in Files /\ Covers(CleanupStale(file), Kept)
<1> DEFINE g == CleanupStale(file)
<1>1. \A b \in Bookmarks : g[b] \in {file[b], NoEntry}
  BY DEF CleanupStale
<1>2. file \in [Bookmarks -> Entries \cup {NoEntry}]
  BY DEF IInv, Types, Files
<1>3. g \in Files
  <2>1. \A b \in Bookmarks : g[b] \in Entries \cup {NoEntry}
    BY <1>1, <1>2
  <2>2. g = [b \in Bookmarks |-> g[b]]
    BY DEF CleanupStale
  <2> HIDE DEF g
  <2>3. QED
    BY <2>1, <2>2 DEF Files
<1>4. ASSUME NEW p \in Kept PROVE Lists(g, p)
  <2>1. Lists(file, p) /\ Of[p] \in Bookmarks /\ p \in Listed
    BY TunnelAssumption DEF IInv, KeptInv, Covers, Kept, Listed
  <2>2. IsProcessAlive(p)
    BY <2>1 DEF IsProcessAlive, Listed, At, Gone
  <2>3. g[Of[p]] = file[Of[p]]
    BY <2>1, <2>2 DEF CleanupStale, Lists
  <2>4. QED
    BY <2>1, <2>3 DEF Lists
<1>5. QED
  BY <1>3, <1>4 DEF Covers

\* A step of one command.
LEMMA CmdInv ==
  ASSUME IInv, NEW c \in Cmds, NEW r \in CmdRecord,
         cmd' = [cmd EXCEPT ![c] = r], UNCHANGED <<pc, buf, count, strangers, raced>>,
         refused \subseteq refused', file' \in Files,
         \A p \in sig' : p \in Procs /\ pc[p] \in {"serve", "sleep"},
         Covers(file', Kept),
         r.pc # "idle" => r.buf \in Files /\ Covers(r.buf, Kept),
         r.pc \in Stopping =>
           /\ r.bm \in Bookmarks /\ r.pid \in Procs
           /\ r.buf[r.bm] # NoEntry /\ r.buf[r.bm].pid = r.pid
           /\ r.pc = "save" => r.pid \notin Kept'
  PROVE  IInv'
<1>1. cmd'[c] = r /\ \A d \in Cmds \ {c} : cmd'[d] = cmd[d]
  BY DEF IInv, Types
<1>2. Types' /\ SigInv'
  BY <1>1 DEF IInv, Types, SigInv
<1>3. Kept' \subseteq Kept
  BY KeptShrinks DEF Kept, Listed
<1>4. KeptInv
  BY DEF IInv
<1>5. Covers(file', Kept') /\ \A q \in Procs : buf'[q] # NoBuf => Covers(buf'[q], Kept')
  BY <1>3, <1>4 DEF KeptInv, Covers
<1>6. \A d \in Cmds : cmd'[d].pc # "idle" => Covers(cmd'[d].buf, Kept')
  BY <1>1, <1>3, <1>4 DEF KeptInv, Covers
<1>7. \A d \in Cmds : cmd'[d].pc \in Stopping =>
        /\ cmd'[d].buf[cmd'[d].bm] # NoEntry /\ cmd'[d].buf[cmd'[d].bm].pid = cmd'[d].pid
        /\ cmd'[d].pc = "save" => cmd'[d].pid \notin Kept'
  BY <1>1, <1>3, <1>4 DEF KeptInv
<1>8. QED
  BY <1>2, <1>5, <1>6, <1>7 DEF IInv, KeptInv

\* What holds of a command that is not over.
LEMMA CmdFacts ==
  ASSUME IInv, NEW c \in Cmds, cmd[c].pc # "idle"
  PROVE  /\ cmd[c] \in CmdRecord /\ cmd[c].buf \in Files /\ Covers(cmd[c].buf, Kept)
         /\ file \in Files /\ Covers(file, Kept)
         /\ \A p \in sig : p \in Procs /\ pc[p] \in {"serve", "sleep"}
         /\ cmd[c].pc \in Stopping =>
              /\ cmd[c].bm \in Bookmarks /\ cmd[c].pid \in Procs
              /\ cmd[c].buf[cmd[c].bm] # NoEntry /\ cmd[c].buf[cmd[c].bm].pid = cmd[c].pid
              /\ cmd[c].pc = "save" => cmd[c].pid \notin Kept
  BY DEF IInv, Types, SigInv, KeptInv

\* A command that is over holds no copy.
LEMMA IdleFacts == Idle \in CmdRecord /\ Idle.pc = "idle" /\ "idle" \notin Stopping
  BY DEF Idle, CmdRecord, Stopping

\* What a command loads lists everyone who is to be kept.
LEMMA LoadsInv ==
  ASSUME IInv, NEW c \in Cmds, StatusLoad(c) \/ \E b \in Bookmarks : StopLoad(c, b)
  PROVE  IInv'
<1> DEFINE g == CleanupStale(file)
<1>1. /\ UNCHANGED <<pc, file, buf, count, strangers, sig, raced, refused>>
      /\ cmd[c] \in CmdRecord
  BY DEF StatusLoad, StopLoad, local, marks, IInv, Types
<1>2. g \in Files /\ Covers(g, Kept)
  BY CleanupFacts
<1>3. /\ file' \in Files /\ Covers(file', Kept)
      /\ \A p \in sig' : p \in Procs /\ pc[p] \in {"serve", "sleep"}
  BY <1>1 DEF IInv, Types, SigInv, KeptInv
<1> HIDE DEF g
<1>4. CASE StatusLoad(c)
  <2> DEFINE r == [cmd[c] EXCEPT !.pc = "status", !.buf = g]
  <2>1. r \in CmdRecord /\ r.pc = "status" /\ r.buf = g
    BY <1>1, <1>2 DEF CmdRecord
  <2>2. cmd' = [cmd EXCEPT ![c] = r]
    BY <1>1, <1>4 DEF StatusLoad, g, IInv, Types
  <2> HIDE DEF r
  <2>3. r.pc \notin Stopping
    BY <2>1 DEF Stopping
  <2>4. QED
    BY <1>1, <1>2, <1>3, <2>1, <2>2, <2>3, CmdInv
<1>5. CASE \E b \in Bookmarks : StopLoad(c, b)
  <2>1. PICK b \in Bookmarks : StopLoad(c, b)
    BY <1>5
  <2> DEFINE r == [pc |-> "check", bm |-> b, pid |-> g[b].pid, buf |-> g]
  <2>2. g[b] # NoEntry /\ cmd' = [cmd EXCEPT ![c] = r]
    BY <2>1 DEF StopLoad, g
  <2>3. g[b].pid \in Procs
    BY <1>2, <2>2 DEF Files, Entries
  <2>4. r \in CmdRecord /\ r.pc = "check" /\ r.buf = g /\ r.bm = b /\ r.pid = g[b].pid
    BY <1>2, <2>3 DEF CmdRecord, Stopping
  <2> HIDE DEF r
  <2>5. QED
    BY <1>1, <1>2, <1>3, <2>2, <2>3, <2>4, CmdInv
<1>6. QED
  BY <1>4, <1>5

\* Another step of a stop on its way; before it saves it has found the process
\* gone, or refused to take it for the tunnel.
LEMMA StopMoves ==
  ASSUME IInv, NEW c \in Cmds, NEW to \in Stopping, cmd[c].pc \in Stopping,
         cmd' = [cmd EXCEPT ![c] = [@ EXCEPT !.pc = to]],
         UNCHANGED <<pc, file, buf, count, strangers, raced>>, refused \subseteq refused',
         \A p \in sig' : p \in Procs /\ pc[p] \in {"serve", "sleep"},
         to = "save" => pc[cmd[c].pid] \in Gone \/ cmd[c].pid \in refused'
  PROVE  IInv'
<1> DEFINE r == [cmd[c] EXCEPT !.pc = to]
<1>1. cmd[c].pc # "idle"
  BY DEF Stopping
<1>2. /\ r \in CmdRecord /\ r.pc = to /\ r.buf = cmd[c].buf /\ r.bm = cmd[c].bm
      /\ r.pid = cmd[c].pid
  BY <1>1, CmdFacts DEF CmdRecord
<1>3. cmd' = [cmd EXCEPT ![c] = r]
  OBVIOUS
<1>4. to = "save" => cmd[c].pid \notin Kept'
  BY DEF Kept, Listed, At, Gone
<1>5. /\ file' \in Files /\ Covers(file', Kept) /\ r.buf \in Files /\ Covers(r.buf, Kept)
      /\ r.bm \in Bookmarks /\ r.pid \in Procs
      /\ r.buf[r.bm] # NoEntry /\ r.buf[r.bm].pid = r.pid
  BY <1>1, <1>2, CmdFacts
<1> HIDE DEF r
<1>6. QED
  BY <1>2, <1>3, <1>4, <1>5, CmdInv

\* A stop looks at the process and signals it.
LEMMA StopSignalsInv ==
  ASSUME IInv, NEW c \in Cmds, StopCheck(c) \/ StopKill(c) PROVE IInv'
<1> DEFINE p == cmd[c].pid
<1>1. CASE StopCheck(c)
  <2>1. PICK to \in {"kill", "save"} :
          /\ cmd' = [cmd EXCEPT ![c].pc = to]
          /\ to = "save" => ~PidMatches(p)
    BY <1>1 DEF StopCheck
  <2>2. /\ UNCHANGED <<pc, file, buf, count, strangers, raced, sig>> /\ refused \subseteq refused'
        /\ cmd[c].pc \in Stopping
    BY <1>1 DEF StopCheck, local, Stopping
  <2>3. to = "save" => pc[p] \in Gone \/ p \in refused'
    BY <1>1, <2>1 DEF StopCheck
  <2>4. to \in Stopping /\ cmd' = [cmd EXCEPT ![c] = [@ EXCEPT !.pc = to]]
    BY <2>1 DEF Stopping
  <2>5. \A q \in sig' : q \in Procs /\ pc[q] \in {"serve", "sleep"}
    BY <2>2 DEF IInv, SigInv
  <2>6. QED
    BY <2>2, <2>3, <2>4, <2>5, StopMoves
<1>2. CASE StopKill(c)
  <2>1. /\ UNCHANGED <<pc, file, buf, count, strangers, raced, refused>> /\ cmd[c].pc \in Stopping
        /\ cmd' = [cmd EXCEPT ![c] = [@ EXCEPT !.pc = "wait"]] /\ Signal(p)
        /\ cmd[c].pc # "idle"
    BY <1>2 DEF StopKill, local, marks, Stopping
  <2>2. \A q \in sig' : q \in Procs /\ pc[q] \in {"serve", "sleep"}
    BY <2>1, CmdFacts DEF Signal
  <2>3. "wait" \in Stopping
    BY DEF Stopping
  <2>4. QED
    BY <2>1, <2>2, <2>3, StopMoves
<1>3. QED
  BY <1>1, <1>2

\* A stop that waits sees its tunnel end or keeps its entry.
LEMMA StopWaitInv == ASSUME IInv, NEW c \in Cmds, StopWait(c) PROVE IInv'
<1> DEFINE p == cmd[c].pid
<1>1. /\ UNCHANGED <<pc, file, buf, count, strangers, sig, raced, refused>>
      /\ cmd[c].pc \in Stopping /\ cmd[c].pc # "idle"
  BY DEF StopWait, local, marks, Stopping
<1>2. CASE cmd' = [cmd EXCEPT ![c] = Idle]
  BY <1>1, <1>2, CmdFacts, IdleFacts, CmdInv
<1>3. CASE ~IsProcessAlive(p) /\ cmd' = [cmd EXCEPT ![c] = [@ EXCEPT !.pc = "save"]]
  <2>1. pc[p] \in Gone /\ "save" \in Stopping
    BY <1>3 DEF IsProcessAlive, Stopping
  <2>2. QED
    BY <1>1, <1>3, <2>1, CmdFacts, StopMoves
<1>4. QED
  BY <1>2, <1>3 DEF StopWait

\* What a command saves leaves out only tunnels that are not to be kept.
LEMMA SavesInv == ASSUME IInv, NEW c \in Cmds, StopSave(c) \/ StatusSave(c) PROVE IInv'
<1> DEFINE f == cmd[c].buf
<1>1. /\ UNCHANGED <<pc, buf, count, strangers, sig, raced, refused>>
      /\ cmd[c].pc # "idle" /\ cmd' = [cmd EXCEPT ![c] = Idle]
  BY DEF StopSave, StatusSave, local, marks
<1>2. f \in Files /\ Covers(f, Kept)
  BY <1>1, CmdFacts
<1>3. file' \in Files /\ Covers(file', Kept)
  <2>1. CASE StatusSave(c)
    BY <1>2, <2>1 DEF StatusSave
  <2>2. CASE StopSave(c)
    <3>1. /\ file' = [f EXCEPT ![cmd[c].bm] = NoEntry]
          /\ f[cmd[c].bm].pid = cmd[c].pid /\ cmd[c].pid \notin Kept
      BY <1>1, <2>2, CmdFacts DEF StopSave, Without, Stopping
    <3>2. file' \in Files /\ \A b \in Bookmarks \ {cmd[c].bm} : file'[b] = f[b]
      BY <1>2, <3>1 DEF Files
    <3>3. ASSUME NEW p \in Kept PROVE Lists(file', p)
      <4>1. Lists(f, p) /\ Of[p] \in Bookmarks
        BY <1>2, TunnelAssumption DEF Covers, Kept, Listed
      <4>2. Of[p] # cmd[c].bm
        BY <3>1, <4>1 DEF Lists
      <4>3. QED
        BY <3>2, <4>1, <4>2 DEF Lists
    <3>4. QED
      BY <3>2, <3>3 DEF Covers
  <2>3. QED
    BY <2>1, <2>2
<1>4. QED
  BY <1>1, <1>3, CmdFacts, IdleFacts, CmdInv

-----------------------------------------------------------------------------
\* The invariant is inductive.
LEMMA StepInv == IInv /\ [Next]_vars => IInv'
<1> SUFFICES ASSUME IInv, [Next]_vars PROVE IInv'
  OBVIOUS
<1>1. ASSUME NEW p \in Procs, ConnectFails(p) \/ ForwardFails(p) PROVE IInv'
  <2>1. /\ pc[p] \in {"connect", "bind"} /\ Failed(p)
        /\ UNCHANGED <<file, cmd, strangers>>
    BY <1>1 DEF ConnectFails, ForwardFails
  <2>2. QED
    BY <2>1, FailedInv
<1>2. ASSUME NEW p \in Procs, ProcStep(p) PROVE IInv'
  BY <1>1, <1>2, LoadInv, SaveInv, SaveFailsInv, GotoInv, EnvInv DEF ProcStep
<1>3. ASSUME NEW c \in Cmds, CmdStep(c) PROVE IInv'
  BY <1>3, LoadsInv, StopSignalsInv, StopWaitInv, SavesInv DEF CmdStep
<1>4. CASE UNCHANGED vars
  <2>1. UNCHANGED <<pc, file, buf, count, cmd, sig, strangers, raced, refused>>
    BY <1>4 DEF vars, local, marks
  <2>2. SigInv'
    BY <2>1 DEF IInv, SigInv
  <2>3. QED
    BY <2>1, <2>2, StayInv
<1>5. QED
  BY <1>2, <1>3, <1>4, GotoInv, EnvInv DEF Next

\* Every copy of tunnels.json that may still be saved lists the tunnels that
\* have registered, but for those that one of the three exceptions is about.
THEOREM InductiveInvariant == Spec => []IInv
  BY InitInv, StepInv, PTL DEF Spec

\* A tunnel that serves is in tunnels.json under its own pid, for any number of
\* tunnels and commands with overlapping updates and imprecise start times: what
\* overlaps later than its registration cannot lose it.
THEOREM ServingIsListed == Spec => []AllListed
<1>1. IInv => AllListed
  <2> SUFFICES ASSUME IInv, NEW p \in Procs, pc[p] = "serve",
                      p \notin raced \cup refused, ~Twin(p)
               PROVE  file[Of[p]] # NoEntry /\ file[Of[p]].pid = p
    BY DEF AllListed
  <2>1. p \in Kept
    BY DEF Kept, Listed, At
  <2>2. QED
    BY <2>1 DEF IInv, KeptInv, Covers, Lists
<1>2. QED
  BY <1>1, InductiveInvariant, PTL
=============================================================================
