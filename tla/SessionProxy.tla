----------------------------- MODULE SessionProxy -----------------------------
(***************************************************************************)
(* The interactive session: run_proxy_loop() of src/ssh/mod.rs with its    *)
(* password assistant (src/ssh/password.rs), its stdin reader thread       *)
(* (src/ssh/stdin_reader.rs), the trigger detection (SessionEscape), the   *)
(* snippet picker and the save-as-bookmark form (src/ssh/snippet.rs).      *)
(*                                                                         *)
(* Remote output is a sequence of tokens: the two halves "s1", "s2" of a   *)
(* sudo prompt, a generic prompt "gen", white space "nl" and other "text". *)
(* The network cuts it into chunks anywhere.  Time is abstract: the grace  *)
(* timer may fire at any moment after it is armed.                         *)
(***************************************************************************)
EXTENDS SessionEscape, FiniteSets

CONSTANTS
  Real,      \* the line the remote accepts as the sudo password
  InitKc,    \* what the keychain holds for the bookmark at first
  NSnip,     \* snippets the picker shows
  QCap,      \* capacity of the stdin channel (64 in the code)
  Keys,      \* bytes the user types
  MaxKeys,   \* bound on the bytes typed
  MaxOut,    \* bound on the output the remote starts by itself
  Faults,    \* TRUE: the keychain or the local terminal may fail
  None

ASSUME SessionAssumption ==
  /\ NSnip \in Nat /\ QCap \in Nat \ {0} /\ MaxKeys \in Nat /\ MaxOut \in Nat
  /\ Faults \in BOOLEAN

VARIABLES
  loop,    \* select, feed, picker, form, drop, join, save, browser, ended
  after,   \* ProxyAction the inner loop broke with
  h,       \* SessionEscapeHandler
  rest,    \* bytes of the current chunk not yet fed to it
  ui,      \* cursor of the picker, or field_idx of the form
  awaiting, capturing, pending, verify, stored, tail,
           \* awaiting_confirm, capturing_pw, pending_save_pw,
           \* autofill_pending_verify, stored_password, the detector's buffer
  kc,      \* keychain entry of the bookmark
  thread,  \* stdin reader: [loop, chunk]
  queue,   \* stdin channel
  rxOpen, woken,
  remote,  \* [up, mode, line, out]: external, the far side of the channel
  typed, asked,      \* how much was typed, and started by the remote
  owed, garbled,     \* history: bytes not yet forwarded, order broken
  reprompted         \* history: a sudo prompt was seen since the capture

assist == <<awaiting, capturing, pending, verify, stored, tail, kc, reprompted>>
reader == <<thread, queue, rxOpen, woken, typed>>
keys   == <<h, owed, garbled>>
sessionVars == <<loop, after, rest, ui, assist, reader, remote, asked, keys>>

NewReader == [pc |-> "poll", chunk |-> <<>>]

SessionInit ==
  /\ loop = "select" /\ after = "exit" /\ rest = <<>> /\ ui = 0
  /\ h = Quiet /\ owed = <<>> /\ garbled = FALSE
  /\ awaiting = FALSE /\ capturing = None /\ pending = None /\ verify = FALSE
  /\ stored = InitKc /\ kc = InitKc /\ tail = "none" /\ reprompted = FALSE
  /\ thread = NewReader /\ queue = <<>> /\ rxOpen = TRUE /\ woken = FALSE
  /\ remote = [up |-> TRUE, mode |-> "shell", line |-> <<>>, out |-> <<>>]
  /\ typed = 0 /\ asked = 0

----------------------------------------------------------------------------
(* The remote: a shell that may ask for a password, read as a line.        *)

Erase(line) == FoldLeft(LAMBDA acc, b : IF b = "bs" THEN (IF acc = <<>> THEN acc ELSE Front(acc))
                                        ELSE Append(acc, b), <<>>, line)

Receive(bytes) ==
  remote' = IF remote.mode = "pw" THEN [remote EXCEPT !.line = @ \o bytes] ELSE remote

RemoteAsks == \E p \in {<<"s1", "s2">>, <<"gen">>, <<"text">>} :
  /\ remote.up /\ remote.mode = "shell" /\ asked < MaxOut /\ asked' = asked + 1
  /\ remote' = [remote EXCEPT !.mode = IF p = <<"text">> THEN "shell" ELSE "pw",
                              !.line = <<>>, !.out = @ \o p]
  /\ UNCHANGED <<loop, after, rest, ui, assist, reader, keys>>

RemoteReads ==
  /\ remote.up /\ remote.mode = "pw"
  /\ \E i \in 1..Len(remote.line) :
       /\ remote.line[i] \in {"enter", "^c"}
       /\ \A j \in 1..(i - 1) : remote.line[j] \notin {"enter", "^c"}
       /\ LET line == Erase(SubSeq(remote.line, 1, i - 1))
              done == remote.line[i] = "^c" \/ line = Real
          IN remote' = [remote EXCEPT
                  !.mode = IF done THEN "shell" ELSE "pw",
                  !.line = IF done THEN <<>> ELSE SubSeq(@, i + 1, Len(@)),
                  !.out  = @ \o (IF done THEN <<"nl", "text">> ELSE <<"nl", "s1", "s2">>)]
  /\ UNCHANGED <<loop, after, rest, ui, assist, reader, asked, keys>>

RemoteEnds == /\ remote.up /\ remote' = [remote EXCEPT !.up = FALSE]
              /\ UNCHANGED <<loop, after, rest, ui, assist, reader, asked, keys>>

----------------------------------------------------------------------------
(* StdinReader: the thread, the channel it fills, and stop().              *)

\* A read returns a key, or keys that arrived together.
Chunks == {<<k>> : k \in Keys} \cup {<<"~", "~">>, <<"~", "f">>, <<"b", "enter">>}

ReadStdin == \E c \in Chunks :
  /\ thread.pc = "poll" /\ ~woken /\ typed + Len(c) <= MaxKeys
  /\ thread' = [pc |-> "send", chunk |-> c] /\ typed' = typed + Len(c)
  /\ UNCHANGED <<loop, after, rest, ui, assist, queue, rxOpen, woken, remote, asked, keys>>

\* blocking_send(): waits while the channel is full, fails once it is closed.
SendChunk ==
  /\ thread.pc = "send" /\ (rxOpen => Len(queue) < QCap)
  /\ thread' = [pc |-> IF rxOpen THEN "poll" ELSE "dead", chunk |-> <<>>]
  /\ queue' = IF rxOpen THEN Append(queue, thread.chunk) ELSE queue
  /\ UNCHANGED <<loop, after, rest, ui, assist, rxOpen, woken, typed, remote, asked, keys>>

\* The wake pipe, a shutdown request, or the end of stdin.
ReaderLeaves ==
  /\ thread.pc = "poll" /\ thread' = [pc |-> "dead", chunk |-> <<>>]
  /\ UNCHANGED <<loop, after, rest, ui, assist, queue, rxOpen, woken, typed, remote, asked, keys>>

ReaderWoken == woken /\ ReaderLeaves
StdinEnds   == ~woken /\ ReaderLeaves

\* The receiver goes first: a thread blocked in blocking_send() would never be joined.
DropReceiver ==
  /\ loop = "drop" /\ loop' = "join" /\ rxOpen' = FALSE /\ woken' = TRUE
  /\ UNCHANGED <<after, rest, ui, assist, thread, queue, typed, remote, asked, keys>>

JoinReader ==
  /\ loop = "join" /\ thread.pc = "dead" /\ loop' = "save"
  /\ UNCHANGED <<after, rest, ui, assist, reader, remote, asked, keys>>

----------------------------------------------------------------------------
(* The password assistant.                                                 *)

Break(action) == loop' = "drop" /\ after' = action

\* keychain::set_password(): on success the password is also the stored one.
SavePending ==
  /\ pending' = None
  /\ \/ kc' = pending /\ stored' = pending
     \/ Faults /\ UNCHANGED <<kc, stored>>

TimerFires ==
  /\ loop = "select" /\ pending # None /\ SavePending /\ tail' = "none"
  /\ UNCHANGED <<loop, after, rest, ui, awaiting, capturing, verify, reprompted, reader, remote, asked, keys>>

\* PasswordDetector::feed(): which prompt the rolling buffer ends in.
FeedDetector(t, tokens) ==
  FoldLeft(LAMBDA acc, k : CASE k = "s1"   -> "s1"
                             [] k = "s2"   -> IF acc = "s1" THEN "sudo" ELSE "none"
                             [] k = "gen"  -> "gen"
                             [] k = "nl"   -> IF acc = "s1" THEN "none" ELSE acc
                             [] k = "text" -> "none", t, tokens)

Detected(t) == t \in {"sudo", "gen"}

\* MUTANT of Rejected: the retry prompt leaves the captured password pending.
RejectedVariant(t) == /\ t = "sudo" /\ capturing' = <<>> /\ tail' = "none"
                      /\ UNCHANGED <<pending, awaiting, verify, stored, kc>>

\* Another sudo prompt while the captured password is pending: wrong, captured again.
Rejected(t) == /\ t = "sudo" /\ pending' = None /\ capturing' = <<>> /\ tail' = "none"
               /\ UNCHANGED <<awaiting, verify, stored, kc>>

StillPending(t) == t # "sudo" /\ tail' = t /\ UNCHANGED <<pending, capturing, awaiting, verify, stored, kc>>

\* The autofilled password is answered by another prompt: the entry is deleted.
StoredRejected(t) ==
  /\ verify /\ stored # None /\ verify' = FALSE /\ stored' = None
  /\ \/ kc' = None
     \/ Faults /\ UNCHANGED kc
  /\ capturing' = (IF t = "sudo" THEN <<>> ELSE None) /\ tail' = "none"
  /\ UNCHANGED <<awaiting, pending>>

OfferAutofill(t) == /\ ~(verify /\ stored # None) /\ stored # None /\ awaiting' = TRUE /\ tail' = t
                    /\ UNCHANGED <<capturing, pending, verify, stored, kc>>

StartCapture(t) ==
  /\ stored = None /\ capturing' = (IF t = "sudo" THEN <<>> ELSE None) /\ tail' = t
  /\ UNCHANGED <<awaiting, pending, verify, stored, kc>>

PlainOutput(t) == verify' = FALSE /\ tail' = t /\ UNCHANGED <<awaiting, capturing, pending, stored, kc>>

ChannelData == \E n \in 1..Len(remote.out) :
  LET t == FeedDetector(tail, SubSeq(remote.out, 1, n))
  IN /\ loop = "select" /\ remote' = [remote EXCEPT !.out = SubSeq(@, n + 1, Len(@))]
     /\ IF awaiting \/ capturing # None
        THEN UNCHANGED assist
        ELSE /\ IF pending # None
                THEN Rejected(t) \/ StillPending(t)
                ELSE \/ Detected(t) /\ (StoredRejected(t) \/ OfferAutofill(t) \/ StartCapture(t))
                     \/ ~Detected(t) /\ PlainOutput(t)
             /\ reprompted' = (reprompted \/ (pending # None /\ t = "sudo"))
     /\ UNCHANGED <<loop, after, rest, ui, reader, asked, keys>>

\* Exit status, EOF, close or a lost connection; a broken local terminal; SIGHUP, SIGTERM.
ChannelEnds ==
  /\ loop = "select" /\ Break("exit")
  /\ (~remote.up /\ remote.out = <<>>) \/ Faults
  /\ UNCHANGED <<rest, ui, assist, reader, remote, asked, keys>>

StdinClosed ==
  /\ loop = "select" /\ queue = <<>> /\ thread.pc = "dead" /\ Break("exit")
  /\ UNCHANGED <<rest, ui, assist, reader, remote, asked, keys>>

\* Enter sends the stored password; any other key is swallowed and skips the offer.
ConfirmKey(c) ==
  /\ awaiting /\ awaiting' = FALSE /\ tail' = "none"
  /\ verify' = (c[1] = "enter" /\ stored # None)
  /\ IF c[1] = "enter" /\ stored # None /\ remote.up
     THEN Receive(Append(stored, "enter")) ELSE UNCHANGED remote
  /\ UNCHANGED <<loop, after, capturing, pending, stored, kc, reprompted>>

\* What a chunk adds to the captured password, up to its first Enter.
Capture(buffer, c) ==
  FoldLeft(LAMBDA acc, b : IF acc.enter THEN acc
                           ELSE CASE b = "enter" -> [acc EXCEPT !.enter = TRUE]
                                  [] b = "bs" -> [acc EXCEPT !.pw = IF @ = <<>> THEN @ ELSE Front(@)]
                                  [] b \in {"esc", "^c"} -> acc
                                  [] OTHER -> [acc EXCEPT !.pw = Append(@, b)],
           [pw |-> buffer, enter |-> FALSE], c)

CaptureKeys(c) ==
  LET r == Capture(capturing, c)
  IN /\ ~awaiting /\ capturing # None
     /\ IF ~remote.up
        THEN Break("exit") /\ capturing' = r.pw /\ UNCHANGED <<pending, tail, remote, reprompted>>
        ELSE /\ Receive(c)
             /\ capturing' = IF r.enter THEN None ELSE r.pw
             /\ pending' = IF r.enter /\ r.pw # <<>> THEN r.pw ELSE pending
             /\ reprompted' = IF r.enter /\ r.pw # <<>> THEN FALSE ELSE reprompted
             /\ tail' = IF r.enter THEN "none" ELSE tail
             /\ UNCHANGED <<loop, after>>
     /\ UNCHANGED <<awaiting, verify, stored, kc>>

PendingKeys(c) ==
  /\ ~awaiting /\ capturing = None /\ pending # None
  /\ IF remote.up THEN Receive(c) /\ UNCHANGED <<loop, after>> ELSE Break("exit") /\ UNCHANGED remote
  /\ UNCHANGED assist

StdinData ==
  /\ loop = "select" /\ queue # <<>> /\ queue' = Tail(queue)
  /\ \/ (ConfirmKey(Head(queue)) \/ CaptureKeys(Head(queue)) \/ PendingKeys(Head(queue))) /\ UNCHANGED rest
     \/ /\ ~awaiting /\ capturing = None /\ pending = None
        /\ loop' = "feed" /\ rest' = Head(queue) /\ UNCHANGED <<after, assist, remote>>
  /\ UNCHANGED <<ui, thread, rxOpen, woken, typed, asked, keys>>

----------------------------------------------------------------------------
(* Bytes through the trigger detectors, one by one.                        *)

FeedByte == \E fast \in BOOLEAN :
  LET b == Head(rest)
      r == HandlerFeed(h, b, fast)
      all == Append(owed, b)
      due == CASE r.act = "sequence" -> owed
               [] r.act = "forward"  -> all
               [] OTHER              -> DropLast(all, Len(TriggerOf(r.act)))
  IN /\ loop = "feed" /\ rest # <<>> /\ h' = r.h
     /\ garbled' = (garbled \/ (r.act # "sequence" /\ ~IsPrefix(r.bytes, due)))
     /\ owed' = IF r.act = "sequence" \/ ~IsPrefix(r.bytes, due) THEN due
                ELSE SubSeq(due, Len(r.bytes) + 1, Len(due))
     /\ CASE r.act \in {"forward", "sequence"} \/ (r.act = "snippets" /\ NSnip = 0) ->
               IF remote.up \/ r.bytes = <<>>
               THEN Receive(r.bytes) /\ rest' = Tail(rest) /\ UNCHANGED <<loop, after, ui>>
               ELSE Break("exit") /\ rest' = <<>> /\ UNCHANGED <<remote, ui>>
          [] r.act = "snippets" /\ NSnip > 0 ->
               loop' = "picker" /\ ui' = 0 /\ rest' = Tail(rest) /\ UNCHANGED <<after, remote>>
          [] r.act = "bookmark" ->
               loop' = "form" /\ ui' = 1 /\ rest' = Tail(rest) /\ UNCHANGED <<after, remote>>
          [] r.act = "browser" -> Break("browser") /\ rest' = <<>> /\ UNCHANGED <<ui, remote>>
     /\ UNCHANGED <<assist, reader, asked>>

ChunkDone ==
  /\ loop = "feed" /\ rest = <<>> /\ loop' = "select"
  /\ UNCHANGED <<after, rest, ui, assist, reader, remote, asked, keys>>

WrapCursor(cur, delta, n) == IF n = 0 THEN 0 ELSE (cur + delta) % n

\* show_snippet_picker(): the loop waits while the reader thread goes on reading.
PickerKey ==
  /\ loop = "picker"
  /\ \/ \E d \in {-1, 1} : ui' = WrapCursor(ui, d, NSnip) /\ UNCHANGED <<loop, remote>>
     \/ /\ \E command \in {<<"b">>, <<"b", "enter">>} :  \* without and with auto_execute
             IF remote.up THEN Receive(command) ELSE UNCHANGED remote
        /\ ui' = 0 /\ loop' = "feed"
     \/ ui' = 0 /\ loop' = "feed" /\ UNCHANGED remote
  /\ UNCHANGED <<after, rest, assist, reader, asked, keys>>

\* show_save_bookmark_form() for the session's bookmark: Tab moves between the tags
\* and the notes; the result of Enter is written by ConfigStore's locked_modify.
FormKey ==
  /\ loop = "form"
  /\ \/ ui' = 1 + ((ui - 1 + 1) % 2) /\ UNCHANGED loop
     \/ ui' = 0 /\ loop' = "feed"
  /\ UNCHANGED <<after, rest, assist, reader, remote, asked, keys>>

----------------------------------------------------------------------------
(* After the inner loop.                                                   *)

\* MUTANT of EndOrBrowse: an exit leaves the inner loop only.
EndOrBrowseVariant ==
  /\ loop = "save" /\ loop' = (IF after = "exit" THEN "select" ELSE "browser")
  /\ IF pending # None THEN SavePending ELSE UNCHANGED <<pending, kc, stored>>
  /\ UNCHANGED <<after, rest, ui, awaiting, capturing, verify, tail, reprompted, reader, remote, asked, keys>>

EndOrBrowse ==
  /\ loop = "save" /\ loop' = (IF after = "exit" THEN "ended" ELSE "browser")
  /\ IF pending # None THEN SavePending ELSE UNCHANGED <<pending, kc, stored>>
  /\ remote' = IF after = "exit" THEN [remote EXCEPT !.up = FALSE] ELSE remote
  /\ UNCHANGED <<after, rest, ui, awaiting, capturing, verify, tail, reprompted, reader, asked, keys>>

\* launch_browser() is over, with or without an error; a new reader is spawned.
BrowserReturns ==
  /\ loop = "browser" /\ loop' = "select"
  /\ thread' = NewReader /\ queue' = <<>> /\ rxOpen' = TRUE /\ woken' = FALSE
  /\ UNCHANGED <<after, rest, ui, assist, typed, remote, asked, keys>>

Ended == loop = "ended" /\ UNCHANGED sessionVars

Reader == ReadStdin \/ SendChunk \/ ReaderWoken \/ StdinEnds
Remote == RemoteAsks \/ RemoteReads \/ RemoteEnds
Main   == \/ TimerFires \/ ChannelData \/ ChannelEnds \/ StdinClosed \/ StdinData
          \/ FeedByte \/ ChunkDone \/ PickerKey \/ FormKey
          \/ DropReceiver \/ JoinReader \/ EndOrBrowse \/ BrowserReturns
SessionNext == Reader \/ Remote \/ Main \/ Ended

(* The select loop takes a branch that is ready, the thread and the steps  *)
(* after the loop wait for no one else; nothing is assumed of the user or  *)
(* of the remote.                                                          *)
Fairness == /\ WF_sessionVars(SendChunk) /\ WF_sessionVars(ReaderWoken)
            /\ WF_sessionVars(DropReceiver) /\ WF_sessionVars(JoinReader) /\ WF_sessionVars(EndOrBrowse)
            /\ WF_sessionVars(TimerFires)

SessionSpec == SessionInit /\ [][SessionNext]_sessionVars /\ Fairness

----------------------------------------------------------------------------
(* Properties.                                                             *)

\* Types, the picker's cursor on one of its items and the form's on one of its fields.
SessionTypeOK ==
  /\ loop \in {"select", "feed", "picker", "form", "drop", "join", "save", "browser", "ended"}
  /\ after \in {"exit", "browser"} /\ {awaiting, verify, garbled, reprompted} \subseteq BOOLEAN
  /\ loop = "picker" => ui \in 0..(NSnip - 1)
  /\ loop = "form" => ui \in 1..2
  /\ thread.pc \in {"poll", "send", "dead"} /\ Len(queue) <= QCap
  /\ Cardinality({x \in {<<1, awaiting>>, <<2, capturing # None>>, <<3, pending # None>>} : x[2]}) <= 1

\* Trigger detection neither loses, doubles nor reorders keys that are not part of an
\* escape sequence: what was typed, less the triggers, is what was forwarded and then
\* what the three detectors still hold.
KeysInOrder == ~garbled /\ owed = Held(h)

\* A captured password that was answered by another sudo prompt before it was saved
\* never reaches the keychain, however the prompt is cut into chunks.
RejectedNeverSaved == [][kc' # kc /\ kc' # None => ~reprompted]_sessionVars

\* Once the loop breaks, the reader thread is joined and the session ends or shows the
\* browser: the thread is never left waiting on a channel nobody empties.
LeavesLoop == loop = "drop" ~> loop \in {"ended", "browser"}

================================================================================
