----------------------------- MODULE SessionEscape -----------------------------
(***************************************************************************)
(* The trigger detection of an interactive session (src/ssh/snippet.rs):   *)
(* three EscapeDetectors in a cascade behind a tracker of terminal escape  *)
(* sequences.  A detector's buffered bytes are always the first n bytes of *)
(* its trigger, so n is its whole state; the paste guard compares the time *)
(* between two bytes, of which "fast" keeps the outcome.                   *)
(***************************************************************************)
EXTENDS Integers, Sequences, SequencesExt

CONSTANTS SnippetTrigger, BookmarkTrigger, BrowserTrigger

DropLast(s, n) == SubSeq(s, 1, Len(s) - n)

Res(n, act, bytes) == [n |-> n, act |-> act, bytes |-> bytes]

\* EscapeDetector::feed_with_time(): the next n, and Forward, Buffer or Trigger.
FeedWithTime(n, trigger, byte, fast) ==
  IF trigger = <<>> THEN Res(0, "forward", <<byte>>)
  ELSE IF byte # trigger[n + 1] \/ (n > 0 /\ fast)
       THEN Res(0, "forward", SubSeq(trigger, 1, n) \o <<byte>>)
       ELSE IF n + 1 = Len(trigger) THEN Res(0, "trigger", <<>>)
                                    ELSE Res(n + 1, "buffer", <<>>)

\* MUTANT of FeedUntimed: a mismatch forgets what was buffered.
FeedUntimedVariant(n, trigger, byte) ==
  LET r == FeedWithTime(n, trigger, byte, FALSE)
  IN  IF r.act = "forward" THEN Res(r.n, r.act, <<byte>>) ELSE r

FeedUntimed(n, trigger, byte) == FeedWithTime(n, trigger, byte, FALSE)

\* A flushed run of bytes goes through the next detector; a match returns at once,
\* and what the detector had let through before it is not forwarded.
Cascade(n, trigger, bytes) ==
  FoldLeft(LAMBDA acc, b :
             IF acc.act = "trigger" THEN acc
             ELSE LET r == FeedUntimed(acc.n, trigger, b)
                  IN  Res(r.n, IF r.act = "trigger" THEN "trigger" ELSE "forward",
                          acc.bytes \o r.bytes),
           Res(n, "forward", <<>>), bytes)

\* TermSeqState after a byte: bytes of CSI and SS3 sequences are never looked at.
TermSeq(term, byte) ==
  CASE term = "normal"   -> IF byte = "esc" THEN "afteresc" ELSE "normal"
    [] term = "afteresc" -> IF byte = "[" THEN "csi" ELSE IF byte = "O" THEN "ss3" ELSE "normal"
    [] term = "csi"      -> IF byte \in {"~", "b", "f", "O", "["} THEN "normal" ELSE "csi"
    [] term = "ss3"      -> "normal"

Quiet == [term |-> "normal", snip |-> 0, book |-> 0, brow |-> 0]

\* SessionEscapeHandler::feed(): [h, act, bytes] with the handler's next state.
HandlerFeed(h, byte, fast) ==
  LET term == TermSeq(h.term, byte)
      s  == FeedWithTime(h.snip, SnippetTrigger, byte, fast)
      b  == Cascade(h.book, BookmarkTrigger, s.bytes)
      f  == Cascade(h.brow, BrowserTrigger, b.bytes)
      to(sn, bk, br, act, bytes) ==
        [h |-> [term |-> term, snip |-> sn, book |-> bk, brow |-> br], act |-> act, bytes |-> bytes]
  IN  IF h.term # "normal" \/ term # "normal"
      THEN to(h.snip, h.book, h.brow, "sequence", <<byte>>)
      ELSE IF s.act = "trigger" THEN to(s.n, h.book, h.brow, "snippets", <<>>)
      ELSE IF s.act = "buffer"  THEN to(s.n, h.book, h.brow, "forward", <<>>)
      ELSE IF b.act = "trigger" THEN to(s.n, b.n, h.brow, "bookmark", <<>>)
      ELSE IF f.act = "trigger" THEN to(s.n, b.n, f.n, "browser", <<>>)
      ELSE to(s.n, b.n, f.n, "forward", f.bytes)

\* What the three detectors hold back, oldest first.
Held(h) == SubSeq(BrowserTrigger, 1, h.brow) \o SubSeq(BookmarkTrigger, 1, h.book)
             \o SubSeq(SnippetTrigger, 1, h.snip)

TriggerOf(act) == CASE act = "snippets" -> SnippetTrigger
                    [] act = "bookmark" -> BookmarkTrigger
                    [] act = "browser"  -> BrowserTrigger
================================================================================
