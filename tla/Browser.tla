------------------------------- MODULE Browser --------------------------------
(***************************************************************************)
(* The dual-pane file browser (src/tui/views/browser.rs): two panes over   *)
(* two backends, marks kept as indices into the listing on show, prompts   *)
(* as input modes, transfers that run in their own tasks, and the loop     *)
(* that collects them, hands their overwrite queries to the user, draws,   *)
(* and then takes at most one key.                                         *)
(*                                                                         *)
(* A directory listing is a set of names; the left pane is local.  A       *)
(* transfer is what the loop sees of it (its inside is TransferPool):      *)
(* it asks, it is cancelled, it ends.                                      *)
(***************************************************************************)
EXTENDS Integers, Sequences, SequencesExt

CONSTANTS
  Names,          \* entry names
  SubDir,         \* the name that is a directory (at the top of either side)
  Up,             \* the entry ".."
  HiddenNames,    \* names that start with a dot
  Rank,           \* Rank[field][name]: order of the names by each sort field
  Fields,         \* the sort fields, in the order the key cycles them
  Patterns,       \* sets of names a typed filter or glob may match
  LeftTop, RightTop, SubFiles,  \* what the directories hold at the start
  MaxTransfers,   \* bound: transfers listed at a time
  MaxStarts,      \* bound: transfers started
  MaxAsk          \* bound: workers of one transfer waiting for an answer

ASSUME BrowserAssumption ==
  /\ SubDir \in Names /\ Up \notin Names /\ HiddenNames \subseteq Names
  /\ LeftTop \subseteq Names /\ RightTop \subseteq Names /\ SubFiles \subseteq Names \ {SubDir}
  /\ \A f \in DOMAIN Fields : DOMAIN Rank[Fields[f]] = Names \cup {Up}
  /\ {MaxTransfers, MaxStarts, MaxAsk} \subseteq Nat

VARIABLES
  disk,       \* disk[side][dir]: names in a directory
  panes,      \* panes[side]: [cwd, all, entries, selected, marked]
  active,     \* active_pane
  opts,       \* [hidden, sort, asc, filter]
  mode,       \* input_mode
  focus,      \* popup_focus
  popupIndex, \* popup_transfer_index, counted from 1
  bg,         \* background_transfers
  asking,     \* transfer whose query's sender is overwrite_response_tx, or 0
  policy,     \* the overwrite policy shared by the transfers of this browser
  started,    \* transfers started so far
  pc,         \* "poll": collect, ask and draw; "keys": waiting for a key
  redraw,     \* needs_redraw
  stale,      \* something on show changed since the last draw
  life        \* "run", "quit" (clean up) or "failed" (run() returned an error)

vars == <<disk, panes, active, opts, mode, focus, popupIndex, bg, asking, policy,
          started, pc, redraw, stale, life>>

Sides    == {"left", "right"}
Other(s) == IF s = "left" THEN "right" ELSE "left"
NoFilter == Names
Kinds    == {"normal", "filter", "mkdir", "rename", "delete", "select", "copy", "popup",
             "overwrite", "complete", "retry", "help", "goto"}
Plain(k) == [kind |-> k, side |-> "left", dir |-> "top", targets |-> {}, dst |-> "top",
             move |-> FALSE]
Normal   == Plain("normal")

-----------------------------------------------------------------------------
(* Listings.                                                               *)

IsDir(n) == n \in {SubDir, Up}

\* sort_entries(): directories first, then by the field.
Before(a, b) ==
  IF IsDir(a) # IsDir(b) THEN IsDir(a)
  ELSE LET r == Rank[Fields[opts.sort]] IN IF opts.asc THEN r[a] < r[b] ELSE r[b] < r[a]

Shown(all, filter) == <<Up>> \o SelectSeq(all, LAMBDA n : n \in filter)
Least(a, b)        == IF a < b THEN a ELSE b

\* The cursor stays inside the listing.
Clamped(sel, entries) == Least(sel, Len(entries))

\* refilter_pane(): from the cached listing.
Refiltered(p, filter) ==
  LET shown == Shown(p.all, filter)
  IN [p EXCEPT !.entries = shown, !.selected = Clamped(@, shown), !.marked = {}]

\* refresh_pane(): from the backend; the marks go.
Refreshed(p, s, d, o) ==
  LET all   == SetToSortSeq({n \in d[s][p.cwd] : o.hidden \/ n \notin HiddenNames}, Before)
      shown == Shown(all, o.filter)
  IN [p EXCEPT !.all = all, !.entries = shown, !.selected = Clamped(@, shown), !.marked = {}]

Both(ps, d, o) == [s \in Sides |-> Refreshed(ps[s], s, d, o)]

\* The directory of a pane may be gone; then listing it fails.
Lists(s, d) == panes[s].cwd = "top" \/ SubDir \in d[s]["top"]

Pane     == panes[active]
Current  == Pane.entries[Pane.selected]
Marked(s) == {panes[s].entries[i] : i \in panes[s].marked}

\* collect_batch_targets(): the marked entries, else the one at the cursor.
Targets == (IF Pane.marked # {} THEN Marked(active) ELSE {Current}) \ {Up}

-----------------------------------------------------------------------------
(* What the dialogs draw: their buttons (render_button_row()).             *)

PromptButtons    == <<"OK", "Cancel">>
DeleteButtons    == <<"OK", "Cancel">>
CopyButtons      == <<"OK", "Bkgnd", "Cancel">>
OverwriteButtons == <<"Overwrite", "Overwrite all", "Skip", "Skip all", "Cancel">>
RetryButtons     == <<"Retry", "OK">>
SelectItems      == <<"input", "files only", "case sensitive", "OK", "Cancel">>

\* The items the focus may be on, by dialog.
Items(k) ==
  CASE k \in {"mkdir", "rename", "goto"} -> PromptButtons
    [] k = "delete"    -> DeleteButtons
    [] k = "copy"      -> CopyButtons
    [] k = "overwrite" -> OverwriteButtons
    [] k = "retry"     -> RetryButtons
    [] k = "select"    -> SelectItems
    [] OTHER           -> <<>>
Focused == Items(mode.kind)[focus]

\* The transfer the progress popup shows, and the one its keys act on.
PopupAt == Least(popupIndex, Len(bg))

\* What a popup tells, beside the buttons: what it is about.
DeletePopup    == [title |-> "Delete", about |-> mode.targets, warn |-> active = "right"]
CopyPopup      == [title |-> IF mode.move THEN "Move" ELSE "Copy", about |-> mode.targets, to |-> mode.dst]
ProgressPopup  == IF bg = <<>> THEN [title |-> "none"]
                  ELSE [title |-> IF bg[PopupAt].move THEN "Moving" ELSE "Copying",
                        about |-> bg[PopupAt].id, at |-> PopupAt, of |-> Len(bg)]
OverwritePopup == [title |-> "File exists", about |-> asking]
\* draw(): the popup of the mode, and its focused button.
Popup == CASE mode.kind = "delete"    -> DeletePopup
           [] mode.kind = "copy"      -> CopyPopup
           [] mode.kind = "popup"     -> ProgressPopup
           [] mode.kind = "overwrite" -> OverwritePopup
           [] OTHER -> [title |-> mode.kind, about |-> mode.targets]
\* draw_pane(): the listing with its marks and its cursor.
PaneView(s) == [entries |-> panes[s].entries, marks |-> panes[s].marked,
                cursor |-> panes[s].selected, cwd |-> panes[s].cwd, active |-> s = active]
\* build_fkey_bar_hints(): the keys named at the bottom.
Hints == CASE mode.kind = "popup" /\ bg # <<>> -> {"s", "b", "Tab", "Esc"}
           [] mode.kind = "help"               -> {"Up", "Down", "Esc", "?"}
           [] mode.kind \in {"filter", "goto"} -> {"Type", "Enter", "Esc"}
           [] OTHER -> {"F1", "F3", "F5", "F6", "F7", "F8", "v", "/", "Tab", "q"}
Screen == <<PaneView("left"), PaneView("right"), opts.filter, Popup, focus, Hints>>

-----------------------------------------------------------------------------
(* The state at the start and the frame of a key.                          *)

Init ==
  /\ disk = [s \in Sides |-> [top |-> IF s = "left" THEN LeftTop ELSE RightTop, sub |-> SubFiles]]
  /\ opts = [hidden |-> FALSE, sort |-> 1, asc |-> TRUE, filter |-> NoFilter]
  /\ panes = [s \in Sides |->
       LET all == SetToSortSeq(disk[s]["top"] \ HiddenNames,
                               LAMBDA a, b : IF IsDir(a) # IsDir(b) THEN IsDir(a)
                                             ELSE Rank[Fields[1]][a] < Rank[Fields[1]][b])
       IN [cwd |-> "top", all |-> all, entries |-> <<Up>> \o all, selected |-> 1, marked |-> {}]]
  /\ active = "left"
  /\ mode = Normal /\ focus = 1 /\ popupIndex = 1
  /\ bg = <<>> /\ asking = 0 /\ policy = 0 /\ started = 0
  /\ pc = "poll" /\ redraw = TRUE /\ stale = TRUE /\ life = "run"

\* A key is handled in a mode: the next round of the loop draws again.
Key(k) ==
  /\ life = "run" /\ pc = "keys" /\ mode.kind = k
  /\ pc' = "poll" /\ redraw' = TRUE
Notes == stale' = (stale \/ Screen' # Screen)
\* What most keys leave alone.
NoTransfers == UNCHANGED <<bg, asking, policy, started, popupIndex>>
Keeps       == UNCHANGED life /\ Notes
SetPanes(ps) == panes' = ps
SetPane(p)   == SetPanes([panes EXCEPT ![active] = p])
Open(m)      == mode' = m /\ focus' = 1
Close        == mode' = Normal /\ UNCHANGED focus

\* run() returns: what it kept is dropped, and only the disks remain.
NoPane  == [cwd |-> "top", all |-> <<>>, entries |-> <<Up>>, selected |-> 1, marked |-> {}]
Dropped ==
  /\ panes' = [s \in Sides |-> NoPane]
  /\ opts' = [hidden |-> FALSE, sort |-> 1, asc |-> TRUE, filter |-> NoFilter]
  /\ active' = "left" /\ mode' = Normal /\ focus' = 1 /\ popupIndex' = 1
  /\ asking' = 0 /\ policy' = 0 /\ started' = 0
  /\ pc' = "poll" /\ redraw' = FALSE /\ stale' = FALSE

\* A backend call of a handler fails and "?" carries the error out of run():
\* the list of transfers is dropped with it, and nobody cancels them.
Fails ==
  /\ life = "run" /\ life' = "failed"
  /\ pc = "keys" \/ bg # <<>>
  /\ Dropped /\ bg' = <<>> /\ UNCHANGED disk

-----------------------------------------------------------------------------
(* handle_key(): the keys of the normal mode.                              *)

\* q, F10 or Esc leave the loop; so do a dead terminal and a signal, whatever
\* the mode.  What is in flight is cancelled, waited for (three seconds at
\* most), and dropped.
Quit ==
  /\ life = "run" /\ pc = "keys" /\ life' = "quit"
  /\ Dropped /\ bg' = <<>> /\ UNCHANGED disk

\* Esc and Ctrl-C cancel every transfer; Esc without one clears the filter.
CancelAll == [i \in DOMAIN bg |-> [bg[i] EXCEPT !.cancel = TRUE]]
CancelKey ==
  /\ Key("normal") /\ bg # <<>>
  /\ bg' = CancelAll
  /\ UNCHANGED <<disk, panes, active, opts, mode, focus, popupIndex, asking, policy, started>>
  /\ Keeps
ClearFilter ==
  /\ Key("normal") /\ bg = <<>> /\ opts.filter # NoFilter
  /\ opts' = [opts EXCEPT !.filter = NoFilter]
  /\ SetPane(Refiltered(Pane, NoFilter))
  /\ UNCHANGED <<disk, active, mode, focus>> /\ NoTransfers /\ Keeps

\* p: the progress popup, at the latest transfer.
ShowPopup ==
  /\ Key("normal") /\ bg # <<>>
  /\ mode' = Plain("popup") /\ popupIndex' = Len(bg)
  /\ UNCHANGED <<disk, panes, active, opts, focus, bg, asking, policy, started>>
  /\ Keeps

\* Tab: the other pane.
SwitchPane ==
  /\ Key("normal")
  /\ active' = Other(active)
  /\ UNCHANGED <<disk, panes, opts, mode, focus>> /\ NoTransfers /\ Keeps

\* Up, Down, PageUp, PageDown, Home, End.
MoveCursor ==
  /\ Key("normal")
  /\ \E i \in {Pane.selected - 1, Pane.selected + 1, 1, Len(Pane.entries)} :
       i \in DOMAIN Pane.entries /\ SetPane([Pane EXCEPT !.selected = i])
  /\ UNCHANGED <<disk, active, opts, mode, focus>> /\ NoTransfers /\ Keeps

\* v, Insert: mark or unmark the entry at the cursor, and move down.
ToggleMark ==
  LET i  == Pane.selected
      on == i \notin Pane.marked
  IN /\ Key("normal")
     /\ panes' = [panes EXCEPT ![active] =
          [@ EXCEPT !.marked = IF on THEN @ \cup {i} ELSE @ \ {i},
                    !.selected = Least(i + 1, Len(Pane.entries))]]
     /\ UNCHANGED <<disk, active, opts, mode, focus>> /\ NoTransfers /\ Keeps

\* s, S: the entries on show are sorted again, ".." among them; the cached
\* listing, the cursor and the marks are not.
SortKey ==
  /\ Key("normal")
  /\ \E o \in {[opts EXCEPT !.sort = (@ % Len(Fields)) + 1], [opts EXCEPT !.asc = ~@]} :
       LET earlier(a, b) ==
             IF IsDir(a) # IsDir(b) THEN IsDir(a)
             ELSE LET r == Rank[Fields[o.sort]] IN IF o.asc THEN r[a] < r[b] ELSE r[b] < r[a]
       IN /\ opts' = o
          /\ panes' = [panes EXCEPT ![active].entries =
                         SetToSortSeq({Pane.entries[i] : i \in DOMAIN Pane.entries}, earlier)]
  /\ UNCHANGED <<disk, active, mode, focus>> /\ NoTransfers /\ Keeps

\* Ctrl-R, and "." which also shows or hides the hidden files.
RefreshKey ==
  /\ Key("normal")
  /\ \A s \in Sides : Lists(s, disk)
  /\ \E o \in {opts, [opts EXCEPT !.hidden = ~@]} :
       opts' = o /\ SetPanes(Both(panes, disk, o))
  /\ UNCHANGED <<disk, active, mode, focus>> /\ NoTransfers /\ Keeps

\* The active pane goes to a directory: cursor on top, or on the directory it
\* came out of; the filter of both panes is dropped.
Goes(dir) ==
  LET o    == [opts EXCEPT !.filter = NoFilter]
      p    == Refreshed([Pane EXCEPT !.cwd = dir, !.selected = 1], active, disk, o)
      from == {i \in DOMAIN p.entries : Pane.cwd = "sub" /\ dir = "top" /\ p.entries[i] = SubDir}
  IN /\ opts' = o
     /\ SetPane(IF from = {} THEN p ELSE [p EXCEPT !.selected = CHOOSE i \in from : TRUE])

\* Enter, F3 on a directory, Backspace.
EnterDir ==
  /\ Key("normal")
  /\ \/ Current = SubDir /\ Pane.cwd = "top" /\ Lists(active, disk)
        /\ SubDir \in disk[active]["top"] /\ Goes("sub")
     \/ Goes("top")
  /\ UNCHANGED <<disk, active, mode, focus>> /\ NoTransfers /\ Keeps

\* F3 on a file: fetch it, run the pager, draw everything again.
ViewFile ==
  /\ Key("normal") /\ ~IsDir(Current)
  /\ UNCHANGED <<disk, panes, active, opts, mode, focus>> /\ NoTransfers /\ Keeps

\* The keys that open a dialog.
Dialog(k, targets, move) ==
  [kind |-> k, side |-> active, dir |-> Pane.cwd, targets |-> targets,
   dst |-> panes[Other(active)].cwd, move |-> move]
OpenDialog ==
  /\ Key("normal")
  /\ \/ Open(Plain("mkdir")) \/ Open(Plain("select")) \/ Open(Plain("goto"))
     \/ Targets # {} /\ \E move \in BOOLEAN : Open(Dialog("copy", Targets, move))
     \/ Targets # {} /\ Open(Dialog("delete", Targets, FALSE))
     \/ Current # Up /\ Open(Dialog("rename", {Current}, FALSE))
     \/ (mode' = Plain("filter") \/ mode' = Plain("help")) /\ UNCHANGED focus
  /\ UNCHANGED <<disk, panes, active, opts>> /\ NoTransfers /\ Keeps

-----------------------------------------------------------------------------
(* start_copy_transfer()                                                   *)

\* A session or a worker cannot be opened, or the transfer joins the list;
\* then the marks of the source pane go.
StartCopy(m, background) ==
  \/ mode' = Normal /\ UNCHANGED <<bg, started, popupIndex, panes>>
  \/ /\ Len(bg) < MaxTransfers /\ started < MaxStarts
     /\ started' = started + 1
     /\ bg' = Append(bg, [id |-> started + 1, side |-> m.side, dir |-> m.dir, dst |-> m.dst,
                          targets |-> m.targets, move |-> m.move, cancel |-> FALSE,
                          queue |-> 0, blocked |-> 0, done |-> "run"])
     /\ popupIndex' = Len(bg) + 1
     /\ SetPanes([panes EXCEPT ![m.side].marked = {}])
     /\ mode' = IF background THEN Normal ELSE Plain("popup")

-----------------------------------------------------------------------------
(* handle_input_mode(): one action per dialog.                             *)

\* Tab and the arrows walk over the items that are drawn.
MoveFocus ==
  \E k \in Kinds :
    /\ Key(k) /\ Items(k) # <<>>
    /\ \E step \in {1, Len(Items(k)) - 1} : focus' = ((focus - 1 + step) % Len(Items(k))) + 1
    /\ UNCHANGED <<disk, panes, active, opts, mode>> /\ NoTransfers /\ Keeps

\* The help, a finished transfer, and the answers that only dismiss.
CloseHelp ==
  /\ Key("help") /\ Close
  /\ UNCHANGED <<disk, panes, active, opts>> /\ NoTransfers /\ Keeps
DismissResult ==
  /\ Key("complete") \/ Key("retry")
  /\ \A s \in Sides : Lists(s, disk)
  /\ Close /\ SetPanes(Both(panes, disk, opts))
  /\ UNCHANGED <<disk, active, opts>> /\ NoTransfers /\ Keeps
Retry ==
  /\ Key("retry") /\ Focused = "Retry"
  /\ StartCopy(mode, FALSE)
  /\ UNCHANGED <<disk, active, opts, focus, asking, policy>> /\ Keeps

\* The progress popup: the next transfer, or to the background.
PopupNext ==
  /\ Key("popup") /\ Len(bg) > 1
  /\ popupIndex' = (popupIndex % Len(bg)) + 1
  /\ UNCHANGED <<disk, panes, active, opts, mode, focus, bg, asking, policy, started>>
  /\ Keeps
PopupHide ==
  /\ Key("popup")
  /\ \A s \in Sides : Lists(s, disk)
  /\ Close /\ SetPanes(Both(panes, disk, opts))
  /\ UNCHANGED <<disk, active, opts>> /\ NoTransfers /\ Keeps

\* Esc: the transfer on show is cancelled and leaves the list, with whatever
\* it has stored; its queries are dropped.
PopupCancel ==
  /\ Key("popup") /\ bg # <<>>
  /\ \A s \in Sides : Lists(s, disk)
  /\ LET t == bg[PopupAt]
     IN \E got \in SUBSET t.targets :
          LET d == [disk EXCEPT ![Other(t.side)][t.dst] = @ \cup got]
          IN disk' = d /\ SetPanes(Both(panes, d, opts))
  /\ bg' = RemoveAt(bg, PopupAt)
  /\ popupIndex' = IF popupIndex > Len(bg') /\ bg' # <<>> THEN Len(bg') ELSE popupIndex
  /\ mode' = IF bg' = <<>> THEN Normal ELSE mode
  /\ UNCHANGED <<active, opts, focus, asking, policy, started>> /\ Keeps

\* The overwrite prompt: "all" sets the policy of every transfer and answers
\* every query that waits; Esc cancels the transfer that asked.
Answered(t, n)  == [t EXCEPT !.blocked = @ - n]
Drained(t)      == [Answered(t, t.queue) EXCEPT !.queue = 0]
AnswerOne(list) == [i \in DOMAIN list |-> IF list[i].id = asking THEN Answered(list[i], 1) ELSE list[i]]
Overwrite ==
  /\ Key("overwrite")
  /\ \/ /\ Focused \in {"Overwrite all", "Skip all"}
        /\ policy' = IF Focused = "Overwrite all" THEN 1 ELSE 2
        /\ bg' = AnswerOne([i \in DOMAIN bg |-> Drained(bg[i])])
        /\ mode' = Plain("popup")
     \/ /\ Focused \in {"Overwrite", "Skip"}
        /\ bg' = AnswerOne(bg) /\ mode' = Plain("popup")
        /\ UNCHANGED policy
     \/ /\ \/ Focused = "Cancel" /\ mode' = Plain("popup")
           \/ mode' = Normal
        /\ bg' = [i \in DOMAIN bg |-> IF bg[i].id = asking
                                      THEN [Answered(bg[i], 1) EXCEPT !.cancel = TRUE] ELSE bg[i]]
        /\ UNCHANGED policy
  /\ asking' = 0
  /\ UNCHANGED <<disk, panes, active, opts, focus, popupIndex, started>> /\ Keeps

\* Copy or move: in the foreground, in the background, or not at all.
CopyDialog ==
  /\ Key("copy")
  /\ \/ Focused = "OK" /\ StartCopy(mode, FALSE)
     \/ StartCopy(mode, TRUE)
     \/ Close /\ UNCHANGED <<bg, started, popupIndex, panes>>
  /\ UNCHANGED <<disk, active, opts, focus, asking, policy>> /\ Keeps

\* MUTANT of DeleteTargets: what is marked when the user confirms.
DeleteTargetsVariant == Targets

\* What the delete dialog listed.
DeleteTargets == mode.targets

\* Delete: one call per entry; the first failure ends the browser.
DeleteDialog ==
  /\ Key("delete") /\ Close
  /\ \/ LET d == [disk EXCEPT ![active][Pane.cwd] = @ \ DeleteTargets]
        IN disk' = d /\ Lists(active, d) /\ SetPane(Refreshed(Pane, active, d, opts))
     \/ UNCHANGED <<disk, panes>>
  /\ UNCHANGED <<active, opts>> /\ NoTransfers /\ Keeps
DeleteFails ==
  /\ life = "run" /\ pc = "keys" /\ mode.kind = "delete" /\ life' = "failed"
  /\ \E gone \in SUBSET DeleteTargets :
       gone # DeleteTargets /\ disk' = [disk EXCEPT ![active][Pane.cwd] = @ \ gone]
  /\ Dropped /\ bg' = <<>>

\* mkdir and rename: a refused name or a failing call is only reported.
MkdirDialog ==
  /\ Key("mkdir") /\ Close
  /\ \/ /\ Focused = "OK" /\ Pane.cwd = "top"
        /\ LET d == [disk EXCEPT ![active]["top"] = @ \cup {SubDir}]
           IN disk' = d /\ SetPane(Refreshed(Pane, active, d, opts))
     \/ UNCHANGED <<disk, panes>>
  /\ UNCHANGED <<active, opts>> /\ NoTransfers /\ Keeps
RenameDialog ==
  /\ Key("rename") /\ Close
  /\ \/ /\ Focused = "OK" /\ mode.targets \cap {SubDir} = {} /\ Lists(active, disk)
        /\ \E n \in Names \ {SubDir} :
             LET d == [disk EXCEPT ![active][Pane.cwd] = (@ \ mode.targets) \cup {n}]
             IN disk' = d /\ SetPane(Refreshed(Pane, active, d, opts))
     \/ UNCHANGED <<disk, panes>>
  /\ UNCHANGED <<active, opts>> /\ NoTransfers /\ Keeps

\* Go to a path.
GotoDialog ==
  /\ Key("goto") /\ Close
  /\ \/ Focused = "OK" /\ SubDir \in disk[active]["top"] /\ Goes("sub")
     \/ Focused = "OK" /\ Goes("top")
     \/ UNCHANGED <<opts, panes>>
  /\ UNCHANGED <<disk, active>> /\ NoTransfers /\ Keeps

\* Mark or unmark what a glob matches, on Enter or on the OK item.
SelectDialog ==
  /\ Key("select") /\ Close
  /\ \/ /\ Focused # "Cancel"
        /\ \E p \in Patterns, filesOnly, on \in BOOLEAN :
             LET hit == {i \in DOMAIN Pane.entries : Pane.entries[i] \in
                           p \ (IF filesOnly THEN {SubDir} ELSE {})}
             IN panes' = [panes EXCEPT ![active].marked = IF on THEN @ \cup hit ELSE @ \ hit]
     \/ UNCHANGED <<panes>>
  /\ UNCHANGED <<disk, active, opts>> /\ NoTransfers /\ Keeps

\* The filter is applied at every keystroke; Enter keeps it, Esc drops it.
FilterDialog ==
  /\ Key("filter")
  /\ \/ \E f \in Patterns \cup {NoFilter} :
          /\ opts' = [opts EXCEPT !.filter = f] /\ SetPane(Refiltered(Pane, f))
          /\ mode' = mode \/ (f = NoFilter /\ mode' = Normal)
     \/ mode' = Normal /\ UNCHANGED <<opts, panes>>
  /\ UNCHANGED <<disk, active, focus>> /\ NoTransfers /\ Keeps

\* Esc leaves the text dialogs.
EscDialog ==
  /\ \E k \in {"mkdir", "rename", "goto", "select"} : Key(k)
  /\ Close
  /\ UNCHANGED <<disk, panes, active, opts>> /\ NoTransfers /\ Keeps

-----------------------------------------------------------------------------
(* The transfers, as the loop sees them.                                   *)

Frozen == UNCHANGED <<panes, active, opts, mode, focus, popupIndex, asking, policy, started,
                      pc, redraw, stale, life>>

\* A worker finds an existing file and asks; the policy it read may be old.
Asks(i) ==
  /\ life = "run" /\ i \in DOMAIN bg /\ bg[i].done = "run" /\ bg[i].blocked < MaxAsk
  /\ bg' = [bg EXCEPT ![i].queue = @ + 1, ![i].blocked = @ + 1]
  /\ UNCHANGED disk /\ Frozen

\* run_background_transfer() returns: some of the targets are there; the
\* files of a move that arrived are gone from the source.
Ends(i) ==
  /\ life = "run" /\ i \in DOMAIN bg /\ bg[i].done = "run" /\ bg[i].blocked = 0
  /\ LET t == bg[i]
     IN \E got \in SUBSET t.targets, outcome \in {"ok", "error"} :
          /\ got = t.targets \/ outcome = "error" \/ t.cancel
          /\ bg' = [bg EXCEPT ![i].done = outcome]
          /\ disk' = [disk EXCEPT ![Other(t.side)][t.dst] = @ \cup got,
                                  ![t.side][t.dir] = IF t.move THEN @ \ (got \ {SubDir}) ELSE @]
  /\ Frozen

-----------------------------------------------------------------------------
(* The loop: refresh, collect, ask, draw.                                  *)

Round == life = "run" /\ pc = "poll"

\* During transfers the local pane is listed again every two seconds.
AutoRefresh ==
  /\ Round /\ bg # <<>> /\ Lists("left", disk)
  /\ SetPanes([panes EXCEPT !["left"] = Refreshed(@, "left", disk, opts)])
  /\ redraw' = TRUE
  /\ UNCHANGED <<disk, active, opts, mode, focus, popupIndex, bg, asking, policy, started, pc, life>>
  /\ Notes

\* MUTANT of Completion: the result popup is left for the next redraw.
CompletionVariant(t, list) == IF mode.kind = "popup" /\ list = <<>> THEN redraw ELSE TRUE

\* Whether collecting a transfer asks for a redraw.
Completion(t, list) == TRUE

\* A finished transfer is taken off the list.  Its result is shown only if
\* the popup is open and it was the last one; a move that went well removes
\* the directories it came from; the panes it touched are listed again.
FirstDone == CHOOSE i \in DOMAIN bg :
  bg[i].done # "run" /\ \A j \in DOMAIN bg : bg[j].done # "run" => i <= j
ResultMode(t) == [kind |-> IF t.done = "error" THEN "retry" ELSE "complete", side |-> t.side,
                  dir |-> t.dir, targets |-> t.targets, dst |-> t.dst, move |-> t.move]
Collect ==
  /\ Round /\ \E i \in DOMAIN bg : bg[i].done # "run"
  /\ LET t    == bg[FirstDone]
         list == RemoveAt(bg, FirstDone)
         d    == IF t.move /\ t.done = "ok"
                 THEN [disk EXCEPT ![t.side][t.dir] = @ \ (t.targets \cap {SubDir})] ELSE disk
         seen == {Other(t.side)} \cup (IF t.move THEN {t.side} ELSE {})
     IN /\ bg' = list /\ disk' = d
        /\ IF mode.kind = "popup" /\ list = <<>>
           THEN Open(ResultMode(t)) ELSE UNCHANGED <<mode, focus>>
        /\ popupIndex' = IF popupIndex > Len(list) /\ list # <<>> THEN Len(list) ELSE popupIndex
        /\ \A s \in seen : Lists(s, d)
        /\ SetPanes([s \in Sides |-> IF s \in seen THEN Refreshed(panes[s], s, d, opts) ELSE panes[s]])
        /\ redraw' = Completion(t, list)
  /\ UNCHANGED <<active, opts, asking, policy, started, pc, life>>
  /\ Notes

\* MUTANT of MayAsk: a prompt may replace the one that is open.
MayAskVariant == TRUE

\* Queries are looked at only while no prompt is open.
MayAsk == mode.kind # "overwrite"

\* The queries of cancelled transfers, and of all once a policy is set, are
\* answered without asking; the first other query becomes the prompt.
AskAndDraw ==
  /\ Round /\ \A i \in DOMAIN bg : bg[i].done = "run"
  /\ LET open  == {i \in DOMAIN bg : ~bg[i].cancel /\ policy = 0 /\ bg[i].queue > 0}
         first == CHOOSE i \in open : \A j \in open : i <= j
         upTo  == IF open = {} THEN Len(bg) ELSE first - 1
         drawn == redraw \/ bg # <<>>
     IN /\ IF ~MayAsk THEN UNCHANGED <<bg, asking, mode, focus>>
           ELSE /\ bg' = [i \in DOMAIN bg |-> IF i <= upTo THEN Drained(bg[i])
                                              ELSE IF i = upTo + 1 THEN [bg[i] EXCEPT !.queue = @ - 1]
                                              ELSE bg[i]]
                /\ IF open = {} THEN UNCHANGED <<asking, mode, focus>>
                   ELSE asking' = bg[first].id /\ Open(Plain("overwrite"))
        /\ redraw' = FALSE
        /\ stale' = (~drawn /\ stale)
  /\ pc' = "keys"
  /\ UNCHANGED <<disk, panes, active, opts, popupIndex, policy, started, life>>

\* No key within the poll interval.
Timeout ==
  /\ life = "run" /\ pc = "keys"
  /\ pc' = "poll"
  /\ UNCHANGED <<disk, panes, active, opts, mode, focus, popupIndex, bg, asking, policy, started,
                 redraw, stale, life>>

Over == life # "run" /\ UNCHANGED vars

NormalKey == \/ Quit \/ CancelKey \/ ClearFilter \/ ShowPopup \/ SwitchPane \/ MoveCursor
             \/ ToggleMark \/ SortKey \/ RefreshKey \/ EnterDir \/ ViewFile \/ OpenDialog
DialogKey == \/ MoveFocus \/ CloseHelp \/ DismissResult \/ Retry \/ PopupNext \/ PopupHide
             \/ PopupCancel \/ Overwrite \/ CopyDialog \/ DeleteDialog \/ DeleteFails
             \/ MkdirDialog \/ RenameDialog \/ GotoDialog \/ SelectDialog \/ FilterDialog \/ EscDialog
Next == \/ NormalKey \/ DialogKey \/ Fails
        \/ \E i \in 1 .. MaxTransfers : Asks(i) \/ Ends(i)
        \/ AutoRefresh \/ Collect \/ AskAndDraw \/ Timeout \/ Over

Spec == Init /\ [][Next]_vars

-----------------------------------------------------------------------------
(* Properties.                                                             *)

\* Every cursor and every mark points into the listing on show, the focus is
\* on an item its dialog draws, and the popup has a transfer to show
\* (refresh_pane(), refilter_pane(), handle_input_mode()).
TypeOK ==
  /\ \A s \in Sides : LET p == panes[s] IN
       /\ p.selected \in DOMAIN p.entries /\ p.marked \subseteq DOMAIN p.entries
       /\ p.cwd \in {"top", "sub"} /\ disk[s] \in [{"top", "sub"} -> SUBSET Names]
  /\ mode.kind \in Kinds
  /\ Items(mode.kind) # <<>> => focus \in DOMAIN Items(mode.kind)
  /\ bg # <<>> => popupIndex \in 1 .. MaxStarts
  /\ life \in {"run", "quit", "failed"} /\ policy \in 0 .. 2

\* No query is lost: while the browser runs, every worker that waits for an
\* answer has its query in the channel or on the screen, and a prompt on the
\* screen belongs to a worker that waits (overwrite_response_tx is one slot).
NoQueryLost ==
  life = "run" =>
    /\ (mode.kind = "overwrite") <=> (asking # 0)
    /\ asking # 0 => \E i \in DOMAIN bg : bg[i].id = asking
    /\ \A i \in DOMAIN bg :
         bg[i].blocked = bg[i].queue + (IF bg[i].id = asking THEN 1 ELSE 0)

\* A key removes only entries its dialog listed, on the side and in the
\* directory it listed them, whatever was refreshed in between
\* (ConfirmDelete keeps paths, not indices).
RemovesOnlyListed ==
  [][\A s \in Sides, d \in {"top", "sub"} :
       pc = "keys" /\ disk'[s][d] # disk[s][d] /\ ~(disk[s][d] \subseteq disk'[s][d])
         => \/ /\ mode.kind \in {"delete", "rename"} /\ s = mode.side /\ d = mode.dir
               /\ disk[s][d] \ disk'[s][d] \subseteq mode.targets
            \/ \E i \in DOMAIN bg : i \in DOMAIN bg' /\ bg'[i].done # bg[i].done
    ]_vars

\* A key is always applied to what is on the screen: whenever the loop waits
\* for one, nothing has changed since the last draw (needs_redraw).
KeysSeeTheScreen == pc = "keys" => ~stale

===============================================================================
