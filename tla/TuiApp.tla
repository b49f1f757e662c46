------------------------------- MODULE TuiApp -------------------------------
(* The list TUI (tui/mod.rs): one unified list of bookmarks and groups, the   *)
(* add/edit form, the delete confirmation, search and filters, the mux screen *)
(* of a group with its background shell, and the way out to an SSH session    *)
(* and back.  Screens carry indices into the configuration, passwords live in *)
(* the OS keychain under the entry's name, and results of background tasks    *)
(* carry the index of their group: three places where one index or name must  *)
(* keep meaning the same entry.                                               *)
(* One action is one turn of event_loop: the key's handler and the mux action *)
(* it leaves behind.                                                          *)
EXTENDS EntryForm, FiniteSets, Integers

CONSTANTS
  InitConfigs,  \* configurations on disk at the first start
  Queries,      \* texts the search prompt can hold
  InitStored,   \* ids of InitConfigs' entries that have a password
  MaxId,        \* bound: entries ever created (ids)
  MaxFaults,    \* bound: failing saves and keychain calls
  MaxOpens,     \* bound: background shells opened
  MaxLeaves,    \* bound: times the TUI is left for a session
  MaxSaves      \* bound: forms saved

VARIABLES
  life,      \* "running", "away" (in a session), "quit" or "panicked"
  cfg,       \* app.config: [bms, grps], sequences of entries
  disk,      \* the configuration file
  kc,        \* keychain: [name -> id whose password it is, or 0]
  ui,        \* screen, dialogs, filters and selection
  conns,     \* mux_connections: [group index -> [st, chan, n]]; n is a ghost, the
             \* number of the opening all its results are from, 0 otherwise
  tasks,     \* shells being opened and results not yet applied
  opened,    \* ghost: id of the entry highlighted when the screen was opened
  gave,      \* ghost: ids whose user stored a password and did not clear it
  wasGroup,  \* ghost: ids that were a group at some time
  count      \* ids, faults, opens, leaves and saves used

vars == <<life, cfg, disk, kc, ui, conns, tasks, opened, gave, wasGroup, count>>
store == <<cfg, disk, kc, gave, wasGroup>>
mux == <<conns, tasks>>

Marker == 100          \* GROUP_INDEX_MARKER
TempName == "group/session"    \* display name of a group's session
TempId == MaxId + 1
KeyNames == Names \cup {TempName}
NoConn == [st |-> "none", chan |-> 0, n |-> 0]
NoConfirm == [open |-> FALSE]
List == [at |-> "list", idx |-> 0]
GroupIdx == 1..(MaxId + MaxLeaves)

Text == Names \cup SNames \cup {"", "secret", TempName}
EntrySet == [id : Nat \ {0}, name : Text, env : Envs, sessions : Seq(Text)]
ConfigSet == [bms : Seq(EntrySet), grps : Seq(EntrySet)]
Size(c) == Len(c.bms) + Len(c.grps)
Entries(c) == {c.bms[i] : i \in DOMAIN c.bms} \cup {c.grps[i] : i \in DOMAIN c.grps}

\* A list never grows to the marker, and no two entries of a file are equal.
ASSUME TuiAssumption ==
  /\ {MaxId, MaxFaults, MaxOpens, MaxLeaves, MaxSaves} \subseteq Nat
  /\ MaxId + MaxLeaves < Marker
  /\ \A c \in InitConfigs :
       c \in ConfigSet /\ Size(c) = Cardinality(Entries(c)) /\ Size(c) <= MaxId

-----------------------------------------------------------------------------
(* The unified list: indices of bookmarks, then Marker + index of groups.     *)

Shows(e, query, env) ==
  /\ query = "" \/ query = e.name
  /\ env = "" \/ env = e.env

Indices(seq, base, query, env) ==
  LET upTo[n \in 0 .. Len(seq)] ==
        IF n = 0 THEN <<>>
        ELSE IF Shows(seq[n], query, env) THEN Append(upTo[n - 1], base + n) ELSE upTo[n - 1]
  IN  upTo[Len(seq)]

Clamp(sel, len) == IF len = 0 THEN 1 ELSE IF sel > len THEN len ELSE sel

Refilter(u, c) ==
  LET all == Indices(c.bms, 0, u.query, u.env) \o
             Indices(c.grps, Marker, u.query, u.env)
  IN  [u EXCEPT !.filtered = all, !.selected = Clamp(@, Len(all))]

\* MUTANT of SelectedItem: the position in the list is taken for the index.
SelectedItemVariant(u) ==
  IF u.filtered = <<>> THEN 0
  ELSE IF u.filtered[u.selected] > Marker
       THEN u.filtered[u.selected] ELSE u.selected

\* What selected_bookmark_index or selected_group_index answers; 0 for None.
SelectedItem(u) == IF u.filtered = <<>> THEN 0 ELSE u.filtered[u.selected]

Entry(c, item) == IF item > Marker THEN c.grps[item - Marker] ELSE c.bms[item]

\* render_bookmark_table: one row per item, the selected one highlighted.
DrawnRows(u, c) == [k \in DOMAIN u.filtered |-> Entry(c, u.filtered[k])]

\* The entry the highlighted row of the table shows.
Highlighted(u, c) == DrawnRows(u, c)[u.selected]

IsBookmark(item) == item \in 1..(Marker - 1)
IsGroupItem(item) == item > Marker

-----------------------------------------------------------------------------
(* Saving and the keychain.                                                   *)

SaveFails(failed) == IF "save" \in failed THEN 1 ELSE 0
Faults(n) == count.faults + n <= MaxFaults

Saved(c, failed) == IF "save" \in failed THEN disk ELSE c

\* MUTANT of Migrated: the old name's entry is left behind.
MigratedVariant(k, old, new, failed) ==
  IF k[old] = 0 \/ "get" \in failed THEN k
  ELSE [k EXCEPT ![new] = IF "set" \in failed THEN @ ELSE k[old]]

\* A renamed entry takes its password along: read, stored under the new name,
\* removed under the old one; a failing step does not stop the next one.
Migrated(k, old, new, failed) ==
  IF k[old] = 0 \/ "get" \in failed THEN k
  ELSE [n \in KeyNames |->
          CASE n = old -> IF "delete" \in failed THEN k[n] ELSE 0
            [] n = new /\ n # old -> IF "set" \in failed THEN k[n] ELSE k[old]
            [] OTHER -> k[n]]

\* The password field of the form, applied after the migration.
WithPassword(k, f, id, failed) ==
  CASE ~f.modified -> k
    [] f.modified /\ f.pw # "" ->
         IF "setpw" \in failed THEN k ELSE [k EXCEPT ![f.name] = id]
    [] f.modified /\ f.pw = "" /\ f.stored ->
         IF "delpw" \in failed THEN k ELSE [k EXCEPT ![f.name] = 0]
    [] OTHER -> k

Calls == {"save", "get", "set", "delete", "setpw", "delpw"}

-----------------------------------------------------------------------------
(* Start and exit.                                                            *)

NewUi(c) ==
  Refilter([screen |-> List, form |-> NoForm, confirm |-> NoConfirm,
            query |-> "", searching |-> FALSE, env |-> "", help |-> List,
            filtered |-> <<>>, selected |-> 1, request |-> 0, back |-> 0,
            session |-> 0], c)

Gone == [bms |-> <<>>, grps |-> <<>>]

Init ==
  /\ disk \in InitConfigs
  /\ cfg = disk /\ ui = NewUi(disk)
  /\ life = "running"
  /\ kc = [n \in KeyNames |->
             IF \E e \in Entries(disk) : e.name = n /\ e.id \in InitStored
             THEN (CHOOSE e \in Entries(disk) : e.name = n).id ELSE 0]
  /\ gave = InitStored
  /\ wasGroup = {disk.grps[i].id : i \in DOMAIN disk.grps}
  /\ conns = [g \in GroupIdx |-> NoConn] /\ tasks = {}
  /\ opened = 0
  /\ count = [ids |-> Cardinality(Entries(disk)), faults |-> 0, opens |-> 0,
              leaves |-> 0, saves |-> 0]

\* The process ends; what is left is the file and the keychain.
Exit(how) ==
  /\ life' = how
  /\ cfg' = Gone /\ ui' = NewUi(Gone) /\ opened' = 0
  /\ conns' = [g \in GroupIdx |-> NoConn] /\ tasks' = {}
  /\ UNCHANGED <<disk, kc, gave, wasGroup, count>>

\* Ctrl+C anywhere, q in the list, a shutdown signal or a dead terminal.
Quit == life \in {"running", "away"} /\ Exit("quit")

Start ==
  /\ life \in {"quit", "panicked"}
  /\ life' = "running"
  /\ cfg' = disk /\ ui' = NewUi(disk)
  /\ UNCHANGED <<disk, kc, gave, wasGroup, mux, opened, count>>

At(screen) == life = "running" /\ ui.screen.at = screen
Listing == At("list") /\ ~ui.searching
ToList(u) == [u EXCEPT !.screen = List]

-----------------------------------------------------------------------------
(* Keys of the list, of the search prompt and of the help overlay.            *)

Move ==
  /\ At("list")
  /\ \E d \in {-1, 1} \cup (IF ui.searching THEN {} ELSE {-10, 10}) :
       LET to == ui.selected + d
           len == Len(ui.filtered)
       IN  /\ len > 0
           /\ ui' = [ui EXCEPT !.selected = IF to < 1 THEN 1 ELSE Clamp(to, len)]
  /\ UNCHANGED <<life, store, mux, opened, count>>

Search ==
  /\ At("list")
  /\ \/ ~ui.searching /\ ui' = [ui EXCEPT !.searching = TRUE]
     \/ ui.searching /\ ui' = [ui EXCEPT !.searching = FALSE]
     \/ /\ ui.searching
        /\ ui' = Refilter([ui EXCEPT !.searching = FALSE, !.query = ""], cfg)
     \/ /\ ui.searching
        /\ \E q \in Queries : ui' = Refilter([ui EXCEPT !.query = q], cfg)
  /\ UNCHANGED <<life, store, mux, opened, count>>

FilterEnv ==
  /\ Listing
  /\ \E e \in Envs :
       ui' = Refilter([ui EXCEPT !.env = e, !.query = "", !.searching = FALSE], cfg)
  /\ UNCHANGED <<life, store, mux, opened, count>>

\* `?` in the list (also while searching), a form or the confirmation.
OpenHelp ==
  /\ life = "running" /\ ui.screen.at \in {"list", "add", "edit", "delete"}
  /\ ui' = [ui EXCEPT !.screen = [at |-> "help", idx |-> 0], !.help = ui.screen]
  /\ UNCHANGED <<life, store, mux, opened, count>>

CloseHelp ==
  /\ At("help")
  /\ ui' = [ui EXCEPT !.screen = ui.help, !.help = List]
  /\ UNCHANGED <<life, store, mux, opened, count>>

OpenAdd ==
  /\ Listing
  /\ \E group \in BOOLEAN :
       ui' = [ui EXCEPT !.screen = [at |-> "add", idx |-> 0],
                        !.form = IF group THEN AddSessionLine(NewAdd) ELSE NewAdd]
  /\ opened' = 0
  /\ UNCHANGED <<life, store, mux, count>>

\* The screen's index: the form's target tells whether of a bookmark or group.
OpenEdit ==
  LET item == SelectedItem(ui)
      f == IF IsBookmark(item)
           THEN NewEditBookmark(cfg.bms[item], item, kc[cfg.bms[item].name] # 0)
           ELSE NewEditGroup(cfg.grps[item - Marker], item - Marker)
  IN  /\ Listing /\ item # 0
      /\ ui' = [ui EXCEPT !.screen = [at |-> "edit", idx |-> f.idx], !.form = f]
      /\ opened' = Highlighted(ui, cfg).id
      /\ UNCHANGED <<life, store, mux, count>>

\* The index kept for a group is the marked one.
OpenDelete ==
  LET item == SelectedItem(ui)
      e == IF IsBookmark(item) THEN cfg.bms[item] ELSE cfg.grps[item - Marker]
  IN  /\ Listing /\ item # 0
      /\ ui' = [ui EXCEPT !.screen = [at |-> "delete", idx |-> item],
                          !.confirm = [open |-> TRUE, group |-> IsGroupItem(item),
                                       name |-> e.name,
                                       production |-> e.env = "production",
                                       typed |-> ""]]
      /\ opened' = Highlighted(ui, cfg).id
      /\ UNCHANGED <<life, store, mux, count>>

-----------------------------------------------------------------------------
(* The form.                                                                  *)

InForm == life = "running" /\ ui.screen.at \in {"add", "edit"}

FormKey ==
  /\ InForm
  /\ \E f \in {NextField(ui.form), PrevField(ui.form)} \cup
              (IF ui.form.focused = 2 THEN {CycleEnv(ui.form)} ELSE {}) \cup
              {Retype(ui.form, t) : t \in Texts(ui.form)} \cup
              (IF Len(ui.form.sessions) < MaxSess THEN {AddSessionLine(ui.form)}
               ELSE {}) \cup
              (IF ui.form.focused > FieldCount THEN {RemoveSessionLine(ui.form)}
               ELSE {}) :
       ui' = [ui EXCEPT !.form = f]
  /\ UNCHANGED <<life, store, mux, opened, count>>

CancelForm ==
  /\ InForm
  /\ ui' = ToList([ui EXCEPT !.form = NoForm])
  /\ opened' = 0
  /\ UNCHANGED <<life, store, mux, count>>

\* Where the built entry goes: added, in place, or over to the other kind.
Placed(c, f, idx, e) ==
  CASE f.target = "add" /\ IsGroup(f) -> [c EXCEPT !.grps = Append(@, e)]
    [] f.target = "add" /\ ~IsGroup(f) -> [c EXCEPT !.bms = Append(@, e)]
    [] f.target = "group" /\ IsGroup(f) -> [c EXCEPT !.grps[idx] = e]
    [] f.target = "bookmark" /\ ~IsGroup(f) -> [c EXCEPT !.bms[idx] = e]
    [] f.target = "bookmark" /\ IsGroup(f) ->
         [c EXCEPT !.bms = RemoveAt(@, idx), !.grps = Append(@, e)]
    [] OTHER ->
         [c EXCEPT !.grps = RemoveAt(@, idx), !.bms = Append(@, e)]

\* The password moves with a new name, except when a group stays a group.
Moves(f) ==
  f.target # "add" /\ f.orig # f.name /\ ~(f.target = "group" /\ IsGroup(f))

\* try_save_unified_form.  The order of the save and the keychain calls shows
\* only in which of them fail; a group form drops the password field.
SaveForm ==
  LET f == ui.form
      id == IF f.target = "add" THEN count.ids + 1
            ELSE IF f.target = "bookmark" THEN cfg.bms[ui.screen.idx].id
            ELSE cfg.grps[ui.screen.idx].id
  IN  /\ InForm /\ count.saves < MaxSaves
      /\ f.target = "add" => count.ids < MaxId
      /\ Builds(f, cfg.bms, cfg.grps, TRUE)
      /\ \E failed \in SUBSET Calls :
           LET new == Placed(cfg, f, ui.screen.idx, Built(f, id))
               moved == IF Moves(f) THEN Migrated(kc, f.orig, f.name, failed) ELSE kc
           IN  /\ Faults(Cardinality(failed))
               /\ cfg' = new /\ disk' = Saved(new, failed)
               /\ kc' = IF IsGroup(f) THEN moved ELSE WithPassword(moved, f, id, failed)
               /\ count' = [count EXCEPT !.faults = @ + Cardinality(failed),
                              !.saves = @ + 1,
                              !.ids = IF f.target = "add" THEN @ + 1 ELSE @]
               /\ ui' = ToList(Refilter([ui EXCEPT !.form = NoForm], new))
      /\ gave' = IF IsGroup(f) \/ ~f.modified THEN gave
                 ELSE IF f.pw # "" THEN gave \cup {id} ELSE gave \ {id}
      /\ wasGroup' = IF IsGroup(f) THEN wasGroup \cup {id} ELSE wasGroup
      /\ opened' = 0
      /\ UNCHANGED <<life, mux>>

-----------------------------------------------------------------------------
(* The delete confirmation.                                                   *)

InConfirm == At("delete")

TypeConfirm ==
  /\ InConfirm /\ ui.confirm.production
  /\ \E t \in {"", "yes"} : ui' = [ui EXCEPT !.confirm.typed = t]
  /\ UNCHANGED <<life, store, mux, opened, count>>

CancelConfirm ==
  /\ InConfirm
  /\ ui' = ToList([ui EXCEPT !.confirm = NoConfirm])
  /\ opened' = 0
  /\ UNCHANGED <<life, store, mux, count>>

Confirmed(s) == s.production => s.typed = "yes"

\* config.groups[idx] or config.bookmarks[idx] with idx out of range.
OutOfRange(s, idx) ==
  IF s.group THEN idx \notin DOMAIN cfg.grps ELSE idx \notin DOMAIN cfg.bms

DeletePanics ==
  /\ InConfirm /\ Confirmed(ui.confirm)
  /\ OutOfRange(ui.confirm, ui.screen.idx)
  /\ Exit("panicked")

Delete ==
  /\ InConfirm /\ Confirmed(ui.confirm)
  /\ ~OutOfRange(ui.confirm, ui.screen.idx)
  /\ \E failed \in SUBSET {"save", "delete"} :
       LET idx == ui.screen.idx
           group == ui.confirm.group
           new == IF group THEN [cfg EXCEPT !.grps = RemoveAt(@, idx)]
                  ELSE [cfg EXCEPT !.bms = RemoveAt(@, idx)]
       IN  /\ Faults(Cardinality(failed))
           /\ cfg' = new /\ disk' = Saved(new, failed)
           /\ kc' = IF group \/ "delete" \in failed THEN kc
                    ELSE [kc EXCEPT ![cfg.bms[idx].name] = 0]
           /\ count' = [count EXCEPT !.faults = @ + Cardinality(failed)]
           /\ ui' = ToList(Refilter([ui EXCEPT !.confirm = NoConfirm], new))
  /\ opened' = 0
  /\ UNCHANGED <<life, gave, wasGroup, mux>>

-----------------------------------------------------------------------------
(* Leaving for a session or the browser, and coming back.  A request is       *)
(* [kind, idx, session]; event_loop returns it and run carries it out.        *)

Leave(item, session) ==
  /\ life' = "away"
  /\ ui' = [ui EXCEPT !.request = item, !.session = session]
  /\ count' = [count EXCEPT !.leaves = @ + 1]
  /\ opened' = 0

EnterBookmark ==
  /\ Listing /\ IsBookmark(SelectedItem(ui)) /\ count.leaves < MaxLeaves
  /\ Leave(SelectedItem(ui), 0)
  /\ UNCHANGED <<store, mux>>

\* f on a bookmark; the browser changes neither configuration nor file.
Browse ==
  /\ Listing /\ IsBookmark(SelectedItem(ui)) /\ count.leaves < MaxLeaves
  /\ Leave(0, 0)
  /\ UNCHANGED <<store, mux>>

\* f on a group: run indexes the bookmarks with the marked index.
BrowsePanics ==
  /\ Listing /\ IsGroupItem(SelectedItem(ui))
  /\ SelectedItem(ui) \notin DOMAIN cfg.bms
  /\ Exit("panicked")

\* A group's session is connected through a bookmark added for its duration;
\* the statistics of a session that ended well are saved with it in place.
Synthetic(g) ==
  [id |-> TempId, name |-> TempName, env |-> g.env, sessions |-> <<>>]

ComeBack ==
  LET item == ui.request
      during == IF IsGroupItem(item)
                THEN [cfg EXCEPT !.bms = Append(@, Synthetic(cfg.grps[item - Marker]))]
                ELSE cfg
  IN  /\ life = "away"
      /\ life' = "running"
      /\ \/ UNCHANGED disk
         \/ item # 0 /\ disk' = during
      /\ ui' = [ui EXCEPT !.request = 0, !.back = 0,
                  !.session = IF ui.back # 0 THEN 1 ELSE 0,
                  !.screen = IF ui.back # 0 THEN [at |-> "mux", idx |-> ui.back] ELSE @]
      /\ opened' = IF ui.back # 0 THEN cfg.grps[ui.back].id ELSE 0
      /\ UNCHANGED <<cfg, kc, gave, wasGroup, mux, count>>

-----------------------------------------------------------------------------
(* The mux screen of a group: one shell, opened in the background.            *)

OpenMux ==
  /\ Listing /\ IsGroupItem(SelectedItem(ui))
  /\ ui' = [ui EXCEPT !.screen = [at |-> "mux", idx |-> SelectedItem(ui) - Marker],
                      !.session = 1]
  /\ opened' = Highlighted(ui, cfg).id
  /\ UNCHANGED <<life, store, mux, count>>

Here == ui.screen.idx
Sessions == Len(cfg.grps[Here].sessions)

MuxMove ==
  /\ At("mux") /\ Sessions > 0
  /\ \E s \in {IF ui.session = 1 THEN Sessions ELSE ui.session - 1,
               IF ui.session >= Sessions THEN 1 ELSE ui.session + 1} :
       ui' = [ui EXCEPT !.session = s]
  /\ UNCHANGED <<life, store, mux, opened, count>>

\* MUTANT of Closed: leaving the screen keeps the connection.
ClosedVariant(c, g) == c

Closed(c, g) == [c EXCEPT ![g] = NoConn]

LeaveMux ==
  /\ At("mux")
  /\ conns' = Closed(conns, Here)
  /\ ui' = [ToList(ui) EXCEPT !.session = 0]
  /\ opened' = 0
  /\ UNCHANGED <<life, store, tasks, count>>

\* Enter without a connection (a finished one leaves none): open a shell.
MuxConnect ==
  /\ At("mux") /\ Sessions > 0 /\ count.opens < MaxOpens
  /\ conns[Here].st = "none"
  /\ conns' = [conns EXCEPT ![Here] = [st |-> "connecting", chan |-> 0, n |-> count.opens + 1]]
  /\ tasks' = tasks \cup {[n |-> count.opens + 1, g |-> Here,
                           gid |-> cfg.grps[Here].id, st |-> "opening"]}
  /\ count' = [count EXCEPT !.opens = @ + 1]
  /\ UNCHANGED <<life, store, ui, opened>>

\* Enter on a ready connection sends the session's command, if it has one; without
\* a channel nothing is sent.
MuxSend ==
  /\ At("mux") /\ Sessions > 0
  /\ conns[Here].st = "ready"
  /\ conns' = [conns EXCEPT ![Here].st = "running"]
  /\ tasks' = IF conns[Here].chan = 0 THEN tasks
              ELSE tasks \cup {[n |-> conns[Here].n, g |-> Here, gid |-> 0, st |-> "sending"]}
  /\ UNCHANGED <<life, store, ui, opened, count>>

\* Enter after a failure connects interactively and returns to this screen.
MuxFallback ==
  /\ At("mux") /\ Sessions > 0 /\ count.leaves < MaxLeaves
  /\ conns[Here].st = "error"
  /\ life' = "away"
  /\ ui' = [ui EXCEPT !.request = Marker + Here, !.back = Here]
  /\ count' = [count EXCEPT !.leaves = @ + 1]
  /\ conns' = Closed(conns, Here)
  /\ UNCHANGED <<store, tasks, opened>>

\* A background task ends: shell open or refused (or 30 s gone), data sent or not.
TaskEnds ==
  /\ life \in {"running", "away"}
  /\ \E t \in tasks, ok \in BOOLEAN :
       /\ t.st \in {"opening", "sending"}
       /\ tasks' = (tasks \ {t}) \cup
            {[t EXCEPT !.st = CASE ok /\ t.st = "opening" -> "open"
                                [] ok /\ t.st = "sending" -> "sent"
                                [] OTHER -> "failed"]}
  /\ UNCHANGED <<life, store, ui, conns, opened, count>>

\* The loop applies a result to whatever connection the group's index has now.
ApplyResult ==
  /\ life = "running"
  /\ \E t \in tasks :
       /\ t.st \in {"open", "sent", "failed"}
       /\ tasks' = tasks \ {t}
       /\ conns' =
            IF conns[t.g].st = "none" THEN conns
            ELSE [conns EXCEPT ![t.g] =
                    [st |-> IF t.st = "failed" THEN "error" ELSE "ready",
                     chan |-> IF t.st = "open" THEN t.gid ELSE @.chan,
                     n |-> IF t.n = @.n THEN t.n ELSE 0]]
  /\ UNCHANGED <<life, store, ui, opened, count>>

Next ==
  \/ Quit \/ Start
  \/ Move \/ Search \/ FilterEnv \/ OpenHelp \/ CloseHelp
  \/ OpenAdd \/ OpenEdit \/ FormKey \/ CancelForm \/ SaveForm
  \/ OpenDelete \/ TypeConfirm \/ CancelConfirm \/ Delete \/ DeletePanics
  \/ EnterBookmark \/ Browse \/ BrowsePanics \/ ComeBack
  \/ OpenMux \/ MuxMove \/ LeaveMux \/ MuxConnect \/ MuxSend \/ MuxFallback
  \/ TaskEnds \/ ApplyResult

Spec == Init /\ [][Next]_vars
-----------------------------------------------------------------------------
(* What draw puts on the screen.                                              *)

\* The session list of the mux screen; its highlight is kept inside the list.
DrawnSessions ==
  LET lines == cfg.grps[Here].sessions
  IN  [lines |-> lines,
       highlight |-> IF ui.session > Len(lines) THEN Len(lines) ELSE ui.session]

\* The pane beside it: what Enter will do with the group's connection.
DrawnPane ==
  CASE conns[Here].st = "none" -> "press Enter to connect"
    [] conns[Here].st = "connecting" -> "connecting"
    [] conns[Here].st = "ready" -> "press Enter to send command"
    [] conns[Here].st = "running" -> "running"
    [] OTHER -> "press Enter to retry"

\* The confirmation names the entry and asks to type "yes" for production.
DrawnConfirm == [name |-> ui.confirm.name, asks |-> ui.confirm.production]

-----------------------------------------------------------------------------
EntryOK(e) ==
  /\ e.id \in 1..TempId /\ e.name \in KeyNames /\ e.env \in Envs
  /\ \A i \in DOMAIN e.sessions : e.sessions[i] # ""
ConfigOK(c) == \A e \in Entries(c) : EntryOK(e)

\* Types of all variables; the configurations hold only entries that validate.
TypeOK ==
  /\ life \in {"running", "away", "quit", "panicked"}
  /\ ConfigOK(cfg) /\ ConfigOK(disk)
  /\ \A n \in KeyNames : kc[n] \in 0..TempId
  /\ ui.screen.at \in {"list", "add", "edit", "delete", "help", "mux"}
  /\ ui.form.open <=> {ui.screen.at, ui.help.at} \cap {"add", "edit"} # {}
  /\ \A g \in GroupIdx :
       conns[g].st \in {"ready", "running"} /\ conns[g].n # 0 => conns[g].chan # 0
  /\ gave \cup wasGroup \subseteq 1..TempId /\ opened \in 0..TempId

\* The screen the user works on, under the help overlay if that is open.
Working == IF ui.screen.at = "help" THEN ui.help ELSE ui.screen

\* Every index held by the list or by a screen denotes the entry that was
\* highlighted when the screen was opened, however the lists changed and
\* whatever was opened in between: form, confirmation of a bookmark and mux
\* screen act on what the user chose (filtered_indices, Screen's indices).
IndexMeansEntry ==
  life = "running" =>
    /\ \A k \in DOMAIN ui.filtered :
         IF IsGroupItem(ui.filtered[k])
         THEN ui.filtered[k] - Marker \in DOMAIN cfg.grps
         ELSE ui.filtered[k] \in DOMAIN cfg.bms
    /\ ui.filtered # <<>> => ui.selected \in DOMAIN ui.filtered
    /\ Working.at = "edit" =>
         opened = (IF ui.form.target = "bookmark" THEN cfg.bms[Working.idx]
                   ELSE cfg.grps[Working.idx]).id
    /\ Working.at = "delete" /\ ~ui.confirm.group =>
         opened = cfg.bms[Working.idx].id
    /\ Working.at = "mux" =>
         /\ opened = cfg.grps[Working.idx].id
         /\ Sessions > 0 => ui.session \in 1..Sessions

\* A key does what the screen showed when it was pressed: the confirmation
\* names the bookmark that Enter removes and asks for "yes" when it is a
\* production one; Enter on the mux screen runs the highlighted session, and
\* connects, waits or sends to the group on the screen as the pane says, unless
\* a result of an earlier opening at the same index was applied to it; the form
\* draws its cursor in the field the keys edit, unless the last session line
\* went away under it.
DrawnIsMeant ==
  /\ At("delete") /\ ~ui.confirm.group =>
       LET b == cfg.bms[ui.screen.idx]
       IN  DrawnConfirm = [name |-> b.name, asks |-> b.env = "production"]
  /\ At("mux") /\ Sessions > 0 => DrawnSessions.highlight = ui.session
  /\ At("mux") /\ conns[Here].n # 0 =>
       /\ DrawnPane \in {"press Enter to send command", "running"} =>
            conns[Here].chan = cfg.grps[Here].id
       /\ DrawnPane \in {"connecting", "running"} =>
            \E t \in tasks : t.n = conns[Here].n
  /\ InForm /\ ui.form.sessions # <<>> => DrawnForm(ui.form).cursor # 0

\* The password under a bookmark's name is that bookmark's own, through
\* renames, deletions, conversions and restarts: unless a save or keychain
\* call failed or the entry was a group for a while (a group that is renamed
\* leaves the password behind), a stored password is never lost and a
\* bookmark never finds another entry's password under its name.  A bookmark
\* that a group's session left in the file may lose its password: the next such
\* session leaves a second one of the same name, and they share one entry.
PasswordFollows ==
  life = "running" /\ count.faults = 0 =>
    \A i \in DOMAIN cfg.bms :
      LET b == cfg.bms[i]
      IN  /\ b.id \in gave \ wasGroup /\ b.id # TempId => kc[b.name] = b.id
          /\ kc[b.name] \in {0, b.id} \cup wasGroup

\* A mux connection exists only for the group whose mux screen is shown:
\* leaving it, failing over to an interactive session or quitting closes it,
\* so edits that shift the groups' indices never move a connection.
ConnectionsStayHome ==
  \A g \in GroupIdx :
    conns[g].st # "none" => At("mux") /\ Here = g

=============================================================================
