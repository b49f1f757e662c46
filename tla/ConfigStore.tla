------------------------------ MODULE ConfigStore ------------------------------
(***************************************************************************)
(* The configuration file shared by all running sshore instances           *)
(* (src/config/mod.rs, src/config/writer.rs) and everything that writes    *)
(* it: the TUI's forms, interactive sessions, the save-as-bookmark form    *)
(* inside a session (~b), sshore import with its wizard                    *)
(* (src/tui/views/import_wizard.rs) and the wizard of the first run.  Each *)
(* instance keeps the configuration it loaded at its start; only ~b goes   *)
(* through locked_modify().                                                *)
(***************************************************************************)
EXTENDS ConfigMerge

CONSTANTS
  Insts,     \* running instances
  Names,     \* bookmark names
  Temp,      \* names inferred for ad-hoc targets and group sessions
  May,       \* May[i] \subseteq Uses: what i is used for
  Imports,   \* files users import: whether one is where it usually is, whether it can be
             \* read, and the bookmarks the readers of ConfigImport find in it
  MaxEdits,  \* bound on the number of edits
  MaxFaults, \* bound on the number of failing writes and copies
  Unset, NoFile, NoInst,
  Torn       \* what is left of a file copied in part

Uses == {"edit", "delete", "group", "import", "session", "save"}

\* A bookmark: the edit that wrote it last, where it was born (in a form, in a
\* session, of a group of the name of a bookmark, or in the import of that
\* number), and whether it can be loaded again.
Entry(n, id, born, ok) == [name |-> n, id |-> id, born |-> born, ok |-> ok]

Form == <<"form", 0>>
Session == <<"session", 0>>
Group == <<"group", 0>>
ImportNo(id) == <<"import", id>>

\* What a bookmark can be, and what can be imported.
Bookmarks == [name : Names, id : Nat, born : ({"form", "session", "group", "import"} \X Nat), ok : BOOLEAN]

RowsOK(rows) ==
  /\ Len(rows) \in Nat /\ DOMAIN rows = 1 .. Len(rows)
  /\ \A k \in DOMAIN rows : rows[k].name \in Names /\ rows[k].ok \in BOOLEAN

ASSUME ConfigAssumption ==
  /\ Temp \subseteq Names
  /\ \A i \in Insts : May[i] \subseteq Uses
  /\ MaxEdits \in Nat /\ MaxFaults \in Nat /\ NoInst \notin Insts
  /\ \A doc \in Imports : doc.readable => RowsOK(doc.rows)
  /\ NoFile \notin [marks : Seq(Bookmarks), dismissed : BOOLEAN]

VARIABLES
  file,   \* config.toml
  bak,    \* config.toml.bak
  lock,   \* holder of config.lock
  pc,     \* pc[i]: "off", "list", "session", a step of the wizard, "merge", "backup", "rename"
  mem,    \* mem[i]: the configuration i works with
  temp,   \* temp[i]: where in mem[i] the temporary bookmark of i's session is
  wiz,    \* wiz[i]: what i is about to import
  out,    \* out[i]: the configuration being written
  ret,    \* ret[i]: where i goes on after the write
  chg,    \* chg[i]: the names of the bookmarks whose change is being saved
  edits,  \* number of edits so far
  want,   \* history: want[n], the bookmarks of that name as last reported saved, until blind
  seen,   \* history: seen[i], the file i's loaded configuration is up to date with
  blind,  \* history: a writer without the lock saved over changes it had not loaded
  pending, \* history: pending[i], the names changed in mem[i] by edits whose write failed
  slipped, \* history: the writers whose copy of config.toml failed, or is not of what they replace
  faults  \* number of failures so far

past == <<want, seen, blind, pending, slipped, faults>>
vars == <<file, bak, lock, pc, mem, temp, wiz, out, ret, chg, edits, past>>

Empty == [marks |-> <<>>, dismissed |-> FALSE]
NoWizard == [by |-> "none", auto |-> FALSE, rows |-> <<>>, overwrite |-> FALSE, new |-> 0, over |-> 0]

Init ==
  /\ file = NoFile /\ bak = NoFile
  /\ lock = NoInst
  /\ pc = [i \in Insts |-> "off"]
  /\ mem = [i \in Insts |-> Empty]
  /\ temp = [i \in Insts |-> 0]
  /\ wiz = [i \in Insts |-> NoWizard]
  /\ out = [i \in Insts |-> Empty]
  /\ ret = [i \in Insts |-> "off"]
  /\ chg = [i \in Insts |-> {}]
  /\ edits = 0
  /\ want = [n \in Names |-> Unset]
  /\ seen = [i \in Insts |-> NoFile]
  /\ blind = FALSE
  /\ pending = [i \in Insts |-> {}] /\ slipped = {}
  /\ faults = 0

NewEdit == edits < MaxEdits /\ edits' = edits + 1
Fault == faults < MaxFaults /\ faults' = faults + 1

\* What an instance that has ended has left.
Gone(i) ==
  /\ pc' = [pc EXCEPT ![i] = "off"]
  /\ mem' = [mem EXCEPT ![i] = Empty] /\ temp' = [temp EXCEPT ![i] = 0]
  /\ wiz' = [wiz EXCEPT ![i] = NoWizard]
  /\ out' = [out EXCEPT ![i] = Empty] /\ ret' = [ret EXCEPT ![i] = "off"] /\ chg' = [chg EXCEPT ![i] = {}]
  /\ seen' = [seen EXCEPT ![i] = NoFile] /\ pending' = [pending EXCEPT ![i] = {}]

-----------------------------------------------------------------------------
(* atomic_write() and load_from()                                          *)

\* The edits of the bookmarks of one name; those of running sessions do not count.
Saved(config, n) ==
  {config.marks[k].id : k \in {j \in DOMAIN config.marks : config.marks[j].name = n
                                                           /\ config.marks[j].born # Session}}

\* The new configuration is put in a temporary file next to config.toml.
StartWrite(i, config, names, then) ==
  /\ pc' = [pc EXCEPT ![i] = "backup"]
  /\ out' = [out EXCEPT ![i] = config]
  /\ chg' = [chg EXCEPT ![i] = names]
  /\ ret' = [ret EXCEPT ![i] = then]

\* The other writers that have made their copy.
Copied(i) == {j \in Insts \ {i} : pc[j] = "rename"}

\* MUTANT of Backup: the new configuration is copied, not the old one.
BackupNew(i) ==
  /\ pc[i] = "backup"
  /\ pc' = [pc EXCEPT ![i] = "rename"]
  /\ bak' = out[i] /\ slipped' = slipped \ {i}
  /\ UNCHANGED <<file, lock, mem, temp, wiz, out, ret, chg, edits, want, seen, blind, pending, faults>>

\* The temporary file is complete, and config.toml is copied if there is one.  A
\* copy that fails is only warned about, whether it has begun to overwrite the
\* backup or not; a copy made beside that of another writer is mixed with it.
Backup(i) ==
  /\ pc[i] = "backup"
  /\ pc' = [pc EXCEPT ![i] = "rename"]
  /\ \/ /\ bak' = IF file = NoFile THEN bak ELSE file
        /\ slipped' = slipped \ {i}
        /\ UNCHANGED faults
     \/ /\ file # NoFile /\ Fault
        /\ UNCHANGED bak /\ slipped' = slipped \cup {i}
     \/ /\ file # NoFile /\ bak' = Torn /\ slipped' = slipped \cup {i} \cup Copied(i)
        /\ \/ Fault
           \/ (\E j \in Insts \ {i} : pc[j] \in {"backup", "rename"}) /\ UNCHANGED faults
  /\ UNCHANGED <<file, lock, mem, temp, wiz, out, ret, chg, edits, want, seen, blind, pending>>

\* Only the save from inside a session is a locked_modify().
Unlocked(i) == ret[i] # "session"

\* What a write changes in the file: a save of the loaded configuration takes
\* along the edits whose own write failed.
Changed(i) == chg[i] \cup (IF Unlocked(i) THEN pending[i] ELSE {})

\* The temporary file replaces config.toml; a lock held for it is released.
Rename(i) ==
  /\ pc[i] = "rename"
  /\ file' = out[i]
  /\ blind' = (blind \/ (Unlocked(i) /\ (file # seen[i] \/ lock # NoInst)))
  /\ slipped' = (slipped \cup Copied(i)) \ {i}
  /\ lock' = IF lock = i THEN NoInst ELSE lock
  /\ want' = [n \in Names |-> IF blind' THEN Unset ELSE IF n \in Changed(i) THEN Saved(out[i], n) ELSE want[n]]
  /\ IF ret[i] = "off" THEN Gone(i)
     ELSE /\ pc' = [pc EXCEPT ![i] = ret[i]]
          /\ seen' = IF Unlocked(i) THEN [seen EXCEPT ![i] = out[i]] ELSE seen
          /\ pending' = IF Unlocked(i) THEN [pending EXCEPT ![i] = {}] ELSE pending
          /\ wiz' = IF ret[i] = "list" THEN [wiz EXCEPT ![i] = NoWizard] ELSE wiz
          /\ out' = [out EXCEPT ![i] = Empty] /\ ret' = [ret EXCEPT ![i] = "off"]
          /\ chg' = [chg EXCEPT ![i] = {}]
          /\ UNCHANGED <<mem, temp>>
  /\ UNCHANGED <<bak, edits, faults>>

\* The temporary file cannot be created, written or protected, or not renamed.
\* The forms and the end of a session report it and go on with what they have
\* in memory, ~b with its session; a first run, an import, or the first load
\* ends with the error.
WriteFails(i) ==
  /\ pc[i] \in {"backup", "rename"} /\ Fault
  /\ lock' = IF lock = i THEN NoInst ELSE lock
  /\ slipped' = slipped \ {i}
  /\ IF ret[i] = "session" \/ (ret[i] = "list" /\ wiz[i].by # "first run")
     THEN /\ pc' = [pc EXCEPT ![i] = ret[i]]
          /\ pending' = IF Unlocked(i) THEN [pending EXCEPT ![i] = @ \cup chg[i]] ELSE pending
          /\ out' = [out EXCEPT ![i] = Empty] /\ ret' = [ret EXCEPT ![i] = "off"]
          /\ chg' = [chg EXCEPT ![i] = {}]
          /\ UNCHANGED <<mem, temp, wiz, seen>>
     ELSE Gone(i)
  /\ UNCHANGED <<file, bak, edits, want, blind>>

\* load_from() refuses a file with a command that is too long or has escapes.
Loads(config) == \A k \in DOMAIN config.marks : config.marks[k].ok

\* Where run() starts: with the wizard as long as there is nothing to list.
Begin(config) == IF config.marks = <<>> /\ ~config.dismissed THEN "source" ELSE "list"

\* load_from(): without a file the default configuration is written first.
Open(i) ==
  /\ pc[i] = "off" /\ May[i] \cap {"edit", "delete", "group", "session"} # {}
  /\ IF file = NoFile
       THEN /\ mem' = [mem EXCEPT ![i] = Empty]
            /\ StartWrite(i, Empty, {}, "source")
            /\ wiz' = [wiz EXCEPT ![i].by = "first run"]
       ELSE /\ Loads(file)
            /\ mem' = [mem EXCEPT ![i] = file]
            /\ pc' = [pc EXCEPT ![i] = Begin(file)]
            /\ wiz' = [wiz EXCEPT ![i].by = IF Begin(file) = "source" THEN "first run" ELSE "none"]
            /\ UNCHANGED <<out, chg, ret>>
  /\ seen' = [seen EXCEPT ![i] = file]
  /\ UNCHANGED <<file, bak, lock, temp, edits, want, blind, pending, slipped, faults>>

-----------------------------------------------------------------------------
(* The forms of the list                                                   *)

\* The form changes the loaded configuration and saves all of it; the name of a
\* new bookmark must be free, its command on connect is not validated.
Add(i, n, ok) ==
  /\ "edit" \in May[i] /\ pc[i] = "list" /\ NewEdit
  /\ n \notin NamesIn(mem[i].marks)
  /\ mem' = [mem EXCEPT ![i].marks = Append(@, Entry(n, edits', Form, ok))]
  /\ StartWrite(i, mem'[i], {n}, "list")
  /\ UNCHANGED <<file, bak, lock, temp, wiz, past>>

\* What the form makes of a bookmark.
Edited(b, n, ok) == Entry(n, edits', IF n = b.name THEN b.born ELSE Form, ok)

\* MUTANT of Edit: the name is taken as it is.
EditUnchecked(i, k, n, ok) ==
  /\ "edit" \in May[i] /\ pc[i] = "list" /\ NewEdit
  /\ mem' = [mem EXCEPT ![i].marks[k] = Edited(@, n, ok)]
  /\ StartWrite(i, mem'[i], {mem[i].marks[k].name, n}, "list")
  /\ UNCHANGED <<file, bak, lock, temp, wiz, past>>

\* The whole bookmark is replaced; another name than before must be free.
Edit(i, k, n, ok) ==
  /\ "edit" \in May[i] /\ pc[i] = "list" /\ NewEdit
  /\ n = mem[i].marks[k].name \/ n \notin NamesIn(mem[i].marks)
  /\ mem' = [mem EXCEPT ![i].marks[k] = Edited(@, n, ok)]
  /\ StartWrite(i, mem'[i], {mem[i].marks[k].name, n}, "list")
  /\ UNCHANGED <<file, bak, lock, temp, wiz, past>>

\* A group that has lost its sessions becomes a bookmark; when it keeps its name,
\* nobody looks for a bookmark of that name.
FromGroup(i, n, ok) ==
  /\ "group" \in May[i] /\ pc[i] = "list" /\ NewEdit
  /\ LET born == IF n \in NamesIn(mem[i].marks) THEN Group ELSE Form
     IN  mem' = [mem EXCEPT ![i].marks = Append(@, Entry(n, edits', born, ok))]
  /\ StartWrite(i, mem'[i], {n}, "list")
  /\ UNCHANGED <<file, bak, lock, temp, wiz, past>>

\* The delete dialog does the same, and so does a bookmark that becomes a group.
Delete(i, k) ==
  /\ "delete" \in May[i] /\ pc[i] = "list"
  /\ mem' = [mem EXCEPT ![i].marks = RemoveAt(@, k)]
  /\ StartWrite(i, mem'[i], {mem[i].marks[k].name}, "list")
  /\ UNCHANGED <<file, bak, lock, temp, wiz, edits, past>>

-----------------------------------------------------------------------------
(* sshore import, and the wizard                                           *)

Entries(rows, id) == [k \in DOMAIN rows |-> Entry(rows[k].name, id, ImportNo(id), rows[k].ok)]

\* cmd_import() with a file: it is read before the configuration is loaded.
ImportFile(i, doc, overwrite) ==
  /\ "import" \in May[i] /\ pc[i] = "off" /\ doc.readable
  /\ wiz' = [wiz EXCEPT ![i] = [NoWizard EXCEPT !.by = "file", !.rows = doc.rows,
                                                !.overwrite = overwrite]]
  /\ pc' = [pc EXCEPT ![i] = "merge"]
  /\ UNCHANGED <<file, bak, lock, mem, temp, out, ret, chg, edits, past>>

\* cmd_import() without: the wizard compares with the configuration loaded now.
OpenWizard(i, overwrite) ==
  /\ "import" \in May[i] /\ pc[i] = "off"
  /\ wiz' = [wiz EXCEPT ![i] = [NoWizard EXCEPT !.by = "wizard", !.overwrite = overwrite]]
  /\ IF file = NoFile
     THEN /\ mem' = [mem EXCEPT ![i] = Empty]
          /\ StartWrite(i, Empty, {}, "source")
     ELSE /\ Loads(file)
          /\ mem' = [mem EXCEPT ![i] = file]
          /\ pc' = [pc EXCEPT ![i] = "source"]
          /\ UNCHANGED <<out, ret, chg>>
  /\ UNCHANGED <<file, bak, lock, temp, edits, past>>

\* try_parse_and_preview()
TryParse(i, doc) ==
  IF ~doc.readable
  THEN /\ pc' = [pc EXCEPT ![i] = "path"]
       /\ wiz' = [wiz EXCEPT ![i].auto = FALSE]
  ELSE LET preview == BuildPreview(doc.rows, mem[i].marks, wiz[i].overwrite)
       IN  /\ pc' = [pc EXCEPT ![i] = "preview"]
           /\ wiz' = [wiz EXCEPT ![i].rows = doc.rows, ![i].new = preview.new, ![i].over = preview.over,
                                 ![i].auto = (pc[i] = "source")]

\* Enter on a source whose file is where it usually is reads it at once, any
\* other source asks for the path.
SelectSource(i) ==
  /\ pc[i] = "source"
  /\ \/ \E doc \in Imports : doc.auto /\ TryParse(i, doc)
     \/ /\ pc' = [pc EXCEPT ![i] = "path"]
        /\ wiz' = [wiz EXCEPT ![i].auto = FALSE]
  /\ UNCHANGED <<file, bak, lock, mem, temp, out, ret, chg, edits, past>>

EnterPath(i) ==
  /\ pc[i] = "path"
  /\ \E doc \in Imports : TryParse(i, doc)
  /\ UNCHANGED <<file, bak, lock, mem, temp, out, ret, chg, edits, past>>

\* Esc; what was read is read again before the next preview.
WizardBack(i) ==
  /\ pc[i] \in {"path", "preview"}
  /\ pc' = [pc EXCEPT ![i] = IF pc[i] = "preview" /\ ~wiz[i].auto THEN "path" ELSE "source"]
  /\ wiz' = [wiz EXCEPT ![i] = [NoWizard EXCEPT !.by = wiz[i].by, !.overwrite = wiz[i].overwrite]]
  /\ UNCHANGED <<file, bak, lock, mem, temp, out, ret, chg, edits, past>>

\* Ctrl-C anywhere, q and Esc at the first step.  The first run does not ask again.
WizardQuit(i) ==
  /\ pc[i] \in {"source", "path", "preview"}
  /\ IF wiz[i].by = "first run"
     THEN /\ mem' = [mem EXCEPT ![i].dismissed = TRUE]
          /\ StartWrite(i, mem'[i], {}, "list")
          /\ wiz' = [wiz EXCEPT ![i] = [NoWizard EXCEPT !.by = "first run"]]
          /\ UNCHANGED <<temp, seen, pending>>
     ELSE Gone(i)
  /\ UNCHANGED <<file, bak, lock, edits, want, blind, slipped, faults>>

\* Enter on a preview with something to import.  The first run merges into the
\* configuration it has, sshore import into one loaded again.
WizardConfirm(i) ==
  /\ pc[i] = "preview" /\ wiz[i].new + wiz[i].over > 0
  /\ IF wiz[i].by = "first run"
     THEN /\ NewEdit
          /\ mem' = [mem EXCEPT ![i] = [marks |-> MergeImports(@.marks, Entries(wiz[i].rows, edits'), FALSE),
                                        dismissed |-> TRUE]]
          /\ StartWrite(i, mem'[i], NamesIn(wiz[i].rows), "list")
          /\ wiz' = [wiz EXCEPT ![i] = [NoWizard EXCEPT !.by = "first run"]]
     ELSE /\ pc' = [pc EXCEPT ![i] = "merge"]
          /\ UNCHANGED <<mem, wiz, out, ret, chg, edits>>
  /\ UNCHANGED <<file, bak, lock, temp, past>>

\* MUTANT of FinishImport: merged into the configuration of the preview.
FinishImportStale(i) ==
  /\ pc[i] = "merge"
  /\ \/ /\ file = NoFile
        /\ StartWrite(i, Empty, {}, "merge")
        /\ seen' = [seen EXCEPT ![i] = file]
        /\ UNCHANGED <<mem, temp, wiz, edits, pending>>
     \/ /\ file # NoFile /\ Loads(file) /\ NewEdit
        /\ LET marks == MergeImports((IF wiz[i].by = "wizard" THEN mem[i] ELSE file).marks,
                                    Entries(wiz[i].rows, edits'), wiz[i].overwrite)
           IN  StartWrite(i, [file EXCEPT !.marks = marks],
                          {marks[k].name : k \in {j \in DOMAIN marks : marks[j].id = edits'}}, "off")
        /\ seen' = [seen EXCEPT ![i] = file]
        /\ UNCHANGED <<mem, temp, wiz, pending>>
     \/ /\ file # NoFile /\ ~Loads(file)
        /\ Gone(i)
        /\ UNCHANGED edits
  /\ UNCHANGED <<file, bak, lock, want, blind, slipped, faults>>

\* finish_import()
FinishImport(i) ==
  /\ pc[i] = "merge"
  /\ \/ /\ file = NoFile
        /\ StartWrite(i, Empty, {}, "merge")
        /\ seen' = [seen EXCEPT ![i] = file]
        /\ UNCHANGED <<mem, temp, wiz, edits, pending>>
     \/ /\ file # NoFile /\ Loads(file) /\ NewEdit
        /\ LET marks == MergeImports(file.marks, Entries(wiz[i].rows, edits'), wiz[i].overwrite)
           IN  StartWrite(i, [file EXCEPT !.marks = marks],
                          {marks[k].name : k \in {j \in DOMAIN marks : marks[j].id = edits'}}, "off")
        /\ seen' = [seen EXCEPT ![i] = file]
        /\ UNCHANGED <<mem, temp, wiz, pending>>
     \/ /\ file # NoFile /\ ~Loads(file)
        /\ Gone(i)
        /\ UNCHANGED edits
  /\ UNCHANGED <<file, bak, lock, want, blind, slipped, faults>>

-----------------------------------------------------------------------------
(* Sessions                                                                *)

\* connect(), or connect_adhoc() and connect_session(), which put a temporary
\* bookmark at the end of the loaded configuration.
Connect(i) ==
  /\ "session" \in May[i] /\ pc[i] = "list"
  /\ pc' = [pc EXCEPT ![i] = "session"]
  /\ \/ mem[i].marks # <<>> /\ UNCHANGED <<mem, temp, edits>>
     \/ /\ NewEdit
        /\ \E n \in Temp : mem' = [mem EXCEPT ![i].marks = Append(@, Entry(n, edits', Session, TRUE))]
        /\ temp' = [temp EXCEPT ![i] = Len(mem'[i].marks)]
  /\ UNCHANGED <<file, bak, lock, wiz, out, ret, chg, past>>

\* The first bookmark of the name is replaced, or one is added.
Put(marks, n, id) ==
  LET at == {k \in DOMAIN marks : marks[k].name = n}
  IN  IF at = {} THEN Append(marks, Entry(n, id, Form, TRUE))
      ELSE [marks EXCEPT ![Min(at)] = Entry(n, id, IF @.born = Session THEN Form ELSE @.born, TRUE)]

\* ~b: locked_modify() takes the lock and changes the file as it is now.  The
\* instance's own copy does not learn of it.
SaveBookmark(i, n) ==
  /\ "save" \in May[i] /\ pc[i] = "session" /\ lock = NoInst /\ Loads(file) /\ NewEdit
  /\ lock' = i
  /\ StartWrite(i, [file EXCEPT !.marks = Put(@, n, edits')], {n}, "session")
  /\ UNCHANGED <<file, bak, mem, temp, wiz, past>>

\* The temporary bookmark is removed from the loaded configuration.
Forget(i) ==
  /\ mem' = [mem EXCEPT ![i].marks = IF temp[i] = 0 THEN @ ELSE RemoveAt(@, temp[i])]
  /\ temp' = [temp EXCEPT ![i] = 0]

\* The session ends: connection statistics are saved with the configuration
\* loaded long ago, unlocked; the temporary bookmark is removed from memory
\* afterwards.
SessionEnd(i) ==
  /\ pc[i] = "session"
  /\ StartWrite(i, mem[i], {}, "list")
  /\ Forget(i)
  /\ UNCHANGED <<file, bak, lock, wiz, edits, past>>

\* The connection fails: nothing is saved.
SessionFails(i) ==
  /\ pc[i] = "session"
  /\ pc' = [pc EXCEPT ![i] = "list"]
  /\ Forget(i)
  /\ UNCHANGED <<file, bak, lock, wiz, out, ret, chg, edits, past>>

-----------------------------------------------------------------------------
\* The instance quits or dies anywhere, in the middle of a copy too; the system
\* releases its lock.
Crash(i) ==
  /\ pc[i] # "off" /\ Gone(i)
  /\ lock' = IF lock = i THEN NoInst ELSE lock
  /\ \/ UNCHANGED bak /\ slipped' = slipped \ {i}
     \/ /\ pc[i] = "backup" /\ file # NoFile
        /\ bak' = Torn /\ slipped' = slipped \cup Copied(i)
  /\ UNCHANGED <<file, edits, want, blind, faults>>

Next ==
  \E i \in Insts :
    \/ Open(i) \/ Connect(i) \/ SessionEnd(i) \/ SessionFails(i) \/ Crash(i)
    \/ Backup(i) \/ Rename(i) \/ WriteFails(i)
    \/ \E n \in Names : SaveBookmark(i, n)
    \/ \E n \in Names, ok \in BOOLEAN : Add(i, n, ok) \/ FromGroup(i, n, ok)
    \/ \E k \in DOMAIN mem[i].marks :
         Delete(i, k) \/ \E n \in Names, ok \in BOOLEAN : Edit(i, k, n, ok)
    \/ \E overwrite \in BOOLEAN :
         OpenWizard(i, overwrite) \/ \E doc \in Imports : ImportFile(i, doc, overwrite)
    \/ SelectSource(i) \/ EnterPath(i) \/ WizardBack(i) \/ WizardQuit(i) \/ WizardConfirm(i)
    \/ FinishImport(i)

Spec == Init /\ [][Next]_vars

-----------------------------------------------------------------------------
\* Who holds the lock is writing, a temporary bookmark is where its session
\* expects it, and a preview is only shown of what the wizard read.
TypeOK ==
  /\ lock = NoInst \/ (lock \in Insts /\ pc[lock] \in {"backup", "rename"})
  /\ \A i \in Insts :
       /\ temp[i] # 0 => /\ temp[i] \in DOMAIN mem[i].marks
                         /\ mem[i].marks[temp[i]].born = Session
       /\ pc[i] \in {"source", "path", "preview"} => wiz[i].by \in {"first run", "wizard"}
       /\ pc[i] = "merge" => wiz[i].by \in {"file", "wizard"}

\* "Prevents concurrent sshore instances from losing each other's changes": a
\* change reported as saved stays in the file until the same bookmark is
\* changed again.
NoLostEdit == file # NoFile => \A n \in Names : want[n] # Unset => Saved(file, n) = want[n]

\* Any number of locked writers, and a writer without the lock as long as it
\* knows the file it replaces and meets no lock holder, keep every change.  An
\* edit whose write failed is not taken back: it counts as a change, by the same
\* instance, of the next save that succeeds.
LostOnlyBlindly == ~blind => NoLostEdit

\* "Before replacing the existing config, create a .bak backup": at the moment
\* of the rename the backup is the whole of what is replaced, unless this
\* writer's copy failed or another writer came between its copy and its rename.
BackupOfReplaced ==
  \A i \in Insts : pc[i] = "rename" /\ file # NoFile /\ i \notin slipped => bak = file

\* Bookmarks are looked up, edited and replaced by name, so names are unique,
\* unless a session's temporary bookmark was saved, a group of the name became
\* a bookmark, or one import brought two.
NamesAreUnique ==
  file # NoFile =>
    \A j, k \in DOMAIN file.marks :
      LET a == file.marks[j]  b == file.marks[k]
      IN  j # k /\ a.name = b.name =>
            {Session, Group} \cap {a.born, b.born} # {} \/ (a.born = b.born /\ a.born # Form)

\* An import leaves every other bookmark as and where it was, takes every
\* bookmark whose name is new, and what it replaces (with --overwrite only) by
\* the last of that name; as long as nobody has changed the configuration
\* since the preview, it does what the preview said.
ImportKeeps ==
  [][\A i \in Insts : pc[i] = "merge" /\ pc'[i] = "backup" /\ ret'[i] = "off" =>
       LET old == file.marks
           rows == Entries(wiz[i].rows, edits')
           Kept(k) == ~(wiz[i].overwrite /\ old[k].name \in NamesIn(rows))
           Taken(k) == \/ rows[k].name \notin NamesIn(old)
                       \/ wiz[i].overwrite /\ \A j \in DOMAIN rows : rows[j].name = rows[k].name => j <= k
           stay == {k \in DOMAIN old : Kept(k)}
           come == {k \in DOMAIN rows : Taken(k)}
       IN  /\ out'[i].marks = Pick(old \o rows, stay \cup {Len(old) + k : k \in come})
           /\ wiz[i].by = "wizard" /\ NamesIn(old) = NamesIn(mem[i].marks) =>
                /\ wiz[i].new = Cardinality({k \in DOMAIN rows : rows[k].name \notin NamesIn(old)})
                /\ wiz[i].over > 0 <=> \E k \in DOMAIN rows : Taken(k) /\ rows[k].name \in NamesIn(old)]_vars
=============================================================================
