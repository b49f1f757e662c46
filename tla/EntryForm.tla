----------------------------- MODULE EntryForm -----------------------------
(* The add/edit form of the TUI (tui/views/form.rs, UnifiedForm/FormState).  *)
(* One form serves bookmarks and groups: an entry with session lines is a     *)
(* group, one without is a bookmark, whatever it was when the form opened.    *)
(* A form is a record; every operator is one method of the form and returns   *)
(* the form after it.  Keystrokes that edit one text are one step (Retype).   *)
(* Kept: name, env, password, the sessions' names.  The other fields change   *)
(* nothing but whether the entry validates (see Builds).                      *)
EXTENDS Naturals, Sequences, SequencesExt

CONSTANTS
  Names,     \* texts a name field can hold, besides the empty one
  SNames,    \* texts a session's name can hold, besides the empty one
  Detect,    \* [Names \cup {""} -> env]: what detect_env makes of a name
  MaxSess    \* bound: session lines in one form

Fields == <<"name", "env", "password">>
FieldCount == Len(Fields)
SessionName == FieldCount + 1
SessionCmd == FieldCount + 2

EnvOptions == <<"", "production">>
Envs == {EnvOptions[i] : i \in DOMAIN EnvOptions}

ASSUME FormAssumption ==
  /\ "" \notin Names \cup SNames
  /\ \A t \in Names \cup {""} : Detect[t] \in Envs
  /\ MaxSess \in Nat \ {0}

NoForm == [open |-> FALSE]

\* target: "add", "bookmark" or "group"; stored: the keychain had a password
\* for this name when the form opened; sessions: the lines' names.
NewAdd ==
  [open |-> TRUE, target |-> "add", idx |-> 0, orig |-> "", name |-> "",
   env |-> "", pw |-> "", modified |-> FALSE, stored |-> FALSE,
   sessions |-> <<>>, cur |-> 0, collapsed |-> TRUE, focused |-> 1]

NewEditBookmark(b, i, hasStored) ==
  [NewAdd EXCEPT !.target = "bookmark", !.idx = i, !.orig = b.name,
                 !.name = b.name, !.env = b.env, !.stored = hasStored]

\* A group without sessions gets one empty line to type into.
NewEditGroup(g, i) ==
  [NewAdd EXCEPT !.target = "group", !.idx = i, !.orig = g.name,
                 !.name = g.name, !.env = g.env,
                 !.sessions = IF g.sessions = <<>> THEN <<"">> ELSE g.sessions,
                 !.collapsed = FALSE]

IsGroup(f) == f.sessions # <<>>
ShowsSessions(f) == IsGroup(f) /\ ~f.collapsed

NextField(f) ==
  IF ShowsSessions(f) /\ f.focused = FieldCount
  THEN [f EXCEPT !.cur = 0, !.focused = SessionName]
  ELSE IF ShowsSessions(f) /\ f.focused = SessionName
  THEN [f EXCEPT !.focused = SessionCmd]
  ELSE IF ShowsSessions(f) /\ f.focused = SessionCmd
  THEN IF f.cur < Len(f.sessions) - 1
       THEN [f EXCEPT !.cur = @ + 1, !.focused = SessionName]
       ELSE [f EXCEPT !.cur = 0, !.focused = 1]
  ELSE IF f.focused < FieldCount THEN [f EXCEPT !.focused = @ + 1] ELSE f

PrevField(f) ==
  IF ShowsSessions(f) /\ f.focused = SessionCmd
  THEN [f EXCEPT !.focused = SessionName]
  ELSE IF ShowsSessions(f) /\ f.focused = SessionName
  THEN IF f.cur > 0
       THEN [f EXCEPT !.cur = @ - 1, !.focused = SessionCmd]
       ELSE [f EXCEPT !.focused = FieldCount]
  ELSE IF ShowsSessions(f) /\ f.focused = 1
  THEN [f EXCEPT !.cur = Len(f.sessions) - 1, !.focused = SessionCmd]
  ELSE IF f.focused > 1 THEN [f EXCEPT !.focused = @ - 1] ELSE f

CycleEnv(f) ==
  LET i == CHOOSE j \in DOMAIN EnvOptions : EnvOptions[j] = f.env
  IN  [f EXCEPT !.env = EnvOptions[(i % Len(EnvOptions)) + 1]]

\* insert_char, delete_char and delete_char_forward until the focused text
\* reads t.  Every edit of the name detects the environment anew, so it
\* overrides an environment chosen by hand.
Retype(f, t) ==
  CASE f.focused > FieldCount /\ f.cur \notin 0..(Len(f.sessions) - 1) -> f
    [] f.focused = SessionName /\ f.cur < Len(f.sessions) ->
         [f EXCEPT !.sessions[f.cur + 1] = t]
    [] f.focused = SessionCmd -> f
    [] f.focused = 1 -> [f EXCEPT !.name = t, !.env = Detect[t]]
    [] f.focused = 3 -> [f EXCEPT !.pw = t, !.modified = TRUE]
    [] OTHER -> f

\* The texts the focused field may be given.
Texts(f) ==
  CASE f.focused = 1 -> Names \cup {""}
    [] f.focused = 3 -> {"", "secret"}
    [] f.focused = SessionName -> SNames \cup {""}
    [] OTHER -> {}

AddSessionLine(f) ==
  LET len == Len(f.sessions)
      at == IF f.cur + 1 < len THEN f.cur + 1 ELSE len
  IN  [f EXCEPT !.sessions = InsertAt(@, at + 1, ""),
                !.cur = IF f.cur + 1 < len + 1 THEN f.cur + 1 ELSE len,
                !.collapsed = FALSE]

\* MUTANT of RemoveSessionLine: the cursor stays where the last line was.
RemoveSessionLineVariant(f) ==
  IF f.sessions = <<>> THEN f
  ELSE LET left == RemoveAt(f.sessions, f.cur + 1)
       IN  [f EXCEPT !.sessions = left, !.collapsed = @ \/ left = <<>>]

RemoveSessionLine(f) ==
  IF f.sessions = <<>> THEN f
  ELSE LET left == RemoveAt(f.sessions, f.cur + 1)
       IN  [f EXCEPT !.sessions = left,
                     !.cur = IF f.cur < Len(left) THEN f.cur
                             ELSE IF left = <<>> THEN 0 ELSE Len(left) - 1,
                     !.collapsed = @ \/ left = <<>>]

\* render_unified_form: whether a group's form is announced, the session lines
\* drawn, and the field drawn with the cursor (0: none is).
DrawnForm(f) ==
  [edits |-> f.target # "add", group |-> IsGroup(f),
   lines |-> IF ShowsSessions(f) THEN f.sessions ELSE <<>>,
   cursor |-> IF f.focused <= FieldCount \/ (ShowsSessions(f) /\ f.cur < Len(f.sessions))
              THEN f.focused ELSE 0]

\* validate_and_build succeeds: the name is given and no other entry of either
\* kind has it, and a group's session names are given and distinct.  othersOk
\* stands for host, port and commands, which the model does not hold.
Builds(f, bms, grps, othersOk) ==
  LET checkName == f.target = "add" \/ f.orig # f.name
      taken == {bms[i].name : i \in DOMAIN bms} \cup
               {grps[i].name : i \in DOMAIN grps}
  IN  /\ f.name # ""
      /\ checkName => f.name \notin taken
      /\ othersOk
      /\ \A i \in DOMAIN f.sessions : f.sessions[i] # ""
      /\ IsInjective(f.sessions)

Built(f, id) ==
  [id |-> id, name |-> f.name, env |-> f.env, sessions |-> f.sessions]
=============================================================================
