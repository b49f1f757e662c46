----------------------------- MODULE ConfigImport -----------------------------
(***************************************************************************)
(* What sshore import reads and how it is merged (src/config/ssh_import.rs *)
(* and the other importers, import_from_source() and export_bookmarks()    *)
(* of src/config/mod.rs).  A foreign file is a sequence of lines, rows or  *)
(* XML events, each a record of what kind it is and what it says; a        *)
(* bookmark is reduced to its name, its host, its tags, its jump host and  *)
(* whether its command on connect would pass validate_on_connect().        *)
(***************************************************************************)
EXTENDS ConfigMerge

CONSTANTS
  Hosts,    \* hosts that pass validate_hostname()
  Clean,    \* Clean[n]: what sanitize_bookmark_name() makes of n
  None      \* no block, no jump host, no answer

ASSUME ImportAssumption ==
  /\ "" \notin Hosts
  /\ \A n \in DOMAIN Clean : Clean[n] \in DOMAIN Clean /\ Clean[Clean[n]] = Clean[n]

ValidHost(h) == h \in Hosts

\* A bookmark as read; only OpenSSH and sshore files carry commands.
Row(n, h, tags, jump) == [name |-> n, host |-> h, tags |-> tags, jump |-> jump, ok |-> TRUE]

\* What a reader has: the bookmarks read and the block it is in.
Reading == [rows |-> <<>>, block |-> None]

Push(s, row) == [s EXCEPT !.rows = Append(@, row), !.block = None]

SetIn(s, field, v) == IF s.block = None THEN s ELSE [s EXCEPT !.block[field] = v]

-----------------------------------------------------------------------------
(* ssh_import.rs: OpenSSH files, with the files they include               *)

\* The block in progress becomes a bookmark; a host it does not give is its name.
FinishHost(s) == IF s.block = None THEN s ELSE Push(s, s.block)

RECURSIVE ParseSshConfig(_, _, _)

\* parse_ssh_config_recursive(): a file is read at most once.
ParseSshConfig(files, f, st) ==
  LET Line(s, l) ==
        CASE l.key = "host" ->
               [FinishHost(s) EXCEPT !.block = IF l.val = "*" THEN None ELSE Row(l.val, l.val, {}, None)]
          [] l.key = "hostname" -> SetIn(s, "host", l.val)
          [] l.key = "remotecommand" -> SetIn(s, "ok", l.val)
          [] l.key = "include" ->
               LET inner == ParseSshConfig(files, l.val, [s EXCEPT !.block = None])
               IN  [inner EXCEPT !.block = s.block]
          [] OTHER -> s
  IN  IF f \in st.visited THEN st
      ELSE FinishHost(FoldLeft(Line, [st EXCEPT !.visited = @ \cup {f}], files[f]))

SshRows(files) == ParseSshConfig(files, "f", Reading @@ [visited |-> {}]).rows

-----------------------------------------------------------------------------
(* import_putty.rs                                                         *)

\* MUTANT of FinishPutty: a session that is not imported stays current.
FinishPuttyVariant(s) ==
  IF s.block = None \/ s.block.protocol # "ssh" \/ ~ValidHost(s.block.host) THEN s
  ELSE Push(s, Row(s.block.name, s.block.host, {}, s.block.jump))

\* is_valid_ssh_session() and the filter of parse_putty_reg().
FinishPutty(s) ==
  IF s.block = None \/ s.block.protocol # "ssh" \/ ~ValidHost(s.block.host)
  THEN [s EXCEPT !.block = None]
  ELSE Push(s, Row(s.block.name, s.block.host, {}, s.block.jump))

\* parse_sessions(): a blank line or any header ends a session.
PuttyLine(s, l) ==
  CASE l.key = "session" ->
         [FinishPutty(s) EXCEPT !.block = Row(Clean[l.val], "", {}, None) @@ [protocol |-> "ssh"]]
    [] l.key \in {"section", "blank"} -> FinishPutty(s)
    [] l.key = "host" -> SetIn(s, "host", l.val)
    [] l.key = "proxy" -> SetIn(s, "jump", l.val)
    [] l.key = "protocol" -> SetIn(s, "protocol", l.val)
    [] OTHER -> s

PuttyRows(lines) == FinishPutty(FoldLeft(PuttyLine, Reading, lines)).rows

-----------------------------------------------------------------------------
(* import_mobaxterm.rs                                                     *)

\* A session line is complete in itself, but for the folder it is in.
MobaLine(s, l) ==
  CASE l.key = "section" -> [s EXCEPT !.block = None]
    [] l.key = "folder" -> [s EXCEPT !.block = l.val]
    [] l.key = "session" ->
         IF ~l.ssh \/ ~ValidHost(l.host) THEN s
         ELSE [s EXCEPT !.rows = Append(@, Row(Clean[l.val], l.host,
                                               IF s.block = None THEN {} ELSE {s.block}, None))]
    [] OTHER -> s

MobaRows(lines) == FoldLeft(MobaLine, Reading, lines).rows

-----------------------------------------------------------------------------
(* import_securecrt.rs: nested keys; folders are the keys that are open    *)

FinishKey(s) ==
  IF s.block = None \/ ~ValidHost(s.block.host) THEN [s EXCEPT !.block = None] ELSE Push(s, s.block)

CrtEvent(s, e) ==
  CASE e.key = "open" /\ ~s.inside -> [s EXCEPT !.inside = (e.val = "Sessions")]
    [] e.key = "open" /\ s.inside ->
         [FinishKey(s) EXCEPT !.block = Row(Clean[e.val], "", ToSet(s.folders), None),
                              !.folders = Append(@, e.val)]
    [] e.key = "close" /\ s.inside ->
         IF s.folders = <<>> THEN [FinishKey(s) EXCEPT !.inside = FALSE]
         ELSE [FinishKey(s) EXCEPT !.folders = Front(@)]
    [] e.key = "host" -> SetIn(s, "host", e.val)
    [] e.key = "firewall" -> SetIn(s, "jump", e.val)
    [] OTHER -> s

CrtRows(events) ==
  FinishKey(FoldLeft(CrtEvent, Reading @@ [inside |-> FALSE, folders |-> <<>>], events)).rows

-----------------------------------------------------------------------------
(* import_tabby.rs: a jump host is given by the id of another profile      *)

\* A profile without a name is called unnamed, and cannot be a jump host.
TabbyName(p) == IF p.name = None THEN "unnamed" ELSE Clean[p.name]

TabbyRows(profiles, groups) ==
  LET ssh == SelectSeq(profiles, LAMBDA p : p.ssh /\ ValidHost(p.host))
      With(id) == {k \in DOMAIN ssh : ssh[k].id # None /\ ssh[k].id = id}
      Named(id) == {k \in With(id) : ssh[k].name # None}
      Jumps(id) == {k \in With(id) : Named(ssh[k].jump) # {}}
      JumpOf(p) == IF Jumps(p.id) = {} THEN None
                   ELSE TabbyName(ssh[Max(Named(ssh[Max(Jumps(p.id))].jump))])
      Group(p) == IF p.group \in DOMAIN groups THEN {groups[p.group]} ELSE {p.group} \ {None, ""}
  IN  [k \in DOMAIN ssh |-> Row(TabbyName(ssh[k]), ssh[k].host, Group(ssh[k]), JumpOf(ssh[k]))]

-----------------------------------------------------------------------------
(* import_csv.rs, import_json.rs and files exported by sshore              *)

\* Rows are skipped when a cell is empty: for CSV before the name is cleaned,
\* for JSON after.
CsvRows(cells) ==
  LET kept == SelectSeq(cells, LAMBDA c : c.name # "" /\ ValidHost(c.host))
  IN  [k \in DOMAIN kept |-> Row(Clean[kept[k].name], kept[k].host, {}, None)]

JsonRows(cells) ==
  LET kept == SelectSeq(cells, LAMBDA c : Clean[c.name] # "" /\ ValidHost(c.host))
  IN  [k \in DOMAIN kept |-> Row(Clean[kept[k].name], kept[k].host, {}, None)]

\* export_bookmarks(): the bookmarks that pass every filter given; none is an
\* error.  Usage data and passwords stay behind.
ExportBookmarks(marks, tags, names) ==
  SelectSeq(marks, LAMBDA b : tags \subseteq b.tags /\ b.name \in names)

-----------------------------------------------------------------------------
(* import_from_source() and what cmd_import() and the wizard add to it     *)

\* A file that cannot be read or parsed, or lacks what its format requires.
Unreadable(doc) == doc.kind = "broken"

ImportFromSource(doc) ==
  CASE doc.kind = "sshconfig"  -> SshRows(doc.body)
    [] doc.kind = "putty"      -> PuttyRows(doc.body)
    [] doc.kind = "mobaxterm"  -> MobaRows(doc.body)
    [] doc.kind = "securecrt"  -> CrtRows(doc.body)
    [] doc.kind = "tabby"      -> TabbyRows(doc.body, doc.groups)
    [] doc.kind = "csv"        -> CsvRows(doc.body)
    [] doc.kind = "json"       -> JsonRows(doc.body)
    [] doc.kind = "sshore"     -> doc.body

\* The importers of foreign formats add the tags of the command line
\* themselves, for OpenSSH and sshore files the caller does.
Imported(doc, tags) ==
  LET rows == ImportFromSource(doc)
  IN  [k \in DOMAIN rows |-> [rows[k] EXCEPT !.tags = @ \cup tags]]

=============================================================================
