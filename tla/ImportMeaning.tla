---------------------------- MODULE ImportMeaning ----------------------------
(***************************************************************************)
(* What the foreign formats mean, said of whole files instead of line by   *)
(* line: which bookmarks are in a file, and that each has the fields of    *)
(* its own block and of no other.  The readers of ConfigImport are checked *)
(* against it.                                                             *)
(***************************************************************************)
EXTENDS ConfigImport

\* The value of the last line of the given kind among lines j..k, or default.
LastOf(lines, j, k, key, default) ==
  LET at == {x \in j..k : lines[x].key = key}
  IN  IF at = {} THEN default ELSE lines[Max(at)].val

\* The last line of the block that begins at line k: before the next ending.
BlockEnd(lines, k, endings) ==
  LET later == {x \in (k + 1)..Len(lines) : lines[x].key \in endings}
  IN  IF later = {} THEN Len(lines) ELSE Min(later) - 1

\* Every session of a registry file that is for SSH and has a usable host.
MeantPutty(lines) ==
  LET End(k) == BlockEnd(lines, k, {"session", "section", "blank"})
      Host(k) == LastOf(lines, k, End(k), "host", "")
      kept == {k \in DOMAIN lines : /\ lines[k].key = "session" /\ ValidHost(Host(k))
                                    /\ LastOf(lines, k, End(k), "protocol", "ssh") = "ssh"}
      order == InOrder(kept)
  IN  [x \in DOMAIN order |->
         LET k == order[x]
         IN  Row(Clean[lines[k].val], Host(k), {}, LastOf(lines, k, End(k), "proxy", None))]

\* A session of MobaXterm has the folder its section names before it.
MeantMoba(lines) ==
  LET Start(k) == Max({x \in 1..k : lines[x].key = "section"} \cup {1})
      Folder(k) == LastOf(lines, Start(k), k, "folder", None)
      order == InOrder({k \in DOMAIN lines : lines[k].key = "session" /\ lines[k].ssh
                                             /\ ValidHost(lines[k].host)})
  IN  [x \in DOMAIN order |->
         LET k == order[x]
         IN  Row(Clean[lines[k].val], lines[k].host, {Folder(k)} \ {None}, None)]

\* Every key under Sessions that gives a host before its first nested key; its
\* tags are the keys around it.
MeantCrt(events) ==
  LET Count(j, k, key) == Cardinality({x \in j..k : events[x].key = key})
      Around(j, k) == \A x \in j..k : Count(j, x, "open") > Count(j, x, "close")
      root == Min({x \in DOMAIN events : events[x].key = "open" /\ events[x].val = "Sessions"}
                  \cup {Len(events) + 1})
      Keys == {k \in (root + 1)..Len(events) : events[k].key = "open" /\ Around(root, k)}
      Text(k, key, default) == LastOf(events, k, BlockEnd(events, k, {"open", "close"}), key, default)
      order == InOrder({k \in Keys : ValidHost(Text(k, "host", ""))})
  IN  [x \in DOMAIN order |->
         LET k == order[x]
         IN  Row(Clean[events[k].val], Text(k, "host", ""),
                 {events[j].val : j \in {y \in Keys : y < k /\ Around(y, k)}},
                 Text(k, "firewall", None))]

\* The files an OpenSSH file reaches.
Reached(files) ==
  LET Includes(F) == F \cup {l.val : l \in {x \in UNION {ToSet(files[g]) : g \in F} : x.key = "include"}}
      R[n \in Nat] == IF n = 0 THEN {"f"} ELSE Includes(R[n - 1])
  IN  R[Cardinality(DOMAIN files)]

\* A bookmark of an OpenSSH file is a Host block: what is set from its Host line
\* to the next Host or Match line, by the first line that sets it.  The importer
\* reads on to the next Host line, lets the last line win and leaves out what a
\* file included in the block begins with: where that differs (Differs), a
\* bookmark of the block is expected with a host of these lines.
SshMeans(files, rows) ==
  LET Settings == {"hostname", "remotecommand"}
      Blocks == {<<g, k>> \in Reached(files) \X (1..Max({Len(files[h]) : h \in DOMAIN files} \cup {0})) :
                   k <= Len(files[g]) /\ files[g][k].key = "host" /\ files[g][k].val # "*"}
      Name(b) == files[b[1]][b[2]].val
      Begins(g) == {l \in ToSet(SubSeq(files[g], 1, BlockEnd(files[g], 0, {"host", "match"}))) : l.key \in Settings}
      At(b, key, endings) ==
        {x \in b[2]..BlockEnd(files[b[1]], b[2], endings) : files[b[1]][x].key = key}
      Own(b, key) == At(b, key, {"host", "match"})
      Differs(b) == \/ \E key \in Settings : Cardinality(At(b, key, {"host"})) > 1 \/ At(b, key, {"host"}) # Own(b, key)
                    \/ \E x \in Own(b, "include") : Begins(files[b[1]][x].val) # {}
      First(b, key, default) == IF Own(b, key) = {} THEN default ELSE files[b[1]][Min(Own(b, key))].val
      Meant(b) == [Row(Name(b), First(b, "hostname", Name(b)), {}, None)
                     EXCEPT !.ok = First(b, "remotecommand", TRUE)]
      Fits(row, b) ==
        IF Differs(b)
        THEN row.name = Name(b)
             /\ row.host \in {Name(b)} \cup {files[b[1]][x].val : x \in At(b, "hostname", {"host"})}
        ELSE row = Meant(b)
  IN  /\ \A k \in DOMAIN rows : \E b \in Blocks : Fits(rows[k], b)
      /\ \A b \in Blocks : Cardinality({k \in DOMAIN rows : rows[k].name = Name(b)})
                           = Cardinality({c \in Blocks : Name(c) = Name(b)})
      /\ \A b \in Blocks : ~Differs(b) =>
           Cardinality({k \in DOMAIN rows : rows[k] = Meant(b)})
           >= Cardinality({c \in Blocks : ~Differs(c) /\ Meant(c) = Meant(b)})

\* Every SSH profile of Tabby with a usable host, in the group it names; its jump
\* host is the named one among them that has the id it gives.  Ids are unique, and
\* two profiles with the same are not told apart.
TabbyMeans(profiles, groups, rows) ==
  LET order == InOrder({k \in DOMAIN profiles : profiles[k].ssh /\ ValidHost(profiles[k].host)})
      Meant(x) == profiles[order[x]]
      Twins == \E x, y \in DOMAIN order : x # y /\ Meant(x).id = Meant(y).id
      Name(p) == IF p.name = None THEN "unnamed" ELSE Clean[p.name]
      Jump(x, y) == Meant(y).id = Meant(x).jump /\ Meant(y).name # None
  IN  /\ DOMAIN rows = DOMAIN order
      /\ \A x \in DOMAIN rows :
           /\ rows[x].name = Name(Meant(x)) /\ rows[x].host = Meant(x).host
           /\ \A g \in DOMAIN groups : Meant(x).group = g => rows[x].tags = {groups[g]}
           /\ Meant(x).group \notin DOMAIN groups => rows[x].tags = {Meant(x).group}
           /\ ~Twins => IF \E y \in DOMAIN rows : Jump(x, y)
                        THEN \E y \in DOMAIN rows : Jump(x, y) /\ rows[x].jump = rows[y].name
                        ELSE rows[x].jump = None

\* Every row with a usable host and a name: in JSON one of which something is left.
CellsMean(cells, named, rows) ==
  LET order == InOrder({k \in DOMAIN cells : named[cells[k].name] # "" /\ ValidHost(cells[k].host)})
  IN  rows = [x \in DOMAIN order |-> Row(Clean[cells[order[x]].name], cells[order[x]].host, {}, None)]

\* What was exported is imported as it was.
Means(doc, rows) ==
  CASE doc.kind = "sshconfig" -> SshMeans(doc.body, rows)
    [] doc.kind = "putty"     -> rows = MeantPutty(doc.body)
    [] doc.kind = "mobaxterm" -> rows = MeantMoba(doc.body)
    [] doc.kind = "securecrt" -> rows = MeantCrt(doc.body)
    [] doc.kind = "tabby"     -> TabbyMeans(doc.body, doc.groups, rows)
    [] doc.kind = "csv"       -> CellsMean(doc.body, [n \in DOMAIN Clean |-> n], rows)
    [] doc.kind = "json"      -> CellsMean(doc.body, Clean, rows)
    [] doc.kind = "sshore"    -> rows = doc.body
=============================================================================
