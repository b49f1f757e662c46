---------------------------- MODULE MCConfigStore ----------------------------
EXTENDS ConfigStore, ImportMeaning

MCClean == [n \in {"a", "b", "a*", "*", ""} |-> CASE n \in {"a", "a*"} -> "a" [] n = "b" -> "b" [] OTHER -> ""]

Line(k, v) == [key |-> k, val |-> v]
Doc(k, b) == [kind |-> k, body |-> b]
UpTo(S, n) == UNION {[1..k -> S] : k \in 0..n}

MCFiles(f, g) == [x \in {"f", "g"} |-> IF x = "f" THEN f ELSE g]

SshLines == {Line("host", "a"), Line("host", "*"), Line("match", ""), Line("hostname", "h"), Line("hostname", "i"),
             Line("remotecommand", FALSE), Line("include", "g")}
IncludedLines == {Line("host", "a"), Line("host", "b"), Line("hostname", "i"), Line("include", "f")}
PuttyLines == {Line("session", "a"), Line("session", "a*"), Line("section", ""), Line("blank", ""),
               Line("host", "h"), Line("host", "h;"), Line("protocol", "telnet"), Line("proxy", "p")}
MobaLines == {Line("section", ""), Line("folder", "x"), Line("folder", "y")}
             \cup {[key |-> "session", val |-> "b", ssh |-> s, host |-> h] : s \in BOOLEAN, h \in {"h", ""}}
CrtEvents == {Line("open", "a"), Line("open", "b"), Line("close", ""), Line("host", "h"), Line("firewall", "p")}
TabbyProfiles ==
  {[id |-> id, name |-> name, host |-> host, jump |-> jump, group |-> IF id = "1" THEN "g" ELSE "k", ssh |-> ssh] :
     id \in {"1", "2"}, name \in {"a*", "b", None}, host \in {"h", "i", "h;"}, jump \in {None, "1", "2"}, ssh \in BOOLEAN}
Cells == [name : {"a", "a*", "*", ""}, host : {"h", "i", "h;", ""}]

\* XML nests.
Balanced(s) ==
  LET Count(k, key) == Cardinality({x \in 1..k : s[x].key = key})
  IN  /\ \A k \in DOMAIN s : Count(k, "open") >= Count(k, "close")
      /\ Count(Len(s), "open") = Count(Len(s), "close")

\* Bounds: every OpenSSH file of up to four lines with one of up to one, or of three
\* with one of two, that it may include, registry files of up to four lines, MobaXterm files of up to four,
\* XML of up to eight events, two profiles or two rows.
MCDocs ==
  {Doc("sshconfig", MCFiles(f, g)) : f \in UpTo(SshLines, 4), g \in UpTo(IncludedLines, 1)}
  \cup {Doc("sshconfig", MCFiles(f, g)) : f \in UpTo(SshLines, 3), g \in UpTo(IncludedLines, 2)}
  \cup {Doc("putty", s) : s \in UpTo(PuttyLines, 4)}
  \cup {Doc("mobaxterm", s) : s \in UpTo(MobaLines, 4)}
  \cup {Doc("securecrt", <<Line("open", "Sessions")>> \o s \o <<Line("close", "")>>) :
          s \in {t \in UpTo(CrtEvents, 6) : Balanced(t)}}
  \cup {Doc("tabby", s) @@ [groups |-> ("g" :> "x")] : s \in UpTo(TabbyProfiles, 2)}
  \cup {Doc(k, s) : k \in {"csv", "json"}, s \in UpTo(Cells, 2)}
  \cup {Doc("sshore", ExportBookmarks(<<Row("a", "h", {"x"}, None), Row("b", "h", {"x", "y"}, "a")>>, t, n)) :
          t \in SUBSET {"x", "y"}, n \in SUBSET {"a", "b"}}

\* What the readers find in a file, and whether it is where it usually is.
MCRead(doc, auto) ==
  [auto |-> auto, readable |-> ~Unreadable(doc),
   rows |-> IF Unreadable(doc) THEN <<>> ELSE Imported(doc, {})]

\* Sources that reach the configuration: two hosts of one name, two names one of
\* which has a command that will not be accepted, and a broken file.
MCImports ==
  {MCRead(Doc("csv", <<[name |-> "a", host |-> "h"], [name |-> "a*", host |-> "h"]>>), FALSE),
   MCRead(Doc("sshconfig", MCFiles(<<Line("host", "a"), Line("host", "b"), Line("remotecommand", FALSE)>>,
                                   <<>>)), TRUE),
   MCRead(Doc("broken", <<>>), TRUE)}

MCMay == [i \in Insts |-> IF i = "i1" THEN {"import", "delete"} ELSE {"edit", "group", "session", "save"}]

\* Every reader finds in a file the bookmarks that are in it, each with the
\* fields of its own block, and what was imported with a tag can be exported by
\* it.  The readers have no state: they are checked in the initial state.
SourcesRead ==
  file = NoFile /\ bak = NoFile /\ (\A i \in Insts : pc[i] = "off") =>
    \A doc \in MCDocs :
      LET rows == Imported(doc, {"t"})
      IN  Means(doc, ImportFromSource(doc)) /\ ExportBookmarks(rows, {"t"}, NamesIn(rows)) = rows
=============================================================================
