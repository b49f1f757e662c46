------------------------------ MODULE MCBrowser -------------------------------
\* A small instance of Browser for TLC.
EXTENDS Browser

MCRank == [name |-> [n \in Names \cup {Up} |-> CASE n = Up -> 0 [] n = "a" -> 1 [] n = "b" -> 2 [] OTHER -> 3],
           size |-> [n \in Names \cup {Up} |-> CASE n = Up -> 0 [] n = "a" -> 3 [] n = "b" -> 2 [] OTHER -> 1]]
MCFields   == <<"name", "size">>
MCPatterns == {{"a"}}

\* The bound of the run: how far from the start a state may be, counting the
\* settings, marks, directories, contents, transfers, queries and focus that
\* differ from it.
MaxUnusual == 3
One(b)     == IF b THEN 1 ELSE 0
InPane(s)  == One(panes[s].cwd = "sub") + One(panes[s].marked # {})
              + One(disk[s]["top"] # (IF s = "left" THEN LeftTop ELSE RightTop)) + One(disk[s]["sub"] # SubFiles)
InOpts     == One(opts.filter # NoFilter) + One(opts.hidden) + One(opts.sort # 1) + One(~opts.asc)
InList(i)  == IF i \notin DOMAIN bg THEN 0
              ELSE 1 + bg[i].blocked + One(bg[i].move) + One(bg[i].cancel) + One(bg[i].done # "run")
Near == InPane("left") + InPane("right") + InOpts + InList(1) + InList(2)
        + One(active = "right") + One(focus > 1) + One(policy # 0) + One(started > Len(bg))
        + One(mode.kind \notin {"normal", "popup", "overwrite"}) <= MaxUnusual
===============================================================================
