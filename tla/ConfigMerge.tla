------------------------------ MODULE ConfigMerge ------------------------------
(***************************************************************************)
(* merge_imports() (src/config/ssh_import.rs) and the preview the import   *)
(* wizard shows of it: lists of bookmarks, told apart by their names.      *)
(***************************************************************************)
EXTENDS Naturals, FiniteSets, SequencesExt

NamesIn(marks) == {marks[k].name : k \in DOMAIN marks}

\* The numbers of S in order, and what a list holds at these places.
InOrder(S) ==
  [x \in 1 .. Cardinality(S) |-> CHOOSE k \in S : Cardinality({j \in S : j <= k}) = x]
Pick(marks, S) == [x \in 1 .. Cardinality(S) |-> marks[InOrder(S)[x]]]

\* existing.retain(): every bookmark of the name is taken out.
Without(marks, name) ==
  LET kept[k \in 0 .. Len(marks)] ==
        IF k = 0 THEN <<>>
        ELSE IF marks[k].name = name THEN kept[k - 1] ELSE Append(kept[k - 1], marks[k])
  IN  kept[Len(marks)]

\* MUTANT of MergeImports: names are also compared with those just imported.
MergeImportsVariant(existing, imported, overwrite) ==
  LET Turn(marks, b) ==
        IF b.name \notin NamesIn(marks) THEN Append(marks, b)
        ELSE IF overwrite THEN Append(Without(marks, b.name), b)
        ELSE marks
  IN  FoldLeft(Turn, existing, imported)

\* One turn of the loop; the names are those of its start.
Merge(names, marks, b, overwrite) ==
  IF b.name \notin names THEN Append(marks, b)
  ELSE IF overwrite THEN Append(Without(marks, b.name), b)
  ELSE marks

MergeImports(existing, imported, overwrite) ==
  LET merged[k \in 0 .. Len(imported)] ==
        IF k = 0 THEN existing
        ELSE Merge(NamesIn(existing), merged[k - 1], imported[k], overwrite)
  IN  merged[Len(imported)]

\* build_preview(): how many bookmarks are new and how many would be replaced.
BuildPreview(rows, existing, overwrite) ==
  [new |-> Cardinality({k \in DOMAIN rows : rows[k].name \notin NamesIn(existing)}),
   over |-> IF overwrite
            THEN Cardinality({k \in DOMAIN rows : rows[k].name \in NamesIn(existing)}) ELSE 0]
=============================================================================
