------------------------------ MODULE MCTuiApp ------------------------------
EXTENDS TuiApp

MCDetect == [t \in Names \cup {""} |-> IF t = "prod-a" THEN "production" ELSE ""]

Bm == [id |-> 1, name |-> "prod-a", env |-> "production", sessions |-> <<>>]
Grp(i, n) == [id |-> i, name |-> n, env |-> "", sessions |-> <<"x">>]

\* A bookmark with a group, and two groups.
MCInitConfigs ==
  {[bms |-> <<Bm>>, grps |-> <<Grp(2, "b")>>],
   [bms |-> <<>>, grps |-> <<[Grp(1, "prod-a") EXCEPT !.sessions = <<"x", "b">>],
                         Grp(2, "b")>>]}

\* Bounds: of saves, faults, shells opened and departures, two per behaviour, and
\* a third step when it is a shell opened over an earlier one's; one filter at a
\* time; forms are opened from the unfiltered list, while a shell is being opened
\* only to turn its group into a bookmark of that name; help is explored over a
\* form only while its first field has the focus.
Near ==
  /\ count.saves + count.faults + count.opens + count.leaves <=
       (IF count.opens = 2 /\ tasks # {} /\ count.leaves + count.faults = 0 THEN 3 ELSE 2)
  /\ "" \in {ui.query, ui.env}
  /\ ui.form.open => ui.query = "" /\ ui.env = ""
  /\ ui.form.open /\ tasks # {} =>
       /\ count.opens = 1 /\ count.saves + count.faults + count.leaves = 0
       /\ ui.form.target = "group" /\ ui.form.name = ui.form.orig /\ ~ui.form.modified
       /\ ui.screen.at = "edit"
  /\ Working.at = "add" => ui.selected = 1
  /\ ui.screen.at = "help" /\ ui.form.open => ui.form.focused = 1

=============================================================================
