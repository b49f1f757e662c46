------------------------------ MODULE MCGroupExec ------------------------------
(* A host reached directly, by a task and by a mux session, whose stored password *)
(* is out of date and edited meanwhile; a host behind a jump host, one of whose   *)
(* keys is revoked; one permit.                                                   *)
EXTENDS GroupExec

CONSTANTS c1, c2, c3, h1, h2, j, k1, k2, good, bad

MCTarget == [c \in Conns |-> IF c = c2 THEN h2 ELSE h1]
MCJump   == [c \in Conns |-> IF c = c2 THEN j ELSE None]
MCHosts  == {<<h2, k1, FALSE>>, <<h2, k2, FALSE>>, <<h2, k2, TRUE>>, <<j, k1, FALSE>>}
MCShows  == [h \in Hosts |-> IF h = h2 THEN {k1, k2} ELSE {k1}]
MCEdited == {<<"bookmark", h1>>}
MCKc     == [n \in Names |-> IF n = <<"bookmark", h1>> THEN bad ELSE None]
MCGood   == [h \in Hosts |-> good]
================================================================================
