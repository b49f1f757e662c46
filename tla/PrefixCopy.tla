------------------------------ MODULE PrefixCopy ------------------------------
(***************************************************************************)
(* What a resumable download promises its callers (the .part logic of      *)
(* shortcuts.rs, sftp_backend.rs and browser.rs): while it runs, and       *)
(* however it ends, the local file is a prefix of the remote file, so its  *)
(* size is a safe resume point; and it reports success only for a whole    *)
(* file.                                                                   *)
(***************************************************************************)
EXTENDS Integers, Sequences

CONSTANTS Total,   \* size of the remote file
          Start    \* size of the local file when the copy begins

VARIABLES data,    \* local file: origin offset of each byte
          status   \* "running" or how the copy ended

vars == <<data, status>>

\* The first n bytes of the remote file.
Prefix(n) == [i \in 1 .. n |-> i - 1]

Init == data = Prefix(Start) /\ status = "running"

\* Some more bytes reach the file; the copy may end with the same step.
Copy ==
  /\ status = "running"
  /\ \E n \in Len(data) .. Total : data' = Prefix(n)
  /\ status' \in {"running", "failed", "cancelled"}

\* The copy ends; with success only when nothing is missing.
End ==
  /\ status = "running"
  /\ UNCHANGED data
  /\ \/ status' = "ok" /\ Len(data) >= Total
     \/ status' \in {"failed", "cancelled"}

Next == Copy \/ End

Spec == Init /\ [][Next]_vars
=============================================================================
