--------------------------- MODULE MCTunnelDaemon ---------------------------
(* Instances of TunnelDaemon: who forwards what. *)
EXTENDS TunnelDaemon, TLC
CONSTANTS p1, p2, b1, b2, port1, port2

\* Two bookmarks whose tunnels want one port in common.
TwoOf    == p1 :> b1 @@ p2 :> b2
TwoPorts == p1 :> {port1} @@ p2 :> {port1, port2}
=============================================================================
