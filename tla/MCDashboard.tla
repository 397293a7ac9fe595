----------------------------- MODULE MCDashboard -----------------------------
(* Dashboard for TLC: two pods of two projects. *)
EXTENDS Dashboard, TLC

CONSTANTS p1, p2, shop, blog

MCPod == {p1, p2}
MCProject == {shop, blog}
MCProjectOf == p1 :> shop @@ p2 :> blog

=============================================================================
