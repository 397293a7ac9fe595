----------------------------- MODULE MCPodAdmin -----------------------------
(* Instances of PodAdmin for TLC.                                          *)
EXTENDS PodAdmin

CONSTANTS n1, n2

OwnApp     == [p \in Pod |-> p]
NoDeps     == [p \in Pod |-> {}]
Everywhere == Node \X Pod
NoSkew     == [n \in Node |-> 0]

SchedOnly  == Node \X {"sched"}
OneNode    == {n1} \X {"sched", "agent"}
SchedAndTaker == OneNode \cup {<<n2, "sched">>}
=============================================================================
