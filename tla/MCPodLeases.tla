---------------------------- MODULE MCPodLeases -----------------------------
(* Instances of PodLeases for TLC.                                         *)
EXTENDS PodLeases

CONSTANTS n1, n2

\* One pod, or two of which the second depends on the first being healthy.
OnePod  == {1}
TwoPods == {1, 2}

OwnApp == [p \in Pod |-> p]
NoDeps == [p \in Pod |-> {}]
Chain  == [p \in Pod |-> IF p = 2 THEN {<<1, "service_healthy">>} ELSE {}]

Everywhere == Node \X Pod

NoSkew == [n \in Node |-> 0]
N2Ahead == [n \in Node |-> IF n = n2 THEN 1 ELSE 0]

N1AndTaker == ({n1} \X Loops) \cup {<<n2, "sched">>}
N1AndBlind == N1AndTaker \cup {<<n2, "renew">>}
SchedAndTaker == {<<n1, "sched">>, <<n1, "agent">>, <<n2, "sched">>}
SchedOnly  == Node \X {"sched"}
=============================================================================
