----------------------------- MODULE AtomicPods -----------------------------
(***************************************************************************)
(* The pod table as optimistic concurrency is meant to make it look: as if *)
(* every loop read the current record of a pod, decided and wrote, all in  *)
(* one step.  There are no replicas here, no delays, no commands in        *)
(* flight, and a node whose lease has been taken over cannot write any     *)
(* more.                                                                   *)
(*                                                                         *)
(* Clocks of different nodes differ by at most Slack.                      *)
(***************************************************************************)
EXTENDS PodStore

CONSTANTS Probed, Slack

VARIABLES
  table,    \* the record of every pod
  now       \* the slowest clock

atomVars == <<table, now>>

AtomInit ==
  /\ table = [p \in Pod |-> FreshPod(p)]
  /\ now = 0

\* What some node reads on its clock.
Reading == 0..(now + Slack)

\* A free pod, or one whose lease is over by the clock that the new lease is
\* counted from, goes to some node.
Captured(r, q) ==
  \E n \in Node, t \in Reading :
    /\ r.status = "Pending" \/ Expired(r, t)
    /\ q = TryLockPod(r, n, t).val

\* The owner puts off the end of its lease.
Renewed(r, q) ==
  \E t \in Reading :
    /\ Held(r) /\ r.lease <= t + TTL
    /\ q = TryLockPod(r, r.node, t).val

\* The owner reports that it has started the container, that it found it
\* running, or that its readiness has changed.
Reported(r, q) ==
  /\ Held(r)
  /\ \/ q = UpdatePod([r EXCEPT !.status = "Running", !.addr = r.node]).val
     \/ /\ r.status = "Scheduled"
        /\ q = UpdatePod([r EXCEPT !.status = "Running"]).val
     \/ /\ r.ready => r.id \in Probed /\ r.addr # NoNode
        /\ q = UpdatePod([r EXCEPT !.status = "Running", !.ready = ~@]).val

\* What a loop may make of the record r at this instant.
Decided(r, q) == Captured(r, q) \/ Renewed(r, q) \/ Reported(r, q)

Write(p) ==
  /\ Decided(table[p], table'[p])
  /\ table' = [table EXCEPT ![p] = table'[p]]
  /\ UNCHANGED now

Advance == now' = now + 1 /\ UNCHANGED table

AtomNext == (\E p \in Pod : Write(p)) \/ Advance

AtomSpec == AtomInit /\ [][AtomNext]_atomVars
=============================================================================
