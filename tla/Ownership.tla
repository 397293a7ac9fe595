----------------------------- MODULE Ownership ------------------------------
(***************************************************************************)
(* What the cluster promises about the ownership of pods: each pod has at  *)
(* most one owner, who has it until an agreed instant and may put that     *)
(* instant off; somebody else gets it only afterwards.                     *)
(*                                                                         *)
(* Clocks of different nodes differ by at most Slack, so that a lease may  *)
(* be over for another node a little before it is over for its owner.      *)
(***************************************************************************)
EXTENDS Naturals

CONSTANTS Pod, Node, NoNode, TTL, Slack

VARIABLES
  owner,    \* owner[p]: who owns p, or NoNode
  until,    \* until[p]: the end of the owner's lease
  now       \* the slowest clock

ownVars == <<owner, until, now>>

OwnInit ==
  /\ owner = [p \in Pod |-> NoNode]
  /\ until = [p \in Pod |-> 0]
  /\ now = 0

\* A lease is never longer than a TTL, by any clock.
Extended(p) ==
  \E t \in until[p]..(now + Slack + TTL) : until' = [until EXCEPT ![p] = t]

\* A free pod, or one whose lease is over for somebody, gets a new owner.
Grant(p, n) ==
  /\ owner[p] = NoNode \/ until[p] < now + Slack
  /\ owner' = [owner EXCEPT ![p] = n]
  /\ Extended(p)
  /\ UNCHANGED now

\* The owner renews its lease, be it in time or late.
Renew(p) ==
  /\ owner[p] # NoNode
  /\ Extended(p)
  /\ UNCHANGED <<owner, now>>

Advance == now' = now + 1 /\ UNCHANGED <<owner, until>>

OwnNext ==
  \/ \E p \in Pod : Renew(p) \/ \E n \in Node : Grant(p, n)
  \/ Advance

OwnSpec == OwnInit /\ [][OwnNext]_ownVars
=============================================================================
