------------------------------ MODULE PodStore ------------------------------
(***************************************************************************)
(* Pod records and the replicated key-value state machine that holds them. *)
(*                                                                         *)
(* A store is a function from the pod identifiers that have a "pod:" key   *)
(* to their records: what one committed prefix of the Raft log makes of    *)
(* the bbolt bucket (backend/internal/cluster/fsm.go).  Identifiers are    *)
(* numbers, in the order in which the bucket's cursor visits the keys.     *)
(*                                                                         *)
(* Of the Go struct Pod, this module keeps the fields that scheduling and  *)
(* ownership depend on.  The IP address is abstracted to the node it was   *)
(* allocated on.  JSON and the encryption at rest are left out: a record   *)
(* is read back as it was written.                                         *)
(***************************************************************************)
EXTENDS Naturals

CONSTANTS
  Pod,      \* pod identifiers
  Node,     \* cluster members
  NoNode,   \* the empty string of an unset NodeID or PodIP
  TTL       \* length of a lease, in ticks of the clock (15 s in the code)

ASSUME PodAssumption  == Pod \subseteq Nat \ {0}
ASSUME NodeAssumption == NoNode \notin Node
ASSUME TTLAssumption  == TTL \in Nat \ {0}

NoPod == 0   \* the empty string of an unset UpdateToPodID

Status == {"Pending", "Scheduled", "Running", "Fenced"}

PodRec == [id: Pod, status: Status, node: Node \cup {NoNode}, ver: Nat,
           lease: Nat, ready: BOOLEAN, addr: Node \cup {NoNode},
           to: Pod \cup {NoPod}]

\* A pod as ParseComposeFile creates it: Pending, version 0, no lease.
FreshPod(p) == [id |-> p, status |-> "Pending", node |-> NoNode, ver |-> 0,
                lease |-> 0, ready |-> FALSE, addr |-> NoNode, to |-> NoPod]

\* Mutant: the version is not among what is copied.
RedeployedAnew(r) == [FreshPod(r.id) EXCEPT !.status = r.status, !.node = r.node,
                                            !.ready = r.ready]

\* HandleCompose with an unchanged image: a fresh record that keeps only what
\* the handler copies.
Redeployed(r) == [FreshPod(r.id) EXCEPT !.status = r.status, !.node = r.node,
                                        !.ready = r.ready, !.ver = r.ver]

-----------------------------------------------------------------------------
(* Commands that reach the state machine.                                  *)

CasCmd == [op: {"cas"}, exp: Nat, val: PodRec]
SetCmd == [op: {"set"}, val: PodRec]
DelCmd == [op: {"del"}, id: Pod]

\* The version a compare-and-swap is compared with: 0 for a missing key.
CurrentVersion(s, p) == IF p \in DOMAIN s THEN s[p].ver ELSE 0

\* Mutant: a newer record than the expected one is overwritten too.
CasPassesIfNewer(s, c) == c.exp <= CurrentVersion(s, c.val.id)

\* Mutant: an expected version of 0 is taken for a missing one.
CasPassesNonzero(s, c) == c.exp # 0 /\ CurrentVersion(s, c.val.id) = c.exp

\* Mutant: a missing key is not compared with anything.
CasPassesIfMissing(s, c) == c.val.id \notin DOMAIN s \/ s[c.val.id].ver = c.exp

CasPasses(s, c) == CurrentVersion(s, c.val.id) = c.exp

Put(s, r) == [p \in DOMAIN s \cup {r.id} |-> IF p = r.id THEN r ELSE s[p]]

\* What FSM.Apply makes of a committed command.
Apply(s, c) ==
  CASE c.op = "cas" -> IF CasPasses(s, c) THEN Put(s, c.val) ELSE s
    [] c.op = "set" -> Put(s, c.val)
    [] c.op = "del" -> [p \in DOMAIN s \ {c.id} |-> s[p]]

-----------------------------------------------------------------------------
(* The scheduler's reading of a record and the commands it builds.         *)

Held(r) == r.status \in {"Scheduled", "Running"}

\* Mutants: a lease of this or the next instant counts as past; no lease counts.
ExpiredEarly(r, t)   == Held(r) /\ r.lease > 0 /\ r.lease <= t + 1
ExpiredAlways(r, t)  == Held(r)
\* reconcile: a held pod whose lease has a value and that value is past.
Expired(r, t) == Held(r) /\ r.lease > 0 /\ r.lease < t

\* tryLockPod: node n takes or renews r at its clock reading t.
TryLockPod(r, n, t) ==
  [op |-> "cas", exp |-> r.ver,
   val |-> [r EXCEPT !.status = IF @ = "Pending" THEN "Scheduled" ELSE @,
                     !.node = n, !.ver = @ + 1, !.lease = t + TTL]]

\* Mutant: the version is not bumped.
UpdateNoBump(r) == [op |-> "cas", exp |-> r.ver, val |-> r]
\* UpdatePod: write back a record that was read and changed locally.
UpdatePod(r) == [op |-> "cas", exp |-> r.ver, val |-> [r EXCEPT !.ver = @ + 1]]
=============================================================================
