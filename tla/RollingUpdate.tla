---------------------------- MODULE RollingUpdate ---------------------------
(***************************************************************************)
(* Deployments of one service with one replica, one after the other or at  *)
(* the same time: HandleCompose creates the replacement of a pod whose     *)
(* image changed and links the pod to it, and Scheduler.reconcile on every *)
(* node deletes a pod whose replacement runs.                              *)
(*                                                                         *)
(* The pods are those with the BaseID of the service.  The first has the   *)
(* BaseID itself as its identifier, a replacement has a time stamp behind  *)
(* it, so that identifiers grow with the time they are made at.            *)
(*                                                                         *)
(* A loop decides on a table it fetched some time ago and its command is   *)
(* committed some time later, once or more often; between the two nothing  *)
(* else matters to it.  So a step of a loop is what its command does to    *)
(* the table, and the command may be made from any earlier table: seen and *)
(* doomed remember what they offered.  Leases are not timed here: one that *)
(* was set may be past.                                                    *)
(*                                                                         *)
(* Deleting and restarting a pod by hand is in PodAdmin.                   *)
(***************************************************************************)
EXTENDS PodStore

CONSTANTS
  First,         \* the pod whose identifier is the BaseID
  MaxDeploys, MaxVersion     \* bounds of the model

ASSUME FirstAssumption == First \in Pod /\ \A p \in Pod : First <= p
ASSUME DeployAssumption == MaxDeploys \in Nat /\ MaxVersion \in Nat

VARIABLES
  store,      \* the pods of the service in the table
  seen,       \* every record of them that a table ever had
  doomed,     \* pods that some node, by some table, has to delete
  deploys,    \* requests in progress in HandleCompose
  made        \* the last identifier that was made up

ruVars == <<store, seen, doomed, deploys, made>>

\* A request about to set the link of an old pod, and one about to set the pod
\* that it deploys.
Linking  == [at: {"link"}, old: PodRec, pod: Pod]
Creating == [at: {"create"}, val: PodRec]

RuInit ==
  /\ store = <<>>
  /\ seen = {}
  /\ doomed = {}
  /\ deploys = {}
  /\ made = First

-----------------------------------------------------------------------------
(* The first loop of Scheduler.reconcile.                                  *)

\* Mutant: the replacement need not run.
SupersededEarly(s) == { p \in DOMAIN s : s[p].to \in DOMAIN s }

\* Mutant: the replacement need not be there.
SupersededByLink(s) ==
  { p \in DOMAIN s : s[p].to # NoPod /\ (s[p].to \in DOMAIN s => s[s[p].to].status = "Running") }

\* The pods to delete: those linked to a running one.  A pod that HandleCompose
\* creates has no readiness probe.
Superseded(s) ==
  { p \in DOMAIN s : s[p].to \in DOMAIN s /\ s[s[p].to].status = "Running" }

\* The next table, and what the loops may make of it sooner or later.
Install(s) ==
  /\ store' = s
  /\ seen' = seen \cup { s[p] : p \in DOMAIN s }
  /\ doomed' = doomed \cup Superseded(s)

\* deletePod, committed.
DeleteOld(p) ==
  /\ p \in doomed /\ p \in DOMAIN store
  /\ Install(Apply(store, [op |-> "del", id |-> p]))
  /\ UNCHANGED <<deploys, made>>

-----------------------------------------------------------------------------
(* The other loops: compare-and-swap from a record seen before.            *)

Swap(c) ==
  /\ c.exp < MaxVersion
  /\ CasPasses(store, c)
  /\ Install(Apply(store, c))
  /\ UNCHANGED <<deploys, made>>

\* A pending pod or one with a past lease is captured, an own pod renewed.
Take(n, r) ==
  /\ r.status = "Pending" \/ (Held(r) /\ (r.lease > 0 \/ r.node = n))
  /\ Swap(TryLockPod(r, n, 0))

\* The agent of the pod's node reports that it runs.  Its reports of readiness
\* and of addresses have the same effect here, a new version.
Report(r) == Held(r) /\ Swap(UpdatePod([r EXCEPT !.status = "Running"]))

-----------------------------------------------------------------------------
(* HandleCompose.                                                          *)

\* The pods that are not being replaced.
Free == { p \in DOMAIN store : store[p].to = NoPod }

\* The request reads the table.  Of several free pods the last one in the order
\* of the table counts; the image is that pod's or another one.
Deploy ==
  /\ made < First + MaxDeploys
  /\ made' = made + 1
  /\ \/ /\ Free = {}
        /\ deploys' = deploys \cup {[at |-> "create", val |-> FreshPod(First)]}
     \/ \E p \in Free :
          /\ \A q \in Free : q <= p
          /\ \/ /\ made' \in Pod
                /\ deploys' = deploys \cup
                     {[at |-> "link", old |-> store[p], pod |-> made']}
             \/ deploys' = deploys \cup
                  {[at |-> "create", val |-> Redeployed(store[p])]}
  /\ UNCHANGED <<store, seen, doomed>>

\* What the request sets next.  The old pod is set as it was read, with the
\* link and without a new version.
Written(d) == IF d.at = "link" THEN [d.old EXCEPT !.to = d.pod] ELSE d.val

Link(d) ==
  /\ d.at = "link"
  /\ Install(Put(store, Written(d)))
  /\ deploys' = (deploys \ {d}) \cup {[at |-> "create", val |-> FreshPod(d.pod)]}
  /\ UNCHANGED made

Create(d) ==
  /\ d.at = "create"
  /\ Install(Put(store, Written(d)))
  /\ deploys' = deploys \ {d}
  /\ UNCHANGED made

\* raft.Apply returns an error, whether or not the entry is committed in the
\* end.  The request does nothing more.
DeployFails(d) ==
  /\ \E s \in {store, Put(store, Written(d))} : Install(s)
  /\ deploys' = deploys \ {d}
  /\ UNCHANGED made

\* The model's requests are used up.
Terminating == made = First + MaxDeploys /\ deploys = {} /\ UNCHANGED ruVars

RuNext ==
  \/ Deploy \/ Terminating
  \/ \E d \in deploys : Link(d) \/ Create(d) \/ DeployFails(d)
  \/ \E r \in seen : Report(r) \/ \E n \in Node : Take(n, r)
  \/ \E p \in Pod : DeleteOld(p)

RuSpec == RuInit /\ [][RuNext]_ruVars

-----------------------------------------------------------------------------
(* Properties.                                                             *)

TypeOK ==
  /\ DOMAIN store \subseteq Pod
  /\ store \in [DOMAIN store -> PodRec]
  /\ seen \subseteq PodRec
  /\ doomed \subseteq Pod
  /\ deploys \subseteq Linking \cup Creating
  /\ made \in Nat

\* The pod with the youngest identifier is never deleted, however many nodes
\* delete old pods by however old tables, however deployments overlap, and
\* wherever between its two writes one of them fails.
LatestSurvives ==
  seen # {} => \E q \in DOMAIN store : \A r \in seen : r.id <= q

\* "Zero-Downtime": reconcile takes a pod away only after a younger one ran.
ReplacedOnceRunning ==
  [][\A p \in DOMAIN store \ DOMAIN store' :
       \E r \in seen : r.id > p /\ r.status = "Running"]_ruVars

-----------------------------------------------------------------------------
(* The inductive invariant behind the safety properties.                   *)

\* Records are where their identifiers say and have been made; links point to
\* younger pods.
RecordsOk ==
  /\ \A p \in DOMAIN store : store[p].id = p /\ store[p] \in seen
  /\ \A r \in seen : r.id <= made /\ (r.to = NoPod \/ r.to > r.id)

\* A request links a pod to a younger one and deploys pods without a link.
DeploysOk ==
  /\ First <= made
  /\ \A d \in deploys :
       IF d.at = "link" THEN d.old \in seen /\ d.pod > d.old.id /\ d.pod <= made
                        ELSE d.val.to = NoPod /\ d.val.id <= made

DoomedOk ==
  \A p \in doomed : \E r \in seen : r.id > p /\ r.status = "Running"

RuInv == TypeOK /\ RecordsOk /\ DeploysOk /\ DoomedOk /\ LatestSurvives
=============================================================================
