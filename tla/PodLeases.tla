----------------------------- MODULE PodLeases ------------------------------
(***************************************************************************)
(* Ownership of pods by leases: every node runs three loops over its own   *)
(* replica of the pod table,                                               *)
(*                                                                         *)
(*   "sched"  Scheduler.reconcile     captures a Pending or expired pod,   *)
(*   "renew"  Scheduler.renewLeases   renews the leases of its own pods,   *)
(*   "agent"  Agent.reconcile         starts, probes and reports the       *)
(*                                    containers of its own pods,          *)
(*                                                                         *)
(* and every write any of them makes is a compare-and-swap that goes to    *)
(* the Raft leader (HandleApply).  A loop works from a list it fetched     *)
(* earlier, from a replica that may lag; its command may be answered with  *)
(* an error and still commit later; a node may crash at any point, with or *)
(* without its containers, and reads an older state again after a restart. *)
(*                                                                         *)
(* Modelled here: pods of role Active with no UpdateToPodID, the only kind *)
(* these three loops have work for; rolling updates, standby promotion and *)
(* fencing are separate.  Abstracted: delays (any), probes (any answer),   *)
(* the quorum (a commit just does not happen without one), names, images,  *)
(* addresses (by the node they belong to).                                 *)
(***************************************************************************)
EXTENDS PodStore, Sequences, FiniteSets

CONSTANTS
  Skew,        \* Skew[n]: how far the clock of n is ahead of the slowest one
  MaxSkew,     \* the largest skew
  App,         \* App[p]: the service that p belongs to
  DependsOn,   \* DependsOn[p]: pairs <<service, condition>> of depends_on
  Fits,        \* pairs <<n, p>> such that p passes n's arch and RAM filter
  Probed,      \* pods with a liveness and a readiness probe
  NoEngine,    \* nodes that found no containerd: no agent, no container check
  Busy,        \* pairs <<n, l>>: the loops that do not sleep all the time
  MaxTime, MaxVersion, MaxFaults     \* with Busy, the bounds of the model

ASSUME SkewAssumption ==
  /\ MaxSkew \in Nat
  /\ Skew \in [Node -> Nat]
  /\ \A n \in Node : Skew[n] <= MaxSkew

ASSUME BoundAssumption ==
  /\ MaxTime \in Nat
  /\ MaxVersion \in Nat
  /\ MaxFaults \in Nat

VARIABLES
  hist,      \* the pod table after each effective entry of the Raft log
  applied,   \* applied[n]: how much of hist the replica of n has applied
  todo,      \* todo[n][l]: fetched records that loop l has not handled yet
  probe,     \* probe[n]: the record whose probes the agent is about to run
  pending,   \* pending[n][l]: the command loop l waits for, if any
  late,      \* commands given up by their sender that may still commit
  running,   \* running[n]: pods with a live container on n
  up,        \* up[n]: the daemon of n runs
  now,       \* the slowest clock
  faults     \* failures of the environment so far

vars == <<hist, applied, todo, probe, pending, late, running, up, now, faults>>

Loops == {"sched", "renew", "agent"}

Store      == hist[Len(hist)]
Replica(n) == hist[applied[n]]
Clock(n)   == now + Skew[n]

\* Failures are counted, and bounded in the instances that TLC checks.
Fault == faults < MaxFaults /\ faults' = faults + 1

\* The bound on versions: records that have reached it are not acted upon.
InBound(r) == r.ver < MaxVersion

Idle(n, l) == <<n, l>> \in Busy /\ up[n] /\ todo[n][l] = {} /\ pending[n][l] = {}

\* Records are handled in the order of the list: by identifier.
NextOf(n, l) == { r \in todo[n][l] : \A q \in todo[n][l] : r.id <= q.id }

Init ==
  /\ hist = << [p \in Pod |-> FreshPod(p)] >>
  /\ applied = [n \in Node |-> 1]
  /\ todo = [n \in Node |-> [l \in Loops |-> {}]]
  /\ probe = [n \in Node |-> {}]
  /\ pending = [n \in Node |-> [l \in Loops |-> {}]]
  /\ late = {}
  /\ running = [n \in Node |-> {}]
  /\ up = [n \in Node |-> TRUE]
  /\ now = 0
  /\ faults = 0

-----------------------------------------------------------------------------
(* Scheduler.reconcile: pick the first pod to capture, wait, try to lock.  *)

\* checkDependencies: every service p depends on has a pod that satisfies it.
DependenciesMet(pods, p) ==
  \A d \in DependsOn[p] : \E q \in DOMAIN pods :
    /\ App[q] = d[1]
    /\ IF d[2] = "service_healthy"
       THEN pods[q].status = "Running" /\ pods[q].ready
       ELSE Held(pods[q])

\* Mutant: the dependency check is skipped.
CapturableNoDeps(n, pods, p) ==
  /\ pods[p].status = "Pending" \/ Expired(pods[p], Clock(n))
  /\ <<n, p>> \in Fits

\* Mutant: an expired pod is left to its old owner.
CapturablePending(n, pods, p) ==
  /\ pods[p].status = "Pending"
  /\ DependenciesMet(pods, p)
  /\ <<n, p>> \in Fits

Capturable(n, pods, p) ==
  /\ pods[p].status = "Pending" \/ Expired(pods[p], Clock(n))
  /\ DependenciesMet(pods, p)
  /\ <<n, p>> \in Fits

\* FetchPods and the loop up to the jittered delay, which ends in one pod.
SchedPick(n) ==
  /\ Idle(n, "sched")
  /\ \E p \in DOMAIN Replica(n) :
       /\ Capturable(n, Replica(n), p) /\ InBound(Replica(n)[p])
       /\ \A q \in DOMAIN Replica(n) : Capturable(n, Replica(n), q) => p <= q
       /\ todo' = [todo EXCEPT ![n]["sched"] = {Replica(n)[p]}]
  /\ UNCHANGED <<hist, applied, probe, pending, late, running, up, now, faults>>

\* The delay is over: tryLockPod with the record picked before it.
SchedPost(n) ==
  /\ up[n]
  /\ \E r \in todo[n]["sched"] :
       pending' = [pending EXCEPT ![n]["sched"] = {TryLockPod(r, n, Clock(n))}]
  /\ todo' = [todo EXCEPT ![n]["sched"] = {}]
  /\ UNCHANGED <<hist, applied, probe, late, running, up, now, faults>>

-----------------------------------------------------------------------------
(* Scheduler.renewLeases.                                                  *)

\* Mutant: the owner is not asked for.
FetchHeld(n) == { r \in { Replica(n)[p] : p \in DOMAIN Replica(n) } :
                    Held(r) /\ InBound(r) }

\* The records of its own held pods that n fetches from its replica.
FetchOwn(n) == { r \in { Replica(n)[p] : p \in DOMAIN Replica(n) } :
                   r.node = n /\ Held(r) /\ InBound(r) }

RenewFetch(n) ==
  /\ Idle(n, "renew")
  /\ FetchOwn(n) # {}
  /\ todo' = [todo EXCEPT ![n]["renew"] = FetchOwn(n)]
  /\ UNCHANGED <<hist, applied, probe, pending, late, running, up, now, faults>>

\* The next pod is renewed if its container runs or there is no engine to ask,
\* and skipped if it does not run or that cannot be found out.
RenewNext(n) ==
  /\ up[n] /\ pending[n]["renew"] = {}
  /\ \E r \in NextOf(n, "renew") :
       /\ todo' = [todo EXCEPT ![n]["renew"] = @ \ {r}]
       /\ \/ /\ r.id \in running[n] \/ n \in NoEngine
             /\ pending' = [pending EXCEPT
                              ![n]["renew"] = {TryLockPod(r, n, Clock(n))}]
             /\ UNCHANGED faults
          \/ /\ r.id \notin running[n] /\ n \notin NoEngine
             /\ UNCHANGED <<pending, faults>>
          \/ /\ n \notin NoEngine /\ Fault
             /\ UNCHANGED pending
  /\ UNCHANGED <<hist, applied, probe, late, running, up, now>>

-----------------------------------------------------------------------------
(* Agent.reconcile.                                                        *)

AgentFetch(n) ==
  /\ n \notin NoEngine
  /\ Idle(n, "agent") /\ probe[n] = {}
  /\ FetchOwn(n) # {}
  /\ todo' = [todo EXCEPT ![n]["agent"] = FetchOwn(n)]
  /\ UNCHANGED <<hist, applied, probe, pending, late, running, up, now, faults>>

AgentReady(n) == up[n] /\ pending[n]["agent"] = {} /\ probe[n] = {}

\* The container is not running: start it, then report a new status or address.
\* A restart on the same node may get the same address or a new one.
AgentStart(n) ==
  /\ AgentReady(n)
  /\ \E r \in NextOf(n, "agent") :
       /\ r.id \notin running[n]
       /\ running' = [running EXCEPT ![n] = @ \cup {r.id}]
       /\ todo' = [todo EXCEPT ![n]["agent"] = @ \ {r}]
       /\ \/ pending' = [pending EXCEPT ![n]["agent"] =
                 {UpdatePod([r EXCEPT !.status = "Running", !.addr = n])}]
          \/ /\ r.status = "Running" /\ r.addr = n
             /\ UNCHANGED pending
  /\ UNCHANGED <<hist, applied, probe, late, up, now, faults>>

\* The state of the container cannot be read, or it fails to start.
AgentSkip(n) ==
  /\ Fault
  /\ AgentReady(n)
  /\ \E r \in NextOf(n, "agent") :
       todo' = [todo EXCEPT ![n]["agent"] = @ \ {r}]
  /\ UNCHANGED <<hist, applied, probe, pending, late, running, up, now>>

\* The container runs: a Scheduled pod is reported Running; probes come next.
AgentSeen(n) ==
  /\ AgentReady(n)
  /\ \E r \in NextOf(n, "agent") :
       /\ r.id \in running[n]
       /\ todo' = [todo EXCEPT ![n]["agent"] = @ \ {r}]
       /\ probe' = [probe EXCEPT ![n] = {r}]
       /\ \/ /\ r.status = "Scheduled"
             /\ pending' = [pending EXCEPT ![n]["agent"] =
                              {UpdatePod([r EXCEPT !.status = "Running"])}]
          \/ /\ r.status = "Running"
             /\ UNCHANGED pending
  /\ UNCHANGED <<hist, applied, late, running, up, now, faults>>

\* checkHealth: without a probe or an address the answer is yes.
Answers(r) == IF r.id \in Probed /\ r.addr # NoNode THEN BOOLEAN ELSE {TRUE}

\* Liveness fails: the container is stopped, to be restarted in a later round.
AgentKill(n) ==
  /\ up[n] /\ pending[n]["agent"] = {}
  /\ \E r \in probe[n] :
       /\ FALSE \in Answers(r)
       /\ running' = [running EXCEPT ![n] = @ \ {r.id}]
  /\ probe' = [probe EXCEPT ![n] = {}]
  /\ UNCHANGED <<hist, applied, todo, pending, late, up, now, faults>>

\* Liveness holds: a changed readiness is reported, with the version read
\* before the report of AgentSeen.
AgentProbe(n) ==
  /\ up[n] /\ pending[n]["agent"] = {}
  /\ \E r \in probe[n] : \E readinessOK \in Answers(r) :
       \/ /\ readinessOK # r.ready
          /\ pending' = [pending EXCEPT ![n]["agent"] =
                {UpdatePod([r EXCEPT !.status = "Running", !.ready = readinessOK])}]
       \/ /\ readinessOK = r.ready
          /\ UNCHANGED pending
  /\ probe' = [probe EXCEPT ![n] = {}]
  /\ UNCHANGED <<hist, applied, todo, late, running, up, now, faults>>

-----------------------------------------------------------------------------
(* HandleApply on the leader, and the replicas.                            *)

\* Mutant: the record is written whatever the version.
CommittedBlindly(c) == Append(hist, Put(Store, c.val))

\* What a committed command does to the table; a refused one leaves no trace.
Committed(c) == IF Apply(Store, c) = Store THEN hist
                ELSE Append(hist, Apply(Store, c))

\* The command commits and the sender gets 200, whether it took effect or not.
Commit(n, l) ==
  /\ \E c \in pending[n][l] : hist' = Committed(c)
  /\ pending' = [pending EXCEPT ![n][l] = {}]
  /\ UNCHANGED <<applied, todo, probe, late, running, up, now, faults>>

\* The sender gets an error: no leader, a lost connection, or a Raft error
\* after which the entry may yet commit.
Fail(n, l) ==
  /\ Fault
  /\ pending[n][l] # {}
  /\ late' \in {late, late \cup pending[n][l]}
  /\ pending' = [pending EXCEPT ![n][l] = {}]
  /\ UNCHANGED <<hist, applied, todo, probe, running, up, now>>

CommitLate ==
  /\ \E c \in late : hist' = Committed(c) /\ late' = late \ {c}
  /\ UNCHANGED <<applied, todo, probe, pending, running, up, now, faults>>

\* Mutant: an entry is applied before it is in the log.
ReplicateEarly(n) ==
  /\ up[n]
  /\ applied[n] <= Len(hist)
  /\ applied' = [applied EXCEPT ![n] = @ + 1]
  /\ UNCHANGED <<hist, todo, probe, pending, late, running, up, now, faults>>

\* The replica of n applies one more entry of the log.
Replicate(n) ==
  /\ up[n]
  /\ applied[n] < Len(hist)
  /\ applied' = [applied EXCEPT ![n] = @ + 1]
  /\ UNCHANGED <<hist, todo, probe, pending, late, running, up, now, faults>>

-----------------------------------------------------------------------------
(* The environment: time, containers, crashes.                             *)

Tick ==
  /\ now < MaxTime
  /\ now' = now + 1
  /\ UNCHANGED <<hist, applied, todo, probe, pending, late, running, up, faults>>

ContainerDies(n, p) ==
  /\ Fault
  /\ p \in running[n]
  /\ running' = [running EXCEPT ![n] = @ \ {p}]
  /\ UNCHANGED <<hist, applied, todo, probe, pending, late, up, now>>

\* The daemon dies, alone or with the machine and its containers.  What its
\* loops were doing is lost; what they had sent may or may not commit.
Crash(n) ==
  /\ Fault
  /\ up[n]
  /\ up' = [up EXCEPT ![n] = FALSE]
  /\ todo' = [todo EXCEPT ![n] = [l \in Loops |-> {}]]
  /\ probe' = [probe EXCEPT ![n] = {}]
  /\ pending' = [pending EXCEPT ![n] = [l \in Loops |-> {}]]
  /\ \E sent \in SUBSET UNION { pending[n][l] : l \in Loops } :
       late' = late \cup sent
  /\ running' \in {running, [running EXCEPT ![n] = {}]}
  /\ UNCHANGED <<hist, applied, now>>

\* Raft replays the log from its last snapshot, or from its first entry, so
\* the pod table of a restarted node goes through earlier states once more.
Restart(n) ==
  /\ ~up[n]
  /\ up' = [up EXCEPT ![n] = TRUE]
  /\ \E i \in 1..applied[n] : applied' = [applied EXCEPT ![n] = i]
  /\ UNCHANGED <<hist, todo, probe, pending, late, running, now, faults>>

-----------------------------------------------------------------------------

\* The model's clock has reached its bound.
Terminating == now = MaxTime /\ UNCHANGED vars

NodeStep(n) ==
  \/ SchedPick(n) \/ SchedPost(n)
  \/ RenewFetch(n) \/ RenewNext(n)
  \/ AgentFetch(n) \/ AgentStart(n) \/ AgentSkip(n)
  \/ AgentSeen(n) \/ AgentKill(n) \/ AgentProbe(n)
  \/ Replicate(n) \/ Crash(n) \/ Restart(n)
  \/ \E l \in Loops : Commit(n, l) \/ Fail(n, l)
  \/ \E p \in Pod : ContainerDies(n, p)

Next == (\E n \in Node : NodeStep(n)) \/ CommitLate \/ Tick \/ Terminating

Spec == Init /\ [][Next]_vars

\* The loops never stop, a request is answered, the log reaches every replica
\* that is up, and systemd restarts a dead daemon.
Fairness ==
  /\ WF_vars(Tick)
  /\ \A n \in Node :
       /\ WF_vars(SchedPick(n)) /\ WF_vars(SchedPost(n))
       /\ WF_vars(RenewFetch(n)) /\ WF_vars(RenewNext(n))
       /\ WF_vars(AgentFetch(n))
       /\ WF_vars(AgentStart(n) \/ AgentSkip(n) \/ AgentSeen(n))
       /\ WF_vars(AgentKill(n) \/ AgentProbe(n))
       /\ WF_vars(Replicate(n)) /\ WF_vars(Restart(n))
       /\ \A l \in Loops : WF_vars(Commit(n, l) \/ Fail(n, l))

FairSpec == Spec /\ Fairness

-----------------------------------------------------------------------------
(* Properties.                                                             *)

TypeOK ==
  /\ hist \in Seq([Pod -> PodRec]) /\ hist # <<>>
  /\ applied \in [Node -> 1..Len(hist)]
  /\ todo \in [Node -> [Loops -> SUBSET PodRec]]
  /\ probe \in [Node -> SUBSET PodRec]
  /\ pending \in [Node -> [Loops -> SUBSET CasCmd]]
  /\ late \in SUBSET CasCmd
  /\ running \in [Node -> SUBSET Pod]
  /\ up \in [Node -> BOOLEAN]
  /\ now \in Nat
  /\ faults \in Nat

\* A record names its own content by its version: one that somebody read, at
\* any time and however long ago, is the current record if it has the current
\* version, and it never has a later one.  This is what makes comparing
\* ResourceVersion in FSM.Apply a comparison of the whole record.
Current(r) ==
  /\ r.ver <= Store[r.id].ver
  /\ r.ver = Store[r.id].ver => r = Store[r.id]

VersionNamesRecord ==
  /\ \A i \in 1..Len(hist) : \A p \in Pod : Current(hist[i][p])
  /\ \A n \in Node : \A l \in Loops : \A r \in todo[n][l] : Current(r)
  /\ \A n \in Node : \A r \in probe[n] : Current(r)

\* Two nodes never both hold the lease of a pod, as far as each can tell from
\* its own replica, with the allowance for clock skew that the comparison of
\* LeaseExpiresAt with time.Now() on different machines needs.
HoldsLease(n, p) ==
  /\ up[n]
  /\ Replica(n)[p].node = n
  /\ Held(Replica(n)[p])
  /\ Replica(n)[p].lease >= now + MaxSkew

OneLeaseHolder ==
  \A p \in Pod : \A m, n \in Node : HoldsLease(m, p) /\ HoldsLease(n, p) => m = n

\* A pod with an owner changes hands only after the owner's lease is over, even
\* though the decision to take it was made earlier, from an older record, and
\* the command may have waited in the log since (tryLockPod after the delay).
NoStealing ==
  [][\A p \in Pod :
       Held(Store[p]) /\ Store'[p].node # Store[p].node
          => Store[p].lease < now + MaxSkew]_vars

\* No command, however late, shortens a lease that is in force: neither a
\* renewal that was overtaken nor a report of the agent, which writes back the
\* lease it read.
LeaseNeverShrinks ==
  [][\A p \in Pod : Store'[p].lease >= Store[p].lease]_vars

\* The abstract specification that the loops, the log and the replicas together
\* implement: by the committed table every pod has one owner, whose lease is put
\* off but never past a TTL from now, and the next owner comes after its end.
Own == INSTANCE Ownership WITH
         Slack <- MaxSkew,
         owner <- [p \in Pod |-> Store[p].node],
         until <- [p \in Pod |-> Store[p].lease]

ImplementsOwnership == Own!OwnSpec

\* Optimistic concurrency works: although every loop decides on a record from a
\* lagging replica and its command may wait, be overtaken or be given up, the
\* table changes as if reading, deciding and writing were one step; a node that
\* is no longer the owner renews nothing and reports nothing.
Atom == INSTANCE AtomicPods WITH Slack <- MaxSkew, table <- Store

ImplementsAtomicPods == Atom!AtomSpec

\* A pod is captured only after each service it depends on had a pod in the
\* state that depends_on asks for, whatever happened to it since.
CapturedAfterDependencies ==
  \A j \in 1..Len(hist) : \A p \in Pod :
    hist[j][p].status # "Pending" =>
      \E i \in 1..(j - 1) : DependenciesMet(hist[i], p)

\* So for containers, which know no versions: one runs on a node only if some
\* committed table gave the pod to that node, after its dependencies were met,
\* though the agent may act on a replica that has long been overtaken.
StartedAfterDependencies ==
  \A n \in Node : \A p \in running[n] : \E i \in 1..Len(hist) :
    /\ Held(hist[i][p]) /\ hist[i][p].node = n
    /\ \E j \in 1..(i - 1) : DependenciesMet(hist[j], p)

\* Self-healing: a pod whose lease has expired does not stay so, whichever
\* commands are refused, lost or late and whoever restarts meanwhile, unless
\* a user deletes it.
ExpiredIsRetaken ==
  \A p \in Pod :
    (p \in DOMAIN Store /\ Expired(Store[p], now))
      ~> (p \notin DOMAIN Store \/ ~Expired(Store[p], now))

-----------------------------------------------------------------------------
(* The inductive invariant behind the safety properties.                   *)

\* A record as some node may have read it: a pod without an owner has no lease,
\* the lease of a pod with an owner is at most a TTL ahead of the owner's clock.
Sound(r) ==
  \/ r.status = "Pending" /\ r.node = NoNode /\ r.lease = 0
  \/ Held(r) /\ r.node \in Node /\ r.lease <= Clock(r.node) + TTL

\* Every earlier record of a pod has the owner of the current one, or a lease
\* that is over, and none has a longer lease.
Outlived(r) ==
  /\ r.lease <= Store[r.id].lease
  /\ Held(r) => \/ r.node = Store[r.id].node
                \/ r.lease < now + MaxSkew

HistoryOk ==
  \A i \in 1..Len(hist) : \A p \in Pod :
    /\ hist[i][p].id = p
    /\ Sound(hist[i][p])
    /\ Current(hist[i][p])
    /\ Outlived(hist[i][p])

\* What loop l of node n may have fetched.
Fetched(n, l, r) ==
  /\ Sound(r)
  /\ Current(r)
  /\ IF l = "sched" THEN r.status = "Pending" \/ Expired(r, Clock(n))
                    ELSE r.node = n /\ Held(r)

SnapshotsOk ==
  /\ \A n \in Node : \A l \in Loops : \A r \in todo[n][l] : Fetched(n, l, r)
  /\ \A n \in Node : \A r \in probe[n] : Fetched(n, "agent", r)

\* What a command in flight does to the record it was made from, should that
\* still be the current one.
CommandOk(c) ==
  LET s == Store[c.val.id] IN
  /\ c.exp <= s.ver
  /\ c.val.ver = c.exp + 1
  /\ Held(c.val) /\ Sound(c.val)
  /\ c.exp = s.ver => /\ c.val.lease >= s.lease
                      /\ \/ c.val.node = s.node
                         \/ ~Held(s)
                         \/ s.lease < now + MaxSkew

CommandsOk ==
  /\ \A n \in Node : \A l \in Loops : \A c \in pending[n][l] : CommandOk(c)
  /\ \A c \in late : CommandOk(c)

IInv == TypeOK /\ HistoryOk /\ SnapshotsOk /\ CommandsOk
=============================================================================
