# P2SER in TLA+

P2SER is a small container orchestrator for machines at the edge: every node
runs the same daemon, the nodes share one replicated table of pods, and each
node decides for itself which pods to run. A web dashboard, one React page, shows
the table and deploys into it. This directory holds a formal model of that
decision making and of the dashboard's asynchronous code, model-checked with TLC
and, for its safety properties, proved with TLAPS.

Paths below are relative to `src/backend/internal/` unless they say otherwise;
`App.jsx` is `src/ui/src/App.jsx`.

## 1. Inventory

### 1.1 The system

A node is one process (`src/backend/cmd/p2ser/main.go`). It joins a gossip ring,
takes part in a Raft group, opens an HTTP API on the port it shares with Raft, and
starts endless loops: scheduler (2 s), lease renewal (5 s), agent (5 s), metrics
(15 s), fencing. **The loops never share memory about pods.** Each reads the
table with `GET /pods` from its own node's replica, decides, and sends its
decision as a command to `POST /apply`, which is proxied to the leader and
committed through Raft. So everything that is hard about this program is in what
can happen between the reading and the commit: the replica lags, other nodes
commit, the clock moves on, the request is lost, or it is answered with an error
and commits all the same.

The dashboard is served by the same daemon and runs in the user's browser. It has
one thread and no shared memory either, and its difficulty is of the same kind:
between the reading of a state (a render, a ref, a table) and its use lies an
`await`, and a timer, an answer or the user may come first.

### 1.2 Components

| Component | Keeps | Operations | Correct if |
|---|---|---|---|
| Replicated pod store (`cluster/fsm.go`, `cluster/raft.go`) | a bbolt bucket on every node | `Apply` (set, del, cas), `GetAllPods`, `Snapshot`, `Restore` | a compare-and-swap takes effect only on the record it was made from; replicas go through the same tables; a restart loses nothing |
| Scheduler: capture and renewal (`scheduler/scheduler.go`) | nothing between rounds | `reconcile`, `tryLockPod`, `renewLeases`, `checkDependencies` | one owner at a time; nobody robbed before the lease is over; dependencies honoured; an expired pod finds a new owner |
| Scheduler: rolling update | link from old to new pod in the table | first loop of `reconcile`, `deletePod`; `HandleCompose` | the service never loses its youngest pod; an old pod goes only after a younger one ran; no downtime |
| Scheduler: warm standby | role of a pod in the table | `reconcileStandby`, `createNewStandbyPod` | one promotion per death; the reserve is refilled |
| Agent (`engine/agent.go`) | the containers of the node | `reconcile`, `checkHealth`, `FenceStatefulPods` | own pods run, others do not; reports never undo what others wrote |
| Fencing (`engine/fencing.go`) | a timer | observer of the leader | stateful pods stop in a minority and stay stopped |
| Cluster API: pods (`api/api.go`) | nothing | `HandleApply`, `HandlePods`, `HandleDeletePod`, `HandleRestartPod`, `HandleCompose` | a request has the effect it reports and no other |
| Cluster API: sessions, bots, bans, terminals | tickets, rate limits, keys `bots` etc. in the table | tickets, limiter, ban lists | a ticket is used once; a limiter entry in use is not evicted |
| Cluster formation (`main.go`, `network/delegate.go`, `network/discovery.go`) | the Raft configuration | bootstrap decision, `NotifyJoin`, `NotifyLeave` | one bootstrap; every member becomes a voter |
| Gossip (`network/delegate.go`, `network/network.go`) | versions and metrics per node, routes, sanction sets | `NotifyMsg`, `UpdateRouteTable`, `ApplyGeoIPSanctions` | the newest metrics win; routes follow the members |
| Compose parser (`compose/compose_parser.go`) | nothing | `ParseComposeFile` | as many replicas as asked for, each with its own identifier |
| DNS (`dns/server.go`) | nothing | `handleRequest` | answers with addresses of running, ready pods |
| Container engine (`engine/containerd.go`, `engine/cni.go`) | containerd's state | run, stop, exec, logs | external |
| Builder, deployment client, configuration, installer | files | command line | sequential I/O |
| Dashboard: overview and deployments (`App.jsx`, `App`) | pods, cards, token, form, handlers under way | poll, stop, delete a card, deploy a folder or a repository | what is shown was true and is again; a card stands for a deployment that ended; no failure escapes a handler |
| Dashboard: converter (`App.jsx`, `ComposeConverter`) | parsed file, variables, settings, manifest | read files, edit, generate, deploy | the manifest is that of the page; the API makes the pods the page shows |
| Dashboard: terminal (`App.jsx`, `TerminalWindow`; tickets and exec sessions in `api/api.go`) | terminal, ticket, socket of each effect | open, turn to another pod, close | keys reach the pod shown, once; a session does not outlive its window |

### 1.3 How they interact

```
 user ──POST /compose, /pods/{id}/restart, DELETE──► leader: read table, Raft set/del
 scheduler ─┐                                                │
 renewal   ─┼─ GET /pods (own replica) … decide … POST /apply cas ─► leader: Raft
 agent     ─┘                                                │
 containerd ◄── agent starts, stops, probes      replica of every node ◄── log
 DNS ◄── GET /pods                               (lags, and replays after a restart)
```

```
 timer ── fetchData ─► GET /stats ─► GET /pods ─► setRealPods, setProjects
 Deploy ─ (zip) ─► POST /upload or /deploy-git ─► setProjects (cards of the old render)
 FileReader ─► loadYaml ─► effect: convertCompose ─► outputYaml ─► POST /compose
 Terminal ─► effect: POST /ticket ─► WebSocket /pod/exec ─► ctr exec on the pod's node
```

User requests are served by the leader and write with `set` and `del`, which
compare nothing. The loops write with `cas`, which compares the field
`resource_version` of the record, and with `del` in a rolling update.

### 1.4 What is hard

* **Stale decisions.** A scheduler sleeps 0.01–5.4 s between picking a pod and
  locking it. Its replica was behind when it picked.
* **Late commands.** `raft.Apply` may time out after 5 s and the entry commit later.
* **Two clocks.** A lease is written by one machine's clock and judged by another's.
* **Silent refusals.** `HandleApply` looks at the error of `raft.Apply` and not at
  the response of `FSM.Apply`, so a refused compare-and-swap is answered 200. No
  loop may rely on its command having taken effect.
* **Restarts.** systemd restarts a dead daemon; its containers may still run, and
  Raft replays the log, so its replica goes through earlier tables again.
* **Two kinds of writes.** The versions that protect the loops from each other
  do not protect them from user requests, nor those from the loops.
* **Old renders.** A handler of the dashboard keeps the render it was created in:
  after its `await` it writes back cards and fields as they were when it began.
* **Late answers.** Polls overlap; a ticket may arrive when its window is closed or
  shows another pod; a request outlives the page that sent it.

`PROJECT.json` lists each of these, and more, at its line under `hazards`.

## 2. Modules

| Module | What it is |
|---|---|
| `PodStore` | pod records, the commands, `FSM.Apply`, and the commands that the loops build |
| `PodLeases` | the three loops of every node, `HandleApply`, the log, lagging replicas, crashes: the core |
| `Ownership` | what the core promises of leases, as an abstract specification |
| `AtomicPods` | the pod table as if every loop read, decided and wrote in one step |
| `PodAdmin` | user requests against the core: deletion, restart, deployment with the same image |
| `RollingUpdate` | deployments with a changed image against the loops |
| `Dashboard` | polls, pods, cards and token of the dashboard; the deployment window and its handlers |
| `ComposeConverter` | the converter page, its manifest, and what the API's parser makes of it |
| `TerminalWindow` | the terminal's effect, its tickets, sockets and exec sessions |
| `*_proofs` | theorems: `PodLeases_proofs`, `PodDeps_proofs` and `PodAtomic_proofs` on the core, the others on the module they are named for |
| `MC*` | instances for TLC, one configuration per run |

`PodLeases`, `RollingUpdate` and `AtomicPods` extend `PodStore`; `PodAdmin` extends
`PodLeases`; `PodLeases` instantiates `Ownership` and `AtomicPods` with refinement
mappings. Operators named as
mutants in a comment are wrong versions of the definition that follows them, each
a plausible slip; they are there to show that the property is sensitive to the
code, and no specification uses them.

### 2.1 PodStore

A table is a function from the identifiers of the pods that have a key to their
records. Identifiers are numbers in the order of the bucket's cursor. A record
keeps status, owner, version, lease, readiness, the node its address belongs to
and the link `UpdateToPodID`. `Apply` is `FSM.Apply`: a missing key compares as
version 0, a refused swap leaves the table alone. `TryLockPod` and `UpdatePod`
are the two ways to build a swap; both compare the version that was *read*.

### 2.2 PodLeases

| Variable | Stands for |
|---|---|
| `hist` | the table after each effective entry of the log |
| `applied[n]` | how much of it the replica of `n` has applied |
| `todo[n][l]` | the records a loop has fetched and not handled |
| `probe[n]` | the record the agent is about to probe |
| `pending[n][l]` | the command whose answer a loop waits for |
| `late` | commands whose sender has an error and which may still commit |
| `running[n]` | pods with a live container on `n` |
| `up[n]`, `now`, `faults` | the daemon, the slowest clock, failures so far |

`Scheduler.reconcile` is `SchedPick` (fetch, filter, first match) and `SchedPost`
(after the delay); `renewLeases` is `RenewFetch` and one `RenewNext` per pod;
`Agent.reconcile` is `AgentFetch`, then for each pod `AgentStart`, `AgentSkip` or
`AgentSeen`, the last followed by `AgentKill` or `AgentProbe`. A command sent ends
in `Commit`, or in `Fail` and perhaps `CommitLate`. `Replicate`, `Crash`,
`Restart`, `ContainerDies` and `Tick` are the environment. A loop waits for its
answer before its next step, as the code does; the three loops of a node run
beside each other, as their goroutines do.

A node whose daemon found no containerd at its start (`main.go`: a warning, and no
agent) is in `NoEngine`: it renews whatever it has captured, since there is nothing
to ask whether a container runs.

Delays have any length, so anti-affinity and jitter, which only change the
length, need no variable. The Raft library is modelled by what it promises: one
log, committed in order; without a quorum nothing commits.

After a restart, Raft replays the log on top of the bucket that survived. For one
pod this makes the replica show earlier records again, which `Restart` models.
With several pods the table may be a mixture of old and new records for a moment;
that is not modelled.

### 2.3 Ownership and AtomicPods

`Grant`, `Renew` and `Advance`: a pod without an owner, or with a lease that is
over by some clock, gets an owner; the owner puts its lease off, never beyond a
TTL from now. `ImplementsOwnership` maps owner and lease of the committed table to
it; everything else (replicas, loops, late commands, crashes) must be a stutter.

`AtomicPods` says more: it has the whole record, and one step, `Write`, in which a
pod is captured, renewed or reported by a decision on its *current* record with a
clock of now. The loops decide on a record of their replica, wait, and send a
command which may commit much later. `ImplementsAtomicPods` maps the committed
table to it and so says that compare-and-swap makes up for all of that: a commit
that takes effect is a decision its sender could have made at that instant, and no
report of a node reaches a pod that has been taken from it.

### 2.4 PodAdmin

`RestartRead`/`ComposeRead` read the table on the leader, `Write` commits what
they made of it, `WriteFails` gives up; `Delete` needs no reading. `Upload` stands for
`/upload` and `/deploy-git`, which look at no table: a new pod of version 0 replaces
whatever has its name. All actions of `PodLeases` may happen in between.

### 2.5 RollingUpdate

One service, one replica. `HandleCompose` is `Deploy` (read the table, choose the
pod to replace, make up an identifier), `Link` (write the old pod back with the
link), `Create` (write the new pod), and `DeployFails` at either write. Every
`Scheduler.reconcile` deletes a pod whose replacement runs: `DeleteOld`. Since a
loop's step depends only on the table it read, and that may be any earlier one,
the module keeps what the tables so far offered (`seen`, `doomed`) instead of
replicas and requests in flight, and does not tell nodes apart where they do the
same; a command made from any of it may be committed at
any time. This allows more than the code does (a command of any age), which is
the safe side for what is shown to hold.

### 2.6 Dashboard

| Variable | Stands for |
|---|---|
| `tables`, `realPods` | every pod table the API had; the one shown, by its place |
| `polls[s]` | a call of `fetchData`: `/stats` asked, `/pods` asked, answered |
| `projects` | the cards, of projects the server named or of own deployments |
| `showProjectModal`, `newProjectForm`, `selectedFiles` | the window, its fields, the folder |
| `runs` | Deploy handlers under way, each with the cards of its render |
| `token`, `faults`, `deploys` | is the saved token the API's; bounds |

`Poll`, `StatsDone`, `PodsServed`, `PodsDone` and `PollFails` are the stretches of
`fetchData` between its awaits; the timer starts a call in any free `Slot`. The
Deploy handler is `DeployGit` or `DeployFolder` up to its first await, `ZipDone`,
and `RunEnds`, which answers, refusals and the catch have in common: `Finish` sets
the cards of the *old* render, closes the window and resets the form. The reset
form lacks fields of the first one, so `envVars.trim()` throws: that branch of
`DeployFolder` ends at once and sends nothing. A press that is refused (no
address, no folder, no compose file) is no step.

### 2.7 ComposeConverter

`reading` holds the `FileReader`s in flight, whose `onload` is `LoadYaml` or
`LoadEnv`. The effect that generates the manifest is `Regenerate`; `ranWith` is what
it ran with last, and `Settled` says that it has run. React runs a pending effect
before it renders another change, so the other changes wait for it; only the
Deploy button of the first rendering may be faster. `Leave` is a change of tab,
which unmounts the page: its state is dropped, its readers have nobody to report to,
and its requests (`flights`) are nobody's (`mine`).

A text is a sequence of tokens: the signs `$`, `{`, `}` and `-` (which is also `:-`),
other signs, and words. `Interpolate` is one pass of the expression that the page
(`App.jsx:653`) and the API (`compose_parser.go:25`) share: `RefsAt` is what it matches
at a place, `Within` leaves out what an earlier match has taken, and each match gives
way to the value, the default or nothing. `ConvertCompose` makes one pass with the
variables of the page; `PodsOf`, which is `ParseComposeFile` for one service, makes
another over the texts that came out, with no variables, since `HandleCompose` passes
none (`api/api.go:463`). Joining a `$` and a value to a new reference is therefore part
of the model. `PodsOf` also drops entries of the environment that are no strings, gives
a database a password, and names an image that is missing. Names that every object of
JavaScript has (`constructor`) are left out.

The page also sends the variables in a header `X-Env-Vars`, which the backend allows
(`api/api.go:757`) and never reads. A named volume is replaced by its device only when
the whole entry has no slash, as in the code, which is never the case for `name:/path`.

`ManifestGetsThrough` says when the second pass does no harm: when each `$` of the file
begins a reference and no value, default or device holds a `$` (`NoSignLeft`). Why the
condition is there: `EscapeIsLost` in `MCComposeConverter` is a text with a single `$` more.
Some texts outside of it get through as well, and nothing is said of them. The other half,
that no database starts with an empty password, is for all texts.

## 3. Runs

All instances have one or two pods of a service, or two services, and a lease of
one tick. `Busy` names the loops that take part; the others of a node stay idle.
`MaxVersion` stops a record from being acted on again, `MaxTime` the clock,
`MaxFaults` the failures, `MaxRequests` and `MaxDeploys` the users.

| Run | Shows | Bounds |
|---|---|---|
| `renew` | type, versions name records, one lease holder, no theft, no lease cut short | owner with all three loops against a node without containerd, which captures and renews blindly, with a clock one tick ahead; 2 ticks, 3 versions |
| `crash` | the inductive invariant; refinement of `Ownership` and of `AtomicPods` | the same owner against a scheduler with that clock, one failure of any kind; 1 tick, 2 versions |
| `deps` | `depends_on` is honoured in the table and by containers; refinement of `AtomicPods` with readiness reports | two services, the first probed; a clock one tick ahead; 1 tick, 4 versions |
| `heal` | an expired lease does not stay expired | two schedulers, 2 failures, 3 ticks |
| `revive` | of the commands in flight only a first capture brings a deleted pod back; the inductive invariant | 2 requests, scheduler and agent against a second scheduler |
| `capture` | a pending pod is captured or deleted in the end | 1 request, 1 failure |
| `update` | rolling updates keep the youngest pod and delete only after a younger one ran; their inductive invariant | 3 overlapping deployments, 4 pods, 2 versions |
| `dead` | *violated*: a held pod of a dead node has a lease to expire | 1 request, 1 failure |
| `dashboard` | no card mixes two answers or stands for a deployment that has not ended; the first deployment of a page is sent; the inductive invariant | 2 pods of 2 projects, 2 polls at once, 1 change of the table (a stop or another), 2 deployments, 1 fault |
| `catchup` | the display shows the cluster again and again; a deployment ends with its card | the same with 1 deployment |
| `converter` | the manifest is current; one request at a time; the API makes the pods shown, with the texts shown if no `$` is left over; variables stay within reach; the button comes back | 3 files, 3 texts of variables, 2 readers, 2 presses, a cap of 2 replicas below a choice of 3 |
| `terminal` | connections left behind, keys of another pod and keys sent twice are bounded by late tickets; sessions end; the user is told | 2 pods, 3 runs of the effect, both builds |

**Why these bounds are enough.** Ownership is a matter of one pod: no command
names two, and the loops treat pods one after the other. A second pod appears
where pods interact, in `deps`. A theft needs an owner and a rival; a third node
would be another rival. With a TTL of one tick, two ticks see a capture, an expiry
by the fast clock and one by the slow clock; three versions see a capture, a
renewal and a command that was overtaken by it. In `update` two versions are what
it takes to capture a pod and report it Running, four pods and three deployments
let two updates overlap and a third find their remains. The safety results do not
depend on these bounds: section 4 proves them for all.

In the dashboard two polls suffice to overtake each other, and two handlers to
overwrite each other's cards. The converter's files are one with a default, a list of
variables (one of them no string) and a named volume, one with counts of its own and a
database whose password is a variable, and one that does not parse; its variables have
a key set twice, a value that holds a reference, and none at all. `Interpolate` finds
all matches of a text at once; that this is what scanning from left to right finds
(`Scan`) is checked for all texts of up to six tokens, signs and words
(`LeftToRight`). Three effects are a window with a late ticket of an earlier effect
and a present one, or two windows. `terminal` does not check deadlock: with every
effect used and everything answered the user may leave a page alone for ever.

**Fairness** (`heal`, `capture`). Each loop is an endless `for` with a sleep
(`Scheduler.Start`, `Agent.Start`), so a step that stays possible is taken; a
request is answered or fails; the log reaches every replica that is up; systemd
restarts the daemon (`system/systemd.go:39`, `Restart=always`); the clock runs.
All of it is weak fairness. Nothing is assumed of failures, probes, containers or
users. Failures are finite in number: under endless failures nothing could be
promised, and the code does not.

In the dashboard the interval fires for ever and a browser ends every request it
starts, one way or the other (`catchup`, `converter`, `terminal`); a read from a
connection that was closed returns (`terminal`). Nothing is assumed of users, of when
tickets and answers come, or of shells. In `catchup` every poll slot is used again and
again; that a poll is not overtaken is not assumed.

### Where code and words differ

The run `dead` finds this one:

* Deploying again with the same image writes a record without its lease
  (`api/api.go:516`). Until its owner renews, a pod with lease 0 is no scheduler's
  to take; if the owner dies in that time, nobody takes it, ever, while
  `src/README.md:67` says that workloads of a dead node are rescheduled.

These are plain from single actions of the models and have no run of their own:

* A capture of a fresh pod, in flight when the pod is deleted, passes because an
  absent key compares as version 0 (`cluster/fsm.go:79`), so a deleted pod comes
  back. `revive` shows how far this goes: only such a first capture passes, no
  renewal and no report.
* The agent looks at pods of its own node only (`engine/agent.go:83`), so a container
  whose pod has moved runs on beside the new one; the comment at `api/api.go:899` says
  that the agent stops it. (`StartedAfterDependencies`: at least no container ran
  before the services its pod depends on had been ready.)
* A takeover keeps status, readiness and address of the old owner
  (`scheduler/scheduler.go:372`), so DNS, which lists running and ready containers
  (`dns/server.go:38`), answers with an address on the dead node. By
  `ImplementsAtomicPods` this lasts until the new owner's report at most: no report of
  the old one lands any more.
* The old pod of a rolling update ("Zero-Downtime", `api/api.go:492`) is written back
  as it was read, with its old version (`api/api.go:499`), undoing what the loops
  wrote since; a pod that has become Running meanwhile is Pending again.
* "Replicas (for all services)" (`App.jsx:1064`) changes no manifest: reading a file
  gives every service settings of its own (`App.jsx:824`). `SettingsCoverServices`.
* A folder deployment after the first deployment of a page throws before it sends
  anything, unless the variables are typed anew, and gets a card (`App.jsx:593`,
  `App.jsx:628`). `FirstIsSent` shows that only the reset form does this.
* `$$NAME`, compose's way to write a `$`, becomes `$` and the value on the page and nothing
  at the API, and so does all that follows a `$` in a value, a default or the device of a
  volume (`App.jsx:653`, `compose_parser.go:28`). `ManifestGetsThrough` shows that
  texts with no `$` left over get through, and `EscapeIsLost` that this one does not.
* The entries of an environment that are no strings, `PORT: 8080` among them, are shown in
  the manifest and reach no pod (`compose_parser.go:104`, `compose_parser.go:110`).
* A ticket that arrives after the cleanup of its effect opens a session that nobody
  closes, and typed keys go to it (`App.jsx:1226`). The properties of `TerminalWindow`
  show that nothing else does.

## 4. Proofs

For any set of pods and nodes, any skew, any number of failures and any length of
behaviour. Assumed: the named ASSUMEs of the modules (identifiers are positive
numbers, the empty node name is no node, the TTL is a positive number, no clock is
ahead by more than `MaxSkew`, the texts of files and variables are sequences), each
evaluated by TLC in every run.

| Theorem | Property |
|---|---|
| `Invariance` | `IInv` of the core |
| `TypeCorrect` | `TypeOK` |
| `VersionsName` | `VersionNamesRecord` |
| `OneHolder` | `OneLeaseHolder` |
| `NoTheft` | `NoStealing` |
| `LeasesGrow` | `LeaseNeverShrinks` |
| `Refinement` | `ImplementsOwnership` |
| `Atomicity` | `ImplementsAtomicPods` |
| `DependenciesHonoured` | `CapturedAfterDependencies` |
| `ContainersInOrder` | `StartedAfterDependencies` |
| `AdminInvariance`, `AdminTypeCorrect` | `AdminInv`, and its part `AdminTypeOK` |
| `OnlyFirstCapture` | `OnlyFirstCaptureRevives` |
| `RuInvariance` | `RuInv` of rolling updates |
| `Survival` | `LatestSurvives` |
| `NoEarlyDeletion` | `ReplacedOnceRunning` |
| `DashboardInvariant`, `DashboardTypes` | `DashboardInv`, `TypeOK` of the dashboard |
| `CardsAreFromOneTable` | `CardsWereTrue` |
| `OwnCardsAreOfEnded` | `CardsOfEnded` |
| `TheFirstIsSent` | `FirstIsSent` |
| `ConverterInvariant`, `ConverterTypes` | `ConverterInv` (of the proofs), `TypeOK` |
| `ManifestIsCurrent` | `OutputIsCurrent` |
| `OneRequestAtATime` | `OneRequest` |
| `AllServicesHaveSettings` | `SettingsCoverServices` |
| `AsManyPodsAsShown` | `PodsAsShown` |
| `ManifestArrives` | `ManifestGetsThrough` |
| `VariablesStayInReach` | `EnvCanBeEdited` |
| `TerminalInvariant`, `TerminalTypes` | `TerminalInv`, `TypeOK` of the terminal |
| `ConnectionsLeft` | `LeftByLateTickets` |
| `KeysReach` | `KeysReachShownPod` |
| `KeysOnce` | `KeysSentOnce` |

**The core.** None of the properties is inductive: a step that breaks one comes from
a command sent long ago, or from a record fetched long ago, so `IInv` says what
those may be.

* `Sound`: a record is Pending with no owner and no lease, or held by a node with a
  lease at most a TTL ahead of that node's clock.
* `Current`: a record that anybody has read is the current one if it has its
  version, and never has a later version. This is what makes comparing one number
  as good as comparing records, and it is what the `set` of `PodAdmin` destroys.
* `Outlived` (of every table in the log): an earlier record has the owner of the
  current one or a lease that is over, and no longer a lease. From it follows that
  a replica, however far behind, shows a lease in force only to the present owner.
* `Fetched` (of every record in a loop's hands): the scheduler's was Pending or
  expired by its clock, the others' were held by the node itself.
* `CommandOk` (of every command in flight or late): if the record it was made from
  is still the current one, it does not shorten the lease, and it changes the owner
  only of a pod that is free or expired.

Each action keeps each part; the two steps that matter are `Commit`, where
`Current` turns a passed comparison into equality of records and `CommandOk` gives
the rest, and the making of a command, where `Fetched` gives `CommandOk`.
`Refinement` uses the same facts: a commit that takes effect is a `Renew` or a
`Grant`, everything else a stutter. `DependenciesHonoured` needs that a record
taken by a scheduler was read from a table in which the dependencies were met, and
carries this from the table through the delay and the request to the commit.
`ContainersInOrder` adds `GivenInv`: whatever an agent has in its list, and whatever
runs on its node, some committed table gave to that node.

`Atomicity` needs `FreshInv`: of every command in flight or late, if it would still
pass, what it writes may be decided on the current record now. When the command is
made, `Current` makes the record compared the record read, and `Fetched` says why the
loop may decide on that. Time only adds to what may be decided, since a lease that is
over stays over; and a write to the pod raises its version, after which the comparison
fails for good.

**Requests.** With requests that write unconditionally `Current` is false, and `AdminInv`
keeps the part of it that survives: a record of version 0 waits for its first owner
(`NewIsPending`), in every table, in every loop's hands and in every record a request
is about to set. A compare-and-swap that expects version 0, the only kind that passes
on an absent pod, was therefore made from a waiting record, which only a scheduler
takes (`FirstCapture`). It needs `Redeployed` to copy the version along with the status.

**Rolling updates.** `RuInv` says that links point to younger pods, that a request
links to a younger pod, that for each pod to be deleted a younger one ran, and that
the youngest of all pods ever written is in the table. A deletion spares the
youngest because a doomed pod has a younger one, and no write removes a pod.

**The dashboard.** `DashboardInv` adds to the properties that an answer in flight names
a table, that handlers are told apart by the numbers of their deployments, and that
only a handler which ended leaves the variables undefined. What a handler puts back
is covered because the properties speak of the cards it keeps as well as of those
shown. Assumed: the pods are finitely many, each in a project.

**The converter.** What the effect wrote last is the manifest of what it ran with
(`OutputOfLastRun`); with dependencies that name everything the effect reads, this is
the manifest of the page whenever the effect is not about to run. That a request
is the page's own exactly while it says "deploying" needs that presses are numbered.
`PodsAsShown` follows from the current manifest and the parser's arithmetic.

`ManifestArrives` is about texts of any length. The library's induction theorems
take an operator, which the provers here cannot instantiate, so the proof takes the
least member of a set of numbers instead (`LeastMember`), and gets from it that the
recursion inside `FlattenSeq` is well defined (`FlattenRecurs`), that the tokens of what
it puts together are those of the parts (`FlattenSigns`), and that a text cut into its
tokens is put together again (`FlattenSingles`). So a pass leaves no `$` when each begins
a reference and none is put in (`FirstPass`), a volume gets none from its device
(`VolumeSigns`), and a pass over a text without `$` finds nothing (`SecondPass`). That a
database has a password uses only that a pass yields a text (`DatabaseHasPassword`).

**The terminal.** `LeftByLateTickets` counts connections, and a cleanup closes only the
socket in the ref, so the induction needs what the *next* cleanup will leave:
`LeftByCleanup` says that beside the socket in the ref a window has at most as many
connections as late tickets, and `HandlersByTickets` the same of handlers. A ticket
in time adds one connection, which is the one in the ref; a late one adds one to
both sides.

**Only model-checked.** The liveness properties (`ExpiredIsRetaken`,
`PendingIsCaptured`, `DisplayCatchesUp`, `DeployEnds`, `DeployingEnds`,
`LeftSessionsEnd`, `UserIsTold`), since fairness and ENABLED are out of the prover's
reach. Every invariant and action property of the passing runs has a theorem.

## 5. Not modelled

* **Warm standby** (`reconcileStandby`, `createNewStandbyPod`). Whether a standby is
  promoted depends on what memberlist believes of another node; a model would be
  about a failure detector that is not in this repository.
* **Fencing** and **cluster formation.** A timer of real time and a start-up sequence
  around what the Raft library and memberlist report, and when.
* **Gossip of metrics and routes.** Metrics are kept by version. The mutex of
  `NetworkManager` guards the metrics; the map of versions (`network/delegate.go:32`) has
  none and rests on memberlist calling `NotifyMsg` from one goroutine, which is not in this
  repository. Tunnels and filters are commands to the kernel.
* **Clocks that are set.** Each node's clock is ahead of the others by a constant; one that
  is set back while the node runs is outside of what the leases promise here.
* **Snapshots** of the store, which hand over the whole bucket in one transaction, and
  the mixture of old and new pods that a replay shows over a bucket that survived.
* **Rate limiter, bots, bans** of the API: entries that are independent of each other,
  and single writes through the log. Unused tickets are never evicted
  (`api/api.go:1260`); the model does not count them.
* **Services of the same name in two projects**, which take each other's pods.
* Of the dashboard the buttons Logs and Restart and the download of a manifest, which
  show one answer and keep nothing, the statistics shown, and layout.
* containerd, CNI, nftables, WireGuard and VXLAN, image builds, unpacking and cloning,
  terminal streams, the installer, encryption at rest and JSON: I/O and formats
  without decisions that the properties could tell apart.

Pods posted to `/apply` as full records by hand (the only way to a probe, a stateful
pod or an architecture) appear in the core as the constants `Probed` and `Fits`.
