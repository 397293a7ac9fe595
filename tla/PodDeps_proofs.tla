-------------------------- MODULE PodDeps_proofs ---------------------------
(***************************************************************************)
(* depends_on is honoured: proof of CapturedAfterDependencies.             *)
(*                                                                         *)
(* The decision to capture is made on a lagging replica, waits over the    *)
(* delay of reconcile and then in the log.  What carries it through is     *)
(* that every table a replica shows was committed: a pod that some loop or *)
(* command has in hand had its dependencies met in some table of the log.  *)
(* The same for containers, StartedAfterDependencies: what an agent has in *)
(* its list, some table of the log gave to its node.                       *)
(***************************************************************************)
EXTENDS PodLeases_proofs

\* Some committed table had the dependencies of p met.
Met(p) == \E i \in 1..Len(hist) : DependenciesMet(hist[i], p)

TodoMet    == \A n \in Node : \A l \in Loops : \A r \in todo[n][l] : Met(r.id)
ProbeMet   == \A n \in Node : \A r \in probe[n] : Met(r.id)
PendingMet == \A n \in Node : \A l \in Loops : \A c \in pending[n][l] : Met(c.val.id)
LateMet    == \A c \in late : Met(c.val.id)

DepInv == CapturedAfterDependencies /\ TodoMet /\ ProbeMet /\ PendingMet /\ LateMet

\* What the loops have in hand after a step, judged by the log before it.
TodoMetN    == \A n \in Node : \A l \in Loops : \A r \in todo'[n][l] : Met(r.id)
ProbeMetN   == \A n \in Node : \A r \in probe'[n] : Met(r.id)
PendingMetN == \A n \in Node : \A l \in Loops : \A c \in pending'[n][l] : Met(c.val.id)
LateMetN    == \A c \in late' : Met(c.val.id)

HandsMet == TodoMetN /\ ProbeMetN /\ PendingMetN /\ LateMetN

-----------------------------------------------------------------------------

\* The log only grows: what it has shown once, it has shown for good.
LEMMA MetKept ==
  ASSUME TypeOK, LogStep, NEW p, Met(p)
  PROVE  Met(p)'
  <1>1. CASE hist' = hist
    BY <1>1 DEF Met, DependenciesMet
  <1>2. CASE /\ Len(hist') = Len(hist) + 1
             /\ \A i \in 1..Len(hist) : hist'[i] = hist[i]
    <2>1. PICK i \in 1..Len(hist) : DependenciesMet(hist[i], p)
      BY DEF Met
    <2>2. i \in 1..Len(hist') /\ hist'[i] = hist[i]
      BY <1>2, StoreType
    <2>3. DependenciesMet(hist[i], p)'
      BY <2>1, <2>2 DEF DependenciesMet
    <2> QED BY <2>2, <2>3 DEF Met
  <1> QED BY <1>1, <1>2, CommitStore DEF LogStep

\* A pod that a replica shows as taken had its dependencies met.
LEMMA TakenMet ==
  ASSUME IInv, DepInv, NEW n \in Node, NEW p \in Pod, Replica(n)[p].status # "Pending"
  PROVE  Met(p)
  <1>1. applied[n] \in 1..Len(hist) /\ Len(hist) \in Nat
    BY StoreType DEF IInv
  <1>2. PICK i \in 1..(applied[n] - 1) : DependenciesMet(hist[i], p)
    BY <1>1 DEF DepInv, CapturedAfterDependencies, Replica
  <1> QED BY <1>1, <1>2 DEF Met

\* What a step leaves alone stays so.
LEMMA SameMet ==
  ASSUME DepInv
  PROVE  /\ todo' = todo => TodoMetN
         /\ probe' = probe => ProbeMetN
         /\ pending' = pending => PendingMetN
         /\ late' = late => LateMetN
  BY DEF DepInv, TodoMet, ProbeMet, PendingMet, LateMet, TodoMetN, ProbeMetN,
         PendingMetN, LateMetN

\* A loop has another list in hand.
LEMMA TodoSet ==
  ASSUME IInv, DepInv, NEW n \in Node, NEW l \in Loops, NEW S,
         todo' = [todo EXCEPT ![n][l] = S], \A r \in S : Met(r.id)
  PROVE  TodoMetN
  <1>1. todo \in [Node -> [Loops -> SUBSET PodRec]] /\ TodoMet
    BY DEF IInv, TypeOK, DepInv
  <1>2. ASSUME NEW m \in Node, NEW k \in Loops
        PROVE  todo'[m][k] = IF m = n /\ k = l THEN S ELSE todo[m][k]
    BY <1>1
  <1> QED BY <1>1, <1>2 DEF TodoMet, TodoMetN

\* A loop drops the record it has handled.
LEMMA TodoLess ==
  ASSUME IInv, DepInv, NEW n \in Node, NEW l \in Loops, NEW r,
         todo' = [todo EXCEPT ![n][l] = @ \ {r}]
  PROVE  TodoMetN
  <1> DEFINE S == todo[n][l] \ {r}
  <1>1. todo' = [todo EXCEPT ![n][l] = S] /\ \A q \in S : Met(q.id)
    BY DEF DepInv, TodoMet
  <1> HIDE DEF S
  <1> QED BY <1>1, TodoSet

\* A loop sends another command, or has its answer.
LEMMA PendingSet ==
  ASSUME IInv, DepInv, NEW n \in Node, NEW l \in Loops, NEW S,
         pending' = [pending EXCEPT ![n][l] = S], \A c \in S : Met(c.val.id)
  PROVE  PendingMetN
  <1>1. pending \in [Node -> [Loops -> SUBSET CasCmd]] /\ PendingMet
    BY DEF IInv, TypeOK, DepInv
  <1>2. ASSUME NEW m \in Node, NEW k \in Loops
        PROVE  pending'[m][k] = IF m = n /\ k = l THEN S ELSE pending[m][k]
    BY <1>1
  <1> QED BY <1>1, <1>2 DEF PendingMet, PendingMetN

\* The agent goes on to the probes of a record, or is done with them.
LEMMA ProbeSet ==
  ASSUME IInv, DepInv, NEW n \in Node, NEW S,
         probe' = [probe EXCEPT ![n] = S], \A r \in S : Met(r.id)
  PROVE  ProbeMetN
  BY DEF IInv, TypeOK, DepInv, ProbeMet, ProbeMetN

\* tryLockPod and UpdatePod write the pod they were given.
LEMMA CommandId ==
  ASSUME NEW r \in PodRec, NEW n, NEW t
  PROVE  TryLockPod(r, n, t).val.id = r.id /\ UpdatePod(r).val.id = r.id
  BY DEF TryLockPod, UpdatePod, PodRec

-----------------------------------------------------------------------------
(* The steps.                                                              *)

\* reconcile picks a pod whose dependencies its replica shows as met.
LEMMA PickMet ==
  ASSUME IInv, DepInv, NEW n \in Node, SchedPick(n)
  PROVE  HandsMet
  <1>1. PICK p \in Pod : /\ Capturable(n, Replica(n), p)
                         /\ todo' = [todo EXCEPT ![n]["sched"] = {Replica(n)[p]}]
    BY ReplicaDomain DEF SchedPick
  <1>2. Met(p) /\ Replica(n)[p].id = p
    BY <1>1, ReadOk, StoreType DEF Capturable, Met, Replica, IInv
  <1>3. TodoMetN
    <2> DEFINE S == {Replica(n)[p]}
    <2>1. todo' = [todo EXCEPT ![n]["sched"] = S] /\ \A r \in S : Met(r.id)
      BY <1>1, <1>2
    <2> HIDE DEF S
    <2> QED BY <2>1, TodoSet DEF Loops
  <1> QED BY <1>3, SameMet DEF SchedPick, HandsMet

\* tryLockPod after the delay.
LEMMA PostMet ==
  ASSUME IInv, DepInv, NEW n \in Node, SchedPost(n)
  PROVE  HandsMet
  <1>1. PICK r \in todo[n]["sched"] :
          pending' = [pending EXCEPT ![n]["sched"] = {TryLockPod(r, n, Clock(n))}]
    BY DEF SchedPost
  <1>2. "sched" \in Loops /\ r \in PodRec /\ Met(r.id)
    BY DEF Loops, IInv, TypeOK, DepInv, TodoMet
  <1>3. PendingMetN
    <2> DEFINE S == {TryLockPod(r, n, Clock(n))}
    <2>1. pending' = [pending EXCEPT ![n]["sched"] = S] /\ \A c \in S : Met(c.val.id)
      BY <1>1, <1>2, CommandId
    <2> HIDE DEF S
    <2> QED BY <1>2, <2>1, PendingSet
  <1>4. TodoMetN
    <2> DEFINE S == {}
    <2>1. todo' = [todo EXCEPT ![n]["sched"] = S] /\ \A q \in S : Met(q.id)
      BY DEF SchedPost
    <2> HIDE DEF S
    <2> QED BY <1>2, <2>1, TodoSet
  <1> QED BY <1>3, <1>4, SameMet DEF SchedPost, HandsMet

\* renewLeases and the agent read pods that are taken.
LEMMA FetchMet ==
  ASSUME IInv, DepInv, NEW n \in Node, RenewFetch(n) \/ AgentFetch(n)
  PROVE  HandsMet
  <1>1. \A r \in FetchOwn(n) : Met(r.id)
    BY TakenMet, ReadOk, ReplicaDomain DEF FetchOwn, Held
  <1>2. PICK l \in Loops : todo' = [todo EXCEPT ![n][l] = FetchOwn(n)]
    BY DEF RenewFetch, AgentFetch, Loops
  <1>3. TodoMetN
    BY <1>1, <1>2, TodoSet
  <1> QED BY <1>3, SameMet DEF RenewFetch, AgentFetch, HandsMet

\* renewLeases renews the pod of its next record.
LEMMA RenewMet ==
  ASSUME IInv, DepInv, NEW n \in Node, RenewNext(n)
  PROVE  HandsMet
  <1>1. PICK r \in todo[n]["renew"] :
          /\ todo' = [todo EXCEPT ![n]["renew"] = @ \ {r}]
          /\ \/ pending' = [pending EXCEPT ![n]["renew"] = {TryLockPod(r, n, Clock(n))}]
             \/ pending' = pending
    BY DEF RenewNext, NextOf
  <1>2. "renew" \in Loops /\ r \in PodRec /\ Met(r.id)
    BY DEF Loops, IInv, TypeOK, DepInv, TodoMet
  <1>3. PendingMetN
    <2> DEFINE S == {TryLockPod(r, n, Clock(n))}
    <2>1. \/ pending' = pending
          \/ pending' = [pending EXCEPT ![n]["renew"] = S] /\ \A c \in S : Met(c.val.id)
      BY <1>1, <1>2, CommandId
    <2> HIDE DEF S
    <2> QED BY <1>2, <2>1, PendingSet, SameMet
  <1> QED BY <1>1, <1>2, <1>3, TodoLess, SameMet DEF RenewNext, HandsMet

\* A report of the agent is about the pod of its record.
LEMMA ReportMet ==
  ASSUME IInv, DepInv, NEW n \in Node, NEW r \in PodRec, Met(r.id),
         NEW q \in PodRec, q.id = r.id,
         \/ pending' = [pending EXCEPT ![n]["agent"] = {UpdatePod(q)}]
         \/ pending' = pending
  PROVE  PendingMetN
  <1> DEFINE S == {UpdatePod(q)}
  <1>1. \/ pending' = pending
        \/ pending' = [pending EXCEPT ![n]["agent"] = S] /\ \A c \in S : Met(c.val.id)
    BY CommandId
  <1> HIDE DEF S
  <1> QED BY <1>1, PendingSet, SameMet DEF Loops

\* The agent handles the next record of its list.
LEMMA AgentMet ==
  ASSUME IInv, DepInv, NEW n \in Node, AgentStart(n) \/ AgentSkip(n) \/ AgentSeen(n)
  PROVE  HandsMet
  <1>1. PICK r \in todo[n]["agent"] :
          /\ todo' = [todo EXCEPT ![n]["agent"] = @ \ {r}]
          /\ probe' = probe \/ probe' = [probe EXCEPT ![n] = {r}]
          /\ \/ pending' = [pending EXCEPT ![n]["agent"] =
                    {UpdatePod([r EXCEPT !.status = "Running", !.addr = n])}]
             \/ pending' = [pending EXCEPT ![n]["agent"] =
                    {UpdatePod([r EXCEPT !.status = "Running"])}]
             \/ pending' = pending
    BY DEF AgentStart, AgentSkip, AgentSeen, NextOf
  <1>2. "agent" \in Loops /\ r \in PodRec /\ Met(r.id)
    BY DEF Loops, IInv, TypeOK, DepInv, TodoMet
  <1>3. /\ [r EXCEPT !.status = "Running", !.addr = n] \in PodRec
        /\ [r EXCEPT !.status = "Running", !.addr = n].id = r.id
        /\ [r EXCEPT !.status = "Running"] \in PodRec
        /\ [r EXCEPT !.status = "Running"].id = r.id
    BY <1>2 DEF PodRec, Status
  <1>4. PendingMetN
    BY <1>1, <1>2, <1>3, ReportMet
  <1>5. ProbeMetN
    <2> DEFINE S == {r}
    <2>1. \/ probe' = probe
          \/ probe' = [probe EXCEPT ![n] = S] /\ \A q \in S : Met(q.id)
      BY <1>1, <1>2
    <2> HIDE DEF S
    <2> QED BY <2>1, ProbeSet, SameMet
  <1>6. TodoMetN
    BY <1>1, <1>2, TodoLess
  <1> QED BY <1>4, <1>5, <1>6, SameMet DEF AgentStart, AgentSkip, AgentSeen, HandsMet

\* The agent has run the probes of a record.
LEMMA ProbesMet ==
  ASSUME IInv, DepInv, NEW n \in Node, AgentKill(n) \/ AgentProbe(n)
  PROVE  HandsMet
  <1>1. PICK r \in probe[n], ok \in BOOLEAN :
          \/ pending' = [pending EXCEPT ![n]["agent"] =
                 {UpdatePod([r EXCEPT !.status = "Running", !.ready = ok])}]
          \/ pending' = pending
    BY DEF AgentKill, AgentProbe, Answers
  <1>2. r \in PodRec /\ Met(r.id)
    BY DEF IInv, TypeOK, DepInv, ProbeMet
  <1>3. /\ [r EXCEPT !.status = "Running", !.ready = ok] \in PodRec
        /\ [r EXCEPT !.status = "Running", !.ready = ok].id = r.id
    BY <1>2 DEF PodRec, Status
  <1>4. PendingMetN
    BY <1>1, <1>2, <1>3, ReportMet
  <1>5. ProbeMetN
    <2> DEFINE S == {}
    <2>1. probe' = [probe EXCEPT ![n] = S] /\ \A q \in S : Met(q.id)
      BY DEF AgentKill, AgentProbe
    <2> HIDE DEF S
    <2> QED BY <2>1, ProbeSet
  <1> QED BY <1>4, <1>5, SameMet DEF AgentKill, AgentProbe, HandsMet

\* A command is answered.
LEMMA AnswerMet ==
  ASSUME IInv, DepInv, NEW n \in Node, NEW l \in Loops, Commit(n, l) \/ Fail(n, l)
  PROVE  HandsMet
  <1>1. PendingMetN
    <2> DEFINE S == {}
    <2>1. pending' = [pending EXCEPT ![n][l] = S] /\ \A c \in S : Met(c.val.id)
      BY DEF Commit, Fail
    <2> HIDE DEF S
    <2> QED BY <2>1, PendingSet
  <1>2. LateMetN
    BY DEF Commit, Fail, DepInv, PendingMet, LateMet, LateMetN
  <1> QED BY <1>1, <1>2, SameMet DEF Commit, Fail, HandsMet

\* A daemon dies and leaves its commands behind.
LEMMA CrashMet ==
  ASSUME IInv, DepInv, NEW n \in Node, Crash(n)
  PROVE  HandsMet
  <1>1. todo \in [Node -> [Loops -> SUBSET PodRec]]
        /\ pending \in [Node -> [Loops -> SUBSET CasCmd]]
        /\ probe \in [Node -> SUBSET PodRec]
    BY DEF IInv, TypeOK
  <1>2. TodoMetN
    BY <1>1 DEF Crash, DepInv, TodoMet, TodoMetN
  <1>3. PendingMetN
    BY <1>1 DEF Crash, DepInv, PendingMet, PendingMetN
  <1>4. ProbeMetN
    BY <1>1 DEF Crash, DepInv, ProbeMet, ProbeMetN
  <1>5. LateMetN
    <2>1. PICK sent \in SUBSET UNION { pending[n][l] : l \in Loops } :
            late' = late \cup sent
      BY DEF Crash
    <2>2. \A c \in sent : \E l \in Loops : c \in pending[n][l]
      BY <2>1
    <2> QED BY <2>1, <2>2 DEF DepInv, PendingMet, LateMet, LateMetN
  <1> QED BY <1>2, <1>3, <1>4, <1>5 DEF HandsMet

\* No step puts anything in hand whose dependencies were not met.
LEMMA StepMet ==
  ASSUME IInv, DepInv, [Next]_vars
  PROVE  HandsMet
  <1>1. ASSUME NEW n \in Node, NodeStep(n)
        PROVE  HandsMet
    <2>1. CASE \/ Replicate(n) \/ Restart(n)
               \/ \E p \in Pod : ContainerDies(n, p)
      BY <2>1, SameMet DEF Replicate, Restart, ContainerDies, HandsMet
    <2> QED BY <1>1, <2>1, PickMet, PostMet, FetchMet, RenewMet, AgentMet, ProbesMet,
               AnswerMet, CrashMet DEF NodeStep
  <1>2. CASE CommitLate
    BY <1>2, SameMet DEF CommitLate, HandsMet, DepInv, LateMet, LateMetN
  <1>3. CASE Tick \/ UNCHANGED vars
    BY <1>3, SameMet DEF Tick, HandsMet, vars
  <1> QED BY <1>1, <1>2, <1>3 DEF Next, Terminating

\* A step leaves the log alone or commits a command about a pod whose
\* dependencies were met.
LEMMA LogMet ==
  ASSUME IInv, DepInv, [Next]_vars
  PROVE  \/ hist' = hist
         \/ \E c \in CasCmd : CommandOk(c) /\ Met(c.val.id) /\ hist' = Committed(c)
  <1>1. ASSUME NEW n \in Node, NEW l \in Loops, Commit(n, l)
        PROVE  \E c \in CasCmd : CommandOk(c) /\ Met(c.val.id) /\ hist' = Committed(c)
    BY <1>1 DEF Commit, IInv, TypeOK, CommandsOk, DepInv, PendingMet
  <1>2. CommitLate => \E c \in CasCmd : CommandOk(c) /\ Met(c.val.id) /\ hist' = Committed(c)
    BY DEF CommitLate, IInv, TypeOK, CommandsOk, DepInv, LateMet
  <1>3. ASSUME NEW n \in Node, NodeStep(n), \A l \in Loops : ~Commit(n, l)
        PROVE  hist' = hist
    BY <1>3 DEF NodeStep, SchedPick, SchedPost, RenewFetch, RenewNext, AgentFetch,
       AgentStart, AgentSkip, AgentSeen, AgentKill, AgentProbe, Replicate, Crash,
       Restart, Fail, ContainerDies
  <1>4. Tick \/ Terminating \/ UNCHANGED vars => hist' = hist
    BY DEF Tick, Terminating, vars
  <1> QED BY <1>1, <1>2, <1>3, <1>4 DEF Next

\* The table that a command adds to the log shows its pod as taken, after the
\* dependencies of that pod were met.
LEMMA CapturedKept ==
  ASSUME IInv, DepInv, [Next]_vars
  PROVE  CapturedAfterDependencies'
  <1>1. CASE hist' = hist
    BY <1>1 DEF DepInv, CapturedAfterDependencies, DependenciesMet
  <1>2. ASSUME NEW c \in CasCmd, Met(c.val.id), hist' = Committed(c), hist' # hist
        PROVE  CapturedAfterDependencies'
    <2> DEFINE k == Len(hist)
    <2>1. /\ k \in Nat /\ k >= 1 /\ Store \in [Pod -> PodRec] /\ c.val.id \in Pod
          /\ Len(hist') = k + 1
          /\ \A i \in 1..k : hist'[i] = hist[i]
          /\ hist'[k + 1] = [Store EXCEPT ![c.val.id] = c.val]
      BY <1>2, StoreType, CommitStore DEF IInv, CasCmd, PodRec
    <2> SUFFICES ASSUME NEW j \in 1..(k + 1), NEW p \in Pod,
                        hist'[j][p].status # "Pending"
                 PROVE  \E i \in 1..(j - 1) : DependenciesMet(hist'[i], p)
      BY <2>1 DEF CapturedAfterDependencies, DependenciesMet
    <2>2. CASE j <= k
      <3>1. PICK i \in 1..(j - 1) : DependenciesMet(hist[i], p)
        BY <2>1, <2>2 DEF DepInv, CapturedAfterDependencies
      <3>2. hist'[i] = hist[i]
        BY <2>1, <2>2
      <3> QED BY <3>1, <3>2
    <2>3. CASE j = k + 1 /\ p = c.val.id
      <3>1. PICK i \in 1..k : DependenciesMet(hist[i], p)
        BY <1>2, <2>3 DEF Met
      <3>2. hist'[i] = hist[i] /\ i \in 1..(j - 1)
        BY <2>1, <2>3
      <3> QED BY <3>1, <3>2
    <2>4. CASE j = k + 1 /\ p # c.val.id
      <3>1. hist[k][p].status # "Pending"
        BY <2>1, <2>4 DEF Store
      <3>2. PICK i \in 1..(k - 1) : DependenciesMet(hist[i], p)
        BY <2>1, <3>1 DEF DepInv, CapturedAfterDependencies
      <3>3. hist'[i] = hist[i] /\ i \in 1..(j - 1)
        BY <2>1, <2>4
      <3> QED BY <3>2, <3>3
    <2> QED BY <2>1, <2>2, <2>3, <2>4
  <1> QED BY <1>1, <1>2, LogMet

-----------------------------------------------------------------------------

\* Nothing is taken and nothing is in hand in the beginning.
LEMMA DepInit == Init => DepInv
  <1> SUFFICES ASSUME Init PROVE DepInv
    OBVIOUS
  <1>1. CapturedAfterDependencies
    <2> DEFINE t == [p \in Pod |-> FreshPod(p)]
    <2>1. hist = <<t>> /\ \A p \in Pod : t[p].status = "Pending"
      BY DEF Init, FreshPod
    <2> HIDE DEF t
    <2>2. Len(hist) = 1 /\ \A p \in Pod : hist[1][p].status = "Pending"
      BY <2>1
    <2>3. \A j \in 1..1 : j = 1
      OBVIOUS
    <2> QED BY <2>2, <2>3 DEF CapturedAfterDependencies
  <1>2. TodoMet /\ ProbeMet /\ PendingMet /\ LateMet
    BY DEF Init, TodoMet, ProbeMet, PendingMet, LateMet
  <1> QED BY <1>1, <1>2 DEF DepInv

\* Every step keeps what is taken, and what is in hand, behind its dependencies.
LEMMA DepNext == IInv /\ DepInv /\ [Next]_vars => DepInv'
  <1> SUFFICES ASSUME IInv, DepInv, [Next]_vars PROVE DepInv'
    OBVIOUS
  <1>1. HandsMet /\ CapturedAfterDependencies' /\ LogStep /\ TypeOK
    BY StepMet, CapturedKept, NextStep DEF IInv
  <1>2. \A p : Met(p) => Met(p)'
    BY <1>1, MetKept
  <1>3. TodoMet' /\ ProbeMet' /\ PendingMet' /\ LateMet'
    BY <1>1, <1>2 DEF HandsMet, TodoMet, ProbeMet, PendingMet, LateMet,
       TodoMetN, ProbeMetN, PendingMetN, LateMetN
  <1> QED BY <1>1, <1>3 DEF DepInv

\* A pod is taken only after each service it depends on had a pod in the state
\* that depends_on asks for.
THEOREM DependenciesHonoured == Spec => []CapturedAfterDependencies
  <1>1. DepInv => CapturedAfterDependencies
    BY DEF DepInv
  <1> QED BY <1>1, DepInit, DepNext, Invariance, PTL DEF Spec

-----------------------------------------------------------------------------
(* Containers.                                                             *)

\* Some committed table gave p to n.
Given(n, p) ==
  \E i \in 1..Len(hist) : Held(hist[i][p]) /\ hist[i][p].node = n

\* What the agents have to do and what they have done was given to their nodes.
ListsGiven   == \A n \in Node : \A r \in todo[n]["agent"] : Given(n, r.id)
RunningGiven == \A n \in Node : \A p \in running[n] : Given(n, p)

GivenInv == ListsGiven /\ RunningGiven

\* What has been given was given for good, as the log only grows.
LEMMA GivenKept ==
  ASSUME TypeOK, LogStep, NEW n, NEW p, Given(n, p)
  PROVE  Given(n, p)'
  <1>1. CASE hist' = hist
    BY <1>1 DEF Given, Held
  <1>2. CASE /\ Len(hist') = Len(hist) + 1
             /\ \A i \in 1..Len(hist) : hist'[i] = hist[i]
    <2>1. PICK i \in 1..Len(hist) : Held(hist[i][p]) /\ hist[i][p].node = n
      BY DEF Given
    <2>2. i \in 1..Len(hist') /\ hist'[i] = hist[i]
      BY <1>2, StoreType
    <2> QED BY <2>1, <2>2 DEF Given, Held
  <1> QED BY <1>1, <1>2, CommitStore DEF LogStep

\* The pods that a node fetches as its own were given to it.
LEMMA OwnGiven ==
  ASSUME IInv, NEW n \in Node, NEW r \in FetchOwn(n)
  PROVE  Given(n, r.id)
  <1>1. PICK p \in Pod : r = Replica(n)[p]
    BY ReplicaDomain DEF FetchOwn
  <1>2. r.id = p /\ r.node = n /\ Held(r)
    BY <1>1, ReadOk DEF FetchOwn
  <1>3. applied[n] \in 1..Len(hist)
    BY StoreType DEF IInv
  <1> QED BY <1>1, <1>2, <1>3 DEF Given, Replica

\* The list of an agent comes from its replica.
LEMMA ListStep ==
  ASSUME IInv, [Next]_vars, NEW m \in Node, NEW r \in todo'[m]["agent"]
  PROVE  r \in todo[m]["agent"] \/ r \in FetchOwn(m)
  <1>1. todo \in [Node -> [Loops -> SUBSET PodRec]]
    BY DEF IInv, TypeOK
  <1>2. "agent" \in Loops /\ "sched" # "agent" /\ "renew" # "agent"
    BY DEF Loops
  <1>3. ASSUME NEW n \in Node, NodeStep(n)
        PROVE  r \in todo[m]["agent"] \/ r \in FetchOwn(m)
    <2>1. CASE SchedPick(n)
      BY <1>1, <1>2, <2>1 DEF SchedPick
    <2>2. CASE SchedPost(n)
      BY <1>1, <1>2, <2>2 DEF SchedPost
    <2>3. CASE RenewFetch(n) \/ RenewNext(n)
      <3>1. PICK S : todo' = [todo EXCEPT ![n]["renew"] = S]
        BY <2>3 DEF RenewFetch, RenewNext
      <3> QED BY <1>1, <1>2, <3>1
    <2>4. CASE AgentFetch(n)
      BY <1>1, <1>2, <2>4 DEF AgentFetch
    <2>5. CASE AgentStart(n) \/ AgentSkip(n) \/ AgentSeen(n)
      <3>1. PICK q : todo' = [todo EXCEPT ![n]["agent"] = @ \ {q}]
        BY <2>5 DEF AgentStart, AgentSkip, AgentSeen
      <3> QED BY <1>1, <1>2, <3>1
    <2>6. CASE Crash(n)
      BY <1>1, <1>2, <2>6 DEF Crash
    <2>7. CASE \/ AgentKill(n) \/ AgentProbe(n) \/ Replicate(n) \/ Restart(n)
               \/ \E l \in Loops : Commit(n, l) \/ Fail(n, l)
               \/ \E p \in Pod : ContainerDies(n, p)
      BY <2>7 DEF AgentKill, AgentProbe, Replicate, Restart, Commit, Fail, ContainerDies
    <2> QED BY <1>3, <2>1, <2>2, <2>3, <2>4, <2>5, <2>6, <2>7 DEF NodeStep
  <1>4. CASE CommitLate \/ Tick \/ UNCHANGED vars
    BY <1>4 DEF CommitLate, Tick, vars
  <1> QED BY <1>3, <1>4 DEF Next, Terminating

\* A container is started for a pod on the agent's list, and for no other.
LEMMA RunningStep ==
  ASSUME IInv, [Next]_vars, NEW m \in Node, NEW p \in running'[m]
  PROVE  p \in running[m] \/ \E r \in todo[m]["agent"] : p = r.id
  <1>1. running \in [Node -> SUBSET Pod]
    BY DEF IInv, TypeOK
  <1>2. ASSUME NEW n \in Node, NodeStep(n)
        PROVE  p \in running[m] \/ \E r \in todo[m]["agent"] : p = r.id
    <2>1. CASE AgentStart(n)
      BY <1>1, <2>1 DEF AgentStart, NextOf
    <2>2. CASE AgentKill(n) \/ Crash(n) \/ \E q \in Pod : ContainerDies(n, q)
      BY <1>1, <2>2 DEF AgentKill, Crash, ContainerDies
    <2>3. CASE \/ SchedPick(n) \/ SchedPost(n) \/ RenewFetch(n) \/ RenewNext(n)
               \/ AgentFetch(n) \/ AgentSkip(n) \/ AgentSeen(n) \/ AgentProbe(n)
               \/ Replicate(n) \/ Restart(n)
               \/ \E l \in Loops : Commit(n, l) \/ Fail(n, l)
      BY <2>3 DEF SchedPick, SchedPost, RenewFetch, RenewNext, AgentFetch, AgentSkip,
         AgentSeen, AgentProbe, Replicate, Restart, Commit, Fail
    <2> QED BY <1>2, <2>1, <2>2, <2>3 DEF NodeStep
  <1>3. CASE CommitLate \/ Tick \/ UNCHANGED vars
    BY <1>3 DEF CommitLate, Tick, vars
  <1> QED BY <1>2, <1>3 DEF Next, Terminating

\* No agent has anything to do, and nothing runs, in the beginning.
LEMMA GivenInit == Init => GivenInv
  BY DEF Init, GivenInv, ListsGiven, RunningGiven, Loops

\* Every step keeps lists and containers to what was given.
LEMMA GivenNext == IInv /\ GivenInv /\ [Next]_vars => GivenInv'
  <1> SUFFICES ASSUME IInv, GivenInv, [Next]_vars PROVE GivenInv'
    OBVIOUS
  <1>1. LogStep /\ TypeOK
    BY NextStep DEF IInv
  <1>2. ASSUME NEW m \in Node, NEW r \in todo'[m]["agent"]
        PROVE  Given(m, r.id)'
    <2>1. Given(m, r.id)
      BY ListStep, OwnGiven DEF GivenInv, ListsGiven
    <2> QED BY <1>1, <2>1, GivenKept
  <1>3. ASSUME NEW m \in Node, NEW p \in running'[m]
        PROVE  Given(m, p)'
    <2>1. Given(m, p)
      BY RunningStep DEF GivenInv, ListsGiven, RunningGiven
    <2> QED BY <1>1, <2>1, GivenKept
  <1> QED BY <1>2, <1>3 DEF GivenInv, ListsGiven, RunningGiven

\* A container runs on a node only after a committed table gave it the pod, and
\* that only after the dependencies of the pod were met.
THEOREM ContainersInOrder == Spec => []StartedAfterDependencies
  <1>1. ASSUME IInv, DepInv, GivenInv
        PROVE  StartedAfterDependencies
    <2> SUFFICES ASSUME NEW n \in Node, NEW p \in running[n]
                 PROVE  \E i \in 1..Len(hist) :
                          /\ Held(hist[i][p]) /\ hist[i][p].node = n
                          /\ \E j \in 1..(i - 1) : DependenciesMet(hist[j], p)
      BY DEF StartedAfterDependencies
    <2>1. p \in Pod
      BY <1>1 DEF IInv, TypeOK
    <2>2. PICK i \in 1..Len(hist) : Held(hist[i][p]) /\ hist[i][p].node = n
      BY <1>1 DEF GivenInv, RunningGiven, Given
    <2>3. hist[i][p].status # "Pending"
      BY <2>2 DEF Held
    <2>4. \E j \in 1..(i - 1) : DependenciesMet(hist[j], p)
      BY <1>1, <2>1, <2>2, <2>3 DEF DepInv, CapturedAfterDependencies
    <2> QED BY <2>2, <2>4
  <1> QED BY <1>1, DepInit, DepNext, GivenInit, GivenNext, Invariance, PTL DEF Spec
=============================================================================
