------------------------- MODULE PodAtomic_proofs --------------------------
(***************************************************************************)
(* Optimistic concurrency makes the loops atomic: proof of                 *)
(* ImplementsAtomicPods.                                                   *)
(*                                                                         *)
(* The point of linearization of a loop is the commit of its command.  The *)
(* invariant: every command in flight, should it still pass the comparison *)
(* of versions, writes what a loop might decide on the current record at   *)
(* this very instant.  It is made from a record that is the current one if *)
(* it has the current version; time only adds to what may be decided; and  *)
(* a write to the pod makes the comparison fail for good.                  *)
(***************************************************************************)
EXTENDS PodLeases_proofs

\* A command that would pass writes what may be decided on now.
Fresh(c) ==
  c.exp = Store[c.val.id].ver => Atom!Decided(Store[c.val.id], c.val)

PendingFresh == \A n \in Node : \A l \in Loops : \A c \in pending[n][l] : Fresh(c)
LateFresh    == \A c \in late : Fresh(c)

FreshInv == PendingFresh /\ LateFresh

\* What is in flight after a step, judged in the state before it.
PendingFreshN == \A n \in Node : \A l \in Loops : \A c \in pending'[n][l] : Fresh(c)
LateFreshN    == \A c \in late' : Fresh(c)

-----------------------------------------------------------------------------
(* What may be decided on.                                                 *)

\* The records and commands of AtomicPods are those of the loops.
LEMMA SameOperators ==
  ASSUME NEW r, NEW n, NEW t
  PROVE  /\ Atom!TryLockPod(r, n, t) = TryLockPod(r, n, t)
         /\ Atom!UpdatePod(r) = UpdatePod(r)
         /\ Atom!FreshPod(r) = FreshPod(r)
         /\ Atom!Held(r) <=> Held(r)
         /\ Atom!Expired(r, t) <=> Expired(r, t)
  BY DEF Atom!TryLockPod, TryLockPod, Atom!UpdatePod, UpdatePod, Atom!FreshPod,
     FreshPod, NoPod, Atom!NoPod, Atom!Held, Held, Atom!Expired, Expired

\* What may be decided on a record now, may be decided on it later.
LEMMA DecidedLater ==
  ASSUME now \in Nat, now' \in {now, now + 1}, NEW r, NEW q, Atom!Decided(r, q)
  PROVE  Atom!Decided(r, q)'
  <1>1. Atom!Reading \subseteq Atom!Reading'
    <2>1. MaxSkew \in Nat
      BY SkewAssumption
    <2>2. CASE now' = now
      BY <2>2 DEF Atom!Reading
    <2>3. CASE now' = now + 1
      BY <2>1, <2>3 DEF Atom!Reading
    <2> QED BY <2>2, <2>3
  <1>2. Atom!Captured(r, q) => Atom!Captured(r, q)'
    BY <1>1 DEF Atom!Captured
  <1>3. Atom!Renewed(r, q) => Atom!Renewed(r, q)'
    BY <1>1 DEF Atom!Renewed
  <1>4. Atom!Reported(r, q) => Atom!Reported(r, q)'
    BY DEF Atom!Reported
  <1> QED BY <1>2, <1>3, <1>4 DEF Atom!Decided

\* A command in flight stays fresh: a tick lets more be decided, and a command
\* about the same pod that takes effect makes this one fail.
LEMMA FreshKept ==
  ASSUME TypeOK, LogStep, NEW d \in CasCmd, CommandOk(d), Fresh(d)
  PROVE  Fresh(d)'
  <1>1. /\ Store \in [Pod -> PodRec] /\ now \in Nat
        /\ d.val.id \in Pod /\ d.exp \in Nat
    BY StoreType DEF TypeOK, CasCmd, PodRec
  <1>2. now' \in {now, now + 1}
    BY DEF LogStep
  <1>3. CASE Store'[d.val.id] = Store[d.val.id]
    BY <1>1, <1>2, <1>3, DecidedLater DEF Fresh
  <1>4. ASSUME NEW c \in CasCmd, CommandOk(c), c.exp = Store[c.val.id].ver,
               Store' = [Store EXCEPT ![c.val.id] = c.val],
               Store'[d.val.id] # Store[d.val.id]
        PROVE  Fresh(d)'
    <2>1. /\ c.val.id = d.val.id /\ c.exp \in Nat
          /\ Store'[d.val.id].ver = c.exp + 1
      BY <1>1, <1>4 DEF CommandOk, CasCmd, PodRec
    <2>2. d.exp <= c.exp
      BY <1>4, <2>1 DEF CommandOk
    <2>3. d.exp # Store'[d.val.id].ver
      BY <1>1, <2>1, <2>2
    <2> QED BY <2>3 DEF Fresh
  <1>5. hist' = hist => Store'[d.val.id] = Store[d.val.id]
    BY DEF Store
  <1> QED BY <1>3, <1>4, <1>5, CommitStore DEF LogStep

\* tryLockPod: the command is one that may be decided on, if it passes.
LEMMA LockFresh ==
  ASSUME TypeOK, NEW n \in Node, NEW l \in {"sched", "renew"},
         NEW r \in PodRec, Fetched(n, l, r)
  PROVE  Fresh(TryLockPod(r, n, Clock(n)))
  <1> DEFINE t == Clock(n)
             c == TryLockPod(r, n, t)
  <1>1. c.exp = r.ver /\ c.val.id = r.id
    BY DEF TryLockPod, PodRec
  <1>2. r.ver = Store[r.id].ver => r = Store[r.id]
    BY DEF Fetched, Current
  <1>3. t \in Atom!Reading
    BY SkewAssumption DEF Clock, Atom!Reading, TypeOK
  <1>4. Atom!Decided(r, c.val)
    <2>1. CASE l = "sched"
      BY <1>3, <2>1, SameOperators DEF Fetched, Atom!Decided, Atom!Captured
    <2>2. CASE l = "renew"
      <3>1. r.node = n /\ Held(r) /\ r.lease <= t + TTL
        BY <2>2 DEF Fetched, Sound, Held
      <3> QED BY <1>3, <3>1, SameOperators DEF Atom!Decided, Atom!Renewed
    <2> QED BY <2>1, <2>2
  <1> HIDE DEF c
  <1> QED BY <1>1, <1>2, <1>4 DEF Fresh, c

\* A report of the agent is one that may be decided on, if it passes.
LEMMA ReportFresh ==
  ASSUME NEW n \in Node, NEW r \in PodRec, Fetched(n, "agent", r),
         NEW q \in PodRec, q.id = r.id, q.ver = r.ver,
         Atom!Reported(r, UpdatePod(q).val)
  PROVE  Fresh(UpdatePod(q))
  <1>1. UpdatePod(q).exp = r.ver /\ UpdatePod(q).val.id = r.id
    BY DEF UpdatePod, PodRec
  <1>2. r.ver = Store[r.id].ver => r = Store[r.id]
    BY DEF Fetched, Current
  <1> QED BY <1>1, <1>2 DEF Fresh, Atom!Decided

-----------------------------------------------------------------------------
(* The steps.                                                              *)

\* What a step leaves alone stays so.
LEMMA SameFresh ==
  ASSUME FreshInv
  PROVE  /\ pending' = pending => PendingFreshN
         /\ late' = late => LateFreshN
  BY DEF FreshInv, PendingFresh, LateFresh, PendingFreshN, LateFreshN

\* A loop sends another command.
LEMMA SendFresh ==
  ASSUME IInv, FreshInv, NEW n \in Node, NEW l \in Loops, NEW d,
         pending' = [pending EXCEPT ![n][l] = {d}], Fresh(d)
  PROVE  PendingFreshN
  <1>1. pending \in [Node -> [Loops -> SUBSET CasCmd]] /\ PendingFresh
    BY DEF IInv, TypeOK, FreshInv
  <1>2. ASSUME NEW m \in Node, NEW k \in Loops
        PROVE  pending'[m][k] = IF m = n /\ k = l THEN {d} ELSE pending[m][k]
    BY <1>1
  <1> QED BY <1>1, <1>2 DEF PendingFresh, PendingFreshN

\* The delay of reconcile is over.
LEMMA PostFresh ==
  ASSUME IInv, FreshInv, NEW n \in Node, SchedPost(n)
  PROVE  PendingFreshN
  <1>1. PICK r \in todo[n]["sched"] :
          pending' = [pending EXCEPT ![n]["sched"] = {TryLockPod(r, n, Clock(n))}]
    BY DEF SchedPost
  <1>2. "sched" \in Loops /\ r \in PodRec /\ Fetched(n, "sched", r)
    BY DEF Loops, IInv, TypeOK, SnapshotsOk
  <1>3. Fresh(TryLockPod(r, n, Clock(n)))
    BY <1>2, LockFresh DEF IInv
  <1> QED BY <1>1, <1>2, <1>3, SendFresh

\* renewLeases renews the pod of its next record.
LEMMA RenewFresh ==
  ASSUME IInv, FreshInv, NEW n \in Node, RenewNext(n)
  PROVE  PendingFreshN
  <1>1. PICK r \in todo[n]["renew"] :
          \/ pending' = [pending EXCEPT ![n]["renew"] = {TryLockPod(r, n, Clock(n))}]
          \/ pending' = pending
    BY DEF RenewNext, NextOf
  <1>2. "renew" \in Loops /\ r \in PodRec /\ Fetched(n, "renew", r)
    BY DEF Loops, IInv, TypeOK, SnapshotsOk
  <1>3. Fresh(TryLockPod(r, n, Clock(n)))
    BY <1>2, LockFresh DEF IInv
  <1> QED BY <1>1, <1>2, <1>3, SendFresh, SameFresh

\* The agent reports what it made of one record of its own.
LEMMA AgentSends ==
  ASSUME IInv, FreshInv, NEW n \in Node, NEW r \in PodRec, Fetched(n, "agent", r),
         NEW q \in PodRec, q.id = r.id, q.ver = r.ver,
         Atom!Reported(r, UpdatePod(q).val),
         pending' = [pending EXCEPT ![n]["agent"] = {UpdatePod(q)}]
  PROVE  PendingFreshN
  BY ReportFresh, SendFresh DEF Loops

\* It has started the container.
LEMMA StartFresh ==
  ASSUME IInv, FreshInv, NEW n \in Node, AgentStart(n)
  PROVE  PendingFreshN
  <1>1. PICK r \in todo[n]["agent"] :
          \/ pending' = [pending EXCEPT ![n]["agent"] =
                 {UpdatePod([r EXCEPT !.status = "Running", !.addr = n])}]
          \/ pending' = pending
    BY DEF AgentStart, NextOf
  <1>2. r \in PodRec /\ Fetched(n, "agent", r) /\ Held(r) /\ r.node = n
    BY DEF Loops, IInv, TypeOK, SnapshotsOk, Fetched
  <1> DEFINE q == [r EXCEPT !.status = "Running", !.addr = n]
  <1>3. q \in PodRec /\ q.id = r.id /\ q.ver = r.ver
    BY <1>2 DEF PodRec, Status
  <1>4. Atom!Reported(r, UpdatePod(q).val)
    BY <1>2, SameOperators DEF Atom!Reported
  <1> HIDE DEF q
  <1> QED BY <1>1, <1>2, <1>3, <1>4, AgentSends, SameFresh DEF q

\* It has found the container running.
LEMMA SeenFresh ==
  ASSUME IInv, FreshInv, NEW n \in Node, AgentSeen(n)
  PROVE  PendingFreshN
  <1>1. PICK r \in todo[n]["agent"] :
          \/ /\ r.status = "Scheduled"
             /\ pending' = [pending EXCEPT ![n]["agent"] =
                              {UpdatePod([r EXCEPT !.status = "Running"])}]
          \/ pending' = pending
    BY DEF AgentSeen, NextOf
  <1>2. r \in PodRec /\ Fetched(n, "agent", r) /\ Held(r)
    BY DEF Loops, IInv, TypeOK, SnapshotsOk, Fetched
  <1> DEFINE q == [r EXCEPT !.status = "Running"]
  <1>3. q \in PodRec /\ q.id = r.id /\ q.ver = r.ver
    BY <1>2 DEF PodRec, Status
  <1>4. r.status = "Scheduled" => Atom!Reported(r, UpdatePod(q).val)
    BY <1>2, SameOperators DEF Atom!Reported
  <1> HIDE DEF q
  <1> QED BY <1>1, <1>2, <1>3, <1>4, AgentSends, SameFresh DEF q

\* It has run the probes: a pod turns unready only with a probe and an address.
LEMMA ProbeFresh ==
  ASSUME IInv, FreshInv, NEW n \in Node, AgentProbe(n)
  PROVE  PendingFreshN
  <1>1. PICK r \in probe[n], ok \in BOOLEAN :
          /\ ok \in Answers(r)
          /\ \/ /\ ok # r.ready
                /\ pending' = [pending EXCEPT ![n]["agent"] =
                     {UpdatePod([r EXCEPT !.status = "Running", !.ready = ok])}]
             \/ pending' = pending
    BY DEF AgentProbe, Answers
  <1>2. /\ r \in PodRec /\ r.ready \in BOOLEAN
        /\ Fetched(n, "agent", r) /\ Held(r)
    BY DEF IInv, TypeOK, SnapshotsOk, Fetched, PodRec
  <1> DEFINE q == [r EXCEPT !.status = "Running", !.ready = ok]
  <1>3. q \in PodRec /\ q.id = r.id /\ q.ver = r.ver
    BY <1>2 DEF PodRec, Status
  <1>4. ok # r.ready => Atom!Reported(r, UpdatePod(q).val)
    <2> SUFFICES ASSUME ok # r.ready PROVE Atom!Reported(r, UpdatePod(q).val)
      OBVIOUS
    <2>1. ok = ~r.ready
      BY <1>2
    <2>2. r.ready => r.id \in Probed /\ r.addr # NoNode
      BY <1>1, <2>1 DEF Answers
    <2>3. q = [r EXCEPT !.status = "Running", !.ready = ~@]
      BY <2>1
    <2> HIDE DEF q
    <2> QED BY <1>2, <2>2, <2>3, SameOperators DEF Atom!Reported
  <1> HIDE DEF q
  <1> QED BY <1>1, <1>2, <1>3, <1>4, AgentSends, SameFresh DEF q

\* A command is answered, and one that was given up may be in the log still.
LEMMA AnswerFresh ==
  ASSUME IInv, FreshInv, NEW n \in Node, NEW l \in Loops, Commit(n, l) \/ Fail(n, l)
  PROVE  PendingFreshN /\ LateFreshN
  <1>1. pending \in [Node -> [Loops -> SUBSET CasCmd]]
    BY DEF IInv, TypeOK
  <1>2. PendingFreshN
    BY <1>1 DEF Commit, Fail, FreshInv, PendingFresh, PendingFreshN
  <1>3. LateFreshN
    BY DEF Commit, Fail, FreshInv, PendingFresh, LateFresh, LateFreshN
  <1> QED BY <1>2, <1>3

\* A daemon dies and leaves its commands behind.
LEMMA CrashFresh ==
  ASSUME IInv, FreshInv, NEW n \in Node, Crash(n)
  PROVE  PendingFreshN /\ LateFreshN
  <1>1. pending \in [Node -> [Loops -> SUBSET CasCmd]]
    BY DEF IInv, TypeOK
  <1>2. PendingFreshN
    BY <1>1 DEF Crash, FreshInv, PendingFresh, PendingFreshN
  <1>3. PICK sent \in SUBSET UNION { pending[n][l] : l \in Loops } :
          late' = late \cup sent
    BY DEF Crash
  <1>4. \A c \in sent : \E l \in Loops : c \in pending[n][l]
    BY <1>3
  <1> QED BY <1>2, <1>3, <1>4 DEF FreshInv, PendingFresh, LateFresh, LateFreshN

\* No step puts a command in flight that writes anything else.
LEMMA StepFresh ==
  ASSUME IInv, FreshInv, [Next]_vars
  PROVE  PendingFreshN /\ LateFreshN
  <1>1. ASSUME NEW n \in Node, NodeStep(n)
        PROVE  PendingFreshN /\ LateFreshN
    <2>1. CASE \/ SchedPost(n) \/ RenewNext(n) \/ AgentStart(n) \/ AgentSeen(n)
               \/ AgentProbe(n)
      <3>1. PendingFreshN
        BY <2>1, PostFresh, RenewFresh, StartFresh, SeenFresh, ProbeFresh
      <3>2. late' = late
        BY <2>1 DEF SchedPost, RenewNext, AgentStart, AgentSeen, AgentProbe
      <3> QED BY <3>1, <3>2, SameFresh
    <2>2. CASE \/ SchedPick(n) \/ RenewFetch(n) \/ AgentFetch(n) \/ AgentSkip(n)
               \/ AgentKill(n) \/ Replicate(n) \/ Restart(n)
               \/ \E p \in Pod : ContainerDies(n, p)
      BY <2>2, SameFresh DEF SchedPick, RenewFetch, AgentFetch, AgentSkip, AgentKill,
         Replicate, Restart, ContainerDies
    <2> QED BY <1>1, <2>1, <2>2, AnswerFresh, CrashFresh DEF NodeStep
  <1>2. CASE CommitLate
    BY <1>2, SameFresh DEF CommitLate, FreshInv, LateFresh, LateFreshN
  <1>3. CASE Tick \/ UNCHANGED vars
    BY <1>3, SameFresh DEF Tick, vars
  <1> QED BY <1>1, <1>2, <1>3 DEF Next, Terminating

\* Nothing is in flight in the beginning.
LEMMA FreshInit == Init => FreshInv
  BY DEF Init, FreshInv, PendingFresh, LateFresh

\* Every step keeps what is in flight fresh.
LEMMA FreshNext == IInv /\ FreshInv /\ [Next]_vars => FreshInv'
  <1> SUFFICES ASSUME IInv, FreshInv, [Next]_vars PROVE FreshInv'
    OBVIOUS
  <1>1. PendingFreshN /\ LateFreshN /\ LogStep /\ InHand /\ TypeOK /\ TypeOK'
    BY StepFresh, NextStep DEF IInv
  <1>2. ASSUME NEW m \in Node, NEW l \in Loops, NEW c \in pending'[m][l]
        PROVE  Fresh(c)'
    <2>1. c \in CasCmd /\ CommandOk(c) /\ Fresh(c)
      BY <1>1 DEF TypeOK, InHand, PendingFreshN
    <2> QED BY <1>1, <2>1, FreshKept
  <1>3. ASSUME NEW c \in late'
        PROVE  Fresh(c)'
    <2>1. c \in CasCmd /\ CommandOk(c) /\ Fresh(c)
      BY <1>1 DEF TypeOK, InHand, LateFreshN
    <2> QED BY <1>1, <2>1, FreshKept
  <1> QED BY <1>2, <1>3 DEF FreshInv, PendingFresh, LateFresh

-----------------------------------------------------------------------------
(* The refinement.                                                         *)

\* A step leaves the log alone, or commits a command that is fresh.
LEMMA LogFresh ==
  ASSUME IInv, FreshInv, [Next]_vars
  PROVE  \/ hist' = hist /\ now' \in {now, now + 1}
         \/ /\ now' = now
            /\ \E c \in CasCmd : Fresh(c) /\ hist' = Committed(c)
  <1>1. ASSUME NEW n \in Node, NEW l \in Loops, Commit(n, l)
        PROVE  now' = now /\ \E c \in CasCmd : Fresh(c) /\ hist' = Committed(c)
    BY <1>1 DEF Commit, IInv, TypeOK, FreshInv, PendingFresh
  <1>2. CommitLate => now' = now /\ \E c \in CasCmd : Fresh(c) /\ hist' = Committed(c)
    BY DEF CommitLate, IInv, TypeOK, FreshInv, LateFresh
  <1>3. ASSUME NEW n \in Node, NodeStep(n), \A l \in Loops : ~Commit(n, l)
        PROVE  hist' = hist
    BY <1>3 DEF NodeStep, SchedPick, SchedPost, RenewFetch, RenewNext, AgentFetch,
       AgentStart, AgentSkip, AgentSeen, AgentKill, AgentProbe, Replicate, Crash,
       Restart, Fail, ContainerDies
  <1>4. Tick \/ Terminating \/ UNCHANGED vars => hist' = hist
    BY DEF Tick, Terminating, vars
  <1>5. now' \in {now, now + 1}
    BY NextStep DEF LogStep
  <1> QED BY <1>1, <1>2, <1>3, <1>4, <1>5 DEF Next

\* A commit is the whole of one loop's reading, deciding and writing.
LEMMA CommitWrites ==
  ASSUME IInv, NEW c \in CasCmd, Fresh(c), hist' = Committed(c), now' = now
  PROVE  Store' = Store \/ \E p \in Pod : Atom!Write(p)
  <1>1. CASE hist' = hist
    BY <1>1 DEF Store
  <1>2. CASE c.exp = Store[c.val.id].ver /\ Store' = [Store EXCEPT ![c.val.id] = c.val]
    <2>1. c.val.id \in Pod /\ Store \in [Pod -> PodRec]
      BY StoreType DEF IInv, CasCmd, PodRec
    <2>2. Store'[c.val.id] = c.val
      BY <1>2, <2>1
    <2>3. Atom!Decided(Store[c.val.id], Store'[c.val.id])
      BY <1>2, <2>2 DEF Fresh
    <2> QED BY <1>2, <2>1, <2>2, <2>3 DEF Atom!Write
  <1> QED BY <1>1, <1>2, CommitStore DEF IInv

\* Every step of the loops, the log and the replicas is one atomic reading,
\* decision and write of some node on the pod table, a tick, or none of both.
THEOREM Atomicity == Spec => ImplementsAtomicPods
  <1>1. Init => Atom!AtomInit
    <2>1. \A p : FreshPod(p) = Atom!FreshPod(p)
      BY SameOperators
    <2> QED BY <2>1 DEF Init, Atom!AtomInit, Store
  <1>2. ASSUME IInv, FreshInv, [Next]_vars
        PROVE  [Atom!AtomNext]_(Atom!atomVars)
    <2>1. CASE hist' = hist /\ now' \in {now, now + 1}
      <3>1. Store' = Store
        BY <2>1 DEF Store
      <3> QED BY <2>1, <3>1 DEF Atom!AtomNext, Atom!Advance, Atom!atomVars
    <2>2. CASE now' = now /\ \E c \in CasCmd : Fresh(c) /\ hist' = Committed(c)
      BY <1>2, <2>2, CommitWrites DEF Atom!AtomNext, Atom!atomVars
    <2> QED BY <1>2, <2>1, <2>2, LogFresh
  <1> QED BY <1>1, <1>2, FreshInit, FreshNext, Invariance, PTL
          DEF Spec, ImplementsAtomicPods, Atom!AtomSpec
=============================================================================
