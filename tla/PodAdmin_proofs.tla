-------------------------- MODULE PodAdmin_proofs --------------------------
(***************************************************************************)
(* Proofs about PodAdmin: with requests that write unconditionally, of the *)
(* commands of the loops only a first capture brings a deleted pod back.   *)
(***************************************************************************)
EXTENDS PodAdmin, SequenceTheorems, TLAPS

\* A table whose records all keep to NewIsPending.
GoodTable(t) == IsTable(t) /\ \A p \in DOMAIN t : NewIsPending(t[p])

\* The parts of the invariant that speak of the log, and of what loops hold.
LogOk == /\ hist \in Seq(Tables) /\ hist # <<>>
         /\ \A t \in Tables : GoodTable(t)

GoodRec(r) == r \in PodRec /\ NewIsPending(r)
GoodCas(c) == c \in CasCmd /\ FirstCapture(c)
GoodSet(c) == c \in SetCmd /\ NewIsPending(c.val)

-----------------------------------------------------------------------------
(* Records and tables.                                                     *)

\* The current table, and the one a replica shows.
LEMMA CurrentTable ==
  ASSUME LogOk
  PROVE  /\ Len(hist) \in Nat /\ Len(hist) >= 1
         /\ GoodTable(Store)
         /\ \A i \in 1..Len(hist) : GoodTable(hist[i])
  <1>1. Len(hist) \in Nat /\ Len(hist) >= 1
    BY DEF LogOk
  <1>2. \A i \in 1..Len(hist) : hist[i] \in Tables
    BY DEF Tables
  <1>3. Len(hist) \in 1..Len(hist)
    BY <1>1
  <1> QED BY <1>1, <1>2, <1>3 DEF LogOk, Store

\* Writing a good record into a good table, or deleting one (Put and Apply).
LEMMA PutGood ==
  ASSUME NEW t, GoodTable(t), NEW r, GoodRec(r)
  PROVE  GoodTable(Put(t, r))
  <1>1. r.id \in Pod
    BY DEF GoodRec, PodRec
  <1>2. \A p \in DOMAIN t : t[p] \in PodRec /\ NewIsPending(t[p])
    BY DEF GoodTable, IsTable
  <1>3. DOMAIN Put(t, r) = DOMAIN t \cup {r.id}
    BY DEF Put
  <1>4. \A p \in DOMAIN Put(t, r) : GoodRec(Put(t, r)[p])
    BY <1>2, <1>3 DEF Put, GoodRec
  <1>5. Put(t, r) \in [DOMAIN Put(t, r) -> PodRec]
    BY <1>4 DEF Put, GoodRec
  <1> QED BY <1>1, <1>3, <1>4, <1>5 DEF GoodTable, IsTable, GoodRec

\* A compare-and-swap, a set and a deletion turn a good table into a good one.
LEMMA ApplyGood ==
  ASSUME NEW t, GoodTable(t), NEW c,
         GoodCas(c) \/ GoodSet(c) \/ c \in DelCmd
  PROVE  GoodTable(Apply(t, c))
  <1>1. CASE GoodCas(c)
    <2>1. c.op = "cas" /\ c.val \in PodRec /\ c.exp \in Nat
      BY <1>1 DEF GoodCas, CasCmd
    <2>2. GoodRec(c.val)
      <3>1. c.val.ver # 0
        BY <1>1, <2>1 DEF GoodCas, FirstCapture
      <3> QED BY <2>1, <3>1 DEF GoodRec, NewIsPending
    <2> QED BY <2>1, <2>2, PutGood DEF Apply
  <1>2. CASE GoodSet(c)
    <2>1. c.op = "set" /\ GoodRec(c.val)
      BY <1>2 DEF GoodSet, SetCmd, GoodRec
    <2>2. Apply(t, c) = Put(t, c.val)
      BY <2>1 DEF Apply
    <2> QED BY <2>1, <2>2, PutGood
  <1>3. CASE c \in DelCmd
    <2>1. c.op = "del"
      BY <1>3 DEF DelCmd
    <2>2. Apply(t, c) = [p \in DOMAIN t \ {c.id} |-> t[p]]
      BY <2>1 DEF Apply
    <2> QED BY <2>2 DEF GoodTable, IsTable, NewIsPending
  <1> QED BY <1>1, <1>2, <1>3

\* The log stays proper when a good table is appended.
LEMMA AppendGood ==
  ASSUME LogOk, NEW t, GoodTable(t), hist' = Append(hist, t)
  PROVE  LogOk' /\ Len(hist') = Len(hist) + 1 /\ Store' = t
  <1> DEFINE S == Tables \cup {t}
  <1>1. hist \in Seq(S) /\ t \in S
    BY SeqMonotonic DEF LogOk
  <1>2. /\ hist' \in Seq(S) /\ hist' # <<>>
        /\ Len(hist') = Len(hist) + 1
        /\ \A i \in 1..Len(hist) : hist'[i] = hist[i]
        /\ hist'[Len(hist) + 1] = t
    BY <1>1, AppendProperties
  <1>3. Tables' = S
    <2>1. Len(hist) \in Nat
      BY CurrentTable
    <2>2. 1..Len(hist') = 1..Len(hist) \cup {Len(hist) + 1}
      BY <1>2, <2>1
    <2> QED BY <1>2, <2>2 DEF Tables
  <1>4. \A u \in S : GoodTable(u)
    BY DEF LogOk
  <1>5. GoodTable(t)' /\ \A u \in S : GoodTable(u)'
    BY <1>4 DEF GoodTable, IsTable, NewIsPending
  <1> QED BY <1>2, <1>3, <1>4 DEF LogOk, Store, GoodTable, IsTable, NewIsPending

\* Commit and CommitLate.
LEMMA CommitGood ==
  ASSUME LogOk, NEW c, GoodCas(c), hist' = Committed(c)
  PROVE  LogOk' /\ Len(hist') \in {Len(hist), Len(hist) + 1}
  <1>1. GoodTable(Apply(Store, c))
    BY CurrentTable, ApplyGood
  <1>2. CASE hist' = hist
    BY <1>2 DEF LogOk, Tables, GoodTable, IsTable, NewIsPending
  <1>3. CASE hist' = Append(hist, Apply(Store, c))
    BY <1>1, <1>3, AppendGood
  <1> QED BY <1>2, <1>3 DEF Committed

\* tryLockPod makes a first capture of any good record, at any clock.
LEMMA LockGood ==
  ASSUME NEW r, GoodRec(r), NEW n \in Node, NEW t \in Nat
  PROVE  GoodCas(TryLockPod(r, n, t))
  <1>1. t + TTL \in Nat /\ r.ver + 1 \in Nat
    BY TTLAssumption DEF GoodRec, PodRec
  <1> QED BY <1>1 DEF GoodRec, NewIsPending, PodRec, TryLockPod, GoodCas, CasCmd,
                     FirstCapture, Status

\* The agent reports on pods that have been captured.
LEMMA ReportGood ==
  ASSUME NEW r, GoodRec(r), r.ver # 0
  PROVE  GoodCas(UpdatePod(r))
  BY DEF GoodRec, PodRec, UpdatePod, GoodCas, CasCmd, FirstCapture

-----------------------------------------------------------------------------
(* What the loops and the requests have in hand.                           *)

ListsOk(lists) ==
  /\ lists \in [Node -> [Loops -> SUBSET PodRec]]
  /\ \A n \in Node : \A l \in Loops : \A r \in lists[n][l] :
       NewIsPending(r) /\ (l # "sched" => Held(r))

ProbesOk(probes) ==
  /\ probes \in [Node -> SUBSET PodRec]
  /\ \A n \in Node : \A r \in probes[n] : NewIsPending(r) /\ Held(r)

SentOk(sent) ==
  /\ sent \in [Node -> [Loops -> SUBSET CasCmd]]
  /\ \A n \in Node : \A l \in Loops : \A c \in sent[n][l] : FirstCapture(c)

LateOk(cmds)   == \A c \in cmds : GoodCas(c)
WritesOk(cmds) == \A c \in cmds : GoodSet(c)

InHandOk == ListsOk(todo) /\ ProbesOk(probe) /\ SentOk(pending)
              /\ LateOk(late) /\ WritesOk(writes)

\* The rest of the type invariant.
RestOk ==
  /\ applied \in [Node -> 1..Len(hist)]
  /\ running \in [Node -> SUBSET Pod]
  /\ up \in [Node -> BOOLEAN]
  /\ now \in Nat /\ faults \in Nat /\ requests \in Nat

\* The invariant in the parts in which it is proved.
LEMMA Parts == AdminInv <=> LogOk /\ InHandOk /\ RestOk
  <1>1. (AdminTypeOK /\ \A t \in Tables : \A p \in DOMAIN t : NewIsPending(t[p]))
          <=> /\ LogOk /\ RestOk
              /\ todo \in [Node -> [Loops -> SUBSET PodRec]]
              /\ probe \in [Node -> SUBSET PodRec]
              /\ pending \in [Node -> [Loops -> SUBSET CasCmd]]
              /\ late \in SUBSET CasCmd
              /\ writes \in SUBSET SetCmd
    BY DEF AdminTypeOK, LogOk, RestOk, GoodTable
  <1>2. InHandOk <=>
          /\ todo \in [Node -> [Loops -> SUBSET PodRec]]
          /\ probe \in [Node -> SUBSET PodRec]
          /\ pending \in [Node -> [Loops -> SUBSET CasCmd]]
          /\ late \in SUBSET CasCmd
          /\ writes \in SUBSET SetCmd
          /\ \A n \in Node : \A l \in Loops : \A r \in todo[n][l] :
               NewIsPending(r) /\ (l # "sched" => Held(r))
          /\ \A n \in Node : \A r \in probe[n] : NewIsPending(r) /\ Held(r)
          /\ \A n \in Node : \A l \in Loops : \A c \in pending[n][l] : FirstCapture(c)
          /\ \A c \in late : FirstCapture(c)
          /\ \A c \in writes : NewIsPending(c.val)
    BY DEF InHandOk, ListsOk, ProbesOk, SentOk, LateOk, WritesOk, GoodCas, GoodSet
  <1> QED BY <1>1, <1>2 DEF AdminInv

\* A loop of n replaces its list by records that may be in it.
LEMMA ListChange ==
  ASSUME NEW lists, ListsOk(lists), NEW n \in Node, NEW l \in Loops, NEW S,
         \A r \in S : GoodRec(r) /\ (l # "sched" => Held(r))
  PROVE  ListsOk([lists EXCEPT ![n][l] = S])
  <1> DEFINE new == [lists EXCEPT ![n][l] = S]
  <1>1. lists \in [Node -> [Loops -> SUBSET PodRec]] /\ S \in SUBSET PodRec
    BY DEF ListsOk, GoodRec
  <1>2. new \in [Node -> [Loops -> SUBSET PodRec]]
    BY <1>1
  <1>3. ASSUME NEW m \in Node, NEW k \in Loops
        PROVE  new[m][k] = IF m = n /\ k = l THEN S ELSE lists[m][k]
    BY <1>1
  <1> HIDE DEF new
  <1>4. ListsOk(new)
    BY <1>1, <1>2, <1>3 DEF ListsOk, GoodRec
  <1> QED BY <1>4 DEF new

\* A loop of n replaces the command it waits for by one that may be in flight.
LEMMA SentChange ==
  ASSUME NEW sent, SentOk(sent), NEW n \in Node, NEW l \in Loops, NEW S,
         \A c \in S : GoodCas(c)
  PROVE  SentOk([sent EXCEPT ![n][l] = S])
  <1> DEFINE new == [sent EXCEPT ![n][l] = S]
  <1>1. sent \in [Node -> [Loops -> SUBSET CasCmd]] /\ S \in SUBSET CasCmd
    BY DEF SentOk, GoodCas
  <1>2. new \in [Node -> [Loops -> SUBSET CasCmd]]
    BY <1>1
  <1>3. ASSUME NEW m \in Node, NEW k \in Loops
        PROVE  new[m][k] = IF m = n /\ k = l THEN S ELSE sent[m][k]
    BY <1>1
  <1> HIDE DEF new
  <1>4. SentOk(new)
    BY <1>1, <1>2, <1>3 DEF SentOk, GoodCas
  <1> QED BY <1>4 DEF new

\* One command sent, or none any more.
LEMMA SentOne ==
  ASSUME NEW sent, SentOk(sent), NEW n \in Node, NEW l \in Loops
  PROVE  /\ SentOk([sent EXCEPT ![n][l] = {}])
         /\ \A c : GoodCas(c) => SentOk([sent EXCEPT ![n][l] = {c}])
  <1>1. SentOk([sent EXCEPT ![n][l] = {}])
    <2> DEFINE S == {}
    <2>1. \A c \in S : GoodCas(c)
      OBVIOUS
    <2> HIDE DEF S
    <2>2. SentOk([sent EXCEPT ![n][l] = S])
      BY <2>1, SentChange
    <2> QED BY <2>2 DEF S
  <1>2. ASSUME NEW c, GoodCas(c)
        PROVE  SentOk([sent EXCEPT ![n][l] = {c}])
    <2> DEFINE S == {c}
    <2>1. \A d \in S : GoodCas(d)
      BY <1>2
    <2> HIDE DEF S
    <2>2. SentOk([sent EXCEPT ![n][l] = S])
      BY <2>1, SentChange
    <2> QED BY <2>2 DEF S
  <1> QED BY <1>1, <1>2

\* A step that sends one command or none.
LEMMA SentOption ==
  ASSUME SentOk(pending), NEW n \in Node, NEW l \in Loops, NEW c, GoodCas(c),
         pending' = [pending EXCEPT ![n][l] = {c}] \/ pending' = pending
  PROVE  SentOk(pending')
  <1>1. CASE pending' = [pending EXCEPT ![n][l] = {c}]
    <2>1. SentOk([pending EXCEPT ![n][l] = {c}])
      BY SentOne
    <2> QED BY <1>1, <2>1
  <1>2. CASE pending' = pending
    BY <1>2
  <1> QED BY <1>1, <1>2

\* One record kept, none, or one less.
LEMMA ListOne ==
  ASSUME NEW lists, ListsOk(lists), NEW n \in Node, NEW l \in Loops
  PROVE  /\ ListsOk([lists EXCEPT ![n][l] = {}])
         /\ \A r : ListsOk([lists EXCEPT ![n][l] = @ \ {r}])
         /\ \A r : GoodRec(r) /\ (l # "sched" => Held(r))
                   => ListsOk([lists EXCEPT ![n][l] = {r}])
  <1>1. ListsOk([lists EXCEPT ![n][l] = {}])
    <2> DEFINE S == {}
    <2>1. \A r \in S : GoodRec(r) /\ (l # "sched" => Held(r))
      OBVIOUS
    <2> HIDE DEF S
    <2>2. ListsOk([lists EXCEPT ![n][l] = S])
      BY <2>1, ListChange
    <2> QED BY <2>2 DEF S
  <1>2. ASSUME NEW r
        PROVE  ListsOk([lists EXCEPT ![n][l] = @ \ {r}])
    <2> DEFINE S == lists[n][l] \ {r}
    <2>1. \A q \in S : GoodRec(q) /\ (l # "sched" => Held(q))
      BY DEF ListsOk, GoodRec
    <2>2. [lists EXCEPT ![n][l] = @ \ {r}] = [lists EXCEPT ![n][l] = S]
      BY DEF ListsOk
    <2> HIDE DEF S
    <2>3. ListsOk([lists EXCEPT ![n][l] = S])
      BY <2>1, ListChange
    <2> QED BY <2>2, <2>3
  <1>3. ASSUME NEW r, GoodRec(r), l # "sched" => Held(r)
        PROVE  ListsOk([lists EXCEPT ![n][l] = {r}])
    <2> DEFINE S == {r}
    <2>1. \A q \in S : GoodRec(q) /\ (l # "sched" => Held(q))
      BY <1>3
    <2> HIDE DEF S
    <2>2. ListsOk([lists EXCEPT ![n][l] = S])
      BY <2>1, ListChange
    <2> QED BY <2>2 DEF S
  <1> QED BY <1>1, <1>2, <1>3

-----------------------------------------------------------------------------
(* What the loops read.                                                    *)

\* FetchPods returns records of some earlier table.
LEMMA ReadGood ==
  ASSUME LogOk, RestOk, NEW n \in Node
  PROVE  /\ GoodTable(Replica(n))
         /\ \A p \in DOMAIN Replica(n) : GoodRec(Replica(n)[p])
         /\ \A r \in FetchOwn(n) : GoodRec(r) /\ Held(r)
         /\ Clock(n) \in Nat
  <1>1. GoodTable(Replica(n))
    BY CurrentTable DEF RestOk, Replica
  <1>2. \A p \in DOMAIN Replica(n) : GoodRec(Replica(n)[p])
    BY <1>1 DEF GoodTable, IsTable, GoodRec
  <1>3. Clock(n) \in Nat
    BY SkewAssumption DEF Clock, RestOk
  <1> QED BY <1>1, <1>2, <1>3 DEF FetchOwn

\* A record that is held has been captured, so its version is not 0.
LEMMA HeldCaptured ==
  ASSUME NEW r, GoodRec(r), Held(r)
  PROVE  r.ver # 0
  BY DEF GoodRec, NewIsPending, Held

\* The records that the loops have in hand.
LEMMA TodoGood ==
  ASSUME InHandOk, NEW n \in Node
  PROVE  /\ \A l \in Loops : \A r \in todo[n][l] : GoodRec(r) /\ (l # "sched" => Held(r))
         /\ \A r \in probe[n] : GoodRec(r) /\ Held(r)
         /\ \A l \in Loops : \A c \in pending[n][l] : GoodCas(c)
         /\ {"sched", "renew", "agent"} = Loops
  BY DEF InHandOk, ListsOk, ProbesOk, SentOk, GoodRec, GoodCas, Loops

\* The agent reports a record that it has changed in its status, its address
\* or its readiness.
LEMMA ReportOk ==
  ASSUME NEW r, GoodRec(r), Held(r), NEW n \in Node, NEW b \in BOOLEAN
  PROVE  /\ GoodCas(UpdatePod([r EXCEPT !.status = "Running", !.addr = n]))
         /\ GoodCas(UpdatePod([r EXCEPT !.status = "Running"]))
         /\ GoodCas(UpdatePod([r EXCEPT !.status = "Running", !.ready = b]))
  <1>1. r.ver # 0 /\ "Running" \in Status /\ r \in PodRec
    BY HeldCaptured DEF Status, GoodRec
  <1> DEFINE r1 == [r EXCEPT !.status = "Running", !.addr = n]
             r2 == [r EXCEPT !.status = "Running"]
             r3 == [r EXCEPT !.status = "Running", !.ready = b]
  <1>2. GoodRec(r1) /\ r1.ver # 0
    BY <1>1 DEF GoodRec, NewIsPending, PodRec
  <1>3. GoodRec(r2) /\ r2.ver # 0
    BY <1>1 DEF GoodRec, NewIsPending, PodRec
  <1>4. GoodRec(r3) /\ r3.ver # 0
    BY <1>1 DEF GoodRec, NewIsPending, PodRec
  <1> QED BY <1>2, <1>3, <1>4, ReportGood

-----------------------------------------------------------------------------
(* The steps of the loops.                                                 *)

\* The steps of Scheduler.reconcile and Scheduler.renewLeases.
LEMMA SchedulerStep ==
  ASSUME LogOk, InHandOk, RestOk, writes' = writes, NEW n \in Node,
         SchedPick(n) \/ SchedPost(n) \/ RenewFetch(n) \/ RenewNext(n)
  PROVE  InHandOk' /\ UNCHANGED <<hist, applied, running, up, now>> /\ faults' \in Nat
  <1>1. ListsOk(todo) /\ SentOk(pending) /\ faults \in Nat
    BY DEF InHandOk, RestOk
  <1>2. "sched" \in Loops /\ "renew" \in Loops
    BY DEF Loops
  <1>3. CASE SchedPick(n)
    <2>1. PICK p \in DOMAIN Replica(n) :
            todo' = [todo EXCEPT ![n]["sched"] = {Replica(n)[p]}]
      BY <1>3 DEF SchedPick
    <2>2. ListsOk(todo')
      BY <1>1, <1>2, <2>1, ReadGood, ListOne
    <2> QED BY <1>1, <1>3, <2>2 DEF SchedPick, InHandOk
  <1>4. CASE SchedPost(n)
    <2>1. PICK r \in todo[n]["sched"] :
            pending' = [pending EXCEPT ![n]["sched"] = {TryLockPod(r, n, Clock(n))}]
      BY <1>4 DEF SchedPost
    <2>2. GoodCas(TryLockPod(r, n, Clock(n)))
      BY <1>2, TodoGood, ReadGood, LockGood
    <2>3. SentOk(pending')
      BY <1>1, <1>2, <2>1, <2>2, SentOne
    <2>4. todo' = [todo EXCEPT ![n]["sched"] = {}]
      BY <1>4 DEF SchedPost
    <2>5. ListsOk(todo')
      BY <1>1, <1>2, <2>4, ListOne
    <2> QED BY <1>1, <1>4, <2>3, <2>5 DEF SchedPost, InHandOk
  <1>5. CASE RenewFetch(n)
    <2>1. todo' = [todo EXCEPT ![n]["renew"] = FetchOwn(n)]
      BY <1>5 DEF RenewFetch
    <2>2. ListsOk(todo')
      BY <1>1, <1>2, <2>1, ReadGood, ListChange
    <2> QED BY <1>1, <1>5, <2>2 DEF RenewFetch, InHandOk
  <1>6. CASE RenewNext(n)
    <2>1. PICK r \in NextOf(n, "renew") :
            /\ todo' = [todo EXCEPT ![n]["renew"] = @ \ {r}]
            /\ \/ pending' = [pending EXCEPT ![n]["renew"] = {TryLockPod(r, n, Clock(n))}]
               \/ pending' = pending
            /\ faults' = faults \/ faults' = faults + 1
      BY <1>6 DEF RenewNext, Fault
    <2>2. GoodCas(TryLockPod(r, n, Clock(n)))
      BY <1>2, <2>1, TodoGood, ReadGood, LockGood DEF NextOf
    <2>3. SentOk(pending')
      <3> DEFINE c == TryLockPod(r, n, Clock(n))
      <3>1. pending' = [pending EXCEPT ![n]["renew"] = {c}] \/ pending' = pending
        BY <2>1
      <3>2. GoodCas(c)
        BY <2>2
      <3> HIDE DEF c
      <3> QED BY <1>1, <1>2, <3>1, <3>2, SentOption
    <2>4. ListsOk(todo')
      BY <1>1, <1>2, <2>1, ListOne
    <2> QED BY <1>1, <1>6, <2>1, <2>3, <2>4 DEF RenewNext, InHandOk
  <1> QED BY <1>3, <1>4, <1>5, <1>6

\* The steps of Agent.reconcile.
LEMMA AgentStep ==
  ASSUME LogOk, InHandOk, RestOk, writes' = writes, NEW n \in Node,
         \/ AgentFetch(n) \/ AgentStart(n) \/ AgentSkip(n)
         \/ AgentSeen(n) \/ AgentKill(n) \/ AgentProbe(n)
  PROVE  InHandOk' /\ UNCHANGED <<hist, applied, up, now>> /\ faults' \in Nat
           /\ running' \in [Node -> SUBSET Pod]
  <1>1. /\ ListsOk(todo) /\ SentOk(pending) /\ ProbesOk(probe)
        /\ faults \in Nat /\ running \in [Node -> SUBSET Pod]
        /\ "agent" \in Loops
    BY DEF InHandOk, RestOk, Loops
  <1>2. \A r \in NextOf(n, "agent") : GoodRec(r) /\ Held(r) /\ r.id \in Pod
    BY <1>1, TodoGood DEF NextOf, GoodRec, PodRec
  <1>3. ProbesOk([probe EXCEPT ![n] = {}])
    BY <1>1 DEF ProbesOk
  <1>4. CASE AgentFetch(n)
    <2>1. todo' = [todo EXCEPT ![n]["agent"] = FetchOwn(n)]
      BY <1>4 DEF AgentFetch
    <2>2. ListsOk(todo')
      BY <1>1, <2>1, ReadGood, ListChange
    <2> QED BY <1>1, <1>4, <2>2 DEF AgentFetch, InHandOk
  <1>5. CASE AgentStart(n)
    <2>1. PICK r \in NextOf(n, "agent") :
            /\ running' = [running EXCEPT ![n] = @ \cup {r.id}]
            /\ todo' = [todo EXCEPT ![n]["agent"] = @ \ {r}]
            /\ \/ pending' = [pending EXCEPT ![n]["agent"] =
                     {UpdatePod([r EXCEPT !.status = "Running", !.addr = n])}]
               \/ pending' = pending
      BY <1>5 DEF AgentStart
    <2>2. SentOk(pending')
      <3> DEFINE c == UpdatePod([r EXCEPT !.status = "Running", !.addr = n])
      <3>1. pending' = [pending EXCEPT ![n]["agent"] = {c}] \/ pending' = pending
        BY <2>1
      <3>2. GoodCas(c)
        BY <1>2, ReportOk
      <3> HIDE DEF c
      <3> QED BY <1>1, <3>1, <3>2, SentOption
    <2>3. ListsOk(todo')
      BY <1>1, <2>1, ListOne
    <2>4. running' \in [Node -> SUBSET Pod]
      BY <1>1, <1>2, <2>1
    <2> QED BY <1>1, <1>5, <2>2, <2>3, <2>4 DEF AgentStart, InHandOk
  <1>6. CASE AgentSkip(n)
    <2>1. PICK r \in NextOf(n, "agent") : todo' = [todo EXCEPT ![n]["agent"] = @ \ {r}]
      BY <1>6 DEF AgentSkip
    <2>2. ListsOk(todo')
      BY <1>1, <2>1, ListOne
    <2> QED BY <1>1, <1>6, <2>2 DEF AgentSkip, Fault, InHandOk
  <1>7. CASE AgentSeen(n)
    <2>1. PICK r \in NextOf(n, "agent") :
            /\ todo' = [todo EXCEPT ![n]["agent"] = @ \ {r}]
            /\ probe' = [probe EXCEPT ![n] = {r}]
            /\ \/ pending' = [pending EXCEPT ![n]["agent"] =
                     {UpdatePod([r EXCEPT !.status = "Running"])}]
               \/ pending' = pending
      BY <1>7 DEF AgentSeen
    <2>2. SentOk(pending')
      <3> DEFINE c == UpdatePod([r EXCEPT !.status = "Running"])
      <3>1. pending' = [pending EXCEPT ![n]["agent"] = {c}] \/ pending' = pending
        BY <2>1
      <3>2. GoodCas(c)
        BY <1>2, ReportOk
      <3> HIDE DEF c
      <3> QED BY <1>1, <3>1, <3>2, SentOption
    <2>3. ListsOk(todo')
      BY <1>1, <2>1, ListOne
    <2>4. ProbesOk(probe')
      BY <1>1, <1>2, <2>1 DEF ProbesOk, GoodRec
    <2> QED BY <1>1, <1>7, <2>2, <2>3, <2>4 DEF AgentSeen, InHandOk
  <1>8. CASE AgentKill(n)
    <2>1. PICK r \in probe[n] : running' = [running EXCEPT ![n] = @ \ {r.id}]
      BY <1>8 DEF AgentKill
    <2>2. running' \in [Node -> SUBSET Pod]
      BY <1>1, <2>1
    <2> QED BY <1>1, <1>3, <1>8, <2>2 DEF AgentKill, InHandOk
  <1>9. CASE AgentProbe(n)
    <2>1. PICK r \in probe[n], b \in BOOLEAN :
            \/ pending' = [pending EXCEPT ![n]["agent"] =
                   {UpdatePod([r EXCEPT !.status = "Running", !.ready = b])}]
            \/ pending' = pending
      BY <1>9 DEF AgentProbe, Answers
    <2>2. GoodRec(r) /\ Held(r)
      BY TodoGood
    <2>3. SentOk(pending')
      <3> DEFINE c == UpdatePod([r EXCEPT !.status = "Running", !.ready = b])
      <3>1. pending' = [pending EXCEPT ![n]["agent"] = {c}] \/ pending' = pending
        BY <2>1
      <3>2. GoodCas(c)
        BY <2>2, ReportOk
      <3> HIDE DEF c
      <3> QED BY <1>1, <3>1, <3>2, SentOption
    <2> QED BY <1>1, <1>3, <1>9, <2>3 DEF AgentProbe, InHandOk
  <1> QED BY <1>4, <1>5, <1>6, <1>7, <1>8, <1>9

-----------------------------------------------------------------------------
(* The log, the environment and the requests.                              *)

\* A step that leaves the log alone.
LEMMA QuietStep ==
  ASSUME LogOk, hist' = hist
  PROVE  LogOk'
  BY DEF LogOk, Tables, GoodTable, IsTable, NewIsPending

\* HandleApply: an answered command, a failed one, and one that commits late.
LEMMA CommitStep ==
  ASSUME LogOk, InHandOk, RestOk, UNCHANGED <<writes, requests>>,
         \/ \E n \in Node, l \in Loops : Commit(n, l) \/ Fail(n, l)
         \/ CommitLate
  PROVE  LogOk' /\ InHandOk' /\ RestOk'
  <1>1. ASSUME NEW n \in Node, NEW l \in Loops, Commit(n, l)
        PROVE  LogOk' /\ InHandOk' /\ RestOk'
    <2>1. PICK c \in pending[n][l] : hist' = Committed(c)
      BY <1>1 DEF Commit
    <2>2. GoodCas(c)
      BY TodoGood
    <2>3. LogOk' /\ Len(hist') \in {Len(hist), Len(hist) + 1}
      BY <2>1, <2>2, CommitGood
    <2>4. SentOk(pending')
      BY <1>1, SentOne DEF Commit, InHandOk
    <2>5. Len(hist) \in Nat
      BY CurrentTable
    <2> QED BY <1>1, <2>3, <2>4, <2>5 DEF Commit, InHandOk, RestOk
  <1>2. ASSUME NEW n \in Node, NEW l \in Loops, Fail(n, l)
        PROVE  LogOk' /\ InHandOk' /\ RestOk'
    <2>1. \A c \in pending[n][l] : GoodCas(c)
      BY TodoGood
    <2>2. LateOk(late')
      BY <1>2, <2>1 DEF Fail, LateOk, InHandOk
    <2>3. SentOk(pending')
      BY <1>2, SentOne DEF Fail, InHandOk
    <2>4. LogOk'
      BY <1>2, QuietStep DEF Fail
    <2> QED BY <1>2, <2>2, <2>3, <2>4 DEF Fail, Fault, InHandOk, RestOk
  <1>3. CASE CommitLate
    <2>1. PICK c \in late : hist' = Committed(c) /\ late' = late \ {c}
      BY <1>3 DEF CommitLate
    <2>2. GoodCas(c)
      BY DEF InHandOk, LateOk
    <2>3. LogOk' /\ Len(hist') \in {Len(hist), Len(hist) + 1}
      BY <2>1, <2>2, CommitGood
    <2>4. Len(hist) \in Nat
      BY CurrentTable
    <2> QED BY <1>3, <2>1, <2>3, <2>4 DEF CommitLate, InHandOk, LateOk, RestOk
  <1> QED BY <1>1, <1>2, <1>3

\* Replication, crashes, restarts, containers that die, and time.
LEMMA EnvironmentStep ==
  ASSUME LogOk, InHandOk, RestOk, UNCHANGED <<writes, requests>>,
         \/ \E n \in Node : Replicate(n) \/ Crash(n) \/ Restart(n)
         \/ \E n \in Node, p \in Pod : ContainerDies(n, p)
         \/ Tick \/ Terminating
  PROVE  LogOk' /\ InHandOk' /\ RestOk'
  <1>1. hist' = hist /\ LogOk'
    BY QuietStep DEF Replicate, Crash, Restart, ContainerDies, Tick, Terminating, vars
  <1>2. Len(hist) \in Nat
    BY CurrentTable
  <1>3. ASSUME NEW n \in Node, Replicate(n)
        PROVE  InHandOk' /\ RestOk'
    BY <1>2, <1>3 DEF Replicate, InHandOk, RestOk
  <1>4. ASSUME NEW n \in Node, Crash(n)
        PROVE  InHandOk' /\ RestOk'
    <2> DEFINE none == [l \in Loops |-> {}]
    <2>1. /\ todo' = [todo EXCEPT ![n] = none]
          /\ pending' = [pending EXCEPT ![n] = none]
          /\ probe' = [probe EXCEPT ![n] = {}]
      BY <1>4 DEF Crash
    <2>2. ListsOk(todo')
      BY <2>1 DEF InHandOk, ListsOk
    <2>3. SentOk(pending')
      BY <2>1 DEF InHandOk, SentOk
    <2>4. ProbesOk(probe')
      BY <2>1 DEF InHandOk, ProbesOk
    <2>5. \A l \in Loops : \A c \in pending[n][l] : GoodCas(c)
      BY TodoGood
    <2>6. \A c \in UNION { pending[n][l] : l \in Loops } : GoodCas(c)
      BY <2>5
    <2>7. LateOk(late')
      BY <1>4, <2>6 DEF Crash, InHandOk, LateOk
    <2>8. InHandOk'
      BY <2>2, <2>3, <2>4, <2>7 DEF InHandOk
    <2>9. /\ running' \in [Node -> SUBSET Pod] /\ up' \in [Node -> BOOLEAN]
          /\ faults' = faults + 1 /\ UNCHANGED <<hist, applied, now>>
      BY <1>4 DEF Crash, Fault, RestOk
    <2> QED BY <2>8, <2>9 DEF RestOk
  <1>5. ASSUME NEW n \in Node, Restart(n)
        PROVE  InHandOk' /\ RestOk'
    <2>1. applied' \in [Node -> 1..Len(hist)]
      BY <1>2, <1>5 DEF Restart, RestOk
    <2> QED BY <1>1, <1>5, <2>1 DEF Restart, InHandOk, RestOk
  <1>6. ASSUME NEW n \in Node, NEW p \in Pod, ContainerDies(n, p)
        PROVE  InHandOk' /\ RestOk'
    BY <1>6 DEF ContainerDies, Fault, InHandOk, RestOk
  <1>7. CASE Tick \/ Terminating
    <2>1. /\ now' \in {now, now + 1}
          /\ UNCHANGED <<hist, applied, todo, probe, pending, late, running, up, faults>>
      BY <1>7 DEF Tick, Terminating, vars
    <2>2. InHandOk'
      BY <2>1 DEF InHandOk
    <2>3. now' \in Nat
      BY <2>1 DEF RestOk
    <2> QED BY <1>1, <2>1, <2>2, <2>3 DEF RestOk
  <1> QED BY <1>1, <1>3, <1>4, <1>5, <1>6, <1>7

\* HandleRestartPod and HandleCompose make a proper record of a proper one.
LEMMA RequestGood ==
  /\ \A p \in Pod : GoodRec(FreshPod(p))
  /\ \A r : GoodRec(r) => GoodRec(Redeployed(r)) /\ GoodRec(Released(r))
  <1>1. ASSUME NEW p \in Pod
        PROVE  GoodRec(FreshPod(p))
    BY DEF FreshPod, GoodRec, PodRec, Status, NewIsPending
  <1>2. ASSUME NEW r, GoodRec(r)
        PROVE  GoodRec(Redeployed(r))
    BY <1>2 DEF Redeployed, FreshPod, GoodRec, PodRec, NewIsPending
  <1>3. ASSUME NEW r, GoodRec(r)
        PROVE  GoodRec(Released(r))
    <2>1. r \in PodRec /\ r.ver + 1 \in Nat /\ "Pending" \in Status
      BY <1>3 DEF GoodRec, PodRec, Status
    <2>2. Released(r) = [r EXCEPT !.status = "Pending", !.node = NoNode,
                                  !.ver = r.ver + 1]
      BY DEF Released
    <2>3. Released(r) \in PodRec /\ Released(r).status = "Pending"
      BY <2>1, <2>2 DEF PodRec
    <2> QED BY <2>3 DEF GoodRec, NewIsPending
  <1> QED BY <1>1, <1>2, <1>3

\* A request that reads, one that writes or fails to, and a deletion.
LEMMA RequestStep ==
  ASSUME LogOk, InHandOk, RestOk,
         \/ \E p \in Pod : RestartRead(p) \/ ComposeRead(p) \/ Upload(p) \/ Delete(p)
         \/ \E c \in writes : Write(c) \/ WriteFails(c)
  PROVE  LogOk' /\ InHandOk' /\ RestOk'
  <1>1. GoodTable(Store) /\ Len(hist) \in Nat
    BY CurrentTable
  <1>2. \A p \in DOMAIN Store : GoodRec(Store[p])
    BY <1>1 DEF GoodTable, IsTable, GoodRec
  <1>3. ASSUME NEW p \in Pod, RestartRead(p) \/ ComposeRead(p) \/ Upload(p)
        PROVE  LogOk' /\ InHandOk' /\ RestOk'
    <2>1. PICK r : GoodRec(r) /\ writes' = writes \cup {[op |-> "set", val |-> r]}
      BY <1>2, <1>3, RequestGood DEF RestartRead, ComposeRead, Upload
    <2>2. GoodSet([op |-> "set", val |-> r])
      BY <2>1 DEF GoodSet, SetCmd, GoodRec
    <2>3. WritesOk(writes')
      BY <2>1, <2>2 DEF InHandOk, WritesOk
    <2>4. UNCHANGED vars /\ requests' = requests + 1
      BY <1>3 DEF RestartRead, ComposeRead, Upload, Request
    <2>5. LogOk'
      BY <2>4, QuietStep DEF vars
    <2> QED BY <2>3, <2>4, <2>5 DEF vars, InHandOk, RestOk
  <1>4. ASSUME NEW p \in Pod, Delete(p)
        PROVE  LogOk' /\ InHandOk' /\ RestOk'
    <2> DEFINE c == [op |-> "del", id |-> p]
    <2>1. c \in DelCmd /\ hist' = Append(hist, Apply(Store, c))
      BY <1>4 DEF Delete, DelCmd
    <2>2. GoodTable(Apply(Store, c))
      BY <1>1, <2>1, ApplyGood
    <2>3. LogOk' /\ Len(hist') = Len(hist) + 1
      BY <2>1, <2>2, AppendGood
    <2> QED BY <1>1, <1>4, <2>3 DEF Delete, Request, InHandOk, RestOk
  <1>5. ASSUME NEW c \in writes, Write(c)
        PROVE  LogOk' /\ InHandOk' /\ RestOk'
    <2>1. GoodSet(c) /\ hist' = Append(hist, Apply(Store, c))
      BY <1>5 DEF Write, InHandOk, WritesOk
    <2>2. GoodTable(Apply(Store, c))
      BY <1>1, <2>1, ApplyGood
    <2>3. LogOk' /\ Len(hist') = Len(hist) + 1
      BY <2>1, <2>2, AppendGood
    <2> QED BY <1>1, <1>5, <2>3 DEF Write, InHandOk, WritesOk, RestOk
  <1>6. ASSUME NEW c \in writes, WriteFails(c)
        PROVE  LogOk' /\ InHandOk' /\ RestOk'
    <2>1. LogOk'
      BY <1>6, QuietStep DEF WriteFails
    <2> QED BY <1>6, <2>1 DEF WriteFails, Fault, InHandOk, WritesOk, RestOk
  <1> QED BY <1>3, <1>4, <1>5, <1>6

-----------------------------------------------------------------------------
(* The invariant.                                                          *)

\* The pods as ParseComposeFile creates them, and nothing under way.
LEMMA InitiallyOk == AdminInit => AdminInv
  <1> SUFFICES ASSUME AdminInit PROVE AdminInv
    OBVIOUS
  <1> DEFINE t == [p \in Pod |-> FreshPod(p)]
  <1>1. hist = <<t>> /\ Len(hist) = 1
    BY DEF AdminInit, Init
  <1>2. GoodTable(t)
    <2>1. \A p \in Pod : t[p] \in PodRec /\ NewIsPending(t[p])
      BY RequestGood DEF GoodRec
    <2> QED BY <2>1 DEF GoodTable, IsTable
  <1>3. Tables = {t}
    <2>1. 1..Len(hist) = {1} /\ hist[1] = t
      BY <1>1
    <2> QED BY <2>1 DEF Tables
  <1>4. LogOk
    BY <1>1, <1>2, <1>3 DEF LogOk
  <1>5. InHandOk
    BY DEF AdminInit, Init, InHandOk, ListsOk, ProbesOk, SentOk, LateOk, WritesOk
  <1>6. RestOk
    BY <1>1 DEF AdminInit, Init, RestOk
  <1> QED BY <1>4, <1>5, <1>6, Parts

\* Every step of the loops, of the environment and of a request keeps it.
LEMMA StepOk == AdminInv /\ [AdminNext]_adminVars => AdminInv'
  <1> SUFFICES ASSUME AdminInv, [AdminNext]_adminVars PROVE (LogOk /\ InHandOk /\ RestOk)'
    BY Parts, PTL
  <1>1. LogOk /\ InHandOk /\ RestOk
    BY Parts
  <1>2. ASSUME NEW n \in Node, UNCHANGED <<writes, requests>>,
               \/ SchedPick(n) \/ SchedPost(n) \/ RenewFetch(n) \/ RenewNext(n)
        PROVE  (LogOk /\ InHandOk /\ RestOk)'
    <2>1. /\ InHandOk' /\ UNCHANGED <<hist, applied, running, up, now>>
          /\ faults' \in Nat
      BY <1>1, <1>2, SchedulerStep
    <2> QED BY <1>1, <1>2, <2>1, QuietStep DEF RestOk
  <1>3. ASSUME NEW n \in Node, UNCHANGED <<writes, requests>>,
               \/ AgentFetch(n) \/ AgentStart(n) \/ AgentSkip(n)
               \/ AgentSeen(n) \/ AgentKill(n) \/ AgentProbe(n)
        PROVE  (LogOk /\ InHandOk /\ RestOk)'
    <2>1. /\ InHandOk' /\ UNCHANGED <<hist, applied, up, now>>
          /\ faults' \in Nat /\ running' \in [Node -> SUBSET Pod]
      BY <1>1, <1>3, AgentStep
    <2> QED BY <1>1, <1>3, <2>1, QuietStep DEF RestOk
  <1>4. CASE Next /\ UNCHANGED <<writes, requests>>
    BY <1>1, <1>2, <1>3, <1>4, CommitStep, EnvironmentStep DEF Next, NodeStep
  <1>5. CASE \/ \E p \in Pod : RestartRead(p) \/ ComposeRead(p) \/ Upload(p) \/ Delete(p)
             \/ \E c \in writes : Write(c) \/ WriteFails(c)
    BY <1>1, <1>5, RequestStep
  <1>6. CASE UNCHANGED adminVars
    <2>1. LogOk'
      BY <1>1, <1>6, QuietStep DEF adminVars
    <2> QED BY <1>1, <1>6, <2>1 DEF adminVars, InHandOk, RestOk
  <1> QED BY <1>4, <1>5, <1>6 DEF AdminNext

\* With requests that write whatever the version, every record of version 0
\* that is in a table, in a loop's hands or on its way into a table waits for
\* its first owner (tryLockPod, UpdatePod, HandleCompose, HandleRestartPod).
THEOREM AdminInvariance == AdminSpec => []AdminInv
  BY InitiallyOk, StepOk, PTL DEF AdminSpec

\* The variables keep their types, though pods come and go.
THEOREM AdminTypeCorrect == AdminSpec => []AdminTypeOK
  <1>1. AdminInv => AdminTypeOK
    BY DEF AdminInv
  <1> QED BY <1>1, AdminInvariance, PTL

-----------------------------------------------------------------------------
(* A deleted pod.                                                          *)

\* FSM.Apply with a compare-and-swap for a pod that is not there.
LEMMA RevivedByFirstCapture ==
  ASSUME LogOk, NEW c, GoodCas(c), hist' = Committed(c),
         NEW p \in Pod, p \notin DOMAIN Store, p \in DOMAIN Store'
  PROVE  Store'[p].ver = 1 /\ Store'[p].status = "Scheduled"
  <1> DEFINE t == Apply(Store, c)
  <1>1. c.op = "cas" /\ c.exp \in Nat
    BY DEF GoodCas, CasCmd
  <1>2. hist' = Append(hist, t)
    BY DEF Committed, Store
  <1>3. Store' = t
    <2>1. GoodTable(t)
      BY CurrentTable, ApplyGood
    <2> HIDE DEF t
    <2> QED BY <1>2, <2>1, AppendGood
  <1>4. CasPasses(Store, c) /\ t = Put(Store, c.val)
    BY <1>1, <1>3 DEF Apply
  <1>5. p = c.val.id /\ t[p] = c.val
    BY <1>3, <1>4 DEF Put
  <1>6. c.exp = 0
    BY <1>4, <1>5 DEF CasPasses, CurrentVersion
  <1> QED BY <1>3, <1>5, <1>6 DEF GoodCas, FirstCapture

\* Whatever the loops had read and sent when a user deleted a pod, of their
\* commands only a first capture brings it back (FSM.Apply on a missing key,
\* which compares as version 0).
THEOREM OnlyFirstCapture == AdminSpec => OnlyFirstCaptureRevives
  <1> DEFINE Revives ==
        \A p \in Pod :
          UNCHANGED writes /\ p \notin DOMAIN Store /\ p \in DOMAIN Store'
            => Store'[p].ver = 1 /\ Store'[p].status = "Scheduled"
  <1>1. ASSUME AdminInv, AdminNext, NEW p \in Pod,
               UNCHANGED writes, p \notin DOMAIN Store, p \in DOMAIN Store'
        PROVE  Store'[p].ver = 1 /\ Store'[p].status = "Scheduled"
    <2>1. LogOk /\ InHandOk /\ RestOk
      BY <1>1, Parts
    <2>2. hist' # hist
      BY <1>1 DEF Store
    <2>3. CASE \E n \in Node, l \in Loops : Commit(n, l)
      <3>1. PICK n \in Node, l \in Loops : \E c \in pending[n][l] : hist' = Committed(c)
        BY <2>3 DEF Commit
      <3>2. PICK c \in pending[n][l] : hist' = Committed(c)
        BY <3>1
      <3>3. GoodCas(c)
        BY <2>1, TodoGood
      <3> QED BY <1>1, <2>1, <3>2, <3>3, RevivedByFirstCapture
    <2>4. CASE CommitLate
      <3>1. PICK c \in late : hist' = Committed(c)
        BY <2>4 DEF CommitLate
      <3>2. GoodCas(c)
        BY <2>1 DEF InHandOk, LateOk
      <3> QED BY <1>1, <2>1, <3>1, <3>2, RevivedByFirstCapture
    <2>5. CASE \E q \in Pod : Delete(q)
      <3>1. PICK q \in Pod : hist' = Append(hist, Apply(Store, [op |-> "del", id |-> q]))
        BY <2>5 DEF Delete
      <3> DEFINE c == [op |-> "del", id |-> q]
                 t == Apply(Store, c)
      <3>2. c \in DelCmd /\ t = [k \in DOMAIN Store \ {q} |-> Store[k]]
        BY DEF DelCmd, Apply
      <3>3. GoodTable(t)
        BY <2>1, <3>2, CurrentTable, ApplyGood
      <3>4. DOMAIN t \subseteq DOMAIN Store
        BY <3>2
      <3> HIDE DEF t
      <3>5. Store' = t
        BY <2>1, <3>1, <3>3, AppendGood DEF t
      <3> QED BY <1>1, <3>4, <3>5
    <2>6. ASSUME NEW c \in writes, Write(c)
          PROVE  FALSE
      BY <1>1, <2>6 DEF Write
    <2> QED BY <1>1, <2>2, <2>3, <2>4, <2>5, <2>6
            DEF AdminNext, Next, NodeStep, SchedPick, SchedPost, RenewFetch, RenewNext,
                AgentFetch, AgentStart, AgentSkip, AgentSeen, AgentKill, AgentProbe,
                Replicate, Crash, Restart, Fail, ContainerDies, Tick, Terminating, vars,
                RestartRead, ComposeRead, Upload, WriteFails
  <1>2. AdminInv /\ [AdminNext]_adminVars => [Revives]_adminVars
    BY <1>1
  <1> QED BY <1>2, AdminInvariance, PTL DEF AdminSpec, OnlyFirstCaptureRevives
=============================================================================
