-------------------------- MODULE PodLeases_proofs --------------------------
(***************************************************************************)
(* Proofs about PodLeases: the inductive invariant IInv and the safety     *)
(* properties that follow from it, for any number of nodes and pods, any   *)
(* clock skew within MaxSkew and any number of failures.                   *)
(***************************************************************************)
EXTENDS PodLeases, TLAPS

-----------------------------------------------------------------------------
(* The store and the commands.                                             *)

\* The current store is a table of records.
LEMMA StoreType ==
  ASSUME TypeOK
  PROVE  /\ Len(hist) \in Nat /\ Len(hist) >= 1
         /\ Store \in [Pod -> PodRec]
         /\ \A i \in 1..Len(hist) : hist[i] \in [Pod -> PodRec]
         /\ \A n \in Node : applied[n] \in 1..Len(hist)
  BY DEF TypeOK, Store

\* A compare-and-swap leaves the history alone, or appends one table to it that
\* differs from the last in one record.
LEMMA CommitStore ==
  ASSUME TypeOK, NEW c \in CasCmd, hist' = Committed(c)
  PROVE  \/ hist' = hist
         \/ /\ Len(hist') = Len(hist) + 1
            /\ \A i \in 1..Len(hist) : hist'[i] = hist[i]
            /\ c.exp = Store[c.val.id].ver
            /\ Store' = [Store EXCEPT ![c.val.id] = c.val]
            /\ hist'[Len(hist) + 1] = Store'
            /\ hist' \in Seq([Pod -> PodRec]) /\ hist' # <<>>
  <1> DEFINE s == Store
             t == Apply(Store, c)
  <1>1. /\ Len(hist) \in Nat /\ Len(hist) >= 1
        /\ s \in [Pod -> PodRec]
    BY StoreType
  <1>2. c.val \in PodRec /\ c.val.id \in Pod /\ c.op = "cas"
    BY DEF CasCmd, PodRec
  <1>3. CASE t = s
    BY <1>3 DEF Committed
  <1>4. CASE t # s
    <2>1. c.exp = s[c.val.id].ver /\ t = Put(s, c.val)
      BY <1>1, <1>2, <1>4 DEF Apply, CasPasses, CurrentVersion
    <2>2. t = [s EXCEPT ![c.val.id] = c.val]
      BY <1>1, <1>2, <2>1 DEF Put
    <2>3. t \in [Pod -> PodRec]
      BY <1>1, <1>2, <2>2
    <2>4. hist' = Append(hist, t)
      BY <1>4 DEF Committed
    <2>5. hist \in Seq([Pod -> PodRec])
      BY DEF TypeOK
    <2>6. /\ Len(hist') = Len(hist) + 1
          /\ \A i \in 1..Len(hist) : hist'[i] = hist[i]
          /\ hist'[Len(hist) + 1] = t
          /\ hist' \in Seq([Pod -> PodRec]) /\ hist' # <<>>
      BY <2>3, <2>4, <2>5
    <2>7. Store' = t
      BY <2>6 DEF Store
    <2> QED BY <2>1, <2>2, <2>6, <2>7
  <1> QED BY <1>3, <1>4

\* A record that was current or old stays so: only a record of version one
\* higher takes the place of the current one.
LEMMA CurrentKept ==
  ASSUME TypeOK, NEW c \in CasCmd, hist' = Committed(c), c.val.ver = c.exp + 1,
         NEW r \in PodRec, Current(r)
  PROVE  Current(r)'
  <1>1. Store \in [Pod -> PodRec] /\ r.id \in Pod /\ r.ver \in Nat
    BY StoreType DEF PodRec
  <1>2. c.val \in PodRec /\ c.val.id \in Pod /\ c.exp \in Nat
    BY DEF CasCmd, PodRec
  <1>3. CASE hist' = hist
    BY <1>3 DEF Current, Store
  <1>4. CASE c.exp = Store[c.val.id].ver /\ Store' = [Store EXCEPT ![c.val.id] = c.val]
    <2>1. CASE r.id = c.val.id
      BY <1>1, <1>2, <1>4, <2>1 DEF Current
    <2>2. CASE r.id # c.val.id
      BY <1>1, <1>2, <1>4, <2>2 DEF Current
    <2> QED BY <2>1, <2>2
  <1> QED BY <1>3, <1>4, CommitStore

\* So does what a command in flight may do to the record it was made from.
LEMMA CommandKept ==
  ASSUME TypeOK, now' = now, NEW c \in CasCmd, hist' = Committed(c), CommandOk(c),
         NEW d \in CasCmd, CommandOk(d)
  PROVE  CommandOk(d)'
  <1>1. /\ Store \in [Pod -> PodRec]
        /\ d.val \in PodRec /\ d.val.id \in Pod /\ d.exp \in Nat
        /\ c.val \in PodRec /\ c.val.id \in Pod /\ c.exp \in Nat
    BY StoreType DEF CasCmd, PodRec
  <1>2. Sound(d.val)' /\ Held(d.val)' /\ d.val.ver = d.exp + 1
    BY DEF CommandOk, Sound, Held, Clock
  <1>3. CASE hist' = hist
    BY <1>3 DEF CommandOk, Store, Sound, Held, Clock
  <1>4. CASE c.exp = Store[c.val.id].ver /\ Store' = [Store EXCEPT ![c.val.id] = c.val]
    <2>1. CASE d.val.id = c.val.id
      <3>1. Store'[d.val.id] = c.val /\ c.val.ver = c.exp + 1
        BY <1>1, <1>4, <2>1 DEF CommandOk
      <3>2. d.exp <= c.exp
        BY <1>4, <2>1 DEF CommandOk
      <3>3. d.exp <= Store'[d.val.id].ver /\ d.exp # Store'[d.val.id].ver
        BY <1>1, <3>1, <3>2
      <3> QED BY <1>2, <3>3 DEF CommandOk
    <2>2. CASE d.val.id # c.val.id
      <3>1. Store'[d.val.id] = Store[d.val.id]
        BY <1>1, <1>4, <2>2
      <3> QED BY <1>2, <3>1 DEF CommandOk, Held
    <2> QED BY <2>1, <2>2
  <1> QED BY <1>3, <1>4, CommitStore

\* The new table, and the old ones behind it.
LEMMA HistoryKept ==
  ASSUME TypeOK, HistoryOk, now' = now,
         NEW c \in CasCmd, hist' = Committed(c), CommandOk(c)
  PROVE  HistoryOk'
  <1>1. /\ Store \in [Pod -> PodRec]
        /\ \A i \in 1..Len(hist) : hist[i] \in [Pod -> PodRec]
        /\ Len(hist) \in Nat /\ Len(hist) >= 1
        /\ c.val \in PodRec /\ c.val.id \in Pod /\ c.exp \in Nat
    BY StoreType DEF CasCmd, PodRec
  <1>2. CASE hist' = hist
    <2> SUFFICES ASSUME NEW i \in 1..Len(hist), NEW p \in Pod
                 PROVE  (/\ hist[i][p].id = p
                         /\ Sound(hist[i][p])
                         /\ Current(hist[i][p])
                         /\ Outlived(hist[i][p]))'
      BY <1>2 DEF HistoryOk
    <2>1. /\ hist[i][p].id = p
          /\ Sound(hist[i][p])
          /\ Current(hist[i][p])
          /\ Outlived(hist[i][p])
      BY DEF HistoryOk
    <2>2. Store' = Store
      BY <1>2 DEF Store
    <2> QED BY <1>2, <2>1, <2>2 DEF Sound, Current, Outlived, Held, Clock
  <1>3. CASE /\ Len(hist') = Len(hist) + 1
             /\ \A i \in 1..Len(hist) : hist'[i] = hist[i]
             /\ c.exp = Store[c.val.id].ver
             /\ Store' = [Store EXCEPT ![c.val.id] = c.val]
             /\ hist'[Len(hist) + 1] = Store'
    <2> DEFINE k == c.val.id
               s == Store[k]
    <2>1. /\ c.val.ver = c.exp + 1 /\ Held(c.val) /\ Sound(c.val)
          /\ c.val.lease >= s.lease
          /\ c.val.node = s.node \/ ~Held(s) \/ s.lease < now + MaxSkew
      BY <1>3 DEF CommandOk
    <2>2. \A p \in Pod : Store[p].id = p /\ Sound(Store[p])
      BY <1>1 DEF HistoryOk, Store
    <2>3. /\ s \in PodRec /\ s.lease \in Nat /\ c.val.lease \in Nat
          /\ now + MaxSkew \in Nat
      BY <1>1, SkewAssumption DEF PodRec, TypeOK
    <2>4. ASSUME NEW r \in PodRec, Sound(r), Outlived(r), r.id = k
          PROVE  Outlived(r)'
      <3>1. Store'[r.id] = c.val
        BY <1>1, <1>3, <2>4
      <3>2. r.lease \in Nat
        BY DEF PodRec
      <3>3. r.lease <= c.val.lease
        BY <2>1, <2>3, <2>4, <3>2 DEF Outlived
      <3>4. ASSUME Held(r), r.node = s.node
            PROVE  r.node = c.val.node \/ r.lease < now + MaxSkew
        <4>1. r.node \in Node
          BY <2>4, <3>4 DEF Sound, Held
        <4>2. s.status # "Pending"
          BY <1>1, <2>2, <3>4, <4>1, NodeAssumption DEF Sound, Held
        <4>3. Held(s) /\ r.lease <= s.lease
          BY <1>1, <2>2, <2>4, <4>2 DEF Sound, Outlived
        <4> QED BY <2>1, <2>3, <3>2, <3>4, <4>3
      <3>5. Held(r) => r.node = c.val.node \/ r.lease < now + MaxSkew
        BY <2>4, <3>4 DEF Outlived
      <3> QED BY <3>1, <3>3, <3>5 DEF Outlived, Held
    <2>5. ASSUME NEW r \in PodRec, Outlived(r), r.id # k
          PROVE  Outlived(r)'
      <3>1. Store'[r.id] = Store[r.id]
        BY <1>1, <1>3, <2>5 DEF PodRec
      <3> QED BY <2>5, <3>1 DEF Outlived, Held
    <2>6. ASSUME NEW r \in PodRec, r = Store'[r.id], Sound(r)
          PROVE  Sound(r)' /\ Current(r)' /\ Outlived(r)'
      BY <2>6 DEF Sound, Current, Outlived, Held, Clock, PodRec
    <2>7. ASSUME NEW r \in PodRec, Sound(r), Current(r), Outlived(r)
          PROVE  Sound(r)' /\ Current(r)' /\ Outlived(r)'
      <3>1. Current(r)'
        BY <2>1, <2>7, CurrentKept
      <3>2. Sound(r)'
        BY <2>7 DEF Sound, Held, Clock
      <3> QED BY <2>4, <2>5, <2>7, <3>1, <3>2
    <2> SUFFICES ASSUME NEW i \in 1..Len(hist'), NEW p \in Pod
                 PROVE  (/\ hist[i][p].id = p
                         /\ Sound(hist[i][p])
                         /\ Current(hist[i][p])
                         /\ Outlived(hist[i][p]))'
      BY DEF HistoryOk
    <2>8. PICK r \in PodRec : r = hist'[i][p]
      <3>1. Store' \in [Pod -> PodRec]
        BY <1>1, <1>3
      <3>2. i \in 1..Len(hist) \/ i = Len(hist) + 1
        BY <1>1, <1>3
      <3>3. hist'[i] \in [Pod -> PodRec]
        BY <1>1, <1>3, <3>1, <3>2
      <3> QED BY <3>3
    <2>9. r.id = p /\ Sound(r)' /\ Current(r)' /\ Outlived(r)'
      <3>1. CASE i \in 1..Len(hist)
        <4>1. r = hist[i][p]
          BY <1>3, <2>8, <3>1
        <4>2. r.id = p /\ Sound(r) /\ Current(r) /\ Outlived(r)
          BY <3>1, <4>1 DEF HistoryOk
        <4> QED BY <2>7, <4>2
      <3>2. CASE i = Len(hist) + 1
        <4>1. r = Store'[p]
          BY <1>3, <2>8, <3>2
        <4>2. r.id = p /\ Sound(r)
          BY <1>1, <1>3, <2>1, <2>2, <4>1
        <4> QED BY <2>6, <4>1, <4>2
      <3> QED BY <1>1, <1>3, <3>1, <3>2
    <2> QED BY <2>8, <2>9 DEF Sound, Current, Outlived, Held
  <1> QED BY <1>2, <1>3, CommitStore

-----------------------------------------------------------------------------
(* What any step does to the log and the clock, and what survives it.      *)

LogStep ==
  \/ hist' = hist /\ now' \in {now, now + 1}
  \/ now' = now /\ \E c \in CasCmd : CommandOk(c) /\ hist' = Committed(c)

\* The history stays proper through such a step: the tables of the log are
\* sound, current or old, and outlived by the last one.
LEMMA HistoryStep ==
  ASSUME TypeOK, HistoryOk, LogStep
  PROVE  HistoryOk'
  <1>1. CASE hist' = hist /\ now' \in {now, now + 1}
    <2> SUFFICES ASSUME NEW i \in 1..Len(hist), NEW p \in Pod
                 PROVE  (/\ hist[i][p].id = p
                         /\ Sound(hist[i][p])
                         /\ Current(hist[i][p])
                         /\ Outlived(hist[i][p]))'
      BY <1>1 DEF HistoryOk
    <2>1. /\ hist[i][p].id = p
          /\ Sound(hist[i][p])
          /\ Current(hist[i][p])
          /\ Outlived(hist[i][p])
      BY DEF HistoryOk
    <2>2. /\ hist[i][p] \in PodRec /\ hist[i][p].lease \in Nat
          /\ Skew \in [Node -> Nat] /\ MaxSkew \in Nat /\ TTL \in Nat /\ now \in Nat
      BY StoreType, SkewAssumption, TTLAssumption DEF PodRec, TypeOK
    <2>3. Sound(hist[i][p])'
      BY <1>1, <2>1, <2>2 DEF Sound, Held, Clock
    <2>4. Outlived(hist[i][p])'
      BY <1>1, <2>1, <2>2 DEF Outlived, Held, Store
    <2> QED BY <1>1, <2>1, <2>3, <2>4 DEF Current, Store
  <1>2. CASE now' = now /\ \E c \in CasCmd : CommandOk(c) /\ hist' = Committed(c)
    BY <1>2, HistoryKept
  <1> QED BY <1>1, <1>2 DEF LogStep

\* What a loop may have fetched stays so while the log and the clock move on
\* (tryLockPod and UpdatePod use a record read some time ago).
LEMMA FetchedStep ==
  ASSUME TypeOK, LogStep, NEW n \in Node, NEW l \in Loops, NEW r \in PodRec,
         Fetched(n, l, r)
  PROVE  Fetched(n, l, r)'
  <1>1. /\ r.lease \in Nat /\ Skew \in [Node -> Nat] /\ TTL \in Nat /\ now \in Nat
        /\ now' \in {now, now + 1}
    BY SkewAssumption, TTLAssumption DEF PodRec, TypeOK, LogStep
  <1>2. Sound(r)'
    BY <1>1 DEF Fetched, Sound, Held, Clock
  <1>3. Expired(r, Clock(n)) => Expired(r, Clock(n))'
    BY <1>1 DEF Expired, Held, Clock
  <1>4. Current(r)'
    <2>1. CASE hist' = hist
      BY <2>1 DEF Fetched, Current, Store
    <2>2. CASE \E c \in CasCmd : CommandOk(c) /\ hist' = Committed(c)
      <3>1. PICK c \in CasCmd : CommandOk(c) /\ hist' = Committed(c)
        BY <2>2
      <3>2. c.val.ver = c.exp + 1 /\ Current(r)
        BY <3>1 DEF CommandOk, Fetched
      <3> QED BY <3>1, <3>2, CurrentKept
    <2> QED BY <2>1, <2>2 DEF LogStep
  <1> QED BY <1>2, <1>3, <1>4 DEF Fetched, Held

\* And so does a command that waits for the leader.
LEMMA CommandStep ==
  ASSUME TypeOK, LogStep, NEW d \in CasCmd, CommandOk(d)
  PROVE  CommandOk(d)'
  <1>1. CASE hist' = hist /\ now' \in {now, now + 1}
    <2>1. /\ Store[d.val.id] \in PodRec /\ d.val \in PodRec
          /\ d.val.lease \in Nat /\ Store[d.val.id].lease \in Nat
          /\ Skew \in [Node -> Nat] /\ MaxSkew \in Nat /\ TTL \in Nat /\ now \in Nat
      BY StoreType, SkewAssumption, TTLAssumption DEF CasCmd, PodRec, TypeOK
    <2>2. Sound(d.val)'
      BY <1>1, <2>1 DEF CommandOk, Sound, Held, Clock
    <2>3. Store' = Store
      BY <1>1 DEF Store
    <2>4. Store[d.val.id].lease < now + MaxSkew => Store[d.val.id].lease < now' + MaxSkew
      BY <1>1, <2>1
    <2> QED BY <2>2, <2>3, <2>4 DEF CommandOk, Held
  <1>2. CASE now' = now /\ \E c \in CasCmd : CommandOk(c) /\ hist' = Committed(c)
    BY <1>2, CommandKept
  <1> QED BY <1>1, <1>2 DEF LogStep

-----------------------------------------------------------------------------
(* The commands the loops build.                                           *)

\* tryLockPod: the command made from a record that was fetched properly is one
\* that may be in flight.
LEMMA TryLockOk ==
  ASSUME TypeOK, HistoryOk, NEW n \in Node, NEW l \in {"sched", "renew"},
         NEW r \in PodRec, Fetched(n, l, r)
  PROVE  /\ TryLockPod(r, n, Clock(n)) \in CasCmd
         /\ CommandOk(TryLockPod(r, n, Clock(n)))
  <1> DEFINE c == TryLockPod(r, n, Clock(n))
             s == Store[r.id]
  <1>1. /\ Clock(n) \in Nat /\ TTL \in Nat /\ now + MaxSkew \in Nat
        /\ Clock(n) <= now + MaxSkew
    BY SkewAssumption, TTLAssumption DEF Clock, TypeOK
  <1>2. /\ c.op = "cas" /\ c.exp = r.ver /\ c.val.id = r.id /\ c.val.node = n
        /\ c.val.ver = r.ver + 1 /\ c.val.lease = Clock(n) + TTL
    BY DEF TryLockPod, PodRec
  <1>3. Held(r) \/ r.status = "Pending"
    BY DEF Fetched, Sound
  <1> DEFINE st == IF r.status = "Pending" THEN "Scheduled" ELSE r.status
  <1>4. c \in CasCmd
    <2>1. st \in Status
      BY DEF PodRec, Status
    <2>2. c.val = [r EXCEPT !.status = st, !.node = n, !.ver = r.ver + 1,
                            !.lease = Clock(n) + TTL]
      BY DEF TryLockPod, PodRec
    <2>3. Clock(n) + TTL \in Nat /\ r.ver + 1 \in Nat
      BY <1>1 DEF PodRec
    <2> HIDE DEF st
    <2>4. c.val \in PodRec
      BY <2>1, <2>2, <2>3 DEF PodRec
    <2> QED BY <2>4 DEF TryLockPod, CasCmd, PodRec
  <1>5. Held(c.val)
    BY <1>3 DEF TryLockPod, Held, PodRec
  <1>6. Sound(c.val)
    BY <1>1, <1>2, <1>5 DEF Sound
  <1>7. r.lease \in Nat /\ r.lease <= Clock(n) + TTL
    <2>1. CASE l = "sched"
      BY <1>1, <2>1 DEF Fetched, Sound, Expired, Held, PodRec
    <2>2. CASE l = "renew"
      BY <1>1, <2>2 DEF Fetched, Sound, Held, PodRec
    <2> QED BY <2>1, <2>2
  <1>8. n = r.node \/ ~Held(r) \/ r.lease < now + MaxSkew
    <2>1. CASE l = "sched"
      BY <1>1, <1>7, <2>1 DEF Fetched, Expired, Held
    <2>2. CASE l = "renew"
      BY <2>2 DEF Fetched
    <2> QED BY <2>1, <2>2
  <1>9. r.ver <= s.ver /\ (r.ver = s.ver => r = s)
    BY DEF Fetched, Current
  <1> QED BY <1>2, <1>4, <1>5, <1>6, <1>7, <1>8, <1>9 DEF CommandOk

\* The agent changes what it likes of a record of its own, but not the owner
\* and the lease.
LEMMA UpdateOk ==
  ASSUME TypeOK, HistoryOk, NEW n \in Node, NEW r \in PodRec, Fetched(n, "agent", r),
         NEW q \in PodRec, q.id = r.id, q.ver = r.ver, q.node = r.node,
         q.lease = r.lease, q.status = "Running"
  PROVE  UpdatePod(q) \in CasCmd /\ CommandOk(UpdatePod(q))
  <1> DEFINE c == UpdatePod(q)
             s == Store[r.id]
  <1>1. c \in CasCmd
    BY DEF UpdatePod, CasCmd, PodRec
  <1>2. /\ c.exp = r.ver /\ c.val.id = r.id /\ c.val.ver = r.ver + 1
        /\ c.val.node = r.node /\ c.val.lease = r.lease /\ c.val.status = "Running"
    BY DEF UpdatePod, PodRec
  <1>3. Sound(r) /\ Held(r) /\ r.node = n /\ r.lease \in Nat
    BY DEF Fetched, PodRec
  <1>4. Sound(c.val) /\ Held(c.val)
    BY <1>2, <1>3 DEF Sound, Held
  <1>5. r.ver <= s.ver /\ (r.ver = s.ver => r = s)
    BY DEF Fetched, Current
  <1> QED BY <1>1, <1>2, <1>3, <1>4, <1>5 DEF CommandOk

-----------------------------------------------------------------------------
(* The steps.                                                              *)

\* What the loops have in hand after the step, judged in the state before it.
InHand ==
  /\ \A m \in Node : \A l \in Loops : \A r \in todo'[m][l] : Fetched(m, l, r)
  /\ \A m \in Node : \A r \in probe'[m] : Fetched(m, "agent", r)
  /\ \A m \in Node : \A l \in Loops : \A c \in pending'[m][l] : CommandOk(c)
  /\ \A c \in late' : CommandOk(c)

\* If a step keeps the types, is a step of the log and puts only proper records
\* and commands in hand, it preserves the inductive invariant.
LEMMA Lift ==
  ASSUME IInv, TypeOK', LogStep, InHand
  PROVE  IInv'
  <1>1. HistoryOk'
    BY HistoryStep DEF IInv
  <1>2. \A m \in Node : \A l \in Loops : \A r \in todo'[m][l] : Fetched(m, l, r)'
    <2> SUFFICES ASSUME NEW m \in Node, NEW l \in Loops, NEW r \in todo'[m][l]
                 PROVE  Fetched(m, l, r)'
      OBVIOUS
    <2>1. r \in PodRec /\ Fetched(m, l, r)
      BY DEF TypeOK, InHand
    <2> QED BY <2>1, FetchedStep DEF IInv
  <1>3. \A m \in Node : \A r \in probe'[m] : Fetched(m, "agent", r)'
    <2> SUFFICES ASSUME NEW m \in Node, NEW r \in probe'[m]
                 PROVE  Fetched(m, "agent", r)'
      OBVIOUS
    <2>1. r \in PodRec /\ Fetched(m, "agent", r) /\ "agent" \in Loops
      BY DEF TypeOK, InHand, Loops
    <2> QED BY <2>1, FetchedStep DEF IInv
  <1>4. \A m \in Node : \A l \in Loops : \A c \in pending'[m][l] : CommandOk(c)'
    <2> SUFFICES ASSUME NEW m \in Node, NEW l \in Loops, NEW c \in pending'[m][l]
                 PROVE  CommandOk(c)'
      OBVIOUS
    <2>1. c \in CasCmd /\ CommandOk(c)
      BY DEF TypeOK, InHand
    <2> QED BY <2>1, CommandStep DEF IInv
  <1>5. \A c \in late' : CommandOk(c)'
    <2> SUFFICES ASSUME NEW c \in late'
                 PROVE  CommandOk(c)'
      OBVIOUS
    <2>1. c \in CasCmd /\ CommandOk(c)
      BY DEF TypeOK, InHand
    <2> QED BY <2>1, CommandStep DEF IInv
  <1> QED BY <1>1, <1>2, <1>3, <1>4, <1>5 DEF IInv, SnapshotsOk, CommandsOk

\* A record read from a replica is a sound and current one.
LEMMA ReplicaDomain ==
  ASSUME IInv, NEW n \in Node
  PROVE  DOMAIN Replica(n) = Pod
  BY StoreType DEF IInv, Replica

\* FetchPods: a record read from a replica, however far behind, is sound and is
\* the current one or older.
LEMMA ReadOk ==
  ASSUME IInv, NEW n \in Node, NEW p \in Pod
  PROVE  /\ Replica(n)[p] \in PodRec /\ Replica(n)[p].id = p
         /\ Sound(Replica(n)[p]) /\ Current(Replica(n)[p])
  BY StoreType DEF IInv, HistoryOk, Replica

\* Replacing what one loop has to do, or waits for, by something proper.
TodoOk ==
  /\ todo' \in [Node -> [Loops -> SUBSET PodRec]]
  /\ \A m \in Node : \A l \in Loops : \A r \in todo'[m][l] : Fetched(m, l, r)

PendingOk ==
  /\ pending' \in [Node -> [Loops -> SUBSET CasCmd]]
  /\ \A m \in Node : \A l \in Loops : \A c \in pending'[m][l] : CommandOk(c)

\* A loop of n replaces its list of records by proper ones.
LEMMA TodoChange ==
  ASSUME IInv, NEW n \in Node, NEW l \in Loops, NEW S,
         \A r \in S : r \in PodRec /\ Fetched(n, l, r),
         todo' = [todo EXCEPT ![n][l] = S]
  PROVE  TodoOk
  <1>1. todo \in [Node -> [Loops -> SUBSET PodRec]] /\ SnapshotsOk
    BY DEF IInv, TypeOK
  <1>2. ASSUME NEW m \in Node, NEW k \in Loops
        PROVE  todo'[m][k] = IF m = n /\ k = l THEN S ELSE todo[m][k]
    BY <1>1
  <1>3. todo' \in [Node -> [Loops -> SUBSET PodRec]]
    BY <1>1
  <1> QED BY <1>1, <1>2, <1>3 DEF TodoOk, SnapshotsOk

\* A loop of n replaces the command it waits for by a proper one.
LEMMA PendingChange ==
  ASSUME IInv, NEW n \in Node, NEW l \in Loops, NEW S,
         \A c \in S : c \in CasCmd /\ CommandOk(c),
         pending' = [pending EXCEPT ![n][l] = S]
  PROVE  PendingOk
  <1>1. pending \in [Node -> [Loops -> SUBSET CasCmd]] /\ CommandsOk
    BY DEF IInv, TypeOK
  <1>2. ASSUME NEW m \in Node, NEW k \in Loops
        PROVE  pending'[m][k] = IF m = n /\ k = l THEN S ELSE pending[m][k]
    BY <1>1
  <1>3. pending' \in [Node -> [Loops -> SUBSET CasCmd]]
    BY <1>1
  <1> QED BY <1>1, <1>2, <1>3 DEF PendingOk, CommandsOk

\* A loop of n keeps one record in hand, as reconcile does over its delay.
LEMMA TodoOne ==
  ASSUME IInv, NEW n \in Node, NEW l \in Loops, NEW r \in PodRec, Fetched(n, l, r),
         todo' = [todo EXCEPT ![n][l] = {r}]
  PROVE  TodoOk
  <1> DEFINE S == {r}
  <1>1. \A s \in S : s \in PodRec /\ Fetched(n, l, s)
    OBVIOUS
  <1>2. todo' = [todo EXCEPT ![n][l] = S]
    OBVIOUS
  <1> HIDE DEF S
  <1> QED BY <1>1, <1>2, TodoChange

\* A loop of n has nothing more in hand.
LEMMA TodoNone ==
  ASSUME IInv, NEW n \in Node, NEW l \in Loops, todo' = [todo EXCEPT ![n][l] = {}]
  PROVE  TodoOk
  <1> DEFINE S == {}
  <1>1. \A s \in S : s \in PodRec /\ Fetched(n, l, s)
    OBVIOUS
  <1>2. todo' = [todo EXCEPT ![n][l] = S]
    OBVIOUS
  <1> HIDE DEF S
  <1> QED BY <1>1, <1>2, TodoChange

\* A loop of n sends one proper command.
LEMMA PendingOne ==
  ASSUME IInv, NEW n \in Node, NEW l \in Loops, NEW c \in CasCmd, CommandOk(c),
         pending' = [pending EXCEPT ![n][l] = {c}]
  PROVE  PendingOk
  <1> DEFINE S == {c}
  <1>1. \A s \in S : s \in CasCmd /\ CommandOk(s)
    OBVIOUS
  <1>2. pending' = [pending EXCEPT ![n][l] = S]
    OBVIOUS
  <1> HIDE DEF S
  <1> QED BY <1>1, <1>2, PendingChange

\* A loop has its answer.
LEMMA PendingNone ==
  ASSUME IInv, NEW n \in Node, NEW l \in Loops,
         pending' = [pending EXCEPT ![n][l] = {}]
  PROVE  PendingOk
  <1> DEFINE S == {}
  <1>1. \A s \in S : s \in CasCmd /\ CommandOk(s)
    OBVIOUS
  <1>2. pending' = [pending EXCEPT ![n][l] = S]
    OBVIOUS
  <1> HIDE DEF S
  <1> QED BY <1>1, <1>2, PendingChange

\* Lists and commands that a step leaves alone stay proper.
LEMMA Unchanged ==
  ASSUME IInv
  PROVE  (todo' = todo => TodoOk) /\ (pending' = pending => PendingOk)
  BY DEF IInv, TypeOK, SnapshotsOk, CommandsOk, TodoOk, PendingOk

\* A loop drops the record it has handled.
LEMMA TodoDrop ==
  ASSUME IInv, NEW n \in Node, NEW l \in Loops, NEW r,
         todo' = [todo EXCEPT ![n][l] = @ \ {r}]
  PROVE  TodoOk
  <1> DEFINE S == todo[n][l] \ {r}
  <1>1. todo' = [todo EXCEPT ![n][l] = S]
    OBVIOUS
  <1>2. \A q \in S : q \in PodRec /\ Fetched(n, l, q)
    BY DEF IInv, TypeOK, SnapshotsOk
  <1> HIDE DEF S
  <1> QED BY <1>1, <1>2, TodoChange

\* Types and commands of a step that leaves the log and the clock alone.
LEMMA LoopStep ==
  ASSUME IInv, UNCHANGED <<hist, applied, late, up, now>>,
         TodoOk, PendingOk,
         running' \in [Node -> SUBSET Pod], faults' \in Nat,
         probe' \in [Node -> SUBSET PodRec],
         \A m \in Node : \A r \in probe'[m] : Fetched(m, "agent", r)
  PROVE  TypeOK' /\ LogStep /\ InHand
  BY DEF IInv, TypeOK, LogStep, InHand, CommandsOk, TodoOk, PendingOk

\* One whose loop handles a record without running its probes.
LEMMA PlainLoopStep ==
  ASSUME IInv, UNCHANGED <<hist, applied, late, up, now, probe>>,
         TodoOk, PendingOk,
         running' \in [Node -> SUBSET Pod], faults' \in Nat
  PROVE  TypeOK' /\ LogStep /\ InHand
  <1>1. /\ probe' \in [Node -> SUBSET PodRec]
        /\ \A m \in Node : \A r \in probe'[m] : Fetched(m, "agent", r)
    BY DEF IInv, TypeOK, SnapshotsOk
  <1> QED BY <1>1, LoopStep

\* reconcile up to the delay picks a pending or expired record of the replica.
LEMMA SchedPickStep ==
  ASSUME IInv, NEW n \in Node, SchedPick(n)
  PROVE  TypeOK' /\ LogStep /\ InHand
  <1>1. PICK p \in Pod : /\ Capturable(n, Replica(n), p)
                         /\ todo' = [todo EXCEPT ![n]["sched"] = {Replica(n)[p]}]
    BY ReplicaDomain DEF SchedPick
  <1>2. Replica(n)[p] \in PodRec /\ Fetched(n, "sched", Replica(n)[p])
    BY <1>1, ReadOk DEF Capturable, Fetched
  <1>3. TodoOk
    BY <1>1, <1>2, TodoOne, "sched" \in Loops DEF Loops
  <1> QED BY <1>3, Unchanged, PlainLoopStep DEF SchedPick, IInv, TypeOK

\* tryLockPod after the delay sends a proper command.
LEMMA SchedPostStep ==
  ASSUME IInv, NEW n \in Node, SchedPost(n)
  PROVE  TypeOK' /\ LogStep /\ InHand
  <1>1. PICK r \in todo[n]["sched"] :
          pending' = [pending EXCEPT ![n]["sched"] = {TryLockPod(r, n, Clock(n))}]
    BY DEF SchedPost
  <1>2. r \in PodRec /\ Fetched(n, "sched", r) /\ "sched" \in Loops
    BY DEF IInv, TypeOK, Loops, SnapshotsOk
  <1>3. PendingOk
    BY <1>1, <1>2, TryLockOk, PendingOne DEF IInv
  <1>4. TodoOk
    BY <1>2, TodoNone DEF SchedPost
  <1> QED BY <1>3, <1>4, PlainLoopStep DEF SchedPost, IInv, TypeOK

\* The records of its own held pods are proper ones for renewLeases and the agent.
LEMMA FetchOwnOk ==
  ASSUME IInv, NEW n \in Node, NEW l \in {"renew", "agent"}, NEW r \in FetchOwn(n)
  PROVE  r \in PodRec /\ Fetched(n, l, r)
  BY ReadOk, ReplicaDomain DEF FetchOwn, Fetched

\* renewLeases reads its list.
LEMMA RenewFetchStep ==
  ASSUME IInv, NEW n \in Node, RenewFetch(n)
  PROVE  TypeOK' /\ LogStep /\ InHand
  <1>1. TodoOk
    BY FetchOwnOk, TodoChange, "renew" \in Loops DEF RenewFetch, Loops
  <1> QED BY <1>1, Unchanged, PlainLoopStep DEF RenewFetch, IInv, TypeOK

\* renewLeases renews the next pod of its list or skips it.
LEMMA RenewNextStep ==
  ASSUME IInv, NEW n \in Node, RenewNext(n)
  PROVE  TypeOK' /\ LogStep /\ InHand
  <1>1. PICK r \in todo[n]["renew"] :
          /\ todo' = [todo EXCEPT ![n]["renew"] = @ \ {r}]
          /\ \/ pending' = [pending EXCEPT ![n]["renew"] = {TryLockPod(r, n, Clock(n))}]
             \/ pending' = pending
    BY DEF RenewNext, NextOf
  <1>2. r \in PodRec /\ Fetched(n, "renew", r) /\ "renew" \in Loops
    BY DEF IInv, TypeOK, Loops, SnapshotsOk
  <1>3. PendingOk
    BY <1>1, <1>2, TryLockOk, PendingOne, Unchanged DEF IInv
  <1>4. TodoOk
    BY <1>1, <1>2, TodoDrop
  <1>5. faults' \in Nat
    BY DEF RenewNext, Fault, IInv, TypeOK
  <1> QED BY <1>3, <1>4, <1>5, PlainLoopStep DEF RenewNext, IInv, TypeOK

\* The agent reads its list.
LEMMA AgentFetchStep ==
  ASSUME IInv, NEW n \in Node, AgentFetch(n)
  PROVE  TypeOK' /\ LogStep /\ InHand
  <1>1. TodoOk
    BY FetchOwnOk, TodoChange, "agent" \in Loops DEF AgentFetch, Loops
  <1> QED BY <1>1, Unchanged, PlainLoopStep DEF AgentFetch, IInv, TypeOK

\* A report of the agent about a record of its own.
LEMMA ReportOk ==
  ASSUME IInv, NEW n \in Node, NEW r \in PodRec, Fetched(n, "agent", r),
         NEW q \in PodRec, q.id = r.id, q.ver = r.ver, q.node = r.node,
         q.lease = r.lease, q.status = "Running",
         \/ pending' = [pending EXCEPT ![n]["agent"] = {UpdatePod(q)}]
         \/ pending' = pending
  PROVE  PendingOk
  <1>1. UpdatePod(q) \in CasCmd /\ CommandOk(UpdatePod(q))
    BY UpdateOk DEF IInv
  <1>2. "agent" \in Loops
    BY DEF Loops
  <1> QED BY <1>1, <1>2, PendingOne, Unchanged

\* The agent starts a container and reports a new status or address.
LEMMA AgentStartStep ==
  ASSUME IInv, NEW n \in Node, AgentStart(n)
  PROVE  TypeOK' /\ LogStep /\ InHand
  <1> DEFINE q(r) == [r EXCEPT !.status = "Running", !.addr = n]
  <1>1. PICK r \in todo[n]["agent"] :
          /\ running' = [running EXCEPT ![n] = @ \cup {r.id}]
          /\ todo' = [todo EXCEPT ![n]["agent"] = @ \ {r}]
          /\ \/ pending' = [pending EXCEPT ![n]["agent"] = {UpdatePod(q(r))}]
             \/ pending' = pending
    BY DEF AgentStart, NextOf
  <1>2. r \in PodRec /\ Fetched(n, "agent", r) /\ "agent" \in Loops
    BY DEF IInv, TypeOK, Loops, SnapshotsOk
  <1>3. /\ q(r) \in PodRec /\ q(r).id = r.id /\ q(r).ver = r.ver
        /\ q(r).node = r.node /\ q(r).lease = r.lease /\ q(r).status = "Running"
    BY <1>2 DEF PodRec, Status
  <1>4. PendingOk
    BY <1>1, <1>2, <1>3, ReportOk
  <1>5. TodoOk
    BY <1>1, <1>2, TodoDrop
  <1>6. running' \in [Node -> SUBSET Pod]
    BY <1>1, <1>2 DEF IInv, TypeOK, PodRec
  <1> QED BY <1>4, <1>5, <1>6, PlainLoopStep DEF AgentStart, IInv, TypeOK

\* The agent leaves a record whose container it cannot read or start.
LEMMA AgentSkipStep ==
  ASSUME IInv, NEW n \in Node, AgentSkip(n)
  PROVE  TypeOK' /\ LogStep /\ InHand
  <1>1. TodoOk
    BY TodoDrop, "agent" \in Loops DEF AgentSkip, Loops
  <1> QED BY <1>1, Unchanged, PlainLoopStep DEF AgentSkip, Fault, IInv, TypeOK

\* The agent finds a container running and goes on to its probes.
LEMMA AgentSeenStep ==
  ASSUME IInv, NEW n \in Node, AgentSeen(n)
  PROVE  TypeOK' /\ LogStep /\ InHand
  <1> DEFINE q(r) == [r EXCEPT !.status = "Running"]
  <1>1. PICK r \in todo[n]["agent"] :
          /\ todo' = [todo EXCEPT ![n]["agent"] = @ \ {r}]
          /\ probe' = [probe EXCEPT ![n] = {r}]
          /\ \/ pending' = [pending EXCEPT ![n]["agent"] = {UpdatePod(q(r))}]
             \/ pending' = pending
    BY DEF AgentSeen, NextOf
  <1>2. r \in PodRec /\ Fetched(n, "agent", r) /\ "agent" \in Loops
    BY DEF IInv, TypeOK, Loops, SnapshotsOk
  <1>3. /\ q(r) \in PodRec /\ q(r).id = r.id /\ q(r).ver = r.ver
        /\ q(r).node = r.node /\ q(r).lease = r.lease /\ q(r).status = "Running"
    BY <1>2 DEF PodRec, Status
  <1>4. PendingOk
    BY <1>1, <1>2, <1>3, ReportOk
  <1>5. TodoOk
    BY <1>1, <1>2, TodoDrop
  <1>6. /\ probe' \in [Node -> SUBSET PodRec]
        /\ \A m \in Node : \A s \in probe'[m] : Fetched(m, "agent", s)
    BY <1>1, <1>2 DEF IInv, TypeOK, SnapshotsOk
  <1> QED BY <1>4, <1>5, <1>6, LoopStep DEF AgentSeen, IInv, TypeOK

\* The probes have been run: nothing is left to probe.
LEMMA ProbeDone ==
  ASSUME IInv, NEW n \in Node, probe' = [probe EXCEPT ![n] = {}]
  PROVE  /\ probe' \in [Node -> SUBSET PodRec]
         /\ \A m \in Node : \A r \in probe'[m] : Fetched(m, "agent", r)
  BY DEF IInv, TypeOK, SnapshotsOk

\* The agent stops a container whose liveness probe failed.
LEMMA AgentKillStep ==
  ASSUME IInv, NEW n \in Node, AgentKill(n)
  PROVE  TypeOK' /\ LogStep /\ InHand
  <1>1. PICK r \in probe[n] : running' = [running EXCEPT ![n] = @ \ {r.id}]
    BY DEF AgentKill
  <1>2. running' \in [Node -> SUBSET Pod]
    BY <1>1 DEF IInv, TypeOK
  <1> QED BY <1>2, ProbeDone, Unchanged, LoopStep DEF AgentKill, IInv, TypeOK

\* The agent reports a changed readiness.
LEMMA AgentProbeStep ==
  ASSUME IInv, NEW n \in Node, AgentProbe(n)
  PROVE  TypeOK' /\ LogStep /\ InHand
  <1> DEFINE q(r, ok) == [r EXCEPT !.status = "Running", !.ready = ok]
  <1>1. PICK r \in probe[n], ok \in BOOLEAN :
          \/ pending' = [pending EXCEPT ![n]["agent"] = {UpdatePod(q(r, ok))}]
          \/ pending' = pending
    BY DEF AgentProbe, Answers
  <1>2. r \in PodRec /\ Fetched(n, "agent", r)
    BY DEF IInv, TypeOK, SnapshotsOk
  <1>3. /\ q(r, ok) \in PodRec /\ q(r, ok).id = r.id /\ q(r, ok).ver = r.ver
        /\ q(r, ok).node = r.node /\ q(r, ok).lease = r.lease
        /\ q(r, ok).status = "Running"
    BY <1>2 DEF PodRec, Status
  <1>4. PendingOk
    BY <1>1, <1>2, <1>3, ReportOk
  <1> QED BY <1>4, ProbeDone, Unchanged, LoopStep DEF AgentProbe, IInv, TypeOK

\* FSM.Apply of a command leaves a log of tables and never a shorter one.
LEMMA CommittedType ==
  ASSUME TypeOK, NEW c \in CasCmd, hist' = Committed(c)
  PROVE  /\ hist' \in Seq([Pod -> PodRec]) /\ hist' # <<>>
         /\ \A n \in Node : applied[n] \in 1..Len(hist')
  <1>1. CASE hist' = hist
    BY <1>1 DEF TypeOK
  <1>2. CASE /\ Len(hist') = Len(hist) + 1
             /\ hist' \in Seq([Pod -> PodRec]) /\ hist' # <<>>
    BY <1>2, StoreType
  <1> QED BY <1>1, <1>2, CommitStore

\* A command of a loop is applied and answered.
LEMMA CommitStep ==
  ASSUME IInv, NEW n \in Node, NEW l \in Loops, Commit(n, l)
  PROVE  TypeOK' /\ LogStep /\ InHand
  <1>1. PICK c \in pending[n][l] : hist' = Committed(c)
    BY DEF Commit
  <1>2. c \in CasCmd /\ CommandOk(c)
    BY DEF IInv, TypeOK, CommandsOk
  <1>3. PendingOk /\ TodoOk
    BY PendingNone, Unchanged DEF Commit
  <1>4. /\ hist' \in Seq([Pod -> PodRec]) /\ hist' # <<>>
        /\ \A m \in Node : applied[m] \in 1..Len(hist')
    BY <1>1, <1>2, CommittedType DEF IInv
  <1>5. applied' \in [Node -> 1..Len(hist')]
    BY <1>4 DEF Commit, IInv, TypeOK
  <1>6. TypeOK'
    BY <1>3, <1>4, <1>5 DEF Commit, IInv, TypeOK, TodoOk, PendingOk
  <1>7. LogStep
    BY <1>1, <1>2 DEF Commit, LogStep
  <1> QED BY <1>3, <1>6, <1>7
          DEF Commit, InHand, TodoOk, PendingOk, IInv, SnapshotsOk, CommandsOk

\* A command of a loop is answered with an error and may stay in the log.
LEMMA FailStep ==
  ASSUME IInv, NEW n \in Node, NEW l \in Loops, Fail(n, l)
  PROVE  TypeOK' /\ LogStep /\ InHand
  <1>1. PendingOk /\ TodoOk
    BY PendingNone, Unchanged DEF Fail
  <1>2. late' \in SUBSET CasCmd /\ \A c \in late' : CommandOk(c)
    BY DEF Fail, IInv, TypeOK, CommandsOk
  <1>3. TypeOK'
    BY <1>1, <1>2 DEF Fail, Fault, IInv, TypeOK, TodoOk, PendingOk
  <1> QED BY <1>1, <1>2, <1>3
          DEF Fail, LogStep, InHand, TodoOk, PendingOk, IInv, SnapshotsOk

\* A command whose sender gave it up is applied after all.
LEMMA CommitLateStep ==
  ASSUME IInv, CommitLate
  PROVE  TypeOK' /\ LogStep /\ InHand
  <1>1. PICK c \in late : hist' = Committed(c) /\ late' = late \ {c}
    BY DEF CommitLate
  <1>2. c \in CasCmd /\ CommandOk(c)
    BY DEF IInv, TypeOK, CommandsOk
  <1>3. PendingOk /\ TodoOk
    BY Unchanged DEF CommitLate
  <1>4. /\ hist' \in Seq([Pod -> PodRec]) /\ hist' # <<>>
        /\ \A m \in Node : applied[m] \in 1..Len(hist')
    BY <1>1, <1>2, CommittedType DEF IInv
  <1>5. applied' \in [Node -> 1..Len(hist')]
    BY <1>4 DEF CommitLate, IInv, TypeOK
  <1>6. TypeOK'
    BY <1>1, <1>3, <1>4, <1>5 DEF CommitLate, IInv, TypeOK, TodoOk, PendingOk
  <1>7. LogStep
    BY <1>1, <1>2 DEF CommitLate, LogStep
  <1> QED BY <1>1, <1>3, <1>6, <1>7
          DEF CommitLate, InHand, TodoOk, PendingOk, IInv, SnapshotsOk, CommandsOk

\* A daemon dies: its lists are gone, its commands may be left behind.
LEMMA CrashStep ==
  ASSUME IInv, NEW n \in Node, Crash(n)
  PROVE  TypeOK' /\ LogStep /\ InHand
  <1> DEFINE none == [l \in Loops |-> {}]
  <1>1. /\ todo' = [todo EXCEPT ![n] = none]
        /\ pending' = [pending EXCEPT ![n] = none]
        /\ probe' = [probe EXCEPT ![n] = {}]
    BY DEF Crash
  <1>2. TodoOk
    BY <1>1 DEF IInv, TypeOK, SnapshotsOk, TodoOk
  <1>3. PendingOk
    BY <1>1 DEF IInv, TypeOK, CommandsOk, PendingOk
  <1>4. late' \in SUBSET CasCmd /\ \A c \in late' : CommandOk(c)
    BY DEF Crash, IInv, TypeOK, CommandsOk
  <1>5. running' \in [Node -> SUBSET Pod]
    BY DEF Crash, IInv, TypeOK
  <1>6. TypeOK'
    BY <1>2, <1>3, <1>4, <1>5, ProbeDone
       DEF Crash, Fault, IInv, TypeOK, TodoOk, PendingOk
  <1> QED BY <1>2, <1>3, <1>4, <1>6, ProbeDone
          DEF Crash, LogStep, InHand, TodoOk, PendingOk

\* Steps of the environment and the replicas: nothing in hand changes.
LEMMA OtherStep ==
  ASSUME IInv,
         \/ \E n \in Node : Replicate(n) \/ Restart(n)
         \/ \E n \in Node, p \in Pod : ContainerDies(n, p)
         \/ Tick \/ Terminating
  PROVE  TypeOK' /\ LogStep /\ InHand
  <1>1. ASSUME NEW n \in Node, Replicate(n)
        PROVE  TypeOK' /\ LogStep /\ InHand
    BY <1>1 DEF Replicate, IInv, TypeOK, LogStep, InHand, SnapshotsOk, CommandsOk
  <1>2. ASSUME NEW n \in Node, Restart(n)
        PROVE  TypeOK' /\ LogStep /\ InHand
    BY <1>2 DEF Restart, IInv, TypeOK, LogStep, InHand, SnapshotsOk, CommandsOk
  <1>3. ASSUME NEW n \in Node, NEW p \in Pod, ContainerDies(n, p)
        PROVE  TypeOK' /\ LogStep /\ InHand
    BY <1>3
    DEF ContainerDies, Fault, IInv, TypeOK, LogStep, InHand, SnapshotsOk, CommandsOk
  <1>4. CASE Tick
    BY <1>4 DEF Tick, IInv, TypeOK, LogStep, InHand, SnapshotsOk, CommandsOk
  <1>5. CASE Terminating
    BY <1>5
    DEF Terminating, vars, IInv, TypeOK, LogStep, InHand, SnapshotsOk, CommandsOk
  <1> QED BY <1>1, <1>2, <1>3, <1>4, <1>5

-----------------------------------------------------------------------------
(* The theorems.                                                           *)

\* The initial state satisfies the inductive invariant.
THEOREM InitInv == Init => IInv
  <1> SUFFICES ASSUME Init PROVE IInv
    OBVIOUS
  <1>1. \A p \in Pod : FreshPod(p) \in PodRec
    BY PodAssumption DEF FreshPod, PodRec, Status
  <1>2. TypeOK
    BY <1>1 DEF Init, TypeOK
  <1>3. Len(hist) = 1 /\ Store = [p \in Pod |-> FreshPod(p)]
    BY DEF Init, Store
  <1>4. HistoryOk
    <2> SUFFICES ASSUME NEW i \in 1..Len(hist), NEW p \in Pod
                 PROVE  /\ hist[i][p].id = p
                        /\ Sound(hist[i][p])
                        /\ Current(hist[i][p])
                        /\ Outlived(hist[i][p])
      BY DEF HistoryOk
    <2>1. hist[i][p] = FreshPod(p) /\ Store[p] = FreshPod(p)
      BY <1>3 DEF Init, Store
    <2>2. FreshPod(p).id = p /\ FreshPod(p).ver = 0 /\ FreshPod(p).lease = 0
      BY DEF FreshPod
    <2>3. FreshPod(p).status = "Pending" /\ FreshPod(p).node = NoNode
      BY DEF FreshPod
    <2> HIDE DEF FreshPod
    <2> QED BY <2>1, <2>2, <2>3 DEF Sound, Current, Outlived, Held
  <1>5. SnapshotsOk /\ CommandsOk
    BY DEF Init, SnapshotsOk, CommandsOk
  <1> QED BY <1>2, <1>4, <1>5 DEF IInv

\* What every step does, judged from a state that satisfies it.
LEMMA NextStep ==
  ASSUME IInv, [Next]_vars
  PROVE  TypeOK' /\ LogStep /\ InHand
  <1>1. ASSUME NEW n \in Node, NodeStep(n)
        PROVE  TypeOK' /\ LogStep /\ InHand
    BY <1>1, SchedPickStep, SchedPostStep, RenewFetchStep, RenewNextStep,
       AgentFetchStep, AgentStartStep, AgentSkipStep, AgentSeenStep,
       AgentKillStep, AgentProbeStep, CommitStep, FailStep, CrashStep, OtherStep
    DEF NodeStep
  <1>2. CASE Tick \/ Terminating
    BY <1>2, OtherStep
  <1>3. CASE CommitLate
    BY <1>3, CommitLateStep
  <1>4. CASE UNCHANGED vars
    BY <1>4 DEF vars, IInv, TypeOK, LogStep, InHand, SnapshotsOk, CommandsOk
  <1> QED BY <1>1, <1>2, <1>3, <1>4 DEF Next

\* Every step preserves the inductive invariant.
THEOREM NextInv == IInv /\ [Next]_vars => IInv'
  BY NextStep, Lift

\* The inductive invariant holds of every state of every behaviour.
THEOREM Invariance == Spec => []IInv
  BY InitInv, NextInv, PTL DEF Spec

\* Every variable has its type.
THEOREM TypeCorrect == Spec => []TypeOK
  <1>1. IInv => TypeOK
    BY DEF IInv
  <1> QED BY <1>1, Invariance, PTL

\* The version of a record names its content.
THEOREM VersionsName == Spec => []VersionNamesRecord
  <1>1. IInv => VersionNamesRecord
    BY DEF IInv, VersionNamesRecord, HistoryOk, SnapshotsOk, Fetched
  <1> QED BY <1>1, Invariance, PTL

\* No two nodes hold the lease of a pod, by their own replicas and clocks.
THEOREM OneHolder == Spec => []OneLeaseHolder
  <1>1. ASSUME IInv, NEW n \in Node, NEW p \in Pod, HoldsLease(n, p)
        PROVE  n = Store[p].node
    <2>1. /\ Outlived(Replica(n)[p]) /\ Replica(n)[p].id = p
          /\ Replica(n)[p] \in PodRec
      BY <1>1, StoreType DEF IInv, HistoryOk, Replica
    <2>2. Replica(n)[p].lease \in Nat /\ now + MaxSkew \in Nat
      BY <1>1, <2>1, SkewAssumption DEF PodRec, IInv, TypeOK
    <2> QED BY <1>1, <2>1, <2>2 DEF HoldsLease, Outlived
  <1>2. IInv => OneLeaseHolder
    BY <1>1 DEF OneLeaseHolder
  <1> QED BY <1>2, Invariance, PTL

\* What a step does to the current record of one pod.
LEMMA RecordStep ==
  ASSUME IInv, [Next]_vars, NEW p \in Pod
  PROVE  /\ Store[p] \in PodRec /\ Store'[p].lease \in Nat
         /\ \/ Store'[p] = Store[p]
            \/ /\ Store'[p].lease >= Store[p].lease
               /\ \/ Store'[p].node = Store[p].node
                  \/ ~Held(Store[p])
                  \/ Store[p].lease < now + MaxSkew
  <1>1. Store \in [Pod -> PodRec] /\ LogStep
    BY StoreType, NextStep DEF IInv
  <1>2. CASE hist' = hist
    BY <1>1, <1>2 DEF Store, PodRec
  <1>3. ASSUME NEW c \in CasCmd, CommandOk(c), c.exp = Store[c.val.id].ver,
               Store' = [Store EXCEPT ![c.val.id] = c.val]
        PROVE  /\ Store[p] \in PodRec /\ Store'[p].lease \in Nat
               /\ \/ Store'[p] = Store[p]
                  \/ /\ Store'[p].lease >= Store[p].lease
                     /\ \/ Store'[p].node = Store[p].node
                        \/ ~Held(Store[p])
                        \/ Store[p].lease < now + MaxSkew
    BY <1>1, <1>3 DEF CommandOk, CasCmd, PodRec
  <1>4. CASE \E c \in CasCmd : CommandOk(c) /\ hist' = Committed(c)
    BY <1>2, <1>3, <1>4, CommitStore DEF IInv
  <1> QED BY <1>1, <1>2, <1>4 DEF LogStep

\* Nobody takes a pod from an owner whose lease is in force.
THEOREM NoTheft == Spec => NoStealing
  <1> DEFINE A == \A p \in Pod :
                    Held(Store[p]) /\ Store'[p].node # Store[p].node
                      => Store[p].lease < now + MaxSkew
  <1>1. IInv /\ [Next]_vars => A
    BY RecordStep
  <1> HIDE DEF A
  <1>2. IInv /\ [Next]_vars => [A]_vars
    BY <1>1
  <1>3. Spec => [][A]_vars
    BY <1>2, Invariance, PTL DEF Spec
  <1> QED BY <1>3 DEF NoStealing, A

\* No step shortens a lease.
THEOREM LeasesGrow == Spec => LeaseNeverShrinks
  <1> DEFINE A == \A p \in Pod : Store'[p].lease >= Store[p].lease
  <1>1. IInv /\ [Next]_vars => A
    <2> SUFFICES ASSUME IInv, [Next]_vars, NEW p \in Pod
                 PROVE  Store'[p].lease >= Store[p].lease
      OBVIOUS
    <2> QED BY RecordStep DEF PodRec
  <1> HIDE DEF A
  <1>2. Spec => [][A]_vars
    BY <1>1, Invariance, PTL DEF Spec
  <1> QED BY <1>2 DEF LeaseNeverShrinks, A

-----------------------------------------------------------------------------
(* The refinement of Ownership.                                            *)

\* The end of every lease is within a TTL of now, by any clock.
LEMMA SoundBound ==
  ASSUME TypeOK, NEW r \in PodRec, Sound(r)
  PROVE  r.lease <= now + MaxSkew + TTL
  <1>1. now \in Nat /\ TTL \in Nat /\ r.lease \in Nat /\ MaxSkew \in Nat
    BY SkewAssumption, TTLAssumption DEF TypeOK, PodRec
  <1>2. \A n \in Node : Clock(n) \in Nat /\ Clock(n) <= now + MaxSkew
    BY <1>1, SkewAssumption DEF Clock
  <1> QED BY <1>1, <1>2 DEF Sound

\* An effective compare-and-swap renews the lease of its pod, or grants the pod.
LEMMA CommandOwns ==
  ASSUME IInv, NEW c \in CasCmd, CommandOk(c), c.exp = Store[c.val.id].ver,
         Store' = [Store EXCEPT ![c.val.id] = c.val], now' = now
  PROVE  Own!OwnNext
  <1> DEFINE p == c.val.id
             owner == [q \in Pod |-> Store[q].node]
             until == [q \in Pod |-> Store[q].lease]
  <1>1. /\ Store \in [Pod -> PodRec] /\ c.val \in PodRec /\ p \in Pod
        /\ now \in Nat /\ MaxSkew \in Nat /\ TTL \in Nat
    BY StoreType, SkewAssumption, TTLAssumption DEF IInv, TypeOK, CasCmd, PodRec
  <1>2. owner' = [owner EXCEPT ![p] = c.val.node]
    BY <1>1
  <1>3. until' = [until EXCEPT ![p] = c.val.lease]
    BY <1>1
  <1>4. c.val.lease \in until[p]..(now + MaxSkew + TTL)
    <2>1. c.val.lease \in Nat /\ until[p] \in Nat /\ c.val.lease >= until[p]
      BY <1>1 DEF CommandOk, PodRec
    <2>2. c.val.lease <= now + MaxSkew + TTL
      BY <1>1, SoundBound DEF CommandOk, IInv
    <2> QED BY <1>1, <2>1, <2>2
  <1>5. Own!Extended(p)
    BY <1>3, <1>4 DEF Own!Extended
  <1>6. c.val.node \in Node
    BY NodeAssumption DEF CommandOk, Sound, Held
  <1>7. Sound(Store[p]) /\ Store[p] \in PodRec
    BY <1>1, StoreType DEF IInv, HistoryOk, Store
  <1>8. CASE c.val.node = Store[p].node
    <2>1. owner' = owner /\ owner[p] # NoNode
      BY <1>1, <1>2, <1>6, <1>8, NodeAssumption
    <2> QED BY <1>1, <1>5, <2>1 DEF Own!OwnNext, Own!Renew
  <1>9. CASE ~Held(Store[p])
    <2>1. owner[p] = NoNode
      BY <1>1, <1>7, <1>9 DEF Sound
    <2> QED BY <1>1, <1>2, <1>5, <1>6, <2>1 DEF Own!OwnNext, Own!Grant
  <1>10. CASE Store[p].lease < now + MaxSkew
    BY <1>1, <1>2, <1>5, <1>6, <1>10 DEF Own!OwnNext, Own!Grant
  <1> QED BY <1>8, <1>9, <1>10 DEF CommandOk

\* The loops, the log and the replicas implement Ownership: a step of theirs
\* grants one pod, renews one lease, is a tick, or changes nothing of it.
THEOREM Refinement == Spec => ImplementsOwnership
  <1> DEFINE owner == [p \in Pod |-> Store[p].node]
             until == [p \in Pod |-> Store[p].lease]
  <1>1. Init => Own!OwnInit
    BY DEF Init, Own!OwnInit, Store, FreshPod
  <1>2. ASSUME IInv, [Next]_vars
        PROVE  [Own!OwnNext]_(Own!ownVars)
    <2>1. LogStep
      BY <1>2, NextStep
    <2>2. CASE hist' = hist
      <3>1. owner' = owner /\ until' = until
        BY <2>2 DEF Store
      <3>2. now' \in {now, now + 1}
        BY <2>1 DEF LogStep
      <3> QED BY <3>1, <3>2 DEF Own!OwnNext, Own!Advance, Own!ownVars
    <2>3. ASSUME NEW c \in CasCmd, CommandOk(c), hist' = Committed(c), now' = now,
                 hist' # hist
          PROVE  Own!OwnNext
      <3>1. /\ c.exp = Store[c.val.id].ver
            /\ Store' = [Store EXCEPT ![c.val.id] = c.val]
        BY <1>2, <2>3, CommitStore DEF IInv
      <3> QED BY <1>2, <2>3, <3>1, CommandOwns
    <2> QED BY <2>1, <2>2, <2>3 DEF LogStep
  <1> QED BY <1>1, <1>2, Invariance, PTL DEF Spec, ImplementsOwnership, Own!OwnSpec
=============================================================================
