------------------------ MODULE RollingUpdate_proofs ------------------------
(***************************************************************************)
(* The youngest pod of a service survives its rolling updates, and no pod  *)
(* is deleted by them before a younger one ran.                            *)
(***************************************************************************)
EXTENDS RollingUpdate, TLAPS

\* The three assumptions on constants that the proofs use, as facts.
LEMMA Ids ==
  /\ Pod \subseteq Nat \ {0}
  /\ First \in Pod /\ First \in Nat
  /\ NoPod \notin Pod /\ NoPod \in Nat
  <1>1. Pod \subseteq Nat \ {0}
    BY PodAssumption
  <1>2. QED
    BY <1>1, FirstAssumption DEF NoPod

\* Every record that an operation builds has the fields of a pod.
LEMMA FreshType ==
  ASSUME NEW p \in Pod
  PROVE  /\ FreshPod(p) \in PodRec
         /\ FreshPod(p).id = p
         /\ FreshPod(p).to = NoPod
  BY DEF FreshPod, PodRec, Status

\* So has the record written by a deployment with the same image,
LEMMA RedeployedType ==
  ASSUME NEW r \in PodRec
  PROVE  /\ Redeployed(r) \in PodRec
         /\ Redeployed(r).id = r.id
         /\ Redeployed(r).to = NoPod
  BY DEF Redeployed, FreshPod, PodRec, Status

\* the one with a link to its replacement,
LEMMA LinkedType ==
  ASSUME NEW r \in PodRec, NEW p \in Pod
  PROVE  /\ [r EXCEPT !.to = p] \in PodRec
         /\ [r EXCEPT !.to = p].id = r.id
         /\ [r EXCEPT !.to = p].to = p
  BY DEF PodRec

\* the one in a command to capture or renew, which keeps the link,
LEMMA TakenType ==
  ASSUME NEW r \in PodRec, NEW n \in Node
  PROVE  LET c == TryLockPod(r, n, 0) IN
         /\ c.op = "cas" /\ c.val \in PodRec
         /\ c.val.id = r.id /\ c.val.to = r.to
  <1> DEFINE st == IF r.status = "Pending" THEN "Scheduled" ELSE r.status
             end == 0 + TTL
             v == [r EXCEPT !.status = st, !.node = n, !.ver = r.ver + 1, !.lease = end]
  <1>1. v \in PodRec /\ v.id = r.id /\ v.to = r.to
    <2>1. st \in Status /\ end \in Nat /\ r.ver + 1 \in Nat
      BY TTLAssumption DEF PodRec, Status
    <2> HIDE DEF st, end
    <2> QED BY <2>1 DEF PodRec
  <1>2. TryLockPod(r, n, 0).op = "cas" /\ TryLockPod(r, n, 0).val = v
    BY DEF TryLockPod
  <1> HIDE DEF v
  <1> QED BY <1>1, <1>2

\* and the one in a report, which keeps it too.
LEMMA ReportedType ==
  ASSUME NEW r \in PodRec
  PROVE  LET c == UpdatePod([r EXCEPT !.status = "Running"]) IN
         /\ c.op = "cas" /\ c.val \in PodRec
         /\ c.val.id = r.id /\ c.val.to = r.to
  <1> DEFINE u == [r EXCEPT !.status = "Running"]
             v == [u EXCEPT !.ver = @ + 1]
  <1>1. u \in PodRec /\ u.id = r.id /\ u.to = r.to
    BY DEF PodRec, Status
  <1>2. UpdatePod(u).op = "cas" /\ UpdatePod(u).val = v
    BY DEF UpdatePod
  <1> HIDE DEF u
  <1>3. v \in PodRec /\ v.id = u.id /\ v.to = u.to
    BY <1>1 DEF PodRec
  <1> HIDE DEF v
  <1>4. UpdatePod(u).val \in PodRec /\ UpdatePod(u).val.id = r.id
        /\ UpdatePod(u).val.to = r.to
    BY <1>1, <1>2, <1>3
  <1> QED BY <1>2, <1>4 DEF u

\* What the two commands that change a table leave of it.
LEMMA PutDomain ==
  ASSUME NEW s, NEW r \in PodRec
  PROVE  /\ DOMAIN Put(s, r) = DOMAIN s \cup {r.id}
         /\ Put(s, r)[r.id] = r
         /\ \A p \in DOMAIN s : p # r.id => Put(s, r)[p] = s[p]
  BY DEF Put

\* Deleting takes one pod away and leaves the others as they are.
LEMMA DelDomain ==
  ASSUME NEW s, NEW p
  PROVE  LET t == Apply(s, [op |-> "del", id |-> p]) IN
         /\ DOMAIN t = DOMAIN s \ {p}
         /\ \A q \in DOMAIN t : t[q] = s[q]
  BY DEF Apply

-----------------------------------------------------------------------------
(* The invariant without the requests, and the two ways a table changes.   *)

TableType ==
  /\ DOMAIN store \subseteq Pod
  /\ store \in [DOMAIN store -> PodRec]
  /\ seen \subseteq PodRec
  /\ doomed \subseteq Pod
  /\ made \in Nat

TableInv == TableType /\ RecordsOk /\ DoomedOk /\ LatestSurvives

\* If the new table is sound, so is what the loops make of it.
LEMMA InstallKeeps ==
  ASSUME TableInv, NEW s, Install(s), made' = made,
         DOMAIN s \subseteq Pod, s \in [DOMAIN s -> PodRec],
         \A p \in DOMAIN s : /\ s[p].id = p /\ p <= made
                             /\ s[p].to = NoPod \/ s[p].to > p
  PROVE  TableType' /\ RecordsOk' /\ DoomedOk'
  <1>1. store' = s /\ seen' = seen \cup { s[p] : p \in DOMAIN s }
        /\ doomed' = doomed \cup Superseded(s)
    BY DEF Install
  <1>2. TableType'
    BY <1>1 DEF TableInv, TableType, Superseded
  <1>3. RecordsOk'
    <2>1. \A r \in seen : r.id <= made /\ (r.to = NoPod \/ r.to > r.id)
      BY DEF TableInv, RecordsOk
    <2>2. \A p \in DOMAIN s : s[p].id <= made /\ (s[p].to = NoPod \/ s[p].to > s[p].id)
      OBVIOUS
    <2>3. QED
      BY <1>1, <2>1, <2>2 DEF RecordsOk
  <1>4. DoomedOk'
    <2>1. ASSUME NEW p \in Superseded(s)
          PROVE  \E r \in seen' : r.id > p /\ r.status = "Running"
      <3>1. p \in DOMAIN s /\ s[p].to \in DOMAIN s /\ s[s[p].to].status = "Running"
        BY <2>1 DEF Superseded
      <3>2. s[p].to > p
        BY <3>1, Ids
      <3>3. s[s[p].to] \in seen' /\ s[s[p].to].id = s[p].to
        BY <3>1, <1>1
      <3>4. QED
        BY <3>1, <3>2, <3>3
    <2>2. \A p \in doomed : \E r \in seen' : r.id > p /\ r.status = "Running"
      BY <1>1 DEF TableInv, DoomedOk
    <2>3. QED
      BY <1>1, <2>1, <2>2 DEF DoomedOk
  <1>5. QED
    BY <1>2, <1>3, <1>4

\* Writing a pod keeps the invariant: it takes no pod away.
LEMMA PutKeeps ==
  ASSUME TableInv, NEW r \in PodRec, Install(Put(store, r)), made' = made,
         r.id <= made, r.to = NoPod \/ r.to > r.id
  PROVE  TableInv'
  <1> DEFINE s == Put(store, r)
  <1>1. /\ DOMAIN s = DOMAIN store \cup {r.id}
        /\ s[r.id] = r
        /\ \A p \in DOMAIN store : p # r.id => s[p] = store[p]
    BY PutDomain
  <1>2. r.id \in Pod /\ DOMAIN s \subseteq Pod
    BY <1>1 DEF TableInv, TableType, PodRec
  <1>3. \A p \in DOMAIN s : s[p] \in PodRec
    BY <1>1 DEF TableInv, TableType
  <1>4. s \in [DOMAIN s -> PodRec]
    BY <1>3 DEF Put
  <1>5. ASSUME NEW p \in DOMAIN s
        PROVE  /\ s[p].id = p /\ p <= made
               /\ s[p].to = NoPod \/ s[p].to > p
    BY <1>1 DEF TableInv, RecordsOk
  <1>6. TableType' /\ RecordsOk' /\ DoomedOk'
    <2> HIDE DEF s
    <2>1. Install(s)
      BY DEF s
    <2>2. QED
      BY <2>1, <1>2, <1>4, <1>5, InstallKeeps
  <1>7. LatestSurvives'
    <2>1. store' = s /\ seen' = seen \cup { s[p] : p \in DOMAIN s }
      BY DEF Install
    <2>2. \A q \in seen' : q \in seen \/ q = r
      BY <2>1, <1>1 DEF TableInv, RecordsOk
    <2>3. \A q \in seen : q.id \in Nat
      BY Ids DEF TableInv, TableType, PodRec
    <2>4. r.id \in Nat
      BY <1>2, Ids
    <2>5. CASE seen = {}
      <3>1. \A x \in seen' : x.id <= r.id
        BY <2>2, <2>4, <2>5
      <3>2. r.id \in DOMAIN store'
        BY <2>1, <1>1
      <3> QED BY <3>1, <3>2 DEF LatestSurvives
    <2>6. CASE seen # {}
      <3>1. PICK q \in DOMAIN store : \A x \in seen : x.id <= q
        BY <2>6 DEF TableInv, LatestSurvives
      <3>2. q \in Nat
        BY <3>1, Ids DEF TableInv, TableType
      <3>3. CASE r.id <= q
        BY <3>1, <3>3, <2>1, <2>2, <1>1 DEF LatestSurvives
      <3>4. CASE r.id > q
        <4>1. \A x \in seen' : x.id <= r.id
          BY <3>1, <3>2, <3>4, <2>2, <2>3, <2>4
        <4>2. r.id \in DOMAIN store'
          BY <2>1, <1>1
        <4>3. QED
          BY <4>1, <4>2 DEF LatestSurvives
      <3>5. QED
        BY <3>2, <3>3, <3>4, <2>4
    <2>7. QED
      BY <2>5, <2>6
  <1>8. QED
    BY <1>6, <1>7 DEF TableInv

\* So does deleting a doomed pod, since it is not the youngest.
LEMMA DelKeeps ==
  ASSUME TableInv, NEW p \in doomed,
         Install(Apply(store, [op |-> "del", id |-> p])), made' = made
  PROVE  TableInv'
  <1> DEFINE s == Apply(store, [op |-> "del", id |-> p])
  <1>1. /\ DOMAIN s = DOMAIN store \ {p}
        /\ \A q \in DOMAIN s : s[q] = store[q]
    BY DelDomain
  <1>2. DOMAIN s \subseteq Pod
    BY <1>1 DEF TableInv, TableType
  <1>3. \A q \in DOMAIN s : s[q] \in PodRec
    BY <1>1 DEF TableInv, TableType
  <1>4. s \in [DOMAIN s -> PodRec]
    BY <1>3 DEF Apply
  <1>5. ASSUME NEW q \in DOMAIN s
        PROVE  /\ s[q].id = q /\ q <= made
               /\ s[q].to = NoPod \/ s[q].to > q
    BY <1>1 DEF TableInv, RecordsOk
  <1>6. TableType' /\ RecordsOk' /\ DoomedOk'
    <2> HIDE DEF s
    <2>1. Install(s)
      BY DEF s
    <2>2. QED
      BY <2>1, <1>2, <1>4, <1>5, InstallKeeps
  <1>7. LatestSurvives'
    <2>1. store' = s /\ seen' = seen \cup { s[q] : q \in DOMAIN s }
      BY DEF Install
    <2>2. seen' = seen
      BY <2>1, <1>1 DEF TableInv, RecordsOk
    <2>3. PICK r \in seen : r.id > p
      BY DEF TableInv, DoomedOk
    <2>4. PICK q \in DOMAIN store : \A x \in seen : x.id <= q
      BY <2>3 DEF TableInv, LatestSurvives
    <2>5. p \in Nat /\ q \in Nat /\ r.id \in Nat
      BY <2>3, <2>4, Ids DEF TableInv, TableType, PodRec
    <2>6. q # p
      BY <2>3, <2>4, <2>5
    <2>7. QED
      BY <2>1, <2>2, <2>4, <2>6, <1>1 DEF LatestSurvives
  <1>8. QED
    BY <1>6, <1>7 DEF TableInv

-----------------------------------------------------------------------------
(* The invariant and the requests.                                         *)

DeploysType == deploys \subseteq Linking \cup Creating

\* The invariant is about the table on one side and the requests on the other.
LEMMA Split == RuInv => TableInv /\ DeploysType /\ DeploysOk
  BY DEF RuInv, TypeOK, TableInv, TableType, DeploysType

\* The two sides together are the invariant.
LEMMA Join == TableInv' /\ DeploysType' /\ DeploysOk' => RuInv'
  BY DEF RuInv, TypeOK, TableInv, TableType, DeploysType

\* An empty table satisfies the invariant.
LEMMA InitRuInv == RuInit => RuInv
  <1> SUFFICES ASSUME RuInit PROVE RuInv
    OBVIOUS
  <1>1. DOMAIN store = {} /\ store \in [DOMAIN store -> PodRec]
    BY DEF RuInit
  <1>2. TypeOK
    BY <1>1, Ids DEF RuInit, TypeOK
  <1>3. RecordsOk /\ DeploysOk /\ DoomedOk /\ LatestSurvives
    BY <1>1, Ids DEF RuInit, RecordsOk, DeploysOk, DoomedOk, LatestSurvives
  <1> QED BY <1>2, <1>3 DEF RuInv

\* What a request in progress sets.
LEMMA WrittenType ==
  ASSUME RuInv, NEW d \in deploys
  PROVE  /\ Written(d) \in PodRec
         /\ Written(d).id <= made
         /\ Written(d).to = NoPod \/ Written(d).to > Written(d).id
  <1>1. CASE d.at = "link"
    <2>1. d.old \in PodRec /\ d.pod \in Pod
      BY <1>1 DEF RuInv, TypeOK, Linking, Creating
    <2>2. Written(d) = [d.old EXCEPT !.to = d.pod]
      BY <1>1 DEF Written
    <2>3. Written(d) \in PodRec /\ Written(d).id = d.old.id /\ Written(d).to = d.pod
      BY <2>1, <2>2, LinkedType
    <2>4. d.old \in seen /\ d.pod > d.old.id
      BY <1>1 DEF RuInv, DeploysOk
    <2>5. d.old.id <= made
      BY <2>4 DEF RuInv, RecordsOk
    <2> QED BY <2>3, <2>4, <2>5
  <1>2. CASE d.at # "link"
    <2>1. Written(d) = d.val /\ d.val \in PodRec
      BY <1>2 DEF Written, RuInv, TypeOK, Linking, Creating
    <2>2. d.val.to = NoPod /\ d.val.id <= made
      BY <1>2 DEF RuInv, DeploysOk
    <2> QED BY <2>1, <2>2
  <1> QED BY <1>1, <1>2

\* A request that has written is over, or goes on with a pod that is younger.
LEMMA RequestsKept ==
  ASSUME RuInv, made' = made, seen \subseteq seen',
         deploys' \subseteq deploys
  PROVE  DeploysType' /\ DeploysOk'
  BY DEF RuInv, TypeOK, DeploysType, DeploysOk

\* A compare-and-swap of a loop keeps the link and the identifier of its record.
LEMMA SwapKeeps ==
  ASSUME RuInv, NEW r \in seen, NEW c, Swap(c), c.op = "cas", c.val \in PodRec,
         c.val.id = r.id, c.val.to = r.to
  PROVE  RuInv'
  <1>1. Apply(store, c) = Put(store, c.val)
    BY DEF Swap, Apply
  <1>2. Install(Put(store, c.val)) /\ made' = made /\ deploys' = deploys
    BY <1>1 DEF Swap
  <1>3. c.val.id <= made /\ (c.val.to = NoPod \/ c.val.to > c.val.id)
    BY DEF RuInv, RecordsOk
  <1>4. TableInv'
    BY <1>2, <1>3, Split, PutKeeps
  <1>5. DeploysType' /\ DeploysOk'
    BY <1>2, RequestsKept DEF Install
  <1> QED BY <1>4, <1>5, Join

\* A request that has read the table links to a younger pod, or links nothing.
LEMMA DeployKeeps == RuInv /\ Deploy => RuInv'
  <1> SUFFICES ASSUME RuInv, Deploy PROVE RuInv'
    OBVIOUS
  <1>1. made \in Nat /\ made' = made + 1 /\ made' \in Nat
    BY DEF Deploy, RuInv, TypeOK
  <1>2. TableInv'
    <2>1. store' = store /\ seen' = seen /\ doomed' = doomed
      BY DEF Deploy
    <2>2. \A r \in seen : r.id \in Nat
      BY Ids DEF RuInv, TypeOK, PodRec
    <2>3. RecordsOk'
      BY <2>1, <2>2, <1>1 DEF RuInv, RecordsOk
    <2>4. TableType' /\ DoomedOk' /\ LatestSurvives'
      BY <2>1, <1>1 DEF RuInv, TypeOK, TableType, DoomedOk, LatestSurvives
    <2> QED BY <2>3, <2>4 DEF TableInv
  <1>3. PICK d \in Linking \cup Creating :
          /\ deploys' = deploys \cup {d}
          /\ IF d.at = "link" THEN d.old \in seen /\ d.pod > d.old.id /\ d.pod <= made'
                              ELSE d.val.to = NoPod /\ d.val.id <= made'
    <2>1. CASE deploys' = deploys \cup {[at |-> "create", val |-> FreshPod(First)]}
      <3> DEFINE d == [at |-> "create", val |-> FreshPod(First)]
      <3>1. d \in Creating /\ d.at = "create" /\ d.val.to = NoPod /\ d.val.id = First
        BY FreshType, Ids DEF Creating
      <3>2. First <= made'
        BY <1>1, Ids DEF RuInv, DeploysOk
      <3> HIDE DEF d
      <3> QED BY <2>1, <3>1, <3>2 DEF d
    <2>2. ASSUME NEW p \in Free
          PROVE  store[p] \in PodRec /\ store[p] \in seen /\ store[p].id \in Nat
                 /\ store[p].id <= made
      BY Ids DEF Free, RuInv, TypeOK, RecordsOk, PodRec
    <2>3. ASSUME NEW p \in Free, made' \in Pod,
                 deploys' = deploys \cup
                   {[at |-> "link", old |-> store[p], pod |-> made']}
          PROVE  \E d \in Linking \cup Creating :
                   /\ deploys' = deploys \cup {d}
                   /\ IF d.at = "link"
                      THEN d.old \in seen /\ d.pod > d.old.id /\ d.pod <= made'
                      ELSE d.val.to = NoPod /\ d.val.id <= made'
      <3> DEFINE d == [at |-> "link", old |-> store[p], pod |-> made']
      <3>1. d \in Linking /\ d.at = "link" /\ d.old = store[p] /\ d.pod = made'
        BY <2>2, <2>3 DEF Linking
      <3>2. d.old \in seen /\ d.pod > d.old.id /\ d.pod <= made'
        BY <2>2, <3>1, <1>1
      <3> HIDE DEF d
      <3> QED BY <2>3, <3>1, <3>2 DEF d
    <2>4. ASSUME NEW p \in Free,
                 deploys' = deploys \cup
                   {[at |-> "create", val |-> Redeployed(store[p])]}
          PROVE  \E d \in Linking \cup Creating :
                   /\ deploys' = deploys \cup {d}
                   /\ IF d.at = "link"
                      THEN d.old \in seen /\ d.pod > d.old.id /\ d.pod <= made'
                      ELSE d.val.to = NoPod /\ d.val.id <= made'
      <3> DEFINE d == [at |-> "create", val |-> Redeployed(store[p])]
      <3>1. d \in Creating /\ d.at = "create" /\ d.val.to = NoPod
            /\ d.val.id = store[p].id
        BY <2>2, RedeployedType DEF Creating
      <3>2. d.val.id <= made'
        BY <2>2, <3>1, <1>1
      <3> HIDE DEF d
      <3> QED BY <2>4, <3>1, <3>2 DEF d
    <2> QED BY <2>1, <2>3, <2>4 DEF Deploy
  <1>4. DeploysType'
    BY <1>3 DEF RuInv, TypeOK, DeploysType
  <1>5. DeploysOk'
    <2>1. First <= made'
      BY <1>1, Ids DEF RuInv, DeploysOk
    <2>2. seen' = seen
      BY DEF Deploy
    <2>3. ASSUME NEW e \in deploys
          PROVE  IF e.at = "link"
                 THEN e.old \in seen' /\ e.pod > e.old.id /\ e.pod <= made'
                 ELSE e.val.to = NoPod /\ e.val.id <= made'
      <3>1. e.at = "link" => e.pod \in Nat
        BY Ids DEF RuInv, TypeOK, Linking, Creating
      <3>2. e.at # "link" => e.val.id \in Nat
        BY Ids DEF RuInv, TypeOK, Linking, Creating, PodRec
      <3> QED BY <3>1, <3>2, <2>2, <1>1 DEF RuInv, DeploysOk
    <2> QED BY <2>1, <2>2, <2>3, <1>3 DEF DeploysOk
  <1> QED BY <1>2, <1>4, <1>5, Join

\* Writing the link takes no pod away.
LEMMA LinkKeeps ==
  ASSUME RuInv, NEW d \in deploys, Link(d)
  PROVE  RuInv'
  <1> DEFINE e == [at |-> "create", val |-> FreshPod(d.pod)]
  <1>1. TableInv'
    BY WrittenType, Split, PutKeeps DEF Link
  <1>2. deploys' = (deploys \ {d}) \cup {e} /\ made' = made /\ seen \subseteq seen'
    BY DEF Link, Install
  <1>3. d.pod \in Pod /\ d.pod <= made
    BY DEF Link, RuInv, TypeOK, DeploysOk, Linking, Creating
  <1>4. e \in Creating /\ e.at = "create" /\ e.val.to = NoPod /\ e.val.id <= made
    BY <1>3, FreshType DEF Creating
  <1> HIDE DEF e
  <1>5. DeploysType' /\ DeploysOk'
    BY <1>2, <1>4 DEF RuInv, TypeOK, DeploysType, DeploysOk
  <1> QED BY <1>1, <1>5, Join

\* Nor does writing the pod.
LEMMA CreateKeeps ==
  ASSUME RuInv, NEW d \in deploys, Create(d)
  PROVE  RuInv'
  <1>1. TableInv'
    BY WrittenType, Split, PutKeeps DEF Create
  <1>2. DeploysType' /\ DeploysOk'
    BY RequestsKept DEF Create, Install
  <1> QED BY <1>1, <1>2, Join

\* Nor does a write that fails, whether or not it takes effect.
LEMMA DeployFailsKeeps ==
  ASSUME RuInv, NEW d \in deploys, DeployFails(d)
  PROVE  RuInv'
  <1>1. TableInv /\ made' = made
    BY Split DEF DeployFails
  <1>2. ASSUME Install(Put(store, Written(d))) PROVE TableInv'
    BY <1>1, <1>2, WrittenType, PutKeeps
  <1>3. ASSUME Install(store) PROVE TableInv'
    <2> DEFINE s == store
    <2>1. ASSUME NEW p \in DOMAIN s
          PROVE  /\ s[p].id = p /\ p <= made
                 /\ s[p].to = NoPod \/ s[p].to > p
      BY DEF RuInv, RecordsOk
    <2>2. DOMAIN s \subseteq Pod /\ s \in [DOMAIN s -> PodRec] /\ Install(s)
      BY <1>3 DEF RuInv, TypeOK
    <2>3. TableType' /\ RecordsOk' /\ DoomedOk'
      <3> HIDE DEF s
      <3> QED BY <1>1, <2>1, <2>2, InstallKeeps
    <2>4. store' = store /\ seen' = seen
      BY <1>3 DEF Install, RuInv, RecordsOk
    <2>5. LatestSurvives'
      BY <2>4 DEF RuInv, LatestSurvives
    <2> QED BY <2>3, <2>5 DEF TableInv
  <1>4. TableInv'
    BY <1>2, <1>3 DEF DeployFails
  <1>5. deploys' \subseteq deploys /\ seen \subseteq seen'
    BY DEF DeployFails, Install
  <1>6. DeploysType' /\ DeploysOk'
    BY <1>1, <1>5, RequestsKept
  <1> QED BY <1>4, <1>6, Join

\* Every step keeps the invariant.
LEMMA NextRuInv == RuInv /\ [RuNext]_ruVars => RuInv'
  <1> SUFFICES ASSUME RuInv, [RuNext]_ruVars PROVE RuInv'
    OBVIOUS
  <1>1. CASE Deploy
    BY <1>1, DeployKeeps
  <1>2. ASSUME NEW d \in deploys, Link(d) \/ Create(d) \/ DeployFails(d)
        PROVE  RuInv'
    BY <1>2, LinkKeeps, CreateKeeps, DeployFailsKeeps
  <1>3. ASSUME NEW r \in seen, NEW n \in Node, Take(n, r)
        PROVE  RuInv'
    <2>1. r \in PodRec
      BY DEF RuInv, TypeOK
    <2>2. Swap(TryLockPod(r, n, 0))
      BY <1>3 DEF Take
    <2> QED BY <2>1, <2>2, TakenType, SwapKeeps
  <1>4. ASSUME NEW r \in seen, Report(r)
        PROVE  RuInv'
    <2>1. r \in PodRec
      BY DEF RuInv, TypeOK
    <2>2. Swap(UpdatePod([r EXCEPT !.status = "Running"]))
      BY <1>4 DEF Report
    <2> QED BY <2>1, <2>2, ReportedType, SwapKeeps
  <1>5. ASSUME NEW p \in Pod, DeleteOld(p)
        PROVE  RuInv'
    <2>1. TableInv'
      BY <1>5, DelKeeps, Split DEF DeleteOld
    <2>2. DeploysType' /\ DeploysOk'
      BY <1>5, RequestsKept DEF DeleteOld, Install
    <2> QED BY <2>1, <2>2, Join
  <1>6. CASE UNCHANGED ruVars
    BY <1>6 DEF ruVars, RuInv, TypeOK, RecordsOk, DeploysOk, DoomedOk, LatestSurvives
  <1>7. CASE Terminating
    BY <1>7, <1>6 DEF Terminating
  <1> QED BY <1>1, <1>2, <1>3, <1>4, <1>5, <1>6, <1>7 DEF RuNext

-----------------------------------------------------------------------------
(* The theorems.                                                           *)

\* The invariant of RollingUpdate holds for any number of pods, nodes and
\* overlapping deployments.
THEOREM RuInvariance == RuSpec => []RuInv
  <1> QED BY InitRuInv, NextRuInv, PTL DEF RuSpec

\* The youngest pod of a service is in the table from its creation on.
THEOREM Survival == RuSpec => []LatestSurvives
  <1>1. RuInv => LatestSurvives
    BY DEF RuInv
  <1> QED BY <1>1, RuInvariance, PTL

\* A reconcile round deletes a pod only after a younger one ran.
THEOREM NoEarlyDeletion == RuSpec => ReplacedOnceRunning
  <1> DEFINE A == \A p \in DOMAIN store \ DOMAIN store' :
                    \E r \in seen : r.id > p /\ r.status = "Running"
  <1>1. RuInv /\ [RuNext]_ruVars => [A]_ruVars
    <2> SUFFICES ASSUME RuInv, RuNext PROVE A
      OBVIOUS
    <2>1. ASSUME NEW p \in Pod, DeleteOld(p)
          PROVE  A
      <3>1. DOMAIN store' = DOMAIN store \ {p} /\ p \in doomed
        BY <2>1, DelDomain DEF DeleteOld, Install
      <3> QED BY <3>1 DEF RuInv, DoomedOk
    <2>2. ASSUME NEW r \in PodRec, Install(Put(store, r))
          PROVE  A
      <3>1. DOMAIN Put(store, r) = DOMAIN store \cup {r.id}
        BY PutDomain
      <3>2. store' = Put(store, r)
        BY <2>2 DEF Install
      <3> QED BY <3>1, <3>2
    <2>3. ASSUME store' = store
          PROVE  A
      BY <2>3
    <2>4. ASSUME NEW r \in seen, Report(r) \/ \E n \in Node : Take(n, r)
          PROVE  A
      <3>1. ASSUME NEW c, Swap(c), c.op = "cas", c.val \in PodRec
            PROVE  A
        BY <3>1, <2>2 DEF Swap, Apply
      <3>2. r \in PodRec
        BY DEF RuInv, TypeOK
      <3>3. CASE Report(r)
        BY <3>1, <3>2, <3>3, ReportedType DEF Report
      <3>4. ASSUME NEW n \in Node, Take(n, r)
            PROVE  A
        BY <3>1, <3>2, <3>4, TakenType DEF Take
      <3> QED BY <2>4, <3>3, <3>4
    <2>5. ASSUME NEW d \in deploys, Link(d) \/ Create(d) \/ DeployFails(d)
          PROVE  A
      <3>1. CASE Link(d) \/ Create(d)
        BY <3>1, <2>2, WrittenType DEF Link, Create
      <3>2. CASE DeployFails(d)
        <4>1. CASE Install(Put(store, Written(d)))
          BY <4>1, <2>2, WrittenType
        <4>2. CASE Install(store)
          BY <4>2, <2>3 DEF Install
        <4> QED BY <3>2, <4>1, <4>2 DEF DeployFails
      <3> QED BY <2>5, <3>1, <3>2
    <2>6. CASE Deploy \/ Terminating
      BY <2>6, <2>3 DEF Deploy, Terminating, ruVars
    <2> QED BY <2>1, <2>4, <2>5, <2>6 DEF RuNext
  <1> QED BY <1>1, RuInvariance, PTL DEF RuSpec, ReplacedOnceRunning
=============================================================================
