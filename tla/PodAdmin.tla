------------------------------ MODULE PodAdmin ------------------------------
(***************************************************************************)
(* The requests of users against the loops of PodLeases: deleting a pod,   *)
(* restarting it, deploying its compose file again and uploading a project *)
(* that has it (api.go).  These write with "set" and "del", which compare  *)
(* no version, from a record that the leader read before, if any.  Only    *)
(* the leader serves them with success, so they read the committed table;  *)
(* loops may commit in between.                                            *)
(*                                                                         *)
(* Deploying with a changed image is in RollingUpdate.                     *)
(***************************************************************************)
EXTENDS PodLeases

CONSTANT MaxRequests     \* bound of the model: user requests in a behaviour

ASSUME RequestAssumption == MaxRequests \in Nat

VARIABLES
  writes,     \* records that a request has read, changed and is about to set
  requests    \* number of requests so far

adminVars == <<hist, applied, todo, probe, pending, late, running, up, now, faults,
               writes, requests>>

AdminInit == Init /\ writes = {} /\ requests = 0

Request == requests < MaxRequests /\ requests' = requests + 1

\* HandleRestartPod gives the pod back to the schedulers.
Released(r) == [r EXCEPT !.status = "Pending", !.node = NoNode, !.ver = @ + 1]

\* HandleRestartPod up to raft.Apply.
RestartRead(p) ==
  /\ Request
  /\ p \in DOMAIN Store
  /\ writes' = writes \cup {[op |-> "set", val |-> Released(Store[p])]}
  /\ UNCHANGED vars

\* HandleCompose up to raft.Apply: a new pod, or one it has found by its BaseID.
ComposeRead(p) ==
  /\ Request
  /\ \/ /\ p \in DOMAIN Store
        /\ writes' = writes \cup
             {[op |-> "set", val |-> Redeployed(Store[p])]}
     \/ /\ p \notin DOMAIN Store
        /\ writes' = writes \cup {[op |-> "set", val |-> FreshPod(p)]}
  /\ UNCHANGED vars

\* HandleUploadSource and HandleDeployGit up to raft.Apply: a new pod, whether
\* there is one of that name or not.
Upload(p) ==
  /\ Request
  /\ writes' = writes \cup {[op |-> "set", val |-> FreshPod(p)]}
  /\ UNCHANGED vars

Write(c) ==
  /\ writes' = writes \ {c}
  /\ hist' = Append(hist, Apply(Store, c))
  /\ UNCHANGED <<applied, todo, probe, pending, late, running, up, now, faults, requests>>

\* raft.Apply fails for good: the leader is gone, or gives the request up.
WriteFails(c) ==
  /\ Fault
  /\ writes' = writes \ {c}
  /\ UNCHANGED <<hist, applied, todo, probe, pending, late, running, up, now, requests>>

\* HandleDeletePod.
Delete(p) ==
  /\ Request
  /\ p \in DOMAIN Store
  /\ hist' = Append(hist, Apply(Store, [op |-> "del", id |-> p]))
  /\ UNCHANGED <<applied, todo, probe, pending, late, running, up, now, faults, writes>>

AdminNext ==
  \/ Next /\ UNCHANGED <<writes, requests>>
  \/ \E p \in Pod : RestartRead(p) \/ ComposeRead(p) \/ Upload(p) \/ Delete(p)
  \/ \E c \in writes : Write(c) \/ WriteFails(c)

AdminSpec == AdminInit /\ [][AdminNext]_adminVars

AdminFairness ==
  /\ WF_adminVars(\E c \in writes : Write(c) \/ WriteFails(c))
  /\ WF_adminVars(Tick /\ UNCHANGED <<writes, requests>>)
  /\ \A n \in Node :
       /\ WF_adminVars(SchedPick(n) /\ UNCHANGED <<writes, requests>>)
       /\ WF_adminVars(SchedPost(n) /\ UNCHANGED <<writes, requests>>)
       /\ WF_adminVars(AgentFetch(n) /\ UNCHANGED <<writes, requests>>)
       /\ WF_adminVars((AgentStart(n) \/ AgentSkip(n) \/ AgentSeen(n))
                         /\ UNCHANGED <<writes, requests>>)
       /\ WF_adminVars((AgentKill(n) \/ AgentProbe(n)) /\ UNCHANGED <<writes, requests>>)
       /\ WF_adminVars(Replicate(n) /\ UNCHANGED <<writes, requests>>)
       /\ WF_adminVars(Restart(n) /\ UNCHANGED <<writes, requests>>)
       /\ \A l \in Loops :
            WF_adminVars((Commit(n, l) \/ Fail(n, l)) /\ UNCHANGED <<writes, requests>>)

FairAdminSpec == AdminSpec /\ AdminFairness

-----------------------------------------------------------------------------
(* The type invariant, and the inductive invariant behind what follows.    *)

\* The pod tables there have been; pods may be missing from one now.
Tables == { hist[i] : i \in 1..Len(hist) }

IsTable(t) == DOMAIN t \subseteq Pod /\ t \in [DOMAIN t -> PodRec]

AdminTypeOK ==
  /\ hist \in Seq(Tables) /\ hist # <<>>
  /\ \A t \in Tables : IsTable(t)
  /\ applied \in [Node -> 1..Len(hist)]
  /\ todo \in [Node -> [Loops -> SUBSET PodRec]]
  /\ probe \in [Node -> SUBSET PodRec]
  /\ pending \in [Node -> [Loops -> SUBSET CasCmd]]
  /\ late \in SUBSET CasCmd
  /\ running \in [Node -> SUBSET Pod]
  /\ up \in [Node -> BOOLEAN]
  /\ now \in Nat /\ faults \in Nat /\ requests \in Nat
  /\ writes \in SUBSET SetCmd

\* Every capture raises the version: a record of version 0 has had no owner yet.
NewIsPending(r) == r.ver = 0 => r.status = "Pending"

\* What a compare-and-swap that was made from such records may bring back.
FirstCapture(c) ==
  /\ c.val.ver = c.exp + 1
  /\ c.exp = 0 => c.val.status = "Scheduled"

\* Redeploying and restarting keep to it, so it holds of every record that is,
\* was or will be in a table, wherever a loop or a request keeps it.
AdminInv ==
  /\ AdminTypeOK
  /\ \A t \in Tables : \A p \in DOMAIN t : NewIsPending(t[p])
  /\ \A n \in Node : \A l \in Loops : \A r \in todo[n][l] :
       NewIsPending(r) /\ (l # "sched" => Held(r))
  /\ \A n \in Node : \A r \in probe[n] : NewIsPending(r) /\ Held(r)
  /\ \A n \in Node : \A l \in Loops : \A c \in pending[n][l] : FirstCapture(c)
  /\ \A c \in late : FirstCapture(c)
  /\ \A c \in writes : NewIsPending(c.val)

-----------------------------------------------------------------------------
(* What still holds.                                                       *)

\* FSM.Apply compares an absent pod as version 0.  So of all the commands that
\* the loops have in flight when a pod is deleted, built from whatever record
\* they had read, only those that capture a pod just deployed bring it back:
\* no renewal and no report of the agent does.
OnlyFirstCaptureRevives ==
  [][\A p \in Pod :
       UNCHANGED writes /\ p \notin DOMAIN Store /\ p \in DOMAIN Store'
         => Store'[p].ver = 1 /\ Store'[p].status = "Scheduled"]_adminVars

\* A pod that waits is captured or deleted in the end, although requests take
\* it away from its captors and make their commands fail.
PendingIsCaptured ==
  \A p \in Pod :
    (p \in DOMAIN Store /\ Store[p].status = "Pending")
      ~> (p \notin DOMAIN Store \/ Held(Store[p]))

-----------------------------------------------------------------------------
(* What the documents say and a deployment breaks.                         *)

\* "If a node dies, its workloads are instantly rescheduled": a scheduler takes
\* a held pod only once its lease is past, so a pod of a dead node has a lease.
DeadOwnerExpires ==
  \A p \in DOMAIN Store :
    Held(Store[p]) /\ ~up[Store[p].node] => Store[p].lease > 0
=============================================================================
