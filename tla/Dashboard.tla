------------------------------ MODULE Dashboard ------------------------------
(***************************************************************************)
(* The web dashboard (src/ui/src/App.jsx, component App): the poll that    *)
(* reads /stats and /pods every five seconds, the list of pods, the cards  *)
(* of the Projects page, the saved API token, and the window "Deploy       *)
(* Complex Project" with the asynchronous handler of its Deploy button.    *)
(* Polls are not serialised: the timer starts one whether or not the last  *)
(* has ended.  A handler keeps the render it was created in, so it reads   *)
(* the form and the cards as they were when the button was pressed.        *)
(***************************************************************************)
EXTENDS Naturals, Sequences, FiniteSets

CONSTANTS
  Pod,          \* pods of the cluster
  Project,      \* names of projects
  ProjectOf,    \* the project a pod is counted in: project, else app, else "default"
  FirstTable,   \* the pods when the page is loaded
  Slot,         \* polls that can be in flight at once
  MaxChanges,   \* bound on changes of the cluster's pod table
  MaxDeploys,   \* bound on accepted presses of Deploy
  MaxFaults     \* bound on polls that throw and on wrong tokens saved

ASSUME ProjectOfAssumption == ProjectOf \in [Pod -> Project]
ASSUME PodAssumption == IsFiniteSet(Pod)
ASSUME FirstTableAssumption == FirstTable \subseteq Pod
ASSUME BoundsAssumption == /\ MaxChanges \in Nat
                           /\ MaxDeploys \in Nat
                           /\ MaxFaults \in Nat

VARIABLES
  tables,            \* every pod table the API had, the current one last
  token,             \* is the saved token the API's?
  polls,             \* the calls of fetchData in flight
  realPods,          \* the table shown, by its place in tables; 0 before the first
  projects,          \* the cards shown
  showProjectModal,  \* is the window open?
  newProjectForm,    \* its fields, as far as the handler tests them
  selectedFiles,     \* the folder picked
  runs,              \* Deploy handlers that have not ended
  deploys,           \* how many were accepted
  faults             \* how many polls threw or wrong tokens were saved

poll == <<polls, faults>>
shown == <<realPods, projects>>
window == <<showProjectModal, newProjectForm, selectedFiles>>
vars == <<tables, token, poll, shown, window, runs, deploys>>

-----------------------------------------------------------------------------
(* Cards *)

Table == tables[Len(tables)]

\* podsList grouped by project.
PodsIn(t, p) == {x \in t : ProjectOf[x] = p}
CardsOf(t) == {[local |-> FALSE, id |-> p, podsCount |-> Cardinality(PodsIn(t, p))] :
                 p \in {ProjectOf[x] : x \in t}}

\* The card a handler adds for its own deployment.
LocalCard(d) == [local |-> TRUE, id |-> d, podsCount |-> 0]
FromServer(cards) == {c \in cards : ~c.local}

-----------------------------------------------------------------------------
(* The form, as far as the handler tells its values apart: an address that  *)
(* is missing or empty is refused alike, and so is a folder that was not     *)
(* picked or holds no compose file; a field that the reset leaves out is     *)
(* undefined, which is not the empty text it starts with.                    *)

Form == [mode : {"undefined", "folder", "git"},
         gitUrl : {"blank", "filled"},
         envVars : {"undefined", "text"}]
Files == {"none", "compose"}

\* Mutants: a first form without variables; a reset that keeps the mode only.
FirstFormNoEnv == [mode |-> "folder", gitUrl |-> "blank", envVars |-> "undefined"]
ResetFormBare == [mode |-> "undefined"]

FirstForm == [mode |-> "folder", gitUrl |-> "blank", envVars |-> "text"]
ResetForm == [mode |-> "undefined", gitUrl |-> "blank", envVars |-> "undefined"]

Idle == [at |-> "idle"]
Polls == {Idle} \cup [at : {"stats"}]
                \cup [at : {"pods"}, auth : BOOLEAN]
                \cup [at : {"answer"}, table : Nat]

Init ==
  /\ tables = <<FirstTable>>
  /\ token = TRUE
  /\ polls = [s \in Slot |-> Idle]
  /\ realPods = 0
  /\ projects = {}
  /\ showProjectModal = FALSE
  /\ newProjectForm = FirstForm
  /\ selectedFiles = "none"
  /\ runs = {}
  /\ deploys = 0
  /\ faults = 0

-----------------------------------------------------------------------------
(* Polling *)

\* The timer fires: /stats is asked for.
Poll(s) ==
  /\ polls[s] = Idle
  /\ polls' = [polls EXCEPT ![s] = [at |-> "stats"]]
  /\ UNCHANGED <<tables, token, shown, window, runs, deploys, faults>>

\* Whatever /stats answered, /pods is asked for with the token saved by now.
StatsDone(s) ==
  /\ polls[s].at = "stats"
  /\ polls' = [polls EXCEPT ![s] = [at |-> "pods", auth |-> token]]
  /\ UNCHANGED <<tables, token, shown, window, runs, deploys, faults>>

\* The API reads its table, or refuses (0).
PodsServed(s) ==
  /\ polls[s].at = "pods"
  /\ polls' = [polls EXCEPT ![s] =
                 [at |-> "answer", table |-> IF polls[s].auth THEN Len(tables) ELSE 0]]
  /\ UNCHANGED <<tables, token, shown, window, runs, deploys, faults>>

\* Mutant: the cards that are shown are kept beside those of the answer.
PodsDoneMerging(s) ==
  /\ polls[s].at = "answer" /\ polls[s].table # 0
  /\ polls' = [polls EXCEPT ![s] = Idle]
  /\ realPods' = polls[s].table
  /\ projects' = projects \cup CardsOf(tables[polls[s].table])
  /\ UNCHANGED <<tables, token, window, runs, deploys, faults>>

\* Mutant: an answer without pods is taken for no answer.
PodsDoneUnlessEmpty(s) ==
  /\ polls[s].at = "answer"
  /\ polls' = [polls EXCEPT ![s] = Idle]
  /\ IF polls[s].table = 0 \/ tables[polls[s].table] = {}
       THEN UNCHANGED shown
       ELSE /\ realPods' = polls[s].table
            /\ projects' = CardsOf(tables[polls[s].table])
  /\ UNCHANGED <<tables, token, window, runs, deploys, faults>>

\* An accepted answer replaces the pods and every card.
PodsDone(s) ==
  /\ polls[s].at = "answer"
  /\ polls' = [polls EXCEPT ![s] = Idle]
  /\ IF polls[s].table = 0
       THEN UNCHANGED shown
       ELSE /\ realPods' = polls[s].table
            /\ projects' = CardsOf(tables[polls[s].table])
  /\ UNCHANGED <<tables, token, window, runs, deploys, faults>>

\* A request throws, before or after the API has seen it: only logged.
PollFails(s) ==
  /\ polls[s] # Idle
  /\ faults < MaxFaults
  /\ faults' = faults + 1
  /\ polls' = [polls EXCEPT ![s] = Idle]
  /\ UNCHANGED <<tables, token, shown, window, runs, deploys>>

-----------------------------------------------------------------------------
(* The cluster, the token, the cards *)

NewTable(t) ==
  /\ Len(tables) <= MaxChanges
  /\ tables' = Append(tables, t)
  /\ UNCHANGED <<token, poll, shown, window, runs, deploys>>

\* Anyone else: the scheduler, another client, the end of a deployment.
ChangeTable == \E t \in SUBSET Pod \ {Table} : NewTable(t)

\* The Stop button of a pod shown, which may be gone already.
StopPod(x) ==
  /\ realPods > 0 /\ x \in tables[realPods]
  /\ x \in Table
  /\ NewTable(Table \ {x})

SaveToken(right) ==
  /\ token' = right
  /\ IF right THEN UNCHANGED faults ELSE faults < MaxFaults /\ faults' = faults + 1
  /\ UNCHANGED <<tables, polls, shown, window, runs, deploys>>

\* The Delete button of a card, which the keyboard reaches under the window too:
\* nothing is sent to the API.
DeleteCard(c) ==
  /\ projects' = {d \in projects : d.id # c.id}
  /\ UNCHANGED <<tables, token, poll, realPods, window, runs, deploys>>

-----------------------------------------------------------------------------
(* The window *)

OpenModal ==
  /\ ~showProjectModal
  /\ showProjectModal' = TRUE
  /\ UNCHANGED <<tables, token, poll, shown, newProjectForm, selectedFiles, runs, deploys>>

CloseModal ==
  /\ showProjectModal
  /\ showProjectModal' = FALSE
  /\ UNCHANGED <<tables, token, poll, shown, newProjectForm, selectedFiles, runs, deploys>>

SetField(k, v) ==
  /\ showProjectModal
  /\ newProjectForm' = [newProjectForm EXCEPT ![k] = v]
  /\ UNCHANGED <<tables, token, poll, shown, showProjectModal, selectedFiles, runs, deploys>>

\* The address is shown in every mode but "folder", the folder only in that one.
Edit ==
  \/ \E m \in {"folder", "git"} : SetField("mode", m)
  \/ SetField("envVars", "text")
  \/ \E v \in {"blank", "filled"} : newProjectForm.mode # "folder" /\ SetField("gitUrl", v)

PickFolder(f) ==
  /\ showProjectModal
  /\ newProjectForm.mode = "folder"
  /\ selectedFiles' = f
  /\ UNCHANGED <<tables, token, poll, shown, showProjectModal, newProjectForm, runs, deploys>>

-----------------------------------------------------------------------------
(* The Deploy button.  A refused press (no address, no folder, no compose  *)
(* file) changes nothing.                                                   *)

Run(stage) == [id |-> deploys + 1, stage |-> stage, cards |-> projects]

\* What every accepted deployment ends with, whether or not it succeeded.
Finish(id, cards) ==
  /\ projects' = cards \cup {LocalCard(id)}
  /\ showProjectModal' = FALSE
  /\ newProjectForm' = ResetForm
  /\ selectedFiles' = "none"

\* Mutant: the card is added when the button is pressed.
StartOptimistic(stage) ==
  /\ runs' = runs \cup {Run(stage)}
  /\ projects' = projects \cup {LocalCard(deploys + 1)}
  /\ UNCHANGED window

Start(stage) ==
  /\ runs' = runs \cup {Run(stage)}
  /\ UNCHANGED <<projects, window>>

Accept ==
  /\ showProjectModal
  /\ deploys < MaxDeploys
  /\ deploys' = deploys + 1
  /\ UNCHANGED <<tables, token, poll, realPods>>

DeployGit ==
  /\ newProjectForm.mode = "git"
  /\ newProjectForm.gitUrl = "filled"
  /\ Accept
  /\ Start("request")

\* envVars.trim() throws when the field is undefined, before anything is sent.
DeployFolder ==
  /\ newProjectForm.mode # "git"
  /\ selectedFiles = "compose"
  /\ Accept
  /\ IF newProjectForm.envVars = "undefined"
       THEN Finish(deploys + 1, projects) /\ UNCHANGED runs
       ELSE Start("zip")

\* generateAsync has packed the folder, and POST /upload goes out.
ZipDone(r) ==
  /\ r.stage = "zip"
  /\ runs' = (runs \ {r}) \cup {[r EXCEPT !.stage = "request"]}
  /\ UNCHANGED <<tables, token, poll, shown, window, deploys>>

\* Mutant: the failure of a request escapes the handler.
RunEndsUncaught(r) ==
  /\ runs' = runs \ {r}
  /\ UNCHANGED <<tables, token, poll, shown, window, deploys>>

\* The packing throws, or the request is answered, refused or lost.
RunEnds(r) ==
  /\ Finish(r.id, r.cards)
  /\ runs' = runs \ {r}
  /\ UNCHANGED <<tables, token, poll, realPods, deploys>>

-----------------------------------------------------------------------------
Polling(s) == StatsDone(s) \/ PodsServed(s) \/ PodsDone(s)
Running == \E r \in runs : RunEnds(r)

Next ==
  \/ \E s \in Slot : Poll(s) \/ Polling(s) \/ PollFails(s)
  \/ ChangeTable
  \/ \E x \in Pod : StopPod(x)
  \/ \E right \in BOOLEAN : SaveToken(right)
  \/ \E c \in projects : DeleteCard(c)
  \/ OpenModal
  \/ CloseModal
  \/ Edit
  \/ \E f \in Files \ {"none"} : PickFolder(f)
  \/ DeployGit
  \/ DeployFolder
  \/ \E r \in runs : ZipDone(r) \/ RunEnds(r)

\* The timer fires for ever, and the browser ends every request it starts.
Fairness ==
  /\ \A s \in Slot : WF_vars(Poll(s)) /\ WF_vars(Polling(s))
  /\ WF_vars(Running)

Spec == Init /\ [][Next]_vars /\ Fairness

-----------------------------------------------------------------------------
Card == [local : {FALSE}, id : Project, podsCount : Nat]
          \cup [local : {TRUE}, id : Nat, podsCount : {0}]
Runs == [id : Nat, stage : {"zip", "request"}, cards : SUBSET Card]

TypeOK ==
  /\ tables \in Seq(SUBSET Pod) /\ tables # << >>
  /\ token \in BOOLEAN
  /\ polls \in [Slot -> Polls]
  /\ realPods \in 0 .. Len(tables)
  /\ projects \subseteq Card
  /\ showProjectModal \in BOOLEAN
  /\ newProjectForm \in Form
  /\ selectedFiles \in Files
  /\ runs \subseteq Runs
  /\ deploys \in Nat
  /\ faults \in Nat

-----------------------------------------------------------------------------
(* Safety *)

\* Wherever cards are kept, those of the server are from one table it had:
\* they may be old, but a poll never mixes two answers and a handler that puts
\* back the cards of its own render puts them back whole.
FromOneTable(cards) ==
  \E i \in DOMAIN tables : FromServer(cards) \subseteq CardsOf(tables[i])

CardsWereTrue ==
  /\ FromOneTable(projects)
  /\ \A r \in runs : FromOneTable(r.cards)

\* A card of the dashboard's own making, shown or kept by a handler, stands for
\* a deployment that has ended, never for one that may still be refused: several
\* handlers run at once, each with the cards of its own render.
Ended == (1 .. deploys) \ {r.id : r \in runs}
OfEnded(cards) == \A c \in cards : c.local => c.id \in Ended

CardsOfEnded ==
  /\ OfEnded(projects)
  /\ \A r \in runs : OfEnded(r.cards)

\* A press of Deploy that is accepted but ends without anything being packed or
\* sent, as the reset form makes every folder deployment do until the variables
\* are typed anew, follows a deployment that has ended: the first one of a page
\* is always sent.
FirstIsSent ==
  [][deploys' = deploys + 1 => (Ended # {} \/ \E r \in runs' : r.id = deploys')]_vars

-----------------------------------------------------------------------------
(* Liveness *)

\* Under polls that overlap, answer late and throw, and handlers that put old
\* cards back, the pods and the cards are those of the cluster again and again,
\* as long as the saved token is the API's.
DisplayCatchesUp ==
  []<>(~token \/ /\ realPods > 0
                 /\ tables[realPods] = Table
                 /\ projects = CardsOf(Table))

\* A deployment in flight ends with its card shown and the window closed, even
\* when packing or sending fails: no failure escapes the handler.
DeployEnds ==
  \A d \in 1 .. MaxDeploys :
    (\E r \in runs : r.id = d) ~> (LocalCard(d) \in projects /\ ~showProjectModal)

-----------------------------------------------------------------------------
(* The inductive invariant of the proofs.  Its last three parts say what the *)
(* properties need: an answer in flight names a table, handlers are told     *)
(* apart by the numbers of their deployments, and only a handler that ended  *)
(* leaves the variables undefined.                                           *)

AnswersNameTables ==
  \A s \in Slot : polls[s].at = "answer" => polls[s].table \in 0 .. Len(tables)

RunsAreNumbered ==
  /\ \A r \in runs : r.id \in 1 .. deploys
  /\ \A r, q \in runs : r.id = q.id => r = q

OnlyEndUndefines == newProjectForm.envVars = "undefined" => Ended # {}

DashboardInv ==
  /\ TypeOK
  /\ CardsWereTrue
  /\ CardsOfEnded
  /\ AnswersNameTables
  /\ RunsAreNumbered
  /\ OnlyEndUndefines

=============================================================================
