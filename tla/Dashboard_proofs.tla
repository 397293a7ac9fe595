-------------------------- MODULE Dashboard_proofs --------------------------
(***************************************************************************)
(* What the dashboard shows, for every cluster, every number of polls in   *)
(* flight and every number of deployments: the inductive invariant         *)
(* DashboardInv, and the properties that follow from it.                   *)
(***************************************************************************)
EXTENDS Dashboard, FiniteSetTheorems, TLAPS

-----------------------------------------------------------------------------
(* Cards *)

\* The cards of a table are cards, and none is of the page's own making.
LEMMA CardsOfType ==
  ASSUME NEW t \in SUBSET Pod
  PROVE  /\ CardsOf(t) \subseteq Card
         /\ FromServer(CardsOf(t)) = CardsOf(t)
         /\ \A c \in CardsOf(t) : ~c.local
  <1>1. ASSUME NEW p PROVE Cardinality(PodsIn(t, p)) \in Nat
    <2>1. IsFiniteSet(PodsIn(t, p))
      BY PodAssumption, FS_Subset DEF PodsIn
    <2> QED BY <2>1, FS_CardinalityType
  <1>2. \A x \in t : ProjectOf[x] \in Project
    BY ProjectOfAssumption
  <1>3. CardsOf(t) \subseteq Card
    <2> SUFFICES ASSUME NEW c \in CardsOf(t) PROVE c \in Card
      OBVIOUS
    <2>1. PICK x \in t :
            c = [local |-> FALSE, id |-> ProjectOf[x],
                 podsCount |-> Cardinality(PodsIn(t, ProjectOf[x]))]
      BY DEF CardsOf
    <2>2. c \in [local : {FALSE}, id : Project, podsCount : Nat]
      BY <1>1, <1>2, <2>1
    <2> QED BY <2>2 DEF Card
  <1>4. \A c \in CardsOf(t) : ~c.local
    BY DEF CardsOf
  <1> QED BY <1>3, <1>4 DEF FromServer

\* FromOneTable of some cards, judged by the tables after a step.
FromOneTableN(cards) ==
  \E i \in DOMAIN tables' : FromServer(cards) \subseteq CardsOf(tables'[i])

\* Tables are only added, so what was true of a table stays true.
TablesGrow == \/ tables' = tables
              \/ \E t \in SUBSET Pod : tables' = Append(tables, t)

\* Cards that are from one table are so for good, as tables are only added.
LEMMA TrueStaysTrue ==
  ASSUME tables \in Seq(SUBSET Pod), TablesGrow, NEW cards, FromOneTable(cards)
  PROVE  FromOneTableN(cards)
  <1>1. PICK i \in DOMAIN tables : FromServer(cards) \subseteq CardsOf(tables[i])
    BY DEF FromOneTable
  <1>2. i \in DOMAIN tables' /\ tables'[i] = tables[i]
    BY <1>1 DEF TablesGrow
  <1> QED BY <1>1, <1>2 DEF FromOneTableN

\* A card of the dashboard's own is not the server's.
LEMMA LocalCardType ==
  ASSUME NEW d \in Nat
  PROVE  /\ LocalCard(d) \in Card
         /\ \A cards : FromServer(cards \cup {LocalCard(d)}) = FromServer(cards)
  BY DEF LocalCard, Card, FromServer

-----------------------------------------------------------------------------
(* The two properties of cards, kept by a step that adds tables, drops or    *)
(* keeps cards, and leaves the handlers alone.                               *)

\* Such a step keeps what is said of cards.
LEMMA QuietCards ==
  ASSUME TypeOK, CardsWereTrue, CardsOfEnded, TablesGrow,
         UNCHANGED <<runs, deploys>>,
         projects' \subseteq projects
  PROVE  CardsWereTrue' /\ CardsOfEnded'
  <1>1. FromServer(projects') \subseteq FromServer(projects)
    BY DEF FromServer
  <1>2. FromOneTableN(projects')
    BY <1>1, TrueStaysTrue DEF CardsWereTrue, FromOneTableN, TypeOK
  <1>3. \A r \in runs : FromOneTableN(r.cards)
    BY TrueStaysTrue DEF CardsWereTrue, TypeOK
  <1>4. CardsWereTrue'
    BY <1>2, <1>3 DEF CardsWereTrue, FromOneTable, FromOneTableN
  <1>5. CardsOfEnded'
    BY DEF CardsOfEnded, OfEnded, Ended
  <1> QED BY <1>4, <1>5

-----------------------------------------------------------------------------
(* The steps *)

\* The handlers and the form do not change, or the form only gains variables.
QuietWindow == /\ UNCHANGED <<runs, deploys>>
               /\ newProjectForm'.envVars \in {newProjectForm.envVars, "text"}

\* A step that leaves handlers and form alone keeps what is said of them.
LEMMA QuietHandlers ==
  ASSUME DashboardInv, QuietWindow
  PROVE  RunsAreNumbered' /\ OnlyEndUndefines'
  BY DEF DashboardInv, QuietWindow, RunsAreNumbered, OnlyEndUndefines, Ended

\* fetchData before its last answer shows nothing new.
LEMMA PollStep ==
  ASSUME DashboardInv, NEW s \in Slot,
         Poll(s) \/ StatsDone(s) \/ PodsServed(s) \/ PollFails(s)
  PROVE  DashboardInv'
  <1> USE DEF shown, window
  <1>1. UNCHANGED <<tables, token, realPods, projects, showProjectModal,
                    newProjectForm, selectedFiles, runs, deploys>>
    BY DEF Poll, StatsDone, PodsServed, PollFails
  <1>2. CardsWereTrue' /\ CardsOfEnded'
    BY <1>1, QuietCards DEF DashboardInv, TablesGrow
  <1>3. RunsAreNumbered' /\ OnlyEndUndefines'
    BY <1>1, QuietHandlers DEF QuietWindow
  <1>4. faults' \in Nat
    BY DEF DashboardInv, TypeOK, Poll, StatsDone, PodsServed, PollFails
  <1>5. Len(tables) \in Nat
    BY DEF DashboardInv, TypeOK
  <1>6. PICK q \in Polls : /\ polls' = [polls EXCEPT ![s] = q]
                           /\ q.at = "answer" => q.table \in 0 .. Len(tables)
    <2>1. CASE Poll(s)
      <3>1. [at |-> "stats"] \in Polls
        BY DEF Polls
      <3> QED BY <2>1, <3>1 DEF Poll
    <2>2. CASE StatsDone(s)
      <3>1. [at |-> "pods", auth |-> token] \in Polls
        BY DEF Polls, DashboardInv, TypeOK
      <3> QED BY <2>2, <3>1 DEF StatsDone
    <2>3. CASE PodsServed(s)
      <3>1. PICK n \in {0, Len(tables)} :
              polls' = [polls EXCEPT ![s] = [at |-> "answer", table |-> n]]
        BY <2>3 DEF PodsServed
      <3> DEFINE q == [at |-> "answer", table |-> n]
      <3>2. n \in Nat /\ n \in 0 .. Len(tables)
        BY <1>5
      <3>3. q \in Polls /\ q.table = n /\ polls' = [polls EXCEPT ![s] = q]
        BY <3>1, <3>2 DEF Polls
      <3> HIDE DEF q
      <3> QED BY <3>2, <3>3
    <2>4. CASE PollFails(s)
      <3>1. Idle \in Polls /\ Idle.at # "answer"
        BY DEF Polls, Idle
      <3> QED BY <2>4, <3>1 DEF PollFails
    <2> QED BY <2>1, <2>2, <2>3, <2>4
  <1>7. AnswersNameTables' /\ polls' \in [Slot -> Polls]
    BY <1>1, <1>6 DEF DashboardInv, TypeOK, AnswersNameTables
  <1>8. TypeOK'
    BY <1>1, <1>4, <1>7 DEF DashboardInv, TypeOK
  <1> QED BY <1>2, <1>3, <1>7, <1>8 DEF DashboardInv

\* The answer of /pods replaces the cards by those of the table it names.
LEMMA PodsDoneStep ==
  ASSUME DashboardInv, NEW s \in Slot, PodsDone(s)
  PROVE  DashboardInv'
  <1> USE DEF shown, window
  <1> DEFINE n == polls[s].table
  <1>1. UNCHANGED <<tables, token, showProjectModal, newProjectForm,
                    selectedFiles, runs, deploys, faults>>
    BY DEF PodsDone
  <1>2. RunsAreNumbered' /\ OnlyEndUndefines'
    BY <1>1, QuietHandlers DEF QuietWindow
  <1>3. AnswersNameTables' /\ polls' \in [Slot -> Polls]
    BY <1>1 DEF PodsDone, DashboardInv, TypeOK, AnswersNameTables, Idle, Polls
  <1>4. CASE n = 0
    <2>1. UNCHANGED <<realPods, projects>>
      BY <1>4 DEF PodsDone
    <2>2. CardsWereTrue' /\ CardsOfEnded'
      BY <1>1, <2>1, QuietCards DEF DashboardInv, TablesGrow
    <2>3. TypeOK'
      BY <1>1, <1>3, <2>1 DEF DashboardInv, TypeOK
    <2> QED BY <1>2, <1>3, <2>2, <2>3 DEF DashboardInv
  <1>5. CASE n # 0
    <2>1. n \in 1 .. Len(tables) /\ n \in DOMAIN tables /\ tables[n] \in SUBSET Pod
      BY <1>5 DEF PodsDone, DashboardInv, AnswersNameTables, TypeOK
    <2>2. realPods' = n /\ projects' = CardsOf(tables[n])
      BY <1>5 DEF PodsDone
    <2>3. /\ projects' \subseteq Card
          /\ FromServer(projects') = CardsOf(tables[n])
          /\ \A c \in projects' : ~c.local
      BY <2>1, <2>2, CardsOfType
    <2>4. TypeOK'
      BY <1>1, <1>3, <2>1, <2>2, <2>3 DEF DashboardInv, TypeOK
    <2>5. FromOneTable(projects)'
      BY <1>1, <2>1, <2>3 DEF FromOneTable
    <2>6. CardsWereTrue'
      BY <1>1, <2>5 DEF DashboardInv, CardsWereTrue, FromOneTable
    <2>7. CardsOfEnded'
      BY <1>1, <2>3 DEF DashboardInv, CardsOfEnded, OfEnded, Ended
    <2> QED BY <1>2, <1>3, <2>4, <2>6, <2>7 DEF DashboardInv
  <1> QED BY <1>4, <1>5

\* A new table takes nothing from what was shown of the older ones.
LEMMA NewTableStep ==
  ASSUME DashboardInv, NEW t \in SUBSET Pod, NewTable(t)
  PROVE  DashboardInv'
  <1> USE DEF poll, shown, window
  <1>1. UNCHANGED <<token, polls, faults, realPods, projects, showProjectModal,
                    newProjectForm, selectedFiles, runs, deploys>>
    BY DEF NewTable
  <1>2. /\ tables' = Append(tables, t)
        /\ tables' \in Seq(SUBSET Pod) /\ tables' # << >>
        /\ Len(tables') = Len(tables) + 1 /\ Len(tables) \in Nat
    BY DEF NewTable, DashboardInv, TypeOK
  <1>3. CardsWereTrue' /\ CardsOfEnded'
    BY <1>1, <1>2, QuietCards DEF DashboardInv, TablesGrow
  <1>4. RunsAreNumbered' /\ OnlyEndUndefines'
    BY <1>1, QuietHandlers DEF QuietWindow
  <1>5. AnswersNameTables'
    BY <1>1, <1>2 DEF DashboardInv, AnswersNameTables
  <1>6. TypeOK'
    BY <1>1, <1>2 DEF DashboardInv, TypeOK
  <1> QED BY <1>3, <1>4, <1>5, <1>6 DEF DashboardInv

\* A saved token, and a card less, leave the other cards as they were.
LEMMA CardOrTokenStep ==
  ASSUME DashboardInv,
         (\E right \in BOOLEAN : SaveToken(right)) \/ (\E c \in projects : DeleteCard(c))
  PROVE  DashboardInv'
  <1> USE DEF poll, shown, window
  <1>1. /\ UNCHANGED <<tables, polls, realPods, showProjectModal, newProjectForm,
                       selectedFiles, runs, deploys>>
        /\ projects' \subseteq projects
        /\ token' \in BOOLEAN /\ faults' \in Nat
    BY DEF SaveToken, DeleteCard, DashboardInv, TypeOK
  <1>2. CardsWereTrue' /\ CardsOfEnded'
    BY <1>1, QuietCards DEF DashboardInv, TablesGrow
  <1>3. RunsAreNumbered' /\ OnlyEndUndefines'
    BY <1>1, QuietHandlers DEF QuietWindow
  <1>4. AnswersNameTables'
    BY <1>1 DEF DashboardInv, AnswersNameTables
  <1>5. TypeOK'
    BY <1>1 DEF DashboardInv, TypeOK
  <1> QED BY <1>2, <1>3, <1>4, <1>5 DEF DashboardInv

\* Opening, closing and filling in the window undefines no field.
LEMMA WindowStep ==
  ASSUME DashboardInv,
         OpenModal \/ CloseModal \/ Edit \/ (\E f \in Files \ {"none"} : PickFolder(f))
  PROVE  DashboardInv'
  <1> USE DEF poll, shown, window
  <1>1. /\ UNCHANGED <<tables, token, polls, faults, realPods, projects, runs, deploys>>
        /\ showProjectModal' \in BOOLEAN /\ selectedFiles' \in Files
        /\ newProjectForm' \in Form
        /\ newProjectForm'.envVars \in {newProjectForm.envVars, "text"}
    <2>1. CASE OpenModal \/ CloseModal \/ \E f \in Files \ {"none"} : PickFolder(f)
      BY <2>1 DEF OpenModal, CloseModal, PickFolder, DashboardInv, TypeOK
    <2>2. CASE Edit
      BY <2>2 DEF Edit, SetField, DashboardInv, TypeOK, Form
    <2> QED BY <2>1, <2>2
  <1>2. CardsWereTrue' /\ CardsOfEnded'
    BY <1>1, QuietCards DEF DashboardInv, TablesGrow
  <1>3. RunsAreNumbered' /\ OnlyEndUndefines'
    BY <1>1, QuietHandlers DEF QuietWindow
  <1>4. AnswersNameTables'
    BY <1>1 DEF DashboardInv, AnswersNameTables
  <1>5. TypeOK'
    BY <1>1 DEF DashboardInv, TypeOK
  <1> QED BY <1>2, <1>3, <1>4, <1>5 DEF DashboardInv

\* A press that is packed or sent: the new handler keeps the cards shown.
LEMMA StartStep ==
  ASSUME DashboardInv, Accept, NEW stage \in {"zip", "request"}, Start(stage)
  PROVE  DashboardInv'
  <1> USE DEF poll, window
  <1>1. /\ UNCHANGED <<tables, token, polls, faults, realPods, projects,
                       showProjectModal, newProjectForm, selectedFiles>>
        /\ deploys' = deploys + 1 /\ deploys \in Nat
        /\ runs' = runs \cup {Run(stage)}
    BY DEF Accept, Start, DashboardInv, TypeOK
  <1>2. Run(stage) \in Runs /\ Run(stage).id = deploys + 1 /\ Run(stage).cards = projects
    BY <1>1 DEF Run, Runs, DashboardInv, TypeOK
  <1>3. Ended' = Ended
    BY <1>1, <1>2 DEF Ended, DashboardInv, RunsAreNumbered
  <1>4. RunsAreNumbered'
    <2>1. \A r \in runs' : r.id \in 1 .. deploys'
      BY <1>1, <1>2 DEF DashboardInv, RunsAreNumbered
    <2>2. \A r \in runs : r.id # Run(stage).id
      BY <1>1, <1>2 DEF DashboardInv, RunsAreNumbered
    <2> QED BY <1>1, <2>1, <2>2 DEF DashboardInv, RunsAreNumbered
  <1>5. CardsWereTrue' /\ CardsOfEnded'
    BY <1>1, <1>2, <1>3
       DEF DashboardInv, CardsWereTrue, FromOneTable, CardsOfEnded, OfEnded
  <1>6. OnlyEndUndefines' /\ AnswersNameTables'
    BY <1>1, <1>3 DEF DashboardInv, OnlyEndUndefines, AnswersNameTables
  <1>7. TypeOK'
    BY <1>1, <1>2 DEF DashboardInv, TypeOK
  <1> QED BY <1>4, <1>5, <1>6, <1>7 DEF DashboardInv

\* The end of a deployment, whose handler, if it had one, is gone.
LEMMA FinishStep ==
  ASSUME DashboardInv, NEW id \in Nat, NEW cards,
         UNCHANGED <<tables, token, poll, realPods>>,
         Finish(id, cards),
         cards \subseteq Card, FromOneTable(cards), OfEnded(cards),
         runs' \subseteq runs, deploys' \in Nat, deploys <= deploys',
         Ended \subseteq Ended', id \in Ended'
  PROVE  DashboardInv'
  <1> USE DEF poll
  <1>1. /\ projects' = cards \cup {LocalCard(id)}
        /\ LocalCard(id) \in Card /\ LocalCard(id).id = id
        /\ FromServer(projects') = FromServer(cards)
    BY LocalCardType DEF Finish, LocalCard
  <1>2. CardsWereTrue'
    BY <1>1 DEF DashboardInv, CardsWereTrue, FromOneTable
  <1>3. CardsOfEnded'
    BY <1>1 DEF DashboardInv, CardsOfEnded, OfEnded
  <1>4. RunsAreNumbered'
    BY DEF DashboardInv, RunsAreNumbered, TypeOK
  <1>5. OnlyEndUndefines'
    BY DEF OnlyEndUndefines
  <1>6. AnswersNameTables'
    BY DEF DashboardInv, AnswersNameTables
  <1>7. /\ ResetForm \in Form /\ newProjectForm' = ResetForm
        /\ showProjectModal' = FALSE /\ selectedFiles' = "none"
    BY DEF Finish, Form, ResetForm
  <1>8. TypeOK'
    BY <1>1, <1>7 DEF DashboardInv, TypeOK, Files
  <1> QED BY <1>2, <1>3, <1>4, <1>5, <1>6, <1>8 DEF DashboardInv

\* A handler that ends adds a card of a deployment that has ended.
LEMMA RunEndsStep ==
  ASSUME DashboardInv, NEW r \in runs, RunEnds(r)
  PROVE  DashboardInv'
  <1>1. /\ r.id \in 1 .. deploys /\ deploys \in Nat
        /\ r.cards \subseteq Card /\ FromOneTable(r.cards) /\ OfEnded(r.cards)
    BY DEF DashboardInv, TypeOK, Runs, RunsAreNumbered, CardsWereTrue, CardsOfEnded
  <1>2. deploys' = deploys /\ runs' = runs \ {r}
    BY DEF RunEnds
  <1>3. Ended \subseteq Ended' /\ r.id \in Ended'
    BY <1>1, <1>2 DEF Ended, DashboardInv, RunsAreNumbered
  <1> QED BY <1>1, <1>2, <1>3, FinishStep DEF RunEnds

\* A packed folder goes out under the number of its deployment.
LEMMA ZipDoneStep ==
  ASSUME DashboardInv, NEW r \in runs, ZipDone(r)
  PROVE  DashboardInv'
  <1> USE DEF poll, shown, window
  <1> DEFINE q == [r EXCEPT !.stage = "request"]
  <1>1. /\ UNCHANGED <<tables, token, polls, faults, realPods, projects,
                       showProjectModal, newProjectForm, selectedFiles, deploys>>
        /\ runs' = (runs \ {r}) \cup {q}
    BY DEF ZipDone
  <1>2. q \in Runs /\ q.id = r.id /\ q.cards = r.cards
    BY DEF Runs, DashboardInv, TypeOK
  <1>3. Ended' = Ended
    BY <1>1, <1>2 DEF Ended
  <1>4. RunsAreNumbered'
    <2>1. RunsAreNumbered /\ r.id \in 1 .. deploys
      BY DEF DashboardInv, RunsAreNumbered
    <2>2. \A x \in runs' : x.id \in 1 .. deploys
      BY <1>1, <1>2, <2>1 DEF RunsAreNumbered
    <2>3. \A x, y \in runs' : x.id = y.id => x = y
      <3> SUFFICES ASSUME NEW x \in runs', NEW y \in runs', x.id = y.id
                   PROVE  x = y
        OBVIOUS
      <3>1. \A z \in runs \ {r} : z.id # q.id
        BY <1>2, <2>1 DEF RunsAreNumbered
      <3>2. x \in runs \ {r} \/ x = q
        BY <1>1
      <3>3. y \in runs \ {r} \/ y = q
        BY <1>1
      <3> HIDE DEF q
      <3> QED BY <2>1, <3>1, <3>2, <3>3 DEF RunsAreNumbered
    <2> QED BY <2>2, <2>3, <1>1 DEF RunsAreNumbered
  <1>5. CardsWereTrue' /\ CardsOfEnded'
    BY <1>1, <1>2, <1>3
       DEF DashboardInv, CardsWereTrue, FromOneTable, CardsOfEnded, OfEnded
  <1>6. OnlyEndUndefines' /\ AnswersNameTables'
    BY <1>1, <1>3 DEF DashboardInv, OnlyEndUndefines, AnswersNameTables
  <1>7. TypeOK'
    BY <1>1, <1>2 DEF DashboardInv, TypeOK
  <1> QED BY <1>4, <1>5, <1>6, <1>7 DEF DashboardInv

\* An accepted press starts a handler with a number of its own.
LEMMA DeployStep ==
  ASSUME DashboardInv, DeployGit \/ DeployFolder
  PROVE  DashboardInv'
  <1>1. CASE Accept /\ \E stage \in {"zip", "request"} : Start(stage)
    BY <1>1, StartStep
  <1>2. CASE Accept /\ Finish(deploys + 1, projects) /\ UNCHANGED runs
    <2>1. deploys' = deploys + 1 /\ deploys \in Nat
      BY <1>2 DEF Accept, DashboardInv, TypeOK
    <2>2. Ended \subseteq Ended' /\ deploys + 1 \in Ended'
      BY <1>2, <2>1 DEF Ended, DashboardInv, RunsAreNumbered
    <2>3. projects \subseteq Card /\ FromOneTable(projects) /\ OfEnded(projects)
      BY DEF DashboardInv, TypeOK, CardsWereTrue, CardsOfEnded
    <2> QED BY <1>2, <2>1, <2>2, <2>3, FinishStep DEF Accept
  <1> QED BY <1>1, <1>2 DEF DeployGit, DeployFolder

-----------------------------------------------------------------------------

\* The page as it is loaded satisfies the invariant.
LEMMA DashboardInit ==
  ASSUME Init
  PROVE  DashboardInv
  <1> USE DEF Init
  <1>1. TypeOK
    <2>1. tables \in Seq(SUBSET Pod) /\ tables # << >> /\ Len(tables) = 1
      BY FirstTableAssumption
    <2>2. polls \in [Slot -> Polls]
      BY DEF Polls
    <2>3. newProjectForm \in Form
      BY DEF Form, FirstForm
    <2>4. realPods \in 0 .. Len(tables)
      BY <2>1
    <2>5. projects \subseteq Card /\ runs \subseteq Runs
      OBVIOUS
    <2>6. /\ token \in BOOLEAN /\ showProjectModal \in BOOLEAN
          /\ selectedFiles \in Files /\ deploys \in Nat /\ faults \in Nat
      BY DEF Files
    <2> HIDE DEF Init
    <2> QED BY <2>1, <2>2, <2>3, <2>4, <2>5, <2>6 DEF TypeOK
  <1>2. FromOneTable(projects)
    BY DEF FromOneTable, FromServer
  <1>3. CardsWereTrue /\ CardsOfEnded
    BY <1>2 DEF CardsWereTrue, CardsOfEnded, OfEnded
  <1>4. AnswersNameTables /\ RunsAreNumbered /\ OnlyEndUndefines
    BY DEF AnswersNameTables, Idle, RunsAreNumbered, OnlyEndUndefines, FirstForm
  <1> QED BY <1>1, <1>3, <1>4 DEF DashboardInv

\* Every step of the page, its polls and its handlers keeps the invariant.
LEMMA DashboardNext ==
  ASSUME DashboardInv, [Next]_vars
  PROVE  DashboardInv'
  <1>1. ASSUME NEW s \in Slot, Poll(s) \/ Polling(s) \/ PollFails(s) PROVE DashboardInv'
    BY <1>1, PollStep, PodsDoneStep DEF Polling
  <1>2. CASE ChangeTable
    BY <1>2, NewTableStep DEF ChangeTable
  <1>3. ASSUME NEW x \in Pod, StopPod(x) PROVE DashboardInv'
    <2>1. Table \ {x} \in SUBSET Pod
      BY DEF DashboardInv, TypeOK, Table
    <2> QED BY <1>3, <2>1, NewTableStep DEF StopPod
  <1>4. CASE (\E right \in BOOLEAN : SaveToken(right)) \/ (\E c \in projects : DeleteCard(c))
    BY <1>4, CardOrTokenStep
  <1>5. CASE OpenModal \/ CloseModal \/ Edit \/ (\E f \in Files \ {"none"} : PickFolder(f))
    BY <1>5, WindowStep
  <1>6. CASE DeployGit \/ DeployFolder
    BY <1>6, DeployStep
  <1>7. ASSUME NEW r \in runs, ZipDone(r) \/ RunEnds(r) PROVE DashboardInv'
    BY <1>7, ZipDoneStep, RunEndsStep
  <1>8. CASE UNCHANGED vars
    BY <1>8 DEF vars, poll, shown, window, DashboardInv, TypeOK, CardsWereTrue,
                FromOneTable, CardsOfEnded, OfEnded, Ended, AnswersNameTables,
                RunsAreNumbered, OnlyEndUndefines
  <1> QED BY <1>1, <1>2, <1>3, <1>4, <1>5, <1>6, <1>7, <1>8 DEF Next

\* The inductive invariant holds in every reachable state.
THEOREM DashboardInvariant == Spec => []DashboardInv
  BY DashboardInit, DashboardNext, PTL DEF Spec

\* Every variable of the dashboard keeps its type.
THEOREM DashboardTypes == Spec => []TypeOK
  <1>1. DashboardInv => TypeOK
    BY DEF DashboardInv
  <1> QED BY <1>1, DashboardInvariant, PTL

\* The server's cards that are shown, or kept by a handler, are from one table.
THEOREM CardsAreFromOneTable == Spec => []CardsWereTrue
  <1>1. DashboardInv => CardsWereTrue
    BY DEF DashboardInv
  <1> QED BY <1>1, DashboardInvariant, PTL

\* A card the dashboard adds by itself is that of a deployment that has ended.
THEOREM OwnCardsAreOfEnded == Spec => []CardsOfEnded
  <1>1. DashboardInv => CardsOfEnded
    BY DEF DashboardInv
  <1> QED BY <1>1, DashboardInvariant, PTL

\* A folder is left unsent only after another deployment has ended.
THEOREM TheFirstIsSent == Spec => FirstIsSent
  <1> DEFINE Sent == deploys' = deploys + 1 =>
                       (Ended # {} \/ \E r \in runs' : r.id = deploys')
  <1>1. ASSUME DashboardInv, Next PROVE Sent
    <2>1. SUFFICES ASSUME deploys' = deploys + 1 PROVE Sent
      OBVIOUS
    <2>2. deploys \in Nat
      BY <1>1 DEF DashboardInv, TypeOK
    <2>3. DeployGit \/ DeployFolder
      BY <1>1, <2>1, <2>2
         DEF Next, Poll, Polling, StatsDone, PodsServed, PodsDone, PollFails, ChangeTable,
             StopPod, NewTable, SaveToken, DeleteCard, OpenModal, CloseModal, Edit, SetField,
             PickFolder, ZipDone, RunEnds
    <2>4. CASE \E stage \in {"zip", "request"} : Start(stage)
      <3>1. PICK stage \in {"zip", "request"} : Run(stage) \in runs'
        BY <2>4 DEF Start
      <3>2. Run(stage).id = deploys + 1
        BY DEF Run
      <3> QED BY <2>1, <3>1, <3>2
    <2>5. CASE newProjectForm.envVars = "undefined"
      BY <1>1, <2>5 DEF DashboardInv, OnlyEndUndefines
    <2> QED BY <2>3, <2>4, <2>5 DEF DeployGit, DeployFolder
  <1>2. ASSUME DashboardInv, UNCHANGED vars PROVE Sent
    BY <1>2 DEF vars, DashboardInv, TypeOK
  <1>3. DashboardInv /\ [Next]_vars => [Sent]_vars
    BY <1>1, <1>2
  <1> QED BY <1>3, DashboardInvariant, PTL DEF Spec, FirstIsSent

=============================================================================
