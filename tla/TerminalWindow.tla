--------------------------- MODULE TerminalWindow ---------------------------
(***************************************************************************)
(* The terminal of a pod: the component TerminalWindow of                  *)
(* src/ui/src/App.jsx with the API's tickets and exec sessions behind it.  *)
(* Its effect makes a terminal, asks for a ticket and, when the ticket     *)
(* arrives, opens a WebSocket with it.  The effect is cleaned up when the  *)
(* window closes or turns to another pod, but the answer still under way   *)
(* is not called off: it opens its socket all the same, into the refs of   *)
(* the window, which every effect of that window shares.  A development    *)
(* build runs the effect of a new window, its cleanup and the effect again.*)
(***************************************************************************)
EXTENDS Naturals, Sequences, FiniteSets

CONSTANTS
  Pod,         \* pods with a Terminal button
  NoPod,       \* no window is open
  MaxEffects   \* bound on runs of the effect

ASSUME NoPodAssumption == NoPod \notin Pod
ASSUME MaxEffectsAssumption == MaxEffects \in Nat

VARIABLES
  strict,   \* is the page a development build (React.StrictMode)?
  shown,    \* terminalModal: the pod of the open window
  opened,   \* windows opened so far
  effects,  \* every run of the effect, the last one that of the open window
  socket    \* socket.current of each window: the effect whose socket it is, 0 for null

vars == <<strict, shown, opened, effects, socket>>

Effects == DOMAIN effects
Last == Len(effects)
Of(w) == {e \in Effects : effects[e].window = w}

\* The effect on the screen.
Live(e) == e \in Effects /\ ~effects[e].cleaned

\* Ticket: in the API's wsTickets, fresh for a minute, until a request brings it.
\* shell: an exec session of the API, with the ctr process it started.
Effect == [window : Nat, pod : Pod, cleaned : BOOLEAN,
           stage : {"asking", "answered", "failed", "arrived"},
           late : BOOLEAN,      \* did its ticket arrive after its cleanup?
           ticket : {"none", "fresh", "stale", "spent"},
           ws : {"none", "connecting", "open", "closing", "closed"},
           shell : BOOLEAN,
           handlers : Nat,      \* onData handlers on its terminal
           told : BOOLEAN]      \* did its outcome reach a terminal?

TypeOK ==
  /\ strict \in BOOLEAN
  /\ shown \in Pod \cup {NoPod}
  /\ opened \in Nat
  /\ effects \in Seq(Effect)
  /\ socket \in [1 .. opened -> Nat]
  /\ \A w \in 1 .. opened : socket[w] # 0 => socket[w] \in Of(w)

Init ==
  /\ strict \in BOOLEAN
  /\ shown = NoPod
  /\ opened = 0
  /\ effects = << >>
  /\ socket = << >>

-----------------------------------------------------------------------------
(* The window *)

Fresh(w, p) == [window |-> w, pod |-> p, cleaned |-> FALSE, stage |-> "asking",
                late |-> FALSE, ticket |-> "none", ws |-> "none", shell |-> FALSE,
                handlers |-> 0, told |-> FALSE]

Closed(ws) == IF ws \in {"connecting", "open"} THEN "closing" ELSE ws

\* Mutant: a cleanup that only disposes of the terminal.
CleanupTerminal ==
  [e \in Effects |-> [effects[e] EXCEPT !.cleaned = TRUE]]

\* The cleanup of the last effect: the socket its window has by then is closed.
Cleanup ==
  [e \in Effects |->
     [effects[e] EXCEPT !.cleaned = TRUE,
                        !.ws = IF e = socket[opened] THEN Closed(@) ELSE @]]

\* The Terminal button, while no window is open.
OpenWindow(p) ==
  /\ shown = NoPod
  /\ Last + (IF strict THEN 2 ELSE 1) <= MaxEffects
  /\ shown' = p
  /\ opened' = opened + 1
  /\ effects' = IF strict
                  THEN effects \o <<[Fresh(opened + 1, p) EXCEPT !.cleaned = TRUE],
                                    Fresh(opened + 1, p)>>
                  ELSE Append(effects, Fresh(opened + 1, p))
  /\ socket' = Append(socket, 0)
  /\ UNCHANGED strict

\* Mutants: an effect that does not depend on the pod; one terminal for the
\* whole life of a window.
TurnToKeeping(p) ==
  /\ shown \notin {p, NoPod}
  /\ shown' = p
  /\ UNCHANGED <<strict, opened, effects, socket>>

TurnToOneTerminal(p) ==
  /\ shown \notin {p, NoPod}
  /\ Last < MaxEffects
  /\ shown' = p
  /\ effects' = Append(Cleanup, [Fresh(opened, p) EXCEPT !.handlers = effects[Last].handlers])
  /\ UNCHANGED <<strict, opened, socket>>

\* The Terminal button of another pod, which the keyboard reaches under the
\* window: the same window with other props, so a cleanup and a new effect.
\* The button of the same pod changes nothing.
TurnTo(p) ==
  /\ shown \notin {p, NoPod}
  /\ Last < MaxEffects
  /\ shown' = p
  /\ effects' = Append(Cleanup, Fresh(opened, p))
  /\ UNCHANGED <<strict, opened, socket>>

Close ==
  /\ shown # NoPod
  /\ shown' = NoPod
  /\ effects' = Cleanup
  /\ UNCHANGED <<strict, opened, socket>>

-----------------------------------------------------------------------------
(* The ticket *)

Set(e, r) == /\ effects' = [effects EXCEPT ![e] = r]
             /\ UNCHANGED <<strict, shown, opened, socket>>

TicketIssued(e) ==
  /\ effects[e].stage = "asking"
  /\ Set(e, [effects[e] EXCEPT !.stage = "answered", !.ticket = "fresh"])

\* Mutant: a failure that is not caught.
TicketFailsUncaught(e) ==
  /\ effects[e].stage \in {"asking", "answered"}
  /\ Set(e, [effects[e] EXCEPT !.stage = "failed"])

\* The request is refused or lost, or its answer is: the catch says so.
TicketFails(e) ==
  /\ effects[e].stage \in {"asking", "answered"}
  /\ Set(e, [effects[e] EXCEPT !.stage = "failed", !.told = TRUE])

\* Is f's the terminal in the ref of window w?
Shows(w, f) == f \in Of(w) /\ \A g \in Of(w) : g <= f

ArrivesIn(e, w) ==
  /\ effects[e].stage = "answered"
  /\ socket' = [socket EXCEPT ![w] = e]
  /\ effects' = [f \in Effects |->
       [effects[f] EXCEPT
          !.stage = IF f = e THEN "arrived" ELSE @,
          !.ws = IF f = e THEN "connecting" ELSE @,
          !.late = IF f = e THEN effects[f].cleaned ELSE @,
          !.handlers = IF Shows(w, f) THEN @ + 1 ELSE @]]
  /\ UNCHANGED <<strict, shown, opened>>

\* Mutant: refs outside the component, which all windows share.
TicketArrivesNewest(e) == ArrivesIn(e, opened)

\* The ticket arrives: its socket becomes its window's, and the keys of the
\* terminal the window has by now are sent to the socket the window has when
\* they are typed.
TicketArrives(e) == ArrivesIn(e, effects[e].window)

Expire(e) ==
  /\ effects[e].ticket = "fresh"
  /\ Set(e, [effects[e] EXCEPT !.ticket = "stale"])

-----------------------------------------------------------------------------
(* The socket and the session.  A socket that its window closed while it     *)
(* was connecting may still reach the API.                                   *)

Ended(e) == [effects[e] EXCEPT !.ws = "closed", !.shell = FALSE, !.told = TRUE]

\* The API takes the ticket away, whether or not it is still good.
Upgrade(e) ==
  /\ effects[e].ws \in {"connecting", "closing"}
  /\ effects[e].ticket \in {"fresh", "stale"}
  /\ Set(e, IF effects[e].ticket = "stale"
              THEN [Ended(e) EXCEPT !.ticket = "spent"]
              ELSE [effects[e] EXCEPT !.ticket = "spent", !.shell = TRUE,
                                      !.ws = IF @ = "connecting" THEN "open" ELSE @,
                                      !.told = TRUE])

\* The request does not reach the API, or its origin is refused behind the ticket.
ConnectFails(e) ==
  /\ effects[e].ws = "connecting"
  /\ \E t \in {effects[e].ticket, "spent"} : Set(e, [Ended(e) EXCEPT !.ticket = t])

\* The shell exits, its pod is not found or not started, a proxy loses its node.
ShellExits(e) == effects[e].ws = "open" /\ Set(e, Ended(e))

\* Mutant: the session waits for its shell alone.
HangUpDeaf(e) ==
  /\ effects[e].ws = "closing"
  /\ Set(e, [effects[e] EXCEPT !.ws = "closed", !.told = TRUE])

\* The API reads that the client is gone, and kills the session's process.
HangUp(e) == effects[e].ws = "closing" /\ Set(e, Ended(e))

-----------------------------------------------------------------------------
Asking(e) == TicketIssued(e) \/ TicketFails(e) \/ TicketArrives(e)
Connecting(e) == Upgrade(e) \/ ConnectFails(e)

Next ==
  \/ \E p \in Pod : OpenWindow(p) \/ TurnTo(p)
  \/ Close
  \/ \E e \in Effects : \/ Asking(e) \/ Expire(e) \/ Connecting(e)
                        \/ ShellExits(e) \/ HangUp(e)

\* Requests end one way or the other; a read from a closed connection returns.
Fairness ==
  \A e \in 1 .. MaxEffects :
    /\ WF_vars(e \in Effects /\ Asking(e))
    /\ WF_vars(e \in Effects /\ Connecting(e))
    /\ WF_vars(e \in Effects /\ HangUp(e))

Spec == Init /\ [][Next]_vars /\ Fairness

-----------------------------------------------------------------------------
(* Properties *)

Late(w) == {e \in Of(w) : effects[e].late}
Left(w) == {e \in Of(w) : effects[e].cleaned /\ effects[e].ws \in {"connecting", "open"}}

\* A window leaves no more connections behind than tickets that arrived after
\* the cleanup of their effect: whatever came in time is closed by the cleanup
\* (lines 1250-1254), unless a late one has taken its place in socket.current.
LeftByLateTickets ==
  \A w \in 1 .. opened : Cardinality(Left(w)) <= Cardinality(Late(w))

\* What is typed in a window goes to the pod it shows (line 1241), unless the
\* ticket of an earlier pod arrived late.  With a late ticket it may go to the
\* earlier pod, although the title names the other.
KeysReachShownPod ==
  \A e \in Effects :
    LET s == socket[effects[e].window]
    IN Live(e) /\ effects[e].handlers > 0 /\ effects[s].ws = "open"
         => effects[s].pod = shown \/ effects[s].late

\* A key is sent once (lines 1241-1245), and once more for each ticket that
\* arrived late in that window.
KeysSentOnce ==
  \A e \in Effects :
    Live(e) => effects[e].handlers <= 1 + Cardinality(Late(effects[e].window))

-----------------------------------------------------------------------------
(* The inductive invariant *)

Arrived(e) == effects[e].stage = "arrived"
Open(w) == {e \in Of(w) : effects[e].ws \in {"connecting", "open"}}

\* Only the last effect is not cleaned up, and that while a window is open.
OneLive ==
  /\ \A e \in Effects : effects[e].window \in 1 .. opened
  /\ \A e \in Effects : Live(e) => e = Last /\ shown # NoPod
  /\ shown # NoPod => /\ Last > 0 /\ Live(Last)
                      /\ effects[Last].pod = shown
                      /\ effects[Last].window = opened

SocketsByTickets ==
  \A e \in Effects : /\ effects[e].ws # "none" => Arrived(e)
                     /\ effects[e].late => Arrived(e) /\ ~Live(e)

\* A terminal with a handler has the socket of its own effect or a late one.
KeysHaveSocket ==
  \A e \in Effects : Live(e) /\ effects[e].handlers > 0 =>
    LET s == socket[effects[e].window] IN s # 0 /\ (s = e \/ effects[s].late)

HandlersByTickets ==
  \A e \in Effects : Live(e) =>
    effects[e].handlers <= (IF Arrived(e) THEN 1 ELSE 0) + Cardinality(Late(effects[e].window))

\* What the next cleanup of a window will leave open.
LeftByCleanup ==
  \A e \in Effects : LET w == effects[e].window IN
    Live(e) /\ Arrived(e) =>
      Cardinality(Open(w) \ {socket[w]}) <= Cardinality(Late(w))

\* The inductive invariant of the proofs (lines 1203-1255): who is live, whose
\* socket and handlers a window has, and what a cleanup will leave.
TerminalInv ==
  /\ TypeOK
  /\ OneLive
  /\ SocketsByTickets
  /\ KeysHaveSocket
  /\ HandlersByTickets
  /\ LeftByLateTickets
  /\ LeftByCleanup

-----------------------------------------------------------------------------
(* Liveness *)

\* The session of a window that was left ends (api.go:1037-1051), unless a
\* late ticket came to that window.
LeftSessionsEnd ==
  \A e \in 1 .. MaxEffects :
    (e \in Effects /\ effects[e].cleaned)
      ~> (e \in Effects /\ (~effects[e].shell \/ Late(effects[e].window) # {}))

\* Who opens a terminal is told what became of it: connected, closed or failed
\* to connect (lines 1229, 1237, 1247).
UserIsTold ==
  \A e \in 1 .. MaxEffects :
    (e \in Effects) ~> (e \in Effects /\ (effects[e].told \/ effects[e].cleaned))

=============================================================================
