------------------------ MODULE TerminalWindow_proofs ------------------------
(***************************************************************************)
(* Terminals, for any set of pods and any number of windows and turns: the *)
(* inductive invariant TerminalInv, and the properties that follow from    *)
(* it.  A step either changes one effect without touching what the window  *)
(* shares, or makes a ticket arrive, or moves the window.                  *)
(***************************************************************************)
EXTENDS TerminalWindow, FiniteSetTheorems, TLAPS

-----------------------------------------------------------------------------
(* Sets of effects *)

\* A set of effects is finite.
LEMMA FinitePart ==
  ASSUME NEW n \in Nat, NEW S, S \subseteq 1 .. n
  PROVE  IsFiniteSet(S) /\ Cardinality(S) \in Nat
  <1>1. IsFiniteSet(1 .. n)
    BY FS_Interval
  <1>2. IsFiniteSet(S)
    BY <1>1, FS_Subset
  <1> QED BY <1>2, FS_CardinalityType

\* A part of a set of effects has no more members than the set.
LEMMA PartIsSmaller ==
  ASSUME NEW n \in Nat, NEW S, NEW T, S \subseteq T, T \subseteq 1 .. n
  PROVE  Cardinality(S) <= Cardinality(T)
  <1>1. IsFiniteSet(T)
    BY FinitePart
  <1> QED BY <1>1, FS_Subset

\* One effect more or less changes their number by at most one.
LEMMA OneMore ==
  ASSUME NEW n \in Nat, NEW S, NEW x, S \subseteq 1 .. n
  PROVE  /\ x \notin S => Cardinality(S \cup {x}) = Cardinality(S) + 1
         /\ Cardinality(S \cup {x}) <= Cardinality(S) + 1
         /\ x \in S => Cardinality(S \ {x}) = Cardinality(S) - 1
  <1>1. IsFiniteSet(S) /\ Cardinality(S) \in Nat
    BY FinitePart
  <1>2. x \notin S => Cardinality(S \cup {x}) = Cardinality(S) + 1
    BY <1>1, FS_AddElement
  <1>3. x \in S => S \cup {x} = S
    OBVIOUS
  <1>4. x \in S => Cardinality(S \ {x}) = Cardinality(S) - 1
    BY <1>1, FS_RemoveElement
  <1> QED BY <1>1, <1>2, <1>3, <1>4

\* A sequence is a function on the numbers up to its length.
LEMMA SeqIsFunction ==
  ASSUME NEW S, NEW s \in Seq(S), NEW n, n = Len(s)
  PROVE  s \in [1 .. n -> S]
  OBVIOUS

\* The effects are numbered, and so are those that connections are counted by.
LEMMA EffectsType ==
  ASSUME TypeOK
  PROVE  /\ Last \in Nat /\ Effects = 1 .. Last
         /\ \A e \in Effects : e \in Nat /\ effects[e] \in Effect
         /\ \A w : Late(w) \subseteq 1 .. Last /\ Left(w) \subseteq 1 .. Last
                   /\ Open(w) \subseteq 1 .. Last
  BY DEF TypeOK, Effects, Last, Late, Left, Open, Of

\* The same of the effects after a step.
LEMMA EffectsNext ==
  ASSUME TypeOK'
  PROVE  /\ Last' \in Nat /\ Effects' = 1 .. Last'
         /\ \A e \in Effects' : e \in Nat /\ effects'[e] \in Effect
         /\ \A w : Late(w)' \subseteq 1 .. Last' /\ Left(w)' \subseteq 1 .. Last'
                   /\ Open(w)' \subseteq 1 .. Last'
  BY DEF TypeOK, Effects, Last, Late, Left, Open, Of

-----------------------------------------------------------------------------
(* A step of one effect *)

\* A step of one effect that moves only its ticket, its socket or its session, and
\* opens no connection, keeps the invariant.
LEMMA SetStep ==
  ASSUME TerminalInv, NEW e \in Effects, NEW r \in Effect, Set(e, r),
         r.window = effects[e].window, r.pod = effects[e].pod,
         r.cleaned = effects[e].cleaned, r.late = effects[e].late,
         r.handlers = effects[e].handlers,
         r.stage = "arrived" <=> Arrived(e),
         r.ws \in {"connecting", "open"} => effects[e].ws \in {"connecting", "open"},
         r.ws # "none" => Arrived(e)
  PROVE  TerminalInv'
  <1> USE DEF TerminalInv
  <1>1. /\ Effects' = Effects /\ Last' = Last
        /\ \A f \in Effects : effects'[f] = IF f = e THEN r ELSE effects[f]
        /\ UNCHANGED <<strict, shown, opened, socket>>
    BY EffectsType DEF Set, Effects, Last, TypeOK
  <1>2. \A f \in Effects : /\ effects'[f].window = effects[f].window
                           /\ effects'[f].pod = effects[f].pod
                           /\ effects'[f].cleaned = effects[f].cleaned
                           /\ effects'[f].late = effects[f].late
                           /\ effects'[f].handlers = effects[f].handlers
                           /\ Arrived(f)' <=> Arrived(f)
                           /\ Live(f)' <=> Live(f)
                           /\ effects'[f].ws \in {"connecting", "open"}
                                => effects[f].ws \in {"connecting", "open"}
    BY <1>1 DEF Arrived, Live
  <1>3. \A w : /\ Of(w)' = Of(w) /\ Late(w)' = Late(w)
               /\ Left(w)' \subseteq Left(w) /\ Open(w)' \subseteq Open(w)
    <2> TAKE w
    <2>1. Of(w)' = Of(w)
      BY <1>1, <1>2 DEF Of
    <2> QED BY <1>2, <2>1 DEF Late, Left, Open, Of
  <1>4. TypeOK'
    <2>1. effects' \in Seq(Effect)
      BY DEF Set, TypeOK, Effects
    <2> QED BY <1>1, <1>3, <2>1 DEF TypeOK
  <1>5. OneLive'
    BY <1>1, <1>2, EffectsType DEF OneLive, Live
  <1>6. SocketsByTickets'
    BY <1>1, <1>2 DEF SocketsByTickets, Arrived
  <1>7. KeysHaveSocket'
    <2> SUFFICES ASSUME NEW f \in Effects, Live(f), effects[f].handlers > 0,
                        NEW s, s = socket[effects[f].window]
                 PROVE  s # 0 /\ (s = f \/ effects'[s].late)
      BY <1>1, <1>2 DEF KeysHaveSocket
    <2>1. s # 0 /\ (s = f \/ effects[s].late)
      BY DEF KeysHaveSocket
    <2>2. s \in Effects
      BY <2>1 DEF TypeOK, OneLive, Of
    <2> QED BY <1>2, <2>1, <2>2
  <1>8. HandlersByTickets'
    BY <1>1, <1>2, <1>3 DEF HandlersByTickets
  <1>9. LeftByLateTickets'
    <2> SUFFICES ASSUME NEW w \in 1 .. opened
                 PROVE  Cardinality(Left(w)') <= Cardinality(Late(w))
      BY <1>1, <1>3 DEF LeftByLateTickets
    <2>1. Cardinality(Left(w)') <= Cardinality(Left(w))
      BY <1>3, EffectsType, PartIsSmaller
    <2>2. Cardinality(Left(w)) <= Cardinality(Late(w))
      BY DEF LeftByLateTickets
    <2>3. /\ Cardinality(Left(w)') \in Nat /\ Cardinality(Left(w)) \in Nat
          /\ Cardinality(Late(w)) \in Nat
      BY <1>3, EffectsType, FinitePart
    <2> QED BY <2>1, <2>2, <2>3
  <1>10. LeftByCleanup'
    <2> SUFFICES ASSUME NEW f \in Effects, NEW w, w = effects[f].window, Live(f), Arrived(f)
                 PROVE  Cardinality(Open(w)' \ {socket[w]}) <= Cardinality(Late(w))
      BY <1>1, <1>2, <1>3 DEF LeftByCleanup
    <2>1. Open(w)' \ {socket[w]} \subseteq Open(w) \ {socket[w]}
          /\ Open(w) \ {socket[w]} \subseteq 1 .. Last
      BY <1>3, EffectsType
    <2>2. Cardinality(Open(w)' \ {socket[w]}) <= Cardinality(Open(w) \ {socket[w]})
      BY <2>1, EffectsType, PartIsSmaller
    <2>3. Cardinality(Open(w) \ {socket[w]}) <= Cardinality(Late(w))
      BY DEF LeftByCleanup
    <2>4. /\ Cardinality(Open(w)' \ {socket[w]}) \in Nat
          /\ Cardinality(Open(w) \ {socket[w]}) \in Nat
          /\ Cardinality(Late(w)) \in Nat
      <3>1. Open(w)' \ {socket[w]} \subseteq 1 .. Last
        BY <2>1
      <3> QED BY <2>1, <3>1, EffectsType, FinitePart
    <2> QED BY <2>2, <2>3, <2>4
  <1> QED BY <1>4, <1>5, <1>6, <1>7, <1>8, <1>9, <1>10

-----------------------------------------------------------------------------
(* The ticket arrives *)

\* A ticket that arrives opens one connection; a late one is also one more late
\* ticket of its window.
LEMMA ArrivalStep ==
  ASSUME TerminalInv, NEW e \in Effects, TicketArrives(e), NEW v, v = effects[e].window
  PROVE  TerminalInv'
  <1> USE DEF TerminalInv
  <1>1. /\ v \in 1 .. opened
        /\ UNCHANGED <<strict, shown, opened>>
        /\ socket' = [socket EXCEPT ![v] = e]
        /\ effects[e].stage = "answered" /\ effects[e].ws = "none" /\ ~effects[e].late
    <2>1. /\ effects[e].stage = "answered"
          /\ socket' = [socket EXCEPT ![v] = e]
          /\ UNCHANGED <<strict, shown, opened>>
      BY DEF TicketArrives, ArrivesIn
    <2>2. v \in 1 .. opened
      BY DEF OneLive
    <2>3. effects[e].ws = "none" /\ ~effects[e].late
      BY <2>1 DEF SocketsByTickets, Arrived
    <2> QED BY <2>1, <2>2, <2>3
  <1>2. ASSUME NEW f \in Effects
        PROVE  /\ effects'[f] \in Effect
               /\ effects'[f].window = effects[f].window
               /\ effects'[f].pod = effects[f].pod
               /\ effects'[f].cleaned = effects[f].cleaned
               /\ effects'[f].stage = IF f = e THEN "arrived" ELSE effects[f].stage
               /\ effects'[f].ws = IF f = e THEN "connecting" ELSE effects[f].ws
               /\ effects'[f].late = IF f = e THEN effects[f].cleaned ELSE effects[f].late
               /\ effects'[f].handlers = IF Shows(v, f) THEN effects[f].handlers + 1
                                                        ELSE effects[f].handlers
    <2>1. effects'[f] =
            [effects[f] EXCEPT !.stage = IF f = e THEN "arrived" ELSE effects[f].stage,
                               !.ws = IF f = e THEN "connecting" ELSE effects[f].ws,
                               !.late = IF f = e THEN effects[f].cleaned ELSE effects[f].late,
                               !.handlers = IF Shows(v, f) THEN effects[f].handlers + 1
                                                           ELSE effects[f].handlers]
      BY DEF TicketArrives, ArrivesIn
    <2>2. effects[f] \in Effect
      BY EffectsType
    <2>3. /\ effects[f].stage \in {"asking", "answered", "failed", "arrived"}
          /\ effects[f].ws \in {"none", "connecting", "open", "closing", "closed"}
          /\ effects[f].late \in BOOLEAN /\ effects[f].cleaned \in BOOLEAN
          /\ effects[f].handlers \in Nat
      BY <2>2 DEF Effect
    <2> DEFINE a == IF f = e THEN "arrived" ELSE effects[f].stage
               b == IF f = e THEN "connecting" ELSE effects[f].ws
               c == IF f = e THEN effects[f].cleaned ELSE effects[f].late
               d == IF Shows(v, f) THEN effects[f].handlers + 1 ELSE effects[f].handlers
    <2>4. /\ a \in {"asking", "answered", "failed", "arrived"}
          /\ b \in {"none", "connecting", "open", "closing", "closed"}
          /\ c \in BOOLEAN /\ d \in Nat
          /\ effects'[f] = [effects[f] EXCEPT !.stage = a, !.ws = b, !.late = c, !.handlers = d]
      BY <2>1, <2>3
    <2> HIDE DEF a, b, c, d, TerminalInv
    <2>5. /\ effects'[f] \in Effect
          /\ effects'[f].window = effects[f].window
          /\ effects'[f].pod = effects[f].pod
          /\ effects'[f].cleaned = effects[f].cleaned
          /\ effects'[f].stage = a /\ effects'[f].ws = b
          /\ effects'[f].late = c /\ effects'[f].handlers = d
      <3>1. effects'[f] \in Effect
        BY ONLY <2>2, <2>4, ZenonT(60) DEF Effect
      <3>2. /\ effects'[f].window = effects[f].window
            /\ effects'[f].pod = effects[f].pod
            /\ effects'[f].cleaned = effects[f].cleaned
        BY ONLY <2>2, <2>4 DEF Effect
      <3>3. /\ effects'[f].stage = a /\ effects'[f].ws = b
            /\ effects'[f].late = c /\ effects'[f].handlers = d
        BY ONLY <2>2, <2>4 DEF Effect
      <3> QED BY <3>1, <3>2, <3>3
    <2> QED BY <2>5 DEF a, b, c, d
  <1>3. TypeOK' /\ Effects' = Effects /\ Last' = Last
    <2>1. effects' = [f \in 1 .. Last |-> effects'[f]]
      BY EffectsType DEF TicketArrives, ArrivesIn
    <2>2. effects' \in Seq(Effect)
      BY <1>2, <2>1, EffectsType
    <2>3. Effects' = Effects /\ Last' = Last
      BY <2>1, <2>2, EffectsType DEF Effects, Last
    <2>4. socket' \in [1 .. opened -> Nat]
      BY <1>1, EffectsType DEF TypeOK
    <2>5. \A w : Of(w)' = Of(w)
      BY <1>2, <2>3 DEF Of
    <2>6. \A w \in 1 .. opened : socket'[w] # 0 => socket'[w] \in Of(w)
      BY <1>1, <2>4 DEF TypeOK, Of
    <2> QED BY <1>1, <2>2, <2>3, <2>4, <2>5, <2>6 DEF TypeOK
  <1>4. \A f \in Effects :
          /\ effects'[f].window = effects[f].window
          /\ effects'[f].pod = effects[f].pod
          /\ effects'[f].cleaned = effects[f].cleaned
          /\ effects'[f].late <=> (effects[f].late \/ (f = e /\ effects[e].cleaned))
          /\ effects'[f].ws = IF f = e THEN "connecting" ELSE effects[f].ws
          /\ Arrived(f)' <=> f = e \/ Arrived(f)
          /\ Live(f)' <=> Live(f)
    <2> TAKE f \in Effects
    <2>1. effects[f].late \in BOOLEAN
      BY EffectsType DEF Effect
    <2>2. effects'[f].late <=> (effects[f].late \/ (f = e /\ effects[e].cleaned))
      BY <1>1, <1>2, <2>1
    <2>3. Arrived(f)' <=> f = e \/ Arrived(f)
      BY <1>2 DEF Arrived
    <2>4. Live(f)' <=> Live(f)
      BY <1>2, <1>3 DEF Live
    <2> QED BY <1>2, <2>2, <2>3, <2>4
  <1>5. \A f \in Effects : /\ effects[f].window # v => effects'[f].handlers = effects[f].handlers
                           /\ effects'[f].handlers <= effects[f].handlers + 1
    BY <1>2, EffectsType DEF Effect, Shows, Of
  <1>6. \A w : /\ Of(w)' = Of(w)
               /\ w # v => Late(w)' = Late(w) /\ Left(w)' = Left(w) /\ Open(w)' = Open(w)
    <2> TAKE w
    <2>1. Of(w)' = Of(w)
      BY <1>1, <1>3, <1>4 DEF Of
    <2> QED BY <1>4, <2>1 DEF Late, Left, Open, Of
  <1>7. /\ Late(v)' = IF effects[e].cleaned THEN Late(v) \cup {e} ELSE Late(v)
        /\ Left(v)' = IF effects[e].cleaned THEN Left(v) \cup {e} ELSE Left(v)
        /\ Open(v)' = Open(v) \cup {e}
        /\ e \notin Late(v) /\ e \notin Left(v) /\ e \notin Open(v)
    BY <1>1, <1>3, <1>4, <1>6 DEF Late, Left, Open, Of
  <1>8. /\ Cardinality(Late(v)) \in Nat /\ Cardinality(Left(v)) \in Nat
        /\ Cardinality(Open(v)) \in Nat
        /\ Cardinality(Late(v)') = IF effects[e].cleaned THEN Cardinality(Late(v)) + 1
                                                          ELSE Cardinality(Late(v))
        /\ Cardinality(Left(v)') = IF effects[e].cleaned THEN Cardinality(Left(v)) + 1
                                                          ELSE Cardinality(Left(v))
    <2>1. Last \in Nat /\ Late(v) \subseteq 1 .. Last /\ Left(v) \subseteq 1 .. Last
          /\ Open(v) \subseteq 1 .. Last
      BY EffectsType
    <2> HIDE DEF TerminalInv
    <2>2. /\ Cardinality(Late(v)) \in Nat /\ Cardinality(Left(v)) \in Nat
          /\ Cardinality(Open(v)) \in Nat
      BY <2>1, FinitePart
    <2>3. Cardinality(Late(v) \cup {e}) = Cardinality(Late(v)) + 1
      BY <1>7, <2>1, OneMore
    <2>4. Cardinality(Left(v) \cup {e}) = Cardinality(Left(v)) + 1
      BY <1>7, <2>1, OneMore
    <2>5. CASE effects[e].cleaned
      <3>1. Late(v)' = Late(v) \cup {e} /\ Left(v)' = Left(v) \cup {e}
        BY <1>7, <2>5
      <3> QED BY <2>2, <2>3, <2>4, <2>5, <3>1
    <2>6. CASE ~effects[e].cleaned
      <3>1. Late(v)' = Late(v) /\ Left(v)' = Left(v)
        BY <1>7, <2>6
      <3> QED BY <2>2, <2>6, <3>1
    <2> QED BY <2>5, <2>6
  <1>9. OneLive'
    BY <1>1, <1>3, <1>4 DEF OneLive, Live
  <1>10. SocketsByTickets'
    BY <1>1, <1>3, <1>4 DEF SocketsByTickets, Live
  <1>11. KeysHaveSocket'
    <2> SUFFICES ASSUME NEW f \in Effects, Live(f), effects'[f].handlers > 0,
                        NEW s, s = socket'[effects[f].window]
                 PROVE  s # 0 /\ (s = f \/ effects'[s].late)
      BY <1>1, <1>3, <1>4 DEF KeysHaveSocket
    <2>1. CASE effects[f].window = v
      <3>1. s = e
        BY <1>1, <2>1 DEF TypeOK
      <3>2. e = f \/ effects[e].cleaned
        BY DEF OneLive, Live
      <3> QED BY <1>4, <3>1, <3>2, EffectsType
    <2>2. CASE effects[f].window # v
      <3>1. s = socket[effects[f].window]
        BY <1>1, <2>2 DEF TypeOK, OneLive
      <3>2. s # 0 /\ (s = f \/ effects[s].late)
        BY <1>5, <2>2, <3>1 DEF KeysHaveSocket
      <3>3. s \in Effects
        BY <3>1, <3>2 DEF TypeOK, OneLive, Of
      <3> QED BY <1>4, <3>2, <3>3
    <2> QED BY <2>1, <2>2
  <1>12. HandlersByTickets'
    <2> SUFFICES ASSUME NEW f \in Effects, Live(f), NEW w, w = effects[f].window
                 PROVE  effects'[f].handlers <=
                          (IF Arrived(f)' THEN 1 ELSE 0) + Cardinality(Late(w)')
      BY <1>1, <1>3, <1>4, <1>6 DEF HandlersByTickets
    <2>1. effects[f].handlers <= (IF Arrived(f) THEN 1 ELSE 0) + Cardinality(Late(w))
      BY DEF HandlersByTickets
    <2>2. effects[f].handlers \in Nat /\ effects'[f].handlers \in Nat
      BY <1>3, EffectsType, EffectsNext DEF Effect
    <2>3. CASE w # v
      BY <1>4, <1>5, <1>6, <2>1, <2>2, <2>3
    <2>4. CASE w = v
      <3>1. e = f \/ effects[e].cleaned
        BY DEF OneLive, Live
      <3>2. ~Arrived(e)
        BY <1>1 DEF Arrived
      <3>3. ~effects[f].cleaned
        BY DEF Live
      <3> QED BY <1>4, <1>5, <1>8, <2>1, <2>2, <2>4, <3>1, <3>2, <3>3
    <2> QED BY <2>3, <2>4
  <1>13. LeftByLateTickets'
    <2> SUFFICES ASSUME NEW w \in 1 .. opened
                 PROVE  Cardinality(Left(w)') <= Cardinality(Late(w)')
      BY <1>1 DEF LeftByLateTickets
    <2>1. Cardinality(Left(w)) <= Cardinality(Late(w))
      BY DEF LeftByLateTickets
    <2> QED BY <1>6, <1>8, <2>1
  <1>14. LeftByCleanup'
    <2> SUFFICES ASSUME NEW f \in Effects, Live(f), Arrived(f)', NEW w, w = effects[f].window
                 PROVE  Cardinality(Open(w)' \ {socket'[w]}) <= Cardinality(Late(w)')
      BY <1>1, <1>3, <1>4 DEF LeftByCleanup
    <2>1. CASE w # v
      <3>1. Arrived(f) /\ socket'[w] = socket[w]
        BY <1>1, <1>3, <1>4, <2>1 DEF TypeOK, OneLive
      <3> QED BY <1>6, <2>1, <3>1 DEF LeftByCleanup
    <2>2. CASE w = v
      <3>1. socket'[w] = e /\ Open(v)' \ {e} = Open(v)
        BY <1>1, <1>7, <2>2 DEF TypeOK
      <3>2. Cardinality(Left(v)) <= Cardinality(Late(v))
        BY <1>1 DEF LeftByLateTickets
      <3>3. \A x \in Of(v) : x = f \/ effects[x].cleaned
        BY DEF OneLive, Live, Of
      <3>4. CASE e = f
        <4>1. Open(v) = Left(v)
          BY <1>7, <3>3, <3>4 DEF Open, Left
        <4> QED BY <1>8, <2>2, <3>1, <3>2, <3>4, <4>1 DEF Live
      <3>5. CASE e # f
        <4>1. Open(v) \subseteq Left(v) \cup {f}
          BY <3>3 DEF Open, Left
        <4>2. /\ Cardinality(Left(v) \cup {f}) <= Cardinality(Left(v)) + 1
              /\ Left(v) \cup {f} \subseteq 1 .. Last
          BY EffectsType, OneMore
        <4>3. /\ Cardinality(Open(v)) <= Cardinality(Left(v) \cup {f})
              /\ Cardinality(Left(v) \cup {f}) \in Nat
          BY <4>1, <4>2, EffectsType, PartIsSmaller, FinitePart
        <4>4. effects[e].cleaned
          BY <3>5 DEF OneLive, Live
        <4> QED BY <1>8, <2>2, <3>1, <3>2, <4>2, <4>3, <4>4
      <3> QED BY <3>4, <3>5
    <2> QED BY <2>1, <2>2
  <1> QED BY <1>3, <1>9, <1>10, <1>11, <1>12, <1>13, <1>14

-----------------------------------------------------------------------------
(* The window moves *)

\* A new effect has the type of one, also when it is cleaned up at once.
LEMMA FreshType ==
  ASSUME NEW w \in Nat, NEW p \in Pod
  PROVE  /\ Fresh(w, p) \in Effect
         /\ [Fresh(w, p) EXCEPT !.cleaned = TRUE] \in Effect
  BY DEF Fresh, Effect

\* A cleanup marks every effect, and opens no connection.
LEMMA CleanupType ==
  ASSUME TypeOK
  PROVE  /\ Cleanup \in Seq(Effect) /\ Len(Cleanup) = Last /\ DOMAIN Cleanup = Effects
         /\ \A f \in Effects :
              /\ Cleanup[f].cleaned
              /\ Cleanup[f].window = effects[f].window
              /\ Cleanup[f].late = effects[f].late
              /\ Cleanup[f].stage = effects[f].stage
              /\ Cleanup[f].ws # "none" => effects[f].ws # "none"
              /\ Cleanup[f].ws \in {"connecting", "open"} =>
                   effects[f].ws \in {"connecting", "open"} /\ f # socket[opened]
  <1>1. ASSUME NEW f \in Effects
        PROVE  /\ Cleanup[f] \in Effect
               /\ Cleanup[f].cleaned
               /\ Cleanup[f].window = effects[f].window
               /\ Cleanup[f].late = effects[f].late
               /\ Cleanup[f].stage = effects[f].stage
               /\ Cleanup[f].ws = IF f = socket[opened] THEN Closed(effects[f].ws)
                                                       ELSE effects[f].ws
    <2>1. effects[f] \in Effect
      BY EffectsType
    <2>2. effects[f].ws \in {"none", "connecting", "open", "closing", "closed"}
      BY <2>1 DEF Effect
    <2>3. Closed(effects[f].ws) \in {"none", "connecting", "open", "closing", "closed"}
      BY <2>2 DEF Closed
    <2> QED BY <2>1, <2>2, <2>3 DEF Cleanup, Effect
  <1>2. Cleanup = [f \in 1 .. Last |-> Cleanup[f]]
    BY EffectsType DEF Cleanup
  <1>3. Cleanup \in Seq(Effect)
    BY <1>1, <1>2, EffectsType
  <1>4. DOMAIN Cleanup = Effects /\ Len(Cleanup) = Last
    BY <1>2, <1>3, EffectsType
  <1> QED BY <1>1, <1>3, <1>4 DEF Closed

\* The cleanup of an effect, with or without a new effect after it, leaves behind
\* at most one connection for each late ticket.
LEMMA CleanupStep ==
  ASSUME TerminalInv, TypeOK', shown # NoPod,
         UNCHANGED <<opened, socket>>,
         Last' = IF shown' = NoPod THEN Last ELSE Last + 1,
         \A f \in Effects : effects'[f] = Cleanup[f],
         shown' # NoPod => effects'[Last + 1] = Fresh(opened, shown')
  PROVE  TerminalInv'
  <1> USE DEF TerminalInv
  <1>1. /\ Effects \subseteq Effects'
        /\ \A f \in Effects' : f \in Effects \/ (f = Last + 1 /\ f = Last' /\ shown' # NoPod)
        /\ Last + 1 \notin Effects
    BY EffectsType, EffectsNext
  <1>2. \A f \in Effects :
          /\ effects'[f].cleaned
          /\ effects'[f].window = effects[f].window
          /\ effects'[f].late = effects[f].late
          /\ effects'[f].stage = effects[f].stage
          /\ effects'[f].ws # "none" => effects[f].ws # "none"
          /\ effects'[f].ws \in {"connecting", "open"} =>
               effects[f].ws \in {"connecting", "open"} /\ f # socket[opened]
    BY CleanupType
  <1>3. shown' # NoPod =>
          LET g == effects'[Last + 1]
          IN /\ g.window = opened /\ g.pod = shown' /\ ~g.cleaned /\ g.stage = "asking"
             /\ ~g.late /\ g.ws = "none" /\ g.handlers = 0
    BY DEF Fresh
  <1>4. OneLive'
    <2>1. opened \in 1 .. opened
      BY DEF OneLive, Live
    <2>2. \A f \in Effects' : effects'[f].window \in 1 .. opened'
      BY <1>1, <1>2, <1>3, <2>1 DEF OneLive
    <2>3. \A f \in Effects' : Live(f)' => f = Last' /\ shown' # NoPod
      BY <1>1, <1>2 DEF Live
    <2>4. shown' # NoPod => /\ Last' > 0 /\ Last' = Last + 1 /\ Last' \in Effects'
      BY EffectsType, EffectsNext
    <2> QED BY <1>3, <2>2, <2>3, <2>4 DEF OneLive, Live
  <1>5. SocketsByTickets'
    BY <1>1, <1>2, <1>3 DEF SocketsByTickets, Arrived, Live
  <1>6. \A f \in Effects' : Live(f)' => effects'[f].handlers = 0 /\ ~Arrived(f)'
    BY <1>1, <1>2, <1>3 DEF Live, Arrived
  <1>7. KeysHaveSocket' /\ LeftByCleanup'
    BY <1>6 DEF KeysHaveSocket, LeftByCleanup
  <1>8. HandlersByTickets'
    <2> SUFFICES ASSUME NEW f \in Effects', Live(f)', NEW w, w = effects'[f].window
                 PROVE  effects'[f].handlers <=
                          (IF Arrived(f)' THEN 1 ELSE 0) + Cardinality(Late(w)')
      BY DEF HandlersByTickets
    <2>1. Cardinality(Late(w)') \in Nat
      BY EffectsNext, FinitePart
    <2> QED BY <1>6, <2>1
  <1>9. LeftByLateTickets'
    <2> SUFFICES ASSUME NEW w \in 1 .. opened
                 PROVE  Cardinality(Left(w)') <= Cardinality(Late(w)')
      BY DEF LeftByLateTickets
    <2>1. Late(w)' = Late(w)
      BY <1>1, <1>2, <1>3 DEF Late, Of
    <2>2. Left(w)' \subseteq Open(w) \ {socket[opened]}
      BY <1>1, <1>2, <1>3 DEF Left, Open, Of
    <2>3. Cardinality(Left(w)) <= Cardinality(Late(w))
      BY DEF LeftByLateTickets
    <2>4. /\ Cardinality(Left(w)) \in Nat /\ Cardinality(Late(w)) \in Nat
      BY EffectsType, FinitePart
    <2>5. \A f \in Effects : Live(f) <=> f = Last
      BY DEF OneLive
    <2>6. CASE w = opened /\ Arrived(Last)
      <3>1. /\ Last \in Effects /\ Live(Last) /\ effects[Last].window = w
        BY <2>6 DEF OneLive, Live
      <3>2. Cardinality(Open(w) \ {socket[w]}) <= Cardinality(Late(w))
        BY <2>6, <3>1 DEF LeftByCleanup
      <3>3. Open(w) \ {socket[w]} \subseteq 1 .. Last /\ Left(w)' \subseteq 1 .. Last
        BY <2>2, EffectsType
      <3>4. Cardinality(Left(w)') <= Cardinality(Open(w) \ {socket[w]})
        BY <2>2, <2>6, <3>3, EffectsType, PartIsSmaller
      <3>5. Cardinality(Open(w) \ {socket[w]}) \in Nat /\ Cardinality(Left(w)') \in Nat
        BY <3>3, EffectsType, FinitePart
      <3> QED BY <2>1, <2>4, <3>2, <3>4, <3>5
    <2>7. CASE ~(w = opened /\ Arrived(Last))
      <3>1. Left(w)' \subseteq Left(w)
        <4> SUFFICES ASSUME NEW f \in Left(w)' PROVE f \in Left(w)
          OBVIOUS
        <4>1. f \in Open(w) /\ f \in Effects
          BY <2>2 DEF Open, Of
        <4>2. f # Last
          BY <2>7, <4>1 DEF Open, Of, OneLive, SocketsByTickets
        <4> QED BY <2>5, <4>1, <4>2 DEF Open, Left, Live
      <3>2. Cardinality(Left(w)') <= Cardinality(Left(w))
        BY <3>1, EffectsType, PartIsSmaller
      <3>3. Cardinality(Left(w)') \in Nat
        BY <3>1, EffectsType, FinitePart
      <3> QED BY <2>1, <2>3, <2>4, <3>2, <3>3
    <2> QED BY <2>6, <2>7
  <1> QED BY <1>4, <1>5, <1>7, <1>8, <1>9

\* So does turning to another pod,
LEMMA TurnStep ==
  ASSUME TerminalInv, NEW p \in Pod, TurnTo(p)
  PROVE  TerminalInv'
  <1> USE DEF TerminalInv
  <1>1. opened \in Nat
    BY DEF TypeOK
  <1>2. /\ effects' = Append(Cleanup, Fresh(opened, p)) /\ Fresh(opened, p) \in Effect
        /\ shown' = p /\ shown # NoPod /\ p # NoPod /\ UNCHANGED <<strict, opened, socket>>
    BY <1>1, FreshType, NoPodAssumption DEF TurnTo
  <1>3. /\ effects' \in Seq(Effect) /\ Last' = Last + 1 /\ Effects' = 1 .. Last + 1
        /\ \A f \in Effects : effects'[f] = Cleanup[f]
        /\ effects'[Last + 1] = Fresh(opened, p)
    BY <1>2, CleanupType, EffectsType DEF Last, Effects
  <1>4. \A w : \A f \in Of(w) : f \in Of(w)'
    BY <1>3, CleanupType, EffectsType DEF Of
  <1>5. TypeOK'
    BY <1>2, <1>3, <1>4 DEF TypeOK
  <1> QED BY <1>2, <1>3, <1>5, CleanupStep

\* closing the window,
LEMMA CloseStep ==
  ASSUME TerminalInv, Close
  PROVE  TerminalInv'
  <1> USE DEF TerminalInv
  <1>1. /\ effects' = Cleanup /\ shown' = NoPod /\ shown # NoPod
        /\ UNCHANGED <<strict, opened, socket>>
    BY DEF Close
  <1>2. /\ effects' \in Seq(Effect) /\ Last' = Last /\ Effects' = Effects
        /\ \A f \in Effects : effects'[f] = Cleanup[f]
    BY <1>1, CleanupType DEF Last, Effects
  <1>3. \A w : Of(w)' = Of(w)
    BY <1>2, CleanupType DEF Of
  <1>4. TypeOK'
    BY <1>1, <1>2, <1>3 DEF TypeOK
  <1> QED BY <1>1, <1>2, <1>4, CleanupStep

\* and opening the next one, which has no connection yet.
LEMMA OpenStep ==
  ASSUME TerminalInv, NEW p \in Pod, OpenWindow(p)
  PROVE  TerminalInv'
  <1> USE DEF TerminalInv
  <1> DEFINE o == opened + 1
             g == Fresh(o, p)
             n == IF strict THEN Last + 2 ELSE Last + 1
  <1>1. /\ opened \in Nat /\ o \in Nat /\ Last \in Nat /\ Effects = 1 .. Last
        /\ strict \in BOOLEAN
    BY EffectsType DEF TypeOK
  <1>2. g \in Effect /\ [g EXCEPT !.cleaned = TRUE] \in Effect
    BY <1>1, FreshType
  <1>3. /\ g.window = o /\ g.pod = p /\ ~g.cleaned /\ g.stage = "asking" /\ ~g.late
        /\ g.ws = "none" /\ g.handlers = 0
        /\ LET h == [g EXCEPT !.cleaned = TRUE]
           IN /\ h.window = o /\ h.cleaned /\ h.stage = "asking" /\ ~h.late
              /\ h.ws = "none"
    BY DEF Fresh
  <1>4. /\ shown = NoPod /\ shown' = p /\ p # NoPod /\ opened' = o
        /\ socket' = Append(socket, 0) /\ strict' = strict
        /\ effects' = IF strict THEN effects \o <<[g EXCEPT !.cleaned = TRUE], g>>
                                ELSE Append(effects, g)
    BY NoPodAssumption DEF OpenWindow
  <1> HIDE DEF g
  <1>5. /\ effects' \in Seq(Effect) /\ Last' = n /\ Effects' = 1 .. n
        /\ \A f \in Effects : effects'[f] = effects[f]
        /\ effects'[n] = g
        /\ strict => effects'[Last + 1] = [g EXCEPT !.cleaned = TRUE]
    <2>1. CASE strict
      <3>1. /\ effects \in Seq(Effect) /\ Len(effects) = Last
            /\ <<[g EXCEPT !.cleaned = TRUE], g>> \in Seq(Effect)
        BY <1>2 DEF TypeOK, Last
      <3> QED BY <1>1, <1>4, <2>1, <3>1 DEF Last, Effects
    <2>2. CASE ~strict
      <3>1. effects \in Seq(Effect) /\ Len(effects) = Last
        BY DEF TypeOK, Last
      <3> QED BY <1>1, <1>2, <1>4, <2>2, <3>1 DEF Last, Effects
    <2> QED BY <2>1, <2>2
  <1>6. /\ Effects \subseteq Effects' /\ n \in Effects' /\ n \notin Effects /\ n > 0
        /\ \A f \in Effects' : \/ f \in Effects
                               \/ f = n
                               \/ f = Last + 1 /\ f # n /\ strict
    BY <1>1, <1>5
  <1>7. \A f \in Effects' \ Effects :
          /\ effects'[f].window = o /\ effects'[f].stage = "asking"
          /\ ~effects'[f].late /\ effects'[f].ws = "none"
          /\ f # n => effects'[f].cleaned
          /\ f = n => ~effects'[f].cleaned /\ effects'[f].handlers = 0 /\ effects'[f].pod = p
    BY <1>3, <1>5, <1>6
  <1>8. \A f \in Effects : effects[f].cleaned /\ effects[f].window # o
                           /\ effects[f].window \in 1 .. opened
    BY <1>1, <1>4 DEF OneLive, Live
  <1>9. \A w \in 1 .. opened :
          /\ Of(w)' = Of(w) /\ Late(w)' = Late(w) /\ Left(w)' = Left(w)
    <2> TAKE w \in 1 .. opened
    <2>1. w # o
      BY <1>1
    <2>2. Of(w)' = Of(w)
      BY <1>5, <1>6, <1>7, <2>1 DEF Of
    <2> QED BY <1>5, <2>2 DEF Late, Left, Of
  <1>10. TypeOK'
    <2>1. socket' \in [1 .. o -> Nat] /\ socket'[o] = 0
          /\ \A w \in 1 .. opened : socket'[w] = socket[w]
      <3>1. socket \in Seq(Nat) /\ Len(socket) = opened
        BY <1>1 DEF TypeOK
      <3>2. /\ Append(socket, 0) \in Seq(Nat) /\ Len(Append(socket, 0)) = o
            /\ Append(socket, 0)[o] = 0
            /\ \A w \in 1 .. opened : Append(socket, 0)[w] = socket[w]
        BY <1>1, <3>1
      <3>3. Append(socket, 0) \in [1 .. o -> Nat]
        BY <1>1, <3>2, SeqIsFunction
      <3> QED BY <1>4, <3>2, <3>3
    <2>2. \A w \in 1 .. o : w \in 1 .. opened \/ w = o
      BY <1>1
    <2> QED BY <1>1, <1>4, <1>5, <1>9, <2>1, <2>2 DEF TypeOK
  <1>11. OneLive'
    <2>1. \A f \in Effects' : effects'[f].window \in 1 .. o
      BY <1>1, <1>5, <1>7, <1>8
    <2>2. \A f \in Effects' : Live(f)' => f = n
      BY <1>5, <1>6, <1>7, <1>8 DEF Live
    <2>3. Live(Last)' /\ effects'[Last'].pod = p /\ effects'[Last'].window = o
      BY <1>5, <1>6, <1>7 DEF Live
    <2> QED BY <1>4, <1>5, <1>6, <2>1, <2>2, <2>3 DEF OneLive
  <1>12. SocketsByTickets'
    BY <1>5, <1>7, <1>8 DEF SocketsByTickets, Arrived, Live
  <1>13. \A f \in Effects' : Live(f)' => effects'[f].handlers = 0 /\ ~Arrived(f)'
    BY <1>5, <1>6, <1>7, <1>8 DEF Live, Arrived
  <1>14. KeysHaveSocket' /\ LeftByCleanup'
    BY <1>13 DEF KeysHaveSocket, LeftByCleanup
  <1>15. HandlersByTickets'
    <2> SUFFICES ASSUME NEW f \in Effects', Live(f)', NEW w, w = effects'[f].window
                 PROVE  effects'[f].handlers <=
                          (IF Arrived(f)' THEN 1 ELSE 0) + Cardinality(Late(w)')
      BY DEF HandlersByTickets
    <2>1. Cardinality(Late(w)') \in Nat
      BY <1>10, EffectsNext, FinitePart
    <2> QED BY <1>13, <2>1
  <1>16. LeftByLateTickets'
    <2> SUFFICES ASSUME NEW w \in 1 .. o
                 PROVE  Cardinality(Left(w)') <= Cardinality(Late(w)')
      BY <1>4 DEF LeftByLateTickets
    <2>1. CASE w \in 1 .. opened
      BY <1>9, <2>1 DEF LeftByLateTickets
    <2>2. CASE w = o
      <3>1. Left(w)' = {}
        BY <1>5, <1>7, <1>8, <2>2 DEF Left, Of
      <3>2. Cardinality(Left(w)') = 0
        BY <3>1, FS_EmptySet
      <3>3. Cardinality(Late(w)') \in Nat
        BY <1>10, EffectsNext, FinitePart
      <3> QED BY <3>2, <3>3
    <2> QED BY <1>1, <2>1, <2>2
  <1> QED BY <1>10, <1>11, <1>12, <1>14, <1>15, <1>16

-----------------------------------------------------------------------------
(* The theorems *)

\* A page without a window satisfies the invariant.
LEMMA InitTerminal ==
  ASSUME Init
  PROVE  TerminalInv
  <1>1. Effects = {} /\ opened = 0 /\ shown = NoPod
    BY DEF Init, Effects
  <1>2. TypeOK
    BY DEF Init, TypeOK
  <1>3. LeftByLateTickets
    BY <1>1 DEF LeftByLateTickets
  <1> QED BY <1>1, <1>2, <1>3 DEF TerminalInv, OneLive, Live, SocketsByTickets,
             KeysHaveSocket, HandlersByTickets, LeftByCleanup

\* Every step keeps the invariant.
LEMMA TerminalStep ==
  ASSUME TerminalInv, Next
  PROVE  TerminalInv'
  <1>1. ASSUME NEW p \in Pod, OpenWindow(p) PROVE TerminalInv'
    BY <1>1, OpenStep
  <1>2. ASSUME NEW p \in Pod, TurnTo(p) PROVE TerminalInv'
    BY <1>2, TurnStep
  <1>3. CASE Close
    BY <1>3, CloseStep
  <1>4. ASSUME NEW e \in Effects, TicketArrives(e) PROVE TerminalInv'
    BY <1>4, ArrivalStep
  <1>5. ASSUME NEW e \in Effects, TicketIssued(e) PROVE TerminalInv'
    <2>1. effects[e] \in Effect
      BY EffectsType DEF TerminalInv
    <2> DEFINE r == [effects[e] EXCEPT !.stage = "answered", !.ticket = "fresh"]
    <2>2. r \in Effect
      BY <2>1 DEF Effect
    <2>3. effects[e].ws = "none" \/ Arrived(e)
      BY DEF TerminalInv, SocketsByTickets
    <2> QED BY <1>5, <2>1, <2>2, <2>3, SetStep DEF TicketIssued, Effect, Arrived
  <1>6. ASSUME NEW e \in Effects, TicketFails(e) PROVE TerminalInv'
    <2>1. effects[e] \in Effect
      BY EffectsType DEF TerminalInv
    <2> DEFINE r == [effects[e] EXCEPT !.stage = "failed", !.told = TRUE]
    <2>2. r \in Effect
      BY <2>1 DEF Effect
    <2>3. effects[e].ws = "none" \/ Arrived(e)
      BY DEF TerminalInv, SocketsByTickets
    <2> QED BY <1>6, <2>1, <2>2, <2>3, SetStep DEF TicketFails, Effect, Arrived
  <1>7. ASSUME NEW e \in Effects, Expire(e) PROVE TerminalInv'
    <2>1. effects[e] \in Effect
      BY EffectsType DEF TerminalInv
    <2> DEFINE r == [effects[e] EXCEPT !.ticket = "stale"]
    <2>2. r \in Effect
      BY <2>1 DEF Effect
    <2>3. effects[e].ws = "none" \/ Arrived(e)
      BY DEF TerminalInv, SocketsByTickets
    <2> QED BY <1>7, <2>1, <2>2, <2>3, SetStep DEF Expire, Effect, Arrived
  <1>8. ASSUME NEW e \in Effects, effects[e].ws # "none", Set(e, Ended(e))
        PROVE  TerminalInv'
    <2>0. effects[e] \in Effect
      BY EffectsType DEF TerminalInv
    <2>1. Ended(e) \in Effect
      BY <2>0 DEF Ended, Effect
    <2>2. Arrived(e)
      BY <1>8 DEF TerminalInv, SocketsByTickets
    <2> QED BY <1>8, <2>0, <2>1, <2>2, SetStep DEF Ended, Effect, Arrived
  <1>9. ASSUME NEW e \in Effects, ConnectFails(e) \/ ShellExits(e) \/ HangUp(e)
        PROVE  TerminalInv'
    <2>1. CASE ShellExits(e) \/ HangUp(e)
      BY <1>8, <2>1 DEF ShellExits, HangUp
    <2>2. CASE ConnectFails(e)
      <3>1. effects[e] \in Effect
        BY EffectsType DEF TerminalInv
      <3>2. Arrived(e)
        BY <2>2 DEF ConnectFails, TerminalInv, SocketsByTickets
      <3>3. PICK t \in {effects[e].ticket, "spent"} : Set(e, [Ended(e) EXCEPT !.ticket = t])
        BY <2>2 DEF ConnectFails
      <3> DEFINE r == [Ended(e) EXCEPT !.ticket = t]
      <3>4. r \in Effect
        BY <3>1, <3>3 DEF Ended, Effect
      <3> QED BY <3>1, <3>2, <3>3, <3>4, SetStep DEF Ended, Effect, Arrived
    <2> QED BY <1>9, <2>1, <2>2
  <1>10. ASSUME NEW e \in Effects, Upgrade(e) PROVE TerminalInv'
    <2>1. effects[e] \in Effect
      BY EffectsType DEF TerminalInv
    <2>2. Arrived(e)
      BY <1>10 DEF Upgrade, TerminalInv, SocketsByTickets
    <2>3. PICK r : /\ Set(e, r)
                   /\ \/ r = [Ended(e) EXCEPT !.ticket = "spent"]
                      \/ r = [effects[e] EXCEPT !.ticket = "spent", !.shell = TRUE,
                                !.ws = IF @ = "connecting" THEN "open" ELSE @,
                                !.told = TRUE] /\ effects[e].ws \in {"connecting", "closing"}
      BY <1>10 DEF Upgrade
    <2>4. /\ r \in Effect /\ r.window = effects[e].window /\ r.pod = effects[e].pod
          /\ r.cleaned = effects[e].cleaned /\ r.late = effects[e].late
          /\ r.handlers = effects[e].handlers /\ r.stage = effects[e].stage
          /\ r.ws \in {"connecting", "open"} => effects[e].ws \in {"connecting", "open"}
      BY <2>1, <2>3 DEF Ended, Effect
    <2> QED BY <2>2, <2>3, <2>4, SetStep DEF Arrived
  <1> QED BY <1>1, <1>2, <1>3, <1>4, <1>5, <1>6, <1>7, <1>9, <1>10
          DEF Next, Asking, Connecting

\* So does a step that changes nothing.
LEMMA TerminalStutter ==
  ASSUME TerminalInv, UNCHANGED vars
  PROVE  TerminalInv'
  <1>1. /\ UNCHANGED <<strict, shown, opened, effects, socket>>
        /\ Effects' = Effects /\ Last' = Last
    BY DEF vars, Effects, Last
  <1>2. \A w : /\ Of(w)' = Of(w) /\ Late(w)' = Late(w)
               /\ Left(w)' = Left(w) /\ Open(w)' = Open(w)
    BY <1>1 DEF Of, Late, Left, Open
  <1>3. TypeOK' /\ OneLive' /\ SocketsByTickets' /\ KeysHaveSocket'
    BY <1>1, <1>2 DEF TerminalInv, TypeOK, OneLive, SocketsByTickets, KeysHaveSocket,
                      Live, Arrived
  <1>4. HandlersByTickets' /\ LeftByLateTickets' /\ LeftByCleanup'
    BY <1>1, <1>2 DEF TerminalInv, HandlersByTickets, LeftByLateTickets, LeftByCleanup,
                      Live, Arrived
  <1> QED BY <1>3, <1>4 DEF TerminalInv

\* The inductive invariant of the terminal window holds, for any set of pods,
\* any number of windows and turns, in either build (lines 1203-1255).
THEOREM TerminalInvariant == Spec => []TerminalInv
  <1>1. Init => TerminalInv
    BY InitTerminal
  <1>2. TerminalInv /\ [Next]_vars => TerminalInv'
    BY TerminalStep, TerminalStutter
  <1> QED BY <1>1, <1>2, PTL DEF Spec

\* Every variable keeps its type, and a window's socket is of one of its own
\* effects (line 1226).
THEOREM TerminalTypes == Spec => []TypeOK
  <1>1. TerminalInv => TypeOK
    BY DEF TerminalInv
  <1> QED BY <1>1, TerminalInvariant, PTL

\* A window leaves at most as many connections behind as tickets came late to
\* it (lines 1250-1254).
THEOREM ConnectionsLeft == Spec => []LeftByLateTickets
  <1>1. TerminalInv => LeftByLateTickets
    BY DEF TerminalInv
  <1> QED BY <1>1, TerminalInvariant, PTL

\* Keys go to the pod on the screen, unless a ticket came late (line 1241).
THEOREM KeysReach == Spec => []KeysReachShownPod
  <1>1. TerminalInv => KeysReachShownPod
    BY DEF TerminalInv, KeysReachShownPod, KeysHaveSocket, OneLive, Live
  <1> QED BY <1>1, TerminalInvariant, PTL

\* A key is sent at most once more than tickets came late (lines 1241-1245).
THEOREM KeysOnce == Spec => []KeysSentOnce
  <1>1. TerminalInv => KeysSentOnce
    <2> SUFFICES ASSUME TerminalInv, NEW e \in Effects, Live(e),
                        NEW w, w = effects[e].window
                 PROVE  effects[e].handlers <= 1 + Cardinality(Late(w))
      BY DEF KeysSentOnce
    <2>1. effects[e].handlers <= (IF Arrived(e) THEN 1 ELSE 0) + Cardinality(Late(w))
      BY DEF TerminalInv, HandlersByTickets
    <2>2. effects[e].handlers \in Nat /\ Cardinality(Late(w)) \in Nat
      BY EffectsType, FinitePart DEF TerminalInv, Effect
    <2> QED BY <2>1, <2>2
  <1> QED BY <1>1, TerminalInvariant, PTL

=============================================================================
