----------------------- MODULE ComposeConverter_proofs -----------------------
(***************************************************************************)
(* The converter page, for all files, texts, settings and numbers of       *)
(* presses.  That the manifest is current is an invariant because the      *)
(* effect depends on everything it reads: what it wrote last is always the *)
(* manifest of the dependencies it ran with, and these are the page's      *)
(* whenever it is not about to run again.                                  *)
(***************************************************************************)
EXTENDS ComposeConverter, WellFoundedInduction, TLAPS

\* The manifest of some values of the dependencies.
ManifestOf(d) ==
  IF d[1] = None THEN None
  ELSE ConvertCompose(d[1], d[2], d[3], ParseEnvText(d[5]))

OutputOfLastRun == outputYaml = ManifestOf(ranWith)

PressesAreNumbered == \A f, g \in flights : f.id = g.id => f = g

ConverterInv ==
  /\ TypeOK
  /\ OutputOfLastRun
  /\ OneRequest
  /\ PressesAreNumbered
  /\ SettingsCoverServices
  /\ EnvCanBeEdited

-----------------------------------------------------------------------------
(* Induction.  A set of numbers that holds 0 and the successor of each of its *)
(* numbers holds them all, for otherwise one that it lacks would be the least.*)

\* A set of numbers that is not empty has a least member.
LEMMA LeastMember ==
  ASSUME NEW T, T \subseteq Nat, T # {}
  PROVE  \E x \in T : \A y \in T : x <= y
  <1> DEFINE R == OpToRel(<, Nat)
  <1>1. PICK x \in T : \A y \in T : <<y, x>> \notin R
    <2>1. IsWellFoundedOn(R, Nat)
      BY NatLessThanWellFounded
    <2> HIDE DEF R
    <2> QED BY <2>1, WFMin
  <1>2. ASSUME NEW y \in T PROVE x <= y
    <2>1. y < x => <<y, x>> \in R
      BY DEF OpToRel
    <2>2. ~(y < x)
      <3> HIDE DEF R
      <3> QED BY <1>1, <2>1
    <2> QED BY <2>2
  <1> QED BY <1>2

\* A set of numbers up to n that is not empty has a greatest member.
LEMMA GreatestMember ==
  ASSUME NEW n \in Nat, NEW T, T \subseteq 1 .. n, T # {}
  PROVE  \E x \in T : \A y \in T : y <= x
  <1> DEFINE D == {n - x : x \in T}
  <1>1. D \subseteq Nat /\ D # {}
    <2>1. \A x \in T : x \in Nat /\ x <= n /\ n - x \in Nat
      OBVIOUS
    <2> QED BY <2>1
  <1>2. PICK d \in D : \A e \in D : d <= e
    <2> HIDE DEF D
    <2> QED BY <1>1, LeastMember
  <1>3. PICK x \in T : d = n - x
    OBVIOUS
  <1>4. ASSUME NEW y \in T PROVE y <= x
    <2>1. n - y \in D
      OBVIOUS
    <2> QED BY <1>2, <1>3, <2>1
  <1> QED BY <1>4

\* Induction over the numbers, for a set instead of a predicate.
LEMMA NatSetInduction ==
  ASSUME NEW S, 0 \in S, \A n \in Nat : n \in S => n + 1 \in S
  PROVE  Nat \subseteq S
  <1> SUFFICES ASSUME Nat \ S # {} PROVE FALSE
    OBVIOUS
  <1>1. PICK x \in Nat \ S : \A y \in Nat \ S : x <= y
    BY LeastMember
  <1>2. x - 1 \in Nat \ S
    OBVIOUS
  <1> QED BY <1>1, <1>2

-----------------------------------------------------------------------------
(* Flattening, which SequencesExt defines by recursion *)

\* The recursion has a solution: some function grows by one sequence at a time.
LEMMA FlattenRecurs ==
  ASSUME NEW Q, NEW s \in Seq(Seq(Q)), Len(s) # 0
  PROVE  \E g \in [1 .. Len(s) -> Seq(Q)] :
           /\ FlattenSeq(s) = g[Len(s)]
           /\ \A i \in 1 .. Len(s) : g[i] = IF i = 1 THEN s[i] ELSE g[i - 1] \o s[i]
  <1> DEFINE L == Len(s)
             Upto(n, g) == \A i \in 1 .. n : g[i] = IF i = 1 THEN s[i] ELSE g[i - 1] \o s[i]
             Exists(n) == \E g \in [1 .. n -> Seq(Q)] : Upto(n, g)
             S == {n \in Nat : n <= L => Exists(n)}
  <1>1. L \in Nat \ {0} /\ s \in [1 .. L -> Seq(Q)]
    OBVIOUS
  <1> HIDE DEF L
  <1>2. 0 \in S
    <2> DEFINE g == [i \in 1 .. 0 |-> << >>]
    <2>1. g \in [1 .. 0 -> Seq(Q)] /\ Upto(0, g)
      OBVIOUS
    <2> QED BY <2>1
  <1>3. ASSUME NEW n \in Nat, n \in S
        PROVE  n + 1 \in S
    <2> SUFFICES ASSUME n + 1 <= L PROVE Exists(n + 1)
      <3> HIDE DEF Exists
      <3> QED OBVIOUS
    <2>1. PICK g \in [1 .. n -> Seq(Q)] : Upto(n, g)
      <3>1. Exists(n)
        <4> HIDE DEF Exists
        <4> QED BY <1>1, <1>3
      <3> QED BY <3>1
    <2> DEFINE v == IF n = 0 THEN s[1] ELSE g[n] \o s[n + 1]
               h == [i \in 1 .. n + 1 |-> IF i = n + 1 THEN v ELSE g[i]]
    <2>2. v \in Seq(Q)
      <3>1. s[n + 1] \in Seq(Q) /\ s[1] \in Seq(Q)
        BY <1>1
      <3>2. n # 0 => g[n] \in Seq(Q)
        OBVIOUS
      <3> QED BY <3>1, <3>2
    <2>3. h \in [1 .. n + 1 -> Seq(Q)]
      BY <2>2
    <2>4. ASSUME NEW i \in 1 .. n + 1
          PROVE  h[i] = IF i = 1 THEN s[i] ELSE h[i - 1] \o s[i]
      <3>1. CASE i = n + 1
        BY <3>1
      <3>2. CASE i # n + 1
        <4>1. i \in 1 .. n /\ h[i] = g[i] /\ (i # 1 => h[i - 1] = g[i - 1])
          BY <3>2
        <4> QED BY <2>1, <4>1
      <3> QED BY <3>1, <3>2
    <2> HIDE DEF h
    <2> QED BY <2>3, <2>4
  <1>4. L \in S
    <2> HIDE DEF S
    <2> QED BY <1>1, <1>2, <1>3, NatSetInduction
  <1>5. PICK g \in [1 .. L -> Seq(Q)] : Upto(L, g)
    <2>1. Exists(L)
      <3> HIDE DEF Exists
      <3> QED BY <1>1, <1>4
    <2> QED BY <2>1
  <1> DEFINE f == CHOOSE f : f = [i \in 1 .. L |-> IF i = 1 THEN s[i] ELSE f[i - 1] \o s[i]]
  <1>6. g = [i \in 1 .. L |-> IF i = 1 THEN s[i] ELSE g[i - 1] \o s[i]]
    BY <1>5
  <1>7. f = [i \in 1 .. L |-> IF i = 1 THEN s[i] ELSE f[i - 1] \o s[i]]
    BY <1>6
  <1>8. FlattenSeq(s) = f[L]
    BY <1>1 DEF FlattenSeq, L
  <1> HIDE DEF f, S
  <1>9. \A i \in 1 .. L : f[i] = IF i = 1 THEN s[i] ELSE f[i - 1] \o s[i]
    BY <1>7
  <1>10. \A i \in 1 .. L : f[i] \in Seq(Q)
    <2> DEFINE T == {n \in Nat : n \in 1 .. L => f[n] \in Seq(Q)}
    <2>1. 0 \in T
      OBVIOUS
    <2>2. ASSUME NEW n \in Nat, n \in T
          PROVE  n + 1 \in T
      <3> SUFFICES ASSUME n + 1 \in 1 .. L PROVE f[n + 1] \in Seq(Q)
        OBVIOUS
      <3>1. f[n + 1] = IF n + 1 = 1 THEN s[n + 1] ELSE f[n] \o s[n + 1]
        BY <1>9
      <3>2. s[n + 1] \in Seq(Q) /\ (n # 0 => f[n] \in Seq(Q))
        BY <1>1, <2>2
      <3> QED BY <3>1, <3>2
    <2>3. Nat \subseteq T
      <3> HIDE DEF T
      <3> QED BY <2>1, <2>2, NatSetInduction
    <2> QED BY <1>1, <2>3
  <1>11. f \in [1 .. L -> Seq(Q)]
    <2>1. f = [i \in 1 .. L |-> f[i]]
      BY <1>7
    <2> QED BY <1>10, <2>1
  <1> QED BY <1>8, <1>9, <1>11 DEF L

\* Joining texts over Q gives a text over Q.
LEMMA FlattenType ==
  ASSUME NEW Q, NEW s \in Seq(Seq(Q))
  PROVE  FlattenSeq(s) \in Seq(Q)
  <1>1. CASE Len(s) = 0
    BY <1>1 DEF FlattenSeq
  <1>2. CASE Len(s) # 0
    <2>1. Len(s) \in 1 .. Len(s)
      BY <1>2
    <2> QED BY <1>2, <2>1, FlattenRecurs
  <1> QED BY <1>1, <1>2

\* A sequence cut into its elements and joined again is the same sequence.
LEMMA FlattenSingles ==
  ASSUME NEW Q, NEW t \in Seq(Q)
  PROVE  FlattenSeq([i \in DOMAIN t |-> <<t[i]>>]) = t
  <1> DEFINE s == [i \in DOMAIN t |-> <<t[i]>>]
             L == Len(t)
  <1> SUFFICES FlattenSeq(s) = t
    OBVIOUS
  <1>1. L \in Nat /\ DOMAIN t = 1 .. L /\ \A i \in 1 .. L : t[i] \in Q
    OBVIOUS
  <1>2. s \in Seq(Seq(Q)) /\ Len(s) = L /\ \A i \in 1 .. L : s[i] = <<t[i]>>
    BY <1>1
  <1> HIDE DEF s
  <1>3. CASE L = 0
    <2>1. FlattenSeq(s) = s
      BY <1>2, <1>3 DEF FlattenSeq
    <2> QED BY <1>2, <1>3, <2>1
  <1>4. CASE L # 0
    <2>1. PICK g \in [1 .. L -> Seq(Q)] :
            /\ FlattenSeq(s) = g[L]
            /\ \A i \in 1 .. L : g[i] = IF i = 1 THEN s[i] ELSE g[i - 1] \o s[i]
      BY <1>2, <1>4, FlattenRecurs
    <2> HIDE DEF L
    <2> DEFINE T == {n \in Nat : n \in 1 .. L =>
                        Len(g[n]) = n /\ \A j \in 1 .. n : g[n][j] = t[j]}
    <2>2. 0 \in T
      OBVIOUS
    <2>3. ASSUME NEW n \in Nat, n \in T
          PROVE  n + 1 \in T
      <3> DEFINE k == n + 1
      <3> SUFFICES ASSUME k \in 1 .. L
                   PROVE  Len(g[k]) = k /\ \A j \in 1 .. k : g[k][j] = t[j]
        OBVIOUS
      <3>1. g[k] = IF k = 1 THEN <<t[k]>> ELSE g[k - 1] \o <<t[k]>>
        BY <1>2, <2>1
      <3>2. CASE n = 0
        BY <3>1, <3>2
      <3>3. CASE n # 0
        <4>1. n \in 1 .. L /\ k - 1 = n /\ k # 1
          BY <1>1, <3>3
        <4>2. g[n] \in Seq(Q) /\ Len(g[n]) = n /\ \A j \in 1 .. n : g[n][j] = t[j]
          BY <2>3, <4>1
        <4>3. g[k] = g[n] \o <<t[k]>>
          BY <3>1, <4>1
        <4> DEFINE u == g[n]
        <4>4. u \in Seq(Q) /\ Len(u) = n /\ t[k] \in Q /\ k \in Nat
          BY <1>1, <4>2
        <4> HIDE DEF u
        <4>5. Len(u \o <<t[k]>>) = k
          BY <4>4
        <4>6. \A j \in 1 .. k : (u \o <<t[k]>>)[j] = IF j = k THEN t[k] ELSE u[j]
          BY <4>4
        <4>7. \A j \in 1 .. k : j # k => u[j] = t[j]
          BY <4>2 DEF u
        <4>8. g[k] = u \o <<t[k]>>
          BY <4>3 DEF u
        <4> HIDE DEF k
        <4> QED BY <4>5, <4>6, <4>7, <4>8
      <3> QED BY <3>2, <3>3
    <2>4. L \in T
      <3> HIDE DEF T
      <3> QED BY <1>1, <2>2, <2>3, NatSetInduction
    <2>5. g[L] \in Seq(Q) /\ Len(g[L]) = L /\ \A j \in 1 .. L : g[L][j] = t[j]
      BY <1>1, <1>4, <2>4
    <2>6. \A u \in Seq(Q) : Len(u) = L /\ (\A j \in 1 .. L : u[j] = t[j]) => u = t
      BY <1>1 DEF L
    <2> QED BY <2>1, <2>5, <2>6
  <1> QED BY <1>3, <1>4
-----------------------------------------------------------------------------
(* Texts *)

\* A sequence is over every set that holds its members.
LEMMA SequenceIn ==
  ASSUME NEW s, IsSequence(s), NEW Q, \A i \in 1 .. Len(s) : s[i] \in Q
  PROVE  s \in Seq(Q)
  BY DEF IsSequence

\* A sequence over Q is one, and its members are in Q.
LEMMA SequenceOf ==
  ASSUME NEW Q, NEW s \in Seq(Q)
  PROVE  IsSequence(s) /\ \A i \in DOMAIN s : s[i] \in Q
  <1>1. s = [i \in 1 .. Len(s) |-> s[i]] /\ Len(s) \in Nat
    OBVIOUS
  <1>2. \A i \in 1 .. Len(s) : s[i] \in Q
    OBVIOUS
  <1>3. DOMAIN s = 1 .. Len(s)
    OBVIOUS
  <1> QED BY <1>1, <1>2, <1>3 DEF IsSequence

\* A function on 1 to n is a sequence.
LEMMA FunctionIsSequence ==
  ASSUME NEW Q, NEW n \in Nat, NEW f \in [1 .. n -> Q]
  PROVE  f \in Seq(Q)
  OBVIOUS

\* So is a tuple of one member.
LEMMA OneIsSequence ==
  ASSUME NEW x
  PROVE  <<x>> \in Seq({x})
  OBVIOUS

\* The members of joined sequences are members of them.
LEMMA FlattenSigns ==
  ASSUME NEW s, IsSequence(s), \A i \in DOMAIN s : IsSequence(s[i])
  PROVE  /\ IsSequence(FlattenSeq(s))
         /\ (\A i \in DOMAIN s : SignFree(s[i])) => SignFree(FlattenSeq(s))
  <1> DEFINE Q == UNION {{s[i][j] : j \in 1 .. Len(s[i])} : i \in 1 .. Len(s)}
  <1>1. DOMAIN s = 1 .. Len(s) /\ Len(s) \in Nat
    BY DEF IsSequence
  <1>2. ASSUME NEW i \in DOMAIN s
        PROVE  s[i] \in Seq(Q) /\ DOMAIN s[i] = 1 .. Len(s[i])
    <2>1. Len(s[i]) \in Nat /\ s[i] = [j \in 1 .. Len(s[i]) |-> s[i][j]]
      BY DEF IsSequence
    <2>2. \A j \in 1 .. Len(s[i]) : s[i][j] \in Q
      BY <1>1
    <2>3. s[i] \in Seq(Q)
      <3> HIDE DEF Q
      <3> QED BY <2>1, <2>2
    <2> QED BY <2>1, <2>3
  <1>3. s \in Seq(Seq(Q))
    <2> HIDE DEF Q
    <2> QED BY <1>1, <1>2, SequenceIn
  <1>4. ASSUME \A i \in DOMAIN s : SignFree(s[i]), NEW q \in Q
        PROVE  q # "$"
    <2>1. PICK i \in 1 .. Len(s) : q \in {s[i][j] : j \in 1 .. Len(s[i])}
      OBVIOUS
    <2>2. PICK j \in 1 .. Len(s[i]) : q = s[i][j]
      BY <2>1
    <2> QED BY <1>1, <1>2, <1>4, <2>2 DEF SignFree
  <1> HIDE DEF Q
  <1>5. FlattenSeq(s) \in Seq(Q)
    BY <1>3, FlattenType
  <1>6. IsSequence(FlattenSeq(s)) /\ \A i \in DOMAIN FlattenSeq(s) : FlattenSeq(s)[i] \in Q
    BY <1>5, SequenceOf
  <1> QED BY <1>4, <1>6 DEF SignFree

\* Two sequences one after the other.
LEMMA JoinSigns ==
  ASSUME NEW a, NEW b, IsSequence(a), IsSequence(b)
  PROVE  /\ IsSequence(a \o b)
         /\ Len(a \o b) = Len(a) + Len(b)
         /\ \A i \in 1 .. Len(a) : (a \o b)[i] = a[i]
         /\ SignFree(a) /\ SignFree(b) => SignFree(a \o b)
  <1> DEFINE Q == {a[i] : i \in 1 .. Len(a)} \cup {b[i] : i \in 1 .. Len(b)}
  <1>1. /\ DOMAIN a = 1 .. Len(a) /\ Len(a) \in Nat
        /\ DOMAIN b = 1 .. Len(b) /\ Len(b) \in Nat
    BY DEF IsSequence
  <1>2. (\A i \in 1 .. Len(a) : a[i] \in Q) /\ \A i \in 1 .. Len(b) : b[i] \in Q
    OBVIOUS
  <1>3. ASSUME SignFree(a), SignFree(b), NEW q \in Q PROVE q # "$"
    BY <1>1, <1>3 DEF SignFree
  <1> HIDE DEF Q
  <1>4. a \in Seq(Q) /\ b \in Seq(Q)
    BY <1>2, SequenceIn
  <1>5. /\ a \o b \in Seq(Q)
        /\ Len(a \o b) = Len(a) + Len(b)
        /\ \A i \in 1 .. Len(a) : (a \o b)[i] = a[i]
    BY <1>4
  <1>6. IsSequence(a \o b) /\ \A i \in DOMAIN (a \o b) : (a \o b)[i] \in Q
    BY <1>5, SequenceOf
  <1> QED BY <1>3, <1>5, <1>6 DEF SignFree

\* A part of a sequence.
LEMMA PartSigns ==
  ASSUME NEW t, IsSequence(t), NEW m \in Nat \ {0}, NEW n \in Nat, n <= Len(t)
  PROVE  IsSequence(SubSeq(t, m, n)) /\ (SignFree(t) => SignFree(SubSeq(t, m, n)))
  <1> DEFINE Q == {t[i] : i \in 1 .. Len(t)}
  <1>1. DOMAIN t = 1 .. Len(t) /\ Len(t) \in Nat
    BY DEF IsSequence
  <1>2. \A i \in m .. n : t[i] \in Q
    BY <1>1
  <1>3. ASSUME SignFree(t), NEW q \in Q PROVE q # "$"
    BY <1>1, <1>3 DEF SignFree
  <1> HIDE DEF Q
  <1>4. SubSeq(t, m, n) \in Seq(Q)
    BY <1>2
  <1>5. /\ IsSequence(SubSeq(t, m, n))
        /\ \A i \in DOMAIN SubSeq(t, m, n) : SubSeq(t, m, n)[i] \in Q
    BY <1>4, SequenceOf
  <1> QED BY <1>3, <1>5 DEF SignFree

\* A sequence of one token.
LEMMA OneSign ==
  ASSUME NEW x
  PROVE  IsSequence(<<x>>) /\ Len(<<x>>) = 1 /\ (x # "$" => SignFree(<<x>>))
  <1>1. <<x>> \in Seq({x})
    BY OneIsSequence
  <1>2. IsSequence(<<x>>) /\ \A i \in DOMAIN <<x>> : <<x>>[i] \in {x}
    BY <1>1, SequenceOf
  <1>3. Len(<<x>>) = 1
    OBVIOUS
  <1>4. x # "$" => SignFree(<<x>>)
    BY <1>2 DEF SignFree
  <1> QED BY <1>2, <1>3, <1>4

\* The empty sequence.
LEMMA NoSign == IsSequence(<< >>) /\ SignFree(<< >>)
  BY DEF IsSequence, SignFree

\* A reference at i begins with "$", and its default is a part of the text.
LEMMA RefsAreParts ==
  ASSUME NEW t, IsSequence(t), NEW i \in DOMAIN t, NEW r \in RefsAt(t, i)
  PROVE  t[i] = "$" /\ IsSequence(r.alt)
  <1>1. DOMAIN t = 1 .. Len(t) /\ Len(t) \in Nat
    BY DEF IsSequence
  <1>2. t[i] = "$"
    BY DEF RefsAt
  <1> DEFINE Js == {j \in i .. Len(t) : Bare(t, i, j)}
             Ws == {w \in (i .. Len(t)) \X (i .. Len(t)) : Braced(t, i, w[1], w[2])}
             B(j) == [name |-> SubSeq(t, i + 1, j), alt |-> << >>, end |-> j]
             C(w) == [name |-> SubSeq(t, i + 2, w[1]),
                      alt |-> SubSeq(t, w[1] + 2, w[2] - 1), end |-> w[2]]
  <1>3. RefsAt(t, i) = {B(j) : j \in Js} \cup {C(w) : w \in Ws}
    BY <1>2 DEF RefsAt
  <1>4. (\A j \in Js : B(j).alt = << >>)
        /\ \A w \in Ws : C(w).alt = SubSeq(t, w[1] + 2, w[2] - 1)
    OBVIOUS
  <1>5. \A w \in Ws : w[1] + 2 \in Nat \ {0} /\ w[2] - 1 \in Nat /\ w[2] - 1 <= Len(t)
    BY <1>1
  <1> HIDE DEF Js, Ws, B, C
  <1>6. CASE \E j \in Js : r = B(j)
    BY <1>4, <1>6, <1>2, NoSign
  <1>7. CASE \E w \in Ws : r = C(w)
    <2>1. PICK w \in Ws : r = C(w)
      BY <1>7
    <2>2. IsSequence(SubSeq(t, w[1] + 2, w[2] - 1))
      BY <1>5, PartSigns
    <2> QED BY <1>2, <1>4, <2>1, <2>2
  <1> QED BY <1>3, <1>6, <1>7

\* A pass yields a text; when each "$" begins a reference and no value and no
\* default has one, none is left.
LEMMA FirstPass ==
  ASSUME NEW t, IsSequence(t), NEW e, \A k \in DOMAIN e : IsSequence(e[k])
  PROVE  /\ IsSequence(Interpolate(t, e))
         /\ NoneLeft(t) /\ (\A k \in DOMAIN e : SignFree(e[k])) => SignFree(Interpolate(t, e))
  <1> DEFINE V(i) == {ValueOf(r, e) : r \in RefsAt(t, i)}
             P(i) == IF Within(t, i) THEN << >>
                     ELSE IF RefsAt(t, i) # {} THEN CHOOSE x \in V(i) : TRUE
                     ELSE <<t[i]>>
             s == [i \in DOMAIN t |-> P(i)]
             Plainly == NoneLeft(t) /\ \A k \in DOMAIN e : SignFree(e[k])
  <1>1. DOMAIN t = 1 .. Len(t) /\ Len(t) \in Nat
    BY DEF IsSequence
  <1>2. ASSUME NEW i \in DOMAIN t
        PROVE  IsSequence(P(i)) /\ (Plainly => SignFree(P(i)))
    <2>1. CASE Within(t, i)
      BY <2>1, NoSign
    <2>2. CASE ~Within(t, i) /\ RefsAt(t, i) # {}
      <3>1. PICK r \in RefsAt(t, i) : P(i) = ValueOf(r, e)
        <4>1. V(i) # {} /\ P(i) = CHOOSE x \in V(i) : TRUE
          BY <2>2
        <4>2. P(i) \in V(i)
          <5> HIDE DEF V, P
          <5> QED BY <4>1
        <4> QED BY <4>2
      <3>2. P(i) = r.alt \/ \E k \in DOMAIN e : P(i) = e[k]
        <4> HIDE DEF P
        <4> QED BY <3>1 DEF ValueOf
      <3>3. t[i] = "$" /\ IsSequence(r.alt)
        BY RefsAreParts
      <3>4. Plainly => SignFree(r.alt)
        BY <3>3 DEF NoneLeft
      <3> HIDE DEF P
      <3> QED BY <3>2, <3>3, <3>4
    <2>3. CASE ~Within(t, i) /\ RefsAt(t, i) = {}
      <3>1. P(i) = <<t[i]>>
        BY <2>3
      <3>2. Plainly => t[i] # "$"
        BY <2>3 DEF NoneLeft
      <3> HIDE DEF P, Plainly
      <3> QED BY <3>1, <3>2, OneSign
    <2> HIDE DEF P, Plainly
    <2> QED BY <2>1, <2>2, <2>3
  <1> HIDE DEF P
  <1>3. IsSequence(s) /\ DOMAIN s = DOMAIN t
    <2> DEFINE Q == {P(i) : i \in DOMAIN t}
    <2>1. s \in [1 .. Len(t) -> Q]
      BY <1>1
    <2>2. DOMAIN s = DOMAIN t
      OBVIOUS
    <2> HIDE DEF s, Q
    <2>3. s \in Seq(Q)
      BY <1>1, <2>1, FunctionIsSequence
    <2> QED BY <2>2, <2>3, SequenceOf
  <1>4. \A i \in DOMAIN s : s[i] = P(i)
    OBVIOUS
  <1>5. Interpolate(t, e) = FlattenSeq(s)
    BY DEF Interpolate, P
  <1> HIDE DEF s, Plainly
  <1>6. \A i \in DOMAIN s : IsSequence(s[i]) /\ (Plainly => SignFree(s[i]))
    BY <1>2, <1>3, <1>4
  <1>7. IsSequence(FlattenSeq(s)) /\ (Plainly => SignFree(FlattenSeq(s)))
    BY <1>3, <1>6, FlattenSigns
  <1> QED BY <1>5, <1>7 DEF Plainly

\* A pass over a text without "$" leaves it as it is.
LEMMA SecondPass ==
  ASSUME NEW t, IsSequence(t), SignFree(t)
  PROVE  ApiText(t) = t
  <1> DEFINE Q == {t[i] : i \in 1 .. Len(t)}
  <1>1. t \in Seq(Q)
    BY DEF IsSequence
  <1>2. DOMAIN t = 1 .. Len(t) /\ Len(t) \in Nat
    BY DEF IsSequence
  <1>3. \A i \in DOMAIN t : RefsAt(t, i) = {}
    BY DEF RefsAt, SignFree
  <1>4. \A i \in DOMAIN t : ~Within(t, i)
    <2>1. \A i \in DOMAIN t : \A k \in 1 .. i - 1 : k \in DOMAIN t
      BY <1>2
    <2> QED BY <1>3, <2>1 DEF Within
  <1>5. Interpolate(t, NoVariables) = FlattenSeq([i \in DOMAIN t |-> <<t[i]>>])
    BY <1>3, <1>4 DEF Interpolate
  <1> HIDE DEF Q
  <1> QED BY <1>1, <1>5, FlattenSingles DEF ApiText

\* The API's pass yields a text, whatever the page left over.
LEMMA ApiTexts ==
  ASSUME NEW t, IsSequence(t)
  PROVE  IsSequence(ApiText(t))
  BY FirstPass DEF ApiText, NoVariables

\* A volume and its device without "$" make a volume without.
LEMMA VolumeSigns ==
  ASSUME NEW v, IsSequence(v), SignFree(v), NEW devices,
         \A d \in DOMAIN devices : IsSequence(devices[d]) /\ SignFree(devices[d])
  PROVE  LET w == FlattenVolume(v, devices) IN IsSequence(w) /\ SignFree(w)
  <1> DEFINE colons == {i \in DOMAIN v : v[i] = ":"}
             end    == IF colons = {} THEN Len(v) + 1 ELSE Min(colons)
             name   == SubSeq(v, 1, end - 1)
             rest   == SubSeq(v, end + 1, Len(v))
             w      == FlattenVolume(v, devices)
  <1>1. DOMAIN v = 1 .. Len(v) /\ Len(v) \in Nat
    BY DEF IsSequence
  <1>2. end \in Nat
    <2>1. CASE colons = {}
      BY <1>1, <2>1
    <2>2. CASE colons # {}
      <3>1. colons \subseteq Nat
        BY <1>1
      <3> HIDE DEF colons
      <3>2. \E x \in colons : \A y \in colons : x <= y
        BY <2>2, <3>1, LeastMember
      <3>3. Min(colons) \in colons
        BY <3>2 DEF Min
      <3> QED BY <2>2, <3>1, <3>3
    <2> HIDE DEF colons
    <2> QED BY <2>1, <2>2
  <1>3. w = v \/ (name \in DOMAIN devices /\ w = devices[name] \o <<":">> \o rest)
    BY DEF FlattenVolume
  <1> HIDE DEF colons, end
  <1>4. IsSequence(rest) /\ SignFree(rest)
    BY <1>1, <1>2, PartSigns
  <1> HIDE DEF name, rest, w
  <1>5. ASSUME name \in DOMAIN devices
        PROVE  LET x == devices[name] \o <<":">> \o rest IN IsSequence(x) /\ SignFree(x)
    <2> DEFINE d == devices[name]
    <2>1. IsSequence(d) /\ SignFree(d)
      BY <1>5
    <2>2. IsSequence(<<":">>) /\ SignFree(<<":">>)
      BY OneSign
    <2> HIDE DEF d
    <2>3. IsSequence(d \o <<":">>) /\ SignFree(d \o <<":">>)
      BY <2>1, <2>2, JoinSigns
    <2>4. IsSequence((d \o <<":">>) \o rest) /\ SignFree((d \o <<":">>) \o rest)
      BY <1>4, <2>3, JoinSigns
    <2> QED BY <2>4 DEF d
  <1> QED BY <1>3, <1>5 DEF w

\* The page keeps the entries that are strings, and each of them stays a text.
LEMMA InterpolatedStrings ==
  ASSUME NEW list, IsEnvironment(list), NEW e, \A k \in DOMAIN e : IsSequence(e[k]),
         NEW new, new = InterpolatedEnv(list, e)
  PROVE  /\ Strings(new) = Strings(list)
         /\ Strings(new) \subseteq Nat /\ Len(new) + 1 \notin Strings(new)
         /\ \A i \in Strings(new) :
              /\ new[i].key = list[i].key /\ IsSequence(new[i].key)
              /\ new[i].text = Interpolate(list[i].text, e)
              /\ IsSequence(list[i].text) /\ IsSequence(new[i].text)
  <1> DEFINE item(i) == IF list[i].string
                          THEN [list[i] EXCEPT !.text = Interpolate(@, e)] ELSE list[i]
  <1>1. DOMAIN list = 1 .. Len(list) /\ Len(list) \in Nat
    BY DEF IsEnvironment, IsSequence
  <1>2. new = [i \in DOMAIN list |-> item(i)]
    BY DEF InterpolatedEnv
  <1>3. DOMAIN new = DOMAIN list /\ Len(new) = Len(list)
    BY <1>1, <1>2
  <1>4. ASSUME NEW i \in DOMAIN list
        PROVE  /\ new[i].string = list[i].string /\ new[i].key = list[i].key
               /\ IsSequence(list[i].key) /\ IsSequence(list[i].text)
               /\ list[i].string =>
                    new[i].text = Interpolate(list[i].text, e) /\ IsSequence(new[i].text)
    <2>1. /\ DOMAIN list[i] = {"key", "text", "string"}
          /\ IsSequence(list[i].key) /\ IsSequence(list[i].text)
      BY DEF IsEnvironment
    <2>2. new[i] = item(i)
      BY <1>2
    <2>3. IsSequence(Interpolate(list[i].text, e))
      BY <2>1, FirstPass
    <2> DEFINE t == Interpolate(list[i].text, e)
    <2>4. /\ item(i).string = list[i].string /\ item(i).key = list[i].key
          /\ list[i].string => item(i).text = t
      <3>1. item(i) = IF list[i].string THEN [list[i] EXCEPT !.text = t] ELSE list[i]
        OBVIOUS
      <3> HIDE DEF t, item
      <3> QED BY <2>1, <3>1
    <2> HIDE DEF item
    <2> QED BY <2>1, <2>2, <2>3, <2>4
  <1>5. Strings(new) = Strings(list)
    BY <1>3, <1>4 DEF Strings
  <1>6. Strings(new) \subseteq DOMAIN list /\ Len(list) + 1 \notin DOMAIN list
    BY <1>1, <1>5 DEF Strings
  <1>7. \A i \in Strings(new) : i \in DOMAIN list /\ list[i].string
    BY <1>5 DEF Strings
  <1> QED BY <1>1, <1>3, <1>4, <1>5, <1>6, <1>7
\* The values of the variables are texts.
LEMMA ValuesAreTexts ==
  ASSUME NEW lines \in EnvTexts \cup {<< >>}, NEW k \in DOMAIN ParseEnvText(lines)
  PROVE  IsSequence(ParseEnvText(lines)[k])
  <1> DEFINE I == {i \in DOMAIN lines : lines[i].key = k}
  <1>1. k \in {lines[i].key : i \in DOMAIN lines}
    BY DEF ParseEnvText
  <1>2. lines \in EnvTexts
    BY <1>1
  <1>3. /\ Len(lines) \in Nat /\ DOMAIN lines = 1 .. Len(lines)
        /\ \A i \in DOMAIN lines : IsSequence(lines[i].val)
    BY <1>2, TextsAssumption DEF IsSequence
  <1>4. I \subseteq 1 .. Len(lines) /\ I # {}
    BY <1>1, <1>3
  <1>5. \E i \in I : \A j \in I : j <= i
    <2> HIDE DEF I
    <2> QED BY <1>3, <1>4, GreatestMember
  <1>6. \E i \in DOMAIN lines :
          lines[i].key = k /\ \A j \in DOMAIN lines : lines[j].key = k => j <= i
    BY <1>5
  <1>7. PICK i \in DOMAIN lines : LastLine(lines, k) = lines[i]
    BY <1>6 DEF LastLine
  <1>8. ParseEnvText(lines)[k] = LastLine(lines, k).val
    BY DEF ParseEnvText
  <1> QED BY <1>3, <1>7, <1>8

-----------------------------------------------------------------------------
(* Passwords *)

\* An empty password with something after it is a password that is not empty.
LEMMA MadeUpIsPassword ==
  ASSUME NEW a, IsSequence(a), Len(a) = 2, IsPassword(a)
  PROVE  LET secret == a \o <<"secret">> IN IsPassword(secret) /\ Len(secret) > 2
  <1> DEFINE more   == <<"secret">>
             secret == a \o more
  <1>1. IsSequence(more) /\ Len(more) = 1
    BY OneSign
  <1> HIDE DEF more
  <1>2. Len(secret) = Len(a) + Len(more) /\ \A i \in 1 .. Len(a) : secret[i] = a[i]
    BY <1>1, JoinSigns
  <1> HIDE DEF secret
  <1>3. Len(secret) = 3 /\ secret[1] = a[1] /\ secret[2] = a[2]
    BY <1>1, <1>2
  <1>4. <<secret[1], secret[2]>> = Password
    BY <1>3 DEF IsPassword
  <1>5. IsPassword(secret) /\ Len(secret) > 2
    BY <1>3, <1>4 DEF IsPassword
  <1> QED BY <1>5 DEF secret, more

\* The one that is added has nothing before it.
LEMMA EmptyPassword == IsSequence(Password) /\ Len(Password) = 2 /\ IsPassword(Password)
  <1>1. Password \in Seq({"POSTGRES_PASSWORD", "="}) /\ Len(Password) = 2
    BY DEF Password
  <1>2. IsSequence(Password)
    BY <1>1, SequenceOf
  <1>3. <<Password[1], Password[2]>> = Password
    BY DEF Password
  <1> QED BY <1>1, <1>2, <1>3 DEF IsPassword

\* A database has a password that is not empty.
LEMMA DatabaseHasPassword ==
  ASSUME NEW image, NEW l, DOMAIN l \subseteq Nat,
         \A i \in DOMAIN l : IsSequence(l[i]), NEW n,
         NEW list, list = WithPassword(image, l, n)
  PROVE  IsPostgres(image) => \E i \in DOMAIN list : IsPassword(list[i]) /\ Len(list[i]) > 2
  <1> SUFFICES ASSUME IsPostgres(image)
               PROVE  \E i \in DOMAIN list : IsPassword(list[i]) /\ Len(list[i]) > 2
    OBVIOUS
  <1>1. CASE Passwords(l) = {}
    <2>1. list = [i \in DOMAIN l \cup {n} |->
                    IF i = n THEN Password \o <<"secret">> ELSE l[i]]
      BY <1>1 DEF WithPassword
    <2>2. n \in DOMAIN list /\ list[n] = Password \o <<"secret">>
      BY <2>1
    <2> QED BY <2>2, EmptyPassword, MadeUpIsPassword
  <1>2. CASE Passwords(l) # {}
    <2>1. Passwords(l) \subseteq Nat
      BY DEF Passwords
    <2>2. PICK i \in Passwords(l) : \A j \in Passwords(l) : i <= j
      BY <1>2, <2>1, LeastMember
    <2>3. i \in DOMAIN l /\ IsPassword(l[i]) /\ IsSequence(l[i]) /\ Len(l[i]) \in Nat
      BY <2>2 DEF Passwords, IsSequence
    <2>4. list = MadeUp(l) /\ DOMAIN list = DOMAIN l
      BY <1>2 DEF WithPassword, MadeUp
    <2>5. CASE Len(l[i]) = 2
      <3>1. list[i] = l[i] \o <<"secret">>
        BY <2>2, <2>3, <2>4, <2>5 DEF MadeUp
      <3>2. LET x == l[i] \o <<"secret">> IN IsPassword(x) /\ Len(x) > 2
        BY <2>3, <2>5, MadeUpIsPassword
      <3> QED BY <2>3, <2>4, <3>1, <3>2
    <2>6. CASE Len(l[i]) # 2
      <3>1. list[i] = l[i]
        BY <2>3, <2>4, <2>6 DEF MadeUp
      <3>2. Len(l[i]) >= 2
        BY <2>3 DEF IsPassword
      <3> DEFINE len == Len(l[i])
      <3>3. len \in Nat /\ len >= 2 /\ len # 2
        BY <2>3, <2>6, <3>2
      <3> HIDE DEF len
      <3>4. len > 2
        BY <3>3
      <3> QED BY <2>3, <2>4, <3>1, <3>4 DEF len
    <2> QED BY <2>5, <2>6
  <1> QED BY <1>1, <1>2

\* Nothing else is changed or added.
LEMMA OnlyPasswordsChange ==
  ASSUME NEW image, NEW l, \A i \in DOMAIN l : IsSequence(l[i]), NEW n, n \notin DOMAIN l,
         NEW list, list = WithPassword(image, l, n)
  PROVE  /\ \A i \in DOMAIN l : list[i] = l[i] \/ (IsPostgres(image) /\ l[i] = Password)
         /\ \A i \in DOMAIN list \ DOMAIN l : IsPostgres(image) /\ IsPassword(list[i])
  <1>1. CASE ~IsPostgres(image)
    BY <1>1 DEF WithPassword
  <1>2. CASE IsPostgres(image) /\ Passwords(l) = {}
    <2>1. list = [i \in DOMAIN l \cup {n} |->
                    IF i = n THEN Password \o <<"secret">> ELSE l[i]]
      BY <1>2 DEF WithPassword
    <2>2. (\A i \in DOMAIN l : list[i] = l[i])
          /\ \A i \in DOMAIN list \ DOMAIN l : list[i] = Password \o <<"secret">>
      BY <2>1
    <2>3. \A i \in DOMAIN list \ DOMAIN l : IsPassword(list[i])
      BY <2>2, EmptyPassword, MadeUpIsPassword
    <2> QED BY <1>2, <2>2, <2>3
  <1>3. CASE IsPostgres(image) /\ Passwords(l) # {}
    <2>1. list = MadeUp(l) /\ DOMAIN list = DOMAIN l
      BY <1>3 DEF WithPassword, MadeUp
    <2>2. ASSUME NEW i \in DOMAIN l, list[i] # l[i]
          PROVE  l[i] = Password
      <3>1. IsPassword(l[i]) /\ Len(l[i]) = 2
        BY <2>1, <2>2 DEF MadeUp, Passwords
      <3> DEFINE a == l[i]
      <3>2. a = [j \in 1 .. 2 |-> a[j]] /\ <<a[1], a[2]>> = Password
        BY <3>1 DEF IsPassword, IsSequence
      <3> HIDE DEF a
      <3>3. a = <<a[1], a[2]>>
        BY <3>2
      <3> QED BY <3>2, <3>3 DEF a
    <2> QED BY <1>3, <2>1, <2>2
  <1> QED BY <1>1, <1>2, <1>3

\* What becomes of the environment that a page shows, made with e from the list.
EnvironmentThrough(list, e, shown, image, pod) ==
  /\ IsPostgres(image) => \E i \in DOMAIN pod : IsPassword(pod[i]) /\ Len(pod[i]) > 2
  /\ \A i \in DOMAIN pod \ Strings(shown) : IsPostgres(image) /\ IsPassword(pod[i])
  /\ /\ \A k \in DOMAIN e : SignFree(e[k])
     /\ \A i \in Strings(list) : NoneLeft(list[i].text)
     => \A i \in Strings(shown) :
          \/ pod[i] = shown[i].key \o shown[i].text
          \/ IsPostgres(image) /\ shown[i].key \o shown[i].text = Password

\* The environment of the pods of a service is the one that the page shows.
LEMMA EnvironmentArrives ==
  ASSUME NEW list, IsEnvironment(list), NEW e, \A k \in DOMAIN e : IsSequence(e[k]),
         NEW shown, shown = InterpolatedEnv(list, e), NEW n, n = Len(shown) + 1,
         NEW image, NEW pod, pod = WithPassword(image, EnvList(shown), n)
  PROVE  EnvironmentThrough(list, e, shown, image, pod)
  <1> DEFINE l == EnvList(shown)
  <1>1. /\ Strings(shown) = Strings(list)
        /\ Strings(shown) \subseteq Nat /\ n \notin Strings(shown)
        /\ \A i \in Strings(shown) :
             /\ IsSequence(shown[i].key)
             /\ shown[i].text = Interpolate(list[i].text, e)
             /\ IsSequence(list[i].text) /\ IsSequence(shown[i].text)
    BY InterpolatedStrings
  <1>2. /\ DOMAIN l = Strings(shown)
        /\ \A i \in Strings(shown) : l[i] = shown[i].key \o ApiText(shown[i].text)
    BY DEF EnvList
  <1> HIDE DEF l
  <1>3. /\ \A i \in DOMAIN l : IsSequence(l[i])
        /\ DOMAIN l \subseteq Nat /\ n \notin DOMAIN l
    <2>1. ASSUME NEW i \in Strings(shown) PROVE IsSequence(l[i])
      <3>1. IsSequence(shown[i].key) /\ IsSequence(ApiText(shown[i].text))
        BY <1>1, ApiTexts
      <3>2. IsSequence(shown[i].key \o ApiText(shown[i].text))
        BY <3>1, JoinSigns
      <3> QED BY <1>2, <3>2
    <2> QED BY <1>1, <1>2, <2>1
  <1>4. pod = WithPassword(image, l, n)
    BY DEF l
  <1>5. IsPostgres(image) => \E i \in DOMAIN pod : IsPassword(pod[i]) /\ Len(pod[i]) > 2
    BY ONLY <1>3, <1>4, DatabaseHasPassword
  <1>6. /\ \A i \in DOMAIN l : pod[i] = l[i] \/ (IsPostgres(image) /\ l[i] = Password)
        /\ \A i \in DOMAIN pod \ DOMAIN l : IsPostgres(image) /\ IsPassword(pod[i])
    BY ONLY <1>3, <1>4, OnlyPasswordsChange
  <1>7. ASSUME \A k \in DOMAIN e : SignFree(e[k]),
               \A i \in Strings(list) : NoneLeft(list[i].text),
               NEW i \in Strings(shown)
        PROVE  l[i] = shown[i].key \o shown[i].text
    <2>1. IsSequence(shown[i].text) /\ SignFree(shown[i].text)
      BY <1>1, <1>7, FirstPass
    <2> QED BY <1>2, <2>1, SecondPass
  <1> QED BY <1>2, <1>5, <1>6, <1>7 DEF EnvironmentThrough

\* So are its volumes.
LEMMA VolumesArrive ==
  ASSUME NEW volumes, \A v \in volumes : IsSequence(v) /\ NoneLeft(v),
         NEW e, \A k \in DOMAIN e : IsSequence(e[k]) /\ SignFree(e[k]),
         NEW devices, \A d \in DOMAIN devices : IsSequence(devices[d]) /\ SignFree(devices[d]),
         NEW v \in volumes
  PROVE  LET w == FlattenVolume(Interpolate(v, e), devices) IN ApiText(w) = w
  <1> DEFINE w == FlattenVolume(Interpolate(v, e), devices)
  <1>1. IsSequence(Interpolate(v, e)) /\ SignFree(Interpolate(v, e))
    BY FirstPass
  <1>2. IsSequence(w) /\ SignFree(w)
    BY <1>1, VolumeSigns
  <1> QED BY <1>2, SecondPass

-----------------------------------------------------------------------------
(* What the parts depend on *)

\* What is said of settings and variables holds while these stay as they are.
LEMMA SamePage ==
  ASSUME ConverterInv, UNCHANGED <<source, env, settings>>
  PROVE  SettingsCoverServices' /\ EnvCanBeEdited'
  BY DEF source, env, settings, ConverterInv, SettingsCoverServices, Services, EnvCanBeEdited

\* What is said of the manifest holds while it stays as it is.
LEMMA SameOutput ==
  ASSUME ConverterInv, UNCHANGED output
  PROVE  OutputOfLastRun'
  BY DEF output, ConverterInv, OutputOfLastRun

\* The file that was read may clear the message.
LEMMA SameRequests ==
  ASSUME ConverterInv, UNCHANGED <<flights, presses, deploying>>,
         deployMsg' \in {deployMsg, "none"},
         mounted' = mounted \/ mounted' = TRUE
  PROVE  OneRequest' /\ PressesAreNumbered'
  BY DEF ConverterInv, OneRequest, MineInFlight, PressesAreNumbered

\* The effect writes the manifest of what it runs with.
LEMMA RegenerateStep ==
  ASSUME ConverterInv, Regenerate
  PROVE  ConverterInv'
  <1>1. UNCHANGED <<mounted, source, env, settings, deployment, reading>>
    BY DEF Regenerate
  <1>2. OutputOfLastRun'
    BY DEF Regenerate, Generated, EffectDeps, OutputOfLastRun, ManifestOf
  <1>3. SettingsCoverServices' /\ EnvCanBeEdited'
    BY <1>1, SamePage
  <1>4. OneRequest' /\ PressesAreNumbered'
    BY <1>1, SameRequests DEF deployment
  <1>5. TypeOK'
    BY <1>1 DEF ConverterInv, TypeOK, source, env, settings, deployment
  <1> QED BY <1>2, <1>3, <1>4, <1>5 DEF ConverterInv

\* Files that are picked, and readers that fail.
LEMMA ReadingStep ==
  ASSUME ConverterInv,
         UNCHANGED <<mounted, source, env, settings, output, deployment>>,
         reading' \subseteq Reads
  PROVE  ConverterInv'
  <1>1. SettingsCoverServices' /\ EnvCanBeEdited' /\ OutputOfLastRun'
    BY SamePage, SameOutput
  <1>2. OneRequest' /\ PressesAreNumbered'
    BY SameRequests DEF deployment
  <1>3. TypeOK'
    BY DEF ConverterInv, TypeOK, source, env, settings, deployment
  <1> QED BY <1>1, <1>2, <1>3 DEF ConverterInv

\* Choosing files changes nothing that the invariant is about.
LEMMA PickStep ==
  ASSUME ConverterInv, PickFiles
  PROVE  ConverterInv'
  <1>1. PICK rs \in SUBSET Reads : Pick(rs)
    <2> DEFINE yaml(f) == [kind |-> "yaml", file |-> f]
               text(t) == [kind |-> "env", file |-> t]
    <2>1. \A f \in Source : yaml(f) \in Reads
      BY DEF Reads
    <2>2. \A t \in EnvTexts : text(t) \in Reads
      BY DEF Reads
    <2>3. \/ \E f \in Source : Pick({yaml(f)})
          \/ \E t \in EnvTexts : Pick({text(t)})
          \/ \E f \in Source, t \in EnvTexts : Pick({yaml(f), text(t)})
      BY DEF PickFiles
    <2> HIDE DEF yaml, text
    <2>4. CASE \E f \in Source : Pick({yaml(f)})
      BY <2>1, <2>4
    <2>5. CASE \E t \in EnvTexts : Pick({text(t)})
      BY <2>2, <2>5
    <2>6. CASE \E f \in Source, t \in EnvTexts : Pick({yaml(f), text(t)})
      BY <2>1, <2>2, <2>6
    <2> QED BY <2>3, <2>4, <2>5, <2>6
  <1>2. reading \cup rs \subseteq Reads
    BY DEF ConverterInv, TypeOK
  <1> QED BY <1>1, <1>2, ReadingStep DEF Pick

\* A manifest that was read gives every service of it settings of its own.
LEMMA LoadYamlStep ==
  ASSUME ConverterInv, NEW r \in reading, LoadYaml(r)
  PROVE  ConverterInv'
  <1>1. /\ UNCHANGED <<mounted, env, globalSettings, output, deploying, flights, presses>>
        /\ mounted /\ deployMsg' = "none" /\ fileName' = r.file
        /\ reading' = reading \ {r}
    BY DEF LoadYaml, ReadDone, Settled
  <1>2. r.file \in Source
    BY DEF ConverterInv, TypeOK, Reads, LoadYaml
  <1>3. SettingsCoverServices'
    BY DEF LoadYaml, SettingsCoverServices, Services
  <1>4. EnvCanBeEdited'
    BY <1>1 DEF env, ConverterInv, EnvCanBeEdited
  <1>5. OutputOfLastRun'
    BY <1>1, SameOutput
  <1>6. OneRequest' /\ PressesAreNumbered'
    BY <1>1, SameRequests
  <1>7. /\ parseError' \in BOOLEAN
        /\ parsed' # None => /\ fileName' \in Source /\ parsed' # Broken
                             /\ parsed' = Content[fileName']
        /\ parseError' => parsed' = None
    BY <1>1, <1>2 DEF LoadYaml
  <1>8. \A s \in DOMAIN serviceSettings' : serviceSettings'[s] \in Setting
    <2>1. Defaults \in Setting
      BY DEF Defaults, Setting
    <2> QED BY <2>1 DEF LoadYaml, ConverterInv, TypeOK
  <1>9. TypeOK'
    BY <1>1, <1>2, <1>7, <1>8 DEF ConverterInv, TypeOK, env
  <1> QED BY <1>3, <1>4, <1>5, <1>6, <1>9 DEF ConverterInv

\* The variables are read, edited or cleared; the editor stays within reach.
LEMMA EnvStep ==
  ASSUME ConverterInv,
         UNCHANGED <<mounted, source, settings, output, deployment>>,
         reading' \subseteq reading,
         envText' \in EnvTexts \cup {<< >>},
         showEnvPanel' \in BOOLEAN,
         showEnvPanel' \/ EnvVarCount(envText') > 0 \/ envText' = << >>
  PROVE  ConverterInv'
  <1>1. SettingsCoverServices'
    BY DEF source, settings, ConverterInv, SettingsCoverServices, Services
  <1>2. EnvCanBeEdited'
    BY DEF EnvCanBeEdited
  <1>3. OutputOfLastRun' /\ OneRequest' /\ PressesAreNumbered'
    BY SameOutput, SameRequests DEF deployment
  <1>4. TypeOK'
    BY DEF ConverterInv, TypeOK, source, settings, deployment
  <1> QED BY <1>1, <1>2, <1>3, <1>4 DEF ConverterInv

\* Reading, editing, clearing or folding the variables keeps them within reach.
LEMMA EnvSteps ==
  ASSUME ConverterInv,
         (\E r \in reading : LoadEnv(r)) \/ EditEnv \/ ClearEnv \/ ToggleEnvPanel
  PROVE  ConverterInv'
  <1>1. ASSUME NEW r \in reading, LoadEnv(r) PROVE ConverterInv'
    <2>1. r.file \in EnvTexts
      BY <1>1 DEF ConverterInv, TypeOK, Reads, LoadEnv
    <2> QED BY <1>1, <2>1, EnvStep DEF LoadEnv, ReadDone
  <1>2. CASE EditEnv
    BY <1>2, EnvStep DEF EditEnv, SetEnv
  <1>3. CASE ClearEnv
    BY <1>3, EnvStep DEF ClearEnv, SetEnv
  <1>4. CASE ToggleEnvPanel
    <2>1. envText \in EnvTexts \cup {<< >>} /\ showEnvPanel \in BOOLEAN
      BY DEF ConverterInv, TypeOK
    <2> QED BY <1>4, <2>1, EnvStep DEF ToggleEnvPanel, SetEnv
  <1> QED BY <1>1, <1>2, <1>3, <1>4

\* Changing a setting, of all services or of one, takes none away.
LEMMA SettingsStep ==
  ASSUME ConverterInv, SetGlobal \/ \E s \in Services : SetSvc(s)
  PROVE  ConverterInv'
  <1>1. UNCHANGED <<mounted, source, env, output, deployment, reading>>
    BY DEF SetGlobal, SetSvc
  <1> DEFINE Kept == /\ DOMAIN serviceSettings' = DOMAIN serviceSettings
                     /\ globalSettings' \in Setting
                     /\ \A s \in DOMAIN serviceSettings' : serviceSettings'[s] \in Setting
  <1>2. Kept
    <2>1. CASE SetGlobal
      BY <2>1, ValuesAssumption DEF SetGlobal, ConverterInv, TypeOK
    <2>2. ASSUME NEW s \in Services, SetSvc(s)
          PROVE  Kept
      <3>1. s \in DOMAIN serviceSettings
        BY DEF ConverterInv, SettingsCoverServices, Services
      <3>2. PICK g \in ServiceValues :
              serviceSettings' = [x \in DOMAIN serviceSettings \cup {s} |->
                                    IF x = s THEN g ELSE serviceSettings[x]]
        BY <2>2 DEF SetSvc
      <3>3. serviceSettings' = [x \in DOMAIN serviceSettings |->
                                  IF x = s THEN g ELSE serviceSettings[x]]
        BY <3>1, <3>2
      <3>4. g \in Setting
        BY ValuesAssumption
      <3>5. globalSettings' \in Setting
        BY <2>2 DEF SetSvc, ConverterInv, TypeOK
      <3>6. \A x \in DOMAIN serviceSettings : serviceSettings[x] \in Setting
        BY DEF ConverterInv, TypeOK
      <3>7. DOMAIN serviceSettings' = DOMAIN serviceSettings
        BY <3>3
      <3>8. \A x \in DOMAIN serviceSettings : serviceSettings'[x] \in Setting
        BY <3>3, <3>4, <3>6
      <3> QED BY <3>5, <3>7, <3>8
    <2> QED BY <2>1, <2>2
  <1>3. SettingsCoverServices' /\ EnvCanBeEdited'
    BY <1>1, <1>2
       DEF source, env, ConverterInv, SettingsCoverServices, Services, EnvCanBeEdited
  <1>4. OutputOfLastRun' /\ OneRequest' /\ PressesAreNumbered'
    BY <1>1, SameOutput, SameRequests DEF deployment
  <1>5. TypeOK'
    BY <1>1, <1>2 DEF ConverterInv, TypeOK, source, env, deployment
  <1> QED BY <1>3, <1>4, <1>5 DEF ConverterInv

\* A press sends one request, with a number of its own.
LEMMA DeployStep ==
  ASSUME ConverterInv, DeployManifest
  PROVE  ConverterInv'
  <1> DEFINE new == [id |-> presses + 1, mine |-> TRUE]
  <1>1. /\ UNCHANGED <<mounted, source, env, settings, output, reading>>
        /\ presses' = presses + 1 /\ presses \in Nat
        /\ deploying' = TRUE /\ deployMsg' = "none" /\ mounted
        /\ flights' = flights \cup {new}
    BY DEF DeployManifest, CanPress, ConverterInv, TypeOK
  <1>2. MineInFlight = {}
    BY DEF DeployManifest, CanPress, ConverterInv, OneRequest
  <1>3. MineInFlight' = {new}
    BY <1>1, <1>2 DEF MineInFlight
  <1>4. OneRequest'
    BY <1>1, <1>3 DEF OneRequest
  <1>5. flights' \subseteq [id : 1 .. presses', mine : BOOLEAN]
    <2>1. new \in [id : 1 .. presses', mine : BOOLEAN]
      BY <1>1
    <2>2. [id : 1 .. presses, mine : BOOLEAN] \subseteq [id : 1 .. presses', mine : BOOLEAN]
      BY <1>1
    <2> QED BY <1>1, <2>1, <2>2 DEF ConverterInv, TypeOK
  <1>6. PressesAreNumbered'
    <2>1. \A f \in flights : f.id # new.id
      BY <1>1 DEF ConverterInv, TypeOK
    <2> QED BY <1>1, <2>1 DEF ConverterInv, PressesAreNumbered
  <1>7. SettingsCoverServices' /\ EnvCanBeEdited' /\ OutputOfLastRun'
    BY <1>1, SamePage, SameOutput
  <1>8. TypeOK'
    BY <1>1, <1>5 DEF ConverterInv, TypeOK, source, env, settings
  <1> QED BY <1>4, <1>6, <1>7, <1>8 DEF ConverterInv

\* An answer ends the request that it belongs to, and no other.
LEMMA AnswerStep ==
  ASSUME ConverterInv, NEW f \in flights, NEW msg \in Messages, Answer(f, msg)
  PROVE  ConverterInv'
  <1>1. UNCHANGED <<mounted, source, env, settings, output, reading, presses>>
    BY DEF Answer
  <1>2. flights' = flights \ {f} /\ MineInFlight' = MineInFlight \ {f}
    BY DEF Answer, MineInFlight
  <1>3. OneRequest'
    <2>1. CASE f.mine
      <3>1. MineInFlight = {f}
        BY <2>1 DEF ConverterInv, OneRequest, MineInFlight
      <3> QED BY <2>1, <3>1, <1>2 DEF Answer, OneRequest
    <2>2. CASE ~f.mine
      BY <1>1, <1>2, <2>2 DEF Answer, ConverterInv, OneRequest, MineInFlight
    <2> QED BY <2>1, <2>2
  <1>4. PressesAreNumbered'
    BY <1>2 DEF ConverterInv, PressesAreNumbered
  <1>5. SettingsCoverServices' /\ EnvCanBeEdited' /\ OutputOfLastRun'
    BY <1>1, SamePage, SameOutput
  <1>6. deploying' \in BOOLEAN /\ deployMsg' \in Messages \cup {"none"}
    BY DEF Answer, ConverterInv, TypeOK
  <1>7. TypeOK'
    BY <1>1, <1>2, <1>6 DEF ConverterInv, TypeOK, source, env, settings
  <1> QED BY <1>3, <1>4, <1>5, <1>7 DEF ConverterInv

\* A page without a file is in order.
LEMMA FreshPage ==
  ASSUME parsed = None, envText = << >>, serviceSettings = NoSettings,
         outputYaml = None, ranWith = FreshDeps
  PROVE  SettingsCoverServices /\ EnvCanBeEdited /\ OutputOfLastRun
  BY DEF SettingsCoverServices, EnvCanBeEdited, OutputOfLastRun, FreshDeps, ManifestOf

\* The settings of such a page have their types.
LEMMA FreshTypes ==
  /\ Defaults \in Setting
  /\ \A s \in DOMAIN NoSettings : NoSettings[s] \in Setting
  BY DEF Defaults, Setting, NoSettings

\* Leaving the tab forgets the page, and keeps its requests under way.
LEMMA LeaveStep ==
  ASSUME ConverterInv, Leave
  PROVE  ConverterInv'
  <1>1. SettingsCoverServices' /\ EnvCanBeEdited' /\ OutputOfLastRun'
    BY DEF Leave, SettingsCoverServices, EnvCanBeEdited, OutputOfLastRun, FreshDeps,
           ManifestOf
  <1>2. /\ flights' = {[f EXCEPT !.mine = FALSE] : f \in flights}
        /\ flights \subseteq [id : 1 .. presses, mine : BOOLEAN]
        /\ presses' = presses /\ deploying' = FALSE
    BY DEF Leave, ConverterInv, TypeOK
  <1>3. flights' \subseteq [id : 1 .. presses', mine : BOOLEAN] /\ \A f \in flights' : ~f.mine
    BY <1>2
  <1>4. OneRequest'
    BY <1>2, <1>3 DEF OneRequest, MineInFlight
  <1>5. PressesAreNumbered'
    <2>1. ASSUME NEW g \in flights', NEW h \in flights', g.id = h.id PROVE g = h
      <3>1. PICK f \in flights : g = [f EXCEPT !.mine = FALSE]
        BY <1>2
      <3>2. PICK e \in flights : h = [e EXCEPT !.mine = FALSE]
        BY <1>2
      <3>3. g.id = f.id /\ h.id = e.id
        BY <1>2, <3>1, <3>2
      <3>4. f = e
        BY <2>1, <3>3 DEF ConverterInv, PressesAreNumbered
      <3> QED BY <3>1, <3>2, <3>4
    <2> QED BY <2>1 DEF PressesAreNumbered
  <1>6. TypeOK'
    BY <1>2, <1>3, FreshTypes DEF Leave, ConverterInv, TypeOK
  <1> QED BY <1>1, <1>4, <1>5, <1>6 DEF ConverterInv

\* Coming back makes a new page, which sent none of them.
LEMMA ReturnStep ==
  ASSUME ConverterInv, Return
  PROVE  ConverterInv'
  <1>1. SettingsCoverServices' /\ EnvCanBeEdited' /\ OutputOfLastRun'
    BY SamePage, SameOutput DEF Return
  <1>2. OneRequest' /\ PressesAreNumbered'
    BY SameRequests DEF Return, deployment
  <1>3. TypeOK'
    BY DEF Return, ConverterInv, TypeOK, source, env, settings, deployment
  <1> QED BY <1>1, <1>2, <1>3 DEF ConverterInv

-----------------------------------------------------------------------------

\* The first page satisfies the invariant.
LEMMA ConverterInit ==
  ASSUME Init
  PROVE  ConverterInv
  <1>1. SettingsCoverServices /\ EnvCanBeEdited /\ OutputOfLastRun
    BY FreshPage DEF Init
  <1>2. OneRequest /\ PressesAreNumbered
    BY DEF Init, OneRequest, MineInFlight, PressesAreNumbered
  <1>3. TypeOK
    BY FreshTypes DEF Init, TypeOK
  <1> QED BY <1>1, <1>2, <1>3 DEF ConverterInv

\* Every step of the page keeps the invariant.
LEMMA ConverterNext ==
  ASSUME ConverterInv, [Next]_vars
  PROVE  ConverterInv'
  <1>1. ASSUME NEW r \in reading, ReadFails(r) PROVE ConverterInv'
    <2>1. reading' \subseteq Reads
      BY <1>1 DEF ReadFails, ReadDone, ConverterInv, TypeOK
    <2> QED BY <1>1, <2>1, ReadingStep DEF ReadFails
  <1>2. CASE UNCHANGED vars
    <2>1. reading' \subseteq Reads
      BY <1>2 DEF vars, ConverterInv, TypeOK
    <2> QED BY <1>2, <2>1, ReadingStep DEF vars
  <1>3. CASE Answered
    BY <1>3, AnswerStep DEF Answered
  <1> QED BY <1>1, <1>2, <1>3, RegenerateStep, PickStep, LoadYamlStep, EnvSteps,
             SettingsStep, DeployStep, LeaveStep, ReturnStep DEF Next

\* The inductive invariant holds in every reachable state.
THEOREM ConverterInvariant == Spec => []ConverterInv
  BY ConverterInit, ConverterNext, PTL DEF Spec

\* Every variable of the page keeps its type.
THEOREM ConverterTypes == Spec => []TypeOK
  <1>1. ConverterInv => TypeOK
    BY DEF ConverterInv
  <1> QED BY <1>1, ConverterInvariant, PTL

\* The manifest is that of the page whenever the effect is not about to run.
THEOREM ManifestIsCurrent == Spec => []OutputIsCurrent
  <1>1. ConverterInv => OutputIsCurrent
    BY DEF ConverterInv, OutputOfLastRun, OutputIsCurrent, Settled, Generated,
           EffectDeps, ManifestOf
  <1> QED BY <1>1, ConverterInvariant, PTL

\* The page has one request in flight while it says so, and none otherwise.
THEOREM OneRequestAtATime == Spec => []OneRequest
  <1>1. ConverterInv => OneRequest
    BY DEF ConverterInv
  <1> QED BY <1>1, ConverterInvariant, PTL

\* Every service shown has settings of its own.
THEOREM AllServicesHaveSettings == Spec => []SettingsCoverServices
  <1>1. ConverterInv => SettingsCoverServices
    BY DEF ConverterInv
  <1> QED BY <1>1, ConverterInvariant, PTL

\* The editor of the variables stays within reach.
THEOREM VariablesStayInReach == Spec => []EnvCanBeEdited
  <1>1. ConverterInv => EnvCanBeEdited
    BY DEF ConverterInv
  <1> QED BY <1>1, ConverterInvariant, PTL

\* The API makes as many pods as the fields show.
THEOREM AsManyPodsAsShown == Spec => []PodsAsShown
  <1>1. ASSUME ConverterInv PROVE PodsAsShown
    <2>1. SUFFICES ASSUME Settled, NEW s \in Services
          PROVE  LET pods == PodsOf(s, outputYaml[s]) IN
                   /\ Shown(s).replicas > 0 =>
                        pods.active = Least(Shown(s).replicas, MaxReplicas)
                   /\ pods.standby = Given(Shown(s).standby, parsed.services[s].standby)
                   /\ pods.userns = Shown(s).userns
      BY DEF PodsAsShown
    <2> DEFINE file == parsed.services[s]
               vars0 == ParseEnvText(envText)
    <2>2. outputYaml = Generated /\ parsed # None /\ s \in DOMAIN parsed.services
      BY <1>1, <2>1 DEF ConverterInv, OutputOfLastRun, Settled, Generated, EffectDeps,
                        ManifestOf, Services
    <2>3. outputYaml[s] = ConvertService(file, Shown(s), parsed.devices, vars0)
      BY <2>2 DEF Generated, ConvertCompose, Shown
    <2>4. /\ outputYaml[s].replicas = Given(Shown(s).replicas, file.replicas)
          /\ outputYaml[s].standby = Given(Shown(s).standby, file.standby)
          /\ outputYaml[s].userns = Shown(s).userns
      BY <2>3 DEF ConvertService
    <2> QED BY <2>4 DEF PodsOf, Given
  <1> QED BY <1>1, ConverterInvariant, PTL

\* The manifest gets through the API's pass when no "$" is left over, and every
\* database has a password, whatever texts the file, the values and the devices are.
THEOREM ManifestArrives == Spec => []ManifestGetsThrough
  <1>1. ASSUME ConverterInv PROVE ManifestGetsThrough
    <2> DEFINE e == ParseEnvText(envText)
    <2>1. SUFFICES ASSUME Settled, NEW s \in Services,
                          NEW svc, svc = outputYaml[s], NEW pod, pod = PodsOf(s, svc)
          PROVE  /\ NoSignLeft =>
                      /\ pod.image = IF svc.image = << >> THEN <<"default", "-", s>>
                                     ELSE svc.image
                      /\ pod.volumes = svc.volumes
                      /\ \A i \in Strings(svc.env) :
                           \/ pod.env[i] = svc.env[i].key \o svc.env[i].text
                           \/ /\ IsPostgres(svc.image)
                              /\ svc.env[i].key \o svc.env[i].text = Password
                      /\ \A i \in DOMAIN pod.env \ Strings(svc.env) :
                           IsPostgres(svc.image) /\ IsPassword(pod.env[i])
                 /\ IsPostgres(svc.image) =>
                      \E i \in DOMAIN pod.env :
                        IsPassword(pod.env[i]) /\ Len(pod.env[i]) > 2
      BY DEF ManifestGetsThrough
    <2>2. outputYaml = Generated /\ parsed # None /\ s \in DOMAIN parsed.services
      BY <1>1, <2>1 DEF ConverterInv, OutputOfLastRun, Settled, Generated, EffectDeps,
                        ManifestOf, Services
    <2>3. PICK file : file = parsed.services[s]
      OBVIOUS
    <2>4. svc = ConvertService(file, Shown(s), parsed.devices, e)
      BY <2>1, <2>2, <2>3 DEF Generated, ConvertCompose, Shown
    <2>5. IsFile(parsed)
      BY <1>1, <2>2, TextsAssumption DEF ConverterInv, TypeOK
    <2>6. /\ IsSequence(file.image)
          /\ \A v \in file.volumes : IsSequence(v)
          /\ IsEnvironment(file.env)
          /\ \A d \in DOMAIN parsed.devices : IsSequence(parsed.devices[d])
      BY <2>2, <2>3, <2>5 DEF IsFile
    <2>7. \A k \in DOMAIN e : IsSequence(e[k])
      <3>1. envText \in EnvTexts \cup {<< >>}
        BY <1>1 DEF ConverterInv, TypeOK
      <3> QED BY <3>1, ValuesAreTexts
    <2>8. NoSignLeft => /\ \A k \in DOMAIN e : SignFree(e[k])
                        /\ NoneLeft(file.image)
                        /\ \A v \in file.volumes : NoneLeft(v)
                        /\ \A i \in Strings(file.env) : NoneLeft(file.env[i].text)
                        /\ \A d \in DOMAIN parsed.devices : SignFree(parsed.devices[d])
      BY <2>1, <2>2, <2>3 DEF NoSignLeft
    <2> HIDE DEF e
    <2>9. /\ svc.image = Interpolate(file.image, e)
          /\ svc.volumes = {FlattenVolume(Interpolate(v, e), parsed.devices) : v \in file.volumes}
          /\ svc.env = InterpolatedEnv(file.env, e)
      BY <2>4 DEF ConvertService
    <2>10. /\ pod.image = IF ApiText(svc.image) = << >> THEN <<"default", "-", s>>
                          ELSE ApiText(svc.image)
           /\ pod.volumes = {ApiText(v) : v \in svc.volumes}
           /\ pod.env = WithPassword(svc.image, EnvList(svc.env), Len(svc.env) + 1)
      BY <2>1 DEF PodsOf
    <2>11. NoSignLeft => ApiText(svc.image) = svc.image
      BY <2>6, <2>7, <2>8, <2>9, FirstPass, SecondPass
    <2>12. ASSUME NoSignLeft PROVE pod.volumes = svc.volumes
      <3>1. /\ \A v \in file.volumes : IsSequence(v) /\ NoneLeft(v)
            /\ \A k \in DOMAIN e : IsSequence(e[k]) /\ SignFree(e[k])
            /\ \A d \in DOMAIN parsed.devices :
                 IsSequence(parsed.devices[d]) /\ SignFree(parsed.devices[d])
        BY <2>6, <2>7, <2>8, <2>12
      <3>2. ASSUME NEW w \in svc.volumes PROVE ApiText(w) = w
        <4>1. PICK v \in file.volumes : w = FlattenVolume(Interpolate(v, e), parsed.devices)
          BY <2>9
        <4> DEFINE devices == parsed.devices
                   volumes == file.volumes
        <4>2. /\ v \in volumes /\ \A x \in volumes : IsSequence(x) /\ NoneLeft(x)
              /\ \A d \in DOMAIN devices : IsSequence(devices[d]) /\ SignFree(devices[d])
              /\ w = FlattenVolume(Interpolate(v, e), devices)
          BY <3>1, <4>1
        <4> HIDE DEF devices, volumes
        <4> QED BY <3>1, <4>2, VolumesArrive
      <3> QED BY <2>10, <3>2
    <2>13. EnvironmentThrough(file.env, e, svc.env, svc.image, pod.env)
      <3> DEFINE list == file.env
                 shown == svc.env
                 penv == pod.env
                 image == svc.image
                 n == Len(shown) + 1
      <3>1. /\ IsEnvironment(list) /\ shown = InterpolatedEnv(list, e)
            /\ n = Len(shown) + 1
            /\ penv = WithPassword(image, EnvList(shown), n)
        BY <2>6, <2>9, <2>10
      <3> HIDE DEF list, shown, penv, image, n
      <3>2. EnvironmentThrough(list, e, shown, image, penv)
        BY <2>7, <3>1, EnvironmentArrives
      <3> QED BY <3>2 DEF list, shown, penv, image
    <2> QED BY <2>8, <2>10, <2>11, <2>12, <2>13 DEF EnvironmentThrough
  <1> QED BY <1>1, ConverterInvariant, PTL

=============================================================================
