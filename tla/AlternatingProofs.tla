-------------------------- MODULE AlternatingProofs --------------------------
(***************************************************************************)
(* The recursive functions of Alternating are what their equations say.    *)
(* The induction principle they need is obtained from the minimal element  *)
(* of a set of natural numbers.                                            *)
(***************************************************************************)
EXTENDS Alternating, WellFoundedInduction, TLAPS

LessThan == {p \in Nat \X Nat : p[1] < p[2]}

LEMMA LessThanWellFounded == IsWellFoundedOn(LessThan, Nat)
<1>1. OpToRel(<, Nat) = LessThan
  BY DEF OpToRel, LessThan
<1>2. QED
  BY <1>1, NatLessThanWellFounded

\* Induction over a set of natural numbers.
LEMMA NatSetInduction ==
  ASSUME NEW S, 0 \in S, \A n \in Nat : n \in S => n + 1 \in S
  PROVE  Nat \subseteq S
<1> DEFINE T == Nat \ S
<1> SUFFICES ASSUME T # {} PROVE FALSE
  OBVIOUS
<1>1. PICK x \in T : \A y \in T : <<y, x>> \notin LessThan
  BY LessThanWellFounded, WFMin
<1>2. x # 0 /\ x - 1 \in Nat
  OBVIOUS
<1>3. x - 1 \in T
  OBVIOUS
<1>4. <<x - 1, x>> \in LessThan
  BY <1>2 DEF LessThan
<1>5. QED
  BY <1>1, <1>3, <1>4

\* f is built from c by n steps of G.
IsIteration(f, R, c, n, G) ==
    /\ f \in [0..n -> R]
    /\ f[0] = c
    /\ \A i \in 1..n : f[i] = G[<<i, f[i-1]>>]

\* A function on 0..n can be defined by recursion: from its value at 0 and the
\* function that gives the value at i from the one at i - 1.
LEMMA IterationExists ==
  ASSUME NEW R, NEW c \in R, NEW n \in Nat, NEW G \in [(1..n) \X R -> R]
  PROVE  \E f : IsIteration(f, R, c, n, G)
<1> USE DEF IsIteration
<1> DEFINE Good(m, f) == f[0] = c /\ \A i \in 1..m : f[i] = G[<<i, f[i-1]>>]
           S == {m \in Nat : m <= n => \E f \in [0..m -> R] : Good(m, f)}
<1>1. 0 \in S
  <2>1. [i \in 0..0 |-> c] \in [0..0 -> R] /\ Good(0, [i \in 0..0 |-> c])
    OBVIOUS
  <2>2. QED
    BY <2>1
<1>2. ASSUME NEW m \in Nat, m \in S
      PROVE  m + 1 \in S
  <2>1. SUFFICES ASSUME m + 1 <= n
                 PROVE  \E f \in [0..(m+1) -> R] : Good(m + 1, f)
    OBVIOUS
  <2>2. PICK f \in [0..m -> R] : Good(m, f)
    BY <1>2, <2>1
  <2> DEFINE g == [i \in 0..(m+1) |-> IF i = m + 1 THEN G[<<i, f[m]>>] ELSE f[i]]
  <2>3. f[m] \in R /\ m + 1 \in 1..n
    BY <2>1, <2>2
  <2>4. g \in [0..(m+1) -> R]
    BY <2>2, <2>3
  <2>5. g[0] = c
    BY <2>2
  <2>6. ASSUME NEW i \in 1..(m+1)
        PROVE  g[i] = G[<<i, g[i-1]>>]
    <3>1. CASE i = m + 1
      BY <3>1
    <3>2. CASE i # m + 1
      BY <2>2, <3>2
    <3>3. QED
      BY <3>1, <3>2
  <2>7. QED
    BY <2>4, <2>5, <2>6
<1>3. Nat \subseteq S
  <2> HIDE DEF S
  <2> QED BY <1>1, <1>2, NatSetInduction
<1>4. QED
  BY <1>3

-----------------------------------------------------------------------------
\* The equations of AcceptingAfter.
LEMMA AcceptingAfterEquations ==
  ASSUME NEW a \in Automaton, NEW w \in Seq(mAllSyms)
  PROVE  LET A == AcceptingAfter(a, w)
             n == Len(w)
         IN  /\ A \in [0..n -> SUBSET AFAState]
             /\ A[0] = a.mIsAccepted
             /\ \A i \in 1..n : A[i] =
                  {q \in AFAState : \E alt \in a.mTransitions[<<q, w[n-i+1]>>] : alt \subseteq A[i-1]}
<1> DEFINE n == Len(w)
           Before(i, S) ==
             {q \in AFAState : \E alt \in a.mTransitions[<<q, w[n-i+1]>>] : alt \subseteq S}
           Body(f) == [i \in 0..n |-> IF i = 0 THEN a.mIsAccepted ELSE Before(i, f[i-1])]
           G == [p \in (1..n) \X SUBSET AFAState |-> Before(p[1], p[2])]
<1>1. n \in Nat /\ a.mIsAccepted \in SUBSET AFAState
  BY DEF Automaton
<1>2. G \in [(1..n) \X SUBSET AFAState -> SUBSET AFAState]
  OBVIOUS
<1>3. ASSUME NEW i \in 1..n, NEW S \in SUBSET AFAState
      PROVE  G[<<i, S>>] = Before(i, S) /\ Before(i, S) \in SUBSET AFAState
  OBVIOUS
<1>4. PICK f : IsIteration(f, SUBSET AFAState, a.mIsAccepted, n, G)
  <2> HIDE DEF G, Before, n
  <2> QED BY <1>1, <1>2, IterationExists
<1>5. ASSUME NEW i \in 1..n
      PROVE  f[i] = Before(i, f[i-1])
  <2>1. f[i-1] \in SUBSET AFAState
    BY <1>1, <1>4 DEF IsIteration
  <2> HIDE DEF G, Before
  <2>2. QED
    BY <1>3, <1>4, <2>1 DEF IsIteration
<1>6. f = Body(f)
  <2> HIDE DEF G, Before
  <2> QED BY <1>1, <1>4, <1>5 DEF IsIteration
<1>7. AcceptingAfter(a, w) = Body(AcceptingAfter(a, w))
  <2>1. AcceptingAfter(a, w) = CHOOSE g : g = Body(g)
    BY DEF AcceptingAfter
  <2> HIDE DEF Body
  <2>2. QED
    BY <1>6, <2>1
<1> DEFINE A == AcceptingAfter(a, w)
<1>8. A[0] = a.mIsAccepted
  BY <1>1, <1>7
<1>9. ASSUME NEW i \in 1..n
      PROVE  A[i] = Before(i, A[i-1])
  <2>1. i \in 0..n /\ i # 0
    BY <1>1
  <2> HIDE DEF Before, A
  <2>2. QED
    BY <1>7, <2>1 DEF A
<1>10. A \in [0..n -> SUBSET AFAState]
  <2>1. ASSUME NEW i \in 0..n
        PROVE  Body(A)[i] \in SUBSET AFAState
    BY <1>1
  <2> HIDE DEF Before, A
  <2>2. QED
    BY <1>7, <2>1 DEF A
<1>11. QED
  BY <1>8, <1>9, <1>10

\* The equations of MarkedAfter.
LEMMA MarkedAfterEquations ==
  ASSUME NEW marked, NEW trans, NEW w \in Seq(mAllSyms)
  PROVE  LET B == MarkedAfter(trans, marked, w)
             n == Len(w)
         IN  /\ B[0] = marked
             /\ \A i \in 1..n : B[i] =
                  {e[1] : e \in {d \in trans : d[2] = w[n-i+1] /\ d[3] \in B[i-1]}}
<1> DEFINE n == Len(w)
           St == marked \cup {e[1] : e \in trans}
           Before(i, S) == {e[1] : e \in {d \in trans : d[2] = w[n-i+1] /\ d[3] \in S}}
           Body(f) == [i \in 0..n |-> IF i = 0 THEN marked ELSE Before(i, f[i-1])]
           G == [p \in (1..n) \X SUBSET St |-> Before(p[1], p[2])]
<1>1. n \in Nat
  OBVIOUS
<1>2. G \in [(1..n) \X SUBSET St -> SUBSET St]
  OBVIOUS
<1>3. ASSUME NEW i \in 1..n, NEW S \in SUBSET St
      PROVE  G[<<i, S>>] = Before(i, S) /\ Before(i, S) \in SUBSET St
  OBVIOUS
<1>4. PICK f : IsIteration(f, SUBSET St, marked, n, G)
  <2> HIDE DEF G, Before, n
  <2> QED BY <1>1, <1>2, IterationExists
<1>5. ASSUME NEW i \in 1..n
      PROVE  f[i] = Before(i, f[i-1])
  <2>1. f[i-1] \in SUBSET St
    BY <1>1, <1>4 DEF IsIteration
  <2> HIDE DEF G, Before
  <2>2. QED
    BY <1>3, <1>4, <2>1 DEF IsIteration
<1>6. f = Body(f)
  <2> HIDE DEF G, Before
  <2> QED BY <1>1, <1>4, <1>5 DEF IsIteration
<1>7. MarkedAfter(trans, marked, w) = Body(MarkedAfter(trans, marked, w))
  <2>1. MarkedAfter(trans, marked, w) = CHOOSE g : g = Body(g)
    BY DEF MarkedAfter
  <2> HIDE DEF Body
  <2>2. QED
    BY <1>6, <2>1
<1> DEFINE B == MarkedAfter(trans, marked, w)
<1>8. B[0] = marked
  BY <1>1, <1>7
<1>9. ASSUME NEW i \in 1..n
      PROVE  B[i] = Before(i, B[i-1])
  <2>1. i \in 0..n /\ i # 0
    BY <1>1
  <2> HIDE DEF Before, B
  <2>2. QED
    BY <1>7, <2>1 DEF B
<1>10. QED
  BY <1>8, <1>9
=============================================================================
