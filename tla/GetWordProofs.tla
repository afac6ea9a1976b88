---------------------------- MODULE GetWordProofs ----------------------------
(***************************************************************************)
(* GetWord returns a shortest accepted word, or None for an empty          *)
(* language, for every generator.                                          *)
(***************************************************************************)
EXTENDS GetWord, FiniteSetTheorems, TLAPS

Nats == INSTANCE AlternatingProofs WITH GenState <- {}, AFAState <- {}, mAllSyms <- {}

-----------------------------------------------------------------------------
(***************************************************************************)
(* The equations of the recursive functions After and Within.              *)
(***************************************************************************)
Step(g, e, S) == {tr[3] : tr \in {t \in g.trans : t[1] \in S /\ t[2] = e}}
Wider(g, S) == S \cup {tr[3] : tr \in {t \in g.trans : t[1] \in S}}

IsAfter(D, g, w) ==
    /\ D \in [0..Len(w) -> SUBSET Idx]
    /\ D[0] = g.init
    /\ \A i \in 1..Len(w) : D[i] = Step(g, w[i], D[i-1])

IsWithin(R, g, n) ==
    /\ R \in [0..n -> SUBSET Idx]
    /\ R[0] = g.init
    /\ \A i \in 1..n : R[i] = Wider(g, R[i-1])

\* The successors of a set of states are states.
LEMMA StepType ==
    ASSUME NEW g \in Generator, NEW e, NEW S \in SUBSET Idx
    PROVE  Step(g, e, S) \in SUBSET Idx /\ Wider(g, S) \in SUBSET Idx
BY DEF Generator, Step, Wider

\* After is the last value of such a function.
LEMMA AfterEquations ==
    ASSUME NEW g \in Generator, NEW w \in Seq(Event)
    PROVE  \E D : IsAfter(D, g, w) /\ After(g, w) = D[Len(w)]
<1> DEFINE n == Len(w)
           Body(f) == [i \in 0..n |-> IF i = 0 THEN g.init ELSE Step(g, w[i], f[i-1])]
           G == [p \in (1..n) \X SUBSET Idx |-> Step(g, w[p[1]], p[2])]
           D == CHOOSE f : f = Body(f)
<1>1. n \in Nat /\ g.init \in SUBSET Idx
  BY DEF Generator
<1>2. ASSUME NEW i \in 1..n, NEW S \in SUBSET Idx
      PROVE  G[<<i, S>>] = Step(g, w[i], S) /\ Step(g, w[i], S) \in SUBSET Idx
  BY DEF Generator, Step
<1>3. G \in [(1..n) \X SUBSET Idx -> SUBSET Idx]
  BY DEF Generator, Step
<1>4. PICK f : Nats!IsIteration(f, SUBSET Idx, g.init, n, G)
  <2> HIDE DEF G, n
  <2> QED  BY <1>1, <1>3, Nats!IterationExists
<1>5. f \in [0..n -> SUBSET Idx] /\ f[0] = g.init /\ \A i \in 1..n : f[i] = Step(g, w[i], f[i-1])
  <2>1. f \in [0..n -> SUBSET Idx] /\ f[0] = g.init /\ \A i \in 1..n : f[i] = G[<<i, f[i-1]>>]
    BY <1>4 DEF Nats!IsIteration
  <2>2. ASSUME NEW i \in 1..n
        PROVE  f[i] = Step(g, w[i], f[i-1])
    <3>1. f[i-1] \in SUBSET Idx
      BY <1>1, <2>1
    <3> HIDE DEF G, n
    <3> QED  BY <1>2, <2>1, <3>1
  <2> HIDE DEF G
  <2> QED  BY <2>1, <2>2
<1>6. f = Body(f)
  <2> HIDE DEF n
  <2> QED  BY <1>1, <1>5
<1>7. D = Body(D)
  <2> HIDE DEF Body
  <2> QED  BY <1>6
<1>8. After(g, w) = D[n]
  BY DEF After, Step
<1>9. IsAfter(D, g, w)
  <2>1. D[0] = g.init
    <3> HIDE DEF D
    <3> QED  BY <1>1, <1>7
  <2>2. ASSUME NEW i \in 1..n
        PROVE  D[i] = Step(g, w[i], D[i-1])
    <3>1. i \in 0..n /\ i # 0
      BY <1>1
    <3> HIDE DEF D, n
    <3> QED  BY <1>7, <3>1
  <2>3. \A i \in 1..n : Step(g, w[i], D[i-1]) \in SUBSET Idx
    BY DEF Generator, Step
  <2>4. \A i \in 0..n : i \in 1..n \/ i = 0
    BY <1>1
  <2>5. D \in [0..n -> SUBSET Idx]
    <3>1. \A i \in 0..n : D[i] \in SUBSET Idx
      <4> HIDE DEF D, n
      <4> QED  BY <1>1, <2>1, <2>2, <2>3, <2>4
    <3>2. D = [i \in 0..n |-> D[i]]
      <4> HIDE DEF D, n
      <4> QED  BY <1>7
    <3> HIDE DEF D, n
    <3> QED  BY <3>1, <3>2
  <2> HIDE DEF D
  <2> QED  BY <2>1, <2>2, <2>5 DEF IsAfter
<1> HIDE DEF D
<1> QED  BY <1>8, <1>9

\* Within is the last value of such a function.
LEMMA WithinEquations ==
    ASSUME NEW g \in Generator, NEW n \in Nat
    PROVE  \E D : IsWithin(D, g, n) /\ Within(g, n) = D[n]
<1> DEFINE Body(f) == [i \in 0..n |-> IF i = 0 THEN g.init ELSE Wider(g, f[i-1])]
           G == [p \in (1..n) \X SUBSET Idx |-> Wider(g, p[2])]
           D == CHOOSE f : f = Body(f)
<1>1. n \in Nat /\ g.init \in SUBSET Idx
  BY DEF Generator
<1>2. ASSUME NEW i \in 1..n, NEW S \in SUBSET Idx
      PROVE  G[<<i, S>>] = Wider(g, S) /\ Wider(g, S) \in SUBSET Idx
  BY DEF Generator, Wider
<1>3. G \in [(1..n) \X SUBSET Idx -> SUBSET Idx]
  BY DEF Generator, Wider
<1>4. PICK f : Nats!IsIteration(f, SUBSET Idx, g.init, n, G)
  <2> HIDE DEF G
  <2> QED  BY <1>1, <1>3, Nats!IterationExists
<1>5. f \in [0..n -> SUBSET Idx] /\ f[0] = g.init /\ \A i \in 1..n : f[i] = Wider(g, f[i-1])
  <2>1. f \in [0..n -> SUBSET Idx] /\ f[0] = g.init /\ \A i \in 1..n : f[i] = G[<<i, f[i-1]>>]
    BY <1>4 DEF Nats!IsIteration
  <2>2. ASSUME NEW i \in 1..n
        PROVE  f[i] = Wider(g, f[i-1])
    <3>1. f[i-1] \in SUBSET Idx
      BY <1>1, <2>1
    <3> HIDE DEF G
    <3> QED  BY <1>2, <2>1, <3>1
  <2> HIDE DEF G
  <2> QED  BY <2>1, <2>2
<1>6. f = Body(f)
  <2> QED  BY <1>1, <1>5
<1>7. D = Body(D)
  <2> HIDE DEF Body
  <2> QED  BY <1>6
<1>8. Within(g, n) = D[n]
  BY DEF Within, Wider
<1>9. IsWithin(D, g, n)
  <2>1. D[0] = g.init
    <3> HIDE DEF D
    <3> QED  BY <1>1, <1>7
  <2>2. ASSUME NEW i \in 1..n
        PROVE  D[i] = Wider(g, D[i-1])
    <3>1. i \in 0..n /\ i # 0
      BY <1>1
    <3> HIDE DEF D
    <3> QED  BY <1>7, <3>1
  <2> DEFINE T == {i \in Nat : i <= n => D[i] \in SUBSET Idx}
  <2>3. 0 \in T
    <3> HIDE DEF D
    <3> QED  BY <1>1, <2>1
  <2>4. ASSUME NEW i \in Nat, i \in T
        PROVE  i + 1 \in T
    <3>1. SUFFICES ASSUME i + 1 <= n
                   PROVE  D[i + 1] \in SUBSET Idx
      OBVIOUS
    <3>2. i + 1 \in 1..n /\ (i + 1) - 1 = i /\ i <= n
      BY <1>1, <3>1
    <3> HIDE DEF D
    <3>3. D[i] \in SUBSET Idx
      BY <2>4, <3>2
    <3>4. D[i + 1] = Wider(g, D[i])
      BY <2>2, <3>2
    <3> QED  BY <3>3, <3>4, StepType
  <2>5. D \in [0..n -> SUBSET Idx]
    <3>1. \A i \in 0..n : D[i] \in SUBSET Idx
      <4>1. Nat \subseteq T
        <5> HIDE DEF T
        <5> QED  BY <2>3, <2>4, Nats!NatSetInduction
      <4> HIDE DEF D
      <4> QED  BY <1>1, <4>1
    <3>2. D = [i \in 0..n |-> D[i]]
      <4> HIDE DEF D
      <4> QED  BY <1>7
    <3> HIDE DEF D
    <3> QED  BY <3>1, <3>2
  <2> HIDE DEF D
  <2> QED  BY <2>1, <2>2, <2>5 DEF IsWithin
<1> HIDE DEF D
<1> QED  BY <1>8, <1>9

\* Two such functions agree where both are defined.
LEMMA AfterAgree ==
    ASSUME NEW g \in Generator, NEW w \in Seq(Event), NEW e \in Event,
           NEW D1, IsAfter(D1, g, w), NEW D2, IsAfter(D2, g, Append(w, e))
    PROVE  \A i \in 0..Len(w) : D1[i] = D2[i]
<1> DEFINE v == Append(w, e)
           T == {i \in Nat : i <= Len(w) => D1[i] = D2[i]}
<1>1. /\ Len(w) \in Nat /\ Len(v) = Len(w) + 1
      /\ \A i \in 1..Len(w) : v[i] = w[i]
  OBVIOUS
<1>2. 0 \in T
  BY DEF IsAfter
<1>3. ASSUME NEW i \in Nat, i \in T
      PROVE  i + 1 \in T
  <2> HIDE DEF v
  <2>1. SUFFICES ASSUME i + 1 <= Len(w)
                 PROVE  D1[i + 1] = D2[i + 1]
    OBVIOUS
  <2>2. i + 1 \in 1..Len(w) /\ i + 1 \in 1..Len(v) /\ D1[i] = D2[i] /\ (i + 1) - 1 = i
    BY <1>1, <1>3, <2>1
  <2>3. D1[i + 1] = Step(g, w[i + 1], D1[i])
    BY <2>2 DEF IsAfter
  <2>4. D2[i + 1] = Step(g, v[i + 1], D2[i])
    BY <2>2 DEF IsAfter, v
  <2> QED  BY <1>1, <2>2, <2>3, <2>4
<1>4. Nat \subseteq T
  <2> HIDE DEF T
  <2> QED  BY <1>2, <1>3, Nats!NatSetInduction
<1> QED  BY <1>4

\* The empty word leads to the initial states.
LEMMA AfterEmpty ==
    ASSUME NEW g \in Generator
    PROVE  After(g, <<>>) = g.init
<1>1. <<>> \in Seq(Event) /\ Len(<<>>) = 0
  OBVIOUS
<1> QED  BY <1>1, AfterEquations DEF IsAfter

\* One more symbol: a step from where the word leads.
LEMMA AfterAppend ==
    ASSUME NEW g \in Generator, NEW w \in Seq(Event), NEW e \in Event
    PROVE  After(g, Append(w, e)) = Step(g, e, After(g, w))
<1> DEFINE v == Append(w, e)
           n == Len(w)
<1>1. v \in Seq(Event) /\ n \in Nat /\ Len(v) = n + 1 /\ v[n + 1] = e
  OBVIOUS
<1>2. PICK D1 : IsAfter(D1, g, w) /\ After(g, w) = D1[n]
  BY AfterEquations
<1>3. PICK D2 : IsAfter(D2, g, v) /\ After(g, v) = D2[n + 1]
  <2> HIDE DEF v
  <2> QED  BY <1>1, AfterEquations
<1>4. D1[n] = D2[n]
  BY <1>1, <1>2, <1>3, AfterAgree
<1>5. D2[n + 1] = Step(g, v[n + 1], D2[n])
  <2>1. n + 1 \in 1..Len(v) /\ (n + 1) - 1 = n
    <3> HIDE DEF v, n
    <3> QED  BY <1>1
  <2> HIDE DEF v, n
  <2> QED  BY <1>3, <2>1 DEF IsAfter
<1> HIDE DEF v, n
<1> QED  BY <1>1, <1>2, <1>3, <1>4, <1>5 DEF v

\* The distances up to n are the same in the function for n + 1.
LEMMA WithinAgree ==
    ASSUME NEW g \in Generator, NEW n \in Nat,
           NEW R1, IsWithin(R1, g, n), NEW R2, IsWithin(R2, g, n + 1)
    PROVE  \A i \in 0..n : R1[i] = R2[i]
<1> DEFINE T == {i \in Nat : i <= n => R1[i] = R2[i]}
<1>1. 0 \in T
  BY DEF IsWithin
<1>2. ASSUME NEW i \in Nat, i \in T
      PROVE  i + 1 \in T
  <2>1. SUFFICES ASSUME i + 1 <= n
                 PROVE  R1[i + 1] = R2[i + 1]
    OBVIOUS
  <2>2. i + 1 \in 1..n /\ i + 1 \in 1..(n + 1) /\ R1[i] = R2[i] /\ (i + 1) - 1 = i
    BY <1>2, <2>1
  <2> QED  BY <2>2 DEF IsWithin
<1>3. Nat \subseteq T
  <2> HIDE DEF T
  <2> QED  BY <1>1, <1>2, Nats!NatSetInduction
<1> QED  BY <1>3

\* At distance zero there are the initial states.
LEMMA WithinZero ==
    ASSUME NEW g \in Generator
    PROVE  Within(g, 0) = g.init
BY WithinEquations DEF IsWithin

\* One step more from everything within n.
LEMMA WithinNext ==
    ASSUME NEW g \in Generator, NEW n \in Nat
    PROVE  Within(g, n + 1) = Wider(g, Within(g, n))
<1>1. PICK R1 : IsWithin(R1, g, n) /\ Within(g, n) = R1[n]
  BY WithinEquations
<1>2. PICK R2 : IsWithin(R2, g, n + 1) /\ Within(g, n + 1) = R2[n + 1]
  BY WithinEquations
<1>3. R1[n] = R2[n]
  BY <1>1, <1>2, WithinAgree
<1>4. R2[n + 1] = Wider(g, R2[n])
  <2>1. n + 1 \in 1..(n + 1) /\ (n + 1) - 1 = n
    OBVIOUS
  <2> QED  BY <1>2, <2>1 DEF IsWithin
<1> QED  BY <1>1, <1>2, <1>3, <1>4

-----------------------------------------------------------------------------
(***************************************************************************)
(* The inductive invariant.                                                *)
(***************************************************************************)
\* Every queued pair is a path, and so is every transition still to be looked
\* at, after the word of the popped state.
OnPaths ==
    /\ \A i \in 1..Len(todo) : todo[i][1] \in After(generator, todo[i][2])
    /\ \A tr \in edges : tr \in generator.trans /\ tr[1] \in After(generator, syms)

\* Breadth-first order: the queued words are as long as that of the popped
\* state or longer by one, and do not get shorter along the queue.
QueueOrdered ==
    /\ \A i \in 1..Len(todo) : Len(todo[i][2]) \in {Len(syms), Len(syms) + 1}
    /\ \A i, j \in 1..Len(todo) : i <= j => Len(todo[i][2]) <= Len(todo[j][2])

\* The initial states are queued before anything else happens.
Starting ==
    inits # {} =>
        /\ inits \subseteq generator.init
        /\ syms = <<>> /\ edges = {} /\ seenSet = {}
        /\ \A i \in 1..Len(todo) : todo[i][2] = <<>>

Waiting(q) == \E i \in 1..Len(todo) : todo[i][1] = q

\* What can be reached from a seen state is seen or waits to be.
Explored ==
    \A tr \in generator.trans :
        tr[1] \in seenSet => tr \in edges \/ tr[3] \in seenSet \/ Waiting(tr[3])

\* All states nearer than the popped one are seen, and those that are as near
\* are seen or wait with a word of this length.
Frontier ==
    /\ \A n \in Nat : n < Len(syms) => Within(generator, n) \subseteq seenSet
    /\ \A q \in Within(generator, Len(syms)) :
          \/ q \in seenSet \cup inits
          \/ \E i \in 1..Len(todo) : todo[i][1] = q /\ Len(todo[i][2]) <= Len(syms)

Searching ==
    result = {} => seenSet \cap generator.marked = {} /\ Explored /\ Frontier

IInv ==
    TypeOK /\ OnPaths /\ QueueOrdered /\ Starting /\ Searching /\ Shortest /\ NoneIsEmpty

-----------------------------------------------------------------------------
(***************************************************************************)
(* The queue.                                                              *)
(***************************************************************************)
\* What Found and Pop see of the queue: its first pair, and the others, which keep their order.
LEMMA TailOf ==
    ASSUME TypeOK, todo # <<>>
    PROVE  /\ Len(todo) \in Nat \ {0} /\ Head(todo) = todo[1]
           /\ todo[1][1] \in Idx /\ todo[1][2] \in Seq(Event)
           /\ Tail(todo) \in Seq(Idx \X Seq(Event))
           /\ Len(Tail(todo)) = Len(todo) - 1
           /\ \A i \in 1..Len(Tail(todo)) : Tail(todo)[i] = todo[i + 1] /\ i + 1 \in 1..Len(todo)
           /\ \A i \in 1..Len(todo) : i = 1 \/ (i - 1 \in 1..Len(Tail(todo)) /\ Tail(todo)[i - 1] = todo[i])
<1> DEFINE E == Idx \X Seq(Event)
           t == Tail(todo)
<1>1. todo \in Seq(E) /\ todo # <<>>
  BY DEF TypeOK
<1> HIDE DEF E
<1>2. /\ Len(todo) \in Nat \ {0} /\ Head(todo) = todo[1] /\ todo[1] \in E
      /\ t \in Seq(E) /\ Len(t) = Len(todo) - 1
      /\ \A i \in 1..Len(t) : t[i] = todo[i + 1]
  BY <1>1
<1> HIDE DEF t
<1>3. \A i \in 1..Len(t) : i + 1 \in 1..Len(todo)
  BY <1>2
<1>4. ASSUME NEW i \in 1..Len(todo), i # 1
      PROVE  i - 1 \in 1..Len(t) /\ t[i - 1] = todo[i]
  <2>1. i - 1 \in 1..Len(t) /\ (i - 1) + 1 = i
    BY <1>2, <1>4
  <2> QED  BY <1>2, <2>1
<1>5. todo[1][1] \in Idx /\ todo[1][2] \in Seq(Event)
  BY <1>2 DEF E
<1>6. \A i \in 1..Len(todo) : i = 1 \/ (i - 1 \in 1..Len(t) /\ t[i - 1] = todo[i])
  BY <1>4
<1>7. \A i \in 1..Len(t) : t[i] = todo[i + 1] /\ i + 1 \in 1..Len(todo)
  BY <1>2, <1>3
<1>8. Len(todo) \in Nat \ {0} /\ Head(todo) = todo[1] /\ t \in Seq(E) /\ Len(t) = Len(todo) - 1
  BY <1>2
<1> QED  BY <1>5, <1>6, <1>7, <1>8 DEF t, E

\* What PushInitial and FollowEdge make of the queue: one more pair at its end.
LEMMA AppendTo ==
    ASSUME TypeOK, NEW q \in Idx, NEW w \in Seq(Event)
    PROVE  LET t == Append(todo, <<q, w>>)
           IN  /\ Len(todo) \in Nat /\ Len(t) = Len(todo) + 1
               /\ t \in Seq(Idx \X Seq(Event))
               /\ t[Len(t)] = <<q, w>> /\ Len(t) \in 1..Len(t)
               /\ \A i \in 1..Len(todo) : t[i] = todo[i] /\ i \in 1..Len(t)
               /\ \A i \in 1..Len(t) : i \in 1..Len(todo) \/ i = Len(t)
<1> DEFINE E == Idx \X Seq(Event)
           x == <<q, w>>
           t == Append(todo, x)
<1>1. todo \in Seq(E) /\ x \in E
  BY DEF TypeOK
<1> HIDE DEF E, x
<1>2. /\ Len(todo) \in Nat /\ Len(t) = Len(todo) + 1 /\ t \in Seq(E)
      /\ t[Len(todo) + 1] = x /\ \A i \in 1..Len(todo) : t[i] = todo[i]
  <2>1. Len(todo) \in Nat /\ Len(t) = Len(todo) + 1 /\ t \in Seq(E)
    BY <1>1
  <2>2. t[Len(todo) + 1] = x
    BY <1>1
  <2>3. \A i \in 1..Len(todo) : t[i] = todo[i]
    BY <1>1
  <2> QED  BY <2>1, <2>2, <2>3
<1> HIDE DEF t
<1>3. /\ Len(t) \in 1..Len(t)
      /\ \A i \in 1..Len(todo) : i \in 1..Len(t)
      /\ \A i \in 1..Len(t) : i \in 1..Len(todo) \/ i = Len(t)
  BY <1>2
<1> QED  BY <1>2, <1>3 DEF t, x, E

\* When the queue holds no word as short as that of the popped state, all
\* states as near as this one are seen.
LEMMA LevelDone ==
    ASSUME IInv, result = {}, inits = {},
           \A i \in 1..Len(todo) : Len(todo[i][2]) > Len(syms)
    PROVE  \A n \in Nat : n <= Len(syms) => Within(generator, n) \subseteq seenSet
<1>1. Len(syms) \in Nat /\ \A i \in 1..Len(todo) : Len(todo[i][2]) \in Nat
  BY DEF IInv, TypeOK
<1>2. \A n \in Nat : n < Len(syms) => Within(generator, n) \subseteq seenSet
  BY DEF IInv, Searching, Frontier
<1>3. Within(generator, Len(syms)) \subseteq seenSet
  BY <1>1 DEF IInv, Searching, Frontier
<1> QED  BY <1>1, <1>2, <1>3

-----------------------------------------------------------------------------
(***************************************************************************)
(* The invariant holds initially and is preserved by every action.         *)
(***************************************************************************)
\* The empty queue, before the initial states are pushed.
LEMMA InitInv == Init => IInv
<1> SUFFICES ASSUME Init PROVE IInv
  OBVIOUS
<1> USE DEF Init
<1>1. generator \in Generator
  BY GeneratorAssumption
<1>2. Cardinality(result) = 0 /\ Len(todo) = 0 /\ Len(syms) = 0
  BY FS_EmptySet
<1>3. TypeOK
  BY <1>1, <1>2 DEF TypeOK, Generator
<1>4. Frontier
  BY <1>1, <1>2, WithinZero DEF Frontier
<1> QED
  BY <1>2, <1>3, <1>4 DEF IInv, OnPaths, QueueOrdered, Starting, Searching, Explored, Shortest, NoneIsEmpty

\* An initial state is pushed with the empty word.
LEMMA PushInitialInv == IInv /\ PushInitial => IInv'
<1> SUFFICES ASSUME IInv, PushInitial PROVE IInv'
  OBVIOUS
<1>1. TypeOK /\ generator \in Generator
  BY DEF IInv, TypeOK
<1>2. PICK x \in inits : todo' = Append(todo, <<x, <<>>>>) /\ inits' = inits \ {x}
  BY DEF PushInitial
<1>3. UNCHANGED <<generator, seenSet, syms, edges, result>>
  BY DEF PushInitial
<1>4. /\ x \in Idx /\ x \in generator.init /\ inits \subseteq generator.init
      /\ syms = <<>> /\ Len(syms) = 0 /\ edges = {} /\ seenSet = {} /\ <<>> \in Seq(Event)
      /\ \A i \in 1..Len(todo) : todo[i][2] = <<>>
  BY <1>1, <1>2 DEF IInv, Starting, TypeOK
<1>5. /\ todo' \in Seq(Idx \X Seq(Event))
      /\ todo'[Len(todo')] = <<x, <<>>>> /\ Len(todo') \in 1..Len(todo')
      /\ \A i \in 1..Len(todo) : todo'[i] = todo[i] /\ i \in 1..Len(todo')
      /\ \A i \in 1..Len(todo') : i \in 1..Len(todo) \/ i = Len(todo')
  BY <1>1, <1>2, <1>4, AppendTo
<1>6. \A i \in 1..Len(todo') : todo'[i][2] = <<>> /\ Len(todo'[i][2]) = 0
  BY <1>4, <1>5
<1>7. TypeOK'
  BY <1>1, <1>2, <1>3, <1>5 DEF TypeOK
<1>8. OnPaths'
  <2>1. x \in After(generator, <<>>)
    BY <1>1, <1>4, AfterEmpty
  <2>2. \A i \in 1..Len(todo) : todo[i][1] \in After(generator, todo[i][2])
    BY DEF IInv, OnPaths
  <2>3. \A i \in 1..Len(todo') : todo'[i][1] \in After(generator, todo'[i][2])
    BY <1>5, <2>1, <2>2
  <2> QED  BY <1>3, <1>4, <2>3 DEF OnPaths
<1>9. QueueOrdered' /\ Starting'
  BY <1>2, <1>3, <1>4, <1>6 DEF QueueOrdered, Starting
<1>10. Searching'
  <2> SUFFICES ASSUME result = {} PROVE (seenSet \cap generator.marked = {} /\ Explored /\ Frontier)'
    BY <1>3 DEF Searching
  <2>1. Frontier
    BY DEF IInv, Searching
  <2>2. ASSUME NEW q \in Within(generator, 0)
        PROVE  q \in inits' \/ \E i \in 1..Len(todo') : todo'[i][1] = q /\ Len(todo'[i][2]) <= 0
    <3>1. q \in inits \/ \E i \in 1..Len(todo) : todo[i][1] = q
      BY <1>4, <2>1, <2>2 DEF Frontier
    <3>2. \A i \in 1..Len(todo') : Len(todo'[i][2]) <= 0
      BY <1>6
    <3> QED  BY <1>2, <1>5, <3>1, <3>2
  <2>3. Frontier'
    BY <1>3, <1>4, <2>2 DEF Frontier
  <2> QED  BY <1>3, <1>4, <2>3 DEF Explored
<1> QED
  BY <1>3, <1>7, <1>8, <1>9, <1>10 DEF IInv, Shortest, NoneIsEmpty

\* A target that was not seen is queued behind the words of its length, one longer than that
\* of the popped state; one that was seen owes nothing.
LEMMA FollowEdgeInv == IInv /\ FollowEdge => IInv'
<1> SUFFICES ASSUME IInv, FollowEdge PROVE IInv'
  OBVIOUS
<1>1. TypeOK /\ generator \in Generator /\ syms \in Seq(Event) /\ Len(syms) \in Nat
  BY DEF IInv, TypeOK
<1>2. PICK tr \in edges :
        /\ edges' = edges \ {tr}
        /\ todo' = IF tr[3] \in seenSet THEN todo ELSE Append(todo, <<tr[3], Append(syms, tr[2])>>)
  BY DEF FollowEdge
<1>3. UNCHANGED <<generator, inits, seenSet, syms, result>>
  BY DEF FollowEdge
<1> DEFINE w == Append(syms, tr[2])
<1>4. /\ inits = {} /\ tr[3] \in Idx /\ tr[2] \in Event /\ tr \in generator.trans
      /\ tr[1] \in After(generator, syms)
  BY <1>1, <1>2 DEF IInv, Starting, TypeOK, OnPaths
<1>5. w \in Seq(Event) /\ Len(w) = Len(syms) + 1 /\ tr[3] \in After(generator, w)
  <2>1. tr[3] \in Step(generator, tr[2], After(generator, syms))
    BY <1>4 DEF Step
  <2> QED  BY <1>1, <1>4, <2>1, AfterAppend
<1> HIDE DEF w
<1>6. /\ todo' \in Seq(Idx \X Seq(Event))
      /\ \A i \in 1..Len(todo) : todo'[i] = todo[i] /\ i \in 1..Len(todo')
      /\ \A i \in 1..Len(todo') : i \in 1..Len(todo) \/ (i = Len(todo') /\ todo'[i] = <<tr[3], w>>)
      /\ tr[3] \in seenSet \/ \E i \in 1..Len(todo') : todo'[i][1] = tr[3]
      /\ Len(todo) \in Nat /\ Len(todo') \in {Len(todo), Len(todo) + 1}
  <2>1. CASE tr[3] \in seenSet
    BY <1>1, <1>2, <2>1 DEF TypeOK
  <2>2. CASE tr[3] \notin seenSet
    <3>1. todo' = Append(todo, <<tr[3], w>>)
      BY <1>2, <2>2 DEF w
    <3> QED  BY <1>1, <1>4, <1>5, <3>1, AppendTo
  <2> QED  BY <2>1, <2>2
<1>7. TypeOK'
  BY <1>1, <1>2, <1>3, <1>6 DEF TypeOK
<1>8. OnPaths'
  <2>1. \A i \in 1..Len(todo) : todo[i][1] \in After(generator, todo[i][2])
    BY DEF IInv, OnPaths
  <2>2. \A i \in 1..Len(todo') : todo'[i][1] \in After(generator, todo'[i][2])
    BY <1>5, <1>6, <2>1
  <2> QED  BY <1>2, <1>3, <2>2 DEF IInv, OnPaths
<1>9. QueueOrdered'
  <2>1. /\ \A i \in 1..Len(todo) : Len(todo[i][2]) \in {Len(syms), Len(syms) + 1}
        /\ \A i, j \in 1..Len(todo) : i <= j => Len(todo[i][2]) <= Len(todo[j][2])
    BY DEF IInv, QueueOrdered
  <2>2. \A i \in 1..Len(todo') : Len(todo'[i][2]) \in {Len(syms), Len(syms) + 1}
    BY <1>5, <1>6, <2>1
  <2>3. ASSUME NEW i \in 1..Len(todo'), NEW j \in 1..Len(todo'), i <= j
        PROVE  Len(todo'[i][2]) <= Len(todo'[j][2])
    <3>1. CASE j \in 1..Len(todo)
      <4>1. i \in 1..Len(todo)
        BY <1>6, <2>3, <3>1
      <4> QED  BY <1>6, <2>1, <2>3, <3>1, <4>1
    <3>2. CASE j \notin 1..Len(todo)
      <4>1. Len(todo'[j][2]) = Len(syms) + 1
        BY <1>5, <1>6, <3>2
      <4> QED  BY <1>1, <2>2, <4>1
    <3> QED  BY <3>1, <3>2
  <2> QED  BY <1>3, <2>2, <2>3 DEF QueueOrdered
<1>10. Searching'
  <2> SUFFICES ASSUME result = {} PROVE (seenSet \cap generator.marked = {} /\ Explored /\ Frontier)'
    BY <1>3 DEF Searching
  <2>1. seenSet \cap generator.marked = {} /\ Explored /\ Frontier
    BY DEF IInv, Searching
  <2>2. \A q : Waiting(q) => \E i \in 1..Len(todo') : todo'[i][1] = q
    BY <1>6 DEF Waiting
  <2>3. Explored'
    BY <1>2, <1>3, <1>6, <2>1, <2>2 DEF Explored, Waiting
  <2>4. Frontier'
    BY <1>3, <1>6, <2>1 DEF Frontier
  <2> QED  BY <1>3, <2>1, <2>3, <2>4
<1> QED
  BY <1>3, <1>4, <1>7, <1>8, <1>9, <1>10 DEF IInv, Starting, Shortest, NoneIsEmpty

\* The popped state becomes the one whose edges are owed; when its word is longer than the last,
\* all states as near as the last are seen.
LEMMA PopInv == IInv /\ Pop => IInv'
<1> SUFFICES ASSUME IInv, Pop PROVE IInv'
  OBVIOUS
<1> DEFINE x == todo[1][1]
           w == todo[1][2]
           d == Len(syms)
<1>1. /\ TypeOK /\ generator \in Generator /\ d \in Nat
      /\ \A i \in 1..Len(todo) : Len(todo[i][2]) \in Nat
  BY DEF IInv, TypeOK
<1>2. inits = {} /\ edges = {} /\ result = {} /\ todo # <<>> /\ todo' = Tail(todo)
  BY DEF Pop, AtLoopHead
<1>3. /\ Len(todo) \in Nat \ {0} /\ 1 \in 1..Len(todo) /\ Head(todo) = todo[1]
      /\ x \in Idx /\ w \in Seq(Event) /\ Len(w) \in Nat
      /\ todo' \in Seq(Idx \X Seq(Event))
      /\ \A i \in 1..Len(todo') : todo'[i] = todo[i + 1] /\ i + 1 \in 1..Len(todo)
      /\ \A i \in 1..Len(todo) : i = 1 \/ (i - 1 \in 1..Len(todo') /\ todo'[i - 1] = todo[i])
  BY <1>1, <1>2, TailOf
<1>4. /\ x \notin generator.marked /\ seenSet' = seenSet \cup {x}
      /\ edges' = TransRel(x) /\ syms' = w
      /\ UNCHANGED <<generator, inits, result>>
  BY <1>3 DEF Pop
<1>5. /\ \A i \in 1..Len(todo) : Len(todo[i][2]) \in {d, d + 1} /\ Len(w) <= Len(todo[i][2])
      /\ \A i, j \in 1..Len(todo) : i <= j => Len(todo[i][2]) <= Len(todo[j][2])
  BY <1>3 DEF IInv, QueueOrdered
<1>6. seenSet \cap generator.marked = {} /\ Explored /\ Frontier
  BY <1>2 DEF IInv, Searching
<1> HIDE DEF x, w
<1>7. TypeOK'
  BY <1>1, <1>2, <1>3, <1>4 DEF TypeOK, TransRel, Generator
<1>8. OnPaths'
  <2>1. \A i \in 1..Len(todo) : todo[i][1] \in After(generator, todo[i][2])
    BY DEF IInv, OnPaths
  <2>2. x \in After(generator, w)
    BY <1>3, <2>1 DEF x, w
  <2>3. \A i \in 1..Len(todo') : todo'[i][1] \in After(generator, todo'[i][2])
    BY <1>3, <2>1
  <2> QED  BY <1>4, <2>2, <2>3 DEF OnPaths, TransRel
<1>9. QueueOrdered'
  <2>1. \A i \in 1..Len(todo) : Len(todo[i][2]) \in {Len(w), Len(w) + 1}
    BY <1>1, <1>3, <1>5 DEF w
  <2>2. \A i \in 1..Len(todo') : Len(todo'[i][2]) \in {Len(w), Len(w) + 1}
    BY <1>3, <2>1
  <2>3. ASSUME NEW i \in 1..Len(todo'), NEW j \in 1..Len(todo'), i <= j
        PROVE  Len(todo'[i][2]) <= Len(todo'[j][2])
    <3>1. i + 1 <= j + 1 /\ i + 1 \in 1..Len(todo) /\ j + 1 \in 1..Len(todo)
      BY <1>3, <2>3
    <3>2. Len(todo[i + 1][2]) <= Len(todo[j + 1][2])
      BY <1>5, <3>1
    <3> QED  BY <1>3, <3>2
  <2> QED  BY <1>4, <2>2, <2>3 DEF QueueOrdered
<1>10. Starting'
  BY <1>2, <1>4 DEF Starting
<1>11. Explored'
  <2>1. SUFFICES ASSUME NEW tr \in generator.trans, tr[1] \in seenSet \cup {x}, tr \notin edges', tr[3] \notin seenSet'
                 PROVE  \E i \in 1..Len(todo') : todo'[i][1] = tr[3]
    BY <1>4 DEF Explored, Waiting
  <2>2. tr[1] \in seenSet
    BY <1>4, <2>1 DEF TransRel
  <2>3. PICK i \in 1..Len(todo) : todo[i][1] = tr[3]
    BY <1>2, <1>4, <1>6, <2>1, <2>2 DEF Explored, Waiting
  <2>4. i # 1
    BY <1>4, <2>1, <2>3 DEF x
  <2> QED  BY <1>3, <2>3, <2>4
<1>12. Frontier'
  <2>1. CASE Len(w) = d
    <3>1. \A n \in Nat : n < Len(w) => Within(generator, n) \subseteq seenSet
      BY <1>6, <2>1 DEF Frontier
    <3>2. ASSUME NEW q \in Within(generator, Len(w)), q \notin seenSet'
          PROVE  \E i \in 1..Len(todo') : todo'[i][1] = q /\ Len(todo'[i][2]) <= Len(w)
      <4>1. PICK i \in 1..Len(todo) : todo[i][1] = q /\ Len(todo[i][2]) <= d
        BY <1>2, <1>4, <1>6, <2>1, <3>2 DEF Frontier
      <4>2. i # 1
        BY <1>4, <3>2, <4>1 DEF x
      <4> QED  BY <1>3, <2>1, <4>1, <4>2
    <3> QED  BY <1>4, <3>1, <3>2 DEF Frontier
  <2>2. CASE Len(w) = d + 1
    <3>1. \A i \in 1..Len(todo) : Len(todo[i][2]) > d /\ Len(todo[i][2]) <= Len(w)
      BY <1>1, <1>5, <2>2
    <3>2. \A n \in Nat : n <= d => Within(generator, n) \subseteq seenSet
      BY <1>2, <3>1, LevelDone
    <3>3. ASSUME NEW q \in Within(generator, d + 1), q \notin seenSet'
          PROVE  \E i \in 1..Len(todo') : todo'[i][1] = q /\ Len(todo'[i][2]) <= Len(w)
      <4>1. q \in Wider(generator, Within(generator, d)) /\ q \notin Within(generator, d)
        <5>1. Within(generator, d + 1) = Wider(generator, Within(generator, d))
          BY <1>1, WithinNext
        <5>2. Within(generator, d) \subseteq seenSet
          BY <1>1, <3>2
        <5> QED  BY <1>4, <3>3, <5>1, <5>2
      <4>2. PICK tr \in generator.trans : tr[1] \in seenSet /\ tr[3] = q
        BY <1>1, <3>2, <4>1 DEF Wider
      <4>3. PICK i \in 1..Len(todo) : todo[i][1] = q
        BY <1>2, <1>4, <1>6, <3>3, <4>2 DEF Explored, Waiting
      <4>4. i # 1
        BY <1>4, <3>3, <4>3 DEF x
      <4> QED  BY <1>3, <3>1, <4>3, <4>4
    <3>4. \A n \in Nat : n < Len(w) => n <= d
      BY <1>1, <2>2
    <3> QED  BY <1>4, <2>2, <3>2, <3>3, <3>4 DEF Frontier
  <2> QED  BY <1>3, <1>5, <2>1, <2>2 DEF w
<1> QED
  BY <1>4, <1>6, <1>7, <1>8, <1>9, <1>10, <1>11, <1>12 DEF IInv, Searching, Shortest, NoneIsEmpty

\* The word of the first marked state is a shortest one: all nearer states are seen, and none of
\* them is marked.
LEMMA FoundInv == IInv /\ Found => IInv'
<1> SUFFICES ASSUME IInv, Found PROVE IInv'
  OBVIOUS
<1> DEFINE x == todo[1][1]
           w == todo[1][2]
           d == Len(syms)
<1>1. /\ TypeOK /\ generator \in Generator /\ d \in Nat
      /\ \A i \in 1..Len(todo) : Len(todo[i][2]) \in Nat
  BY DEF IInv, TypeOK
<1>2. inits = {} /\ edges = {} /\ result = {} /\ todo # <<>>
  BY DEF Found, AtLoopHead
<1>3. /\ Len(todo) \in Nat \ {0} /\ 1 \in 1..Len(todo) /\ Head(todo) = todo[1]
      /\ x \in Idx /\ w \in Seq(Event) /\ Len(w) \in Nat
  BY <1>1, <1>2, TailOf
<1>4. /\ x \in generator.marked /\ seenSet' = seenSet \cup {x} /\ result' = {w}
      /\ UNCHANGED <<generator, inits, todo, syms, edges>>
  BY <1>3 DEF Found
<1>5. \A i \in 1..Len(todo) : Len(todo[i][2]) \in {d, d + 1} /\ Len(w) <= Len(todo[i][2])
  BY <1>3 DEF IInv, QueueOrdered
<1>6. x \in After(generator, w)
  BY <1>3 DEF IInv, OnPaths
<1>7. seenSet \cap generator.marked = {} /\ Frontier
  BY <1>2 DEF IInv, Searching
<1> HIDE DEF x, w
<1>8. TypeOK'
  <2>1. Cardinality({w}) = 1
    BY FS_Singleton
  <2> QED  BY <1>1, <1>3, <1>4, <2>1 DEF TypeOK
<1>9. ASSUME Len(w) > 0
      PROVE  Within(generator, Len(w) - 1) \subseteq seenSet
  <2>1. CASE Len(w) = d
    BY <1>1, <1>7, <1>9, <2>1 DEF Frontier
  <2>2. CASE Len(w) = d + 1
    <3>1. \A i \in 1..Len(todo) : Len(todo[i][2]) > d
      BY <1>1, <1>5, <2>2
    <3>2. \A n \in Nat : n <= d => Within(generator, n) \subseteq seenSet
      BY <1>2, <3>1, LevelDone
    <3>3. Len(w) - 1 = d
      BY <1>1, <2>2
    <3> QED  BY <1>1, <3>2, <3>3
  <2> QED  BY <1>3, <1>5, <2>1, <2>2 DEF w
<1>10. Shortest'
  <2>1. Accepts(generator, w)
    BY <1>4, <1>6 DEF Accepts
  <2> QED  BY <1>4, <1>7, <1>9, <2>1 DEF Shortest
<1>11. NoneIsEmpty'
  BY <1>3, <1>4, NoneAssumption DEF NoneIsEmpty
<1>12. OnPaths' /\ QueueOrdered' /\ Starting' /\ Searching'
  BY <1>2, <1>4 DEF IInv, OnPaths, QueueOrdered, Starting, Searching
<1> QED
  BY <1>8, <1>10, <1>11, <1>12 DEF IInv

\* With an empty queue the seen states are closed under the transitions, and none is marked.
LEMMA NotFoundInv == IInv /\ NotFound => IInv'
<1> SUFFICES ASSUME IInv, NotFound PROVE IInv'
  OBVIOUS
<1>1. TypeOK /\ generator \in Generator /\ Len(syms) \in Nat
  BY DEF IInv, TypeOK
<1>2. /\ inits = {} /\ edges = {} /\ result = {} /\ todo = <<>> /\ Len(todo) = 0
      /\ result' = {None} /\ UNCHANGED <<generator, inits, todo, seenSet, syms, edges>>
  BY DEF NotFound, AtLoopHead
<1>3. seenSet \cap generator.marked = {} /\ Explored
  BY <1>2 DEF IInv, Searching
<1> DEFINE T == {n \in Nat : Within(generator, n) \subseteq seenSet}
<1>4. 0 \in T
  <2>1. \A n \in Nat : n <= Len(syms) => Within(generator, n) \subseteq seenSet
    BY <1>2, LevelDone
  <2> QED  BY <1>1, <2>1
<1>5. ASSUME NEW n \in Nat, n \in T
      PROVE  n + 1 \in T
  <2>1. Within(generator, n + 1) = Wider(generator, Within(generator, n))
    BY <1>1, WithinNext
  <2> QED  BY <1>2, <1>3, <1>5, <2>1 DEF Wider, Explored, Waiting
<1>6. Nat \subseteq T
  <2> HIDE DEF T
  <2> QED  BY <1>4, <1>5, Nats!NatSetInduction
<1>7. Cardinality(Idx) \in Nat
  BY GeneratorAssumption, FS_CardinalityType
<1>8. NoneIsEmpty'
  <2>1. Within(generator, Cardinality(Idx)) \subseteq seenSet
    BY <1>6, <1>7
  <2> QED  BY <1>2, <1>3, <2>1 DEF NoneIsEmpty
<1>9. TypeOK'
  <2>1. Cardinality({None}) = 1
    BY FS_Singleton
  <2> QED  BY <1>1, <1>2, <2>1 DEF TypeOK
<1> QED
  BY <1>2, <1>8, <1>9 DEF IInv, OnPaths, QueueOrdered, Starting, Searching, Shortest

\* A step that changes nothing.
LEMMA StutterInv == IInv /\ UNCHANGED vars => IInv'
BY DEF vars, IInv, TypeOK, OnPaths, QueueOrdered, Starting, Searching, Explored, Waiting, Frontier,
       Shortest, NoneIsEmpty

\* Every step preserves the invariant.
LEMMA StepInv == IInv /\ [Next]_vars => IInv'
BY PushInitialInv, FoundInv, PopInv, FollowEdgeInv, NotFoundInv, StutterInv
   DEF Next, GetWordNext, Returned

\* The invariant holds in every behaviour.
LEMMA Inductive == Spec => []IInv
BY InitInv, StepInv, PTL DEF Spec

-----------------------------------------------------------------------------
\* The types of the search, for every generator.
THEOREM TypeCorrect == Spec => []TypeOK
<1>1. IInv => TypeOK
  BY DEF IInv
<1> QED  BY <1>1, Inductive, PTL

\* For every generator, the word GetWord returns is accepted and no marked
\* state is nearer to the initial ones than its length.
THEOREM ReturnsShortest == Spec => []Shortest
<1>1. IInv => Shortest
  BY DEF IInv
<1> QED  BY <1>1, Inductive, PTL

\* For every generator, GetWord returns None only if no marked state can be
\* reached.
THEOREM NoneOnlyIfEmpty == Spec => []NoneIsEmpty
<1>1. IInv => NoneIsEmpty
  BY DEF IInv
<1> QED  BY <1>1, Inductive, PTL
=============================================================================
