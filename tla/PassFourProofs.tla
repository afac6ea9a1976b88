---------------------------- MODULE PassFourProofs ----------------------------
(***************************************************************************)
(* The proof automaton accepts only what its annotations allow, for every  *)
(* program, trace, simplifier, choice of unsat cores and order of links.   *)
(*                                                                         *)
(* The notion that is kept from the tree to the automaton is that of a set *)
(* of classes which covers a formula: whatever word the classes can be     *)
(* run backwards over into their HMaps, so can the formula.  The children  *)
(* of a state cover it when PassTwo is over, and every phase of PassFour   *)
(* replaces alternatives by others that cover what they replace.           *)
(***************************************************************************)
EXTENDS PassFour, TreeProofs

Alt == INSTANCE AlternatingProofs WITH AFAState <- States, GenState <- {}

\* For every word and prefix: if the pre-image of the AMap of each class of C is
\* within its HMap, then the pre-image of phi is within h.
Covers(C, phi, h) ==
    \A w \in Seq(mAllSyms) : \A k \in 0..Len(w) :
        (\A p \in C : WordPre(w, k, Meaning[p[1]]) \subseteq p[2]) => WordPre(w, k, phi) \subseteq h

-----------------------------------------------------------------------------
(***************************************************************************)
(* Covering.                                                               *)
(***************************************************************************)
LEMMA WordPreMonotone ==
    ASSUME NEW w, NEW k, NEW phi, NEW psi, phi \subseteq psi
    PROVE  WordPre(w, k, phi) \subseteq WordPre(w, k, psi)
BY DEF WordPre

\* A class covers its own AMap.
LEMMA CoversSelf ==
    ASSUME NEW p
    PROVE  Covers({p}, Meaning[p[1]], p[2])
BY DEF Covers

\* What is covered may be strengthened, and its annotation weakened.
LEMMA CoversWeaker ==
    ASSUME NEW C, NEW psi, NEW g, Covers(C, psi, g),
           NEW phi, phi \subseteq psi, NEW h, g \subseteq h
    PROVE  Covers(C, phi, h)
<1>1. ASSUME NEW w \in Seq(mAllSyms), NEW k \in 0..Len(w),
             \A p \in C : WordPre(w, k, Meaning[p[1]]) \subseteq p[2]
      PROVE  WordPre(w, k, phi) \subseteq h
  <2>1. WordPre(w, k, psi) \subseteq g
    BY <1>1 DEF Covers
  <2>2. WordPre(w, k, phi) \subseteq WordPre(w, k, psi)
    BY WordPreMonotone
  <2> QED
    BY <2>1, <2>2
<1> QED
  BY <1>1 DEF Covers

\* A set that covers each class of one that covers phi covers phi.
LEMMA CoversThrough ==
    ASSUME NEW C, NEW phi, NEW h, Covers(C, phi, h),
           NEW D, \A p \in C : Covers(D, Meaning[p[1]], p[2])
    PROVE  Covers(D, phi, h)
BY DEF Covers

LEMMA CoversMore ==
    ASSUME NEW C, NEW phi, NEW h, Covers(C, phi, h), NEW D, C \subseteq D
    PROVE  Covers(D, phi, h)
BY DEF Covers

\* A conjunction is covered by classes of some of its conjuncts whose HMaps
\* have no more in common than its own, ...
LEMMA CoversConjunction ==
    ASSUME NEW C, NEW phi, NEW h, \A p \in C : phi \subseteq Meaning[p[1]],
           {s \in State : \A p \in C : s \in p[2]} \subseteq h
    PROVE  Covers(C, phi, h)
<1>1. ASSUME NEW w \in Seq(mAllSyms), NEW k \in 0..Len(w),
             \A p \in C : WordPre(w, k, Meaning[p[1]]) \subseteq p[2],
             NEW s \in WordPre(w, k, phi)
      PROVE  s \in h
  <2>1. k \in Nat
    OBVIOUS
  <2>2. s \in State
    BY <2>1, WordPreType
  <2>3. \A p \in C : s \in WordPre(w, k, Meaning[p[1]])
    BY WordPreMonotone
  <2> QED
    BY <1>1, <2>2, <2>3
<1> QED
  BY <1>1 DEF Covers

\* ... and a disjunction by a class for each of its disjuncts.
LEMMA CoversDisjunction ==
    ASSUME NEW C, NEW phi, NEW h, \A s \in phi : \E p \in C : s \in Meaning[p[1]],
           \A p \in C : p[2] \subseteq h
    PROVE  Covers(C, phi, h)
<1>1. ASSUME NEW w \in Seq(mAllSyms), NEW k \in 0..Len(w),
             \A p \in C : WordPre(w, k, Meaning[p[1]]) \subseteq p[2],
             NEW s \in WordPre(w, k, phi)
      PROVE  s \in h
  <2>1. PICK r \in Runs(w, k) : r[k] \in phi /\ s = r[0]
    BY DEF WordPre
  <2>2. PICK p \in C : r[k] \in Meaning[p[1]]
    BY <2>1
  <2>3. s \in WordPre(w, k, Meaning[p[1]])
    BY <2>1, <2>2 DEF WordPre
  <2> QED
    BY <1>1, <2>2, <2>3
<1> QED
  BY <1>1 DEF Covers

-----------------------------------------------------------------------------
(***************************************************************************)
(* The recursive functions over the tree, in which a state has a smaller   *)
(* number than its children.                                               *)
(***************************************************************************)
\* Induction from the last number down.
LEMMA DownwardInduction ==
    ASSUME NEW L \in Nat, NEW S, \A n \in 1..L : (\A m \in (n + 1)..L : m \in S) => n \in S
    PROVE  1..L \subseteq S
<1> DEFINE T == {i \in Nat : i <= L => \A m \in (L - i + 1)..L : m \in S}
<1>1. 0 \in T
  OBVIOUS
<1>2. ASSUME NEW i \in Nat, i \in T
      PROVE  i + 1 \in T
  <2>1. SUFFICES ASSUME i + 1 <= L
                 PROVE  \A m \in (L - (i + 1) + 1)..L : m \in S
    OBVIOUS
  <2>2. \A m \in (L - i + 1)..L : m \in S
    BY <1>2, <2>1
  <2>3. L - i \in 1..L
    BY <2>1
  <2>4. L - i \in S
    BY <2>2, <2>3
  <2>5. ASSUME NEW m \in (L - (i + 1) + 1)..L
        PROVE  m = L - i \/ m \in (L - i + 1)..L
    OBVIOUS
  <2> QED
    BY <2>2, <2>4, <2>5
<1> HIDE DEF T
<1>3. Nat \subseteq T
  BY <1>1, <1>2, NatSetInduction
<1>4. L \in T
  BY <1>3
<1> QED
  BY <1>4 DEF T

\* The value that G gives to a number depends on a function's values at larger
\* numbers only; and f is such that G gives all its values.
LooksAhead(G, L, V) ==
    /\ G \in [(1..L) \X [1..L -> V] -> V]
    /\ \A n \in 1..L : \A f, g \in [1..L -> V] :
          (\A m \in (n + 1)..L : f[m] = g[m]) => G[<<n, f>>] = G[<<n, g>>]

Solves(f, G, L, V) == f \in [1..L -> V] /\ \A n \in 1..L : f[n] = G[<<n, f>>]

\* A function on 1..L can be defined by such a recursion.
LEMMA DownwardRecursion ==
    ASSUME NEW L \in Nat, NEW V, V # {}, NEW G, LooksAhead(G, L, V)
    PROVE  \E f : Solves(f, G, L, V)
<1> USE DEF LooksAhead, Solves
<1> DEFINE Good(i, f) == \A n \in (L - i + 1)..L : f[n] = G[<<n, f>>]
           Some(i) == \E f \in [1..L -> V] : Good(i, f)
           T == {i \in Nat : i <= L => Some(i)}
<1>1. Some(0)
  <2>1. PICK v \in V : TRUE
    OBVIOUS
  <2>2. [n \in 1..L |-> v] \in [1..L -> V]
    OBVIOUS
  <2>3. (L - 0 + 1)..L = {}
    OBVIOUS
  <2> QED
    BY <2>2, <2>3
<1>2. ASSUME NEW i \in Nat, i + 1 <= L, Some(i)
      PROVE  Some(i + 1)
  <2>1. i + 1 <= L
    BY <1>2
  <2>2. PICK f \in [1..L -> V] : Good(i, f)
    BY <1>2
  <2> DEFINE j == L - i
             g == [f EXCEPT ![j] = G[<<j, f>>]]
  <2>3. j \in 1..L
    BY <2>1
  <2>4. G[<<j, f>>] \in V
    BY <2>3
  <2>5. g \in [1..L -> V] /\ g[j] = G[<<j, f>>] /\ \A m \in (j + 1)..L : g[m] = f[m]
    BY <2>3, <2>4
  <2> HIDE DEF g
  <2>6. ASSUME NEW n \in (L - (i + 1) + 1)..L
        PROVE  g[n] = G[<<n, g>>]
    <3>1. n \in 1..L /\ (n = j \/ n \in (L - i + 1)..L)
      BY <2>1
    <3>2. \A m \in (n + 1)..L : g[m] = f[m]
      BY <2>3, <2>5, <3>1
    <3>3. G[<<n, g>>] = G[<<n, f>>]
      BY <2>5, <3>1, <3>2
    <3>4. CASE n = j
      BY <2>5, <3>3, <3>4
    <3>5. CASE n \in (L - i + 1)..L
      <4>1. g[n] = f[n]
        BY <2>3, <2>5, <3>5
      <4> QED
        BY <2>2, <3>3, <3>5, <4>1
    <3> QED
      BY <3>1, <3>4, <3>5
  <2> QED
    BY <2>5, <2>6
<1>3. Some(L)
  <2> HIDE DEF Some
  <2>1. 0 \in T /\ \A i \in Nat : i \in T => i + 1 \in T
    BY <1>1, <1>2
  <2> HIDE DEF T
  <2>2. Nat \subseteq T
    BY <2>1, NatSetInduction
  <2> QED
    BY <2>2 DEF T
<1>5. PICK f \in [1..L -> V] : Good(L, f)
  BY <1>3
<1>6. (L - L + 1)..L = 1..L
  OBVIOUS
<1> QED
  BY <1>5, <1>6

-----------------------------------------------------------------------------
(***************************************************************************)
(* The tree that PassOne and PassTwo leave.                                *)
(***************************************************************************)
AMapOf(n) == Meaning[node[n].amap]
HMapOf(n) == node[n].hmap

\* The sets of states that an AND or OR state leads to cover it.
ArgsCovered(n) ==
    \A tr \in node[n].trans : tr[2] # {} /\ Covers(ClassesOf(tr[2]), AMapOf(n), HMapOf(n))

\* A literal is accepted, and means what its HMap means, or it reads a symbol.
LitReads(n) ==
    IF node[n].acc THEN node[n].trans = {} /\ HMapOf(n) = AMapOf(n)
    ELSE \E s \in mAllSyms, m \in 1..Len(node) :
            /\ node[n].trans = {<<s, {m}>>}
            /\ HMapOf(m) = HMapOf(n)
            /\ AMapOf(m) = Pre(s, AMapOf(n))

WellFounded ==
    /\ Len(node) \in Nat \ {0}
    /\ \A n \in 1..Len(node) : ChildrenOf(n) \subseteq (n + 1)..Len(node)

FinishedTree ==
    /\ WellFounded
    /\ node \in Seq(Node)
    /\ \A n \in 1..Len(node) :
          /\ node[n] \in Node
          /\ AMapOf(n) \in SUBSET State /\ HMapOf(n) \in SUBSET State
          /\ IF Lit(n) THEN LitReads(n) ELSE ArgsCovered(n)
    /\ node[1].amap = Post /\ HMapOf(1) = {}

\* An AND state, pruned or not, is covered by each of its alternatives.
LEMMA AndCovered ==
    ASSUME NEW n \in 1..Len(node), node[n] \in Node, Kind(node, n) = "AND",
           NEW tr \in node[n].trans,
           \A m \in tr[2] : node[m].amap \in Args[node[n].amap],
           Joint(node, tr[2]) \subseteq HMapOf(n)
    PROVE  Covers(ClassesOf(tr[2]), AMapOf(n), HMapOf(n))
<1>1. AMapOf(n) = {s \in State : \A g \in Args[node[n].amap] : s \in Meaning[g]}
  BY ShapeAssumption DEF AMapOf, Kind, Node
<1>2. \A p \in ClassesOf(tr[2]) : AMapOf(n) \subseteq Meaning[p[1]]
  BY <1>1 DEF ClassesOf, Class
<1>3. {s \in State : \A p \in ClassesOf(tr[2]) : s \in p[2]} \subseteq HMapOf(n)
  <2>1. ASSUME NEW s \in State, \A p \in ClassesOf(tr[2]) : s \in p[2]
        PROVE  s \in Joint(node, tr[2])
    <3>1. \A m \in tr[2] : Class(m) \in ClassesOf(tr[2]) /\ Class(m)[2] = node[m].hmap
      BY DEF ClassesOf, Class
    <3> QED
      BY <2>1, <3>1 DEF Joint
  <2> QED
    BY <2>1
<1> QED
  BY <1>2, <1>3, CoversConjunction

\* An OR state is covered by its children.
LEMMA OrCovered ==
    ASSUME NEW n \in 1..Len(node), node[n] \in Node, Kind(node, n) = "OR",
           NEW S, HMapOf(n) = UNION {node[m].hmap : m \in S},
           \A f \in Args[node[n].amap] : \E m \in S : node[m].amap = f
    PROVE  Covers(ClassesOf(S), AMapOf(n), HMapOf(n))
<1>1. AMapOf(n) = UNION {Meaning[g] : g \in Args[node[n].amap]}
  BY ShapeAssumption DEF AMapOf, Kind, Node
<1>2. ASSUME NEW s \in AMapOf(n)
      PROVE  \E p \in ClassesOf(S) : s \in Meaning[p[1]]
  <2>1. PICK g \in Args[node[n].amap] : s \in Meaning[g]
    BY <1>1, <1>2
  <2>2. PICK m \in S : node[m].amap = g
    BY <2>1
  <2>3. Class(m) \in ClassesOf(S) /\ Class(m)[1] = g
    BY <2>2 DEF ClassesOf, Class
  <2> QED
    BY <2>1, <2>3
<1>3. \A p \in ClassesOf(S) : p[2] \subseteq HMapOf(n)
  BY DEF ClassesOf, Class
<1> QED
  BY <1>2, <1>3, CoversDisjunction

\* PassTwo, when it is over, leaves such a tree.
LEMMA TreeFinished ==
    ASSUME IInvTwo, done
    PROVE  FinishedTree
<1>1. pc = "PassTwo" /\ calls = <<>>
  BY DEF IInvTwo, Phases
<1>2. \A n : ~BeingPruned(calls, n)
  BY <1>1 DEF BeingPruned
<1>3. ASSUME NEW n \in 1..Len(node)
      PROVE  /\ node[n] \in Node
             /\ HMapOf(n) \in SUBSET State
             /\ ChildrenOf(n) \subseteq (n + 1)..Len(node)
             /\ (Pruned(node, word, n) /\ Kind(node, n) = "AND") \/ Grown(node, n)
             /\ Kind(node, n) \in {"AND", "OR", "ORLit"}
  BY <1>1, <1>2, PassOneOver, SameOperators DEF Shape, HMapOf
<1>4. node \in Seq(Node) /\ Len(node) \in Nat \ {0}
  BY <1>1, PassOneOver
<1>5. ASSUME NEW n \in 1..Len(node)
      PROVE  AMapOf(n) \in SUBSET State
  BY <1>3, FormulaAssumption DEF AMapOf, Node
<1>6. ASSUME NEW n \in 1..Len(node), Lit(n)
      PROVE  LitReads(n)
  <2>1. Kind(node, n) = "ORLit" /\ Grown(node, n)
    BY <1>3, <1>6 DEF Lit, Kind
  <2>2. GrownLit(node, n)
    BY <2>1 DEF Grown
  <2>3. CASE node[n].acc
    BY <2>2, <2>3 DEF GrownLit, LitReads, HMapOf, AMapOf
  <2>4. CASE ~node[n].acc
    <3>1. PICK tr \in node[n].trans, m \in Kids(node, n) :
            /\ node[n].trans = {tr} /\ tr[1] \in mAllSyms /\ tr[2] = {m}
            /\ node[m].hmap = node[n].hmap
            /\ Meaning[node[m].amap] = Pre(tr[1], Meaning[node[n].amap])
      BY <2>2, <2>4 DEF GrownLit
    <3>2. tr = <<tr[1], {m}>>
      BY <1>3, <3>1 DEF Node
    <3>3. m \in 1..Len(node)
      BY <1>3, <3>1, SameOperators
    <3> QED
      BY <2>4, <3>1, <3>2, <3>3 DEF LitReads, HMapOf, AMapOf
  <2> QED
    BY <2>3, <2>4
<1>7. ASSUME NEW n \in 1..Len(node), ~Lit(n)
      PROVE  ArgsCovered(n)
  <2>1. Kind(node, n) \in {"AND", "OR"} /\ Args[node[n].amap] # {}
    BY <1>3, <1>7, ShapeAssumption DEF Lit, Kind, Node
  <2>2. SUFFICES ASSUME NEW tr \in node[n].trans
                 PROVE  tr[2] # {} /\ Covers(ClassesOf(tr[2]), AMapOf(n), HMapOf(n))
    BY DEF ArgsCovered
  <2>3. CASE Pruned(node, word, n) /\ Kind(node, n) = "AND"
    <3>1. \A m \in tr[2] : node[m].amap \in Args[node[n].amap]
      BY <2>3 DEF Pruned, Kids
    <3>2. Joint(node, tr[2]) \subseteq HMapOf(n)
      BY <2>3 DEF Pruned, HMapOf
    <3>3. tr[2] # {}
      BY <2>1, <2>3 DEF Pruned
    <3> QED
      BY <1>3, <2>3, <3>1, <3>2, <3>3, AndCovered
  <2>4. CASE Grown(node, n)
    <3>1. PICK t \in node[n].trans :
            /\ node[n].trans = {t}
            /\ node[n].hmap = IF Kind(node, n) = "AND" THEN Joint(node, t[2])
                              ELSE UNION {node[m].hmap : m \in t[2]}
            /\ \A m \in t[2] : node[m].amap \in Args[node[n].amap]
            /\ \A f \in Args[node[n].amap] : \E m \in t[2] : node[m].amap = f
      BY <2>1, <2>4 DEF Grown, GrownArgs
    <3>2. tr = t /\ tr[2] # {}
      BY <2>1, <3>1
    <3>3. CASE Kind(node, n) = "AND"
      <4>1. Joint(node, tr[2]) \subseteq HMapOf(n)
        BY <3>1, <3>2, <3>3 DEF HMapOf
      <4> QED
        BY <1>3, <3>1, <3>2, <3>3, <4>1, AndCovered
    <3>4. CASE Kind(node, n) = "OR"
      <4>1. HMapOf(n) = UNION {node[m].hmap : m \in tr[2]}
        BY <3>1, <3>2, <3>4 DEF HMapOf
      <4> QED
        BY <1>3, <3>1, <3>2, <3>4, <4>1, OrCovered
    <3> QED
      BY <2>1, <3>3, <3>4
  <2> QED
    BY <1>3, <2>3, <2>4
<1>8. node[1].amap = Post /\ HMapOf(1) = {}
  BY <1>1 DEF IInvTwo, IInv, Root, Verdict, AMapOf, HMapOf
<1> QED
  BY <1>3, <1>4, <1>5, <1>6, <1>7, <1>8 DEF FinishedTree, WellFounded

-----------------------------------------------------------------------------
\* Tree is closed under successors.
LEMMA TreeClosed ==
    ASSUME WellFounded
    PROVE  /\ Tree \subseteq 1..Len(node) /\ 1 \in Tree
           /\ \A n \in Tree : ChildrenOf(n) \subseteq Tree
<1> DEFINE L == Len(node)
           After(S) == S \cup UNION {ChildrenOf(n) : n \in S}
           Body(f) == [i \in 0..L |-> IF i = 0 THEN {1} ELSE After(f[i-1])]
           G == [p \in (1..L) \X SUBSET (1..L) |-> After(p[2])]
           R == CHOOSE f : f = Body(f)
<1>1. L \in Nat /\ 1 \in 1..L /\ {1} \in SUBSET (1..L)
  BY DEF WellFounded
<1>2. ASSUME NEW n \in 1..L
      PROVE  ChildrenOf(n) \subseteq (n + 1)..L /\ ChildrenOf(n) \subseteq 1..L
  BY DEF WellFounded
<1>3. ASSUME NEW S \in SUBSET (1..L)
      PROVE  After(S) \in SUBSET (1..L)
  BY <1>2
<1>4. G \in [(1..L) \X SUBSET (1..L) -> SUBSET (1..L)]
  BY <1>3
<1>5. PICK f : Alt!IsIteration(f, SUBSET (1..L), {1}, L, G)
  <2> HIDE DEF G, L
  <2> QED
    BY <1>1, <1>4, Alt!IterationExists
<1>6. f = Body(f)
  <2>1. f \in [0..L -> SUBSET (1..L)] /\ f[0] = {1} /\ \A i \in 1..L : f[i] = G[<<i, f[i-1]>>]
    BY <1>5 DEF Alt!IsIteration
  <2>2. ASSUME NEW i \in 1..L
        PROVE  f[i] = After(f[i-1])
    <3>1. f[i-1] \in SUBSET (1..L)
      BY <1>1, <2>1
    <3> HIDE DEF After, L
    <3> QED
      BY <2>1, <3>1
  <2> HIDE DEF After, L, G
  <2> QED
    BY <1>1, <2>1, <2>2
<1>7. R = Body(R)
  <2> HIDE DEF Body
  <2> QED
    BY <1>6
<1>8. R[0] = {1}
  <2>1. 0 \in 0..L
    BY <1>1
  <2> HIDE DEF R, After, L
  <2> QED
    BY <1>7, <2>1
<1>9. ASSUME NEW i \in 1..L
      PROVE  R[i] = After(R[i-1])
  <2>1. i \in 0..L /\ i # 0
    BY <1>1
  <2> HIDE DEF R, After, L
  <2> QED
    BY <1>7, <2>1
<1>10. Tree = R[L]
  BY DEF Tree, ReachableFrom
<1> HIDE DEF R, G, L
<1> DEFINE Grows(i) == R[i] \subseteq 1..L /\ \A j \in 0..i : R[j] \subseteq R[i]
           T == {i \in Nat : i <= L => Grows(i)}
<1>11. Grows(0)
  BY <1>1, <1>8
<1>12. ASSUME NEW i \in Nat, i + 1 <= L, Grows(i)
       PROVE  Grows(i + 1)
  <2>1. R[i + 1] = After(R[i])
    BY <1>1, <1>9, <1>12
  <2>2. R[i + 1] \subseteq 1..L
    BY <1>3, <1>12, <2>1
  <2>3. R[i] \subseteq R[i + 1]
    BY <2>1
  <2>4. \A j \in 0..(i + 1) : j = i + 1 \/ j \in 0..i
    OBVIOUS
  <2> HIDE DEF After
  <2> QED
    BY <1>12, <2>2, <2>3, <2>4
<1>13. \A i \in 0..L : Grows(i)
  <2> HIDE DEF Grows
  <2>1. 0 \in T /\ \A i \in Nat : i \in T => i + 1 \in T
    BY <1>1, <1>11, <1>12
  <2> HIDE DEF T
  <2>2. Nat \subseteq T
    BY <2>1, NatSetInduction
  <2> QED
    BY <1>1, <2>2 DEF T
<1> HIDE DEF T
<1> DEFINE Early(i) == \A n \in R[i] : n \in R[n - 1]
           T2 == {i \in Nat : i <= L => Early(i)}
<1>14. Early(0)
  BY <1>8
<1>15. ASSUME NEW i \in Nat, i + 1 <= L, Early(i)
       PROVE  Early(i + 1)
  <2>1. SUFFICES ASSUME NEW n \in R[i + 1], n \notin R[i]
                 PROVE  n \in R[n - 1]
    BY <1>15
  <2>2. R[i + 1] = After(R[i]) /\ R[i] \subseteq 1..L
    BY <1>1, <1>9, <1>13, <1>15
  <2>3. PICK p \in R[i] : n \in ChildrenOf(p)
    BY <2>1, <2>2
  <2>4. p \in 1..L /\ n \in (p + 1)..L
    BY <1>2, <2>2, <2>3
  <2>5. p \in R[p - 1]
    BY <1>15
  <2>6. n - 1 \in 1..L /\ (n - 1) - 1 \in 0..L /\ p - 1 \in 0..((n - 1) - 1)
    BY <1>1, <2>4
  <2>7. p \in R[(n - 1) - 1]
    BY <1>13, <2>5, <2>6
  <2>8. R[n - 1] = After(R[(n - 1) - 1])
    BY <1>9, <2>6
  <2> QED
    BY <2>3, <2>7, <2>8
<1>16. Early(L)
  <2> HIDE DEF Early
  <2>1. 0 \in T2 /\ \A i \in Nat : i \in T2 => i + 1 \in T2
    BY <1>1, <1>14, <1>15
  <2> HIDE DEF T2
  <2>2. Nat \subseteq T2
    BY <2>1, NatSetInduction
  <2> QED
    BY <1>1, <2>2 DEF T2
<1>17. Tree \subseteq 1..L /\ 1 \in Tree
  <2>1. L \in 0..L /\ 0 \in 0..L
    BY <1>1
  <2> QED
    BY <1>8, <1>10, <1>13, <2>1
<1>18. ASSUME NEW n \in Tree, NEW c \in ChildrenOf(n)
       PROVE  c \in Tree
  <2>1. n \in 1..L /\ c \in (n + 1)..L
    BY <1>2, <1>17, <1>18
  <2>2. n \in R[n - 1]
    BY <1>10, <1>16
  <2>3. c \in R[n]
    BY <1>9, <2>1, <2>2
  <2>4. n \in 0..L /\ L \in 0..L
    BY <1>1, <2>1
  <2> HIDE DEF Early
  <2> QED
    BY <1>10, <1>13, <2>3, <2>4
<1> QED
  BY <1>17, <1>18 DEF L

\* What PassFourPhaseOne returns for a state: unsatisfiable states at or below
\* it, each with the symbol that assumes its formula.
Assumed(n) ==
    IF Unsat(n) /\ node[n].amap \in DOMAIN mRevAssumeLHRHMap /\ ~node[n].acc
    THEN {<<mRevAssumeLHRHMap[node[n].amap], n>>} ELSE {}

LEMMA AssumeInfoEquations ==
    ASSUME WellFounded, NEW n \in 1..Len(node)
    PROVE  AssumeInfo[n] = Assumed(n) \cup UNION {AssumeInfo[m] : m \in ChildrenOf(n)}
<1> DEFINE L == Len(node)
           U == UNION {Assumed(m) : m \in 1..L}
           V == SUBSET U
           Value(k, f) == Assumed(k) \cup UNION {f[m] : m \in ChildrenOf(k)}
           Body(f) == [k \in 1..L |-> Value(k, f)]
           G == [p \in (1..L) \X [1..L -> V] |-> Value(p[1], p[2])]
<1>1. L \in Nat /\ \A k \in 1..L : ChildrenOf(k) \subseteq (k + 1)..L
  BY DEF WellFounded
<1>2. ASSUME NEW k \in 1..L, NEW f \in [1..L -> V]
      PROVE  G[<<k, f>>] = Value(k, f) /\ Value(k, f) \in V
  <2>1. ChildrenOf(k) \subseteq 1..L
    BY <1>1
  <2>2. Assumed(k) \subseteq U
    OBVIOUS
  <2> HIDE DEF U, L
  <2>3. Value(k, f) \in SUBSET U
    BY <2>1, <2>2
  <2> QED
    BY <2>3
<1>3. G \in [(1..L) \X [1..L -> V] -> V]
  <2> HIDE DEF Value, V, L
  <2> QED
    BY <1>2
<1>4. ASSUME NEW k \in 1..L, NEW f \in [1..L -> V], NEW g \in [1..L -> V],
             \A m \in (k + 1)..L : f[m] = g[m]
      PROVE  G[<<k, f>>] = G[<<k, g>>]
  <2>1. \A m \in ChildrenOf(k) : f[m] = g[m]
    BY <1>1, <1>4
  <2>2. Value(k, f) = Value(k, g)
    <3>1. {f[m] : m \in ChildrenOf(k)} = {g[m] : m \in ChildrenOf(k)}
      BY <2>1
    <3> QED
      BY <3>1
  <2> HIDE DEF Value, V, L
  <2> QED
    BY <1>2, <2>2
<1>5. PICK f : Solves(f, G, L, V)
  <2>1. V # {} /\ L \in Nat
    BY <1>1
  <2> HIDE DEF G, V, L, Value
  <2>2. LooksAhead(G, L, V)
    BY <1>3, <1>4 DEF LooksAhead
  <2> QED
    BY ONLY <2>1, <2>2, DownwardRecursion
<1>6. f = Body(f)
  <2> HIDE DEF Value, V, L, G
  <2> QED
    BY <1>2, <1>5 DEF Solves
<1>7. AssumeInfo = Body(AssumeInfo)
  <2>1. AssumeInfo = CHOOSE g : g = Body(g)
    BY DEF AssumeInfo, Assumed
  <2> HIDE DEF Body
  <2> QED
    BY <1>6, <2>1
<1> DEFINE I == AssumeInfo
<1>8. I = Body(I)
  BY <1>7
<1> HIDE DEF I
<1>9. I[n] = Value(n, I)
  BY <1>8
<1> QED
  BY <1>9 DEF I

\* What AssumeInfo holds is at or below the state, unsatisfiable, and not a
\* leaf of the tree.
LEMMA AssumeInfoSound ==
    ASSUME WellFounded, NEW n \in 1..Len(node), NEW b \in AssumeInfo[n]
    PROVE  \E m \in 1..Len(node) :
              /\ n \in Tree => m \in Tree
              /\ b \in Assumed(m)
<1> DEFINE Sound(k, c) == \E m \in 1..Len(node) : (k \in Tree => m \in Tree) /\ c \in Assumed(m)
           S == {k \in 1..Len(node) : \A c \in AssumeInfo[k] : Sound(k, c)}
<1>1. Len(node) \in Nat
  BY DEF WellFounded
<1>2. ASSUME NEW k \in 1..Len(node), \A m \in (k + 1)..Len(node) : m \in S,
             NEW c \in AssumeInfo[k]
      PROVE  Sound(k, c)
  <2>1. c \in Assumed(k) \/ \E m \in ChildrenOf(k) : c \in AssumeInfo[m]
    BY AssumeInfoEquations
  <2>2. CASE c \in Assumed(k)
    BY <2>2
  <2>3. CASE \E m \in ChildrenOf(k) : c \in AssumeInfo[m]
    <3>1. PICK m \in ChildrenOf(k) : c \in AssumeInfo[m]
      BY <2>3
    <3>2. m \in (k + 1)..Len(node) /\ (k \in Tree => m \in Tree)
      BY TreeClosed DEF WellFounded
    <3>3. Sound(m, c)
      BY <1>2, <3>1, <3>2
    <3> QED
      BY <3>2, <3>3
  <2> QED
    BY <2>1, <2>2, <2>3
<1>3. \A k \in 1..Len(node) : (\A m \in (k + 1)..Len(node) : m \in S) => k \in S
  <2> HIDE DEF Sound
  <2> QED
    BY <1>2
<1> HIDE DEF S
<1>4. 1..Len(node) \subseteq S
  BY <1>1, <1>3, DownwardInduction
<1>5. Sound(n, b)
  <2> HIDE DEF Sound
  <2> QED
    BY <1>4 DEF S
<1> QED
  BY <1>5

\* The equations of Alternatives.
LEMMA AlternativesEquations ==
    ASSUME WellFounded, NEW n \in 1..Len(node)
    PROVE  Alternatives[n] =
              IF Lit(n) THEN {{n}}
              ELSE UNION {Combined([m \in tr[2] |-> Alternatives[m]]) : tr \in node[n].trans}
<1> DEFINE L == Len(node)
           U == 1..L
           V == SUBSET SUBSET U
           Value(k, f) == IF Lit(k) THEN {{k}}
                          ELSE UNION {Combined([m \in tr[2] |-> f[m]]) : tr \in node[k].trans}
           Body(f) == [k \in 1..L |-> Value(k, f)]
           G == [p \in (1..L) \X [1..L -> V] |-> Value(p[1], p[2])]
<1>1. L \in Nat /\ \A k \in 1..L : \A tr \in node[k].trans : tr[2] \subseteq (k + 1)..L
  BY DEF WellFounded, ChildrenOf
<1>2. ASSUME NEW k \in 1..L, NEW f \in [1..L -> V]
      PROVE  G[<<k, f>>] = Value(k, f) /\ Value(k, f) \in V
  <2>1. ASSUME NEW tr \in node[k].trans
        PROVE  Combined([m \in tr[2] |-> f[m]]) \subseteq SUBSET U
    <3> DEFINE h == [m \in tr[2] |-> f[m]]
    <3>1. \A m \in tr[2] : m \in 1..L
      BY <1>1
    <3>2. \A m \in DOMAIN h : h[m] \subseteq SUBSET U
      <4> HIDE DEF U, L
      <4> QED
        BY <3>1
    <3> HIDE DEF h, U
    <3>3. ASSUME NEW c \in Choices(h)
          PROVE  UNION {c[m] : m \in DOMAIN c} \in SUBSET U
      <4>1. DOMAIN c = DOMAIN h /\ \A m \in DOMAIN h : c[m] \in h[m]
        BY DEF Choices
      <4>2. \A m \in DOMAIN c : c[m] \subseteq U
        BY <3>2, <4>1
      <4> QED
        BY <4>2
    <3>4. Combined(h) \subseteq SUBSET U
      BY <3>3 DEF Combined
    <3> QED
      BY <3>4 DEF h
  <2>2. {{k}} \in V
    OBVIOUS
  <2> HIDE DEF U, L
  <2>3. Value(k, f) \in V
    <3> DEFINE C(tr) == Combined([m \in tr[2] |-> f[m]])
    <3>1. \A tr \in node[k].trans : C(tr) \subseteq SUBSET U
      BY <2>1
    <3>2. Value(k, f) = IF Lit(k) THEN {{k}} ELSE UNION {C(tr) : tr \in node[k].trans}
      OBVIOUS
    <3> HIDE DEF C, Value
    <3>3. UNION {C(tr) : tr \in node[k].trans} \in V
      BY <3>1
    <3> QED
      BY <2>2, <3>2, <3>3
  <2> HIDE DEF V, Value
  <2> QED
    BY <2>3
<1>3. G \in [(1..L) \X [1..L -> V] -> V]
  <2> HIDE DEF Value, V, L
  <2> QED
    BY <1>2
<1>4. ASSUME NEW k \in 1..L, NEW f \in [1..L -> V], NEW g \in [1..L -> V],
             \A m \in (k + 1)..L : f[m] = g[m]
      PROVE  G[<<k, f>>] = G[<<k, g>>]
  <2>1. \A tr \in node[k].trans : [m \in tr[2] |-> f[m]] = [m \in tr[2] |-> g[m]]
    BY <1>1, <1>4
  <2>2. Value(k, f) = Value(k, g)
    <3> DEFINE C(tr) == Combined([m \in tr[2] |-> f[m]])
               D(tr) == Combined([m \in tr[2] |-> g[m]])
    <3>1. \A tr \in node[k].trans : C(tr) = D(tr)
      BY <2>1
    <3>2. /\ Value(k, f) = IF Lit(k) THEN {{k}} ELSE UNION {C(tr) : tr \in node[k].trans}
          /\ Value(k, g) = IF Lit(k) THEN {{k}} ELSE UNION {D(tr) : tr \in node[k].trans}
      OBVIOUS
    <3> HIDE DEF C, D, Value
    <3>3. {C(tr) : tr \in node[k].trans} = {D(tr) : tr \in node[k].trans}
      BY <3>1
    <3> QED
      BY <3>2, <3>3
  <2> HIDE DEF Value, V, L
  <2> QED
    BY <1>2, <2>2
<1>5. PICK f : Solves(f, G, L, V)
  <2>1. V # {} /\ L \in Nat
    BY <1>1
  <2> HIDE DEF G, V, L, Value
  <2>2. LooksAhead(G, L, V)
    BY <1>3, <1>4 DEF LooksAhead
  <2> QED
    BY ONLY <2>1, <2>2, DownwardRecursion
<1>6. f = Body(f)
  <2> HIDE DEF Value, V, L, G
  <2> QED
    BY <1>2, <1>5 DEF Solves
<1>7. Alternatives = Body(Alternatives)
  <2>1. Alternatives = CHOOSE g : g = Body(g)
    BY DEF Alternatives
  <2> HIDE DEF Body
  <2> QED
    BY <1>6, <2>1
<1> DEFINE Z == Alternatives
<1>8. Z = Body(Z)
  BY <1>7
<1> HIDE DEF Z
<1>9. Z[n] = Value(n, Z)
  BY <1>8
<1> QED
  BY <1>9 DEF Z

\* An alternative of a state is a set of literals, of the tree if the state is,
\* and covers the state.
Stands(alt, n) ==
    /\ alt # {}
    /\ \A m \in alt : m \in 1..Len(node) /\ Lit(m) /\ (n \in Tree => m \in Tree)
    /\ Covers(ClassesOf(alt), AMapOf(n), HMapOf(n))

LEMMA AlternativesSound ==
    ASSUME FinishedTree, NEW n \in 1..Len(node), NEW alt \in Alternatives[n]
    PROVE  Stands(alt, n)
<1> DEFINE S == {k \in 1..Len(node) : \A a \in Alternatives[k] : Stands(a, k)}
<1>1. Len(node) \in Nat /\ WellFounded
  BY DEF FinishedTree, WellFounded
<1>2. ASSUME NEW k \in 1..Len(node), \A m \in (k + 1)..Len(node) : m \in S,
             NEW a \in Alternatives[k]
      PROVE  Stands(a, k)
  <2>1. CASE Lit(k)
    <3>1. a = {k}
      BY <1>1, <2>1, AlternativesEquations
    <3>2. ClassesOf(a) = {Class(k)} /\ Class(k)[1] = node[k].amap /\ Class(k)[2] = HMapOf(k)
      BY <3>1 DEF ClassesOf, Class, HMapOf
    <3>3. Covers(ClassesOf(a), AMapOf(k), HMapOf(k))
      BY <3>2, CoversSelf DEF AMapOf
    <3> QED
      BY <2>1, <3>1, <3>3 DEF Stands
  <2>2. CASE ~Lit(k)
    <3>1. PICK tr \in node[k].trans : a \in Combined([m \in tr[2] |-> Alternatives[m]])
      <4> DEFINE C(tr) == Combined([m \in tr[2] |-> Alternatives[m]])
      <4>1. Alternatives[k] = UNION {C(tr) : tr \in node[k].trans}
        BY <1>1, <2>2, AlternativesEquations
      <4> HIDE DEF C
      <4>2. \E tr \in node[k].trans : a \in C(tr)
        BY <4>1
      <4> QED
        BY <4>2 DEF C
    <3>2. tr[2] # {} /\ Covers(ClassesOf(tr[2]), AMapOf(k), HMapOf(k))
      BY <2>2 DEF FinishedTree, ArgsCovered
    <3> DEFINE h == [m \in tr[2] |-> Alternatives[m]]
    <3>3. PICK c \in Choices(h) : a = UNION {c[m] : m \in DOMAIN c}
      BY <3>1 DEF Combined
    <3>4. DOMAIN c = tr[2] /\ \A m \in tr[2] : c[m] \in Alternatives[m]
      BY <3>3 DEF Choices
    <3>5. \A m \in tr[2] : m \in ChildrenOf(k)
      BY DEF ChildrenOf
    <3>6. \A m \in tr[2] : m \in (k + 1)..Len(node) /\ (k \in Tree => m \in Tree)
      BY <1>1, <3>5, TreeClosed DEF WellFounded
    <3>7. \A m \in tr[2] : Stands(c[m], m)
      BY <1>2, <3>4, <3>6
    <3>8. \A m \in tr[2] : c[m] \subseteq a
      BY <3>3, <3>4
    <3>9. a # {}
      BY <3>2, <3>7, <3>8 DEF Stands
    <3>10. ASSUME NEW l \in a
           PROVE  l \in 1..Len(node) /\ Lit(l) /\ (k \in Tree => l \in Tree)
      <4>1. PICK m \in tr[2] : l \in c[m]
        BY <3>3, <3>4
      <4> QED
        BY <3>6, <3>7, <4>1 DEF Stands
    <3>11. ASSUME NEW p \in ClassesOf(tr[2])
           PROVE  Covers(ClassesOf(a), Meaning[p[1]], p[2])
      <4>1. PICK m \in tr[2] : p = Class(m)
        BY DEF ClassesOf
      <4>2. Meaning[p[1]] = AMapOf(m) /\ p[2] = HMapOf(m)
        BY <4>1 DEF Class, AMapOf, HMapOf
      <4>3. Covers(ClassesOf(c[m]), AMapOf(m), HMapOf(m))
        BY <3>7 DEF Stands
      <4>4. ClassesOf(c[m]) \subseteq ClassesOf(a)
        BY <3>8 DEF ClassesOf
      <4> QED
        BY <4>2, <4>3, <4>4, CoversMore
    <3>12. Covers(ClassesOf(a), AMapOf(k), HMapOf(k))
      BY <3>2, <3>11, CoversThrough
    <3> QED
      BY <3>9, <3>10, <3>12 DEF Stands
  <2> QED
    BY <2>1, <2>2
<1>3. \A k \in 1..Len(node) : (\A m \in (k + 1)..Len(node) : m \in S) => k \in S
  BY <1>2
<1> HIDE DEF S
<1>4. 1..Len(node) \subseteq S
  BY <1>1, <1>3, DownwardInduction
<1> QED
  BY <1>4 DEF S

-----------------------------------------------------------------------------
(***************************************************************************)
(* The inductive invariant.                                                *)
(***************************************************************************)
AutomatonOver(Q) ==
    [mInit : Q, lit : BOOLEAN, mIsAccepted : SUBSET Q, zero : SUBSET SUBSET Q,
     mTransitions : [Q \X mAllSyms -> SUBSET SUBSET Q]]

\* The earlier passes take no further step.
Over == pc = "PassTwo" /\ passtwoallstates # {} /\ calls = <<>> /\ done

\* The literals that are collected; an accepted one holds nowhere but in its HMap.
LiteralsOK ==
    \A n \in ORLitStates :
        /\ n \in 1..Len(node) /\ Lit(n)
        /\ HMapOf(n) \in SUBSET State
        /\ node[n].acc => AMapOf(n) \subseteq HMapOf(n)

\* The targets of an edge cover the pre-image of its source, and an edge to a
\* state that is not a literal is going to be replaced.
EdgeOK(n, tr) ==
    /\ tr[1] \in mAllSyms
    /\ tr[2] # {} /\ tr[2] \subseteq 1..Len(node)
    /\ Covers(ClassesOf(tr[2]), Pre(tr[1], AMapOf(n)), HMapOf(n))
    /\ tr[2] \subseteq ORLitStates \/ \E d \in tr[2] : <<n, tr[1], d>> \in toANDLink

\* The destination of a link covers the pre-image of its source.
LinkOK(link) ==
    /\ link \in ORLitStates \X mAllSyms \X (1..Len(node))
    /\ link[3] \in Tree \/ phase # "zero"
    /\ Pre(link[2], AMapOf(link[1])) \subseteq AMapOf(link[3])
    /\ HMapOf(link[3]) \subseteq HMapOf(link[1])
    /\ Lit(link[3]) => link[3] \in ORLitStates

\* A state whose edges lead to its alternatives.
Replaced(n) ==
    \A tr \in node[n].trans :
        /\ tr[2] # {} /\ tr[2] \subseteq ORLitStates
        /\ Covers(ClassesOf(tr[2]), AMapOf(n), HMapOf(n))

RootOK ==
    /\ Lit(1) => 1 \in ORLitStates
    /\ node[1].amap = Post /\ HMapOf(1) = {}

\* Each alternative of a class covers the pre-image of its AMap.
Sound(a) ==
    /\ \A q \in States, s \in mAllSyms : \A C \in a.mTransitions[<<q, s>>] :
          C # {} /\ Covers(C, Pre(s, Meaning[q[1]]), q[2])
    /\ \A q \in a.mIsAccepted : Meaning[q[1]] \subseteq q[2]
    /\ a.lit => a.mInit = Class(1)
    /\ \A C \in a.zero : Covers(C, Meaning[Post], {}) \/ (trueinit # NULL /\ C = {trueinit})

IInvFour ==
    /\ TypeOKFour
    /\ node \in Seq(Node) /\ Len(node) \in Nat \ {0}
    /\ phase = "tree" => IInvTwo /\ ORLitStates = {} /\ toANDLink = {}
    /\ phase # "tree" => Over
    /\ phase \notin {"tree", "undefined"} => LiteralsOK /\ RootOK
    /\ phase = "zero" =>
          /\ FinishedTree
          /\ ORLitStates = {n \in Tree : Lit(n)}
    /\ phase \in {"zero", "links"} =>
          /\ \A n \in ORLitStates : \A tr \in node[n].trans : EdgeOK(n, tr)
          /\ \A link \in toANDLink : LinkOK(link)
    /\ phase = "links" =>
          /\ ~Lit(1) => Replaced(1)
          /\ \A link \in toANDLink : ~Lit(link[3]) => Replaced(link[3])
    /\ phase \notin {"init", "done"} => trueinit = NULL /\ falseaccepted = NULL
    /\ phase \in {"loops", "init", "done"} => Sound(afa)
    /\ trueinit # NULL => trueinit[1] = TrueExp

LEMMA AutomatonSame == \A Q : Aut(Q)!Automaton = AutomatonOver(Q)
BY DEF Aut!Automaton, AutomatonOver

\* PassFour changes nothing of a state but its edges.
KeepsLabels ==
    /\ node' \in Seq(Node) /\ Len(node') = Len(node)
    /\ \A n \in 1..Len(node) : /\ node'[n].amap = node[n].amap
                               /\ node'[n].hmap = node[n].hmap
                               /\ node'[n].acc = node[n].acc

LEMMA LabelsKept ==
    ASSUME KeepsLabels
    PROVE  /\ \A n \in 1..Len(node) : /\ Lit(n)' <=> Lit(n)
                                      /\ Class(n)' = Class(n)
                                      /\ AMapOf(n)' = AMapOf(n)
                                      /\ HMapOf(n)' = HMapOf(n)
           /\ \A S \in SUBSET (1..Len(node)) : ClassesOf(S)' = ClassesOf(S)
<1>1. ASSUME NEW n \in 1..Len(node)
      PROVE  /\ Lit(n)' <=> Lit(n)
             /\ Class(n)' = Class(n)
             /\ AMapOf(n)' = AMapOf(n)
             /\ HMapOf(n)' = HMapOf(n)
  BY DEF KeepsLabels, Lit, Class, AMapOf, HMapOf
<1>2. ASSUME NEW S \in SUBSET (1..Len(node))
      PROVE  ClassesOf(S)' = ClassesOf(S)
  BY <1>1 DEF ClassesOf
<1> QED
  BY <1>1, <1>2

\* The states of the automaton stay the same once the literals are known.
LEMMA StatesKept ==
    ASSUME KeepsLabels, ORLitStates \subseteq 1..Len(node), UNCHANGED ORLitStates,
           Len(node) \in Nat \ {0}
    PROVE  Classes' = Classes /\ States' = States
<1>1. \A n \in ORLitStates : Class(n)' = Class(n)
  BY LabelsKept
<1>2. Classes' = Classes
  BY <1>1 DEF Classes
<1>3. Class(1)' = Class(1)
  BY LabelsKept
<1> QED
  BY <1>2, <1>3 DEF States

\* When the tree is not changed, neither is anything that is said about it.
LEMMA SameNodes ==
    ASSUME UNCHANGED node
    PROVE  /\ Tree' = Tree
           /\ FinishedTree' <=> FinishedTree
           /\ \A n : (Lit(n)' <=> Lit(n)) /\ Class(n)' = Class(n)
           /\ \A n : AMapOf(n)' = AMapOf(n) /\ HMapOf(n)' = HMapOf(n)
           /\ \A S : ClassesOf(S)' = ClassesOf(S)
<1>1. /\ \A n : (Lit(n)' <=> Lit(n)) /\ Class(n)' = Class(n)
      /\ \A n : AMapOf(n)' = AMapOf(n) /\ HMapOf(n)' = HMapOf(n)
      /\ \A n : ChildrenOf(n)' = ChildrenOf(n)
  BY DEF Lit, Class, AMapOf, HMapOf, ChildrenOf
<1>2. \A S : ClassesOf(S)' = ClassesOf(S)
  BY <1>1 DEF ClassesOf
<1>3. Tree' = Tree
  BY DEF Tree, ReachableFrom, ChildrenOf
<1>4. \A n : (ArgsCovered(n)' <=> ArgsCovered(n)) /\ (LitReads(n)' <=> LitReads(n))
  BY <1>1, <1>2 DEF ArgsCovered, LitReads
<1>5. WellFounded' <=> WellFounded
  BY <1>1 DEF WellFounded
<1>6. FinishedTree' <=> FinishedTree
  BY <1>1, <1>4, <1>5 DEF FinishedTree
<1> QED
  BY <1>1, <1>2, <1>3, <1>6

\* The earlier passes are over for good.
LEMMA OverStops ==
    ASSUME Over
    PROVE  ~Progress
<1>1. ~PassOneNext
  BY DEF Over, PassOneNext, VisitArg, FinishAnd, FinishOr, Accept, Skip, ProcessSym, FinishSym,
         CheckRoot, Running, AtLit, Scanning
<1>2. ~PassTwoNext
  BY DEF Over, PassTwoNext, StartPassTwo, FindCore, CutEdges, Visit, Resume, ReturnFromPassTwo,
         DeleteUnseen, InPassTwo
<1> QED
  BY <1>1, <1>2 DEF Progress

LEMMA InitFourInv == InitFour => IInvFour
<1> SUFFICES ASSUME InitFour PROVE IInvFour
  OBVIOUS
<1>1. IInvTwo
  BY InitTwoInv DEF InitFour
<1>2. node \in Seq(Node) /\ Len(node) \in Nat \ {0}
  BY <1>1 DEF IInvTwo, IInv, TypeOK
<1>3. TypeOKFour
  BY DEF InitFour, TypeOKFour
<1> QED
  BY <1>1, <1>2, <1>3 DEF InitFour, IInvFour

\* The steps of the earlier passes.
LEMMA EarlierInv == IInvFour /\ Earlier => IInvFour'
<1> SUFFICES ASSUME IInvFour, Earlier PROVE IInvFour'
  OBVIOUS
<1>1. phase = "tree" /\ IInvTwo /\ ORLitStates = {} /\ toANDLink = {}
  BY OverStops DEF Earlier, IInvFour
<1>2. trueinit = NULL /\ falseaccepted = NULL
  BY <1>1 DEF IInvFour
<1>3. UNCHANGED passFourVars
  BY DEF Earlier
<1>4. IInvTwo'
  BY <1>1, ProgressInv DEF Earlier
<1>5. node' \in Seq(Node) /\ Len(node') \in Nat \ {0}
  BY <1>4 DEF IInvTwo, IInv, TypeOK
<1>6. TypeOKFour'
  BY <1>1, <1>2, <1>3 DEF TypeOKFour, passFourVars
<1> QED
  BY <1>1, <1>2, <1>3, <1>4, <1>5, <1>6 DEF IInvFour, passFourVars

\* Deleted states are read.
LEMMA ReadDeletedInv == IInvFour /\ ReadDeleted => IInvFour'
<1> SUFFICES ASSUME IInvFour, ReadDeleted PROVE IInvFour'
  OBVIOUS
<1>1. /\ phase = "tree" /\ phase' = "undefined" /\ done
      /\ IInvTwo /\ ORLitStates = {} /\ toANDLink = {}
      /\ UNCHANGED <<vars, ORLitStates, toANDLink, afa, trueinit, falseaccepted>>
  BY DEF ReadDeleted, IInvFour
<1>2. trueinit = NULL /\ falseaccepted = NULL
  BY <1>1 DEF IInvFour
<1>3. Over'
  BY <1>1 DEF IInvTwo, Phases, Over, vars, passOneVars, passTwoVars
<1>4. node' \in Seq(Node) /\ Len(node') \in Nat \ {0}
  BY <1>1 DEF IInvFour, vars, passOneVars
<1>5. TypeOKFour'
  BY <1>1, <1>2 DEF TypeOKFour
<1> QED
  BY <1>1, <1>2, <1>3, <1>4, <1>5 DEF IInvFour

-----------------------------------------------------------------------------
(***************************************************************************)
(* PassFourPhaseOne: the links it collects.                                *)
(***************************************************************************)
\* A literal that reads a symbol has one edge, to a state that covers it.
LEMMA LitEdge ==
    ASSUME FinishedTree, NEW n \in Tree, Lit(n), ~node[n].acc
    PROVE  \E s \in mAllSyms, m \in Tree :
              /\ node[n].trans = {<<s, {m}>>} /\ ChildrenOf(n) = {m}
              /\ HMapOf(m) = HMapOf(n) /\ AMapOf(m) = Pre(s, AMapOf(n))
<1>1. n \in 1..Len(node) /\ \A c \in ChildrenOf(n) : c \in Tree
  BY TreeClosed DEF FinishedTree
<1>2. LitReads(n)
  BY <1>1 DEF FinishedTree
<1>3. PICK s \in mAllSyms, m \in 1..Len(node) :
        /\ node[n].trans = {<<s, {m}>>}
        /\ HMapOf(m) = HMapOf(n)
        /\ AMapOf(m) = Pre(s, AMapOf(n))
  BY <1>2 DEF LitReads
<1>4. ChildrenOf(n) = {m}
  BY <1>3 DEF ChildrenOf
<1> QED
  BY <1>1, <1>3, <1>4

\* What PassFourPhaseOne makes of the state of the invariant.
LEMMA LinksOfOK ==
    ASSUME FinishedTree, NEW n \in Tree, Lit(n), ~node[n].acc, NEW link \in LinksOf(n)
    PROVE  /\ link \in {n} \X mAllSyms \X Tree
           /\ Pre(link[2], AMapOf(n)) \subseteq AMapOf(link[3])
           /\ HMapOf(link[3]) \subseteq HMapOf(n)
<1>1. PICK s \in mAllSyms, m \in Tree :
        /\ node[n].trans = {<<s, {m}>>} /\ ChildrenOf(n) = {m}
        /\ HMapOf(m) = HMapOf(n) /\ AMapOf(m) = Pre(s, AMapOf(n))
  BY LitEdge
<1>2. link = <<n, s, m>> \/ \E b \in AssumeInfo[m] : Unsat(n) /\ link = <<n, b[1], b[2]>>
  BY <1>1 DEF LinksOf
<1>3. CASE link = <<n, s, m>>
  BY <1>1, <1>3
<1>4. CASE \E b \in AssumeInfo[m] : Unsat(n) /\ link = <<n, b[1], b[2]>>
  <2>1. PICK b \in AssumeInfo[m] : Unsat(n) /\ link = <<n, b[1], b[2]>>
    BY <1>4
  <2>2. WellFounded /\ m \in 1..Len(node)
    BY <1>1, TreeClosed DEF FinishedTree
  <2>3. PICK c \in 1..Len(node) : (m \in Tree => c \in Tree) /\ b \in Assumed(c)
    BY <2>2, AssumeInfoSound
  <2>4. /\ b = <<mRevAssumeLHRHMap[node[c].amap], c>>
        /\ Unsat(c) /\ node[c].amap \in DOMAIN mRevAssumeLHRHMap
    BY <2>3 DEF Assumed
  <2>5. /\ link[1] = n /\ link[2] = mRevAssumeLHRHMap[node[c].amap] /\ link[3] = c
        /\ link = <<link[1], link[2], link[3]>>
    BY <2>1, <2>4
  <2>6. link[2] \in AssumeSym /\ AMapOf(c) = mAssumeLHRHMap[link[2]]
    BY <2>4, <2>5, RevAssumption DEF AMapOf
  <2>7. link[2] \in mAllSyms /\ Pre(link[2], AMapOf(n)) \subseteq mAssumeLHRHMap[link[2]]
    BY <2>6, SymAssumption DEF mAllSyms, Pre, PreAssume
  <2>8. HMapOf(c) = {}
    BY <2>4 DEF Unsat, HMapOf
  <2> QED
    BY <1>1, <2>3, <2>5, <2>6, <2>7, <2>8
<1> QED
  BY <1>2, <1>3, <1>4

LEMMA PassFourPhaseOneInv == IInvFour /\ PassFourPhaseOne => IInvFour'
<1> SUFFICES ASSUME IInvFour, PassFourPhaseOne PROVE IInvFour'
  OBVIOUS
<1>1. /\ phase = "tree" /\ phase' = "zero" /\ done /\ IInvTwo
      /\ ORLitStates' = {n \in Tree : Lit(n)}
      /\ toANDLink' = UNION {LinksOf(n) : n \in {m \in Tree : Lit(m) /\ ~node[m].acc}}
      /\ UNCHANGED <<vars, afa, trueinit, falseaccepted>>
  BY DEF PassFourPhaseOne, IInvFour
<1>2. FinishedTree
  BY <1>1, TreeFinished
<1>3. Tree \subseteq 1..Len(node) /\ 1 \in Tree
  BY <1>2, TreeClosed DEF FinishedTree
<1>4. UNCHANGED node
  BY <1>1 DEF vars, passOneVars
<1>5. Over'
  BY <1>1 DEF IInvTwo, Phases, Over, vars, passOneVars, passTwoVars
<1>6. node' \in Seq(Node) /\ Len(node') \in Nat \ {0}
  BY <1>4 DEF IInvFour
<1>7. trueinit' = NULL /\ falseaccepted' = NULL
  BY <1>1 DEF IInvFour
<1>8. FinishedTree' /\ ORLitStates' = {n \in Tree : Lit(n)}'
  BY <1>1, <1>2, <1>4, SameNodes
<1>9. ASSUME NEW link \in toANDLink'
      PROVE  LinkOK(link)' /\ link \in ORLitStates' \X mAllSyms \X (1..Len(node))
  <2>1. PICK n \in Tree : Lit(n) /\ ~node[n].acc /\ link \in LinksOf(n)
    BY <1>1
  <2>2. /\ link \in {n} \X mAllSyms \X Tree
        /\ Pre(link[2], AMapOf(n)) \subseteq AMapOf(link[3])
        /\ HMapOf(link[3]) \subseteq HMapOf(n)
    BY <1>2, <2>1, LinksOfOK
  <2>3. link[1] = n /\ link[3] \in Tree /\ n \in ORLitStates'
    BY <1>1, <2>1, <2>2
  <2>4. link \in ORLitStates' \X mAllSyms \X (1..Len(node))
    BY <1>3, <2>2, <2>3
  <2>5. Lit(link[3]) => link[3] \in ORLitStates'
    BY <1>1, <2>3
  <2> QED
    BY <1>4, <2>2, <2>3, <2>4, <2>5, SameNodes DEF LinkOK
<1>10. ASSUME NEW n \in ORLitStates'
       PROVE  /\ n \in 1..Len(node) /\ Lit(n) /\ HMapOf(n) \in SUBSET State
              /\ node[n].acc => AMapOf(n) \subseteq HMapOf(n)
              /\ \A tr \in node[n].trans : EdgeOK(n, tr)'
  <2>1. n \in Tree /\ n \in 1..Len(node) /\ Lit(n)
    BY <1>1, <1>3
  <2>2. LitReads(n) /\ HMapOf(n) \in SUBSET State
    BY <1>2, <2>1 DEF FinishedTree
  <2>3. CASE node[n].acc
    BY <2>1, <2>2, <2>3 DEF LitReads
  <2>4. CASE ~node[n].acc
    <3>1. PICK s \in mAllSyms, m \in Tree :
            /\ node[n].trans = {<<s, {m}>>} /\ ChildrenOf(n) = {m}
            /\ HMapOf(m) = HMapOf(n) /\ AMapOf(m) = Pre(s, AMapOf(n))
      BY <1>2, <2>1, <2>4, LitEdge
    <3> DEFINE tr == <<s, {m}>>
    <3>2. Covers(ClassesOf({m}), Pre(s, AMapOf(n)), HMapOf(n))
      <4>1. ClassesOf({m}) = {Class(m)} /\ Class(m)[1] = node[m].amap /\ Class(m)[2] = HMapOf(m)
        BY DEF ClassesOf, Class, HMapOf
      <4>2. Covers({Class(m)}, Meaning[Class(m)[1]], Class(m)[2])
        BY CoversSelf
      <4> QED
        BY <3>1, <4>1, <4>2 DEF AMapOf
    <3>3. {m} \subseteq ORLitStates' \/ \E d \in {m} : <<n, s, d>> \in toANDLink'
      <4>1. CASE Lit(m)
        BY <1>1, <4>1
      <4>2. CASE ~Lit(m)
        <5>1. <<n, tr[1], m>> \in LinksOf(n)
          BY <3>1, <4>2 DEF LinksOf
        <5>2. n \in {x \in Tree : Lit(x) /\ ~node[x].acc}
          BY <2>1, <2>4
        <5> QED
          BY <1>1, <5>1, <5>2
      <4> QED
        BY <4>1, <4>2
    <3>4. tr[1] = s /\ tr[2] = {m} /\ m \in 1..Len(node)
      BY <1>3
    <3>5. EdgeOK(n, tr)'
      <4> HIDE DEF tr
      <4> QED
        BY <1>4, <3>2, <3>3, <3>4, SameNodes DEF EdgeOK
    <3> QED
      BY <2>1, <2>2, <2>4, <3>1, <3>5
  <2> QED
    BY <2>3, <2>4
<1>11. LiteralsOK'
  <2>1. ORLitStates' \subseteq 1..Len(node)
    BY <1>10
  <2> QED
    BY <1>4, <1>10, SameNodes DEF LiteralsOK
<1>12. RootOK'
  BY <1>1, <1>2, <1>3, <1>4, SameNodes DEF RootOK, FinishedTree
<1>13. TypeOKFour'
  BY <1>1, <1>4, <1>7, <1>9, <1>10 DEF TypeOKFour
<1> QED
  BY <1>1, <1>4, <1>5, <1>6, <1>7, <1>8, <1>9, <1>10, <1>11, <1>12, <1>13 DEF IInvFour

-----------------------------------------------------------------------------
(***************************************************************************)
(* PassFourPhaseZero: the alternatives of the AND and OR states.           *)
(***************************************************************************)
\* What is said about the literals depends on their labels only.
LEMMA LiteralsKept ==
    ASSUME KeepsLabels, UNCHANGED ORLitStates, Len(node) \in Nat \ {0}, LiteralsOK, RootOK
    PROVE  LiteralsOK' /\ RootOK'
<1>1. ASSUME NEW n \in ORLitStates
      PROVE  /\ n \in 1..Len(node') /\ Lit(n)' /\ HMapOf(n)' \in SUBSET State
             /\ node'[n].acc => AMapOf(n)' \subseteq HMapOf(n)'
  BY LabelsKept DEF KeepsLabels, LiteralsOK
<1>2. LiteralsOK'
  BY <1>1 DEF LiteralsOK
<1>3. RootOK'
  BY LabelsKept DEF KeepsLabels, RootOK
<1> QED
  BY <1>2, <1>3

LEMMA EdgeKept ==
    ASSUME KeepsLabels, UNCHANGED ORLitStates, NEW n \in 1..Len(node), NEW tr, EdgeOK(n, tr),
           \A d \in tr[2] : <<n, tr[1], d>> \in toANDLink =>
              tr[2] \subseteq ORLitStates \/ <<n, tr[1], d>> \in toANDLink'
    PROVE  EdgeOK(n, tr)'
<1>1. /\ tr[1] \in mAllSyms
      /\ tr[2] # {} /\ tr[2] \subseteq 1..Len(node)
      /\ Covers(ClassesOf(tr[2]), Pre(tr[1], AMapOf(n)), HMapOf(n))
      /\ tr[2] \subseteq ORLitStates \/ \E d \in tr[2] : <<n, tr[1], d>> \in toANDLink'
  BY DEF EdgeOK
<1>2. ClassesOf(tr[2])' = ClassesOf(tr[2]) /\ AMapOf(n)' = AMapOf(n) /\ HMapOf(n)' = HMapOf(n)
  BY <1>1, LabelsKept
<1>3. Len(node') = Len(node)
  BY DEF KeepsLabels
<1> QED
  BY <1>1, <1>2, <1>3 DEF EdgeOK

LEMMA LinkKept ==
    ASSUME KeepsLabels, UNCHANGED ORLitStates, ORLitStates \subseteq 1..Len(node),
           NEW link, LinkOK(link), phase' # "zero"
    PROVE  LinkOK(link)'
<1>1. link[1] \in 1..Len(node) /\ link[3] \in 1..Len(node)
  BY DEF LinkOK
<1>2. Len(node') = Len(node)
  BY DEF KeepsLabels
<1> QED
  BY <1>1, <1>2, LabelsKept DEF LinkOK

LEMMA ReplacedKept ==
    ASSUME KeepsLabels, UNCHANGED ORLitStates, ORLitStates \subseteq 1..Len(node),
           NEW n \in 1..Len(node), Replaced(n), node'[n].trans = node[n].trans
    PROVE  Replaced(n)'
<1>1. ASSUME NEW tr \in node[n].trans
      PROVE  /\ tr[2] # {} /\ tr[2] \subseteq ORLitStates
             /\ Covers(ClassesOf(tr[2])', AMapOf(n)', HMapOf(n)')
  <2>1. /\ tr[2] # {} /\ tr[2] \subseteq ORLitStates
        /\ Covers(ClassesOf(tr[2]), AMapOf(n), HMapOf(n))
    BY DEF Replaced
  <2> QED
    BY <2>1, LabelsKept
<1> QED
  BY <1>1 DEF Replaced

\* The types survive while the automaton has not been built.
LEMMA TypesKept ==
    ASSUME IInvFour, phase \in {"zero", "links"}, KeepsLabels,
           UNCHANGED <<ORLitStates, trueinit, falseaccepted>>,
           toANDLink' \subseteq toANDLink, phase' \in {"links", "aborted"}
    PROVE  TypeOKFour'
<1>1. trueinit = NULL /\ falseaccepted = NULL
  BY DEF IInvFour
<1>2. /\ ORLitStates \subseteq 1..Len(node)
      /\ toANDLink \subseteq ORLitStates \X mAllSyms \X (1..Len(node))
  BY DEF IInvFour, TypeOKFour
<1>3. Len(node') = Len(node)
  BY DEF KeepsLabels
<1> QED
  BY <1>1, <1>2, <1>3 DEF TypeOKFour

LEMMA PassFourPhaseZeroInv == IInvFour /\ PassFourPhaseZero => IInvFour'
<1> SUFFICES ASSUME IInvFour, PassFourPhaseZero PROVE IInvFour'
  OBVIOUS
<1>1. /\ phase = "zero" /\ phase' = "links"
      /\ UNCHANGED <<word, allStates, stack, pc, passTwoVars,
                     ORLitStates, toANDLink, afa, trueinit, falseaccepted>>
  BY DEF PassFourPhaseZero
<1>2. /\ FinishedTree /\ ORLitStates = {n \in Tree : Lit(n)}
      /\ LiteralsOK /\ RootOK /\ Over /\ TypeOKFour
      /\ node \in Seq(Node) /\ Len(node) \in Nat \ {0}
      /\ \A n \in ORLitStates : \A tr \in node[n].trans : EdgeOK(n, tr)
      /\ \A link \in toANDLink : LinkOK(link)
      /\ trueinit = NULL /\ falseaccepted = NULL
  BY <1>1 DEF IInvFour
<1>3. Tree \subseteq 1..Len(node) /\ 1 \in Tree
  BY <1>2, TreeClosed DEF FinishedTree
<1> DEFINE New(n) == {<<Eps, alt>> : alt \in Alternatives[n]}
           After(n) == IF n \in Tree /\ ~Lit(n) THEN [node[n] EXCEPT !.trans = New(n)] ELSE node[n]
<1>4. node' = [n \in 1..Len(node) |-> After(n)]
  <2>1. DOMAIN node = 1..Len(node)
    BY <1>2
  <2> QED
    BY <2>1 DEF PassFourPhaseZero
<1>5. ASSUME NEW n \in 1..Len(node)
      PROVE  /\ After(n) \in Node
             /\ After(n).amap = node[n].amap /\ After(n).hmap = node[n].hmap
             /\ After(n).acc = node[n].acc
             /\ After(n).trans = IF n \in Tree /\ ~Lit(n) THEN New(n) ELSE node[n].trans
  <2>1. node[n] \in Node
    BY <1>2 DEF FinishedTree
  <2>2. New(n) \in SUBSET ((mAllSyms \cup {Eps}) \X SUBSET Nat)
    <3>1. ASSUME NEW alt \in Alternatives[n]
          PROVE  alt \subseteq Nat
      BY <1>2, AlternativesSound DEF Stands
    <3> QED
      BY <3>1
  <2> HIDE DEF New
  <2> QED
    BY <2>1, <2>2 DEF Node
<1> HIDE DEF After
<1>6. Len(node') = Len(node) /\ \A n \in 1..Len(node) : node'[n] = After(n)
  <2>1. Len(node) \in Nat
    BY <1>2
  <2> QED
    BY <1>4, <2>1
<1>7. KeepsLabels
  <2>1. node' \in [1..Len(node) -> Node] /\ Len(node) \in Nat
    BY <1>2, <1>4, <1>5
  <2>2. node' \in Seq(Node)
    BY ONLY <2>1, SeqDef
  <2> QED
    BY <1>5, <1>6, <2>2 DEF KeepsLabels
<1>8. ORLitStates \subseteq 1..Len(node) /\ UNCHANGED ORLitStates
  BY <1>1, <1>2, <1>3
<1>9. ASSUME NEW n \in Tree, ~Lit(n)
      PROVE  Replaced(n)'
  <2>1. n \in 1..Len(node)
    BY <1>3
  <2>2. node'[n].trans = New(n)
    BY <1>5, <1>6, <1>9, <2>1
  <2>3. ASSUME NEW tr \in New(n)
        PROVE  /\ tr[2] # {} /\ tr[2] \subseteq ORLitStates
               /\ Covers(ClassesOf(tr[2])', AMapOf(n)', HMapOf(n)')
    <3>1. PICK alt \in Alternatives[n] : tr = <<Eps, alt>>
      OBVIOUS
    <3>2. Stands(alt, n) /\ tr[2] = alt
      BY <1>2, <2>1, <3>1, AlternativesSound
    <3>3. alt # {} /\ alt \subseteq ORLitStates /\ Covers(ClassesOf(alt), AMapOf(n), HMapOf(n))
      BY <1>2, <3>2 DEF Stands
    <3> QED
      BY <1>7, <1>8, <2>1, <3>2, <3>3, LabelsKept
  <2> HIDE DEF New
  <2> QED
    BY <1>8, <2>2, <2>3 DEF Replaced
<1>10. ASSUME NEW n \in ORLitStates, NEW tr \in node'[n].trans
       PROVE  EdgeOK(n, tr)'
  <2>1. n \in 1..Len(node) /\ Lit(n)
    BY <1>2, <1>3
  <2>2. tr \in node[n].trans
    BY <1>5, <1>6, <2>1
  <2>3. toANDLink' = toANDLink
    BY <1>1
  <2> QED
    BY <1>2, <1>7, <1>8, <2>1, <2>2, <2>3, EdgeKept
<1>11. ASSUME NEW link \in toANDLink
       PROVE  LinkOK(link)' /\ (~Lit(link[3])' => Replaced(link[3])')
  <2>1. LinkOK(link)'
    BY <1>1, <1>2, <1>7, <1>8, LinkKept
  <2>2. link[3] \in Tree
    BY <1>1, <1>2 DEF LinkOK
  <2> QED
    BY <1>3, <1>7, <1>9, <2>1, <2>2, LabelsKept
<1>12. ~Lit(1)' => Replaced(1)'
  BY <1>3, <1>7, <1>9, LabelsKept
<1>13. LiteralsOK' /\ RootOK'
  BY <1>2, <1>7, <1>8, LiteralsKept
<1>14. TypeOKFour'
  BY <1>1, <1>7, TypesKept
<1>15. Over'
  BY <1>1, <1>2 DEF Over, passTwoVars
<1>16. node' \in Seq(Node) /\ Len(node') \in Nat \ {0}
  BY <1>2, <1>7 DEF KeepsLabels
<1> QED
  BY <1>1, <1>2, <1>10, <1>11, <1>12, <1>13, <1>14, <1>15, <1>16 DEF IInvFour

-----------------------------------------------------------------------------
(***************************************************************************)
(* A link replaces the edges to its destination by edges to literals.      *)
(***************************************************************************)
\* The edges a literal has then.
LEMMA LinkedOK ==
    ASSUME IInvFour, phase = "links", NEW link \in toANDLink,
           NEW tr \in Linked(link[1], link[2], link[3])
    PROVE  /\ EdgeOK(link[1], tr)
           /\ tr \in (mAllSyms \cup {Eps}) \X SUBSET Nat
           /\ \A d \in tr[2] : <<link[1], tr[1], d>> = link => tr[2] \subseteq ORLitStates
<1> DEFINE src == link[1]
           s == link[2]
           dest == link[3]
<1>1. /\ \A n \in ORLitStates : \A e \in node[n].trans : EdgeOK(n, e)
      /\ LinkOK(link) /\ (~Lit(dest) => Replaced(dest))
      /\ node \in Seq(Node) /\ Len(node) \in Nat \ {0}
      /\ ORLitStates \subseteq 1..Len(node)
  BY DEF IInvFour, TypeOKFour
<1>2. /\ link = <<src, s, dest>>
      /\ src \in ORLitStates /\ s \in mAllSyms /\ dest \in 1..Len(node)
      /\ Pre(s, AMapOf(src)) \subseteq AMapOf(dest) /\ HMapOf(dest) \subseteq HMapOf(src)
      /\ Lit(dest) => dest \in ORLitStates
  BY <1>1 DEF LinkOK
<1>3. node[src] \in Node /\ node[dest] \in Node
  BY <1>1, <1>2, ElementOfSeq
<1> HIDE DEF src, s, dest
<1>4. tr \in Linked(src, s, dest)
  BY DEF src, s, dest
<1>5. CASE tr \in node[src].trans /\ ~Leads(tr, s, dest)
  <2>1. EdgeOK(src, tr)
    BY <1>1, <1>2, <1>5
  <2>2. tr \in (mAllSyms \cup {Eps}) \X SUBSET Nat
    BY <1>3, <1>5 DEF Node
  <2>3. ASSUME NEW d \in tr[2], <<src, tr[1], d>> = link
        PROVE  FALSE
    <3>1. tr[1] = s /\ d = dest
      BY <1>2, <2>3
    <3>2. Key(node[dest]) \in Keys(tr[2])
      BY <3>1 DEF Keys
    <3> QED
      BY <1>5, <3>1, <3>2 DEF Leads
  <2> QED
    BY <2>1, <2>2, <2>3 DEF src
<1>6. CASE Lit(dest) /\ tr = <<s, {dest}>>
  <2>1. tr[1] = s /\ tr[2] = {dest} /\ dest \in ORLitStates
    BY <1>2, <1>6
  <2>2. Covers(ClassesOf({dest}), AMapOf(dest), HMapOf(dest))
    <3>1. /\ ClassesOf({dest}) = {Class(dest)}
          /\ Class(dest)[1] = node[dest].amap /\ Class(dest)[2] = HMapOf(dest)
      BY DEF ClassesOf, Class, HMapOf
    <3>2. Covers({Class(dest)}, Meaning[Class(dest)[1]], Class(dest)[2])
      BY CoversSelf
    <3> QED
      BY <3>1, <3>2 DEF AMapOf
  <2>3. Covers(ClassesOf({dest}), Pre(s, AMapOf(src)), HMapOf(src))
    BY <1>2, <2>2, CoversWeaker
  <2>4. EdgeOK(src, tr) /\ tr[2] \subseteq ORLitStates
    BY <1>2, <2>1, <2>3 DEF EdgeOK
  <2>5. tr \in (mAllSyms \cup {Eps}) \X SUBSET Nat
    BY <1>2, <1>6
  <2> QED
    BY <2>4, <2>5 DEF src
<1>7. CASE ~Lit(dest) /\ \E t \in node[dest].trans : tr = <<s, t[2]>>
  <2>1. PICK t \in node[dest].trans : tr = <<s, t[2]>>
    BY <1>7
  <2>2. /\ t[2] # {} /\ t[2] \subseteq ORLitStates
        /\ Covers(ClassesOf(t[2]), AMapOf(dest), HMapOf(dest))
    BY <1>1, <1>7 DEF Replaced, dest
  <2>3. Covers(ClassesOf(t[2]), Pre(s, AMapOf(src)), HMapOf(src))
    BY <1>2, <2>2, CoversWeaker
  <2>4. tr[1] = s /\ tr[2] = t[2]
    BY <2>1
  <2>5. EdgeOK(src, tr) /\ tr[2] \subseteq ORLitStates
    BY <1>1, <1>2, <2>2, <2>3, <2>4 DEF EdgeOK
  <2>6. tr \in (mAllSyms \cup {Eps}) \X SUBSET Nat
    <3>1. t[2] \in SUBSET Nat
      BY <1>3 DEF Node
    <3> QED
      BY <1>2, <2>1, <3>1
  <2> QED
    BY <2>5, <2>6 DEF src
<1> QED
  BY <1>4, <1>5, <1>6, <1>7 DEF Linked

LEMMA LinkInv == IInvFour /\ Link => IInvFour'
<1> SUFFICES ASSUME IInvFour, Link PROVE IInvFour'
  OBVIOUS
<1>1. /\ phase = "links"
      /\ UNCHANGED <<word, allStates, stack, pc, passTwoVars,
                     ORLitStates, afa, trueinit, falseaccepted>>
  BY DEF Link
<1>2. PICK link \in toANDLink :
        \/ phase' = "aborted" /\ UNCHANGED <<node, toANDLink>>
        \/ /\ node' = [node EXCEPT ![link[1]].trans = Linked(link[1], link[2], link[3])]
           /\ toANDLink' = toANDLink \ {link}
           /\ UNCHANGED phase
  BY DEF Link
<1>3. /\ LiteralsOK /\ RootOK /\ Over
      /\ node \in Seq(Node) /\ Len(node) \in Nat \ {0}
      /\ \A n \in ORLitStates : \A tr \in node[n].trans : EdgeOK(n, tr)
      /\ \A l \in toANDLink : LinkOK(l) /\ (~Lit(l[3]) => Replaced(l[3]))
      /\ ~Lit(1) => Replaced(1)
      /\ trueinit = NULL /\ falseaccepted = NULL
      /\ ORLitStates \subseteq 1..Len(node)
  BY <1>1 DEF IInvFour, TypeOKFour
<1>4. Over'
  BY <1>1, <1>3 DEF Over, passTwoVars
<1>5. UNCHANGED ORLitStates
  BY <1>1
<1>6. CASE phase' = "aborted" /\ UNCHANGED <<node, toANDLink>>
  <2>1. KeepsLabels
    BY <1>3, <1>6 DEF KeepsLabels
  <2>2. LiteralsOK' /\ RootOK'
    BY <1>3, <1>5, <2>1, LiteralsKept
  <2>3. TypeOKFour'
    BY <1>1, <1>6, <2>1, TypesKept
  <2>4. node' \in Seq(Node) /\ Len(node') \in Nat \ {0}
    BY <1>3, <1>6
  <2> QED
    BY <1>1, <1>3, <1>4, <1>6, <2>2, <2>3, <2>4 DEF IInvFour
<1>7. CASE /\ node' = [node EXCEPT ![link[1]].trans = Linked(link[1], link[2], link[3])]
           /\ toANDLink' = toANDLink \ {link}
           /\ UNCHANGED phase
  <2> DEFINE src == link[1]
             new == Linked(link[1], link[2], link[3])
             nd == [node[src] EXCEPT !.trans = new]
  <2>1. src \in ORLitStates /\ src \in 1..Len(node) /\ Lit(src) /\ node[src] \in Node
    <3>1. src \in ORLitStates
      BY <1>3 DEF LinkOK
    <3> QED
      BY <1>3, <3>1, ElementOfSeq DEF LiteralsOK
  <2>2. new \in SUBSET ((mAllSyms \cup {Eps}) \X SUBSET Nat)
    BY <1>1, LinkedOK
  <2>3. node' = [node EXCEPT ![src] = nd]
    BY <1>7
  <2> HIDE DEF new
  <2>4. /\ nd \in Node /\ nd.amap = node[src].amap /\ nd.hmap = node[src].hmap
        /\ nd.acc = node[src].acc /\ nd.trans = new
    BY <2>1, <2>2 DEF Node
  <2> HIDE DEF nd, src
  <2>5. /\ node' \in Seq(Node) /\ Len(node') = Len(node)
        /\ node'[src] = nd /\ \A n \in 1..Len(node) : n # src => node'[n] = node[n]
    BY <1>3, <2>1, <2>3, <2>4
  <2>6. KeepsLabels
    BY <2>4, <2>5 DEF KeepsLabels
  <2>7. ASSUME NEW n \in ORLitStates, NEW tr \in node'[n].trans
        PROVE  EdgeOK(n, tr)'
    <3>1. n \in 1..Len(node)
      BY <1>3
    <3>2. CASE n = src
      <4>1. tr \in Linked(link[1], link[2], link[3]) /\ n = link[1]
        BY <2>4, <2>5, <3>2 DEF new, src
      <4>2. /\ EdgeOK(n, tr)
            /\ \A d \in tr[2] : <<n, tr[1], d>> = link => tr[2] \subseteq ORLitStates
        BY <1>1, <4>1, LinkedOK
      <4>3. \A d \in tr[2] : <<n, tr[1], d>> \in toANDLink =>
              tr[2] \subseteq ORLitStates \/ <<n, tr[1], d>> \in toANDLink'
        BY <1>7, <4>2
      <4> QED
        BY <1>5, <2>6, <3>1, <4>2, <4>3, EdgeKept
    <3>3. CASE n # src
      <4>1. tr \in node[n].trans
        BY <2>5, <3>1, <3>3
      <4>2. EdgeOK(n, tr)
        BY <1>3, <4>1
      <4>3. \A d \in tr[2] : <<n, tr[1], d>> \in toANDLink => <<n, tr[1], d>> \in toANDLink'
        BY <1>7, <3>3 DEF src
      <4> QED
        BY <1>5, <2>6, <3>1, <4>2, <4>3, EdgeKept
    <3> QED
      BY <3>2, <3>3
  <2>8. ASSUME NEW n \in 1..Len(node), ~Lit(n), Replaced(n)
        PROVE  Replaced(n)'
    <3>1. node'[n].trans = node[n].trans
      BY <2>1, <2>5, <2>8
    <3> QED
      BY <1>3, <1>5, <2>6, <2>8, <3>1, ReplacedKept
  <2>9. ASSUME NEW l \in toANDLink'
        PROVE  LinkOK(l)' /\ (~Lit(l[3])' => Replaced(l[3])')
    <3>1. LinkOK(l) /\ l[3] \in 1..Len(node) /\ (~Lit(l[3]) => Replaced(l[3]))
      BY <1>3, <1>7 DEF LinkOK
    <3>2. LinkOK(l)'
      BY <1>1, <1>3, <1>5, <1>7, <2>6, <3>1, LinkKept
    <3> QED
      BY <2>6, <2>8, <3>1, <3>2, LabelsKept
  <2>10. ~Lit(1)' => Replaced(1)'
    BY <1>3, <2>6, <2>8, LabelsKept
  <2>11. LiteralsOK' /\ RootOK'
    BY <1>3, <1>5, <2>6, LiteralsKept
  <2>12. TypeOKFour'
    BY <1>1, <1>7, <2>6, TypesKept
  <2>13. node' \in Seq(Node) /\ Len(node') \in Nat \ {0}
    BY <1>3, <2>5
  <2> QED
    BY <1>1, <1>3, <1>4, <1>7, <2>7, <2>9, <2>10, <2>11, <2>12, <2>13 DEF IInvFour
<1> QED
  BY <1>2, <1>6, <1>7

-----------------------------------------------------------------------------
(***************************************************************************)
(* The automaton.                                                          *)
(***************************************************************************)
\* A class is annotated as each of its literals is.
LEMMA ClassLabels ==
    \A n : Meaning[Class(n)[1]] = AMapOf(n) /\ Class(n)[2] = HMapOf(n)
BY DEF Class, AMapOf, HMapOf

\* What is said about an automaton does not change with the phase.
LEMMA SoundKept ==
    ASSUME UNCHANGED <<node, ORLitStates>>
    PROVE  /\ Classes' = Classes /\ States' = States
           /\ UNCHANGED trueinit /\ Sound(afa') => Sound(afa)'
<1>1. Classes' = Classes /\ States' = States /\ Class(1)' = Class(1)
  BY SameNodes DEF Classes, States, Class
<1>2. UNCHANGED trueinit /\ Sound(afa') => Sound(afa)'
  BY <1>1 DEF Sound
<1> QED
  BY <1>1, <1>2

\* The parts of the invariant that do not speak of the automaton or the links.
LEMMA RestKept ==
    ASSUME IInvFour, UNCHANGED <<vars, ORLitStates, toANDLink>>,
           phase \in {"links", "loops", "init"}
    PROVE  /\ LiteralsOK' /\ RootOK' /\ Over'
           /\ node' \in Seq(Node) /\ Len(node') \in Nat \ {0}
           /\ ORLitStates' \subseteq 1..Len(node')
           /\ toANDLink' \subseteq ORLitStates' \X mAllSyms \X (1..Len(node'))
<1>1. /\ LiteralsOK /\ RootOK /\ Over
      /\ node \in Seq(Node) /\ Len(node) \in Nat \ {0}
      /\ ORLitStates \subseteq 1..Len(node)
      /\ toANDLink \subseteq ORLitStates \X mAllSyms \X (1..Len(node))
  BY DEF IInvFour, TypeOKFour
<1>2. UNCHANGED node
  BY DEF vars, passOneVars
<1>3. LiteralsOK' /\ RootOK'
  BY <1>1, <1>2, SameNodes DEF LiteralsOK, RootOK
<1>4. Over'
  BY <1>1 DEF Over, vars, passOneVars, passTwoVars
<1> QED
  BY <1>1, <1>2, <1>3, <1>4

LEMMA EqClassesInv == IInvFour /\ EqClasses => IInvFour'
<1> SUFFICES ASSUME IInvFour, EqClasses PROVE IInvFour'
  OBVIOUS
<1> DEFINE Edges(q, s) ==
             {t \in UNION {node[n].trans : n \in {m \in ORLitStates : Class(m) = q}} : t[1] = s}
           Trans == [d \in States \X mAllSyms |-> {ClassesOf(tr[2]) : tr \in Edges(d[1], d[2])}]
           Acc == {Class(n) : n \in {m \in ORLitStates : node[m].acc}}
           Zero == IF Lit(1) THEN {} ELSE {ClassesOf(tr[2]) : tr \in node[1].trans}
           a == [mInit |-> Class(1), lit |-> Lit(1), mIsAccepted |-> Acc, zero |-> Zero,
                 mTransitions |-> Trans]
<1>1. /\ phase = "links" /\ toANDLink = {} /\ phase' = "loops"
      /\ UNCHANGED <<vars, ORLitStates, toANDLink, trueinit, falseaccepted>>
  BY DEF EqClasses
<1>2. afa' = a
  BY DEF EqClasses
<1>3. /\ LiteralsOK /\ RootOK
      /\ \A n \in ORLitStates : \A tr \in node[n].trans : EdgeOK(n, tr)
      /\ ~Lit(1) => Replaced(1)
      /\ trueinit = NULL /\ falseaccepted = NULL
  BY <1>1 DEF IInvFour
<1>4. ASSUME NEW q \in States, NEW s \in mAllSyms, NEW C \in Trans[<<q, s>>]
      PROVE  C # {} /\ C \subseteq Classes /\ Covers(C, Pre(s, Meaning[q[1]]), q[2])
  <2>1. Trans[<<q, s>>] = {ClassesOf(tr[2]) : tr \in Edges(q, s)}
    <3> DEFINE d == <<q, s>>
    <3>1. d \in States \X mAllSyms /\ d[1] = q /\ d[2] = s
      OBVIOUS
    <3> HIDE DEF d, Edges
    <3>2. Trans[d] = {ClassesOf(tr[2]) : tr \in Edges(d[1], d[2])}
      BY <3>1
    <3> HIDE DEF Trans
    <3>3. Trans[d] = {ClassesOf(tr[2]) : tr \in Edges(q, s)}
      BY <3>1, <3>2
    <3> QED
      BY <3>3 DEF d
  <2> HIDE DEF Trans
  <2>2. PICK tr \in Edges(q, s) : C = ClassesOf(tr[2])
    BY <1>4, <2>1
  <2>3. PICK n \in ORLitStates : Class(n) = q /\ tr \in node[n].trans /\ tr[1] = s
    BY <2>2
  <2>4. EdgeOK(n, tr) /\ tr[2] \subseteq ORLitStates
    BY <1>1, <1>3, <2>3 DEF EdgeOK
  <2>5. Covers(ClassesOf(tr[2]), Pre(s, AMapOf(n)), HMapOf(n)) /\ tr[2] # {}
    BY <2>3, <2>4 DEF EdgeOK
  <2>6. ClassesOf(tr[2]) # {} /\ ClassesOf(tr[2]) \subseteq Classes
    BY <2>4, <2>5 DEF ClassesOf, Classes
  <2>7. Meaning[q[1]] = AMapOf(n) /\ q[2] = HMapOf(n)
    BY <2>3, ClassLabels
  <2> QED
    BY <2>2, <2>5, <2>6, <2>7
<1>5. Trans \in [States \X mAllSyms -> SUBSET SUBSET States]
  <2>1. \A d \in States \X mAllSyms : d[1] \in States /\ d[2] \in mAllSyms /\ d = <<d[1], d[2]>>
    OBVIOUS
  <2>2. \A d \in States \X mAllSyms : Trans[d] \in SUBSET SUBSET States
    <3> HIDE DEF Trans
    <3> QED
      BY <1>4, <2>1 DEF States
  <2>3. Trans = [d \in States \X mAllSyms |-> Trans[d]]
    OBVIOUS
  <2> HIDE DEF Trans
  <2> QED
    BY <2>2, <2>3
<1>6. ASSUME NEW q \in Acc
      PROVE  q \in States /\ Meaning[q[1]] \subseteq q[2]
  <2>1. PICK n \in ORLitStates : q = Class(n) /\ node[n].acc
    OBVIOUS
  <2>2. AMapOf(n) \subseteq HMapOf(n)
    BY <1>3, <2>1 DEF LiteralsOK
  <2> QED
    BY <2>1, <2>2, ClassLabels DEF States, Classes
<1>7. ASSUME NEW C \in Zero
      PROVE  C \subseteq States /\ Covers(C, Meaning[Post], {})
  <2>1. ~Lit(1)
    OBVIOUS
  <2>2. PICK tr \in node[1].trans : C = ClassesOf(tr[2])
    BY <2>1
  <2>3. tr[2] \subseteq ORLitStates /\ Covers(ClassesOf(tr[2]), AMapOf(1), HMapOf(1))
    BY <1>3, <2>1 DEF Replaced
  <2>4. ClassesOf(tr[2]) \subseteq States
    BY <2>3 DEF ClassesOf, Classes, States
  <2> QED
    BY <1>3, <2>2, <2>3, <2>4 DEF RootOK, AMapOf
<1> HIDE DEF Trans, Acc, Zero
<1>8. /\ a.mInit = Class(1) /\ a.lit = Lit(1) /\ a.mIsAccepted = Acc /\ a.zero = Zero
      /\ a.mTransitions = Trans
  OBVIOUS
<1>9. a \in AutomatonOver(States)
  <2>1. Class(1) \in States
    BY DEF States
  <2>2. Lit(1) \in BOOLEAN
    BY DEF Lit
  <2>3. Acc \in SUBSET States
    BY <1>6
  <2>4. Zero \in SUBSET SUBSET States
    BY <1>7
  <2> QED
    BY <1>5, <2>1, <2>2, <2>3, <2>4 DEF AutomatonOver
<1> HIDE DEF a
<1>10. Sound(a)
  BY <1>4, <1>6, <1>7, <1>8 DEF Sound
<1>11. UNCHANGED node
  BY <1>1 DEF vars, passOneVars
<1>12. Classes' = Classes /\ States' = States /\ Sound(afa)'
  BY <1>1, <1>2, <1>10, <1>11, SoundKept
<1>13. afa' \in Aut(States)!Automaton'
  BY <1>2, <1>9, <1>12, AutomatonSame
<1>14. ASSUME NEW d \in DOMAIN Trans
       PROVE  {} \notin Trans[d]
  <2>1. d \in States \X mAllSyms
    BY <1>5
  <2>2. d = <<d[1], d[2]>> /\ d[1] \in States /\ d[2] \in mAllSyms
    BY <2>1
  <2> QED
    BY <1>4, <2>2
<1>15. TypeOKFour'
  BY <1>1, <1>2, <1>3, <1>8, <1>13, <1>14, RestKept DEF TypeOKFour
<1> QED
  BY <1>1, <1>2, <1>3, <1>12, <1>15, RestKept DEF IInvFour

\* A symbol on which a state gets a self loop keeps its formula.
LEMMA LoopKeeps ==
    ASSUME NEW f \in Formula, NEW s \in LoopsOn(f)
    PROVE  s \in mAllSyms /\ Pre(s, Meaning[f]) \subseteq Meaning[f]
<1> DEFINE phi == Meaning[f]
<1>1. phi \in SUBSET State
  BY FormulaAssumption
<1>2. s \in mAllSyms
  BY DEF LoopsOn, mAllSyms
<1>3. CASE f = TrueExp
  BY <1>1, <1>2, <1>3, PreType, FormulaAssumption
<1>4. CASE phi = {}
  <2>1. ASSUME NEW x \in Pre(s, phi)
        PROVE  FALSE
    <3>1. x \in State
      BY <1>1, <1>2, PreType
    <3> HIDE DEF phi
    <3> QED
      BY <1>1, <1>2, <1>4, <2>1, <3>1, PreExact
  <2> QED
    BY <1>2, <2>1
<1>5. CASE f # TrueExp /\ phi # {} /\ s \in AssumeSym
  BY <1>2, <1>5, SymAssumption DEF Pre, PreAssume
<1>6. CASE f # TrueExp /\ phi # {} /\ s \in RWSym
  <2>1. mRWLHRHMap[s].lhs \notin FreeVars[f] /\ mRWLHRHMap[s].lhs \in Var
    BY <1>6, SymAssumption, MapAssumption DEF LoopsOn
  <2>2. Independent(phi, mRWLHRHMap[s].lhs)
    BY <2>1, ShapeAssumption
  <2> HIDE DEF phi
  <2>3. Pre(s, phi) = phi
    BY <1>1, <1>6, <2>2, PreIndependent
  <2> QED
    BY <1>2, <2>3 DEF phi
<1>7. CASE f # TrueExp /\ phi # {} /\ s \in CASSym
  <2> DEFINE c == mCASLHRHMap[s]
  <2>1. c \in [ptr : Var, old : Expr, new : Expr, ret : Var]
    BY <1>7, MapAssumption
  <2>2. {c.ptr, c.ret} \cap FreeVars[f] = {}
    BY <1>7, SymAssumption DEF LoopsOn
  <2>3. Independent(phi, c.ptr) /\ Independent(phi, c.ret)
    BY <2>1, <2>2, ShapeAssumption
  <2> HIDE DEF phi
  <2>4. ASSUME NEW x \in Pre(s, phi)
        PROVE  x \in phi
    <3>1. x \in State
      BY <1>1, <1>2, PreType
    <3>2. PICK t \in phi : Step(s, x, t)
      BY <1>1, <1>2, <3>1, PreExact
    <3>3. Swaps(s, x, t)
      BY <1>7, <3>2, SymAssumption DEF Step, Assigns, Assumes
    <3> HIDE DEF c
    <3>4. c.ptr \in Var /\ c.ret \in Var /\ c.new[x] \in Val /\ 0 \in Val /\ 1 \in Val
      BY <2>1, <3>1, SymAssumption DEF Expr
    <3>5. CASE t = [x EXCEPT ![c.ptr] = c.new[x], ![c.ret] = 1]
      <4> DEFINE y == [x EXCEPT ![c.ptr] = c.new[x]]
      <4>1. y \in State /\ t = [y EXCEPT ![c.ret] = 1]
        BY <3>1, <3>4, <3>5 DEF State
      <4>2. y \in phi
        BY <2>3, <3>2, <3>4, <4>1 DEF Independent
      <4> QED
        BY <2>3, <3>1, <3>4, <4>2 DEF Independent
    <3>6. CASE t = [x EXCEPT ![c.ret] = 0]
      BY <2>3, <3>1, <3>2, <3>4, <3>6 DEF Independent
    <3> QED
      BY <3>3, <3>5, <3>6 DEF Swaps, c
  <2> QED
    BY <1>2, <2>4 DEF phi
<1> QED
  BY <1>2, <1>3, <1>4, <1>5, <1>6, <1>7 DEF mAllSyms

LEMMA SelfLoopsInv == IInvFour /\ SelfLoops => IInvFour'
<1> SUFFICES ASSUME IInvFour, SelfLoops PROVE IInvFour'
  OBVIOUS
<1> DEFINE T == afa.mTransitions
           Loop(d) == {{q} : q \in {d[1]} \cap {c \in Classes : d[2] \in LoopsOn(c[1])}}
           Trans == [d \in DOMAIN T |-> T[d] \cup Loop(d)]
<1>1. /\ phase = "loops" /\ phase' = "init"
      /\ trueinit' \in LastOf({q \in Classes : q[1] = TrueExp})
      /\ falseaccepted' \in LastOf({q \in Classes : Meaning[q[1]] = {}})
      /\ UNCHANGED <<vars, ORLitStates, toANDLink>>
  BY DEF SelfLoops
<1>2. afa' = [afa EXCEPT !.mTransitions = Trans]
  BY DEF SelfLoops
<1>3. /\ LiteralsOK /\ Sound(afa) /\ trueinit = NULL
      /\ afa \in AutomatonOver(States)
      /\ \A d \in DOMAIN T : {} \notin T[d]
      /\ node \in Seq(Node)
  BY <1>1, AutomatonSame DEF IInvFour, TypeOKFour
<1>4. DOMAIN T = States \X mAllSyms /\ T \in [States \X mAllSyms -> SUBSET SUBSET States]
  BY <1>3 DEF AutomatonOver
<1>5. ASSUME NEW q \in States, NEW s \in mAllSyms, NEW C \in Trans[<<q, s>>]
      PROVE  C # {} /\ C \subseteq States /\ Covers(C, Pre(s, Meaning[q[1]]), q[2])
  <2>1. C \in T[<<q, s>>] \/ (C = {q} /\ q \in Classes /\ s \in LoopsOn(q[1]))
    <3> DEFINE d == <<q, s>>
    <3>1. d \in DOMAIN T /\ d[1] = q /\ d[2] = s
      BY <1>4
    <3> HIDE DEF d, T
    <3>2. Trans[d] = T[d] \cup Loop(d)
      BY <3>1
    <3>3. Loop(d) = {{x} : x \in {q} \cap {c \in Classes : s \in LoopsOn(c[1])}}
      BY <3>1
    <3> HIDE DEF Trans, Loop
    <3> QED
      BY <1>5, <3>2, <3>3 DEF d
  <2>2. CASE C \in T[<<q, s>>]
    <3>1. C # {} /\ Covers(C, Pre(s, Meaning[q[1]]), q[2])
      BY <1>3, <2>2 DEF Sound
    <3>2. T[<<q, s>>] \in SUBSET SUBSET States
      <4> HIDE DEF T
      <4> QED
        BY <1>4
    <3> QED
      BY <2>2, <3>1, <3>2
  <2>3. CASE C = {q} /\ q \in Classes /\ s \in LoopsOn(q[1])
    <3>1. PICK n \in ORLitStates : q = Class(n)
      BY <2>3 DEF Classes
    <3>2. q[1] \in Formula
      <4>1. node[n] \in Node /\ q[1] = node[n].amap
        BY <1>3, <3>1, ElementOfSeq DEF LiteralsOK, Class
      <4> QED
        BY <4>1 DEF Node
    <3>3. Pre(s, Meaning[q[1]]) \subseteq Meaning[q[1]]
      BY <2>3, <3>2, LoopKeeps
    <3>4. Covers({q}, Meaning[q[1]], q[2])
      BY CoversSelf
    <3>5. Covers({q}, Pre(s, Meaning[q[1]]), q[2])
      BY <3>3, <3>4, CoversWeaker
    <3> QED
      BY <2>3, <3>5
  <2> QED
    BY <2>1, <2>2, <2>3
<1>6. DOMAIN Trans = States \X mAllSyms
  BY <1>4
<1>7. Trans \in [States \X mAllSyms -> SUBSET SUBSET States]
  <2>1. \A d \in States \X mAllSyms : d[1] \in States /\ d[2] \in mAllSyms /\ d = <<d[1], d[2]>>
    OBVIOUS
  <2>2. Trans = [d \in States \X mAllSyms |-> Trans[d]]
    BY <1>4
  <2> HIDE DEF Trans
  <2>3. \A d \in States \X mAllSyms : Trans[d] \in SUBSET SUBSET States
    BY <1>5, <2>1
  <2> QED
    BY <2>2, <2>3
<1> HIDE DEF Trans
<1>8. ASSUME NEW d \in DOMAIN Trans
      PROVE  {} \notin Trans[d]
  <2>1. d = <<d[1], d[2]>> /\ d[1] \in States /\ d[2] \in mAllSyms
    BY <1>6
  <2> QED
    BY <1>5, <2>1
<1>9. /\ afa'.mInit = afa.mInit /\ afa'.lit = afa.lit /\ afa'.mIsAccepted = afa.mIsAccepted
      /\ afa'.zero = afa.zero /\ afa'.mTransitions = Trans
      /\ afa' \in AutomatonOver(States)
  BY <1>2, <1>3, <1>7 DEF AutomatonOver
<1>10. UNCHANGED node
  BY <1>1 DEF vars, passOneVars
<1>11. Classes' = Classes /\ States' = States
  BY <1>1, <1>10, SoundKept
<1>12. trueinit' \in Classes \cup {NULL} /\ (trueinit' # NULL => trueinit'[1] = TrueExp)
  BY <1>1 DEF LastOf
<1>13. falseaccepted' \in Classes \cup {NULL}
  BY <1>1 DEF LastOf
<1>14. Sound(afa)'
  <2>1. Class(1)' = Class(1)
    BY <1>10 DEF Class
  <2>2. \A q \in States, s \in mAllSyms : \A C \in Trans[<<q, s>>] :
           C # {} /\ Covers(C, Pre(s, Meaning[q[1]]), q[2])
    BY <1>5
  <2>3. \A C \in afa.zero : Covers(C, Meaning[Post], {})
    BY <1>3 DEF Sound
  <2> QED
    BY <1>3, <1>9, <1>11, <2>1, <2>2, <2>3 DEF Sound
<1>15. TypeOKFour'
  <2>1. afa' \in Aut(States)!Automaton'
    BY <1>9, <1>11, AutomatonSame
  <2> QED
    BY <1>1, <1>8, <1>9, <1>11, <1>12, <1>13, <2>1, RestKept DEF TypeOKFour
<1> QED
  BY <1>1, <1>12, <1>14, <1>15, RestKept DEF IInvFour

LEMMA TrueInitInv == IInvFour /\ TrueInit => IInvFour'
<1> SUFFICES ASSUME IInvFour, TrueInit PROVE IInvFour'
  OBVIOUS
<1> DEFINE Zero == {{trueinit}} \cup IF afa.lit THEN {{afa.mInit}} ELSE afa.zero
<1>1. /\ phase = "init" /\ phase' = "done"
      /\ afa' = IF trueinit = NULL THEN afa ELSE [afa EXCEPT !.lit = FALSE, !.zero = Zero]
      /\ UNCHANGED <<vars, ORLitStates, toANDLink, trueinit, falseaccepted>>
  BY DEF TrueInit
<1>2. /\ Sound(afa) /\ RootOK /\ afa \in AutomatonOver(States)
      /\ \A d \in DOMAIN afa.mTransitions : {} \notin afa.mTransitions[d]
      /\ {trueinit, falseaccepted} \subseteq Classes \cup {NULL}
      /\ trueinit # NULL => trueinit[1] = TrueExp
  BY <1>1, AutomatonSame DEF IInvFour, TypeOKFour
<1>3. UNCHANGED node
  BY <1>1 DEF vars, passOneVars
<1>4. Classes' = Classes /\ States' = States
  BY <1>1, <1>3, SoundKept
<1>5. /\ afa' \in AutomatonOver(States) /\ afa'.mTransitions = afa.mTransitions
      /\ Sound(afa')
  <2>1. CASE trueinit = NULL
    BY <1>1, <1>2, <2>1
  <2>2. CASE trueinit # NULL
    <3>1. ASSUME NEW C \in Zero
          PROVE  /\ C \in SUBSET States
                 /\ Covers(C, Meaning[Post], {}) \/ (trueinit # NULL /\ C = {trueinit})
      <4>1. C = {trueinit} \/ (afa.lit /\ C = {afa.mInit}) \/ C \in afa.zero
        OBVIOUS
      <4>2. CASE C = {trueinit}
        BY <1>2, <2>2, <4>2 DEF States
      <4>3. CASE afa.lit /\ C = {afa.mInit}
        <5>1. C = {Class(1)} /\ Class(1) \in States
          BY <1>2, <4>3 DEF Sound, States
        <5>2. Covers({Class(1)}, Meaning[Class(1)[1]], Class(1)[2])
          BY CoversSelf
        <5>3. Meaning[Class(1)[1]] = Meaning[Post] /\ Class(1)[2] = {}
          BY <1>2, ClassLabels DEF RootOK, AMapOf
        <5> QED
          BY <5>1, <5>2, <5>3
      <4>4. CASE C \in afa.zero
        BY <1>2, <4>4 DEF Sound, AutomatonOver
      <4> QED
        BY <4>1, <4>2, <4>3, <4>4
    <3>2. Zero \in SUBSET SUBSET States
      BY <3>1
    <3> HIDE DEF Zero
    <3>3. /\ afa' \in AutomatonOver(States) /\ afa'.mTransitions = afa.mTransitions
          /\ afa'.mIsAccepted = afa.mIsAccepted /\ afa'.zero = Zero /\ afa'.lit = FALSE
      BY <1>1, <1>2, <2>2, <3>2 DEF AutomatonOver
    <3>4. Sound(afa')
      BY <1>2, <3>1, <3>3 DEF Sound
    <3> QED
      BY <3>3, <3>4
  <2> QED
    BY <2>1, <2>2
<1>6. Sound(afa)'
  BY <1>1, <1>3, <1>5, SoundKept
<1>7. TypeOKFour'
  <2>1. afa' \in Aut(States)!Automaton'
    BY <1>4, <1>5, AutomatonSame
  <2> QED
    BY <1>1, <1>2, <1>4, <1>5, <2>1, RestKept DEF TypeOKFour
<1> QED
  BY <1>1, <1>2, <1>6, <1>7, RestKept DEF IInvFour

LEMMA StutterFourInv == IInvFour /\ UNCHANGED allVars => IInvFour'
<1> SUFFICES ASSUME IInvFour, UNCHANGED allVars PROVE IInvFour'
  OBVIOUS
<1>1. UNCHANGED <<vars, ORLitStates, toANDLink, afa, trueinit, falseaccepted, phase>>
  BY DEF allVars, passFourVars
<1>2. UNCHANGED node
  BY <1>1 DEF vars, passOneVars
<1>3. phase = "tree" => IInvTwo'
  BY <1>1, StutterTwoInv DEF IInvFour
<1>4. Over' <=> Over
  BY <1>1 DEF Over, vars, passOneVars, passTwoVars
<1>5. (LiteralsOK' <=> LiteralsOK) /\ (RootOK' <=> RootOK)
  BY <1>1, <1>2, SameNodes DEF LiteralsOK, RootOK
<1>6. \A n, tr : EdgeOK(n, tr)' <=> EdgeOK(n, tr)
  BY <1>1, <1>2, SameNodes DEF EdgeOK
<1>7. \A link : LinkOK(link)' <=> LinkOK(link)
  BY <1>1, <1>2, SameNodes DEF LinkOK
<1>8. \A n : Replaced(n)' <=> Replaced(n)
  BY <1>1, <1>2, SameNodes DEF Replaced
<1>9. Classes' = Classes /\ States' = States /\ (Sound(afa) => Sound(afa)')
  BY <1>1, <1>2, SoundKept
<1>10. Aut(States)!Automaton' = Aut(States)!Automaton
  BY <1>9, AutomatonSame
<1>11. TypeOKFour'
  <2>1. TypeOKFour
    BY DEF IInvFour
  <2> QED
    BY <1>1, <1>2, <1>9, <1>10, <2>1 DEF TypeOKFour
<1>12. Tree' = Tree /\ (FinishedTree' <=> FinishedTree) /\ \A n : Lit(n)' <=> Lit(n)
  BY <1>2, SameNodes
<1> QED
  BY <1>1, <1>2, <1>3, <1>4, <1>5, <1>6, <1>7, <1>8, <1>9, <1>11, <1>12 DEF IInvFour

LEMMA NextFourInv == IInvFour /\ [NextFour]_allVars => IInvFour'
BY EarlierInv, ReadDeletedInv, PassFourPhaseOneInv, PassFourPhaseZeroInv, LinkInv, EqClassesInv,
   SelfLoopsInv, TrueInitInv, StutterFourInv
   DEF NextFour, PassFourNext, FinishedFour

LEMMA InductiveFour == SpecFour => []IInvFour
<1>1. InitFour => IInvFour
  BY InitFourInv
<1>2. IInvFour /\ [NextFour]_allVars => IInvFour'
  BY NextFourInv
<1> QED
  BY <1>1, <1>2, PTL DEF SpecFour

(***************************************************************************)
(* The automaton is well-formed, and what Complement assumes of its input: *)
(* no alternative is empty, and the valid and the unsatisfiable state are  *)
(* states of it (PassFourAFA.cpp:10-305, AFAut.cpp:267).                   *)
(***************************************************************************)
THEOREM TypeCorrectFour == SpecFour => []TypeOKFour
<1>1. IInvFour => TypeOKFour
  BY DEF IInvFour
<1> QED
  BY <1>1, InductiveFour, PTL

-----------------------------------------------------------------------------
(***************************************************************************)
(* What the automaton accepts.                                             *)
(***************************************************************************)
\* PreUnder is WordPre of the whole word.
LEMMA PreUnderExact ==
    ASSUME NEW w \in Seq(mAllSyms), NEW phi \in SUBSET State
    PROVE  PreUnder(w, phi) = WordPre(w, Len(w), phi)
<1> DEFINE n == Len(w)
           Body(f) == [i \in 0..n |-> IF i = 0 THEN phi ELSE Pre(w[n - i + 1], f[i - 1])]
           G == [p \in (1..n) \X SUBSET State |-> Pre(w[n - p[1] + 1], p[2])]
           P == CHOOSE f : f = Body(f)
<1>1. n \in Nat /\ \A i \in 1..n : n - i + 1 \in 1..n /\ w[n - i + 1] \in mAllSyms
  OBVIOUS
<1>2. ASSUME NEW i \in 1..n, NEW S \in SUBSET State
      PROVE  G[<<i, S>>] = Pre(w[n - i + 1], S) /\ Pre(w[n - i + 1], S) \in SUBSET State
  <2>1. Pre(w[n - i + 1], S) \in SUBSET State
    BY <1>1, PreType
  <2> HIDE DEF n
  <2> QED
    BY <2>1
<1>3. G \in [(1..n) \X SUBSET State -> SUBSET State]
  <2> HIDE DEF n
  <2>1. \A p \in (1..n) \X SUBSET State : G[p] \in SUBSET State
    BY <1>2
  <2> QED
    BY <2>1
<1>4. PICK f : Alt!IsIteration(f, SUBSET State, phi, n, G)
  <2> HIDE DEF G, n
  <2> QED
    BY <1>1, <1>3, Alt!IterationExists
<1>5. f = Body(f)
  <2>1. f \in [0..n -> SUBSET State] /\ f[0] = phi /\ \A i \in 1..n : f[i] = G[<<i, f[i-1]>>]
    BY <1>4 DEF Alt!IsIteration
  <2>2. ASSUME NEW i \in 1..n
        PROVE  f[i] = Pre(w[n - i + 1], f[i-1])
    <3> HIDE DEF G, n
    <3>1. f[i-1] \in SUBSET State
      BY <1>1, <2>1
    <3> QED
      BY <1>2, <2>1, <3>1
  <2> HIDE DEF G, n
  <2> QED
    BY <1>1, <2>1, <2>2
<1>6. P = Body(P)
  <2> HIDE DEF Body
  <2> QED
    BY <1>5
<1>7. PreUnder(w, phi) = P[n]
  BY DEF PreUnder
<1> HIDE DEF P, n, G
<1>8. P[0] = phi /\ \A i \in 1..n : P[i] = Pre(w[n - i + 1], P[i - 1])
  <2>1. 0 \in 0..n /\ \A i \in 1..n : i \in 0..n /\ i # 0
    BY <1>1
  <2> QED
    BY <1>6, <2>1
<1> DEFINE Same(i) == P[i] \in SUBSET State /\ WordPre(w, n - i, P[i]) = WordPre(w, n, phi)
           T == {i \in Nat : i <= n => Same(i)}
<1>9. Same(0)
  <2>1. n - 0 = n
    BY <1>1
  <2> QED
    BY <1>8, <2>1
<1>10. ASSUME NEW i \in Nat, i + 1 <= n, Same(i)
       PROVE  Same(i + 1)
  <2> DEFINE k == n - i
  <2>1. /\ k \in 1..n /\ i + 1 \in 1..n /\ (i + 1) - 1 = i
        /\ n - (i + 1) + 1 = k /\ n - (i + 1) = k - 1
    BY <1>1, <1>10
  <2>2. P[i + 1] = Pre(w[k], P[i])
    BY <1>8, <2>1
  <2>3. w[k] \in mAllSyms
    BY <2>1 DEF n
  <2>4. P[i + 1] \in SUBSET State
    BY <1>10, <2>2, <2>3, PreType
  <2>5. WordPre(w, k, P[i]) = WordPre(w, k - 1, Pre(w[k], P[i]))
    BY <1>10, <2>1, WordPreStep DEF n
  <2> QED
    BY <1>10, <2>1, <2>2, <2>4, <2>5
<1>11. Same(n)
  <2> HIDE DEF Same
  <2>1. 0 \in T /\ \A i \in Nat : i \in T => i + 1 \in T
    BY <1>1, <1>9, <1>10
  <2> HIDE DEF T
  <2>2. Nat \subseteq T
    BY <2>1, NatSetInduction
  <2> QED
    BY <1>1, <2>2 DEF T
<1>12. WordPre(w, n - n, P[n]) = P[n]
  <2>1. n - n = 0
    BY <1>1
  <2> QED
    BY <1>11, <2>1, WordPreZero
<1> QED
  BY <1>7, <1>11, <1>12 DEF n

LEMMA BackwardsType ==
    ASSUME NEW w \in Seq(mAllSyms)
    PROVE  /\ Backwards(w) \in Seq(mAllSyms) /\ Len(Backwards(w)) = Len(w)
           /\ \A i \in 1..Len(w) : Backwards(w)[Len(w) - i + 1] = w[i]
<1>1. \A i \in 1..Len(w) : Len(w) - i + 1 \in 1..Len(w)
  OBVIOUS
<1>2. \A i \in 1..Len(w) : w[Len(w) - i + 1] \in mAllSyms
  BY <1>1
<1>3. Backwards(w) \in [1..Len(w) -> mAllSyms] /\ Len(w) \in Nat
  BY <1>2 DEF Backwards
<1>4. Backwards(w) \in Seq(mAllSyms)
  BY ONLY <1>3, SeqDef
<1>5. Len(Backwards(w)) = Len(w)
  BY DEF Backwards
<1>6. ASSUME NEW i \in 1..Len(w)
      PROVE  Backwards(w)[Len(w) - i + 1] = w[i]
  <2>1. Len(w) - (Len(w) - i + 1) + 1 = i
    OBVIOUS
  <2> QED
    BY <1>1, <2>1 DEF Backwards
<1> QED
  BY <1>4, <1>5, <1>6

\* The AMaps of the states of the automaton are formulas.
LEMMA StateMeaning ==
    ASSUME IInvFour, phase = "done"
    PROVE  \A p \in States : Meaning[p[1]] \in SUBSET State
<1>1. LiteralsOK /\ node \in Seq(Node) /\ Len(node) \in Nat \ {0}
  BY DEF IInvFour
<1>2. ASSUME NEW p \in States
      PROVE  \E m \in 1..Len(node) : p = Class(m)
  BY <1>1 DEF States, Classes, LiteralsOK
<1>3. \A m \in 1..Len(node) : node[m] \in Node
  BY <1>1, ElementOfSeq
<1>4. \A m \in 1..Len(node) : Meaning[Class(m)[1]] \in SUBSET State
  BY <1>3, FormulaAssumption DEF Class, Node
<1> QED
  BY <1>2, <1>4

\* The states that accept a word read backwards, symbol by symbol.
LEMMA AcceptingEquations ==
    ASSUME IInvFour, phase = "done", NEW w \in Seq(mAllSyms)
    PROVE  LET A == Aut(States)!AcceptingAfter(afa, Backwards(w))
           IN  /\ A \in [0..Len(w) -> SUBSET States]
               /\ A[0] = afa.mIsAccepted
               /\ \A i \in 1..Len(w) : A[i] =
                     {p \in States : \E alt \in afa.mTransitions[<<p, w[i]>>] : alt \subseteq A[i-1]}
<1> DEFINE n == Len(w)
           A == Aut(States)!AcceptingAfter(afa, Backwards(w))
<1>1. n \in Nat /\ Len(Backwards(w)) = n
  BY BackwardsType
<1>2. afa \in AutomatonOver(States)
  BY AutomatonSame DEF IInvFour, TypeOKFour
<1>3. afa \in Alt!Automaton /\ Backwards(w) \in Seq(mAllSyms)
  BY <1>2, BackwardsType DEF Alt!Automaton, AutomatonOver
<1>4. Alt!AcceptingAfter(afa, Backwards(w)) = A
  BY DEF Alt!AcceptingAfter, Aut!AcceptingAfter
<1>5. /\ A \in [0..n -> SUBSET States]
      /\ A[0] = afa.mIsAccepted
      /\ \A i \in 1..n : A[i] =
            {p \in States : \E alt \in afa.mTransitions[<<p, Backwards(w)[n-i+1]>>] : alt \subseteq A[i-1]}
  BY <1>1, <1>3, <1>4, Alt!AcceptingAfterEquations
<1>6. \A i \in 1..n : Backwards(w)[n-i+1] = w[i]
  BY BackwardsType
<1> HIDE DEF A, n
<1> QED
  BY <1>5, <1>6 DEF A, n

\* The pre-image of the AMap of a state that accepts a prefix is in its HMap.
LEMMA AcceptingCovered ==
    ASSUME IInvFour, phase = "done", NEW w \in Seq(mAllSyms),
           NEW q \in Aut(States)!AcceptingAfter(afa, Backwards(w))[Len(w)]
    PROVE  q \in States /\ WordPre(w, Len(w), Meaning[q[1]]) \subseteq q[2]
<1> DEFINE n == Len(w)
           A == Aut(States)!AcceptingAfter(afa, Backwards(w))
<1>1. n \in Nat /\ Len(Backwards(w)) = n
  BY BackwardsType
<1>2. /\ Sound(afa) /\ afa \in AutomatonOver(States)
      /\ LiteralsOK /\ RootOK /\ node \in Seq(Node) /\ Len(node) \in Nat \ {0}
  BY AutomatonSame DEF IInvFour, TypeOKFour
<1>3. \A p \in States : Meaning[p[1]] \in SUBSET State
  BY StateMeaning
<1>4. /\ A \in [0..n -> SUBSET States]
      /\ A[0] = afa.mIsAccepted
      /\ \A i \in 1..n : A[i] =
            {p \in States : \E alt \in afa.mTransitions[<<p, w[i]>>] : alt \subseteq A[i-1]}
  BY AcceptingEquations
<1> HIDE DEF A
<1> DEFINE Good(i) == \A p \in A[i] : WordPre(w, i, Meaning[p[1]]) \subseteq p[2]
           T == {i \in Nat : i <= n => Good(i)}
<1>5. Good(0)
  <2>1. ASSUME NEW p \in A[0]
        PROVE  WordPre(w, 0, Meaning[p[1]]) \subseteq p[2]
    <3>1. p \in States /\ Meaning[p[1]] \subseteq p[2]
      BY <1>2, <1>4 DEF Sound, AutomatonOver
    <3> QED
      BY <1>3, <3>1, WordPreZero
  <2> QED
    BY <2>1
<1>6. ASSUME NEW i \in Nat, i + 1 <= n, Good(i)
      PROVE  Good(i + 1)
  <2>1. i + 1 \in 1..n /\ (i + 1) - 1 = i /\ i \in 0..Len(w) /\ w[i + 1] \in mAllSyms
    BY <1>1, <1>6
  <2>2. ASSUME NEW p \in A[i + 1]
        PROVE  WordPre(w, i + 1, Meaning[p[1]]) \subseteq p[2]
    <3>1. p \in States /\ \E alt \in afa.mTransitions[<<p, w[i + 1]>>] : alt \subseteq A[i]
      <4> HIDE DEF n, Good
      <4> QED
        BY <1>4, <2>1, <2>2
    <3>2. PICK alt \in afa.mTransitions[<<p, w[i + 1]>>] : alt \subseteq A[i]
      BY <3>1
    <3>3. Covers(alt, Pre(w[i + 1], Meaning[p[1]]), p[2])
      BY <1>2, <2>1, <3>1, <3>2 DEF Sound
    <3>4. \A r \in alt : WordPre(w, i, Meaning[r[1]]) \subseteq r[2]
      BY <1>6, <3>2
    <3>5. WordPre(w, i, Pre(w[i + 1], Meaning[p[1]])) \subseteq p[2]
      BY <2>1, <3>3, <3>4 DEF Covers
    <3>6. WordPre(w, i + 1, Meaning[p[1]]) = WordPre(w, i, Pre(w[i + 1], Meaning[p[1]]))
      BY <1>3, <2>1, <3>1, WordPreStep
    <3> QED
      BY <3>5, <3>6
  <2> QED
    BY <2>2
<1>7. Good(n)
  <2> HIDE DEF Good, n
  <2>1. 0 \in T /\ \A i \in Nat : i \in T => i + 1 \in T
    BY <1>1, <1>5, <1>6
  <2> HIDE DEF T
  <2>2. Nat \subseteq T
    BY <2>1, NatSetInduction
  <2> QED
    BY <1>1, <2>2 DEF T
<1>8. q \in A[n] /\ A[n] \subseteq States
  BY <1>1, <1>4 DEF A
<1> QED
  BY <1>7, <1>8

(***************************************************************************)
(* A class is annotated as its states were: from the states of its AMap,   *)
(* a word it accepts can be run backwards only to states of its HMap,      *)
(* whatever the order of the links, the choice of cores, and the words     *)
(* that links, merging and self loops have added (PassFourAFA.cpp:66-305). *)
(***************************************************************************)
THEOREM AnnotationsSound == SpecFour => []Annotated
<1>1. ASSUME IInvFour
      PROVE  Annotated
  <2>1. SUFFICES ASSUME phase = "done", NEW w \in Others,
                        NEW q \in Aut(States)!AcceptingAfter(afa, Backwards(w))[Len(w)]
                 PROVE  PreUnder(w, Meaning[q[1]]) \subseteq q[2]
    BY DEF Annotated, Built
  <2>2. w \in Seq(mAllSyms)
    BY OthersAssumption
  <2>3. q \in States /\ WordPre(w, Len(w), Meaning[q[1]]) \subseteq q[2]
    BY <1>1, <2>1, <2>2, AcceptingCovered
  <2>4. Meaning[q[1]] \in SUBSET State
    BY <1>1, <2>1, <2>3, StateMeaning
  <2> QED
    BY <2>2, <2>3, <2>4, PreUnderExact
<1> QED
  BY <1>1, InductiveFour, PTL

(***************************************************************************)
(* No feasible trace is accepted, unless the automaton has a valid state   *)
(* whose HMap is satisfiable: PassFour makes a valid state an initial one  *)
(* whatever its HMap is (PassFourAFA.cpp:308-333), and the run             *)
(* PassFourValid shows what then goes wrong.                               *)
(***************************************************************************)
THEOREM FeasibleNotAccepted ==
    SpecFour => []((trueinit = NULL \/ trueinit[2] = {}) => OnlyInfeasible)
<1>1. ASSUME IInvFour, trueinit = NULL \/ trueinit[2] = {}
      PROVE  OnlyInfeasible
  <2>1. SUFFICES ASSUME phase = "done", NEW w \in Others, Accepted(w)
                 PROVE  PreUnder(w, Meaning[Post]) = {}
    BY DEF OnlyInfeasible, Built
  <2>2. w \in Seq(mAllSyms) /\ Len(w) \in 0..Len(w)
    BY OthersAssumption
  <2> DEFINE accepting == Aut(States)!AcceptingAfter(afa, Backwards(w))[Len(w)]
             pre(phi) == WordPre(w, Len(w), phi)
  <2>3. \A q \in accepting : q \in States /\ pre(Meaning[q[1]]) \subseteq q[2]
    BY <1>1, <2>1, <2>2, AcceptingCovered
  <2>4. IF afa.lit THEN afa.mInit \in accepting ELSE \E alt \in afa.zero : alt \subseteq accepting
    <3>1. Len(Backwards(w)) = Len(w)
      BY <2>2, BackwardsType
    <3> QED
      BY <2>1, <3>1 DEF Accepted, Aut!AutomatonAccepts, Aut!AcceptingAfter
  <2> HIDE DEF accepting
  <2>5. Sound(afa) /\ RootOK /\ (trueinit # NULL => trueinit[1] = TrueExp)
    BY <1>1, <2>1 DEF IInvFour
  <2>6. Meaning[Post] \in SUBSET State
    BY FormulaAssumption
  <2>7. pre(Meaning[Post]) \subseteq {}
    <3>1. CASE afa.lit
      <4>1. Class(1) \in accepting
        BY <2>4, <2>5, <3>1 DEF Sound
      <4>2. Meaning[Class(1)[1]] = Meaning[Post] /\ Class(1)[2] = {}
        BY <2>5, ClassLabels DEF RootOK, AMapOf
      <4> QED
        BY <2>3, <4>1, <4>2
    <3>2. CASE ~afa.lit
      <4>1. PICK alt \in afa.zero : alt \subseteq accepting
        BY <2>4, <3>2
      <4>2. CASE Covers(alt, Meaning[Post], {})
        BY <2>2, <2>3, <4>1, <4>2 DEF Covers
      <4>3. CASE trueinit # NULL /\ alt = {trueinit}
        <5>1. pre(Meaning[trueinit[1]]) \subseteq {}
          BY <1>1, <2>3, <4>1, <4>3
        <5>2. Meaning[Post] \subseteq Meaning[trueinit[1]]
          BY <2>5, <2>6, <4>3, FormulaAssumption
        <5> HIDE DEF pre
        <5>3. pre(Meaning[Post]) \subseteq pre(Meaning[trueinit[1]])
          BY <5>2, WordPreMonotone DEF pre
        <5> QED
          BY <5>1, <5>3
      <4> QED
        BY <2>5, <4>1, <4>2, <4>3 DEF Sound
    <3> QED
      BY <3>1, <3>2
  <2>8. PreUnder(w, Meaning[Post]) = pre(Meaning[Post])
    BY <2>2, <2>6, PreUnderExact
  <2> QED
    BY <2>7, <2>8
<1> QED
  BY <1>1, InductiveFour, PTL

-----------------------------------------------------------------------------
(***************************************************************************)
(* What goes on after an accepted word.  MakeAFAutProof starts from `not   *)
(* false', a literal without variables, because every assertion of a       *)
(* thread is `false' (Program.cpp:1138-1142): the root then stays where it *)
(* is on every symbol.                                                     *)
(***************************************************************************)
\* The self loops are there to the end.
Loops ==
    phase \in {"init", "done"} =>
        \A q \in Classes : \A s \in LoopsOn(q[1]) : {q} \in afa.mTransitions[<<q, s>>]

\* A word is accepted from the root, when it is a literal, or from the valid state.
Starts ==
    phase \in {"loops", "init", "done"} /\ Lit(1) =>
        /\ afa.mInit = Class(1)
        /\ ~afa.lit => trueinit # NULL /\ afa.zero = {{trueinit}, {Class(1)}}

LEMMA LoopsStartsInit == InitFour => Loops /\ Starts /\ word \in Words
BY DEF InitFour, InitTwo, Init, Loops, Starts

LEMMA LoopsStartsKept ==
    ASSUME IInvFour, Loops, Starts, word \in Words, [NextFour]_allVars
    PROVE  Loops' /\ Starts' /\ (word \in Words)'
<1>1. CASE UNCHANGED allVars
  <2>1. UNCHANGED <<node, ORLitStates, afa, trueinit, phase>>
    BY <1>1 DEF allVars, passFourVars, vars, passOneVars
  <2>2. Classes' = Classes /\ Class(1)' = Class(1) /\ (Lit(1)' <=> Lit(1))
    BY <2>1, SameNodes DEF Classes
  <2>3. UNCHANGED word
    BY <1>1 DEF allVars, vars, passOneVars
  <2> QED
    BY <2>1, <2>2, <2>3 DEF Loops, Starts, LoopsOn
<1>2. CASE Earlier
  <2>1. phase = "tree" /\ IInvTwo
    BY <1>2, OverStops DEF Earlier, IInvFour
  <2>2. phase' = "tree"
    BY <1>2, <2>1 DEF Earlier, passFourVars
  <2>3. (word \in Words)'
    BY <1>2, <2>1, ProgressInv DEF Earlier, IInvTwo, IInv, TypeOK
  <2> QED
    BY <2>2, <2>3 DEF Loops, Starts
<1>3. CASE ReadDeleted \/ PassFourPhaseOne \/ PassFourPhaseZero \/ Link
  <2>1. phase' \notin {"loops", "init", "done"}
    BY <1>3 DEF ReadDeleted, PassFourPhaseOne, PassFourPhaseZero, Link
  <2>2. UNCHANGED word
    BY <1>3 DEF ReadDeleted, PassFourPhaseOne, PassFourPhaseZero, Link, vars, passOneVars
  <2> QED
    BY <2>1, <2>2 DEF Loops, Starts
<1>4. CASE EqClasses
  <2>1. phase' = "loops" /\ UNCHANGED <<word, node>> /\ afa'.mInit = Class(1) /\ afa'.lit = Lit(1)
    BY <1>4 DEF EqClasses, vars, passOneVars
  <2>2. Class(1)' = Class(1) /\ (Lit(1)' <=> Lit(1))
    BY <2>1, SameNodes
  <2> QED
    BY <2>1, <2>2 DEF Loops, Starts
<1>5. CASE SelfLoops
  <2> DEFINE Looped(d) == afa.mTransitions[d]
                 \cup {{q} : q \in {d[1]} \cap {c \in Classes : d[2] \in LoopsOn(c[1])}}
  <2>1. /\ phase = "loops" /\ phase' = "init"
        /\ UNCHANGED <<vars, ORLitStates>> /\ trueinit = NULL
    BY <1>5 DEF SelfLoops, IInvFour
  <2>2. UNCHANGED <<word, node>>
    BY <2>1 DEF vars, passOneVars
  <2>3. Classes' = Classes /\ Class(1)' = Class(1) /\ (Lit(1)' <=> Lit(1))
    BY <2>1, <2>2, SameNodes DEF Classes
  <2>4. afa \in AutomatonOver(States)
    BY <2>1, AutomatonSame DEF IInvFour, TypeOKFour
  <2>5. /\ afa'.mInit = afa.mInit /\ afa'.lit = afa.lit /\ afa'.zero = afa.zero
        /\ afa'.mTransitions = [d \in States \X mAllSyms |-> Looped(d)]
    BY <1>5, <2>4 DEF SelfLoops, AutomatonOver
  <2>6. ASSUME NEW q \in Classes, NEW s \in LoopsOn(q[1])
        PROVE  {q} \in afa'.mTransitions[<<q, s>>]
    <3>1. <<q, s>> \in States \X mAllSyms
      BY DEF LoopsOn, States, mAllSyms
    <3>2. {q} \in Looped(<<q, s>>)
      OBVIOUS
    <3> HIDE DEF Looped
    <3> QED
      BY <2>5, <3>1, <3>2
  <2>7. Loops'
    BY <2>3, <2>6 DEF Loops, LoopsOn
  <2>8. Starts'
    BY <2>1, <2>3, <2>5 DEF Starts
  <2> QED
    BY <2>2, <2>7, <2>8
<1>6. CASE TrueInit
  <2>1. /\ phase = "init" /\ phase' = "done"
        /\ UNCHANGED <<vars, ORLitStates, trueinit>>
        /\ afa' = IF trueinit = NULL THEN afa
                  ELSE [afa EXCEPT !.lit = FALSE,
                                   !.zero = {{trueinit}} \cup IF afa.lit THEN {{afa.mInit}} ELSE @]
    BY <1>6 DEF TrueInit
  <2>2. UNCHANGED <<word, node>>
    BY <2>1 DEF vars, passOneVars
  <2>3. Classes' = Classes /\ Class(1)' = Class(1) /\ (Lit(1)' <=> Lit(1))
    BY <2>1, <2>2, SameNodes DEF Classes
  <2>4. afa \in AutomatonOver(States)
    BY <2>1, AutomatonSame DEF IInvFour, TypeOKFour
  <2>5. afa'.mTransitions = afa.mTransitions /\ afa'.mInit = afa.mInit
    BY <2>1, <2>4 DEF AutomatonOver
  <2>6. Loops'
    BY <2>1, <2>3, <2>5 DEF Loops, LoopsOn
  <2>7. CASE trueinit = NULL
    BY <2>1, <2>2, <2>3, <2>6, <2>7 DEF Starts
  <2>8. CASE trueinit # NULL
    <3>1. afa'.zero = {{trueinit}} \cup IF afa.lit THEN {{afa.mInit}} ELSE afa.zero
      BY <2>1, <2>4, <2>8 DEF AutomatonOver
    <3>2. Lit(1) => afa'.zero = {{trueinit}, {Class(1)}}
      BY <2>1, <3>1 DEF Starts
    <3> QED
      BY <2>1, <2>2, <2>3, <2>5, <2>6, <2>8, <3>2 DEF Starts
  <2> QED
    BY <2>2, <2>7, <2>8
<1>7. CASE FinishedFour
  BY <1>1, <1>7 DEF FinishedFour
<1> QED
  BY <1>1, <1>2, <1>3, <1>4, <1>5, <1>6, <1>7 DEF NextFour, PassFourNext

LEMMA LoopsStartsAlways == SpecFour => [](Loops /\ Starts /\ word \in Words)
<1>1. InitFour => Loops /\ Starts /\ word \in Words
  BY LoopsStartsInit
<1>2. IInvFour /\ (Loops /\ Starts /\ word \in Words) /\ [NextFour]_allVars
        => (Loops /\ Starts /\ word \in Words)'
  BY LoopsStartsKept
<1> QED
  BY <1>1, <1>2, InductiveFour, PTL DEF SpecFour

\* The states that accept a word do not depend on what follows it.
LEMMA AcceptingSamePrefix ==
    ASSUME IInvFour, phase = "done", NEW w \in Seq(mAllSyms), NEW a \in mAllSyms
    PROVE  Aut(States)!AcceptingAfter(afa, Backwards(Append(w, a)))[Len(w)]
             = Aut(States)!AcceptingAfter(afa, Backwards(w))[Len(w)]
<1> DEFINE n == Len(w)
           wa == Append(w, a)
           A == Aut(States)!AcceptingAfter(afa, Backwards(w))
           B == Aut(States)!AcceptingAfter(afa, Backwards(wa))
           Same(i) == B[i] = A[i]
           T == {i \in Nat : i <= n => Same(i)}
<1>1. /\ n \in Nat /\ wa \in Seq(mAllSyms) /\ Len(wa) = n + 1
      /\ \A i \in 1..n : wa[i] = w[i] /\ i \in 1..Len(wa)
  OBVIOUS
<1>2. /\ A[0] = afa.mIsAccepted
      /\ \A i \in 1..n : A[i] =
            {p \in States : \E alt \in afa.mTransitions[<<p, w[i]>>] : alt \subseteq A[i-1]}
  BY AcceptingEquations
<1>3. /\ B[0] = afa.mIsAccepted
      /\ \A i \in 1..Len(wa) : B[i] =
            {p \in States : \E alt \in afa.mTransitions[<<p, wa[i]>>] : alt \subseteq B[i-1]}
  <2> HIDE DEF wa
  <2> QED
    BY <1>1, AcceptingEquations
<1> HIDE DEF A, B, wa, n
<1>4. Same(0)
  BY <1>2, <1>3
<1>5. ASSUME NEW i \in Nat, i + 1 <= n, Same(i)
      PROVE  Same(i + 1)
  <2> HIDE DEF Same
  <2>1. i + 1 \in 1..n /\ i + 1 \in 1..Len(wa) /\ (i + 1) - 1 = i /\ wa[i + 1] = w[i + 1]
    BY <1>1, <1>5
  <2>2. A[i + 1] = {p \in States : \E alt \in afa.mTransitions[<<p, w[i + 1]>>] : alt \subseteq A[i]}
    BY <1>2, <2>1
  <2>3. B[i + 1] = {p \in States : \E alt \in afa.mTransitions[<<p, w[i + 1]>>] : alt \subseteq B[i]}
    BY <1>3, <2>1
  <2> QED
    BY <1>5, <2>2, <2>3 DEF Same
<1>6. 0 \in T /\ \A i \in Nat : i \in T => i + 1 \in T
  <2> HIDE DEF Same
  <2> QED
    BY <1>1, <1>4, <1>5
<1> HIDE DEF T
<1>7. Nat \subseteq T
  BY <1>6, NatSetInduction
<1> QED
  BY <1>1, <1>7 DEF T, A, B, n, wa

-----------------------------------------------------------------------------
(***************************************************************************)
(* A word that goes on after an accepted one is accepted, for every trace  *)
(* and the condition `not false' that the code always starts from          *)
(* (Program.cpp:1138-1142, SafetyVerificationPass.cpp:77).                 *)
(***************************************************************************)
THEOREM AcceptedGoesOn ==
    ASSUME mType[Post] = "ORLit", FreeVars[Post] = {}
    PROVE  SpecFour => []GoesOn
<1>1. ASSUME IInvFour, Loops, Starts, word \in Words
      PROVE  GoesOn
  <2>1. SUFFICES ASSUME phase = "done", NEW w \in Others \cup {word}, NEW a \in mAllSyms, Accepted(w)
                 PROVE  Accepted(Append(w, a))
    BY DEF GoesOn, Built
  <2>2. w \in Seq(mAllSyms)
    <3>1. word \in Seq(mAllSyms)
      BY <1>1, WordAssumption
    <3> QED
      BY <3>1, OthersAssumption
  <2> DEFINE n == Len(w)
             wa == Append(w, a)
             A == Aut(States)!AcceptingAfter(afa, Backwards(w))[n]
             B == Aut(States)!AcceptingAfter(afa, Backwards(wa))
  <2>3. n \in Nat /\ wa \in Seq(mAllSyms) /\ Len(wa) = n + 1 /\ wa[n + 1] = a
    BY <2>2
  <2>4. B[n] = A
    BY <1>1, <2>1, <2>2, AcceptingSamePrefix
  <2>5. B[n + 1] = {p \in States : \E alt \in afa.mTransitions[<<p, a>>] : alt \subseteq B[n]}
    <3>1. \A i \in 1..Len(wa) : B[i] =
             {p \in States : \E alt \in afa.mTransitions[<<p, wa[i]>>] : alt \subseteq B[i-1]}
      <4> HIDE DEF wa
      <4> QED
        BY <1>1, <2>1, <2>3, AcceptingEquations
    <3>2. n + 1 \in 1..Len(wa) /\ (n + 1) - 1 = n
      BY <2>3
    <3> HIDE DEF B, wa, n
    <3> QED
      BY <2>3, <3>1, <3>2
  <2>6. \A q \in Classes : {q} \in afa.mTransitions[<<q, a>>] /\ q \in A => q \in B[n + 1]
    <3> HIDE DEF A, B, n
    <3> QED
      BY <2>4, <2>5 DEF States
  <2>7. /\ IF afa.lit THEN afa.mInit \in A ELSE \E alt \in afa.zero : alt \subseteq A
        /\ Len(Backwards(w)) = n /\ Len(Backwards(wa)) = n + 1
    <3>1. Len(Backwards(w)) = n /\ Len(Backwards(wa)) = n + 1
      <4> HIDE DEF wa
      <4> QED
        BY <2>2, <2>3, BackwardsType
    <3> QED
      BY <2>1, <3>1 DEF Accepted, Aut!AutomatonAccepts, Aut!AcceptingAfter
  <2>8. RootOK /\ (trueinit # NULL => trueinit \in Classes /\ trueinit[1] = TrueExp)
    BY <1>1, <2>1 DEF IInvFour, TypeOKFour
  <2>9. Lit(1) /\ Class(1) \in Classes /\ Class(1)[1] = Post
    BY <2>8 DEF RootOK, Lit, Class, Classes
  <2>10. a \in LoopsOn(Post) /\ a \in LoopsOn(TrueExp)
    BY DEF LoopsOn, mAllSyms
  <2>11. \A q \in Classes : a \in LoopsOn(q[1]) => {q} \in afa.mTransitions[<<q, a>>]
    BY <1>1, <2>1 DEF Loops
  <2>12. Class(1) \in A => Class(1) \in B[n + 1]
    BY <2>6, <2>9, <2>10, <2>11
  <2>13. trueinit # NULL /\ trueinit \in A => trueinit \in B[n + 1]
    BY <2>6, <2>8, <2>10, <2>11
  <2>14. afa.mInit = Class(1) /\ (~afa.lit => trueinit # NULL /\ afa.zero = {{trueinit}, {Class(1)}})
    BY <1>1, <2>1, <2>9 DEF Starts
  <2>15. IF afa.lit THEN afa.mInit \in B[n + 1] ELSE \E alt \in afa.zero : alt \subseteq B[n + 1]
    <3> HIDE DEF A, B, n
    <3> QED
      BY <2>7, <2>12, <2>13, <2>14
  <2> QED
    BY <2>7, <2>15 DEF Accepted, Aut!AutomatonAccepts, Aut!AcceptingAfter
<1> QED
  BY <1>1, InductiveFour, LoopsStartsAlways, PTL
=============================================================================
