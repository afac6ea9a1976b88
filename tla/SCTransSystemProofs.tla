---------------------------- MODULE SCTransSystemProofs ----------------------------
(***************************************************************************)
(* Proofs about Program and SCTransSystem: for every module, every choice  *)
(* FindInstruction has and every bound on the length, the numbers and      *)
(* nodes are in range, the symbols of threads and assertions are apart,    *)
(* and the automaton BuildSCTS returns has exactly the interleavings that  *)
(* violate an assertion; and the graph of a function has exactly its       *)
(* instruction sequences.                                                  *)
(*                                                                         *)
(* First the parser (IInvParse), then the operators the construction uses: *)
(* what Parallel reaches, that it is the shuffle of the threads, and that  *)
(* Deterministic does not change a deterministic generator; then the       *)
(* invariant of the construction (IInvSC), and the words; last the         *)
(* instructions of a function, followed to the nodes and edges (IInvPaths).*)
(***************************************************************************)
EXTENDS SCTransSystem, FiniteSetTheorems, SequenceTheorems, TLAPS

\* Induction and iteration over the natural numbers.
Nats == INSTANCE AlternatingProofs WITH GenState <- {}, AFAState <- {}, mAllSyms <- {}

(***************************************************************************)
(* The tables of the instructions.  A number belongs to one entry of the   *)
(* map, so to one thread, and stays what it is as the tables grow.         *)
(***************************************************************************)
Instr == {"kAssign", "cas", "kAssume"} \X Expr \X BOOLEAN
Entry == Name \X Instr \X Nat
Table == [list : Seq(Instr), map : SUBSET Entry, nums : Seq(Nat)]

TablesOK(list, map) ==
    /\ list \in Seq(Instr)
    /\ map \in SUBSET Entry
    /\ \A e \in map : e[3] < Len(list) /\ list[e[3] + 1] = e[2]
    /\ \A d, e \in map : d[3] = e[3] => d = e

Grows(list1, map1, list2, map2) ==
    /\ Len(list1) <= Len(list2)
    /\ \A k \in 1..Len(list1) : list2[k] = list1[k]
    /\ map1 \subseteq map2

\* What has been established once the first k instructions have numbers.
NumberedSoFar(t, insts, k) ==
    /\ t \in Table
    /\ TablesOK(t.list, t.map)
    /\ Grows(inst_list_, inst_map_, t.list, t.map)
    /\ Len(t.nums) = k
    /\ \A j \in 1..k : <<thread_name, insts[j], t.nums[j]>> \in t.map

\* Tables that grow twice have grown.
LEMMA GrowsTransitive ==
    ASSUME NEW l1 \in Seq(Instr), NEW l2 \in Seq(Instr), NEW l3 \in Seq(Instr),
           NEW m1, NEW m2, NEW m3, Grows(l1, m1, l2, m2), Grows(l2, m2, l3, m3)
    PROVE  Grows(l1, m1, l3, m3)
BY DEF Grows

\* One more instruction gets a number.
LEMMA InsertFacts ==
    ASSUME NEW insts \in Seq(Instr), NEW k \in Nat, k + 1 \in 1..Len(insts),
           thread_name \in Name, inst_list_ \in Seq(Instr),
           NEW t, NumberedSoFar(t, insts, k), NEW n \in FindInstruction(t, insts[k + 1])
    PROVE  NumberedSoFar(Insert(t, insts[k + 1], n), insts, k + 1)
<1> DEFINE inst == insts[k + 1]
           nu == thread_name
           u == Insert(t, inst, n)
<1>1. inst \in Instr /\ nu \in Name
  OBVIOUS
<1>2. t \in Table /\ t.list \in Seq(Instr) /\ t.map \in SUBSET Entry /\ t.nums \in Seq(Nat)
  BY DEF NumberedSoFar, Table
<1>3. \/ n = Len(t.list)
      \/ <<nu, inst, n>> \in t.map /\ n < Len(t.list) /\ n \in Nat
  <2>1. n = Len(t.list) \/ \E m \in t.map : m[1] = nu /\ m[2] = inst /\ m[3] = n
    BY DEF FindInstruction
  <2>2. ASSUME NEW m \in t.map
        PROVE  m = <<m[1], m[2], m[3]>> /\ m[3] < Len(t.list) /\ m[3] \in Nat
    BY <1>2 DEF Entry, NumberedSoFar, TablesOK
  <2>3. CASE \E m \in t.map : m[1] = nu /\ m[2] = inst /\ m[3] = n
    <3>1. PICK m \in t.map : m[1] = nu /\ m[2] = inst /\ m[3] = n
      BY <2>3
    <3> HIDE DEF nu, inst
    <3> QED
      BY <2>2, <3>1
  <2> QED
    BY <2>1, <2>3
<1>4. Len(t.nums) = k /\ \A j \in 1..k : <<nu, insts[j], t.nums[j]>> \in t.map
  BY DEF NumberedSoFar
<1>5. TablesOK(t.list, t.map) /\ Grows(inst_list_, inst_map_, t.list, t.map)
  BY DEF NumberedSoFar
<1> HIDE DEF nu, inst
<1>6. u.nums = Append(t.nums, n)
  BY DEF Insert
<1>7. CASE n = Len(t.list)
  <2>1. u.list = Append(t.list, inst) /\ u.map = t.map \cup {<<nu, inst, n>>}
    BY <1>7 DEF Insert, nu
  <2>2. u \in Table
    BY <1>1, <1>2, <1>6, <1>7, <2>1 DEF Insert, Table, Entry, nu
  <2>3. n \in Nat /\ n + 1 = Len(u.list) /\ u.list[n + 1] = inst
    BY <1>1, <1>2, <1>7, <2>1
  <2>4. \A e \in t.map : /\ e[3] < Len(t.list) /\ e[3] + 1 \in 1..Len(t.list)
                         /\ u.list[e[3] + 1] = e[2]
    BY <1>1, <1>2, <1>5, <2>1 DEF TablesOK, Entry
  <2>5. TablesOK(u.list, u.map)
    <3>1. u.list \in Seq(Instr) /\ u.map \in SUBSET Entry
      BY <2>2 DEF Table
    <3>2. ASSUME NEW e \in u.map
          PROVE  e[3] < Len(u.list) /\ u.list[e[3] + 1] = e[2]
      <4>1. CASE e \in t.map
        BY <1>2, <2>3, <2>4, <4>1, <1>7 DEF Entry
      <4>2. CASE e = <<nu, inst, n>>
        BY <2>3, <4>2
      <4> QED
        BY <2>1, <4>1, <4>2
    <3>3. ASSUME NEW d \in u.map, NEW e \in u.map, d[3] = e[3]
          PROVE  d = e
      <4> DEFINE new == <<nu, inst, n>>
      <4>1. new[3] = n
        OBVIOUS
      <4>2. \A x \in t.map : x[3] # n
        BY <1>2, <1>7, <2>4 DEF Entry
      <4>3. CASE d \in t.map /\ e \in t.map
        BY <1>5, <3>3, <4>3 DEF TablesOK
      <4> QED
        BY <2>1, <3>3, <4>1, <4>2, <4>3
    <3> QED
      BY <3>1, <3>2, <3>3 DEF TablesOK
  <2>6. Grows(inst_list_, inst_map_, u.list, u.map)
    BY <1>1, <1>2, <1>5, <2>1 DEF Grows
  <2>7. Len(u.nums) = k + 1
    BY <1>2, <1>4, <1>6, <2>3
  <2>8. ASSUME NEW j \in 1..(k + 1)
        PROVE  <<nu, insts[j], u.nums[j]>> \in u.map
    <3>1. CASE j = k + 1
      BY <1>2, <1>4, <1>6, <2>1, <2>3, <3>1 DEF inst
    <3>2. CASE j \in 1..k
      BY <1>2, <1>4, <1>6, <2>1, <2>3, <3>2
    <3> QED
      BY <3>1, <3>2
  <2> QED
    BY <2>2, <2>5, <2>6, <2>7, <2>8 DEF NumberedSoFar, nu, inst
<1>8. CASE n # Len(t.list)
  <2>1. u.list = t.list /\ u.map = t.map
    BY <1>8 DEF Insert
  <2>2. n \in Nat /\ <<nu, inst, n>> \in t.map
    BY <1>3, <1>8
  <2>3. u \in Table
    BY <1>1, <1>2, <1>6, <2>1, <2>2 DEF Insert, Table
  <2>7. Len(u.nums) = k + 1
    BY <1>2, <1>4, <1>6, <2>2
  <2>8. ASSUME NEW j \in 1..(k + 1)
        PROVE  <<nu, insts[j], u.nums[j]>> \in u.map
    <3>1. CASE j = k + 1
      <4>1. u.nums[j] = n /\ insts[j] = inst
        BY <1>2, <1>4, <1>6, <2>2, <3>1 DEF inst
      <4> QED
        BY <2>1, <2>2, <4>1
    <3>2. CASE j \in 1..k
      BY <1>2, <1>4, <1>6, <2>1, <2>2, <3>2
    <3> QED
      BY <3>1, <3>2
  <2> QED
    BY <1>5, <2>1, <2>3, <2>7, <2>8 DEF NumberedSoFar, nu, inst
<1> QED
  BY <1>7, <1>8

\* The equations of Numbered.
LEMMA NumberedEquations ==
    ASSUME NEW insts \in Seq(Instr), thread_name \in Name,
           inst_list_ \in Seq(Instr), inst_map_ \in SUBSET Entry
    PROVE  \E N : /\ N[0] = {Tables}
                  /\ \A k \in 1..Len(insts) : N[k] =
                        UNION {{Insert(t, insts[k], n) : n \in FindInstruction(t, insts[k])} :
                                  t \in N[k-1]}
                  /\ Numbered(insts) = N[Len(insts)]
<1> DEFINE n == Len(insts)
           After(k, X) == UNION {{Insert(t, insts[k], m) : m \in FindInstruction(t, insts[k])} : t \in X}
           Body(f) == [k \in 0..n |-> IF k = 0 THEN {Tables} ELSE After(k, f[k-1])]
           G == [p \in (1..n) \X SUBSET Table |-> After(p[1], p[2])]
<1>1. n \in Nat /\ {Tables} \in SUBSET Table
  <2>1. <<>> \in Seq(Nat)
    OBVIOUS
  <2> QED
    BY <2>1 DEF Tables, Table
<1>2. ASSUME NEW k \in 1..n, NEW X \in SUBSET Table
      PROVE  After(k, X) \in SUBSET Table
  <2>1. ASSUME NEW t \in X, NEW m \in FindInstruction(t, insts[k])
        PROVE  Insert(t, insts[k], m) \in Table
    <3>1. t \in Table /\ insts[k] \in Instr
      OBVIOUS
    <3>2. t.list \in Seq(Instr) /\ t.map \in SUBSET Entry /\ t.nums \in Seq(Nat)
      BY <3>1 DEF Table
    <3>3. m \in Nat
      <4>1. m = Len(t.list) \/ \E e \in t.map : m = e[3]
        BY DEF FindInstruction
      <4> QED
        BY <3>2, <4>1 DEF Entry
    <3>4. Append(t.list, insts[k]) \in Seq(Instr) /\ Append(t.nums, m) \in Seq(Nat)
      BY <3>1, <3>2, <3>3
    <3>5. <<thread_name, insts[k], m>> \in Entry
      BY <3>1, <3>3 DEF Entry
    <3> QED
      BY <3>2, <3>4, <3>5 DEF Insert, Table
  <2> QED
    BY <2>1
<1>3. G \in [(1..n) \X SUBSET Table -> SUBSET Table]
  <2> HIDE DEF After, n
  <2> QED
    BY <1>2
<1>4. PICK f : Nats!IsIteration(f, SUBSET Table, {Tables}, n, G)
  <2> HIDE DEF G, After, n
  <2> QED
    BY <1>1, <1>3, Nats!IterationExists
<1>5. ASSUME NEW k \in 1..n
      PROVE  f[k] = After(k, f[k-1])
  <2>1. f[k-1] \in SUBSET Table /\ f[k] = G[<<k, f[k-1]>>]
    <3> HIDE DEF G, n
    <3> QED
      BY <1>1, <1>4 DEF Nats!IsIteration
  <2> HIDE DEF After, n
  <2> QED
    BY <2>1
<1>6. f = Body(f)
  <2> HIDE DEF G, After
  <2> QED
    BY <1>1, <1>4, <1>5 DEF Nats!IsIteration
<1> DEFINE N == CHOOSE g : g = Body(g)
<1>7. N = Body(N)
  <2> HIDE DEF Body
  <2> QED
    BY <1>6
<1>8. N[0] = {Tables}
  <2> HIDE DEF N, After
  <2> QED
    BY <1>1, <1>7
<1>9. ASSUME NEW k \in 1..n
      PROVE  N[k] = After(k, N[k-1])
  <2>1. k \in 0..n /\ k # 0
    BY <1>1
  <2> HIDE DEF N, After, n
  <2> QED
    BY <1>7, <2>1
<1>10. Numbered(insts) = N[n]
  BY DEF Numbered
<1> QED
  <2> HIDE DEF N
  <2> QED
    BY <1>8, <1>9, <1>10

\* Whatever the lookups return, every instruction of the sequence has a number
\* of the current thread, and the other entries stay.
LEMMA NumberedFacts ==
    ASSUME NEW insts \in Seq(Instr), thread_name \in Name,
           TablesOK(inst_list_, inst_map_), NEW t \in Numbered(insts)
    PROVE  NumberedSoFar(t, insts, Len(insts))
<1>1. inst_list_ \in Seq(Instr) /\ inst_map_ \in SUBSET Entry
  BY DEF TablesOK
<1>2. PICK N : /\ N[0] = {Tables}
               /\ \A k \in 1..Len(insts) : N[k] =
                     UNION {{Insert(x, insts[k], n) : n \in FindInstruction(x, insts[k])} :
                               x \in N[k-1]}
               /\ Numbered(insts) = N[Len(insts)]
  BY <1>1, NumberedEquations
<1> DEFINE S == {k \in Nat : k <= Len(insts) => \A x \in N[k] : NumberedSoFar(x, insts, k)}
<1>3. 0 \in S
  <2>1. Tables.list = inst_list_ /\ Tables.map = inst_map_ /\ Tables.nums = <<>>
    BY DEF Tables
  <2>2. Tables \in Table
    BY <1>1 DEF Tables, Table
  <2>3. Grows(inst_list_, inst_map_, inst_list_, inst_map_)
    BY <1>1 DEF Grows
  <2>4. NumberedSoFar(Tables, insts, 0)
    BY <2>1, <2>2, <2>3 DEF NumberedSoFar
  <2> QED
    BY <1>2, <2>4
<1>4. ASSUME NEW k \in Nat, k \in S
      PROVE  k + 1 \in S
  <2>1. SUFFICES ASSUME k + 1 <= Len(insts), NEW x \in N[k + 1]
                 PROVE  NumberedSoFar(x, insts, k + 1)
    OBVIOUS
  <2>2. k + 1 \in 1..Len(insts) /\ k + 1 - 1 = k
    BY <2>1
  <2>3. PICK y \in N[k] :
         \E n \in FindInstruction(y, insts[k + 1]) : x = Insert(y, insts[k + 1], n)
    BY <1>2, <2>2
  <2>4. NumberedSoFar(y, insts, k)
    BY <1>4, <2>1
  <2> QED
    BY <1>1, <2>2, <2>3, <2>4, InsertFacts
<1>5. Nat \subseteq S
  <2> HIDE DEF S
  <2> QED
    BY <1>3, <1>4, Nats!NatSetInduction
<1> QED
  BY <1>2, <1>5

-----------------------------------------------------------------------------
(***************************************************************************)
(* The nodes of a graph: every block that is built has an interval of its  *)
(* own, after 0, 1 and 2.                                                  *)
(***************************************************************************)
BasicBlock ==
    [has_phi : BOOLEAN, has_branch : BOOLEAN, is_accepting : BOOLEAN,
     inst : Seq(Nat), branch_map : SUBSET (Nat \X Nat), phi_map : SUBSET (Nat \X Nat)]

BlockOK(bb, n) ==
    /\ bb \in BasicBlock
    /\ IsFiniteSet(bb.phi_map)
    /\ \A e \in bb.branch_map : e[2] \in 1..n
    /\ \A d, e \in bb.branch_map : d[1] = e[1] => d = e

BlocksOK(BB) ==
    /\ BB \in Seq(BasicBlock)
    /\ BB # <<>>
    /\ \A b \in 1..Len(BB) : BlockOK(BB[b], Len(BB))

\* The first node after those of a block.
Stop(BB, b) == Start(BB, b) + (IF Built(BB[b]) THEN Size(BB[b]) ELSE 0)

\* The phi map of a block is finite, and no smaller than the set of its blocks.
LEMMA IncomingFinite ==
    ASSUME NEW bb \in BasicBlock, IsFiniteSet(bb.phi_map)
    PROVE  /\ IsFiniteSet(Incoming(bb)) /\ Incoming(bb) \subseteq Nat
           /\ Cardinality(Incoming(bb)) \in Nat /\ Cardinality(bb.phi_map) \in Nat
           /\ Cardinality(Incoming(bb)) <= Cardinality(bb.phi_map)
<1> DEFINE f == [p \in bb.phi_map |-> p[1]]
<1>1. f \in Surjection(bb.phi_map, Incoming(bb))
  BY DEF Surjection, Incoming
<1>2. IsFiniteSet(Incoming(bb)) /\ Cardinality(Incoming(bb)) <= Cardinality(bb.phi_map)
  BY <1>1, FS_Surjection
<1>3. Incoming(bb) \subseteq Nat
  BY DEF Incoming, BasicBlock
<1> QED
  BY <1>2, <1>3, FS_CardinalityType

\* The number of nodes of a block.
LEMMA SizeType ==
    ASSUME NEW BB, BlocksOK(BB), NEW b \in 1..Len(BB)
    PROVE  /\ BB[b] \in BasicBlock /\ BlockOK(BB[b], Len(BB))
           /\ Cardinality(BB[b].phi_map) \in Nat /\ Len(BB[b].inst) \in Nat
           /\ Size(BB[b]) \in Nat
           /\ Size(BB[b]) = Cardinality(BB[b].phi_map) + 1 + Len(BB[b].inst)
<1>1. BB[b] \in BasicBlock /\ BlockOK(BB[b], Len(BB)) /\ IsFiniteSet(BB[b].phi_map)
  BY DEF BlocksOK, BlockOK
<1>2. BB[b].inst \in Seq(Nat)
  BY <1>1 DEF BasicBlock
<1>3. Cardinality(BB[b].phi_map) \in Nat
  BY <1>1, IncomingFinite
<1> QED
  BY <1>1, <1>2, <1>3 DEF Size

\* The equations of Start.
LEMMA StartEquations ==
    ASSUME NEW BB, BlocksOK(BB)
    PROVE  \E S : /\ S[0] = 3
                  /\ \A i \in 1..Len(BB) :
                        S[i] = IF Built(BB[i]) THEN S[i-1] + Size(BB[i]) ELSE S[i-1]
                  /\ \A b \in 1..Len(BB) : Start(BB, b) = S[b-1]
<1> DEFINE n == Len(BB)
           After(i, x) == IF Built(BB[i]) THEN x + Size(BB[i]) ELSE x
           Body(f) == [i \in 0..n |-> IF i = 0 THEN 3 ELSE After(i, f[i-1])]
           G == [p \in (1..n) \X Nat |-> After(p[1], p[2])]
<1>1. n \in Nat /\ 3 \in Nat
  BY DEF BlocksOK
<1>2. ASSUME NEW i \in 1..n, NEW x \in Nat
      PROVE  After(i, x) \in Nat
  BY SizeType
<1>3. G \in [(1..n) \X Nat -> Nat]
  <2> HIDE DEF After, n
  <2> QED
    BY <1>2
<1>4. PICK f : Nats!IsIteration(f, Nat, 3, n, G)
  <2> HIDE DEF G, After, n
  <2> QED
    BY <1>1, <1>3, Nats!IterationExists
<1>5. ASSUME NEW i \in 1..n
      PROVE  f[i] = After(i, f[i-1])
  <2>1. f[i-1] \in Nat /\ f[i] = G[<<i, f[i-1]>>]
    <3> HIDE DEF G, n
    <3> QED
      BY <1>1, <1>4 DEF Nats!IsIteration
  <2> HIDE DEF After, n
  <2> QED
    BY <2>1
<1>6. f = Body(f)
  <2> HIDE DEF G, After, n
  <2> QED
    BY <1>1, <1>4, <1>5 DEF Nats!IsIteration
<1> DEFINE S == CHOOSE g : g = Body(g)
<1>7. S = Body(S)
  <2> HIDE DEF Body
  <2> QED
    BY <1>6
<1>8. S[0] = 3
  <2> HIDE DEF S, After
  <2> QED
    BY <1>1, <1>7
<1>9. ASSUME NEW i \in 1..n
      PROVE  S[i] = After(i, S[i-1])
  <2>1. i \in 0..n /\ i # 0
    BY <1>1
  <2> HIDE DEF S, After, n
  <2> QED
    BY <1>7, <2>1
<1>10. ASSUME NEW b \in 1..n
       PROVE  Start(BB, b) = S[b-1]
  BY DEF Start
<1> QED
  <2> HIDE DEF S
  <2> QED
    BY <1>8, <1>9, <1>10

\* The intervals of the blocks follow each other.
LEMMA NodeRanges ==
    ASSUME NEW BB, BlocksOK(BB)
    PROVE  /\ \A b \in 1..Len(BB) :
                 /\ Start(BB, b) \in Nat /\ 3 <= Start(BB, b)
                 /\ Stop(BB, b) \in Nat /\ Start(BB, b) <= Stop(BB, b)
                 /\ Stop(BB, b) <= CreateAutGraph(BB).size
           /\ \A b, c \in 1..Len(BB) : b < c => Stop(BB, b) <= Start(BB, c)
           /\ CreateAutGraph(BB).size \in Nat /\ 3 <= CreateAutGraph(BB).size
           /\ Start(BB, 1) = 3
<1> DEFINE n == Len(BB)
<1>1. n \in Nat /\ n >= 1
  BY DEF BlocksOK
<1>2. PICK S : /\ S[0] = 3
               /\ \A i \in 1..n : S[i] = IF Built(BB[i]) THEN S[i-1] + Size(BB[i]) ELSE S[i-1]
               /\ \A b \in 1..n : Start(BB, b) = S[b-1]
  BY StartEquations
<1>3. \A b \in 1..n : Size(BB[b]) \in Nat
  BY SizeType
<1> HIDE DEF n
<1>4. ASSUME NEW i \in 1..n, S[i-1] \in Nat
      PROVE  S[i] \in Nat /\ S[i-1] <= S[i]
  BY <1>2, <1>3, <1>4
<1> DEFINE T == {i \in Nat : i <= n => S[i] \in Nat /\ 3 <= S[i] /\ \A j \in 0..i : S[j] \in Nat /\ S[j] <= S[i]}
<1>5. 0 \in T
  BY <1>2
<1>6. ASSUME NEW i \in Nat, i \in T
      PROVE  i + 1 \in T
  <2>1. SUFFICES ASSUME i + 1 <= n
                 PROVE  /\ S[i + 1] \in Nat /\ 3 <= S[i + 1]
                        /\ \A j \in 0..(i + 1) : S[j] \in Nat /\ S[j] <= S[i + 1]
    OBVIOUS
  <2>2. i + 1 \in 1..n /\ i + 1 - 1 = i
    BY <1>1, <2>1
  <2>3. S[i] \in Nat /\ 3 <= S[i] /\ \A j \in 0..i : S[j] \in Nat /\ S[j] <= S[i]
    BY <1>1, <1>6, <2>1
  <2>4. S[i + 1] \in Nat /\ S[i] <= S[i + 1]
    BY <1>4, <2>2, <2>3
  <2> QED
    BY <2>3, <2>4
<1>7. Nat \subseteq T
  <2> HIDE DEF T
  <2> QED
    BY <1>5, <1>6, Nats!NatSetInduction
<1>8. ASSUME NEW i \in 0..n
      PROVE  S[i] \in Nat /\ 3 <= S[i] /\ \A j \in 0..i : S[j] \in Nat /\ S[j] <= S[i]
  BY <1>1, <1>7
<1>9. ASSUME NEW b \in 1..n
      PROVE  Start(BB, b) = S[b-1] /\ Stop(BB, b) = S[b]
  <2>1. S[b-1] \in Nat
    BY <1>1, <1>8
  <2> QED
    BY <1>2, <1>3, <2>1 DEF Stop
<1>10. CreateAutGraph(BB).size = S[n]
  <2>1. CreateAutGraph(BB).size = Stop(BB, n)
    BY DEF CreateAutGraph, Stop, n
  <2> QED
    BY <1>1, <1>9, <2>1
<1>11. ASSUME NEW b \in 1..n
       PROVE  /\ Start(BB, b) \in Nat /\ 3 <= Start(BB, b)
              /\ Stop(BB, b) \in Nat /\ Start(BB, b) <= Stop(BB, b)
              /\ Stop(BB, b) <= CreateAutGraph(BB).size
  <2>1. b \in 0..n /\ b - 1 \in 0..n /\ b - 1 \in 0..b /\ n \in 0..n /\ b \in 0..n
    BY <1>1
  <2> QED
    BY <1>8, <1>9, <1>10, <2>1
<1>12. ASSUME NEW b \in 1..n, NEW c \in 1..n, b < c
       PROVE  Stop(BB, b) <= Start(BB, c)
  <2>1. c - 1 \in 0..n /\ b \in 0..(c - 1)
    BY <1>1, <1>12
  <2> QED
    BY <1>8, <1>9, <2>1
<1>13. CreateAutGraph(BB).size \in Nat /\ 3 <= CreateAutGraph(BB).size
  BY <1>1, <1>8, <1>10
<1>14. Start(BB, 1) = 3
  BY <1>1, <1>2
<1> QED
  BY <1>11, <1>12, <1>13, <1>14 DEF n

\* The nodes for the incoming blocks are in the order of these blocks, before
\* the first node.
LEMMA PhiNodes ==
    ASSUME NEW BB, BlocksOK(BB), NEW b \in 1..Len(BB), NEW from \in Nat
    PROVE  /\ phi_nd(BB, b, from) \in Nat
           /\ Start(BB, b) <= phi_nd(BB, b, from)
           /\ phi_nd(BB, b, from) <= Start(BB, b) + Cardinality(BB[b].phi_map)
           /\ from \in Incoming(BB[b]) =>
                 phi_nd(BB, b, from) < Start(BB, b) + Cardinality(BB[b].phi_map)
           /\ \A g \in Nat : from < g /\ from \in Incoming(BB[b]) =>
                 phi_nd(BB, b, from) < phi_nd(BB, b, g)
<1> DEFINE I == Incoming(BB[b])
           Below(x) == {p \in I : p < x}
<1>1. /\ IsFiniteSet(I) /\ I \subseteq Nat /\ Cardinality(I) \in Nat
      /\ Cardinality(BB[b].phi_map) \in Nat /\ Cardinality(I) <= Cardinality(BB[b].phi_map)
  <2>1. BB[b] \in BasicBlock /\ IsFiniteSet(BB[b].phi_map)
    BY SizeType DEF BlockOK
  <2> QED
    BY <2>1, IncomingFinite
<1>2. Start(BB, b) \in Nat
  BY NodeRanges
<1>3. phi_nd(BB, b, from) = Start(BB, b) + Cardinality(Below(from))
  BY DEF phi_nd
<1> HIDE DEF I
<1>4. ASSUME NEW A, NEW B, IsFiniteSet(B), A \subseteq B, A # B
      PROVE  Cardinality(A) < Cardinality(B)
  <2>1. A \in SUBSET B
    BY <1>4
  <2>2. IsFiniteSet(A) /\ Cardinality(A) <= Cardinality(B) /\ Cardinality(A) # Cardinality(B)
    BY <1>4, <2>1, FS_Subset
  <2> QED
    BY <1>4, <2>2, FS_CardinalityType
<1>5. ASSUME NEW x \in Nat
      PROVE  IsFiniteSet(Below(x)) /\ Cardinality(Below(x)) \in Nat /\ Cardinality(Below(x)) <= Cardinality(I)
  <2>1. Below(x) \in SUBSET I
    OBVIOUS
  <2> QED
    BY <1>1, <2>1, FS_Subset, FS_CardinalityType
<1>6. Cardinality(Below(from)) \in Nat /\ Cardinality(Below(from)) <= Cardinality(I)
  BY <1>5
<1>7. ASSUME from \in I
      PROVE  Cardinality(Below(from)) < Cardinality(I)
  <2>1. Below(from) \subseteq I /\ from \notin Below(from)
    OBVIOUS
  <2> HIDE DEF Below
  <2> QED
    BY <1>1, <1>4, <1>7, <2>1
<1>8. ASSUME NEW g \in Nat, from < g, from \in I
      PROVE  phi_nd(BB, b, from) < phi_nd(BB, b, g)
  <2>1. from \notin Below(from) /\ from \in Below(g)
    BY <1>8
  <2>2. ASSUME NEW p \in I, p < from
        PROVE  p < g
    <3>1. p \in Nat
      BY <1>1
    <3> QED
      BY <1>8, <2>2, <3>1
  <2>3. Cardinality(Below(from)) < Cardinality(Below(g))
    <3>1. IsFiniteSet(Below(g))
      BY <1>5
    <3>2. Below(from) \subseteq Below(g)
      BY <2>2
    <3> HIDE DEF Below
    <3> QED
      BY <1>4, <2>1, <3>1, <3>2
  <2>4. phi_nd(BB, b, g) = Start(BB, b) + Cardinality(Below(g))
    BY DEF phi_nd, I
  <2>5. Cardinality(Below(g)) \in Nat
    BY <1>5
  <2> HIDE DEF Below
  <2> QED
    BY <1>2, <1>3, <1>6, <2>3, <2>4, <2>5
<1> HIDE DEF Below
<1> QED
  BY <1>1, <1>2, <1>3, <1>6, <1>7, <1>8 DEF I

\* The edges of a graph are the first one and those of the blocks.
LEMMA GraphEdges ==
    ASSUME NEW BB, NEW e \in CreateAutGraph(BB).edges
    PROVE  \/ e = <<0, -1, first_nd(BB, 1)>>
           \/ \E b \in 1..Len(BB) : Built(BB[b]) /\ e \in BlockEdges(BB, b)
BY DEF CreateAutGraph

\* The three kinds of edges of a block.
LEMMA BlockEdgeShape ==
    ASSUME NEW BB, NEW b, NEW e \in BlockEdges(BB, b)
    PROVE  \/ \E p \in BB[b].phi_map : e = <<phi_nd(BB, b, p[1]), p[2], first_nd(BB, b)>>
           \/ \E i \in DOMAIN BB[b].inst :
                 e = <<first_nd(BB, b) + i - 1, BB[b].inst[i], first_nd(BB, b) + i>>
           \/ \E c \in BB[b].branch_map : e = <<last_nd(BB, b), c[1], Target(BB, b, c[2])>>
BY DEF BlockEdges

\* The nodes of a block that is built are consecutive.
LEMMA BuiltNodes ==
    ASSUME NEW BB, BlocksOK(BB), NEW b \in 1..Len(BB), Built(BB[b])
    PROVE  /\ first_nd(BB, b) \in Nat /\ last_nd(BB, b) \in Nat
           /\ first_nd(BB, b) = Start(BB, b) + Cardinality(BB[b].phi_map)
           /\ 3 <= first_nd(BB, b)
           /\ last_nd(BB, b) = first_nd(BB, b) + Len(BB[b].inst)
           /\ last_nd(BB, b) + 1 = Stop(BB, b)
           /\ Start(BB, b) <= first_nd(BB, b) /\ first_nd(BB, b) <= last_nd(BB, b)
           /\ last_nd(BB, b) < CreateAutGraph(BB).size
<1> DEFINE c == Cardinality(BB[b].phi_map)
           l == Len(BB[b].inst)
           st == Start(BB, b)
           en == Stop(BB, b)
           sz == CreateAutGraph(BB).size
           fi == first_nd(BB, b)
           la == last_nd(BB, b)
<1>1. /\ Cardinality(BB[b].phi_map) \in Nat /\ Len(BB[b].inst) \in Nat
      /\ Size(BB[b]) = Cardinality(BB[b].phi_map) + 1 + Len(BB[b].inst)
  BY SizeType
<1>2. /\ Start(BB, b) \in Nat /\ 3 <= Start(BB, b)
      /\ Stop(BB, b) \in Nat /\ Stop(BB, b) <= CreateAutGraph(BB).size
      /\ CreateAutGraph(BB).size \in Nat
  BY NodeRanges
<1>3. first_nd(BB, b) = Start(BB, b) + Cardinality(BB[b].phi_map)
  BY DEF first_nd
<1>4. last_nd(BB, b) = first_nd(BB, b) + Len(BB[b].inst)
  BY DEF last_nd
<1>5. Stop(BB, b) = Start(BB, b) + Size(BB[b])
  BY DEF Stop
<1>6. /\ c \in Nat /\ l \in Nat /\ st \in Nat /\ 3 <= st /\ en \in Nat /\ en <= sz /\ sz \in Nat
      /\ fi = st + c /\ la = fi + l /\ en = st + (c + 1 + l)
  BY <1>1, <1>2, <1>3, <1>4, <1>5
<1> HIDE DEF c, l, st, en, sz, fi, la
<1>7. /\ fi \in Nat /\ la \in Nat /\ fi = st + c /\ 3 <= fi /\ la = fi + l /\ la + 1 = en
      /\ st <= fi /\ fi <= la /\ la < sz
  BY <1>6
<1> QED
  BY <1>7 DEF c, l, st, en, sz, fi, la

\* An edge into a block leads to the node before the assertion, the accepting
\* one, or a node of the block.
LEMMA TargetNode ==
    ASSUME NEW BB, BlocksOK(BB), NEW from \in 1..Len(BB), NEW b \in 1..Len(BB)
    PROVE  /\ Target(BB, from, b) \in Nat /\ Target(BB, from, b) < CreateAutGraph(BB).size
           /\ Target(BB, from, b) # 0
           /\ Target(BB, from, b) = 1 <=> BB[b].is_accepting
           /\ Target(BB, from, b) = 2 <=> ~BB[b].is_accepting /\ ~BB[b].has_branch
<1>1. CreateAutGraph(BB).size \in Nat /\ 3 <= CreateAutGraph(BB).size
  BY NodeRanges
<1>2. CASE BB[b].is_accepting
  BY <1>1, <1>2 DEF Target
<1>3. CASE ~BB[b].is_accepting /\ ~BB[b].has_branch
  BY <1>1, <1>3 DEF Target
<1>4. CASE ~BB[b].is_accepting /\ BB[b].has_branch
  <2>1. Built(BB[b])
    BY <1>4 DEF Built
  <2>2. Target(BB, from, b) \in {first_nd(BB, b), phi_nd(BB, b, from)}
    BY <1>4 DEF Target
  <2>3. /\ first_nd(BB, b) \in Nat /\ 3 <= first_nd(BB, b)
        /\ first_nd(BB, b) < CreateAutGraph(BB).size
    <3>1. last_nd(BB, b) \in Nat
      BY <2>1, BuiltNodes
    <3> QED
      BY <1>1, <2>1, <3>1, BuiltNodes
  <2>4. /\ phi_nd(BB, b, from) \in Nat /\ 3 <= phi_nd(BB, b, from)
        /\ phi_nd(BB, b, from) < CreateAutGraph(BB).size
    <3>1. Len(BB) \in Nat /\ from \in Nat
      BY DEF BlocksOK
    <3>2. /\ phi_nd(BB, b, from) \in Nat /\ Start(BB, b) <= phi_nd(BB, b, from)
          /\ phi_nd(BB, b, from) <= Start(BB, b) + Cardinality(BB[b].phi_map)
      BY <3>1, PhiNodes
    <3>3. Start(BB, b) \in Nat /\ 3 <= Start(BB, b) /\ Cardinality(BB[b].phi_map) \in Nat
      BY NodeRanges, SizeType
    <3>4. Start(BB, b) + Cardinality(BB[b].phi_map) < CreateAutGraph(BB).size
      BY <1>1, <2>1, <2>3, BuiltNodes
    <3> QED
      BY <1>1, <3>2, <3>3, <3>4
  <2> QED
    BY <1>4, <2>2, <2>3, <2>4
<1> QED
  BY <1>2, <1>3, <1>4

\* The edges of a block stay in its nodes but for the branches.
LEMMA EdgeRange ==
    ASSUME NEW BB, BlocksOK(BB), NEW b \in 1..Len(BB), Built(BB[b]),
           NEW e \in BlockEdges(BB, b)
    PROVE  /\ e \in Nat \X Nat \X Nat
           /\ Start(BB, b) <= e[1] /\ e[1] < Stop(BB, b)
           /\ e[3] # 0 /\ e[3] < CreateAutGraph(BB).size
<1>1. /\ first_nd(BB, b) \in Nat /\ last_nd(BB, b) \in Nat /\ 3 <= first_nd(BB, b)
      /\ first_nd(BB, b) = Start(BB, b) + Cardinality(BB[b].phi_map)
      /\ last_nd(BB, b) = first_nd(BB, b) + Len(BB[b].inst)
      /\ last_nd(BB, b) + 1 = Stop(BB, b)
      /\ Start(BB, b) <= first_nd(BB, b) /\ last_nd(BB, b) < CreateAutGraph(BB).size
  BY BuiltNodes
<1>2. /\ BB[b] \in BasicBlock /\ BlockOK(BB[b], Len(BB)) /\ Len(BB[b].inst) \in Nat
      /\ Start(BB, b) \in Nat /\ CreateAutGraph(BB).size \in Nat
  BY SizeType, NodeRanges
<1>3. BB[b].inst \in Seq(Nat) /\ BB[b].branch_map \subseteq Nat \X Nat /\ BB[b].phi_map \subseteq Nat \X Nat
  BY <1>2 DEF BasicBlock
<1>4. ASSUME NEW p \in BB[b].phi_map, e = <<phi_nd(BB, b, p[1]), p[2], first_nd(BB, b)>>
      PROVE  /\ e \in Nat \X Nat \X Nat
             /\ Start(BB, b) <= e[1] /\ e[1] < Stop(BB, b)
             /\ e[3] # 0 /\ e[3] < CreateAutGraph(BB).size
  <2>1. p[1] \in Nat /\ p[2] \in Nat /\ p[1] \in Incoming(BB[b])
    BY <1>3 DEF Incoming
  <2>2. /\ phi_nd(BB, b, p[1]) \in Nat /\ Start(BB, b) <= phi_nd(BB, b, p[1])
        /\ phi_nd(BB, b, p[1]) < first_nd(BB, b)
    BY <1>1, <2>1, PhiNodes
  <2> QED
    BY <1>1, <1>2, <1>4, <2>1, <2>2
<1>5. ASSUME NEW i \in DOMAIN BB[b].inst,
             e = <<first_nd(BB, b) + i - 1, BB[b].inst[i], first_nd(BB, b) + i>>
      PROVE  /\ e \in Nat \X Nat \X Nat
             /\ Start(BB, b) <= e[1] /\ e[1] < Stop(BB, b)
             /\ e[3] # 0 /\ e[3] < CreateAutGraph(BB).size
  <2>1. i \in 1..Len(BB[b].inst) /\ BB[b].inst[i] \in Nat
    BY <1>3
  <2> DEFINE fi == first_nd(BB, b)
             la == last_nd(BB, b)
             l == Len(BB[b].inst)
  <2>2. /\ fi \in Nat /\ la \in Nat /\ l \in Nat /\ la = fi + l /\ 3 <= fi
        /\ i \in 1..l
    BY <1>1, <1>2, <2>1
  <2> HIDE DEF fi, la, l
  <2>3. fi + i - 1 \in Nat /\ fi <= fi + i - 1 /\ fi + i - 1 < la /\ fi + i \in Nat
        /\ fi + i <= la /\ fi + i # 0
    BY <2>2
  <2>4. e[1] = fi + i - 1 /\ e[3] = fi + i /\ e \in Nat \X Nat \X Nat
    BY <1>5, <2>1, <2>3 DEF fi
  <2>5. /\ Start(BB, b) <= fi /\ la + 1 = Stop(BB, b) /\ la < CreateAutGraph(BB).size
    BY <1>1 DEF fi, la
  <2> QED
    BY <1>2, <2>2, <2>3, <2>4, <2>5
<1>6. ASSUME NEW c \in BB[b].branch_map, e = <<last_nd(BB, b), c[1], Target(BB, b, c[2])>>
      PROVE  /\ e \in Nat \X Nat \X Nat
             /\ Start(BB, b) <= e[1] /\ e[1] < Stop(BB, b)
             /\ e[3] # 0 /\ e[3] < CreateAutGraph(BB).size
  <2>1. c[1] \in Nat /\ c[2] \in 1..Len(BB)
    BY <1>2, <1>3 DEF BlockOK
  <2>2. /\ Target(BB, b, c[2]) \in Nat /\ Target(BB, b, c[2]) < CreateAutGraph(BB).size
        /\ Target(BB, b, c[2]) # 0
    BY <2>1, TargetNode
  <2> QED
    BY <1>1, <1>2, <1>6, <2>1, <2>2
<1> QED
  BY <1>4, <1>5, <1>6, BlockEdgeShape

\* A node of a block has one edge for each symbol.
LEMMA BlockDeterministic ==
    ASSUME NEW BB, BlocksOK(BB), NEW b \in 1..Len(BB), Built(BB[b]),
           NEW d \in BlockEdges(BB, b), NEW e \in BlockEdges(BB, b),
           d[1] = e[1], d[2] = e[2]
    PROVE  d = e
<1> DEFINE first == first_nd(BB, b)
           last == last_nd(BB, b)
           Phi(x) == \E p \in BB[b].phi_map : x = <<phi_nd(BB, b, p[1]), p[2], first>>
           Body(x) == \E i \in DOMAIN BB[b].inst : x = <<first + i - 1, BB[b].inst[i], first + i>>
           Exit(x) == \E c \in BB[b].branch_map : x = <<last, c[1], Target(BB, b, c[2])>>
<1>1. /\ first \in Nat /\ last \in Nat /\ last = first + Len(BB[b].inst)
      /\ first = Start(BB, b) + Cardinality(BB[b].phi_map)
  BY BuiltNodes
<1>2. BB[b] \in BasicBlock /\ BlockOK(BB[b], Len(BB)) /\ Len(BB[b].inst) \in Nat
  BY SizeType
<1>3. BB[b].inst \in Seq(Nat) /\ BB[b].phi_map \subseteq Nat \X Nat
  BY <1>2 DEF BasicBlock
<1> HIDE DEF first, last
<1>4. ASSUME NEW x, Phi(x)
      PROVE  x[1] < first /\ x[1] \in Nat /\ x = <<x[1], x[2], first>>
  <2>1. PICK p \in BB[b].phi_map : x = <<phi_nd(BB, b, p[1]), p[2], first>>
    BY <1>4
  <2>2. p[1] \in Nat /\ p[1] \in Incoming(BB[b])
    BY <1>3 DEF Incoming
  <2>3. phi_nd(BB, b, p[1]) \in Nat /\ phi_nd(BB, b, p[1]) < first
    BY <1>1, <2>2, PhiNodes
  <2> QED
    BY <2>1, <2>3
<1>5. ASSUME NEW x, Body(x)
      PROVE  first <= x[1] /\ x[1] < last /\ x[1] \in Nat /\ x = <<x[1], x[2], x[1] + 1>>
  <2>1. PICK i \in DOMAIN BB[b].inst : x = <<first + i - 1, BB[b].inst[i], first + i>>
    BY <1>5
  <2>2. i \in 1..Len(BB[b].inst)
    BY <1>3
  <2>3. i \in Nat /\ 1 <= i /\ i <= Len(BB[b].inst)
    BY <1>2, <2>2
  <2>4. x[1] = first + i - 1 /\ x[2] = BB[b].inst[i] /\ x[3] = first + i /\ x = <<x[1], x[2], x[3]>>
    BY <2>1
  <2>5. first + i - 1 \in Nat /\ first <= first + i - 1 /\ first + i - 1 < last /\ (first + i - 1) + 1 = first + i
    BY <1>1, <1>2, <2>3
  <2> QED
    BY <2>4, <2>5
<1>6. ASSUME NEW x, Exit(x)
      PROVE  x[1] = last /\ \E c \in BB[b].branch_map : c[1] = x[2] /\ x = <<last, c[1], Target(BB, b, c[2])>>
  BY <1>6
<1>7. (Phi(d) \/ Body(d) \/ Exit(d)) /\ (Phi(e) \/ Body(e) \/ Exit(e))
  BY BlockEdgeShape DEF first, last
<1>8. CASE Phi(d)
  <2>1. Phi(e)
    <3> HIDE DEF Phi, Body, Exit
    <3>1. d[1] < first /\ d[1] \in Nat
      BY <1>4, <1>8
    <3>2. Body(e) => first <= e[1]
      BY <1>5
    <3>3. Exit(e) => e[1] = last
      BY <1>6
    <3> QED
      BY <1>1, <1>2, <1>7, <3>1, <3>2, <3>3
  <2>2. d = <<d[1], d[2], first>> /\ e = <<e[1], e[2], first>>
    BY <1>4, <1>8, <2>1
  <2> QED
    BY <2>2
<1>9. CASE Body(d)
  <2>1. Body(e)
    <3> HIDE DEF Phi, Body, Exit
    <3>1. first <= d[1] /\ d[1] < last /\ d[1] \in Nat
      BY <1>5, <1>9
    <3>2. Phi(e) => e[1] < first
      BY <1>4
    <3>3. Exit(e) => e[1] = last
      BY <1>6
    <3> QED
      BY <1>1, <1>2, <1>7, <3>1, <3>2, <3>3
  <2>2. d = <<d[1], d[2], d[1] + 1>> /\ e = <<e[1], e[2], e[1] + 1>>
    BY <1>5, <1>9, <2>1
  <2> QED
    BY <2>2
<1>10. CASE Exit(d)
  <2>1. Exit(e)
    <3> HIDE DEF Phi, Body, Exit
    <3>1. d[1] = last /\ first <= last
      BY <1>1, <1>2, <1>6, <1>10
    <3>2. Phi(e) => e[1] < first /\ e[1] \in Nat
      BY <1>4
    <3>3. Body(e) => e[1] < last /\ e[1] \in Nat
      BY <1>5
    <3> QED
      BY <1>1, <1>7, <3>1, <3>2, <3>3
  <2>2. PICK c \in BB[b].branch_map : c[1] = d[2] /\ d = <<last, c[1], Target(BB, b, c[2])>>
    BY <1>6, <1>10
  <2>3. PICK c2 \in BB[b].branch_map : c2[1] = e[2] /\ e = <<last, c2[1], Target(BB, b, c2[2])>>
    BY <1>6, <2>1
  <2>4. c = c2
    BY <1>2, <2>2, <2>3 DEF BlockOK
  <2> QED
    BY <2>2, <2>3, <2>4
<1> QED
  BY <1>7, <1>8, <1>9, <1>10

\* What the graph of a function has, whatever the function does.
LEMMA CreateAutGraphFacts ==
    ASSUME NEW BB, BlocksOK(BB)
    PROVE  LET g == CreateAutGraph(BB)
           IN  /\ g.size \in Nat /\ 3 <= g.size
               /\ \A e \in g.edges : /\ e \in Nat \X Int \X Nat
                                     /\ e[1] < g.size /\ e[3] < g.size
                                     /\ e[1] = 0 \/ 3 <= e[1]
                                     /\ e[1] = 0 <=> e[2] = -1
                                     /\ e[1] = 0 \/ e[3] # 0
               /\ \A d, e \in g.edges : d[1] = e[1] /\ d[2] = e[2] => d = e
<1> DEFINE g == CreateAutGraph(BB)
           Zero(x) == x = <<0, -1, first_nd(BB, 1)>>
           In(x, b) == Built(BB[b]) /\ x \in BlockEdges(BB, b)
<1>1. g.size \in Nat /\ 3 <= g.size
  BY NodeRanges
<1>2. 1 \in 1..Len(BB)
  BY DEF BlocksOK
<1>3. first_nd(BB, 1) \in Nat /\ first_nd(BB, 1) < g.size
  <2>1. CASE Built(BB[1])
    BY <1>1, <1>2, <2>1, BuiltNodes, SizeType
  <2>2. CASE ~Built(BB[1])
    BY <1>1, <2>2 DEF first_nd
  <2> QED
    BY <2>1, <2>2
<1> HIDE DEF g
<1>4. ASSUME NEW x, NEW b \in 1..Len(BB), In(x, b)
      PROVE  /\ x \in Nat \X Nat \X Nat
             /\ Start(BB, b) <= x[1] /\ x[1] < Stop(BB, b) /\ 3 <= x[1]
             /\ Start(BB, b) \in Nat /\ Stop(BB, b) \in Nat
             /\ x[1] < g.size /\ x[3] < g.size /\ x[3] # 0
  <2>1. /\ x \in Nat \X Nat \X Nat /\ Start(BB, b) <= x[1] /\ x[1] < Stop(BB, b)
        /\ x[3] < g.size /\ x[3] # 0
    BY <1>4, EdgeRange DEF g
  <2>2. /\ Start(BB, b) \in Nat /\ 3 <= Start(BB, b)
        /\ Stop(BB, b) \in Nat /\ Stop(BB, b) <= g.size
    BY NodeRanges DEF g
  <2>3. x[1] \in Nat
    BY <2>1
  <2> QED
    BY <1>1, <2>1, <2>2, <2>3
<1>5. ASSUME NEW e \in g.edges
      PROVE  Zero(e) \/ \E b \in 1..Len(BB) : In(e, b)
  BY GraphEdges DEF g
<1>6. ASSUME NEW e \in g.edges
      PROVE  /\ e \in Nat \X Int \X Nat
             /\ e[1] < g.size /\ e[3] < g.size
             /\ e[1] = 0 \/ 3 <= e[1]
             /\ e[1] = 0 <=> e[2] = -1
             /\ e[1] = 0 \/ e[3] # 0
  <2>1. CASE Zero(e)
    BY <1>1, <1>3, <2>1
  <2>2. CASE \E b \in 1..Len(BB) : In(e, b)
    <3>1. PICK b \in 1..Len(BB) : In(e, b)
      BY <2>2
    <3>2. e \in Nat \X Nat \X Nat /\ 3 <= e[1] /\ e[1] < g.size /\ e[3] < g.size /\ e[3] # 0
      BY <1>4, <3>1
    <3> QED
      BY <3>2
  <2> QED
    BY <1>5, <2>1, <2>2
<1>7. ASSUME NEW d \in g.edges, NEW e \in g.edges, d[1] = e[1], d[2] = e[2]
      PROVE  d = e
  <2>1. CASE Zero(d)
    <3>1. e[1] = 0
      BY <1>7, <2>1
    <3>2. Zero(e)
      BY <1>4, <1>5, <3>1
    <3> QED
      BY <2>1, <3>2
  <2>2. CASE Zero(e)
    <3>1. d[1] = 0
      BY <1>7, <2>2
    <3>2. Zero(d)
      BY <1>4, <1>5, <3>1
    <3> QED
      BY <2>2, <3>2
  <2>3. CASE ~Zero(d) /\ ~Zero(e)
    <3>1. PICK b \in 1..Len(BB) : In(d, b)
      BY <1>5, <2>3
    <3>2. PICK c \in 1..Len(BB) : In(e, c)
      BY <1>5, <2>3
    <3>3. /\ Start(BB, b) <= d[1] /\ d[1] < Stop(BB, b) /\ d[1] \in Nat
          /\ Start(BB, b) \in Nat /\ Stop(BB, b) \in Nat
      BY <1>4, <3>1
    <3>4. /\ Start(BB, c) <= e[1] /\ e[1] < Stop(BB, c) /\ e[1] \in Nat
          /\ Start(BB, c) \in Nat /\ Stop(BB, c) \in Nat
      BY <1>4, <3>2
    <3>5. ~(b < c) /\ ~(c < b)
      <4>1. b < c => Stop(BB, b) <= Start(BB, c)
        BY NodeRanges
      <4>2. c < b => Stop(BB, c) <= Start(BB, b)
        BY NodeRanges
      <4> QED
        BY <1>7, <3>3, <3>4, <4>1, <4>2
    <3>6. b = c
      BY <3>5
    <3> QED
      BY <1>7, <3>1, <3>2, <3>6, BlockDeterministic
  <2> QED
    BY <2>1, <2>2, <2>3
<1> QED
  BY <1>1, <1>6, <1>7 DEF g

-----------------------------------------------------------------------------
(***************************************************************************)
(* The invariant of the parsing.  Every number in the blocks of a function *)
(* and in a finished graph has an entry of the thread in the map           *)
(* (Owned), and an entry has one thread: this is what keeps the symbols of *)
(* the threads apart, whatever instructions they share.                    *)
(***************************************************************************)
Owned(map, nu, n) == \E m \in map : m[1] = nu /\ m[3] = n

BlockOwned(map, nu, bb) ==
    /\ \A i \in DOMAIN bb.inst : Owned(map, nu, bb.inst[i])
    /\ \A e \in bb.branch_map : Owned(map, nu, e[1])
    /\ \A p \in bb.phi_map : Owned(map, nu, p[2])

GraphType == [size : Nat, edges : SUBSET (Nat \X Int \X Nat)]

\* Node 0 and the label -1 belong together, node 1 has the edge of the
\* assertion only, node 2 none.
GraphOK(map, nu, g) ==
    /\ g \in GraphType
    /\ 3 <= g.size
    /\ \A e \in g.edges :
          /\ e[1] < g.size /\ e[3] < g.size /\ e[1] # 2
          /\ e[1] = 0 <=> e[2] = -1
          /\ e[1] = 0 \/ e[3] # 0
          /\ e[1] = 1 => e[3] = 2
          /\ e[2] = -1 \/ Owned(map, nu, e[2])
    /\ \A d, e \in g.edges : d[1] = 1 /\ d[2] = e[2] => d = e
    /\ \A d, e \in g.edges : d[1] = e[1] /\ d[2] = e[2] => d = e

\* No block of a function is left by an instruction that is not handled.
Branching(f) ==
    \A b \in DOMAIN f.blocks : \E k \in DOMAIN f.blocks[b] :
        f.blocks[b][k].op \in {"Call", "Br", "CondBr", "Ret"}

OnlyAsserted(g) == \A e \in g.edges : e[3] = 2 => e[1] = 1

\* The marks the first k instructions of a block leave.
Seen(insts, bb, k) ==
    \A j \in 1..k : /\ insts[j].op = "Call" => bb.is_accepting
                    /\ insts[j].op \in {"Br", "CondBr", "Ret"} => bb.has_branch

ParseTypes ==
    /\ module \in Modules
    /\ cur_func \in 0..(Len(module) + 1)
    /\ cur_block \in Nat \ {0} /\ cur_inst \in Nat \ {0}
    /\ bb_automata \in Seq(BasicBlock)
    /\ TablesOK(inst_list_, inst_map_)
    /\ thread_names_ \in Seq(Name)
    /\ thread_graphs_ \in Seq(GraphType)
    /\ mAssnMap \in SUBSET Nat

ParseBlocks ==
    bb_automata # <<>> =>
        /\ cur_func \in 1..Len(module)
        /\ Len(bb_automata) = Len(Func.blocks)
        /\ cur_block <= Len(bb_automata) + 1
        /\ cur_block <= Len(bb_automata) => cur_inst <= Len(Func.blocks[cur_block]) + 1
        /\ \A b \in 1..Len(bb_automata) :
              /\ BlockOK(bb_automata[b], Len(bb_automata))
              /\ BlockOwned(inst_map_, thread_name, bb_automata[b])
              /\ b < cur_block => Seen(Func.blocks[b], bb_automata[b], Len(Func.blocks[b]))
              /\ b = cur_block => Seen(Func.blocks[b], bb_automata[b], cur_inst - 1)

ParseNames ==
    /\ bb_automata = <<>> => Len(thread_names_) = Len(thread_graphs_)
    /\ bb_automata # <<>> =>
          /\ Len(thread_names_) = Len(thread_graphs_) + 1
          /\ thread_names_[Len(thread_names_)] = thread_name
    /\ \A i \in 1..Len(thread_names_) :
          \E k \in 1..Len(module) : k <= cur_func /\ module[k].name = thread_names_[i]
    /\ \A i, j \in 1..Len(thread_names_) : thread_names_[i] = thread_names_[j] => i = j

ParseGraphs ==
    \A i \in 1..Len(thread_graphs_) :
        /\ GraphOK(inst_map_, thread_names_[i], thread_graphs_[i])
        /\ (\A k \in DOMAIN module : Branching(module[k])) => OnlyAsserted(thread_graphs_[i])

\* The symbols of the assertions.
AssertionSymbols ==
    {GetLabel(e[2]) : e \in {d \in UNION {g.edges : g \in
        {thread_graphs_[i] : i \in DOMAIN thread_graphs_}} : d[1] = 1}}

ParseEnds ==
    Parsed => bb_automata = <<>> /\ mAssnMap = AssertionSymbols

IInvParse == ParseTypes /\ ParseBlocks /\ ParseNames /\ ParseGraphs /\ ParseEnds

\* What ModulesAssumption says of one module.
LEMMA ModuleType ==
    ASSUME NEW m \in Modules
    PROVE  /\ m \in Seq(Function) /\ Len(m) \in Nat
           /\ \A i, j \in 1..Len(m) : m[i].name = m[j].name => i = j
           /\ \A i \in 1..Len(m) :
                 /\ m[i] \in Function /\ m[i].name \in Name
                 /\ m[i].blocks \in Seq(Seq(Instruction))
                 /\ m[i].blocks # <<>> /\ Len(m[i].blocks) \in Nat \ {0}
                 /\ \A b \in 1..Len(m[i].blocks) :
                       /\ m[i].blocks[b] \in Seq(Instruction)
                       /\ \A k \in 1..Len(m[i].blocks[b]) :
                             /\ m[i].blocks[b][k] \in Instruction
                             /\ Targets(m[i].blocks[b][k]) \subseteq 1..Len(m[i].blocks)
<1>1. m \in Seq(Function) /\ Len(m) \in Nat /\ DOMAIN m = 1..Len(m)
  BY ModulesAssumption DEF ModulesAssumption
<1>2. \A i, j \in 1..Len(m) : m[i].name = m[j].name => i = j
  BY <1>1, ModulesAssumption DEF ModulesAssumption
<1>3. ASSUME NEW i \in 1..Len(m)
      PROVE  /\ m[i] \in Function /\ m[i].name \in Name
             /\ m[i].blocks \in Seq(Seq(Instruction))
             /\ m[i].blocks # <<>> /\ Len(m[i].blocks) \in Nat \ {0}
             /\ \A b \in 1..Len(m[i].blocks) :
                   /\ m[i].blocks[b] \in Seq(Instruction)
                   /\ \A k \in 1..Len(m[i].blocks[b]) :
                         /\ m[i].blocks[b][k] \in Instruction
                         /\ Targets(m[i].blocks[b][k]) \subseteq 1..Len(m[i].blocks)
  <2>1. m[i] \in Function
    BY <1>1
  <2>2. m[i].name \in Name /\ m[i].blocks \in Seq(Seq(Instruction))
    BY <2>1 DEF Function
  <2>3. /\ m[i].blocks # <<>>
        /\ \A b \in DOMAIN m[i].blocks : \A k \in DOMAIN m[i].blocks[b] :
              Targets(m[i].blocks[b][k]) \subseteq DOMAIN m[i].blocks
    BY <1>1, ModulesAssumption DEF ModulesAssumption
  <2>4. \A b \in 1..Len(m[i].blocks) : m[i].blocks[b] \in Seq(Instruction)
    BY <2>2
  <2>5. Len(m[i].blocks) \in Nat \ {0}
    BY <2>2, <2>3
  <2>6. \A b \in 1..Len(m[i].blocks) : \A k \in 1..Len(m[i].blocks[b]) :
           /\ m[i].blocks[b][k] \in Instruction
           /\ Targets(m[i].blocks[b][k]) \subseteq 1..Len(m[i].blocks)
    <3>1. ASSUME NEW b \in 1..Len(m[i].blocks), NEW k \in 1..Len(m[i].blocks[b])
          PROVE  /\ m[i].blocks[b][k] \in Instruction
                 /\ Targets(m[i].blocks[b][k]) \subseteq 1..Len(m[i].blocks)
      <4>1. m[i].blocks[b] \in Seq(Instruction)
        BY <2>4
      <4>2. DOMAIN m[i].blocks = 1..Len(m[i].blocks) /\ DOMAIN m[i].blocks[b] = 1..Len(m[i].blocks[b])
        BY <2>2, <4>1
      <4>3. Targets(m[i].blocks[b][k]) \subseteq 1..Len(m[i].blocks)
        BY <2>3, <4>2
      <4> QED
        BY <4>1, <4>3
    <3> QED
      BY <3>1
  <2> QED
    BY <2>1, <2>2, <2>3, <2>4, <2>5, <2>6
<1> QED
  BY <1>1, <1>2, <1>3

\* A number keeps its owner when the tables grow.
LEMMA OwnedGrows ==
    ASSUME NEW map1, NEW map2, map1 \subseteq map2, NEW nu, NEW n, Owned(map1, nu, n)
    PROVE  Owned(map2, nu, n)
BY DEF Owned

\* A graph stays as it is when the tables grow.
LEMMA GraphGrows ==
    ASSUME NEW map1, NEW map2, map1 \subseteq map2, NEW nu, NEW g, GraphOK(map1, nu, g)
    PROVE  GraphOK(map2, nu, g)
BY OwnedGrows DEF GraphOK

\* So does a block.
LEMMA BlockGrows ==
    ASSUME NEW map1, NEW map2, map1 \subseteq map2, NEW nu, NEW bb, BlockOwned(map1, nu, bb)
    PROVE  BlockOwned(map2, nu, bb)
BY OwnedGrows DEF BlockOwned

\* A graph with its assertion.
LEMMA FinishedGraph ==
    ASSUME NEW BB, BlocksOK(BB), NEW map \in SUBSET Entry, NEW nu, NEW n \in Nat,
           \A b \in 1..Len(BB) : BlockOwned(map, nu, BB[b]),
           \A e \in map : e[3] < n,
           NEW map2, map \subseteq map2, Owned(map2, nu, n)
    PROVE  LET g == CreateAutGraph(BB)
               h == [g EXCEPT !.edges = @ \cup {<<1, n, 2>>}]
           IN  /\ GraphOK(map2, nu, h)
               /\ (\A b \in 1..Len(BB) : BB[b].is_accepting \/ BB[b].has_branch) => OnlyAsserted(h)
<1> DEFINE g == CreateAutGraph(BB)
           h == [g EXCEPT !.edges = @ \cup {<<1, n, 2>>}]
<1>1. /\ g.size \in Nat /\ 3 <= g.size
      /\ \A e \in g.edges : /\ e \in Nat \X Int \X Nat
                            /\ e[1] < g.size /\ e[3] < g.size
                            /\ e[1] = 0 \/ 3 <= e[1]
                            /\ e[1] = 0 <=> e[2] = -1
                            /\ e[1] = 0 \/ e[3] # 0
      /\ \A d, e \in g.edges : d[1] = e[1] /\ d[2] = e[2] => d = e
  BY CreateAutGraphFacts
<1>2. h = [size |-> g.size, edges |-> g.edges \cup {<<1, n, 2>>}]
  <2>1. \E x, y : g = [size |-> x, edges |-> y]
    BY DEF CreateAutGraph
  <2> HIDE DEF g
  <2>2. PICK x, y : g = [size |-> x, edges |-> y]
    BY <2>1
  <2>3. [g EXCEPT !.edges = g.edges \cup {<<1, n, 2>>}]
          = [size |-> x, edges |-> g.edges \cup {<<1, n, 2>>}]
    <3>1. ASSUME NEW z
          PROVE  [[size |-> x, edges |-> y] EXCEPT !.edges = z] = [size |-> x, edges |-> z]
      OBVIOUS
    <3> QED
      BY <2>2, <3>1
  <2> QED
    BY <2>2, <2>3
<1>3. ASSUME NEW e \in g.edges
      PROVE  /\ e[2] = -1 \/ Owned(map, nu, e[2])
             /\ e[3] = 2 => \E b \in 1..Len(BB) : ~BB[b].is_accepting /\ ~BB[b].has_branch
  <2>1. CASE e = <<0, -1, first_nd(BB, 1)>>
    <3>1. 1 \in 1..Len(BB)
      BY DEF BlocksOK
    <3>2. first_nd(BB, 1) # 2
      <4>1. CASE Built(BB[1])
        BY <3>1, <4>1, BuiltNodes
      <4>2. CASE ~Built(BB[1])
        BY <4>2 DEF first_nd
      <4> QED
        BY <4>1, <4>2
    <3> QED
      BY <2>1, <3>2
  <2>2. CASE \E b \in 1..Len(BB) : Built(BB[b]) /\ e \in BlockEdges(BB, b)
    <3>1. PICK b \in 1..Len(BB) : Built(BB[b]) /\ e \in BlockEdges(BB, b)
      BY <2>2
    <3>2. BlockOwned(map, nu, BB[b]) /\ BlockOK(BB[b], Len(BB)) /\ BB[b] \in BasicBlock
      BY SizeType
    <3>3. first_nd(BB, b) \in Nat /\ 3 <= first_nd(BB, b)
      BY <3>1, BuiltNodes
    <3>4. CASE \E p \in BB[b].phi_map : e = <<phi_nd(BB, b, p[1]), p[2], first_nd(BB, b)>>
      BY <3>2, <3>3, <3>4 DEF BlockOwned
    <3>5. CASE \E i \in DOMAIN BB[b].inst :
                  e = <<first_nd(BB, b) + i - 1, BB[b].inst[i], first_nd(BB, b) + i>>
      <4>1. PICK i \in DOMAIN BB[b].inst :
                e = <<first_nd(BB, b) + i - 1, BB[b].inst[i], first_nd(BB, b) + i>>
        BY <3>5
      <4>2. i \in Nat
        BY <3>2 DEF BasicBlock
      <4> QED
        BY <3>2, <3>3, <4>1, <4>2 DEF BlockOwned
    <3>6. CASE \E c \in BB[b].branch_map : e = <<last_nd(BB, b), c[1], Target(BB, b, c[2])>>
      <4>1. PICK c \in BB[b].branch_map : e = <<last_nd(BB, b), c[1], Target(BB, b, c[2])>>
        BY <3>6
      <4>2. c[2] \in 1..Len(BB)
        BY <3>2 DEF BlockOK
      <4>3. Target(BB, b, c[2]) = 2 <=> ~BB[c[2]].is_accepting /\ ~BB[c[2]].has_branch
        BY <4>2, TargetNode
      <4> QED
        BY <3>2, <4>1, <4>2, <4>3 DEF BlockOwned
    <3> QED
      BY <3>1, <3>4, <3>5, <3>6, BlockEdgeShape
  <2> QED
    BY <2>1, <2>2, GraphEdges
<1>4. ASSUME NEW m, Owned(map, nu, m)
      PROVE  m \in Nat /\ m < n /\ Owned(map2, nu, m)
  <2>1. PICK x \in map : x[1] = nu /\ x[3] = m
    BY <1>4 DEF Owned
  <2>2. m \in Nat /\ m < n
    BY <2>1 DEF Entry
  <2> QED
    BY <1>4, <2>2, OwnedGrows
<1> DEFINE a == <<1, n, 2>>
<1>5. a[1] = 1 /\ a[2] = n /\ a[3] = 2 /\ a \in Nat \X Int \X Nat
  OBVIOUS
<1> HIDE DEF g, a
<1>6. h.size = g.size /\ h.edges = g.edges \cup {a} /\ h \in GraphType
  BY <1>1, <1>2, <1>5 DEF GraphType, a
<1>7. \A e \in g.edges : e[1] # 1 /\ e[1] # 2 /\ e[2] # n
  BY <1>1, <1>3, <1>4
<1> HIDE DEF h
<1>8. ASSUME NEW e \in h.edges
      PROVE  /\ e[1] < h.size /\ e[3] < h.size /\ e[1] # 2
             /\ e[1] = 0 <=> e[2] = -1
             /\ e[1] = 0 \/ e[3] # 0
             /\ e[1] = 1 => e[3] = 2
             /\ e[2] = -1 \/ Owned(map2, nu, e[2])
  <2>1. CASE e \in g.edges
    BY <1>1, <1>3, <1>4, <1>6, <1>7, <2>1
  <2>2. CASE e = a
    BY <1>1, <1>5, <1>6, <2>2
  <2> QED
    BY <1>6, <2>1, <2>2
<1>9. \A d, e \in h.edges : d[1] = 1 /\ d[2] = e[2] => d = e
  BY <1>5, <1>6, <1>7
<1>10. \A d, e \in h.edges : d[1] = e[1] /\ d[2] = e[2] => d = e
  BY <1>1, <1>5, <1>6, <1>7
<1>11. GraphOK(map2, nu, h)
  BY <1>1, <1>6, <1>8, <1>9, <1>10 DEF GraphOK
<1>12. ASSUME \A b \in 1..Len(BB) : BB[b].is_accepting \/ BB[b].has_branch
       PROVE  OnlyAsserted(h)
  BY <1>3, <1>5, <1>6, <1>12 DEF OnlyAsserted
<1> QED
  BY <1>11, <1>12 DEF h, g

\* The block that is being parsed.
LEMMA CurrentBlock ==
    ASSUME IInvParse, InBlock
    PROVE  /\ cur_func \in 1..Len(module) /\ thread_name \in Name
           /\ Len(bb_automata) \in Nat \ {0} /\ Len(bb_automata) = Len(Func.blocks)
           /\ cur_block \in 1..Len(bb_automata) /\ bb_automata[cur_block] \in BasicBlock
           /\ BlockOK(bb_automata[cur_block], Len(bb_automata))
           /\ BlockOwned(inst_map_, thread_name, bb_automata[cur_block])
           /\ Func.blocks[cur_block] \in Seq(Instruction)
           /\ cur_inst \in 1..Len(Func.blocks[cur_block])
           /\ Seen(Func.blocks[cur_block], bb_automata[cur_block], cur_inst - 1)
           /\ Inst = Func.blocks[cur_block][cur_inst] /\ Inst \in Instruction
           /\ Targets(Inst) \subseteq 1..Len(bb_automata)
<1>1. module \in Modules /\ bb_automata # <<>> /\ bb_automata \in Seq(BasicBlock)
  BY DEF IInvParse, ParseTypes, InBlock
<1>2. cur_func \in 1..Len(module) /\ Len(bb_automata) = Len(Func.blocks)
  BY <1>1 DEF IInvParse, ParseBlocks
<1>3. /\ Func \in Function /\ Func.name \in Name /\ Func.blocks \in Seq(Seq(Instruction))
      /\ \A b \in 1..Len(Func.blocks) :
            /\ Func.blocks[b] \in Seq(Instruction)
            /\ \A k \in 1..Len(Func.blocks[b]) :
                  /\ Func.blocks[b][k] \in Instruction
                  /\ Targets(Func.blocks[b][k]) \subseteq 1..Len(Func.blocks)
  BY <1>1, <1>2, ModuleType DEF Func
<1>4. cur_block \in 1..Len(Func.blocks)
  BY <1>3 DEF InBlock, Blocks
<1>5. cur_inst \in 1..Len(Func.blocks[cur_block]) /\ Func.blocks[cur_block] \in Seq(Instruction)
  BY <1>3, <1>4 DEF InBlock
<1>6. /\ BlockOK(bb_automata[cur_block], Len(bb_automata))
      /\ BlockOwned(inst_map_, thread_name, bb_automata[cur_block])
      /\ Seen(Func.blocks[cur_block], bb_automata[cur_block], cur_inst - 1)
  BY <1>1, <1>2, <1>4 DEF IInvParse, ParseBlocks
<1>7. bb_automata[cur_block] \in BasicBlock /\ Len(bb_automata) \in Nat \ {0}
  BY <1>1, <1>6 DEF BlockOK
<1>8. Inst = Func.blocks[cur_block][cur_inst]
  BY DEF Inst
<1>9. Inst \in Instruction /\ Targets(Inst) \subseteq 1..Len(bb_automata)
  BY <1>2, <1>3, <1>4, <1>5, <1>8
<1>10. thread_name \in Name
  BY <1>3 DEF thread_name
<1> QED
  BY <1>2, <1>4, <1>5, <1>6, <1>7, <1>8, <1>9, <1>10

\* An instruction changes the block it is in, and may enter numbers.
LEMMA BlockStep ==
    ASSUME IInvParse, InBlock, Advance, NEW nb,
           bb_automata' = [bb_automata EXCEPT ![cur_block] = nb],
           TablesOK(inst_list_', inst_map_'), inst_map_ \subseteq inst_map_',
           BlockOK(nb, Len(bb_automata)), BlockOwned(inst_map_', thread_name, nb),
           Seen(Func.blocks[cur_block], nb, cur_inst)
    PROVE  IInvParse'
<1> DEFINE BB == bb_automata
<1>1. /\ cur_func \in 1..Len(module) /\ Len(BB) \in Nat \ {0} /\ Len(BB) = Len(Func.blocks)
      /\ cur_block \in 1..Len(BB) /\ cur_inst \in 1..Len(Func.blocks[cur_block])
      /\ Func.blocks[cur_block] \in Seq(Instruction)
  BY CurrentBlock
<1>2. BB \in Seq(BasicBlock) /\ nb \in BasicBlock /\ BB # <<>>
  BY DEF IInvParse, ParseTypes, BlockOK, InBlock
<1>3. /\ BB' \in Seq(BasicBlock) /\ Len(BB') = Len(BB) /\ BB' # <<>>
      /\ BB'[cur_block] = nb /\ \A b \in 1..Len(BB) : b # cur_block => BB'[b] = BB[b]
  BY <1>1, <1>2
<1>4. /\ cur_inst' = cur_inst + 1
      /\ UNCHANGED <<module, cur_func, cur_block, thread_names_, thread_graphs_, mAssnMap>>
  BY DEF Advance
<1>5. Func' = Func /\ thread_name' = thread_name
  BY <1>4 DEF Func, thread_name
<1>6. ParseTypes'
  BY <1>1, <1>3, <1>4 DEF IInvParse, ParseTypes
<1>7. ParseBlocks'
  <2>1. ASSUME NEW b \in 1..Len(BB)
        PROVE  /\ BlockOK(BB'[b], Len(BB))
               /\ BlockOwned(inst_map_', thread_name, BB'[b])
               /\ b < cur_block => Seen(Func.blocks[b], BB'[b], Len(Func.blocks[b]))
               /\ b = cur_block => Seen(Func.blocks[b], BB'[b], cur_inst' - 1)
    <3>1. CASE b = cur_block
      <4>1. cur_inst' - 1 = cur_inst /\ ~(b < cur_block)
        BY <1>1, <1>4, <3>1
      <4> QED
        BY <1>3, <3>1, <4>1
    <3>2. CASE b # cur_block
      <4>1. /\ BlockOK(BB[b], Len(BB)) /\ BlockOwned(inst_map_, thread_name, BB[b])
            /\ b < cur_block => Seen(Func.blocks[b], BB[b], Len(Func.blocks[b]))
        BY <1>2 DEF IInvParse, ParseBlocks
      <4>2. BlockOwned(inst_map_', thread_name, BB[b])
        BY <4>1, BlockGrows
      <4> QED
        BY <1>3, <3>2, <4>1, <4>2
    <3> QED
      BY <3>1, <3>2
  <2>2. /\ cur_func \in 1..Len(module) /\ Len(BB') = Len(Func.blocks)
        /\ cur_block <= Len(BB') + 1
        /\ cur_block <= Len(BB') => cur_inst' <= Len(Func.blocks[cur_block]) + 1
    BY <1>1, <1>3, <1>4
  <2> QED
    BY <1>3, <1>4, <1>5, <2>1, <2>2 DEF ParseBlocks
<1>8. ParseNames'
  BY <1>2, <1>3, <1>4, <1>5 DEF IInvParse, ParseNames
<1>9. ParseGraphs'
  <2>1. \A i \in 1..Len(thread_graphs_) :
          /\ GraphOK(inst_map_', thread_names_[i], thread_graphs_[i])
          /\ (\A k \in DOMAIN module : Branching(module[k])) => OnlyAsserted(thread_graphs_[i])
    BY GraphGrows DEF IInvParse, ParseGraphs
  <2> QED
    BY <1>4, <2>1 DEF ParseGraphs
<1>10. ParseEnds'
  <2>1. module \in Modules /\ Len(module) \in Nat
    BY ModuleType DEF IInvParse, ParseTypes
  <2>2. ~(cur_func' > Len(module'))
    BY <1>1, <1>4, <2>1
  <2> QED
    BY <2>2 DEF ParseEnds, Parsed
<1> QED
  BY <1>6, <1>7, <1>8, <1>9, <1>10 DEF IInvParse

\* The instruction that has been parsed is among those seen.
LEMMA SeenOneMore ==
    ASSUME NEW insts, NEW bb, NEW nb, NEW k \in Nat \ {0}, Seen(insts, bb, k - 1),
           bb.is_accepting => nb.is_accepting, bb.has_branch => nb.has_branch,
           insts[k].op = "Call" => nb.is_accepting,
           insts[k].op \in {"Br", "CondBr", "Ret"} => nb.has_branch
    PROVE  Seen(insts, nb, k)
<1>1. ASSUME NEW j \in 1..k
      PROVE  j = k \/ j \in 1..(k - 1)
  OBVIOUS
<1> QED
  BY <1>1 DEF Seen

\* Instructions that get numbers and end up in the block nb.
LEMMA NumberedStep ==
    ASSUME IInvParse, InBlock, Advance, NEW insts \in Seq(Instr), NEW t \in Numbered(insts),
           SetTables(t), NEW nb, nb \in BasicBlock,
           bb_automata' = [bb_automata EXCEPT ![cur_block] = nb],
           BlockOK(nb, Len(bb_automata)),
           BlockOwned(t.map, thread_name, nb),
           Seen(Func.blocks[cur_block], nb, cur_inst)
    PROVE  IInvParse'
<1>1. inst_list_' = t.list /\ inst_map_' = t.map
  BY DEF SetTables
<1>2. thread_name \in Name
  BY CurrentBlock
<1>3. TablesOK(inst_list_, inst_map_)
  BY DEF IInvParse, ParseTypes
<1>4. NumberedSoFar(t, insts, Len(insts))
  BY <1>2, <1>3, NumberedFacts
<1>5. TablesOK(inst_list_', inst_map_') /\ inst_map_ \subseteq inst_map_'
  BY <1>1, <1>4 DEF NumberedSoFar, Grows
<1> QED
  BY <1>1, <1>5, BlockStep

\* What the new numbers are.
LEMMA NewNumbers ==
    ASSUME IInvParse, InBlock, NEW insts \in Seq(Instr), NEW t \in Numbered(insts)
    PROVE  /\ t.nums \in Seq(Nat) /\ Len(t.nums) = Len(insts)
           /\ \A k \in 1..Len(insts) :
                 /\ t.nums[k] \in Nat
                 /\ <<thread_name, insts[k], t.nums[k]>> \in t.map
                 /\ Owned(t.map, thread_name, t.nums[k])
           /\ BlockOwned(t.map, thread_name, bb_automata[cur_block])
           /\ TablesOK(t.list, t.map) /\ Grows(inst_list_, inst_map_, t.list, t.map)
<1>1. thread_name \in Name /\ BlockOwned(inst_map_, thread_name, bb_automata[cur_block])
  BY CurrentBlock
<1>2. TablesOK(inst_list_, inst_map_)
  BY DEF IInvParse, ParseTypes
<1>3. NumberedSoFar(t, insts, Len(insts))
  BY <1>1, <1>2, NumberedFacts
<1>4. t.nums \in Seq(Nat) /\ Len(t.nums) = Len(insts) /\ inst_map_ \subseteq t.map
  BY <1>3 DEF NumberedSoFar, Table, Grows
<1>5. ASSUME NEW k \in 1..Len(insts)
      PROVE  /\ t.nums[k] \in Nat
             /\ <<thread_name, insts[k], t.nums[k]>> \in t.map
             /\ Owned(t.map, thread_name, t.nums[k])
  <2>1. <<thread_name, insts[k], t.nums[k]>> \in t.map
    BY <1>3 DEF NumberedSoFar
  <2>2. Owned(t.map, thread_name, t.nums[k])
    BY <2>1 DEF Owned
  <2> QED
    BY <1>4, <2>1, <2>2
<1>6. BlockOwned(t.map, thread_name, bb_automata[cur_block])
  BY <1>1, <1>4, BlockGrows
<1> QED
  BY <1>3, <1>4, <1>5, <1>6 DEF NumberedSoFar

\* The fields an instruction has.
LEMMA InstructionFields ==
    ASSUME NEW inst \in Instruction
    PROVE  /\ inst.op \in {"Assign", "AtomicCmpXchg", "Br", "CondBr", "PHI", "Call", "Ret", "Other"}
           /\ inst.op \in {"Assign", "AtomicCmpXchg"} => inst.expr \in Expr
           /\ inst.op = "Br" => inst.target \in Nat
           /\ inst.op = "CondBr" => inst.cond \in Expr /\ inst.then \in Nat /\ inst.else \in Nat
           /\ inst.op = "PHI" => inst.incoming \in Seq([block : Nat, expr : Expr])
BY DEF Instruction

\* The instructions that are numbered have their type.
LEMMA InstrTypes ==
    /\ \A e \in Expr : Assign(e) \in Instr /\ Cas(e) \in Instr
    /\ \A e \in Expr, b \in BOOLEAN : Assume(e, b) \in Instr
    /\ AssumeTrue \in Instr
BY ModulesAssumption DEF ModulesAssumption, Instr, Assign, Cas, Assume, AssumeTrue

\* AddBranches adds pairs with new symbols.
LEMMA AddBranchesOK ==
    ASSUME NEW n, NEW bb, BlockOK(bb, n), NEW pairs, pairs \subseteq Nat \X Nat,
           \A p \in pairs : p[2] \in 1..n,
           \A p, q \in pairs : p[1] = q[1] => p = q,
           NEW map, NEW nu, BlockOwned(map, nu, bb), \A p \in pairs : Owned(map, nu, p[1])
    PROVE  LET nb == AddBranches(bb, pairs)
           IN  /\ BlockOK(nb, n) /\ BlockOwned(map, nu, nb)
               /\ nb \in BasicBlock /\ nb.has_branch
               /\ nb.is_accepting = bb.is_accepting
               /\ nb.inst = bb.inst /\ nb.phi_map = bb.phi_map /\ nb.has_phi = bb.has_phi
               /\ nb.branch_map = bb.branch_map \cup {p \in pairs : \A e \in bb.branch_map : e[1] # p[1]}
<1> DEFINE nb == AddBranches(bb, pairs)
           new == {p \in pairs : \A e \in bb.branch_map : e[1] # p[1]}
<1>1. bb \in BasicBlock
  BY DEF BlockOK
<1>2. /\ nb.has_branch = TRUE /\ nb.branch_map = bb.branch_map \cup new
      /\ nb.is_accepting = bb.is_accepting /\ nb.inst = bb.inst /\ nb.phi_map = bb.phi_map
      /\ nb.has_phi = bb.has_phi
  BY <1>1 DEF AddBranches, BasicBlock
<1>3. nb \in BasicBlock
  BY <1>1 DEF AddBranches, BasicBlock
<1> HIDE DEF nb
<1>4. BlockOK(nb, n)
  <2>1. \A e \in nb.branch_map : e[2] \in 1..n
    BY <1>2 DEF BlockOK
  <2>2. \A d, e \in nb.branch_map : d[1] = e[1] => d = e
    BY <1>2 DEF BlockOK
  <2> QED
    BY <1>2, <1>3, <2>1, <2>2 DEF BlockOK
<1>5. BlockOwned(map, nu, nb)
  BY <1>2 DEF BlockOwned
<1> QED
  BY <1>2, <1>3, <1>4, <1>5 DEF nb

\* An instruction at the end of those of a block.
LEMMA AddInst ==
    ASSUME NEW n, NEW bb, BlockOK(bb, n), NEW m \in Nat,
           NEW map, NEW nu, BlockOwned(map, nu, bb), Owned(map, nu, m)
    PROVE  LET nb == [bb EXCEPT !.inst = Append(@, m)]
           IN  /\ BlockOK(nb, n) /\ BlockOwned(map, nu, nb)
               /\ nb \in BasicBlock
               /\ nb.inst = Append(bb.inst, m)
               /\ nb.is_accepting = bb.is_accepting /\ nb.has_branch = bb.has_branch
               /\ nb.phi_map = bb.phi_map /\ nb.has_phi = bb.has_phi
               /\ nb.branch_map = bb.branch_map
<1> DEFINE nb == [bb EXCEPT !.inst = Append(@, m)]
<1>1. bb \in BasicBlock /\ bb.inst \in Seq(Nat)
  BY DEF BlockOK, BasicBlock
<1>2. /\ nb.inst = Append(bb.inst, m) /\ nb.branch_map = bb.branch_map
      /\ nb.is_accepting = bb.is_accepting /\ nb.has_branch = bb.has_branch
      /\ nb.phi_map = bb.phi_map /\ nb.has_phi = bb.has_phi
  BY <1>1 DEF BasicBlock
<1>3. nb \in BasicBlock
  <2>1. Append(bb.inst, m) \in Seq(Nat)
    BY <1>1
  <2> QED
    BY <1>1, <2>1 DEF BasicBlock
<1> HIDE DEF nb
<1>4. BlockOK(nb, n)
  BY <1>2, <1>3 DEF BlockOK
<1>5. BlockOwned(map, nu, nb)
  <2>1. ASSUME NEW i \in DOMAIN nb.inst
        PROVE  Owned(map, nu, nb.inst[i])
    <3>1. i \in 1..(Len(bb.inst) + 1)
      BY <1>1, <1>2
    <3>2. CASE i = Len(bb.inst) + 1
      BY <1>1, <1>2, <3>2
    <3>3. CASE i \in 1..Len(bb.inst)
      BY <1>1, <1>2, <3>3 DEF BlockOwned
    <3> QED
      BY <1>1, <3>1, <3>2, <3>3
  <2> QED
    BY <1>2, <2>1 DEF BlockOwned
<1> QED
  BY <1>2, <1>3, <1>4, <1>5 DEF nb

\* A call marks the block.
LEMMA ParseCallInv ==
    ASSUME IInvParse, ParseCall
    PROVE  IInvParse'
<1> DEFINE bb == bb_automata[cur_block]
           nb == [bb EXCEPT !.is_accepting = TRUE]
<1>1. InBlock /\ Inst.op = "Call" /\ Advance /\ UNCHANGED <<inst_list_, inst_map_>>
  BY DEF ParseCall
<1>2. /\ bb_automata \in Seq(BasicBlock) /\ cur_block \in 1..Len(bb_automata)
      /\ bb \in BasicBlock /\ BlockOK(bb, Len(bb_automata))
      /\ BlockOwned(inst_map_, thread_name, bb)
      /\ Seen(Func.blocks[cur_block], bb, cur_inst - 1)
      /\ Inst = Func.blocks[cur_block][cur_inst] /\ cur_inst \in Nat \ {0}
  BY <1>1, CurrentBlock DEF IInvParse, ParseTypes
<1>3. bb_automata' = [bb_automata EXCEPT ![cur_block] = nb]
  BY DEF ParseCall
<1>4. /\ nb \in BasicBlock /\ nb.is_accepting = TRUE /\ nb.has_branch = bb.has_branch
      /\ nb.inst = bb.inst /\ nb.branch_map = bb.branch_map /\ nb.phi_map = bb.phi_map
  BY <1>2 DEF BasicBlock
<1> HIDE DEF nb, bb
<1>5. BlockOK(nb, Len(bb_automata)) /\ BlockOwned(inst_map_', thread_name, nb)
  BY <1>1, <1>2, <1>4 DEF BlockOK, BlockOwned
<1>6. Seen(Func.blocks[cur_block], nb, cur_inst)
  BY <1>1, <1>2, <1>4, SeenOneMore
<1>7. TablesOK(inst_list_', inst_map_') /\ inst_map_ \subseteq inst_map_'
  BY <1>1 DEF IInvParse, ParseTypes
<1> QED
  BY <1>1, <1>3, <1>5, <1>6, <1>7, BlockStep

\* What is skipped leaves the block alone.
LEMMA SkipInstInv ==
    ASSUME IInvParse, SkipInst
    PROVE  IInvParse'
<1> DEFINE bb == bb_automata[cur_block]
<1>1. /\ InBlock /\ Inst.op = "Other" /\ Advance
      /\ UNCHANGED <<bb_automata, inst_list_, inst_map_>>
  BY DEF SkipInst
<1>2. /\ bb_automata \in Seq(BasicBlock) /\ cur_block \in 1..Len(bb_automata)
      /\ BlockOK(bb, Len(bb_automata)) /\ BlockOwned(inst_map_, thread_name, bb)
      /\ Seen(Func.blocks[cur_block], bb, cur_inst - 1)
      /\ Inst = Func.blocks[cur_block][cur_inst] /\ cur_inst \in Nat \ {0}
  BY <1>1, CurrentBlock DEF IInvParse, ParseTypes
<1>3. bb_automata' = [bb_automata EXCEPT ![cur_block] = bb]
  BY <1>1, <1>2
<1> HIDE DEF bb
<1>4. Seen(Func.blocks[cur_block], bb, cur_inst)
  BY <1>1, <1>2, SeenOneMore
<1>5. TablesOK(inst_list_', inst_map_') /\ inst_map_ \subseteq inst_map_'
  BY <1>1 DEF IInvParse, ParseTypes
<1> QED
  BY <1>1, <1>2, <1>3, <1>4, <1>5, BlockStep

\* An assignment and a compare-and-swap put one number at the end of the block.
LEMMA OneInstInv ==
    ASSUME IInvParse, InBlock, Advance, Inst.op \in {"Assign", "AtomicCmpXchg"},
           NEW inst \in Instr, NEW t \in Numbered(<<inst>>), SetTables(t),
           bb_automata' = [bb_automata EXCEPT ![cur_block].inst = Append(@, t.nums[1])]
    PROVE  IInvParse'
<1> DEFINE bb == bb_automata[cur_block]
           nb == [bb EXCEPT !.inst = Append(@, t.nums[1])]
           insts == <<inst>>
<1>1. /\ bb_automata \in Seq(BasicBlock) /\ cur_block \in 1..Len(bb_automata)
      /\ BlockOK(bb, Len(bb_automata))
      /\ Seen(Func.blocks[cur_block], bb, cur_inst - 1)
      /\ Inst = Func.blocks[cur_block][cur_inst] /\ cur_inst \in Nat \ {0}
  BY CurrentBlock DEF IInvParse, ParseTypes
<1>2. insts \in Seq(Instr) /\ 1 \in 1..Len(insts)
  OBVIOUS
<1> HIDE DEF insts
<1>3. t.nums[1] \in Nat /\ Owned(t.map, thread_name, t.nums[1]) /\ BlockOwned(t.map, thread_name, bb)
  BY <1>2, NewNumbers DEF insts
<1>4. bb_automata' = [bb_automata EXCEPT ![cur_block] = nb]
  OBVIOUS
<1> HIDE DEF bb
<1>5. /\ BlockOK(nb, Len(bb_automata)) /\ BlockOwned(t.map, thread_name, nb) /\ nb \in BasicBlock
      /\ nb.is_accepting = bb.is_accepting /\ nb.has_branch = bb.has_branch
  BY <1>1, <1>3, AddInst
<1> HIDE DEF nb
<1>6. Seen(Func.blocks[cur_block], nb, cur_inst)
  BY <1>1, <1>5, SeenOneMore
<1> QED
  BY <1>2, <1>4, <1>5, <1>6, NumberedStep DEF insts

\* An assignment is appended.
LEMMA ParseAssignInv ==
    ASSUME IInvParse, ParseAssign
    PROVE  IInvParse'
<1>1. InBlock /\ Inst.op = "Assign" /\ Advance
  BY DEF ParseAssign
<1>2. PICK t \in Numbered(<<Assign(Inst.expr)>>) :
         /\ bb_automata' = [bb_automata EXCEPT ![cur_block].inst = Append(@, t.nums[1])]
         /\ SetTables(t)
  BY DEF ParseAssign
<1>3. Assign(Inst.expr) \in Instr
  BY <1>1, CurrentBlock, InstructionFields, InstrTypes
<1> QED
  BY <1>1, <1>2, <1>3, OneInstInv

\* So is a compare-and-swap.
LEMMA ParseAtomicCmpXchgInv ==
    ASSUME IInvParse, ParseAtomicCmpXchg
    PROVE  IInvParse'
<1>1. InBlock /\ Inst.op = "AtomicCmpXchg" /\ Advance
  BY DEF ParseAtomicCmpXchg
<1>2. PICK t \in Numbered(<<Cas(Inst.expr)>>) :
         /\ bb_automata' = [bb_automata EXCEPT ![cur_block].inst = Append(@, t.nums[1])]
         /\ SetTables(t)
  BY DEF ParseAtomicCmpXchg
<1>3. Cas(Inst.expr) \in Instr
  BY <1>1, CurrentBlock, InstructionFields, InstrTypes
<1> QED
  BY <1>1, <1>2, <1>3, OneInstInv

\* Pairs of a number of the thread and a block.
PairsOK(map, pairs) ==
    /\ pairs \subseteq Nat \X Nat
    /\ \A p \in pairs : Owned(map, thread_name, p[1]) /\ p[2] \in 1..Len(bb_automata)
    /\ \A p, q \in pairs : p[1] = q[1] => p = q

\* An instruction that leaves the block.
LEMMA BranchesInv ==
    ASSUME IInvParse, InBlock, Advance, Inst.op # "Call",
           NEW insts \in Seq(Instr), NEW t \in Numbered(insts), SetTables(t),
           NEW pairs, PairsOK(t.map, pairs),
           bb_automata' = [bb_automata EXCEPT ![cur_block] = AddBranches(@, pairs)]
    PROVE  IInvParse'
<1> DEFINE bb == bb_automata[cur_block]
           nb == AddBranches(bb, pairs)
<1>1. /\ bb_automata \in Seq(BasicBlock) /\ cur_block \in 1..Len(bb_automata)
      /\ BlockOK(bb, Len(bb_automata))
      /\ Seen(Func.blocks[cur_block], bb, cur_inst - 1)
      /\ Inst = Func.blocks[cur_block][cur_inst] /\ cur_inst \in Nat \ {0}
  BY CurrentBlock DEF IInvParse, ParseTypes
<1>2. BlockOwned(t.map, thread_name, bb)
  BY NewNumbers
<1>3. bb_automata' = [bb_automata EXCEPT ![cur_block] = nb]
  OBVIOUS
<1> HIDE DEF bb
<1>4. /\ BlockOK(nb, Len(bb_automata)) /\ BlockOwned(t.map, thread_name, nb) /\ nb \in BasicBlock
      /\ nb.is_accepting = bb.is_accepting /\ nb.has_branch
  BY <1>1, <1>2, AddBranchesOK DEF PairsOK
<1> HIDE DEF nb
<1>5. Seen(Func.blocks[cur_block], nb, cur_inst)
  BY <1>1, <1>4, SeenOneMore
<1> QED
  BY <1>3, <1>4, <1>5, NumberedStep

\* A return adds one branch.
LEMMA ParseRetInv ==
    ASSUME IInvParse, ParseRet
    PROVE  IInvParse'
<1> DEFINE insts == <<AssumeTrue>>
<1>1. InBlock /\ Inst.op = "Ret" /\ Advance
  BY DEF ParseRet
<1>2. PICK t \in Numbered(insts) :
         /\ bb_automata' = [bb_automata EXCEPT ![cur_block] = AddBranches(@, {<<t.nums[1], 1>>})]
         /\ SetTables(t)
  BY DEF ParseRet
<1>3. insts \in Seq(Instr) /\ 1 \in 1..Len(insts)
  BY InstrTypes
<1> HIDE DEF insts
<1>4. t.nums[1] \in Nat /\ Owned(t.map, thread_name, t.nums[1])
  BY <1>1, <1>3, NewNumbers
<1>5. 1 \in 1..Len(bb_automata)
  BY <1>1, CurrentBlock
<1> DEFINE pairs == {<<t.nums[1], 1>>}
<1>6. PairsOK(t.map, pairs)
  BY <1>4, <1>5 DEF PairsOK
<1>7. bb_automata' = [bb_automata EXCEPT ![cur_block] = AddBranches(@, pairs)] /\ Inst.op # "Call"
  BY <1>1, <1>2
<1> HIDE DEF pairs
<1> QED
  BY <1>1, <1>2, <1>3, <1>6, <1>7, BranchesInv

\* So does an unconditional branch.
LEMMA ParseBrInv ==
    ASSUME IInvParse, ParseBr
    PROVE  IInvParse'
<1> DEFINE insts == <<AssumeTrue>>
<1>1. InBlock /\ Inst.op = "Br" /\ Advance
  BY DEF ParseBr
<1>2. PICK t \in Numbered(insts) :
         /\ bb_automata' =
               [bb_automata EXCEPT ![cur_block] = AddBranches(@, {<<t.nums[1], Inst.target>>})]
         /\ SetTables(t)
  BY DEF ParseBr
<1>3. insts \in Seq(Instr) /\ 1 \in 1..Len(insts)
  BY InstrTypes
<1> HIDE DEF insts
<1>4. t.nums[1] \in Nat /\ Owned(t.map, thread_name, t.nums[1])
  BY <1>1, <1>3, NewNumbers
<1>5. Inst.target \in 1..Len(bb_automata) /\ Inst.target \in Nat
  BY <1>1, CurrentBlock, InstructionFields DEF Targets
<1> DEFINE pairs == {<<t.nums[1], Inst.target>>}
<1>6. PairsOK(t.map, pairs)
  BY <1>4, <1>5 DEF PairsOK
<1>7. bb_automata' = [bb_automata EXCEPT ![cur_block] = AddBranches(@, pairs)] /\ Inst.op # "Call"
  BY <1>1, <1>2
<1> HIDE DEF pairs
<1> QED
  BY <1>1, <1>2, <1>3, <1>6, <1>7, BranchesInv

\* Different instructions of a thread have different numbers.
LEMMA NumbersDiffer ==
    ASSUME NEW list, NEW map, TablesOK(list, map), NEW nu, NEW i, NEW j, i # j,
           NEW n, NEW m, <<nu, i, n>> \in map, <<nu, j, m>> \in map
    PROVE  n # m
<1>1. ASSUME n = m
      PROVE  FALSE
  <2>1. <<nu, i, n>> = <<nu, j, m>>
    BY <1>1 DEF TablesOK
  <2> QED
    BY <2>1
<1> QED
  BY <1>1

\* A conditional branch adds two.
LEMMA ParseCondBrInv ==
    ASSUME IInvParse, ParseCondBr
    PROVE  IInvParse'
<1> DEFINE i1 == Assume(Inst.cond, TRUE)
           i2 == Assume(Inst.cond, FALSE)
           insts == <<i1, i2>>
<1>1. InBlock /\ Inst.op = "CondBr" /\ Advance
  BY DEF ParseCondBr
<1>2. PICK t \in Numbered(insts) :
         /\ bb_automata' =
               [bb_automata EXCEPT ![cur_block] =
                   AddBranches(@, {<<t.nums[1], Inst.then>>, <<t.nums[2], Inst.else>>})]
         /\ SetTables(t)
  BY DEF ParseCondBr
<1>3. /\ Inst.cond \in Expr
      /\ Inst.then \in 1..Len(bb_automata) /\ Inst.then \in Nat
      /\ Inst.else \in 1..Len(bb_automata) /\ Inst.else \in Nat
  BY <1>1, CurrentBlock, InstructionFields DEF Targets
<1>4. insts \in Seq(Instr) /\ 1 \in 1..Len(insts) /\ 2 \in 1..Len(insts)
      /\ insts[1] = i1 /\ insts[2] = i2 /\ i1 # i2
  <2>1. i1 \in Instr /\ i2 \in Instr
    BY <1>3, InstrTypes
  <2>2. i1 # i2
    BY DEF Assume
  <2> HIDE DEF i1, i2
  <2> QED
    BY <2>1, <2>2
<1> HIDE DEF insts, i1, i2
<1>5. /\ t.nums[1] \in Nat /\ Owned(t.map, thread_name, t.nums[1])
      /\ t.nums[2] \in Nat /\ Owned(t.map, thread_name, t.nums[2])
      /\ t.nums[1] # t.nums[2]
  <2>1. /\ t.nums[1] \in Nat /\ Owned(t.map, thread_name, t.nums[1])
        /\ t.nums[2] \in Nat /\ Owned(t.map, thread_name, t.nums[2])
        /\ <<thread_name, i1, t.nums[1]>> \in t.map /\ <<thread_name, i2, t.nums[2]>> \in t.map
        /\ TablesOK(t.list, t.map)
    BY <1>1, <1>4, NewNumbers
  <2> QED
    BY <1>4, <2>1, NumbersDiffer
<1> DEFINE pairs == {<<t.nums[1], Inst.then>>, <<t.nums[2], Inst.else>>}
<1>6. PairsOK(t.map, pairs)
  BY <1>3, <1>5 DEF PairsOK
<1>7. bb_automata' = [bb_automata EXCEPT ![cur_block] = AddBranches(@, pairs)] /\ Inst.op # "Call"
  BY <1>1, <1>2
<1> HIDE DEF pairs
<1> QED
  BY <1>1, <1>2, <1>4, <1>6, <1>7, BranchesInv

\* A PHI node adds one assignment for each block the flow may come from.
LEMMA ParsePHIInv ==
    ASSUME IInvParse, ParsePHI
    PROVE  IInvParse'
<1> DEFINE bb == bb_automata[cur_block]
           inc == Inst.incoming
           insts == [i \in DOMAIN inc |-> Assign(inc[i].expr)]
<1>1. InBlock /\ Inst.op = "PHI" /\ Advance
  BY DEF ParsePHI
<1>2. PICK t \in Numbered(insts) :
         /\ LET new == {<<inc[i].block, t.nums[i]>> : i \in DOMAIN inc}
            IN  bb_automata' =
                   [bb_automata EXCEPT ![cur_block].has_phi = TRUE,
                       ![cur_block].phi_map =
                           @ \cup {p \in new : p[1] \notin {q[1] : q \in @}}]
         /\ SetTables(t)
  BY DEF ParsePHI
<1> DEFINE new == {<<inc[i].block, t.nums[i]>> : i \in DOMAIN inc}
           added == {p \in new : p[1] \notin {q[1] : q \in bb.phi_map}}
           nb == [bb EXCEPT !.has_phi = TRUE, !.phi_map = @ \cup added]
<1>3. inc \in Seq([block : Nat, expr : Expr])
  BY <1>1, CurrentBlock, InstructionFields
<1>17. \A i \in DOMAIN inc : inc[i].block \in Nat /\ inc[i].expr \in Expr
  <2>1. \A i \in DOMAIN inc : inc[i] \in [block : Nat, expr : Expr]
    <3>1. ASSUME NEW R, inc \in Seq(R), NEW i \in DOMAIN inc
          PROVE  inc[i] \in R
      <4> HIDE DEF inc
      <4> QED
        BY <3>1
    <3> QED
      BY <1>3, <3>1
  <2> QED
    BY <2>1
<1>4. insts \in Seq(Instr) /\ Len(insts) = Len(inc)
  <2>1. \A i \in DOMAIN inc : Assign(inc[i].expr) \in Instr
    BY <1>17, InstrTypes
  <2>2. DOMAIN inc = 1..Len(inc) /\ Len(inc) \in Nat
    BY <1>3
  <2>3. insts \in [1..Len(inc) -> Instr]
    BY <2>1, <2>2
  <2> QED
    BY <2>2, <2>3
<1>5. /\ bb_automata \in Seq(BasicBlock) /\ cur_block \in 1..Len(bb_automata)
      /\ bb \in BasicBlock /\ BlockOK(bb, Len(bb_automata))
      /\ Seen(Func.blocks[cur_block], bb, cur_inst - 1)
      /\ Inst = Func.blocks[cur_block][cur_inst] /\ cur_inst \in Nat \ {0}
  BY <1>1, CurrentBlock DEF IInvParse, ParseTypes
<1> HIDE DEF insts
<1>6. /\ BlockOwned(t.map, thread_name, bb)
      /\ \A i \in 1..Len(inc) : t.nums[i] \in Nat /\ Owned(t.map, thread_name, t.nums[i])
  BY <1>1, <1>4, NewNumbers
<1>7. DOMAIN inc = 1..Len(inc) /\ Len(inc) \in Nat
  BY <1>3
<1>8. \A p \in new : p \in Nat \X Nat /\ Owned(t.map, thread_name, p[2])
  BY <1>6, <1>7, <1>17
<1>9. IsFiniteSet(new)
  <2> DEFINE f == [i \in 1..Len(inc) |-> <<inc[i].block, t.nums[i]>>]
  <2>1. f \in Surjection(1..Len(inc), new)
    BY <1>7 DEF Surjection
  <2>2. IsFiniteSet(1..Len(inc))
    <3>1. 1 \in Int /\ Len(inc) \in Int
      BY <1>7
    <3> QED
      BY <3>1, FS_Interval
  <2> QED
    BY <2>1, <2>2, FS_Surjection
<1>10. bb_automata' = [bb_automata EXCEPT ![cur_block] = nb]
  BY <1>2
<1>11. /\ nb.inst = bb.inst /\ nb.branch_map = bb.branch_map
       /\ nb.phi_map = bb.phi_map \cup added
       /\ nb.is_accepting = bb.is_accepting /\ nb.has_branch = bb.has_branch
  BY <1>5 DEF BasicBlock
<1>12. nb \in BasicBlock
  BY <1>5, <1>8 DEF BasicBlock
<1>13. IsFiniteSet(nb.phi_map)
  <2>1. added \in SUBSET new
    OBVIOUS
  <2>2. IsFiniteSet(added)
    BY <1>9, <2>1, FS_Subset
  <2>3. IsFiniteSet(bb.phi_map)
    BY <1>5 DEF BlockOK
  <2> HIDE DEF added, nb
  <2> QED
    BY <1>11, <2>2, <2>3, FS_Union
<1>14. \A p \in added : Owned(t.map, thread_name, p[2])
  BY <1>8
<1> HIDE DEF bb, nb, added, new
<1>15. BlockOK(nb, Len(bb_automata)) /\ BlockOwned(t.map, thread_name, nb)
  BY <1>5, <1>6, <1>11, <1>12, <1>13, <1>14 DEF BlockOK, BlockOwned
<1>16. Seen(Func.blocks[cur_block], nb, cur_inst)
  BY <1>1, <1>5, <1>11, SeenOneMore
<1> QED
  BY <1>1, <1>2, <1>4, <1>10, <1>12, <1>15, <1>16, NumberedStep

\* A new function begins with empty blocks.
LEMMA NextFunctionInv ==
    ASSUME IInvParse, NextFunction
    PROVE  IInvParse'
<1> DEFINE k == cur_func + 1
           f == module[k]
<1>1. /\ bb_automata = <<>> /\ cur_func < Len(module) /\ cur_func' = k
      /\ cur_block' = 1 /\ cur_inst' = 1
      /\ UNCHANGED <<module, inst_list_, inst_map_, thread_graphs_, mAssnMap>>
  BY DEF NextFunction
<1>2. /\ module \in Modules /\ cur_func \in 0..(Len(module) + 1)
      /\ thread_names_ \in Seq(Name) /\ TablesOK(inst_list_, inst_map_)
      /\ thread_graphs_ \in Seq(GraphType) /\ mAssnMap \in SUBSET Nat
  BY DEF IInvParse, ParseTypes
<1>3. /\ Len(module) \in Nat /\ k \in 1..Len(module)
      /\ f.name \in Name /\ f.blocks \in Seq(Seq(Instruction)) /\ Len(f.blocks) \in Nat \ {0}
      /\ \A i, j \in 1..Len(module) : module[i].name = module[j].name => i = j
  <2>1. Len(module) \in Nat
    BY <1>2, ModuleType
  <2>2. k \in 1..Len(module)
    BY <1>1, <1>2, <2>1
  <2> QED
    BY <1>2, <2>1, <2>2, ModuleType
<1>4. ~(cur_func' > Len(module'))
  BY <1>1, <1>3
<1>5. ParseEnds'
  BY <1>4 DEF ParseEnds, Parsed
<1>6. /\ Len(thread_names_) = Len(thread_graphs_) /\ Len(thread_names_) \in Nat
      /\ \A i \in 1..Len(thread_names_) :
            \E m \in 1..Len(module) : m <= cur_func /\ module[m].name = thread_names_[i]
      /\ \A i, j \in 1..Len(thread_names_) : thread_names_[i] = thread_names_[j] => i = j
  BY <1>1, <1>2 DEF IInvParse, ParseNames
<1>7. CASE f.name = "__ASSERT"
  <2>1. UNCHANGED <<thread_names_, bb_automata>>
    BY <1>7 DEF NextFunction
  <2>2. ParseTypes'
    BY <1>1, <1>3, <2>1 DEF IInvParse, ParseTypes
  <2>3. ParseBlocks'
    BY <1>1, <2>1 DEF ParseBlocks
  <2>4. \A i \in 1..Len(thread_names_) :
            \E m \in 1..Len(module) : m <= k /\ module[m].name = thread_names_[i]
    BY <1>2, <1>6
  <2>5. ParseNames'
    BY <1>1, <1>6, <2>1, <2>4 DEF ParseNames
  <2>6. ParseGraphs'
    BY <1>1, <2>1 DEF IInvParse, ParseGraphs
  <2> QED
    BY <1>5, <2>2, <2>3, <2>5, <2>6 DEF IInvParse
<1>8. CASE f.name # "__ASSERT"
  <2> DEFINE BB == [b \in 1..Len(f.blocks) |-> EmptyBlock]
             names == Append(thread_names_, f.name)
             n == Len(thread_names_)
  <2>1. thread_names_' = names /\ bb_automata' = BB
    BY <1>8 DEF NextFunction
  <2>2. EmptyBlock \in BasicBlock /\ EmptyBlock.inst = <<>>
        /\ EmptyBlock.branch_map = {} /\ EmptyBlock.phi_map = {}
    BY DEF EmptyBlock, BasicBlock
  <2>3. BB \in Seq(BasicBlock) /\ Len(BB) = Len(f.blocks) /\ BB # <<>>
        /\ \A b \in 1..Len(BB) : BB[b] = EmptyBlock
    <3>1. BB \in [1..Len(f.blocks) -> BasicBlock]
      BY <2>2
    <3>2. BB \in Seq(BasicBlock) /\ Len(BB) = Len(f.blocks)
      BY <1>3, <3>1
    <3> QED
      BY <1>3, <3>2
  <2>4. /\ names \in Seq(Name) /\ Len(names) = n + 1 /\ names[n + 1] = f.name
        /\ \A i \in 1..n : names[i] = thread_names_[i]
    BY <1>2, <1>3, <1>6
  <2> HIDE DEF BB, names, n
  <2>5. Func' = f /\ thread_name' = f.name
    BY <1>1 DEF Func, thread_name
  <2>6. ParseTypes'
    BY <1>1, <1>2, <1>3, <2>1, <2>3, <2>4 DEF ParseTypes
  <2>7. ParseBlocks'
    <3>1. BlockOK(EmptyBlock, Len(BB))
      BY <2>2, FS_EmptySet DEF BlockOK
    <3>2. BlockOwned(inst_map_', thread_name', EmptyBlock)
      BY <2>2 DEF BlockOwned
    <3>3. Seen(f.blocks[1], EmptyBlock, 0)
      BY DEF Seen
    <3>4. Len(f.blocks[1]) \in Nat
      <4>1. 1 \in 1..Len(f.blocks)
        BY <1>3
      <4>2. f.blocks[1] \in Seq(Instruction)
        BY <1>3, <4>1
      <4> QED
        BY <4>2
    <3>5. \A b \in 1..Len(BB) : ~(b < 1) /\ (b = 1 => Seen(f.blocks[b], BB[b], 1 - 1))
      BY <2>3, <3>3
    <3>6. Len(BB) \in Nat
      BY <1>3, <2>3
    <3>7. /\ bb_automata' = BB /\ module' = module /\ cur_block' = 1 /\ cur_inst' = 1 /\ cur_func' = k
          /\ k \in 1..Len(module)
      BY <1>1, <1>3, <2>1
    <3>8. Len(BB) = Len(Func'.blocks) /\ 1 <= Len(BB) + 1
      BY <2>3, <2>5, <3>6
    <3>9. 1 <= Len(Func'.blocks[1]) + 1
      BY <2>5, <3>4
    <3>10. \A b \in 1..Len(BB) : BB[b] = EmptyBlock
      BY <2>3
    <3> HIDE DEF k, f
    <3>11. ASSUME NEW b \in 1..Len(BB)
           PROVE  /\ BlockOK(BB[b], Len(BB)) /\ BlockOwned(inst_map_', thread_name', BB[b])
                  /\ b < 1 => Seen(Func'.blocks[b], BB[b], Len(Func'.blocks[b]))
                  /\ b = 1 => Seen(Func'.blocks[b], BB[b], 1 - 1)
      BY <2>5, <3>1, <3>2, <3>5, <3>10
    <3> QED
      BY <3>7, <3>8, <3>9, <3>11 DEF ParseBlocks
  <2>8. ParseNames'
    <3>1. ASSUME NEW i \in 1..(n + 1)
          PROVE  \E m \in 1..Len(module) : m <= k /\ module[m].name = names[i]
      <4>1. CASE i = n + 1
        BY <1>3, <2>4, <4>1
      <4>2. CASE i \in 1..n
        <5>1. PICK m \in 1..Len(module) : m <= cur_func /\ module[m].name = thread_names_[i]
          BY <1>6, <4>2 DEF n
        <5>2. m <= k
          BY <1>2, <1>3, <5>1
        <5> QED
          BY <2>4, <4>2, <5>1, <5>2
      <4>3. n \in Nat
        BY <1>6 DEF n
      <4> QED
        BY <4>1, <4>2, <4>3
    <3>2. ASSUME NEW i \in 1..n
          PROVE  names[i] # f.name
      <4>1. PICK m \in 1..Len(module) : m <= cur_func /\ module[m].name = thread_names_[i]
        BY <1>6 DEF n
      <4>2. m # k
        BY <1>2, <1>3, <4>1
      <4> QED
        BY <1>3, <2>4, <4>1, <4>2
    <3>3. ASSUME NEW i \in 1..(n + 1), NEW j \in 1..(n + 1), names[i] = names[j]
          PROVE  i = j
      <4>1. n \in Nat
        BY <1>6 DEF n
      <4>2. CASE i \in 1..n /\ j \in 1..n
        BY <1>6, <2>4, <3>3, <4>2 DEF n
      <4>3. CASE i = n + 1 \/ j = n + 1
        BY <2>4, <3>2, <3>3, <4>1, <4>3
      <4> QED
        BY <4>1, <4>2, <4>3
    <3>4. n = Len(thread_graphs_)
      BY <1>6 DEF n
    <3> QED
      BY <1>1, <2>1, <2>3, <2>4, <2>5, <3>1, <3>3, <3>4 DEF ParseNames
  <2>9. ParseGraphs'
    <3>1. \A i \in 1..Len(thread_graphs_) : names[i] = thread_names_[i]
      BY <1>6, <2>4 DEF n
    <3> QED
      BY <1>1, <2>1, <3>1 DEF IInvParse, ParseGraphs
  <2> QED
    BY <1>5, <2>6, <2>7, <2>8, <2>9 DEF IInvParse
<1> QED
  BY <1>7, <1>8

\* The next block has not been looked at.
LEMMA NextBlockInv ==
    ASSUME IInvParse, NextBlock
    PROVE  IInvParse'
<1>1. /\ bb_automata # <<>> /\ cur_block \in Blocks
      /\ cur_inst > Len(Func.blocks[cur_block])
      /\ cur_block' = cur_block + 1 /\ cur_inst' = 1
      /\ UNCHANGED <<module, cur_func, bb_automata, inst_list_, inst_map_, thread_names_,
                     thread_graphs_, mAssnMap>>
  BY DEF NextBlock
<1>2. /\ module \in Modules /\ bb_automata \in Seq(BasicBlock)
      /\ cur_block \in Nat \ {0} /\ cur_inst \in Nat \ {0}
  BY DEF IInvParse, ParseTypes
<1>3. /\ cur_func \in 1..Len(module) /\ Len(bb_automata) = Len(Func.blocks)
      /\ cur_block <= Len(bb_automata) + 1
      /\ cur_block <= Len(bb_automata) => cur_inst <= Len(Func.blocks[cur_block]) + 1
      /\ \A b \in 1..Len(bb_automata) :
            /\ BlockOK(bb_automata[b], Len(bb_automata))
            /\ BlockOwned(inst_map_, thread_name, bb_automata[b])
            /\ b < cur_block => Seen(Func.blocks[b], bb_automata[b], Len(Func.blocks[b]))
            /\ b = cur_block => Seen(Func.blocks[b], bb_automata[b], cur_inst - 1)
  BY <1>1 DEF IInvParse, ParseBlocks
<1>4. /\ Func.blocks \in Seq(Seq(Instruction))
      /\ \A b \in 1..Len(Func.blocks) : Func.blocks[b] \in Seq(Instruction)
  BY <1>2, <1>3, ModuleType DEF Func
<1>5. Func' = Func /\ thread_name' = thread_name
  BY <1>1 DEF Func, thread_name
<1>6. cur_block \in 1..Len(bb_automata)
  BY <1>1, <1>3, <1>4 DEF Blocks
<1>7. cur_inst - 1 = Len(Func.blocks[cur_block])
  <2>1. Len(Func.blocks[cur_block]) \in Nat
    BY <1>3, <1>4, <1>6
  <2> QED
    BY <1>1, <1>2, <1>3, <1>6, <2>1
<1>8. ParseTypes'
  BY <1>1, <1>2 DEF IInvParse, ParseTypes
<1>9. ParseBlocks'
  <2>1. ASSUME NEW b \in 1..Len(bb_automata)
        PROVE  /\ b < cur_block + 1 => Seen(Func.blocks[b], bb_automata[b], Len(Func.blocks[b]))
               /\ b = cur_block + 1 => Seen(Func.blocks[b], bb_automata[b], 1 - 1)
    <3>1. CASE b < cur_block
      BY <1>3, <1>2, <3>1
    <3>2. CASE b = cur_block
      BY <1>2, <1>3, <1>7, <3>2
    <3>3. CASE b > cur_block
      BY <1>2, <3>3 DEF Seen
    <3> QED
      BY <1>2, <3>1, <3>2, <3>3
  <2>2. /\ cur_block + 1 <= Len(bb_automata) + 1
        /\ cur_block + 1 <= Len(bb_automata) => 1 <= Len(Func.blocks[cur_block + 1]) + 1
    <3>1. ASSUME cur_block + 1 <= Len(bb_automata)
          PROVE  Len(Func.blocks[cur_block + 1]) \in Nat
      <4>1. cur_block + 1 \in 1..Len(Func.blocks)
        BY <1>2, <1>3, <3>1
      <4> QED
        BY <1>4, <4>1
    <3> QED
      BY <1>2, <1>6, <3>1
  <2> QED
    BY <1>1, <1>3, <1>5, <2>1, <2>2 DEF ParseBlocks
<1>10. ParseNames'
  BY <1>1, <1>5 DEF IInvParse, ParseNames
<1>11. ParseGraphs'
  BY <1>1 DEF IInvParse, ParseGraphs
<1>12. ParseEnds'
  <2>1. ~(cur_func' > Len(module'))
    BY <1>1, <1>2, <1>3, ModuleType
  <2> QED
    BY <2>1 DEF ParseEnds, Parsed
<1> QED
  BY <1>8, <1>9, <1>10, <1>11, <1>12 DEF IInvParse

\* The number of the assertion is new, so no edge has it.
LEMMA FinishThreadInv ==
    ASSUME IInvParse, FinishThread
    PROVE  IInvParse'
<1> DEFINE BB == bb_automata
           n == Len(inst_list_)
           g == [CreateAutGraph(BB) EXCEPT !.edges = @ \cup {<<1, n, 2>>}]
           list == Append(inst_list_, AssumeTrue)
           map == inst_map_ \cup {<<thread_name, AssumeTrue, n>>}
           graphs == Append(thread_graphs_, g)
           m == Len(thread_graphs_)
<1>1. /\ BB # <<>> /\ cur_block \notin Blocks /\ BB' = <<>>
      /\ UNCHANGED <<module, cur_func, cur_block, cur_inst, thread_names_, mAssnMap>>
      /\ thread_graphs_' = graphs
  BY DEF FinishThread
<1>2. inst_list_' = list /\ inst_map_' = map
  BY DEF FinishThread, SetTables, Insert, Tables
<1>3. /\ module \in Modules /\ BB \in Seq(BasicBlock) /\ cur_block \in Nat \ {0}
      /\ inst_list_ \in Seq(Instr) /\ inst_map_ \in SUBSET Entry
      /\ TablesOK(inst_list_, inst_map_)
      /\ thread_names_ \in Seq(Name) /\ thread_graphs_ \in Seq(GraphType)
  BY DEF IInvParse, ParseTypes, TablesOK
<1>4. /\ cur_func \in 1..Len(module) /\ Len(BB) = Len(Func.blocks)
      /\ cur_block <= Len(BB) + 1
      /\ \A b \in 1..Len(BB) :
            /\ BlockOK(BB[b], Len(BB)) /\ BlockOwned(inst_map_, thread_name, BB[b])
            /\ b < cur_block => Seen(Func.blocks[b], BB[b], Len(Func.blocks[b]))
  BY <1>1 DEF IInvParse, ParseBlocks
<1>5. /\ Func.name \in Name /\ Func.blocks \in Seq(Seq(Instruction))
      /\ \A b \in 1..Len(Func.blocks) : Func.blocks[b] \in Seq(Instruction)
      /\ Len(module) \in Nat /\ Len(Func.blocks) \in Nat
  BY <1>3, <1>4, ModuleType DEF Func
<1>6. \A b \in 1..Len(BB) : b < cur_block
  BY <1>1, <1>3, <1>4, <1>5 DEF Blocks
<1>7. /\ Len(thread_names_) = m + 1 /\ m \in Nat /\ thread_names_[m + 1] = thread_name
      /\ \A i \in 1..Len(thread_names_) :
            \E k \in 1..Len(module) : k <= cur_func /\ module[k].name = thread_names_[i]
      /\ \A i, j \in 1..Len(thread_names_) : thread_names_[i] = thread_names_[j] => i = j
  BY <1>1, <1>3 DEF IInvParse, ParseNames
<1>8. BlocksOK(BB)
  BY <1>1, <1>3, <1>4 DEF BlocksOK
<1>9. n \in Nat /\ list \in Seq(Instr) /\ Len(list) = n + 1 /\ list[n + 1] = AssumeTrue
      /\ \A k \in 1..n : list[k] = inst_list_[k]
  BY <1>3, InstrTypes
<1>10. \A e \in inst_map_ : e[3] \in Nat /\ e[3] < n /\ inst_list_[e[3] + 1] = e[2]
  BY <1>3 DEF TablesOK, Entry
<1> DEFINE new == <<thread_name, AssumeTrue, n>>
<1>11. new \in Entry /\ new[1] = thread_name /\ new[2] = AssumeTrue /\ new[3] = n
  BY <1>5, <1>9, InstrTypes DEF Entry, thread_name
<1> HIDE DEF list, n
<1>12. TablesOK(list, map)
  <2>1. map \in SUBSET Entry
    BY <1>3, <1>11
  <2>2. \A e \in map : e[3] < Len(list) /\ list[e[3] + 1] = e[2]
    <3>1. ASSUME NEW e \in inst_map_
          PROVE  e[3] < Len(list) /\ list[e[3] + 1] = e[2]
      <4>1. e[3] \in Nat /\ e[3] < n /\ inst_list_[e[3] + 1] = e[2]
        BY <1>10
      <4>2. e[3] + 1 \in 1..n
        BY <1>9, <4>1
      <4> QED
        BY <1>9, <4>1, <4>2
    <3>2. new[3] < Len(list) /\ list[new[3] + 1] = new[2]
      BY <1>9, <1>11
    <3> QED
      BY <3>1, <3>2
  <2>3. \A d, e \in map : d[3] = e[3] => d = e
    BY <1>3, <1>9, <1>10, <1>11 DEF TablesOK
  <2> QED
    BY <1>9, <2>1, <2>2, <2>3 DEF TablesOK
<1>13. Owned(map, thread_name, n)
  BY <1>11 DEF Owned
<1>14. /\ GraphOK(map, thread_name, g)
       /\ (\A b \in 1..Len(BB) : BB[b].is_accepting \/ BB[b].has_branch) => OnlyAsserted(g)
  <2>1. /\ \A b \in 1..Len(BB) : BlockOwned(inst_map_, thread_name, BB[b])
        /\ \A e \in inst_map_ : e[3] < n
        /\ inst_map_ \in SUBSET Entry /\ inst_map_ \subseteq map
    BY <1>3, <1>4, <1>10
  <2> HIDE DEF map
  <2> QED
    BY <1>8, <1>9, <1>13, <2>1, FinishedGraph
<1>15. (\A k \in DOMAIN module : Branching(module[k])) => OnlyAsserted(g)
  <2>1. SUFFICES ASSUME \A k \in DOMAIN module : Branching(module[k])
                 PROVE  \A b \in 1..Len(BB) : BB[b].is_accepting \/ BB[b].has_branch
    BY <1>14
  <2>2. TAKE b \in 1..Len(BB)
  <2>3. module \in Seq(Function)
    BY <1>3, ModuleType
  <2>4. Branching(Func)
    BY <1>4, <2>1, <2>3 DEF Func
  <2>5. Seen(Func.blocks[b], BB[b], Len(Func.blocks[b]))
    BY <1>4, <1>6
  <2>6. b \in DOMAIN Func.blocks /\ Func.blocks[b] \in Seq(Instruction)
    BY <1>4, <1>5
  <2>7. PICK k \in DOMAIN Func.blocks[b] :
           Func.blocks[b][k].op \in {"Call", "Br", "CondBr", "Ret"}
    BY <2>4, <2>6 DEF Branching
  <2>8. k \in 1..Len(Func.blocks[b])
    BY <2>6, <2>7
  <2> QED
    BY <2>5, <2>7, <2>8 DEF Seen
<1> HIDE DEF g, map
<1>16. graphs \in Seq(GraphType) /\ Len(graphs) = m + 1 /\ graphs[m + 1] = g
       /\ \A i \in 1..m : graphs[i] = thread_graphs_[i]
  <2>1. g \in GraphType
    BY <1>14 DEF GraphOK
  <2> QED
    BY <1>3, <2>1
<1> HIDE DEF graphs, m
<1>17. ParseTypes'
  <2>1. <<>> \in Seq(BasicBlock)
    OBVIOUS
  <2> QED
    BY <1>1, <1>2, <1>12, <1>16, <2>1 DEF IInvParse, ParseTypes
<1>18. ParseBlocks'
  BY <1>1 DEF ParseBlocks
<1>19. ParseNames'
  BY <1>1, <1>7, <1>16 DEF ParseNames
<1>20. ParseGraphs'
  <2>1. ASSUME NEW i \in 1..(m + 1)
        PROVE  /\ GraphOK(map, thread_names_[i], graphs[i])
               /\ (\A k \in DOMAIN module : Branching(module[k])) => OnlyAsserted(graphs[i])
    <3>1. CASE i = m + 1
      BY <1>7, <1>14, <1>15, <1>16, <3>1
    <3>2. CASE i \in 1..m
      <4>1. /\ GraphOK(inst_map_, thread_names_[i], thread_graphs_[i])
            /\ (\A k \in DOMAIN module : Branching(module[k])) => OnlyAsserted(thread_graphs_[i])
        BY <3>2 DEF IInvParse, ParseGraphs, m
      <4>2. inst_map_ \subseteq map
        BY DEF map
      <4>3. GraphOK(map, thread_names_[i], thread_graphs_[i])
        BY <4>1, <4>2, GraphGrows
      <4> QED
        BY <1>16, <3>2, <4>1, <4>3
    <3> QED
      BY <1>7, <3>1, <3>2
  <2> QED
    BY <1>1, <1>2, <1>16, <2>1 DEF ParseGraphs
<1>21. ParseEnds'
  <2>1. ~(cur_func' > Len(module'))
    BY <1>1, <1>4, <1>5
  <2> QED
    BY <2>1 DEF ParseEnds, Parsed
<1> QED
  BY <1>17, <1>18, <1>19, <1>20, <1>21 DEF IInvParse

\* The symbols of the assertions are those of node 1.
LEMMA MakeOldInterfaceInv ==
    ASSUME IInvParse, MakeOldInterface
    PROVE  IInvParse'
<1>1. /\ bb_automata = <<>> /\ cur_func = Len(module) /\ cur_func' = cur_func + 1
      /\ mAssnMap' = AssertionSymbols
      /\ UNCHANGED <<module, cur_block, cur_inst, bb_automata, inst_list_, inst_map_,
                     thread_names_, thread_graphs_>>
  BY DEF MakeOldInterface, AssertionSymbols
<1>2. module \in Modules /\ Len(module) \in Nat
  BY ModuleType DEF IInvParse, ParseTypes
<1>3. AssertionSymbols \in SUBSET Nat
  <2>1. ASSUME NEW i \in DOMAIN thread_graphs_, NEW e \in thread_graphs_[i].edges, e[1] = 1
        PROVE  GetLabel(e[2]) \in Nat
    <3>1. i \in 1..Len(thread_graphs_)
      BY DEF IInvParse, ParseTypes
    <3>2. GraphOK(inst_map_, thread_names_[i], thread_graphs_[i])
      BY <3>1 DEF IInvParse, ParseGraphs
    <3>3. e[2] # -1
      BY <2>1, <3>2 DEF GraphOK
    <3>4. Owned(inst_map_, thread_names_[i], e[2])
      BY <3>2, <3>3 DEF GraphOK
    <3>5. inst_map_ \in SUBSET Entry
      BY DEF IInvParse, ParseTypes, TablesOK
    <3>6. e[2] \in Nat
      BY <3>4, <3>5 DEF Owned, Entry
    <3> QED
      BY <3>6 DEF GetLabel
  <2> QED
    BY <2>1 DEF AssertionSymbols
<1>4. ParseTypes'
  BY <1>1, <1>2, <1>3 DEF IInvParse, ParseTypes
<1>5. ParseBlocks' /\ ParseGraphs'
  BY <1>1 DEF IInvParse, ParseBlocks, ParseGraphs
<1>6. ParseNames'
  <2>1. \A i \in 1..Len(thread_names_) :
          \E k \in 1..Len(module) : k <= cur_func /\ module[k].name = thread_names_[i]
    BY DEF IInvParse, ParseNames
  <2>2. ASSUME NEW i \in 1..Len(thread_names_)
        PROVE  \E k \in 1..Len(module) : k <= cur_func' /\ module[k].name = thread_names_[i]
    BY <1>1, <1>2, <2>1
  <2> QED
    BY <1>1, <2>2 DEF IInvParse, ParseNames
<1>7. ParseEnds'
  <2>1. AssertionSymbols' = AssertionSymbols
    BY <1>1 DEF AssertionSymbols
  <2> QED
    BY <1>1, <2>1 DEF ParseEnds
<1> QED
  BY <1>4, <1>5, <1>6, <1>7 DEF IInvParse

\* Nothing has been parsed.
LEMMA ParseInit ==
    ASSUME Init
    PROVE  IInvParse
<1>1. module \in Modules /\ Len(module) \in Nat
  BY ModuleType DEF Init
<1>2. TablesOK(inst_list_, inst_map_)
  BY DEF Init, TablesOK
<1>3. ~Parsed
  BY <1>1 DEF Init, Parsed
<1>4. ParseTypes
  <2>1. <<>> \in Seq(BasicBlock) /\ <<>> \in Seq(Name) /\ <<>> \in Seq(GraphType)
    OBVIOUS
  <2> QED
    BY <1>1, <1>2, <2>1 DEF Init, ParseTypes
<1>5. ParseBlocks
  BY DEF Init, ParseBlocks
<1>6. ParseNames
  BY DEF Init, ParseNames
<1>7. ParseGraphs
  BY DEF Init, ParseGraphs
<1> QED
  BY <1>3, <1>4, <1>5, <1>6, <1>7 DEF IInvParse, ParseEnds

\* Every step of the parser keeps the invariant.
LEMMA ParseStep ==
    ASSUME IInvParse, ParseNext
    PROVE  IInvParse'
BY NextFunctionInv, ParseCallInv, ParseAssignInv, ParseAtomicCmpXchgInv, ParseRetInv, ParseBrInv,
   ParseCondBrInv, ParsePHIInv, SkipInstInv, NextBlockInv, FinishThreadInv, MakeOldInterfaceInv
   DEF ParseNext

\* A step that is not the parser's keeps it too.
LEMMA ParseStutter ==
    ASSUME IInvParse, UNCHANGED <<module, parsing>>
    PROVE  IInvParse'
<1>1. UNCHANGED <<module, cur_func, cur_block, cur_inst, bb_automata, inst_list_, inst_map_,
                  thread_names_, thread_graphs_, mAssnMap>>
  BY DEF parsing
<1>2. UNCHANGED <<Func, thread_name, AssertionSymbols, Parsed>>
  BY <1>1 DEF Func, thread_name, AssertionSymbols, Parsed
<1>3. ParseTypes'
  BY <1>1 DEF IInvParse, ParseTypes
<1>4. ParseBlocks'
  BY <1>1, <1>2 DEF IInvParse, ParseBlocks
<1>5. ParseNames'
  BY <1>1, <1>2 DEF IInvParse, ParseNames
<1>6. ParseGraphs'
  BY <1>1 DEF IInvParse, ParseGraphs
<1>7. ParseEnds'
  BY <1>1, <1>2 DEF IInvParse, ParseEnds
<1> QED
  BY <1>3, <1>4, <1>5, <1>6, <1>7 DEF IInvParse

\* When everything is parsed there is no step of the parser left.
LEMMA ParseOver ==
    ASSUME IInvParse, Parsed
    PROVE  ~ParseNext
<1>1. bb_automata = <<>> /\ cur_func > Len(module) /\ module \in Modules /\ cur_func \in Int
  BY DEF IInvParse, ParseEnds, ParseTypes, Parsed
<1>2. Len(module) \in Nat
  BY <1>1, ModuleType
<1> QED
  BY <1>1, <1>2 DEF ParseNext, NextFunction, ParseCall, ParseAssign, ParseAtomicCmpXchg, ParseRet,
     ParseBr, ParseCondBr, ParsePHI, SkipInst, NextBlock, FinishThread, MakeOldInterface, InBlock

\* The invariant implies the type invariant of Program.
LEMMA IInvTypeOK ==
    ASSUME IInvParse
    PROVE  TypeOK
<1>1. module \in Modules /\ cur_func \in 0..(Len(module) + 1)
  BY DEF IInvParse, ParseTypes
<1>2. Len(inst_list_) \in Nat /\ \A e \in inst_map_ : /\ e[3] \in Nat /\ e[3] < Len(inst_list_)
                                                      /\ inst_list_[e[3] + 1] = e[2]
  BY DEF IInvParse, ParseTypes, TablesOK, Entry
<1>3. ASSUME NEW i \in DOMAIN thread_graphs_, NEW e \in thread_graphs_[i].edges
      PROVE  /\ {e[1], e[3]} \subseteq 0..(thread_graphs_[i].size - 1)
             /\ e[2] \in -1..(Len(inst_list_) - 1)
  <2>1. i \in 1..Len(thread_graphs_)
    BY DEF IInvParse, ParseTypes
  <2>2. GraphOK(inst_map_, thread_names_[i], thread_graphs_[i])
    BY <2>1 DEF IInvParse, ParseGraphs
  <2>3. thread_graphs_[i].size \in Nat /\ e \in Nat \X Int \X Nat
    BY <2>2 DEF GraphOK, GraphType
  <2>4. e[1] \in Nat /\ e[3] \in Nat /\ e[1] < thread_graphs_[i].size /\ e[3] < thread_graphs_[i].size
    BY <2>2, <2>3 DEF GraphOK
  <2>5. e[2] = -1 \/ Owned(inst_map_, thread_names_[i], e[2])
    BY <2>2 DEF GraphOK
  <2>6. e[2] \in -1..(Len(inst_list_) - 1)
    BY <1>2, <2>5 DEF Owned
  <2> QED
    BY <2>3, <2>4, <2>6
<1> QED
  BY <1>1, <1>2, <1>3 DEF TypeOK

\* It implies that symbols are apart.
LEMMA IInvSymbolsApart ==
    ASSUME IInvParse
    PROVE  SymbolsApart
<1>1. DOMAIN thread_graphs_ = 1..Len(thread_graphs_) /\ Len(thread_graphs_) \in Nat
      /\ TablesOK(inst_list_, inst_map_)
  BY DEF IInvParse, ParseTypes
<1>2. \A i \in 1..Len(thread_graphs_) : GraphOK(inst_map_, thread_names_[i], thread_graphs_[i])
  BY DEF IInvParse, ParseGraphs
<1>3. ASSUME NEW i \in DOMAIN thread_graphs_, NEW j \in DOMAIN thread_graphs_,
             NEW n \in Symbols(thread_graphs_[i]), n \in Symbols(thread_graphs_[j])
      PROVE  i = j
  <2>1. Owned(inst_map_, thread_names_[i], n) /\ Owned(inst_map_, thread_names_[j], n)
    BY <1>1, <1>2, <1>3 DEF Symbols, GraphOK
  <2>2. PICK d \in inst_map_ : d[1] = thread_names_[i] /\ d[3] = n
    BY <2>1 DEF Owned
  <2>3. PICK e \in inst_map_ : e[1] = thread_names_[j] /\ e[3] = n
    BY <2>1 DEF Owned
  <2>4. thread_names_[i] = thread_names_[j]
    BY <1>1, <2>2, <2>3 DEF TablesOK
  <2>5. i \in 1..Len(thread_names_) /\ j \in 1..Len(thread_names_)
    <3>1. bb_automata = <<>> => Len(thread_names_) = Len(thread_graphs_)
      BY DEF IInvParse, ParseNames
    <3>2. bb_automata # <<>> => Len(thread_names_) = Len(thread_graphs_) + 1
      BY DEF IInvParse, ParseNames
    <3> QED
      BY <1>1, <3>1, <3>2
  <2> QED
    BY <2>4, <2>5 DEF IInvParse, ParseNames
<1>4. ASSUME NEW i \in DOMAIN thread_graphs_,
             NEW d \in thread_graphs_[i].edges, NEW e \in thread_graphs_[i].edges,
             d[1] = 1, d[2] = e[2]
      PROVE  d = e
  BY <1>1, <1>2, <1>4 DEF GraphOK
<1> QED
  BY <1>3, <1>4 DEF SymbolsApart

-----------------------------------------------------------------------------
(***************************************************************************)
(* Generators.  The construction is of libfaudes, but what makes it right  *)
(* here belongs to the graphs: the threads have no event in common on      *)
(* their way, so a product has all pairs of reachable states.              *)
(***************************************************************************)
\* Sets that grow by one function are closed after as many steps as there are
\* elements.
Stages(S, n, B, F) ==
    /\ IsFiniteSet(S) /\ n \in Nat /\ Cardinality(S) <= n
    /\ B \in [0..n -> SUBSET S] /\ B[0] # {}
    /\ F \in [SUBSET S -> SUBSET S] /\ \A X \in SUBSET S : X \subseteq F[X]
    /\ \A i \in 1..n : B[i] = F[B[i-1]]

\* An increasing sequence of sets reaches its limit in as many steps as there are elements.
LEMMA Saturation ==
    ASSUME NEW S, NEW n, NEW B, NEW F, Stages(S, n, B, F)
    PROVE  F[B[n]] = B[n]
<1> USE DEF Stages
<1> DEFINE T == {i \in Nat : i <= n => F[B[i]] = B[i] \/ Cardinality(B[i]) >= i + 1}
<1>1. ASSUME NEW X \in SUBSET S
      PROVE  IsFiniteSet(X) /\ Cardinality(X) \in Nat /\ Cardinality(X) <= Cardinality(S)
  BY FS_Subset, FS_CardinalityType
<1>2. 0 \in T
  <2>1. B[0] \in SUBSET S
    OBVIOUS
  <2>2. Cardinality(B[0]) # 0 /\ Cardinality(B[0]) \in Nat
    BY <1>1, <2>1, FS_EmptySet
  <2> QED
    BY <2>2
<1>3. ASSUME NEW i \in Nat, i \in T
      PROVE  i + 1 \in T
  <2>1. SUFFICES ASSUME i + 1 <= n
                 PROVE  F[B[i+1]] = B[i+1] \/ Cardinality(B[i+1]) >= i + 1 + 1
    OBVIOUS
  <2>2. i \in 0..n /\ i + 1 \in 1..n /\ i + 1 - 1 = i /\ i + 1 \in 0..n
    BY <2>1
  <2>3. B[i] \in SUBSET S /\ B[i+1] \in SUBSET S /\ B[i+1] = F[B[i]] /\ B[i] \subseteq B[i+1]
    BY <2>2
  <2>4. CASE F[B[i]] = B[i]
    BY <2>3, <2>4
  <2>5. CASE F[B[i]] # B[i]
    <3>1. Cardinality(B[i]) >= i + 1
      BY <1>3, <2>1, <2>5
    <3>2. IsFiniteSet(B[i+1]) /\ Cardinality(B[i+1]) \in Nat /\ Cardinality(B[i]) \in Nat
      BY <1>1, <2>3
    <3>3. B[i] \in SUBSET B[i+1] /\ B[i] # B[i+1]
      BY <2>3, <2>5
    <3>4. Cardinality(B[i]) <= Cardinality(B[i+1]) /\ Cardinality(B[i+1]) # Cardinality(B[i])
      BY <3>2, <3>3, FS_Subset
    <3> QED
      BY <3>1, <3>2, <3>4
  <2> QED
    BY <2>4, <2>5
<1>4. Nat \subseteq T
  <2> HIDE DEF T
  <2> QED
    BY <1>2, <1>3, Nats!NatSetInduction
<1>5. F[B[n]] = B[n] \/ Cardinality(B[n]) >= n + 1
  BY <1>4
<1>6. Cardinality(B[n]) \in Nat /\ Cardinality(B[n]) <= Cardinality(S)
  BY <1>1
<1>7. Cardinality(S) \in Nat
  BY FS_CardinalityType
<1> QED
  BY <1>5, <1>6, <1>7

Finite(g) ==
    /\ IsFiniteSet(g.states)
    /\ g.init \subseteq g.states /\ g.init # {}
    /\ g.trans \subseteq g.states \X Nat \X g.states

ClosedUnder(g, T) == \A tr \in g.trans : tr[1] \in T => tr[3] \in T

\* The states in every closed set with the initial ones.
Reachable(g) ==
    {s \in g.states : \A T \in SUBSET g.states : g.init \subseteq T /\ ClosedUnder(g, T) => s \in T}

\* The reachable states contain the initial ones and are closed.
LEMMA ReachableFacts ==
    ASSUME NEW g, Finite(g)
    PROVE  /\ Reachable(g) \subseteq g.states /\ g.init \subseteq Reachable(g)
           /\ ClosedUnder(g, Reachable(g))
           /\ \A T : g.init \subseteq T /\ ClosedUnder(g, T) => Reachable(g) \subseteq T
<1>1. Reachable(g) \subseteq g.states /\ g.init \subseteq Reachable(g)
  BY DEF Reachable, Finite
<1>2. ASSUME NEW tr \in g.trans, tr[1] \in Reachable(g)
      PROVE  tr[3] \in Reachable(g)
  <2>1. tr[3] \in g.states
    BY DEF Finite
  <2>2. ASSUME NEW T \in SUBSET g.states, g.init \subseteq T, ClosedUnder(g, T)
        PROVE  tr[3] \in T
    BY <1>2, <2>2 DEF Reachable, ClosedUnder
  <2> QED
    BY <2>1, <2>2 DEF Reachable
<1>3. ASSUME NEW T, g.init \subseteq T, ClosedUnder(g, T)
      PROVE  Reachable(g) \subseteq T
  <2> DEFINE U == T \cap g.states
  <2>1. U \in SUBSET g.states /\ g.init \subseteq U /\ ClosedUnder(g, U)
    BY <1>3 DEF Finite, ClosedUnder
  <2> HIDE DEF U
  <2>2. Reachable(g) \subseteq U
    BY <2>1 DEF Reachable
  <2> QED
    BY <2>2 DEF U
<1> QED
  BY <1>1, <1>2, <1>3 DEF ClosedUnder

Successors(g, X) == {tr[3] : tr \in {t \in g.trans : t[1] \in X}}

\* Every reachable state is found in as many steps as there are states.
LEMMA ReachedInSteps ==
    ASSUME NEW g, Finite(g), NEW n \in Nat, n = Cardinality(g.states)
    PROVE  \E B \in [0..n -> SUBSET g.states] :
              /\ B[0] = g.init
              /\ \A i \in 1..n : B[i] = B[i-1] \cup Successors(g, B[i-1])
              /\ Reachable(g) \subseteq B[n]
<1> DEFINE S == g.states
           F == [X \in SUBSET S |-> X \cup Successors(g, X)]
           G == [p \in (1..n) \X SUBSET S |-> F[p[2]]]
<1>1. ASSUME NEW X \in SUBSET S
      PROVE  F[X] = X \cup Successors(g, X) /\ F[X] \in SUBSET S
  BY DEF Finite, Successors
<1>2. F \in [SUBSET S -> SUBSET S] /\ \A X \in SUBSET S : X \subseteq F[X]
  BY <1>1
<1> HIDE DEF F
<1>3. G \in [(1..n) \X SUBSET S -> SUBSET S] /\ g.init \in SUBSET S
  BY <1>2 DEF Finite
<1>4. PICK B : Nats!IsIteration(B, SUBSET S, g.init, n, G)
  <2> HIDE DEF G
  <2> QED
    BY <1>3, Nats!IterationExists
<1>5. B \in [0..n -> SUBSET S] /\ B[0] = g.init
  BY <1>4 DEF Nats!IsIteration
<1>6. ASSUME NEW i \in 1..n
      PROVE  B[i] = F[B[i-1]] /\ B[i-1] \in SUBSET S
  <2>1. i - 1 \in 0..n
    OBVIOUS
  <2>2. B[i-1] \in SUBSET S
    BY <1>5, <2>1
  <2>3. B[i] = G[<<i, B[i-1]>>]
    BY <1>4 DEF Nats!IsIteration
  <2> QED
    BY <2>2, <2>3
<1>7. F[B[n]] = B[n]
  <2>1. IsFiniteSet(S) /\ Cardinality(S) <= n
    BY DEF Finite
  <2>2. B[0] # {}
    BY <1>5 DEF Finite
  <2>3. \A i \in 1..n : B[i] = F[B[i-1]]
    BY <1>6
  <2> HIDE DEF S, G
  <2>4. Stages(S, n, B, F)
    BY <1>2, <1>5, <2>1, <2>2, <2>3 DEF Stages
  <2> QED
    BY <2>4, Saturation
<1>8. ClosedUnder(g, B[n])
  <2>1. B[n] \in SUBSET S
    BY <1>5
  <2>2. Successors(g, B[n]) \subseteq B[n]
    BY <1>1, <1>7, <2>1
  <2> QED
    BY <2>2 DEF ClosedUnder, Successors
<1>9. g.init \subseteq B[n]
  <2> DEFINE T == {i \in Nat : i <= n => g.init \subseteq B[i]}
  <2>1. 0 \in T
    BY <1>5
  <2>2. ASSUME NEW i \in Nat, i \in T
        PROVE  i + 1 \in T
    <3>1. SUFFICES ASSUME i + 1 <= n
                   PROVE  g.init \subseteq B[i+1]
      OBVIOUS
    <3>2. i + 1 \in 1..n /\ i + 1 - 1 = i
      BY <3>1
    <3>3. B[i+1] = F[B[i]] /\ B[i] \in SUBSET S /\ g.init \subseteq B[i]
      BY <1>6, <2>2, <3>1, <3>2
    <3> QED
      BY <1>2, <3>3
  <2>3. Nat \subseteq T
    <3> HIDE DEF T
    <3> QED
      BY <2>1, <2>2, Nats!NatSetInduction
  <2> QED
    BY <2>3
<1>10. Reachable(g) \subseteq B[n]
  BY <1>8, <1>9, ReachableFacts
<1>11. \A i \in 1..n : B[i] = B[i-1] \cup Successors(g, B[i-1])
  BY <1>1, <1>6
<1> QED
  BY <1>5, <1>10, <1>11

-----------------------------------------------------------------------------
(***************************************************************************)
(* The product of two generators whose events are private on their way.   *)
(***************************************************************************)
Private(g1, g2) == \A t \in g1.trans : t[1] \in Reachable(g1) => t[2] \notin Events(g2)

LeftMove(g, p, tr) == \E t \in g.trans : t[1] = p[1] /\ tr = <<p, t[2], <<t[3], p[2]>>>>
RightMove(g, p, tr) == \E t \in g.trans : t[1] = p[2] /\ tr = <<p, t[2], <<p[1], t[3]>>>>

\* A move from a pair of states leads to one.
LEMMA JointMovesRange ==
    ASSUME NEW g1, NEW g2, Finite(g1), Finite(g2), NEW p \in g1.states \X g2.states,
           NEW tr \in JointMoves(g1, g2, p)
    PROVE  tr[1] = p /\ tr \in (g1.states \X g2.states) \X Nat \X (g1.states \X g2.states)
<1>1. /\ \A t \in g1.trans : t[2] \in Nat /\ t[3] \in g1.states
      /\ \A t \in g2.trans : t[2] \in Nat /\ t[3] \in g2.states
  BY DEF Finite
<1>2. p[1] \in g1.states /\ p[2] \in g2.states
  OBVIOUS
<1>3. CASE \E t \in g1.trans : tr = <<p, t[2], <<t[3], p[2]>>>>
  BY <1>1, <1>2, <1>3
<1>4. CASE \E t \in g2.trans : tr = <<p, t[2], <<p[1], t[3]>>>>
  BY <1>1, <1>2, <1>4
<1>5. CASE \E t \in g1.trans \X g2.trans : tr = <<p, t[1][2], <<t[1][3], t[2][3]>>>>
  <2>1. PICK t \in g1.trans \X g2.trans : tr = <<p, t[1][2], <<t[1][3], t[2][3]>>>>
    BY <1>5
  <2>2. t[1] \in g1.trans /\ t[2] \in g2.trans
    OBVIOUS
  <2> QED
    BY <1>1, <2>1, <2>2
<1> QED
  BY <1>3, <1>4, <1>5 DEF JointMoves

\* Without common events a move is a move of one side.
LEMMA JointMovesPrivate ==
    ASSUME NEW g1, NEW g2, Private(g1, g2), Private(g2, g1),
           NEW p \in Reachable(g1) \X Reachable(g2), NEW tr
    PROVE  tr \in JointMoves(g1, g2, p) <=> LeftMove(g1, p, tr) \/ RightMove(g2, p, tr)
<1>1. p[1] \in Reachable(g1) /\ p[2] \in Reachable(g2)
  OBVIOUS
<1>2. ASSUME NEW t \in g1.trans, t[1] = p[1]
      PROVE  t[2] \notin Events(g2)
  BY <1>1, <1>2 DEF Private
<1>3. ASSUME NEW t \in g2.trans, t[1] = p[2]
      PROVE  t[2] \notin Events(g1)
  BY <1>1, <1>3 DEF Private
<1>4. ASSUME tr \in JointMoves(g1, g2, p)
      PROVE  LeftMove(g1, p, tr) \/ RightMove(g2, p, tr)
  <2>1. CASE \E t \in g1.trans : t[1] = p[1] /\ tr = <<p, t[2], <<t[3], p[2]>>>>
    BY <2>1 DEF LeftMove
  <2>2. CASE \E t \in g2.trans : t[1] = p[2] /\ tr = <<p, t[2], <<p[1], t[3]>>>>
    BY <2>2 DEF RightMove
  <2>3. CASE \E t \in g1.trans \X g2.trans : t[1][1] = p[1] /\ t[1][2] = t[2][2]
    <3>1. PICK t \in g1.trans \X g2.trans : t[1][1] = p[1] /\ t[1][2] = t[2][2]
      BY <2>3
    <3>2. t[1] \in g1.trans /\ t[2] \in g2.trans
      OBVIOUS
    <3> QED
      BY <1>2, <3>1, <3>2 DEF Events
  <2> QED
    BY <1>4, <2>1, <2>2, <2>3 DEF JointMoves
<1>5. ASSUME LeftMove(g1, p, tr)
      PROVE  tr \in JointMoves(g1, g2, p)
  <2>1. PICK t \in g1.trans : t[1] = p[1] /\ tr = <<p, t[2], <<t[3], p[2]>>>>
    BY <1>5 DEF LeftMove
  <2>2. t[2] \notin Events(g1) \cap Events(g2)
    BY <1>2, <2>1
  <2> QED
    BY <2>1, <2>2 DEF JointMoves
<1>6. ASSUME RightMove(g2, p, tr)
      PROVE  tr \in JointMoves(g1, g2, p)
  <2>1. PICK t \in g2.trans : t[1] = p[2] /\ tr = <<p, t[2], <<p[1], t[3]>>>>
    BY <1>6 DEF RightMove
  <2>2. t[2] \notin Events(g1) \cap Events(g2)
    BY <1>3, <2>1
  <2> QED
    BY <2>1, <2>2 DEF JointMoves
<1> QED
  BY <1>4, <1>5, <1>6

PairsAfter(g1, g2, X) == X \cup UNION {{tr[3] : tr \in JointMoves(g1, g2, p)} : p \in X}

\* The equations of Parallel.
LEMMA ParallelEquations ==
    ASSUME NEW g1, NEW g2, Finite(g1), Finite(g2),
           NEW n, n = Cardinality(g1.states) + Cardinality(g2.states)
    PROVE  \E R \in [0..n -> SUBSET (g1.states \X g2.states)] :
              /\ R[0] = g1.init \X g2.init
              /\ \A i \in 1..n : R[i] = PairsAfter(g1, g2, R[i-1])
              /\ Parallel(g1, g2) = [states |-> R[n],
                                     init   |-> g1.init \X g2.init,
                                     marked |-> R[n] \cap (g1.marked \X g2.marked),
                                     trans  |-> UNION {JointMoves(g1, g2, p) : p \in R[n]}]
<1> DEFINE U == g1.states \X g2.states
           m == Cardinality(g1.states) + Cardinality(g2.states)
           After(X) == X \cup UNION {{tr[3] : tr \in JointMoves(g1, g2, p)} : p \in X}
           Body(f) == [i \in 0..m |-> IF i = 0 THEN g1.init \X g2.init ELSE After(f[i-1])]
           G == [p \in (1..m) \X SUBSET U |-> After(p[2])]
           Last(f) == [states |-> f[m],
                       init   |-> g1.init \X g2.init,
                       marked |-> f[m] \cap (g1.marked \X g2.marked),
                       trans  |-> UNION {JointMoves(g1, g2, p) : p \in f[m]}]
<1>1. m \in Nat /\ g1.init \X g2.init \in SUBSET U
  <2>1. Cardinality(g1.states) \in Nat /\ Cardinality(g2.states) \in Nat
    BY FS_CardinalityType DEF Finite
  <2> QED
    BY <2>1 DEF Finite
<1>2. ASSUME NEW X \in SUBSET U
      PROVE  After(X) \in SUBSET U
  <2>1. ASSUME NEW p \in X, NEW tr \in JointMoves(g1, g2, p)
        PROVE  tr[3] \in U
    <3>1. p \in g1.states \X g2.states
      OBVIOUS
    <3> QED
      BY <3>1, JointMovesRange
  <2> QED
    BY <2>1
<1>3. G \in [(1..m) \X SUBSET U -> SUBSET U]
  <2> HIDE DEF After, m, U
  <2> QED
    BY <1>2
<1>4. PICK f : Nats!IsIteration(f, SUBSET U, g1.init \X g2.init, m, G)
  <2> DEFINE c == g1.init \X g2.init
  <2>1. c \in SUBSET U
    BY <1>1
  <2> HIDE DEF G, After, m, U, c
  <2>2. \E f : Nats!IsIteration(f, SUBSET U, c, m, G)
    BY <1>1, <1>3, <2>1, Nats!IterationExists
  <2> QED
    BY <2>2 DEF c
<1>5. ASSUME NEW k \in 1..m
      PROVE  f[k] = After(f[k-1])
  <2>1. f[k-1] \in SUBSET U /\ f[k] = G[<<k, f[k-1]>>]
    <3> HIDE DEF G, m, U
    <3> QED
      BY <1>1, <1>4 DEF Nats!IsIteration
  <2> HIDE DEF After, m, U
  <2> QED
    BY <2>1
<1>6. f \in [0..m -> SUBSET U] /\ f[0] = g1.init \X g2.init
  <2> HIDE DEF G, m, U
  <2> QED
    BY <1>4 DEF Nats!IsIteration
<1>7. f = Body(f)
  <2> HIDE DEF After, m, U
  <2> QED
    BY <1>5, <1>6
<1> DEFINE N == CHOOSE g : g = Body(g)
<1>8. Parallel(g1, g2) = Last(N)
  BY DEF Parallel
<1>9. N = Body(N)
  <2> HIDE DEF Body
  <2> QED
    BY <1>7
<1>10. N[0] = g1.init \X g2.init /\ \A i \in 1..m : N[i] = After(N[i-1])
  <2> HIDE DEF After, N, m
  <2>1. \A i \in 0..m : N[i] = IF i = 0 THEN g1.init \X g2.init ELSE After(N[i-1])
    BY <1>9
  <2>2. \A i \in 1..m : i \in 0..m /\ i # 0
    BY <1>1
  <2>3. 0 \in 0..m
    BY <1>1
  <2> QED
    BY <2>1, <2>2, <2>3
<1>11. N \in [0..m -> SUBSET U]
  <2> DEFINE T == {i \in Nat : i <= m => N[i] \in SUBSET U}
  <2>1. DOMAIN N = 0..m /\ N = [i \in 0..m |-> N[i]]
    <3> HIDE DEF After, N, m
    <3> QED
      BY <1>9
  <2> HIDE DEF After, N, m, U
  <2>2. 0 \in T
    BY <1>1, <1>10
  <2>3. ASSUME NEW i \in Nat, i \in T
        PROVE  i + 1 \in T
    <3>1. SUFFICES ASSUME i + 1 <= m
                   PROVE  N[i+1] \in SUBSET U
      OBVIOUS
    <3>2. i + 1 \in 1..m /\ i + 1 - 1 = i /\ N[i] \in SUBSET U
      BY <1>1, <2>3, <3>1
    <3>3. N[i+1] = After(N[i])
      BY <1>10, <3>2
    <3> QED
      BY <1>2, <3>2, <3>3
  <2>4. Nat \subseteq T
    <3> HIDE DEF T
    <3> QED
      BY <2>2, <2>3, Nats!NatSetInduction
  <2>5. \A i \in 0..m : N[i] \in SUBSET U
    BY <1>1, <2>4
  <2> QED
    BY <2>1, <2>5
<1> HIDE DEF N
<1>12. \A i \in 1..m : N[i] = PairsAfter(g1, g2, N[i-1])
  BY <1>10 DEF PairsAfter
<1> QED
  BY <1>8, <1>10, <1>11, <1>12

\* The pairs of reachable states are found, first along one generator, then
\* along the other.
LEMMA ParallelStates ==
    ASSUME NEW g1, NEW g2, Finite(g1), Finite(g2), Private(g1, g2), Private(g2, g1)
    PROVE  /\ Parallel(g1, g2).states = Reachable(g1) \X Reachable(g2)
           /\ Parallel(g1, g2).init = g1.init \X g2.init
           /\ Parallel(g1, g2).marked \subseteq Parallel(g1, g2).states
           /\ \A tr : tr \in Parallel(g1, g2).trans
                        <=> \E p \in Reachable(g1) \X Reachable(g2) :
                               LeftMove(g1, p, tr) \/ RightMove(g2, p, tr)
           /\ \E q1, q2, q3, q4 : Parallel(g1, g2)
                = [states |-> q1, init |-> q2, marked |-> q3, trans |-> q4]
<1> DEFINE R1 == Reachable(g1)
           R2 == Reachable(g2)
           n1 == Cardinality(g1.states)
           n2 == Cardinality(g2.states)
           U == g1.states \X g2.states
<1>1. n1 \in Nat /\ n2 \in Nat
  BY FS_CardinalityType DEF Finite
<1>2. /\ R1 \subseteq g1.states /\ R2 \subseteq g2.states
      /\ g1.init \subseteq R1 /\ g2.init \subseteq R2
      /\ ClosedUnder(g1, R1) /\ ClosedUnder(g2, R2)
  BY ReachableFacts
<1>3. PICK B1 \in [0..n1 -> SUBSET g1.states] :
         /\ B1[0] = g1.init
         /\ \A i \in 1..n1 : B1[i] = B1[i-1] \cup Successors(g1, B1[i-1])
         /\ R1 \subseteq B1[n1]
  BY <1>1, ReachedInSteps
<1>4. PICK B2 \in [0..n2 -> SUBSET g2.states] :
         /\ B2[0] = g2.init
         /\ \A i \in 1..n2 : B2[i] = B2[i-1] \cup Successors(g2, B2[i-1])
         /\ R2 \subseteq B2[n2]
  BY <1>1, ReachedInSteps
<1>5. PICK R \in [0..(n1 + n2) -> SUBSET U] :
         /\ R[0] = g1.init \X g2.init
         /\ \A i \in 1..(n1 + n2) : R[i] = PairsAfter(g1, g2, R[i-1])
         /\ Parallel(g1, g2) = [states |-> R[n1 + n2],
                                init   |-> g1.init \X g2.init,
                                marked |-> R[n1 + n2] \cap (g1.marked \X g2.marked),
                                trans  |-> UNION {JointMoves(g1, g2, p) : p \in R[n1 + n2]}]
  BY ParallelEquations
<1> HIDE DEF n1, n2, U, R1, R2
<1>6. ASSUME NEW p \in R1 \X R2, NEW tr
      PROVE  tr \in JointMoves(g1, g2, p) <=> LeftMove(g1, p, tr) \/ RightMove(g2, p, tr)
  BY JointMovesPrivate DEF R1, R2
<1>7. \A i \in 0..(n1 + n2) : R[i] \subseteq R1 \X R2
  <2> DEFINE T == {i \in Nat : i <= n1 + n2 => R[i] \subseteq R1 \X R2}
  <2>1. 0 \in T
    BY <1>2, <1>5
  <2>2. ASSUME NEW i \in Nat, i \in T
        PROVE  i + 1 \in T
    <3>1. SUFFICES ASSUME i + 1 <= n1 + n2, NEW q \in R[i+1]
                   PROVE  q \in R1 \X R2
      OBVIOUS
    <3>2. i + 1 \in 1..(n1 + n2) /\ i + 1 - 1 = i /\ R[i] \subseteq R1 \X R2
      BY <1>1, <2>2, <3>1
    <3>3. R[i+1] = PairsAfter(g1, g2, R[i])
      BY <1>5, <3>2
    <3>4. CASE q \in R[i]
      BY <3>2, <3>4
    <3>5. CASE \E p \in R[i] : \E tr \in JointMoves(g1, g2, p) : q = tr[3]
      <4>1. PICK p \in R[i] : \E tr \in JointMoves(g1, g2, p) : q = tr[3]
        BY <3>5
      <4>2. PICK tr \in JointMoves(g1, g2, p) : q = tr[3]
        BY <4>1
      <4>3. p \in R1 \X R2
        BY <3>2
      <4>4. LeftMove(g1, p, tr) \/ RightMove(g2, p, tr)
        BY <1>6, <4>3
      <4>5. CASE LeftMove(g1, p, tr)
        <5>1. PICK t \in g1.trans : t[1] = p[1] /\ tr = <<p, t[2], <<t[3], p[2]>>>>
          BY <4>5 DEF LeftMove
        <5>2. t[3] \in R1
          BY <1>2, <4>3, <5>1 DEF ClosedUnder
        <5> QED
          BY <4>2, <4>3, <5>1, <5>2
      <4>6. CASE RightMove(g2, p, tr)
        <5>1. PICK t \in g2.trans : t[1] = p[2] /\ tr = <<p, t[2], <<p[1], t[3]>>>>
          BY <4>6 DEF RightMove
        <5>2. t[3] \in R2
          BY <1>2, <4>3, <5>1 DEF ClosedUnder
        <5> QED
          BY <4>2, <4>3, <5>1, <5>2
      <4> QED
        BY <4>4, <4>5, <4>6
    <3> QED
      BY <3>1, <3>3, <3>4, <3>5 DEF PairsAfter
  <2>3. Nat \subseteq T
    <3> HIDE DEF T
    <3> QED
      BY <2>1, <2>2, Nats!NatSetInduction
  <2> QED
    BY <1>1, <2>3
<1>8. ASSUME NEW i \in Nat, i + 1 <= n1 + n2, NEW p \in R[i], NEW t
      PROVE  /\ p \in R[i+1]
             /\ t \in g1.trans /\ t[1] = p[1] => <<t[3], p[2]>> \in R[i+1]
             /\ t \in g2.trans /\ t[1] = p[2] => <<p[1], t[3]>> \in R[i+1]
  <2>1. i + 1 \in 1..(n1 + n2) /\ i + 1 - 1 = i /\ i \in 0..(n1 + n2)
    BY <1>1, <1>8
  <2>2. R[i+1] = PairsAfter(g1, g2, R[i]) /\ p \in R1 \X R2
    BY <1>5, <1>7, <2>1
  <2>3. \A tr \in JointMoves(g1, g2, p) : tr[3] \in R[i+1]
    BY <2>2 DEF PairsAfter
  <2>4. ASSUME t \in g1.trans, t[1] = p[1]
        PROVE  <<t[3], p[2]>> \in R[i+1]
    <3> DEFINE tr == <<p, t[2], <<t[3], p[2]>>>>
    <3>1. LeftMove(g1, p, tr)
      BY <2>4 DEF LeftMove
    <3>2. tr \in JointMoves(g1, g2, p)
      <4> HIDE DEF tr
      <4> QED
        BY <1>6, <2>2, <3>1
    <3> QED
      BY <2>3, <3>2
  <2>5. ASSUME t \in g2.trans, t[1] = p[2]
        PROVE  <<p[1], t[3]>> \in R[i+1]
    <3> DEFINE tr == <<p, t[2], <<p[1], t[3]>>>>
    <3>1. RightMove(g2, p, tr)
      BY <2>5 DEF RightMove
    <3>2. tr \in JointMoves(g1, g2, p)
      <4> HIDE DEF tr
      <4> QED
        BY <1>6, <2>2, <3>1
    <3> QED
      BY <2>3, <3>2
  <2> QED
    BY <2>2, <2>4, <2>5 DEF PairsAfter
<1>9. B1[n1] \X g2.init \subseteq R[n1]
  <2> DEFINE T == {i \in Nat : i <= n1 => B1[i] \X g2.init \subseteq R[i]}
  <2>1. 0 \in T
    BY <1>3, <1>5
  <2>2. ASSUME NEW i \in Nat, i \in T
        PROVE  i + 1 \in T
    <3>1. SUFFICES ASSUME i + 1 <= n1, NEW x \in B1[i+1], NEW y \in g2.init
                   PROVE  <<x, y>> \in R[i+1]
      OBVIOUS
    <3>2. i + 1 \in 1..n1 /\ i + 1 - 1 = i /\ B1[i] \X g2.init \subseteq R[i] /\ i + 1 <= n1 + n2
      BY <1>1, <2>2, <3>1
    <3>3. B1[i+1] = B1[i] \cup Successors(g1, B1[i])
      BY <1>3, <3>2
    <3>4. CASE x \in B1[i]
      BY <1>8, <3>2, <3>4
    <3>5. CASE x \in Successors(g1, B1[i])
      <4>1. PICK t \in g1.trans : t[1] \in B1[i] /\ x = t[3]
        BY <3>5 DEF Successors
      <4> DEFINE p == <<t[1], y>>
      <4>2. p \in R[i] /\ p[1] = t[1] /\ p[2] = y
        BY <3>2, <4>1
      <4> HIDE DEF p
      <4> QED
        BY <1>8, <3>2, <4>1, <4>2
    <3> QED
      BY <3>3, <3>4, <3>5
  <2>3. Nat \subseteq T
    <3> HIDE DEF T
    <3> QED
      BY <2>1, <2>2, Nats!NatSetInduction
  <2> QED
    BY <1>1, <2>3
<1>10. B1[n1] \X B2[n2] \subseteq R[n1 + n2]
  <2> DEFINE T == {i \in Nat : i <= n2 => B1[n1] \X B2[i] \subseteq R[n1 + i]}
  <2>1. 0 \in T
    <3>1. n1 + 0 = n1
      BY <1>1
    <3> QED
      BY <1>4, <1>9, <3>1
  <2>2. ASSUME NEW i \in Nat, i \in T
        PROVE  i + 1 \in T
    <3>1. SUFFICES ASSUME i + 1 <= n2, NEW x \in B1[n1], NEW y \in B2[i+1]
                   PROVE  <<x, y>> \in R[n1 + (i + 1)]
      OBVIOUS
    <3> DEFINE k == n1 + i
    <3>2. i + 1 \in 1..n2 /\ i + 1 - 1 = i /\ B1[n1] \X B2[i] \subseteq R[k] /\ k + 1 <= n1 + n2
          /\ k \in Nat /\ n1 + (i + 1) = k + 1
      BY <1>1, <2>2, <3>1
    <3>3. B2[i+1] = B2[i] \cup Successors(g2, B2[i])
      BY <1>4, <3>2
    <3> HIDE DEF k
    <3>4. CASE y \in B2[i]
      BY <1>8, <3>2, <3>4
    <3>5. CASE y \in Successors(g2, B2[i])
      <4>1. PICK t \in g2.trans : t[1] \in B2[i] /\ y = t[3]
        BY <3>5 DEF Successors
      <4> DEFINE p == <<x, t[1]>>
      <4>2. p \in R[k] /\ p[1] = x /\ p[2] = t[1]
        BY <3>2, <4>1
      <4> HIDE DEF p
      <4> QED
        BY <1>8, <3>2, <4>1, <4>2
    <3> QED
      BY <3>3, <3>4, <3>5
  <2>3. Nat \subseteq T
    <3> HIDE DEF T
    <3> QED
      BY <2>1, <2>2, Nats!NatSetInduction
  <2> QED
    BY <1>1, <2>3
<1>11. R[n1 + n2] = R1 \X R2
  <2>1. n1 + n2 \in 0..(n1 + n2)
    BY <1>1
  <2> QED
    BY <1>3, <1>4, <1>7, <1>10, <2>1
<1>12. ASSUME NEW tr
       PROVE  tr \in Parallel(g1, g2).trans <=> \E p \in R1 \X R2 : LeftMove(g1, p, tr) \/ RightMove(g2, p, tr)
  <2>1. tr \in Parallel(g1, g2).trans <=> \E p \in R1 \X R2 : tr \in JointMoves(g1, g2, p)
    BY <1>5, <1>11
  <2> QED
    BY <1>6, <2>1
<1>13. /\ Parallel(g1, g2).states = R1 \X R2 /\ Parallel(g1, g2).init = g1.init \X g2.init
       /\ Parallel(g1, g2).marked \subseteq Parallel(g1, g2).states
  BY <1>5, <1>11
<1>14. \E q1, q2, q3, q4 : Parallel(g1, g2)
                = [states |-> q1, init |-> q2, marked |-> q3, trans |-> q4]
  BY <1>5
<1> QED
  BY <1>12, <1>13, <1>14 DEF R1, R2

\* All states of a product are reachable.
LEMMA ParallelReachable ==
    ASSUME NEW g1, NEW g2, Finite(g1), Finite(g2), Private(g1, g2), Private(g2, g1)
    PROVE  /\ Finite(Parallel(g1, g2))
           /\ Reachable(Parallel(g1, g2)) = Reachable(g1) \X Reachable(g2)
<1> DEFINE R1 == Reachable(g1)
           R2 == Reachable(g2)
           par == Parallel(g1, g2)
<1>1. /\ R1 \subseteq g1.states /\ R2 \subseteq g2.states
      /\ g1.init \subseteq R1 /\ g2.init \subseteq R2
      /\ ClosedUnder(g1, R1) /\ ClosedUnder(g2, R2)
  BY ReachableFacts
<1>2. /\ par.states = R1 \X R2 /\ par.init = g1.init \X g2.init
      /\ \A tr : tr \in par.trans
                   <=> \E p \in R1 \X R2 : LeftMove(g1, p, tr) \/ RightMove(g2, p, tr)
  BY ParallelStates
<1>3. /\ \A Z : g1.init \subseteq Z /\ ClosedUnder(g1, Z) => R1 \subseteq Z
      /\ \A Z : g2.init \subseteq Z /\ ClosedUnder(g2, Z) => R2 \subseteq Z
  BY ReachableFacts
<1> HIDE DEF par, R1, R2
<1>4. Finite(par)
  <2>1. IsFiniteSet(R1) /\ IsFiniteSet(R2)
    BY <1>1, FS_Subset DEF Finite
  <2>2. IsFiniteSet(par.states)
    BY <1>2, <2>1, FS_Product
  <2>3. par.init \subseteq par.states /\ par.init # {}
    <3>1. PICK x, y : x \in g1.init /\ y \in g2.init
      BY DEF Finite
    <3>2. <<x, y>> \in par.init
      BY <1>2, <3>1
    <3> QED
      BY <1>1, <1>2, <3>2
  <2>4. ASSUME NEW tr \in par.trans
        PROVE  tr \in par.states \X Nat \X par.states
    <3>1. PICK p \in R1 \X R2 : LeftMove(g1, p, tr) \/ RightMove(g2, p, tr)
      BY <1>2
    <3>2. CASE LeftMove(g1, p, tr)
      <4>1. PICK t \in g1.trans : t[1] = p[1] /\ tr = <<p, t[2], <<t[3], p[2]>>>>
        BY <3>2 DEF LeftMove
      <4>2. t[3] \in R1 /\ t[2] \in Nat
        BY <1>1, <4>1 DEF ClosedUnder, Finite
      <4> QED
        BY <1>2, <4>1, <4>2
    <3>3. CASE RightMove(g2, p, tr)
      <4>1. PICK t \in g2.trans : t[1] = p[2] /\ tr = <<p, t[2], <<p[1], t[3]>>>>
        BY <3>3 DEF RightMove
      <4>2. t[3] \in R2 /\ t[2] \in Nat
        BY <1>1, <4>1 DEF ClosedUnder, Finite
      <4> QED
        BY <1>2, <4>1, <4>2
    <3> QED
      BY <3>1, <3>2, <3>3
  <2> QED
    BY <2>2, <2>3, <2>4 DEF Finite
<1>5. ASSUME NEW Z, par.init \subseteq Z, ClosedUnder(par, Z)
      PROVE  R1 \X R2 \subseteq Z
  <2>1. ASSUME NEW x \in R1, NEW y \in R2, <<x, y>> \in Z, NEW t
        PROVE  /\ t \in g1.trans /\ t[1] = x => t[3] \in R1 /\ <<t[3], y>> \in Z
               /\ t \in g2.trans /\ t[1] = y => t[3] \in R2 /\ <<x, t[3]>> \in Z
    <3> DEFINE p == <<x, y>>
    <3>1. p \in R1 \X R2 /\ p[1] = x /\ p[2] = y
      OBVIOUS
    <3>2. ASSUME t \in g1.trans, t[1] = x
          PROVE  <<t[3], y>> \in Z
      <4> DEFINE tr == <<p, t[2], <<t[3], p[2]>>>>
      <4>1. LeftMove(g1, p, tr)
        BY <3>2 DEF LeftMove
      <4>2. tr \in par.trans
        <5> HIDE DEF tr, p
        <5> QED
          BY <1>2, <3>1, <4>1
      <4>3. tr[1] \in Z
        BY <2>1
      <4>4. tr[3] \in Z
        <5> HIDE DEF tr
        <5> QED
          BY <1>5, <4>2, <4>3 DEF ClosedUnder
      <4> QED
        BY <4>4
    <3>3. ASSUME t \in g2.trans, t[1] = y
          PROVE  <<x, t[3]>> \in Z
      <4> DEFINE tr == <<p, t[2], <<p[1], t[3]>>>>
      <4>1. RightMove(g2, p, tr)
        BY <3>3 DEF RightMove
      <4>2. tr \in par.trans
        <5> HIDE DEF tr, p
        <5> QED
          BY <1>2, <3>1, <4>1
      <4>3. tr[1] \in Z
        BY <2>1
      <4>4. tr[3] \in Z
        <5> HIDE DEF tr
        <5> QED
          BY <1>5, <4>2, <4>3 DEF ClosedUnder
      <4> QED
        BY <4>4
    <3> QED
      BY <1>1, <3>2, <3>3 DEF ClosedUnder
  <2>2. ASSUME NEW y \in g2.init
        PROVE  \A x \in R1 : <<x, y>> \in Z
    <3> DEFINE T == {x \in R1 : <<x, y>> \in Z}
    <3>1. g1.init \subseteq T
      BY <1>1, <1>2, <1>5
    <3>2. ClosedUnder(g1, T)
      BY <1>1, <2>1 DEF ClosedUnder
    <3>3. R1 \subseteq T
      <4> HIDE DEF T
      <4> QED
        BY <1>3, <3>1, <3>2
    <3> QED
      BY <3>3
  <2>3. R2 \subseteq {y \in R2 : \A x \in R1 : <<x, y>> \in Z}
    <3> DEFINE T == {y \in R2 : \A x \in R1 : <<x, y>> \in Z}
    <3>1. g2.init \subseteq T
      BY <1>1, <2>2
    <3>2. ClosedUnder(g2, T)
      BY <1>1, <2>1 DEF ClosedUnder
    <3> HIDE DEF T
    <3>3. R2 \subseteq T
      BY <1>3, <3>1, <3>2
    <3> QED
      BY <3>3 DEF T
  <2> QED
    BY <2>3
<1>6. Reachable(par) = R1 \X R2
  <2>1. par.states = R1 \X R2 /\ Reachable(par) \subseteq par.states
    BY <1>2, <1>4, ReachableFacts
  <2>2. par.init \subseteq Reachable(par) /\ ClosedUnder(par, Reachable(par))
    BY <1>4, ReachableFacts
  <2>3. R1 \X R2 \subseteq Reachable(par)
    BY <1>5, <2>2
  <2> QED
    BY <2>1, <2>3
<1> QED
  BY <1>4, <1>6 DEF par, R1, R2

-----------------------------------------------------------------------------
(***************************************************************************)
(* The product of the threads.  at gives, for a reachable state, the node  *)
(* of each thread.  A thread can be moved without the others: what is      *)
(* reachable for one is reachable beside any state of the others.          *)
(***************************************************************************)
Edges(T, i) == T[i].edges

Put(v, i, x) == [v EXCEPT ![i] = x]

\* Thread i goes along e, which takes the nodes from v to w with the symbol a.
Moved(T, v, a, w, i, e) ==
    e \in Edges(T, i) /\ e[1] = v[i] /\ a = GetLabel(e[2]) /\ w = Put(v, i, e[3])

IsGenerator(g) ==
    /\ \E q1, q2, q3, q4 : g = [states |-> q1, init |-> q2, marked |-> q3, trans |-> q4]
    /\ Finite(g) /\ g.marked \subseteq g.states

\* The events of all transitions are symbols of the threads; an assertion
\* leads to the accepting node.
EventsOf(T, g, c, at) ==
    \A tr \in g.trans : \E i \in 1..c : \E e \in Edges(T, i) :
        tr[2] = GetLabel(e[2]) /\ (tr[3] \in Reachable(g) /\ e[1] = 1 => at[tr[3]][i] = 2)

PlacesOf(g, c, at) ==
    /\ at \in [Reachable(g) -> [1..c -> Nat \ {0}]]
    /\ \E s : g.init = {s} /\ at[s] = [i \in 1..c |-> 3]
    /\ \A s, t \in Reachable(g) : at[s] = at[t] => s = t
    /\ \A s, t \in Reachable(g) : \A i \in 1..c :
          \E u \in Reachable(g) : at[u] = Put(at[s], i, at[t][i])

MovesOf(T, g, c, at) ==
    /\ \A tr \in g.trans : tr[1] \in Reachable(g) =>
          \E i \in 1..c : \E e \in Edges(T, i) : Moved(T, at[tr[1]], tr[2], at[tr[3]], i, e)
    /\ \A s \in Reachable(g) : \A i \in 1..c : \A e \in Edges(T, i) : e[1] = at[s][i] =>
          \E t \in Reachable(g) :
              <<s, GetLabel(e[2]), t>> \in g.trans /\ Moved(T, at[s], GetLabel(e[2]), at[t], i, e)

Deterministically(g) ==
    \A d, e \in g.trans : d[1] \in Reachable(g) /\ d[1] = e[1] /\ d[2] = e[2] => d = e

Shuffle(T, g, c, at) ==
    IsGenerator(g) /\ EventsOf(T, g, c, at) /\ PlacesOf(g, c, at) /\ MovesOf(T, g, c, at) /\ Deterministically(g)

\* The edges of a thread's graph.
LEMMA EdgeFacts ==
    ASSUME IInvParse, NEW i \in 1..Len(thread_graphs_)
    PROVE  /\ thread_graphs_[i].size \in Nat
           /\ \A e \in Edges(thread_graphs_, i) :
                /\ e \in Nat \X Int \X Nat /\ e[1] < thread_graphs_[i].size /\ e[3] < thread_graphs_[i].size
                /\ e[1] # 2 /\ GetLabel(e[2]) \in Nat
                /\ e[1] = 0 <=> e[2] = -1
                /\ e[1] = 0 <=> GetLabel(e[2]) = 0
                /\ e[1] = 0 \/ e[3] # 0
                /\ e[1] = 1 => e[3] = 2
           /\ \A d, e \in Edges(thread_graphs_, i) : d[1] = e[1] /\ GetLabel(d[2]) = GetLabel(e[2]) => d = e
<1>1. GraphOK(inst_map_, thread_names_[i], thread_graphs_[i])
  BY DEF IInvParse, ParseGraphs
<1>2. thread_graphs_[i].size \in Nat /\ thread_graphs_[i].edges \subseteq Nat \X Int \X Nat
  BY <1>1 DEF GraphOK, GraphType
<1>3. ASSUME NEW e \in Edges(thread_graphs_, i)
      PROVE  e[2] \in Int /\ (e[2] = -1 \/ e[2] \in Nat)
  <2>1. e[2] = -1 \/ Owned(inst_map_, thread_names_[i], e[2])
    BY <1>1 DEF GraphOK, Edges
  <2>2. inst_map_ \in SUBSET Entry
    BY DEF IInvParse, ParseTypes, TablesOK
  <2> QED
    BY <1>2, <2>1, <2>2 DEF Owned, Entry, Edges
<1>4. ASSUME NEW e \in Edges(thread_graphs_, i)
      PROVE  GetLabel(e[2]) \in Nat /\ (e[2] = -1 <=> GetLabel(e[2]) = 0)
  BY <1>3 DEF GetLabel
<1>5. ASSUME NEW d \in Edges(thread_graphs_, i), NEW e \in Edges(thread_graphs_, i), d[1] = e[1], GetLabel(d[2]) = GetLabel(e[2])
      PROVE  d = e
  <2>1. d[2] = e[2]
    BY <1>3, <1>5 DEF GetLabel
  <2> QED
    BY <1>1, <1>5, <2>1 DEF GraphOK, Edges
<1> QED
  BY <1>1, <1>2, <1>4, <1>5 DEF GraphOK, Edges

\* A symbol belongs to one thread, and that of an assertion to one edge.
LEMMA LabelOwner ==
    ASSUME IInvParse, NEW i \in 1..Len(thread_graphs_), NEW j \in 1..Len(thread_graphs_),
           NEW d \in Edges(thread_graphs_, i), NEW e \in Edges(thread_graphs_, j), GetLabel(d[2]) = GetLabel(e[2]), d[1] # 0
    PROVE  i = j /\ (d[1] = 1 => d = e)
<1>1. d[2] \in Int /\ e[2] \in Int /\ d[2] # -1
  BY EdgeFacts
<1>2. d[2] = e[2]
  BY <1>1 DEF GetLabel
<1>3. DOMAIN thread_graphs_ = 1..Len(thread_graphs_)
  BY DEF IInvParse, ParseTypes
<1>4. SymbolsApart
  BY IInvSymbolsApart
<1>5. d[2] \in Symbols(thread_graphs_[i]) /\ e[2] \in Symbols(thread_graphs_[j])
  BY <1>1, <1>2 DEF Symbols, Edges
<1>6. i = j
  BY <1>2, <1>3, <1>4, <1>5 DEF SymbolsApart
<1> QED
  BY <1>2, <1>3, <1>4, <1>6 DEF SymbolsApart, Edges

\* The generator of one thread.
LEMMA ThreadGenerator ==
    ASSUME IInvParse, NEW i \in 1..Len(thread_graphs_), ShapeRight(thread_graphs_[i])
    PROVE  LET g == CreateFAutomataFaudes(thread_graphs_[i])
           IN  /\ IsGenerator(g) /\ g.init = {3} /\ Reachable(g) \subseteq Nat \ {0}
               /\ \A tr : tr \in g.trans
                            <=> \E e \in Edges(thread_graphs_, i) : tr = <<e[1], GetLabel(e[2]), e[3]>>
<1> DEFINE adj == thread_graphs_[i]
           g == CreateFAutomataFaudes(adj)
<1>1. /\ adj.size \in Nat
      /\ \A e \in Edges(thread_graphs_, i) :
                /\ e \in Nat \X Int \X Nat /\ e[1] < adj.size /\ e[3] < adj.size
                /\ GetLabel(e[2]) \in Nat
                /\ e[1] = 0 \/ e[3] # 0
  BY EdgeFacts
<1>2. adj.size >= 4
  BY DEF ShapeRight
<1>3. /\ g.states = 0..(adj.size - 1) /\ g.init = {3} /\ g.marked = {2}
      /\ g.trans = {<<e[1], GetLabel(e[2]), e[3]>> : e \in Edges(thread_graphs_, i)}
      /\ \E q1, q2, q3, q4 : g = [states |-> q1, init |-> q2, marked |-> q3, trans |-> q4]
  BY DEF CreateFAutomataFaudes, Edges
<1> HIDE DEF g, adj
<1>4. \A tr : tr \in g.trans <=> \E e \in Edges(thread_graphs_, i) : tr = <<e[1], GetLabel(e[2]), e[3]>>
  BY <1>3
<1>5. IsGenerator(g)
  <2>1. IsFiniteSet(g.states)
    <3>1. adj.size - 1 \in Int
      BY <1>1
    <3>2. \A m \in Int : IsFiniteSet(0..m)
      BY FS_Interval
    <3> QED
      BY <1>3, <3>1, <3>2
  <2>2. g.init \subseteq g.states /\ g.init # {} /\ g.marked \subseteq g.states
    BY <1>1, <1>2, <1>3
  <2>3. ASSUME NEW tr \in g.trans
        PROVE  tr \in g.states \X Nat \X g.states
    <3>1. PICK e \in Edges(thread_graphs_, i) : tr = <<e[1], GetLabel(e[2]), e[3]>>
      BY <1>4
    <3>2. e[1] \in Nat /\ e[3] \in Nat /\ e[1] < adj.size /\ e[3] < adj.size /\ GetLabel(e[2]) \in Nat
      BY <1>1
    <3>3. e[1] \in g.states /\ e[3] \in g.states
      BY <1>1, <1>3, <3>2
    <3> QED
      BY <3>1, <3>2, <3>3
  <2> QED
    BY <1>3, <2>1, <2>2, <2>3 DEF IsGenerator, Finite
<1>6. Reachable(g) \subseteq Nat \ {0}
  <2> DEFINE T == {s \in g.states : s # 0}
  <2>1. g.init \subseteq T
    BY <1>1, <1>2, <1>3
  <2>2. ASSUME NEW tr \in g.trans, tr[1] \in T
        PROVE  tr[3] \in T
    <3>1. PICK e \in Edges(thread_graphs_, i) : tr = <<e[1], GetLabel(e[2]), e[3]>>
      BY <1>4
    <3>2. tr[3] # 0
      BY <1>1, <2>2, <3>1
    <3>3. tr[3] \in g.states
      BY <1>5 DEF IsGenerator, Finite
    <3> QED
      BY <3>2, <3>3
  <2>3. g.states \subseteq Nat
    BY <1>1, <1>3
  <2>4. ClosedUnder(g, T)
    BY <2>2 DEF ClosedUnder
  <2> HIDE DEF T
  <2>5. Reachable(g) \subseteq T
    BY <1>5, <2>1, <2>4, ReachableFacts DEF IsGenerator
  <2> QED
    BY <2>3, <2>5 DEF T
<1> QED
  BY <1>3, <1>4, <1>5, <1>6 DEF g, adj

\* One thread alone.
LEMMA ShuffleOne ==
    ASSUME IInvParse, 1 \in 1..Len(thread_graphs_), ShapeRight(thread_graphs_[1])
    PROVE  \E at : Shuffle(thread_graphs_, CreateFAutomataFaudes(thread_graphs_[1]), 1, at)
<1> DEFINE g == CreateFAutomataFaudes(thread_graphs_[1])
           D == Reachable(g)
           at == [s \in D |-> [i \in 1..1 |-> s]]
<1>1. /\ IsGenerator(g) /\ g.init = {3} /\ D \subseteq Nat \ {0}
      /\ \A tr : tr \in g.trans <=> \E e \in Edges(thread_graphs_, 1) : tr = <<e[1], GetLabel(e[2]), e[3]>>
  BY ThreadGenerator
<1>2. /\ D \subseteq g.states /\ g.init \subseteq D /\ ClosedUnder(g, D)
  BY <1>1, ReachableFacts DEF IsGenerator
<1>3. /\ \A e \in Edges(thread_graphs_, 1) : e[1] = 1 => e[3] = 2
      /\ \A d, e \in Edges(thread_graphs_, 1) : d[1] = e[1] /\ GetLabel(d[2]) = GetLabel(e[2]) => d = e
  BY EdgeFacts
<1> HIDE DEF g, D
<1>4. \A s \in D : at[s] = [i \in 1..1 |-> s] /\ at[s][1] = s
  OBVIOUS
<1>5. at \in [D -> [1..1 -> Nat \ {0}]]
  BY <1>1
<1>6. ASSUME NEW s, NEW t
      PROVE  Put([i \in 1..1 |-> s], 1, t) = [i \in 1..1 |-> t]
  BY DEF Put
<1> HIDE DEF at
<1>7. EventsOf(thread_graphs_, g, 1, at)
  <2>1. ASSUME NEW tr \in g.trans
        PROVE  \E i \in 1..1 : \E e \in Edges(thread_graphs_, i) :
                  tr[2] = GetLabel(e[2]) /\ (tr[3] \in D /\ e[1] = 1 => at[tr[3]][i] = 2)
    <3>1. PICK e \in Edges(thread_graphs_, 1) : tr = <<e[1], GetLabel(e[2]), e[3]>>
      BY <1>1
    <3> QED
      BY <1>3, <1>4, <3>1
  <2> QED
    BY <2>1 DEF EventsOf, D
<1>8. PlacesOf(g, 1, at)
  <2>1. \E s : g.init = {s} /\ at[s] = [i \in 1..1 |-> 3]
    BY <1>1, <1>2, <1>4
  <2>2. \A s, t \in D : at[s] = at[t] => s = t
    BY <1>4
  <2>3. \A s, t \in D : \A i \in 1..1 : at[t] = Put(at[s], i, at[t][i])
    BY <1>4, <1>6
  <2> QED
    BY <1>5, <2>1, <2>2, <2>3 DEF PlacesOf, D
<1>9. MovesOf(thread_graphs_, g, 1, at)
  <2>1. ASSUME NEW tr \in g.trans, tr[1] \in D
        PROVE  \E i \in 1..1 : \E e \in Edges(thread_graphs_, i) : Moved(thread_graphs_, at[tr[1]], tr[2], at[tr[3]], i, e)
    <3>1. PICK e \in Edges(thread_graphs_, 1) : tr = <<e[1], GetLabel(e[2]), e[3]>>
      BY <1>1
    <3>2. tr[3] \in D
      BY <1>2, <2>1 DEF ClosedUnder
    <3>3. at[tr[3]] = Put(at[tr[1]], 1, e[3])
      BY <1>4, <1>6, <2>1, <3>1, <3>2
    <3>4. at[tr[1]][1] = tr[1] /\ tr[1] = e[1] /\ tr[2] = GetLabel(e[2])
      BY <1>4, <2>1, <3>1
    <3>5. Moved(thread_graphs_, at[tr[1]], tr[2], at[tr[3]], 1, e)
      BY <3>3, <3>4 DEF Moved
    <3> QED
      BY <3>5
  <2>2. ASSUME NEW s \in D, NEW i \in 1..1, NEW e \in Edges(thread_graphs_, i), e[1] = at[s][i]
        PROVE  \E t \in D : <<s, GetLabel(e[2]), t>> \in g.trans
                            /\ Moved(thread_graphs_, at[s], GetLabel(e[2]), at[t], i, e)
    <3>1. i = 1 /\ e[1] = s
      BY <1>4, <2>2
    <3> DEFINE tr == <<s, GetLabel(e[2]), e[3]>>
    <3>2. tr \in g.trans /\ tr[1] = s /\ tr[3] = e[3]
      BY <1>1, <3>1
    <3>3. e[3] \in D
      BY <1>2, <3>2 DEF ClosedUnder
    <3>4. at[e[3]] = Put(at[s], 1, e[3])
      BY <1>4, <1>6, <3>3
    <3> QED
      BY <2>2, <3>1, <3>2, <3>3, <3>4 DEF Moved
  <2> QED
    BY <2>1, <2>2 DEF MovesOf, D
<1>10. Deterministically(g)
  <2>1. ASSUME NEW d \in g.trans, NEW e \in g.trans, d[1] = e[1], d[2] = e[2]
        PROVE  d = e
    <3>1. PICK x \in Edges(thread_graphs_, 1) : d = <<x[1], GetLabel(x[2]), x[3]>>
      BY <1>1
    <3>2. PICK y \in Edges(thread_graphs_, 1) : e = <<y[1], GetLabel(y[2]), y[3]>>
      BY <1>1
    <3>3. x = y
      BY <1>3, <2>1, <3>1, <3>2
    <3> QED
      BY <3>1, <3>2, <3>3
  <2> QED
    BY <2>1 DEF Deterministically
<1> QED
  BY <1>1, <1>7, <1>8, <1>9, <1>10 DEF Shuffle, g

\* The nodes of one more thread.
Extended(v, x, c) == [i \in 1..(c + 1) |-> IF i <= c THEN v[i] ELSE x]

\* A vector with one more entry.
LEMMA ExtendedFacts ==
    ASSUME NEW c \in Nat, NEW v \in [1..c -> Nat], NEW x
    PROVE  /\ \A i \in 1..c : /\ i \in 1..(c + 1) /\ i # c + 1 /\ Extended(v, x, c)[i] = v[i]
                              /\ \A z : Put(Extended(v, x, c), i, z)
                                          = Extended(Put(v, i, z), x, c)
           /\ c + 1 \in 1..(c + 1) /\ Extended(v, x, c)[c + 1] = x
           /\ \A z : Put(Extended(v, x, c), c + 1, z) = Extended(v, z, c)
           /\ \A i \in 1..(c + 1) : i \in 1..c \/ i = c + 1
<1>1. /\ \A i \in 1..c : i \in 1..(c + 1) /\ i # c + 1 /\ i <= c
      /\ c + 1 \in 1..(c + 1) /\ ~(c + 1 <= c)
      /\ \A i \in 1..(c + 1) : (i <= c <=> i \in 1..c) /\ (i \in 1..c \/ i = c + 1)
  OBVIOUS
<1>2. \A i \in 1..c : Extended(v, x, c)[i] = v[i]
  BY <1>1 DEF Extended
<1>3. Extended(v, x, c)[c + 1] = x
  BY <1>1 DEF Extended
<1>4. ASSUME NEW i \in 1..c, NEW z
      PROVE  Put(Extended(v, x, c), i, z) = Extended(Put(v, i, z), x, c)
  <2>1. \A j \in 1..(c + 1) : Put(Extended(v, x, c), i, z)[j]
                                = Extended(Put(v, i, z), x, c)[j]
    BY <1>1 DEF Extended, Put
  <2> QED
    BY <2>1 DEF Extended, Put
<1>5. ASSUME NEW z
      PROVE  Put(Extended(v, x, c), c + 1, z) = Extended(v, z, c)
  BY <1>1 DEF Extended, Put
<1> QED
  BY <1>1, <1>2, <1>3, <1>4, <1>5

\* Its entries are those of the vector and the last one.
LEMMA ExtendedApart ==
    ASSUME NEW c \in Nat, NEW v \in [1..c -> Nat], NEW x, NEW w \in [1..c -> Nat], NEW y,
           Extended(v, x, c) = Extended(w, y, c)
    PROVE  v = w /\ x = y
<1>1. /\ \A i \in 1..c : Extended(v, x, c)[i] = v[i] /\ Extended(w, y, c)[i] = w[i]
      /\ Extended(v, x, c)[c + 1] = x /\ Extended(w, y, c)[c + 1] = y
  BY ExtendedFacts
<1>2. \A i \in 1..c : v[i] = w[i]
  BY <1>1
<1> QED
  BY <1>1, <1>2

\* The next thread has no event in common with the product so far.
LEMMA NextPrivate ==
    ASSUME IInvParse, NEW c \in Nat, c + 1 \in 1..Len(thread_graphs_),
           NEW g, NEW at, Shuffle(thread_graphs_, g, c, at), ShapeRight(thread_graphs_[c + 1])
    PROVE  LET h == CreateFAutomataFaudes(thread_graphs_[c + 1])
           IN  Private(g, h) /\ Private(h, g)
<1> DEFINE h == CreateFAutomataFaudes(thread_graphs_[c + 1])
<1>1. /\ Reachable(h) \subseteq Nat \ {0}
      /\ \A tr : tr \in h.trans <=> \E e \in Edges(thread_graphs_, c + 1) : tr = <<e[1], GetLabel(e[2]), e[3]>>
  BY ThreadGenerator
<1>2. \A i \in 1..c : i \in 1..Len(thread_graphs_) /\ i # c + 1
  <2>1. Len(thread_graphs_) \in Nat
    BY DEF IInvParse, ParseTypes
  <2> QED
    BY <2>1
<1> HIDE DEF h
<1>3. ASSUME NEW t \in g.trans, t[1] \in Reachable(g), t[2] \in Events(h)
      PROVE  FALSE
  <2>1. PICK i \in 1..c : \E e \in Edges(thread_graphs_, i) : Moved(thread_graphs_, at[t[1]], t[2], at[t[3]], i, e)
    BY <1>3 DEF Shuffle, MovesOf
  <2>2. PICK e \in Edges(thread_graphs_, i) : Moved(thread_graphs_, at[t[1]], t[2], at[t[3]], i, e)
    BY <2>1
  <2>3. at[t[1]][i] # 0
    BY <1>3 DEF Shuffle, PlacesOf
  <2>4. e[1] # 0 /\ t[2] = GetLabel(e[2])
    BY <2>2, <2>3 DEF Moved
  <2>5. PICK u \in h.trans : u[2] = t[2]
    BY <1>3 DEF Events
  <2>6. PICK d \in Edges(thread_graphs_, c + 1) : u = <<d[1], GetLabel(d[2]), d[3]>>
    BY <1>1
  <2>7. GetLabel(e[2]) = GetLabel(d[2])
    BY <2>4, <2>5, <2>6
  <2> QED
    BY <1>2, <2>4, <2>7, LabelOwner
<1>4. ASSUME NEW t \in h.trans, t[1] \in Reachable(h), t[2] \in Events(g)
      PROVE  FALSE
  <2>1. PICK d \in Edges(thread_graphs_, c + 1) : t = <<d[1], GetLabel(d[2]), d[3]>>
    BY <1>1
  <2>2. d[1] # 0
    BY <1>1, <1>4, <2>1
  <2>3. PICK u \in g.trans : u[2] = t[2]
    BY <1>4 DEF Events
  <2>4. PICK i \in 1..c : \E e \in Edges(thread_graphs_, i) : u[2] = GetLabel(e[2])
    BY DEF Shuffle, EventsOf
  <2>5. PICK e \in Edges(thread_graphs_, i) : u[2] = GetLabel(e[2])
    BY <2>4
  <2>6. GetLabel(d[2]) = GetLabel(e[2])
    BY <2>1, <2>3, <2>5
  <2> QED
    BY <1>2, <2>2, <2>6, LabelOwner
<1> QED
  BY <1>3, <1>4 DEF Private, h

\* One more thread.
LEMMA ShuffleNext ==
    ASSUME IInvParse, NEW c \in Nat, c + 1 \in 1..Len(thread_graphs_),
           NEW g, NEW at, Shuffle(thread_graphs_, g, c, at), ShapeRight(thread_graphs_[c + 1])
    PROVE  \E at2 : Shuffle(thread_graphs_, Parallel(g, CreateFAutomataFaudes(thread_graphs_[c + 1])), c + 1, at2)
<1> DEFINE h == CreateFAutomataFaudes(thread_graphs_[c + 1])
           par == Parallel(g, h)
           R1 == Reachable(g)
           R2 == Reachable(h)
           D == Reachable(par)
           n == c + 1
           to == [p \in R1 \X R2 |-> Extended(at[p[1]], p[2], c)]
<1>1. /\ IsGenerator(h) /\ h.init = {3} /\ R2 \subseteq Nat \ {0}
      /\ \A tr : tr \in h.trans <=> \E e \in Edges(thread_graphs_, n) : tr = <<e[1], GetLabel(e[2]), e[3]>>
  BY ThreadGenerator
<1>2. Private(g, h) /\ Private(h, g)
  BY NextPrivate
<1>3. Finite(g) /\ Finite(h)
  BY <1>1 DEF Shuffle, IsGenerator
<1>4. /\ R1 \subseteq g.states /\ g.init \subseteq R1 /\ ClosedUnder(g, R1)
      /\ R2 \subseteq h.states /\ h.init \subseteq R2 /\ ClosedUnder(h, R2)
  BY <1>3, ReachableFacts
<1>5. /\ par.states = R1 \X R2 /\ par.init = g.init \X h.init
      /\ par.marked \subseteq par.states
      /\ \A tr : tr \in par.trans
                   <=> \E p \in R1 \X R2 : LeftMove(g, p, tr) \/ RightMove(h, p, tr)
      /\ \E q1, q2, q3, q4 : par = [states |-> q1, init |-> q2, marked |-> q3, trans |-> q4]
  BY <1>2, <1>3, ParallelStates
<1>6. Finite(par) /\ D = R1 \X R2
  BY <1>2, <1>3, ParallelReachable
<1> HIDE DEF h, par, D, R1, R2
<1>7. IsGenerator(par)
  BY <1>5, <1>6 DEF IsGenerator
<1>8. /\ at \in [R1 -> [1..c -> Nat \ {0}]]
      /\ \E s : g.init = {s} /\ at[s] = [i \in 1..c |-> 3]
      /\ \A s, t \in R1 : at[s] = at[t] => s = t
  BY DEF Shuffle, PlacesOf, R1
<1> HIDE DEF n
<1>8a. ASSUME NEW s \in R1, NEW t \in R1, NEW i \in 1..c
       PROVE  \E u \in R1 : at[u] = Put(at[s], i, at[t][i])
  BY DEF Shuffle, PlacesOf, R1
<1>9. ASSUME NEW p \in D
      PROVE  /\ p[1] \in R1 /\ p[2] \in R2 /\ p = <<p[1], p[2]>>
             /\ at[p[1]] \in [1..c -> Nat] /\ at[p[1]] \in [1..c -> Nat \ {0}]
             /\ to[p] = Extended(at[p[1]], p[2], c)
             /\ to[p][n] = p[2]
             /\ \A i \in 1..c : to[p][i] = at[p[1]][i]
  <2>1. p[1] \in R1 /\ p[2] \in R2 /\ p \in R1 \X R2 /\ p = <<p[1], p[2]>>
    BY <1>6
  <2>2. to[p] = Extended(at[p[1]], p[2], c)
    BY <2>1
  <2>3. at[p[1]] \in [1..c -> Nat \ {0}]
    <3> HIDE DEF to
    <3> QED
      BY <1>8, <2>1
  <2> DEFINE v == at[p[1]]
             x == p[2]
  <2>4. v \in [1..c -> Nat] /\ v \in [1..c -> Nat \ {0}]
    BY <2>3
  <2> HIDE DEF to, v, x
  <2>5. (\A i \in 1..c : Extended(v, x, c)[i] = v[i]) /\ Extended(v, x, c)[c + 1] = x
    BY <2>4, ExtendedFacts
  <2> QED
    BY <2>1, <2>2, <2>4, <2>5 DEF v, x, n
<1>9a. ASSUME NEW p \in D, NEW z
       PROVE  Put(to[p], n, z) = Extended(at[p[1]], z, c)
  <2> DEFINE v == at[p[1]]
             x == p[2]
  <2>1. v \in [1..c -> Nat] /\ to[p] = Extended(v, x, c)
    BY <1>9
  <2> HIDE DEF to, v, x
  <2>2. Put(Extended(v, x, c), c + 1, z) = Extended(v, z, c)
    BY <2>1, ExtendedFacts
  <2> QED
    BY <2>1, <2>2 DEF v, n
<1>9b. ASSUME NEW p \in D, NEW i \in 1..c, NEW z
       PROVE  Put(to[p], i, z) = Extended(Put(at[p[1]], i, z), p[2], c)
  <2> DEFINE v == at[p[1]]
             x == p[2]
  <2>1. v \in [1..c -> Nat] /\ to[p] = Extended(v, x, c)
    BY <1>9
  <2> HIDE DEF to, v, x
  <2>2. Put(Extended(v, x, c), i, z) = Extended(Put(v, i, z), x, c)
    BY <2>1, ExtendedFacts
  <2> QED
    BY <2>1, <2>2 DEF v, x
<1>9c. ASSUME NEW p \in D, NEW q \in D, to[p] = to[q]
       PROVE  at[p[1]] = at[q[1]] /\ p[2] = q[2]
  <2> DEFINE v == at[p[1]]
             w == at[q[1]]
             x == p[2]
             y == q[2]
  <2>1. v \in [1..c -> Nat] /\ w \in [1..c -> Nat] /\ Extended(v, x, c) = Extended(w, y, c)
    BY <1>9, <1>9c
  <2> HIDE DEF v, w, x, y
  <2>2. v = w /\ x = y
    BY <2>1, ExtendedApart
  <2> QED
    BY <2>2 DEF v, w, x, y
<1>10. \A i \in 1..n : i \in 1..c \/ i = n
  BY DEF n
<1>11. n \in 1..n /\ \A i \in 1..c : i \in 1..n
  BY DEF n
<1>12. ASSUME NEW p \in R1 \X R2
       PROVE  /\ p \in D /\ DOMAIN to[p] = 1..n /\ to[p] \in [1..n -> Nat \ {0}]
  <2>1. p \in D /\ to[p] = Extended(at[p[1]], p[2], c)
    BY <1>6
  <2>2. DOMAIN to[p] = 1..n /\ to[p] = [i \in 1..n |-> to[p][i]]
    BY <2>1 DEF Extended, n
  <2>3. ASSUME NEW i \in 1..n
        PROVE  to[p][i] \in Nat \ {0}
    <3> HIDE DEF to
    <3>1. CASE i = n
      BY <1>1, <1>9, <2>1, <3>1
    <3>2. CASE i \in 1..c
      <4>1. to[p][i] = at[p[1]][i] /\ at[p[1]] \in [1..c -> Nat \ {0}]
        BY <1>9, <2>1, <3>2
      <4> QED
        BY <3>2, <4>1
    <3> QED
      BY <1>10, <3>1, <3>2
  <2> HIDE DEF to
  <2> QED
    BY <2>1, <2>2, <2>3
<1>13. to \in [D -> [1..n -> Nat \ {0}]]
  BY <1>6, <1>12
<1> HIDE DEF to
\* A transition of the product.
<1>14. ASSUME NEW tr \in par.trans
       PROVE  /\ tr[1] \in D /\ tr[3] \in D /\ tr = <<tr[1], tr[2], tr[3]>>
              /\ \/ \E t \in g.trans : /\ t[1] = tr[1][1] /\ t[2] = tr[2] /\ t[3] \in R1
                                       /\ tr[3] = <<t[3], tr[1][2]>>
                 \/ \E t \in h.trans : /\ t[1] = tr[1][2] /\ t[2] = tr[2] /\ t[3] \in R2
                                       /\ tr[3] = <<tr[1][1], t[3]>>
  <2>1. PICK p \in R1 \X R2 : LeftMove(g, p, tr) \/ RightMove(h, p, tr)
    BY <1>5
  <2>2. p[1] \in R1 /\ p[2] \in R2 /\ p \in D
    BY <1>6
  <2>3. CASE LeftMove(g, p, tr)
    <3>1. PICK t \in g.trans : t[1] = p[1] /\ tr = <<p, t[2], <<t[3], p[2]>>>>
      BY <2>3 DEF LeftMove
    <3>2. t[3] \in R1
      BY <1>4, <2>2, <3>1 DEF ClosedUnder
    <3>3. tr[1] = p /\ tr[2] = t[2] /\ tr[3] = <<t[3], p[2]>> /\ tr = <<tr[1], tr[2], tr[3]>>
      BY <3>1
    <3>4. tr[3] \in D
      BY <1>6, <2>2, <3>2, <3>3
    <3> QED
      BY <2>2, <3>1, <3>2, <3>3, <3>4
  <2>4. CASE RightMove(h, p, tr)
    <3>1. PICK t \in h.trans : t[1] = p[2] /\ tr = <<p, t[2], <<p[1], t[3]>>>>
      BY <2>4 DEF RightMove
    <3>2. t[3] \in R2
      BY <1>4, <2>2, <3>1 DEF ClosedUnder
    <3>3. tr[1] = p /\ tr[2] = t[2] /\ tr[3] = <<p[1], t[3]>> /\ tr = <<tr[1], tr[2], tr[3]>>
      BY <3>1
    <3>4. tr[3] \in D
      BY <1>6, <2>2, <3>2, <3>3
    <3> QED
      BY <2>2, <3>1, <3>2, <3>3, <3>4
  <2> QED
    BY <2>1, <2>3, <2>4
<1>15. PlacesOf(par, n, to)
  <2>1. \E s : par.init = {s} /\ to[s] = [i \in 1..n |-> 3]
    <3>1. PICK s : g.init = {s} /\ at[s] = [i \in 1..c |-> 3]
      BY <1>8
    <3> DEFINE p == <<s, 3>>
    <3>2. par.init = {p}
      BY <1>1, <1>5, <3>1
    <3>3. p \in R1 \X R2
      BY <1>1, <1>4, <3>1
    <3>4. p \in D /\ p[1] = s /\ p[2] = 3 /\ to[p] \in [1..n -> Nat \ {0}]
      BY <1>12, <3>3
    <3> HIDE DEF p
    <3>5. to[p][n] = 3 /\ \A i \in 1..c : to[p][i] = at[s][i] /\ at[s][i] = 3
      BY <1>9, <3>1, <3>4
    <3>6. \A i \in 1..n : to[p][i] = 3
      BY <1>10, <3>5
    <3>7. to[p] = [i \in 1..n |-> 3]
      BY <3>4, <3>6
    <3> QED
      BY <3>2, <3>7
  <2>2. ASSUME NEW p \in D, NEW q \in D, to[p] = to[q]
        PROVE  p = q
    <3>1. at[p[1]] = at[q[1]] /\ p[2] = q[2]
      BY <1>9c, <2>2
    <3>2. p[1] \in R1 /\ q[1] \in R1 /\ p = <<p[1], p[2]>> /\ q = <<q[1], q[2]>>
      BY <1>9
    <3>3. p[1] = q[1]
      BY <1>8, <3>1, <3>2
    <3> QED
      BY <3>1, <3>2, <3>3
  <2>3. ASSUME NEW p \in D, NEW q \in D, NEW i \in 1..n
        PROVE  \E u \in D : to[u] = Put(to[p], i, to[q][i])
    <3>1. CASE i = n
      <4> DEFINE u == <<p[1], q[2]>>
      <4>1. u \in D /\ u[1] = p[1] /\ u[2] = q[2]
        BY <1>6, <1>9
      <4> HIDE DEF u
      <4>2. to[u] = Extended(at[p[1]], q[2], c)
        BY <1>9, <4>1
      <4>3. Put(to[p], n, to[q][n]) = Extended(at[p[1]], q[2], c)
        BY <1>9, <1>9a
      <4> QED
        BY <3>1, <4>1, <4>2, <4>3
    <3>2. CASE i \in 1..c
      <4>0. p[1] \in R1 /\ q[1] \in R1 /\ to[q][i] = at[q[1]][i]
        BY <1>9, <3>2
      <4>1. PICK s \in R1 : at[s] = Put(at[p[1]], i, at[q[1]][i])
        BY <1>8a, <3>2, <4>0
      <4> DEFINE u == <<s, p[2]>>
      <4>2. u \in D /\ u[1] = s /\ u[2] = p[2]
        BY <1>6, <1>9
      <4> HIDE DEF u
      <4>3. to[u] = Extended(at[s], p[2], c)
        BY <1>9, <4>2
      <4>4. Put(to[p], i, to[q][i]) = Extended(Put(at[p[1]], i, at[q[1]][i]), p[2], c)
        BY <1>9b, <3>2, <4>0
      <4> QED
        BY <4>1, <4>2, <4>3, <4>4
    <3> QED
      BY <1>10, <3>1, <3>2
  <2> QED
    BY <1>13, <2>1, <2>2, <2>3 DEF PlacesOf, D
<1>16. EventsOf(thread_graphs_, par, n, to)
  <2>1. ASSUME NEW tr \in par.trans
        PROVE  \E i \in 1..n : \E e \in Edges(thread_graphs_, i) :
                  tr[2] = GetLabel(e[2]) /\ (tr[3] \in D /\ e[1] = 1 => to[tr[3]][i] = 2)
    <3>1. tr[3] \in D /\ tr[1] \in D
      BY <1>14
    <3>2. CASE \E t \in g.trans : /\ t[1] = tr[1][1] /\ t[2] = tr[2] /\ t[3] \in R1
                                  /\ tr[3] = <<t[3], tr[1][2]>>
      <4>1. PICK t \in g.trans : /\ t[1] = tr[1][1] /\ t[2] = tr[2] /\ t[3] \in R1
                                 /\ tr[3] = <<t[3], tr[1][2]>>
        BY <3>2
      <4>2. PICK i \in 1..c : \E e \in Edges(thread_graphs_, i) :
               t[2] = GetLabel(e[2]) /\ (t[3] \in R1 /\ e[1] = 1 => at[t[3]][i] = 2)
        BY DEF Shuffle, EventsOf, R1
      <4>3. to[tr[3]][i] = at[t[3]][i]
        BY <1>9, <3>1, <4>1
      <4> QED
        BY <1>11, <4>1, <4>2, <4>3
    <3>3. CASE \E t \in h.trans : /\ t[1] = tr[1][2] /\ t[2] = tr[2] /\ t[3] \in R2
                                  /\ tr[3] = <<tr[1][1], t[3]>>
      <4>1. PICK t \in h.trans : /\ t[1] = tr[1][2] /\ t[2] = tr[2] /\ t[3] \in R2
                                 /\ tr[3] = <<tr[1][1], t[3]>>
        BY <3>3
      <4>2. PICK e \in Edges(thread_graphs_, n) : t = <<e[1], GetLabel(e[2]), e[3]>>
        BY <1>1
      <4>3. to[tr[3]][n] = e[3]
        BY <1>9, <3>1, <4>1, <4>2
      <4>4. e[1] = 1 => e[3] = 2
        BY EdgeFacts DEF n
      <4> QED
        BY <1>11, <4>1, <4>2, <4>3, <4>4
    <3> QED
      BY <1>14, <3>2, <3>3
  <2> QED
    BY <2>1 DEF EventsOf, D
<1>17. ASSUME NEW tr \in par.trans
       PROVE  \E i \in 1..n : \E e \in Edges(thread_graphs_, i) : Moved(thread_graphs_, to[tr[1]], tr[2], to[tr[3]], i, e)
  <2>1. tr[3] \in D /\ tr[1] \in D
    BY <1>14
  <2>2. CASE \E t \in g.trans : /\ t[1] = tr[1][1] /\ t[2] = tr[2] /\ t[3] \in R1
                                /\ tr[3] = <<t[3], tr[1][2]>>
    <3>1. PICK t \in g.trans : /\ t[1] = tr[1][1] /\ t[2] = tr[2] /\ t[3] \in R1
                               /\ tr[3] = <<t[3], tr[1][2]>>
      BY <2>2
    <3>2. t[1] \in R1
      BY <1>9, <2>1, <3>1
    <3>3. PICK i \in 1..c : \E e \in Edges(thread_graphs_, i) : Moved(thread_graphs_, at[t[1]], t[2], at[t[3]], i, e)
      BY <3>2 DEF Shuffle, MovesOf, R1
    <3>4. PICK e \in Edges(thread_graphs_, i) : Moved(thread_graphs_, at[t[1]], t[2], at[t[3]], i, e)
      BY <3>3
    <3>5. e[1] = to[tr[1]][i]
      BY <1>9, <2>1, <3>1, <3>4 DEF Moved
    <3>6. to[tr[3]] = Extended(at[t[3]], tr[1][2], c)
      BY <1>9, <2>1, <3>1
    <3>7. Put(to[tr[1]], i, e[3]) = Extended(Put(at[t[1]], i, e[3]), tr[1][2], c)
      <4>1. Put(to[tr[1]], i, e[3]) = Extended(Put(at[tr[1][1]], i, e[3]), tr[1][2], c)
        BY <1>9b, <2>1
      <4> QED
        BY <3>1, <4>1
    <3>8. at[t[3]] = Put(at[t[1]], i, e[3]) /\ tr[2] = GetLabel(e[2])
      BY <3>1, <3>4 DEF Moved
    <3>9. Moved(thread_graphs_, to[tr[1]], tr[2], to[tr[3]], i, e)
      BY <3>5, <3>6, <3>7, <3>8 DEF Moved
    <3> QED
      BY <1>11, <3>9
  <2>3. CASE \E t \in h.trans : /\ t[1] = tr[1][2] /\ t[2] = tr[2] /\ t[3] \in R2
                                /\ tr[3] = <<tr[1][1], t[3]>>
    <3>1. PICK t \in h.trans : /\ t[1] = tr[1][2] /\ t[2] = tr[2] /\ t[3] \in R2
                               /\ tr[3] = <<tr[1][1], t[3]>>
      BY <2>3
    <3>2. PICK e \in Edges(thread_graphs_, n) : t = <<e[1], GetLabel(e[2]), e[3]>>
      BY <1>1
    <3>3. e[1] = to[tr[1]][n] /\ tr[2] = GetLabel(e[2])
      BY <1>9, <2>1, <3>1, <3>2
    <3>4. to[tr[3]] = Extended(at[tr[1][1]], e[3], c)
      BY <1>9, <2>1, <3>1, <3>2
    <3>5. Put(to[tr[1]], n, e[3]) = Extended(at[tr[1][1]], e[3], c)
      BY <1>9, <1>9a, <2>1
    <3>6. Moved(thread_graphs_, to[tr[1]], tr[2], to[tr[3]], n, e)
      BY <3>3, <3>4, <3>5 DEF Moved
    <3> QED
      BY <1>11, <3>6
  <2> QED
    BY <1>14, <2>2, <2>3
<1>18. ASSUME NEW s \in D, NEW i \in 1..n, NEW e \in Edges(thread_graphs_, i), e[1] = to[s][i]
       PROVE  \E t \in D : /\ <<s, GetLabel(e[2]), t>> \in par.trans
                           /\ Moved(thread_graphs_, to[s], GetLabel(e[2]), to[t], i, e)
  <2>1. s[1] \in R1 /\ s[2] \in R2 /\ s \in R1 \X R2
    BY <1>6, <1>9
  <2>2. CASE i = n
    <3> DEFINE x == <<e[1], GetLabel(e[2]), e[3]>>
               t == <<s[1], e[3]>>
               tr == <<s, x[2], <<s[1], x[3]>>>>
    <3>1. x \in h.trans /\ x[1] = s[2] /\ x[2] = GetLabel(e[2]) /\ x[3] = e[3]
      BY <1>1, <1>9, <1>18, <2>2
    <3>2. e[3] \in R2
      BY <1>4, <2>1, <3>1 DEF ClosedUnder
    <3>3. RightMove(h, s, tr)
      <4> HIDE DEF x
      <4> QED
        BY <3>1 DEF RightMove
    <3>4. tr \in par.trans
      <4> HIDE DEF tr
      <4> QED
        BY <1>5, <2>1, <3>3
    <3>5. tr = <<s, GetLabel(e[2]), t>>
      BY <3>1
    <3>6. t \in D /\ t[1] = s[1] /\ t[2] = e[3]
      BY <1>6, <2>1, <3>2
    <3> HIDE DEF t, tr, x
    <3>7. to[t] = Extended(at[s[1]], e[3], c)
      BY <1>9, <3>6
    <3>8. Put(to[s], n, e[3]) = Extended(at[s[1]], e[3], c)
      BY <1>9, <1>9a
    <3>9. Moved(thread_graphs_, to[s], GetLabel(e[2]), to[t], i, e)
      BY <1>18, <2>2, <3>7, <3>8 DEF Moved
    <3> QED
      BY <3>4, <3>5, <3>6, <3>9
  <2>3. CASE i \in 1..c
    <3>1. e[1] = at[s[1]][i]
      BY <1>9, <1>18, <2>3
    <3>2. PICK u \in R1 : /\ <<s[1], GetLabel(e[2]), u>> \in g.trans
                          /\ Moved(thread_graphs_, at[s[1]], GetLabel(e[2]), at[u], i, e)
      BY <2>1, <2>3, <3>1 DEF Shuffle, MovesOf, R1
    <3> DEFINE x == <<s[1], GetLabel(e[2]), u>>
               t == <<u, s[2]>>
               tr == <<s, x[2], <<x[3], s[2]>>>>
    <3>3. x \in g.trans /\ x[1] = s[1] /\ x[2] = GetLabel(e[2]) /\ x[3] = u
      BY <3>2
    <3>4. LeftMove(g, s, tr)
      <4> HIDE DEF x
      <4> QED
        BY <3>3 DEF LeftMove
    <3>5. tr \in par.trans
      <4> HIDE DEF tr
      <4> QED
        BY <1>5, <2>1, <3>4
    <3>6. tr = <<s, GetLabel(e[2]), t>>
      BY <3>3
    <3>7. t \in D /\ t[1] = u /\ t[2] = s[2]
      BY <1>6, <2>1
    <3> HIDE DEF t, tr, x
    <3>8. to[t] = Extended(at[u], s[2], c)
      BY <1>9, <3>7
    <3>9. Put(to[s], i, e[3]) = Extended(Put(at[s[1]], i, e[3]), s[2], c)
      BY <1>9, <1>9b, <2>3
    <3>10. at[u] = Put(at[s[1]], i, e[3])
      BY <3>2 DEF Moved
    <3>11. Moved(thread_graphs_, to[s], GetLabel(e[2]), to[t], i, e)
      BY <1>18, <3>8, <3>9, <3>10 DEF Moved
    <3> QED
      BY <3>5, <3>6, <3>7, <3>11
  <2> QED
    BY <1>10, <2>2, <2>3
<1>19. MovesOf(thread_graphs_, par, n, to)
  BY <1>17, <1>18 DEF MovesOf, D
<1>20. Deterministically(par)
  <2>1. ASSUME NEW d \in par.trans, NEW e \in par.trans, d[1] = e[1], d[2] = e[2]
        PROVE  d = e
    <3>1. /\ d[1] \in D /\ d = <<d[1], d[2], d[3]>> /\ e = <<e[1], e[2], e[3]>>
          /\ d[1][1] \in R1 /\ d[1][2] \in R2
      BY <1>9, <1>14
    <3> DEFINE L(tr, t) == t \in g.trans /\ t[1] = d[1][1] /\ t[2] = d[2] /\ tr[3] = <<t[3], d[1][2]>>
               M(tr, t) == t \in h.trans /\ t[1] = d[1][2] /\ t[2] = d[2] /\ tr[3] = <<d[1][1], t[3]>>
    <3>2. (\E t : L(d, t)) \/ (\E t : M(d, t))
      BY <1>14
    <3>3. (\E t : L(e, t)) \/ (\E t : M(e, t))
      BY <1>14, <2>1
    <3>4. ASSUME NEW t, NEW u, t \in g.trans, t[1] \in R1, u \in h.trans, u[1] \in R2
          PROVE  t[2] # u[2]
      BY <1>2, <3>4 DEF Private, Events, R1
    <3>5. CASE (\E t : L(d, t)) /\ (\E t : L(e, t))
      <4>1. PICK t : L(d, t)
        BY <3>5
      <4>2. PICK u : L(e, u)
        BY <3>5
      <4>3. t = u
        BY <3>1, <4>1, <4>2 DEF Shuffle, Deterministically, R1
      <4> QED
        BY <2>1, <3>1, <4>1, <4>2, <4>3
    <3>6. CASE (\E t : M(d, t)) /\ (\E t : M(e, t))
      <4>1. PICK t : M(d, t)
        BY <3>6
      <4>2. PICK u : M(e, u)
        BY <3>6
      <4>3. t = u
        <5>1. PICK x \in Edges(thread_graphs_, n) : t = <<x[1], GetLabel(x[2]), x[3]>>
          BY <1>1, <4>1
        <5>2. PICK y \in Edges(thread_graphs_, n) : u = <<y[1], GetLabel(y[2]), y[3]>>
          BY <1>1, <4>2
        <5>3. x[1] = y[1] /\ GetLabel(x[2]) = GetLabel(y[2])
          BY <4>1, <4>2, <5>1, <5>2
        <5>4. x = y
          BY <5>3, EdgeFacts DEF n
        <5> QED
          BY <5>1, <5>2, <5>4
      <4> QED
        BY <2>1, <3>1, <4>1, <4>2, <4>3
    <3>7. ~((\E t : L(d, t)) /\ (\E t : M(e, t))) /\ ~((\E t : M(d, t)) /\ (\E t : L(e, t)))
      BY <3>1, <3>4
    <3> QED
      BY <3>2, <3>3, <3>5, <3>6, <3>7
  <2> QED
    BY <2>1 DEF Deterministically
<1>21. Shuffle(thread_graphs_, par, n, to)
  BY <1>7, <1>15, <1>16, <1>19, <1>20 DEF Shuffle
<1> QED
  BY <1>21 DEF par, h, n

-----------------------------------------------------------------------------
(***************************************************************************)
(* The subset construction changes nothing on a generator that has one    *)
(* successor for each event: its states are singletons.                    *)
(***************************************************************************)
LEMMA SetMovesRange ==
    ASSUME NEW g, Finite(g), NEW S \in SUBSET g.states, NEW tr \in SetMoves(g, S)
    PROVE  tr[3] \in SUBSET g.states
BY DEF SetMoves, Finite

\* The moves from a set of one state lead to sets of one state.
LEMMA SingletonMoves ==
    ASSUME NEW g, Finite(g), Deterministically(g), NEW s \in Reachable(g), NEW tr
    PROVE  tr \in SetMoves(g, {s})
             <=> \E t \in g.trans : t[1] = s /\ tr = <<{t[1]}, t[2], {t[3]}>>
<1> DEFINE After(t) == {v[3] : v \in {u \in g.trans : u[1] \in {s} /\ u[2] = t[2]}}
<1>1. tr \in SetMoves(g, {s})
        <=> \E t \in {u \in g.trans : u[1] \in {s}} : tr = <<{s}, t[2], After(t)>>
  BY DEF SetMoves
<1>2. ASSUME NEW t \in g.trans, t[1] = s
      PROVE  After(t) = {t[3]}
  <2>1. \A u \in g.trans : u[1] = s /\ u[2] = t[2] => u = t
    BY <1>2 DEF Deterministically
  <2>2. {u \in g.trans : u[1] \in {s} /\ u[2] = t[2]} = {t}
    BY <1>2, <2>1
  <2> QED
    BY <2>2
<1> HIDE DEF After
<1> QED
  BY <1>1, <1>2

SetsAfter(g, X) == X \cup UNION {{tr[3] : tr \in SetMoves(g, S)} : S \in X}

\* The equations of Deterministic.
LEMMA DeterministicEquations ==
    ASSUME NEW g, Finite(g), NEW n, n = Cardinality(g.states)
    PROVE  \E R : /\ R[0] = {g.init}
                  /\ \A i \in 1..n : R[i] = SetsAfter(g, R[i-1])
                  /\ Deterministic(g) = [states |-> R[n],
                                         init   |-> {g.init},
                                         marked |-> {S \in R[n] : S \cap g.marked # {}},
                                         trans  |-> UNION {SetMoves(g, S) : S \in R[n]}]
<1> DEFINE U == SUBSET g.states
           m == Cardinality(g.states)
           After(X) == X \cup UNION {{tr[3] : tr \in SetMoves(g, S)} : S \in X}
           Body(f) == [i \in 0..m |-> IF i = 0 THEN {g.init} ELSE After(f[i-1])]
           G == [p \in (1..m) \X SUBSET U |-> After(p[2])]
           Last(f) == [states |-> f[m],
                       init   |-> {g.init},
                       marked |-> {S \in f[m] : S \cap g.marked # {}},
                       trans  |-> UNION {SetMoves(g, S) : S \in f[m]}]
<1>1. m \in Nat /\ {g.init} \in SUBSET U
  BY FS_CardinalityType DEF Finite
<1>2. ASSUME NEW X \in SUBSET U
      PROVE  After(X) \in SUBSET U
  <2>1. ASSUME NEW S \in X, NEW tr \in SetMoves(g, S)
        PROVE  tr[3] \in U
    BY SetMovesRange
  <2> QED
    BY <2>1
<1>3. G \in [(1..m) \X SUBSET U -> SUBSET U]
  <2> HIDE DEF After, m, U
  <2> QED
    BY <1>2
<1>4. PICK f : Nats!IsIteration(f, SUBSET U, {g.init}, m, G)
  <2> DEFINE c == {g.init}
  <2>1. c \in SUBSET U
    BY <1>1
  <2> HIDE DEF G, After, m, U, c
  <2>2. \E f : Nats!IsIteration(f, SUBSET U, c, m, G)
    BY <1>1, <1>3, <2>1, Nats!IterationExists
  <2> QED
    BY <2>2 DEF c
<1>5. ASSUME NEW k \in 1..m
      PROVE  f[k] = After(f[k-1])
  <2>1. f[k-1] \in SUBSET U /\ f[k] = G[<<k, f[k-1]>>]
    <3> HIDE DEF G, m, U
    <3> QED
      BY <1>1, <1>4 DEF Nats!IsIteration
  <2> HIDE DEF After, m, U
  <2> QED
    BY <2>1
<1>6. f \in [0..m -> SUBSET U] /\ f[0] = {g.init}
  <2> HIDE DEF G, m, U
  <2> QED
    BY <1>4 DEF Nats!IsIteration
<1>7. f = Body(f)
  <2> HIDE DEF After, m, U
  <2> QED
    BY <1>5, <1>6
<1> DEFINE N == CHOOSE h : h = Body(h)
<1>8. Deterministic(g) = Last(N)
  BY DEF Deterministic
<1>9. N = Body(N)
  <2> HIDE DEF Body
  <2> QED
    BY <1>7
<1>10. N[0] = {g.init} /\ \A i \in 1..m : N[i] = After(N[i-1])
  <2> HIDE DEF After, N, m
  <2>1. \A i \in 0..m : N[i] = IF i = 0 THEN {g.init} ELSE After(N[i-1])
    BY <1>9
  <2>2. \A i \in 1..m : i \in 0..m /\ i # 0
    BY <1>1
  <2>3. 0 \in 0..m
    BY <1>1
  <2> QED
    BY <2>1, <2>2, <2>3
<1> HIDE DEF N
<1>11. \A i \in 1..m : N[i] = SetsAfter(g, N[i-1])
  BY <1>10 DEF SetsAfter
<1> QED
  BY <1>8, <1>10, <1>11

\* The subset construction leaves a deterministic generator as it is, on sets of one state.
LEMMA DeterministicFacts ==
    ASSUME NEW g, Finite(g), Deterministically(g), NEW s0, g.init = {s0}
    PROVE  LET d == Deterministic(g)
           IN  /\ d.init = {{s0}}
               /\ d.states = {{s} : s \in Reachable(g)}
               /\ d.marked = {{s} : s \in Reachable(g) \cap g.marked}
               /\ \A tr : tr \in d.trans
                    <=> \E t \in g.trans : t[1] \in Reachable(g) /\ tr = <<{t[1]}, t[2], {t[3]}>>
<1> DEFINE n == Cardinality(g.states)
           D == Reachable(g)
           d == Deterministic(g)
           Singles(X) == {{s} : s \in X}
<1>1. n \in Nat
  BY FS_CardinalityType DEF Finite
<1>2. D \subseteq g.states /\ g.init \subseteq D /\ ClosedUnder(g, D)
  BY ReachableFacts
<1>3. PICK B \in [0..n -> SUBSET g.states] :
         /\ B[0] = g.init
         /\ \A i \in 1..n : B[i] = B[i-1] \cup Successors(g, B[i-1])
         /\ D \subseteq B[n]
  BY <1>1, ReachedInSteps
<1>4. PICK R : /\ R[0] = {g.init}
               /\ \A i \in 1..n : R[i] = SetsAfter(g, R[i-1])
               /\ d = [states |-> R[n],
                       init   |-> {g.init},
                       marked |-> {S \in R[n] : S \cap g.marked # {}},
                       trans  |-> UNION {SetMoves(g, S) : S \in R[n]}]
  BY DeterministicEquations
<1>5. ASSUME NEW s \in D, NEW tr
      PROVE  tr \in SetMoves(g, {s})
               <=> \E t \in g.trans : t[1] = s /\ tr = <<{t[1]}, t[2], {t[3]}>>
  BY SingletonMoves
<1> HIDE DEF n, D, d
<1>6. ASSUME NEW X \in SUBSET D
      PROVE  /\ SetsAfter(g, Singles(X)) = Singles(X \cup Successors(g, X))
             /\ X \cup Successors(g, X) \in SUBSET D
  <2>1. Successors(g, X) \subseteq D
    BY <1>2 DEF Successors, ClosedUnder
  <2>2. ASSUME NEW S
        PROVE  S \in SetsAfter(g, Singles(X)) <=> S \in Singles(X \cup Successors(g, X))
    <3>1. S \in SetsAfter(g, Singles(X))
            <=> S \in Singles(X) \/ \E s \in X : \E tr \in SetMoves(g, {s}) : S = tr[3]
      <4>1. ASSUME NEW Y
            PROVE  S \in SetsAfter(g, Y) <=> S \in Y \/ \E Q \in Y : \E tr \in SetMoves(g, Q) : S = tr[3]
        BY DEF SetsAfter
      <4>2. ASSUME NEW Q \in Singles(X)
            PROVE  \E s \in X : Q = {s}
        OBVIOUS
      <4>3. \A s \in X : {s} \in Singles(X)
        OBVIOUS
      <4> HIDE DEF Singles
      <4>4. ASSUME NEW Q \in Singles(X), NEW tr \in SetMoves(g, Q), S = tr[3]
            PROVE  \E s \in X : \E u \in SetMoves(g, {s}) : S = u[3]
        <5>1. PICK s \in X : Q = {s}
          BY <4>2
        <5> QED
          BY <4>4, <5>1
      <4>5. ASSUME NEW s \in X, NEW tr \in SetMoves(g, {s}), S = tr[3]
            PROVE  \E Q \in Singles(X) : \E u \in SetMoves(g, Q) : S = u[3]
        BY <4>3, <4>5
      <4>6. S \in SetsAfter(g, Singles(X))
              <=> S \in Singles(X) \/ \E Q \in Singles(X) : \E tr \in SetMoves(g, Q) : S = tr[3]
        BY <4>1
      <4> QED
        BY <4>4, <4>5, <4>6
    <3>2. ASSUME NEW s \in X, NEW tr \in SetMoves(g, {s}), S = tr[3]
          PROVE  S \in Singles(X \cup Successors(g, X))
      <4>1. PICK t \in g.trans : t[1] = s /\ tr = <<{t[1]}, t[2], {t[3]}>>
        BY <1>5
      <4>2. t[3] \in Successors(g, X)
        BY <4>1 DEF Successors
      <4> QED
        BY <3>2, <4>1, <4>2
    <3>3. ASSUME NEW x \in Successors(g, X), S = {x}
          PROVE  \E s \in X : \E tr \in SetMoves(g, {s}) : S = tr[3]
      <4>1. PICK t \in g.trans : t[1] \in X /\ x = t[3]
        BY DEF Successors
      <4> DEFINE tr == <<{t[1]}, t[2], {t[3]}>>
      <4>2. tr \in SetMoves(g, {t[1]})
        <5>1. t[1] \in D /\ \E u \in g.trans : u[1] = t[1] /\ tr = <<{u[1]}, u[2], {u[3]}>>
          BY <4>1
        <5> HIDE DEF tr
        <5> QED
          BY <1>5, <5>1
      <4>3. tr[3] = {x}
        BY <4>1
      <4> HIDE DEF tr
      <4> QED
        BY <3>3, <4>1, <4>2, <4>3
    <3>4. S \in Singles(X \cup Successors(g, X))
            <=> S \in Singles(X) \/ \E x \in Successors(g, X) : S = {x}
      OBVIOUS
    <3> HIDE DEF Singles
    <3> QED
      BY <3>1, <3>2, <3>3, <3>4
  <2> QED
    BY <2>1, <2>2
<1>7. \A i \in 0..n : B[i] \in SUBSET D /\ R[i] = Singles(B[i])
  <2> DEFINE T == {i \in Nat : i <= n => B[i] \in SUBSET D /\ R[i] = Singles(B[i])}
  <2>1. 0 \in T
    BY <1>2, <1>3, <1>4
  <2>2. ASSUME NEW i \in Nat, i \in T
        PROVE  i + 1 \in T
    <3>1. SUFFICES ASSUME i + 1 <= n
                   PROVE  B[i+1] \in SUBSET D /\ R[i+1] = Singles(B[i+1])
      OBVIOUS
    <3> HIDE DEF Singles
    <3>2. i + 1 \in 1..n /\ i + 1 - 1 = i /\ B[i] \in SUBSET D /\ R[i] = Singles(B[i])
      BY <1>1, <2>2, <3>1
    <3>3. B[i+1] = B[i] \cup Successors(g, B[i]) /\ R[i+1] = SetsAfter(g, R[i])
      BY <1>3, <1>4, <3>2
    <3> QED
      BY <1>6, <3>2, <3>3
  <2>3. Nat \subseteq T
    <3> HIDE DEF T
    <3> QED
      BY <2>1, <2>2, Nats!NatSetInduction
  <2> QED
    BY <1>1, <2>3
<1>8. R[n] = Singles(D)
  <2>1. n \in 0..n
    BY <1>1
  <2>2. B[n] = D
    BY <1>3, <1>7, <2>1
  <2> QED
    BY <1>7, <2>1, <2>2
<1>9. d.init = {{s0}} /\ d.states = Singles(D)
  BY <1>4, <1>8
<1>10. d.marked = {{s} : s \in D \cap g.marked}
  <2>1. d.marked = {S \in Singles(D) : S \cap g.marked # {}}
    BY <1>4, <1>8
  <2> QED
    BY <2>1
<1>11. ASSUME NEW tr
       PROVE  tr \in d.trans <=> \E t \in g.trans : t[1] \in D /\ tr = <<{t[1]}, t[2], {t[3]}>>
  <2>1. tr \in d.trans <=> \E s \in D : tr \in SetMoves(g, {s})
    <3>1. d.trans = UNION {SetMoves(g, S) : S \in Singles(D)}
      BY <1>4, <1>8
    <3>2. \A Q \in Singles(D) : \E s \in D : Q = {s}
      OBVIOUS
    <3>3. \A s \in D : {s} \in Singles(D)
      OBVIOUS
    <3> HIDE DEF Singles
    <3>4. tr \in d.trans <=> \E Q \in Singles(D) : tr \in SetMoves(g, Q)
      BY <3>1
    <3>5. ASSUME NEW Q \in Singles(D), tr \in SetMoves(g, Q)
          PROVE  \E s \in D : tr \in SetMoves(g, {s})
      BY <3>2, <3>5
    <3> QED
      BY <3>3, <3>4, <3>5
  <2>2. ASSUME NEW s \in D, tr \in SetMoves(g, {s})
        PROVE  \E t \in g.trans : t[1] \in D /\ tr = <<{t[1]}, t[2], {t[3]}>>
    BY <1>5, <2>2
  <2>3. ASSUME NEW t \in g.trans, t[1] \in D, tr = <<{t[1]}, t[2], {t[3]}>>
        PROVE  tr \in SetMoves(g, {t[1]})
    BY <1>5, <2>3
  <2> QED
    BY <2>1, <2>2, <2>3
<1> QED
  BY <1>9, <1>10, <1>11 DEF D, d

-----------------------------------------------------------------------------
(***************************************************************************)
(* The invariant of the construction.                                      *)
(***************************************************************************)
NotStarted ==
    /\ faudesAutomata = <<>> /\ composed = 0 /\ stage = "threads"
    /\ result = EmptyGenerator /\ lGenerator = EmptyGenerator

ThreadGenerators == {CreateFAutomataFaudes(thread_graphs_[i]) : i \in 1..Len(thread_graphs_)}

IInvAutomata ==
    /\ ~Parsed => NotStarted
    /\ faudesAutomata \in Seq(ThreadGenerators)
    /\ Len(faudesAutomata) <= Len(thread_graphs_)
    /\ \A i \in 1..Len(faudesAutomata) :
          /\ faudesAutomata[i] = CreateFAutomataFaudes(thread_graphs_[i])
          /\ ShapeRight(thread_graphs_[i])
    /\ composed \in 0..Len(faudesAutomata)
    /\ stage \in {"threads", "marked", "done", "aborted"}

IInvResult ==
    /\ composed = 0 => result = EmptyGenerator
    /\ composed # 0 => \E at : Shuffle(thread_graphs_, result, composed, at)

AssertionTargets(g) == {tr[3] : tr \in {t \in g.trans : t[2] \in mAssnMap}}

IInvReversed ==
    /\ stage \in {"marked", "done"} =>
          /\ Parsed
          /\ composed # 0 /\ composed = Len(thread_graphs_)
          /\ result.marked = AssertionTargets(result)
    /\ stage # "done" => lGenerator = EmptyGenerator
    /\ stage = "done" => lGenerator = ReverseGenerator(Deterministic(result))

IInvSC == IInvParse /\ IInvAutomata /\ IInvResult /\ IInvReversed

\* Nothing has been built.
LEMMA SCInit ==
    ASSUME InitSC
    PROVE  IInvSC
<1>1. IInvParse
  BY ParseInit DEF InitSC
<1>2. Len(thread_graphs_) \in Nat
  BY <1>1 DEF IInvParse, ParseTypes
<1>3. NotStarted
  BY DEF InitSC, NotStarted
<1>4. <<>> \in Seq(ThreadGenerators) /\ Len(<<>>) = 0
  OBVIOUS
<1>5. IInvAutomata
  BY <1>2, <1>3, <1>4 DEF IInvAutomata, NotStarted
<1>6. IInvResult /\ IInvReversed
  BY <1>3 DEF IInvResult, IInvReversed, NotStarted
<1> QED
  BY <1>1, <1>5, <1>6 DEF IInvSC

\* A step of the parser.
LEMMA ParseSC ==
    ASSUME IInvSC, Parse
    PROVE  IInvSC'
<1>1. ParseNext /\ UNCHANGED <<faudesAutomata, result, composed, lGenerator, stage>>
  BY DEF Parse, building
<1>2. IInvParse'
  BY <1>1, ParseStep DEF IInvSC
<1>3. NotStarted
  BY <1>1, ParseOver DEF IInvSC, IInvAutomata
<1>4. NotStarted'
  BY <1>1, <1>3 DEF NotStarted
<1>5. Len(thread_graphs_)' \in Nat
  BY <1>2 DEF IInvParse, ParseTypes
<1>6. <<>> \in Seq(ThreadGenerators') /\ Len(<<>>) = 0
  OBVIOUS
<1>7. IInvAutomata'
  BY <1>4, <1>5, <1>6 DEF IInvAutomata, NotStarted
<1>8. IInvResult' /\ IInvReversed'
  BY <1>4 DEF IInvResult, IInvReversed, NotStarted
<1> QED
  BY <1>2, <1>7, <1>8 DEF IInvSC

\* What a step after the parsing leaves alone.
LEMMA ParsedStays ==
    ASSUME IInvSC, UNCHANGED <<module, parsing>>
    PROVE  /\ IInvParse'
           /\ Parsed' = Parsed /\ ThreadGenerators' = ThreadGenerators
           /\ thread_graphs_' = thread_graphs_ /\ mAssnMap' = mAssnMap
<1>1. UNCHANGED <<module, cur_func, thread_graphs_, mAssnMap>>
  BY DEF parsing
<1>2. IInvParse'
  BY ParseStutter DEF IInvSC
<1> QED
  BY <1>1, <1>2 DEF Parsed, ThreadGenerators

\* The product stays a shuffle while it is left alone.
LEMMA ShuffleStays ==
    ASSUME thread_graphs_' = thread_graphs_, result' = result, composed' = composed, IInvResult
    PROVE  IInvResult'
<1>1. CASE composed = 0
  BY <1>1 DEF IInvResult
<1>2. CASE composed # 0
  <2>1. PICK at : Shuffle(thread_graphs_, result, composed, at)
    BY <1>2 DEF IInvResult
  <2> QED
    BY <1>2, <2>1 DEF IInvResult
<1> QED
  BY <1>1, <1>2

\* One more generator of a thread.
LEMMA CreateNextSC ==
    ASSUME IInvSC, CreateNext
    PROVE  IInvSC'
<1> DEFINE n == Len(faudesAutomata)
           adj == thread_graphs_[n + 1]
<1>1. /\ Parsed /\ stage = "threads" /\ n < Len(thread_graphs_)
      /\ UNCHANGED <<module, parsing, result, composed, lGenerator>>
  BY DEF CreateNext
<1>2. /\ IInvParse' /\ Parsed' = Parsed /\ ThreadGenerators' = ThreadGenerators
      /\ thread_graphs_' = thread_graphs_ /\ mAssnMap' = mAssnMap
  BY <1>1, ParsedStays
<1>3. IInvResult'
  BY <1>1, <1>2, ShuffleStays DEF IInvSC
<1>4. n \in Nat /\ faudesAutomata \in Seq(ThreadGenerators) /\ Len(thread_graphs_) \in Nat
  BY DEF IInvSC, IInvAutomata, IInvParse, ParseTypes
<1>5. CASE ShapeRight(adj)
  <2>1. faudesAutomata' = Append(faudesAutomata, CreateFAutomataFaudes(adj)) /\ stage' = stage
    BY <1>5 DEF CreateNext
  <2>2. n + 1 \in 1..Len(thread_graphs_)
    BY <1>1, <1>4
  <2>3. CreateFAutomataFaudes(adj) \in ThreadGenerators
    BY <2>2 DEF ThreadGenerators
  <2> HIDE DEF adj
  <2>4. /\ faudesAutomata' \in Seq(ThreadGenerators) /\ Len(faudesAutomata') = n + 1
        /\ faudesAutomata'[n + 1] = CreateFAutomataFaudes(adj)
        /\ \A i \in 1..n : faudesAutomata'[i] = faudesAutomata[i]
    BY <1>4, <2>1, <2>3
  <2>5. \A i \in 1..(n + 1) : faudesAutomata'[i] = CreateFAutomataFaudes(thread_graphs_[i])
                              /\ ShapeRight(thread_graphs_[i])
    <3>1. ASSUME NEW i \in 1..(n + 1)
          PROVE  faudesAutomata'[i] = CreateFAutomataFaudes(thread_graphs_[i])
                 /\ ShapeRight(thread_graphs_[i])
      <4>1. CASE i = n + 1
        BY <1>5, <2>4, <4>1 DEF adj
      <4>2. CASE i \in 1..n
        BY <2>4, <4>2 DEF IInvSC, IInvAutomata
      <4> QED
        BY <1>4, <4>1, <4>2
    <3> QED
      BY <3>1
  <2>6. composed \in 0..n
    BY DEF IInvSC, IInvAutomata
  <2> HIDE DEF n
  <2>7. IInvAutomata'
    BY <1>1, <1>2, <1>4, <2>1, <2>2, <2>4, <2>5, <2>6 DEF IInvAutomata
  <2>8. IInvReversed'
    BY <1>1, <1>2, <2>1 DEF IInvSC, IInvReversed
  <2> QED
    BY <1>2, <1>3, <2>7, <2>8 DEF IInvSC
<1>6. CASE ~ShapeRight(adj)
  <2>1. faudesAutomata' = faudesAutomata /\ stage' = "aborted"
    BY <1>6 DEF CreateNext
  <2> HIDE DEF n, adj
  <2>2. IInvAutomata'
    BY <1>1, <1>2, <2>1 DEF IInvSC, IInvAutomata
  <2>3. IInvReversed'
    BY <1>1, <1>2, <2>1 DEF IInvSC, IInvReversed
  <2> QED
    BY <1>2, <1>3, <2>2, <2>3 DEF IInvSC
<1> QED
  BY <1>5, <1>6

\* One more thread in the product.
LEMMA ComposeNextSC ==
    ASSUME IInvSC, ComposeNext
    PROVE  IInvSC'
<1>1. /\ Parsed /\ stage = "threads" /\ composed < Len(faudesAutomata) /\ composed' = composed + 1
      /\ result' = IF composed = 0 THEN faudesAutomata[1]
                   ELSE Parallel(result, faudesAutomata[composed + 1])
      /\ UNCHANGED <<module, parsing, faudesAutomata, lGenerator, stage>>
  BY DEF ComposeNext
<1>2. /\ IInvParse' /\ Parsed' = Parsed /\ ThreadGenerators' = ThreadGenerators
      /\ thread_graphs_' = thread_graphs_ /\ mAssnMap' = mAssnMap
  BY <1>1, ParsedStays
<1>3. /\ Len(faudesAutomata) \in Nat /\ Len(thread_graphs_) \in Nat /\ composed \in Nat
      /\ Len(faudesAutomata) <= Len(thread_graphs_)
  BY DEF IInvSC, IInvAutomata, IInvParse, ParseTypes
<1>4. /\ composed + 1 \in 1..Len(faudesAutomata) /\ composed + 1 \in 1..Len(thread_graphs_)
      /\ composed' # 0
  BY <1>1, <1>3
<1>5. /\ faudesAutomata[composed + 1] = CreateFAutomataFaudes(thread_graphs_[composed + 1])
      /\ ShapeRight(thread_graphs_[composed + 1])
  BY <1>4 DEF IInvSC, IInvAutomata
<1>6. \E at : Shuffle(thread_graphs_', result', composed', at)
  <2>1. CASE composed = 0
    <3>1. /\ composed + 1 = 1 /\ composed' = 1
          /\ result' = CreateFAutomataFaudes(thread_graphs_[1])
      BY <1>1, <1>5, <2>1
    <3>2. \E at : Shuffle(thread_graphs_, CreateFAutomataFaudes(thread_graphs_[1]), 1, at)
      BY <1>4, <1>5, <3>1, ShuffleOne DEF IInvSC
    <3> QED
      BY <1>2, <3>1, <3>2
  <2>2. CASE composed # 0
    <3>1. PICK at : Shuffle(thread_graphs_, result, composed, at)
      BY <2>2 DEF IInvSC, IInvResult
    <3>2. \E at2 : Shuffle(thread_graphs_, Parallel(result, CreateFAutomataFaudes(thread_graphs_[composed + 1])),
                           composed + 1, at2)
      BY <1>3, <1>4, <1>5, <3>1, ShuffleNext DEF IInvSC
    <3> QED
      BY <1>1, <1>2, <1>5, <2>2, <3>2
  <2> QED
    BY <2>1, <2>2
<1>7. IInvResult'
  <2>1. PICK at : Shuffle(thread_graphs_', result', composed', at)
    BY <1>6
  <2> QED
    BY <1>4, <2>1 DEF IInvResult
<1>8. IInvAutomata'
  BY <1>1, <1>2, <1>3, <1>4 DEF IInvSC, IInvAutomata
<1>9. IInvReversed'
  BY <1>1, <1>2 DEF IInvSC, IInvReversed
<1> QED
  BY <1>2, <1>7, <1>8, <1>9 DEF IInvSC

\* No thread at all.
LEMMA NoProcessSC ==
    ASSUME IInvSC, NoProcess
    PROVE  IInvSC'
<1>1. /\ Parsed /\ stage = "threads" /\ stage' = "aborted"
      /\ UNCHANGED <<module, parsing, faudesAutomata, result, composed, lGenerator>>
  BY DEF NoProcess
<1>2. /\ IInvParse' /\ Parsed' = Parsed /\ ThreadGenerators' = ThreadGenerators
      /\ thread_graphs_' = thread_graphs_ /\ mAssnMap' = mAssnMap
  BY <1>1, ParsedStays
<1>3. IInvResult'
  BY <1>1, <1>2, ShuffleStays DEF IInvSC
<1>4. IInvAutomata'
  BY <1>1, <1>2 DEF IInvSC, IInvAutomata
<1>5. IInvReversed'
  BY <1>1, <1>2 DEF IInvSC, IInvReversed
<1> QED
  BY <1>2, <1>3, <1>4, <1>5 DEF IInvSC

\* Only the marked states of a generator matter to a change of them.
LEMMA MarkingStays ==
    ASSUME NEW T, NEW g, NEW c, NEW at, Shuffle(T, g, c, at), NEW m \in SUBSET g.states
    PROVE  LET h == [g EXCEPT !.marked = m]
           IN  /\ h.states = g.states /\ h.init = g.init /\ h.trans = g.trans /\ h.marked = m
               /\ Shuffle(T, h, c, at)
<1> DEFINE h == [g EXCEPT !.marked = m]
<1>1. h.states = g.states /\ h.init = g.init /\ h.trans = g.trans /\ h.marked = m
      /\ \E q1, q2, q3, q4 : h = [states |-> q1, init |-> q2, marked |-> q3, trans |-> q4]
  <2>1. ASSUME NEW q1, NEW q2, NEW q3, NEW q4
        PROVE  [[states |-> q1, init |-> q2, marked |-> q3, trans |-> q4] EXCEPT !.marked = m]
                  = [states |-> q1, init |-> q2, marked |-> m, trans |-> q4]
    OBVIOUS
  <2>2. PICK q1, q2, q3, q4 : g = [states |-> q1, init |-> q2, marked |-> q3, trans |-> q4]
    BY DEF Shuffle, IsGenerator
  <2>3. h = [states |-> q1, init |-> q2, marked |-> m, trans |-> q4]
    BY <2>1, <2>2
  <2> HIDE DEF h
  <2> QED
    BY <2>2, <2>3
<1> HIDE DEF h
<1>2. Reachable(h) = Reachable(g) /\ Finite(h) = Finite(g)
  BY <1>1 DEF Reachable, ClosedUnder, Finite
<1>3. IsGenerator(h)
  BY <1>1, <1>2 DEF Shuffle, IsGenerator
<1>4. EventsOf(T, h, c, at)
  BY <1>1, <1>2 DEF Shuffle, EventsOf
<1>5. PlacesOf(h, c, at)
  <2> DEFINE D == Reachable(g)
  <2>1. /\ at \in [D -> [1..c -> Nat \ {0}]]
        /\ \E s : g.init = {s} /\ at[s] = [i \in 1..c |-> 3]
        /\ \A s, t \in D : at[s] = at[t] => s = t
    BY DEF Shuffle, PlacesOf
  <2>2. \A s, t \in D : \A i \in 1..c : \E u \in D : at[u] = Put(at[s], i, at[t][i])
    BY DEF Shuffle, PlacesOf
  <2>3. Reachable(h) = D
    BY <1>2
  <2> HIDE DEF D
  <2> QED
    BY <1>1, <2>1, <2>2, <2>3 DEF PlacesOf
<1>6. MovesOf(T, h, c, at)
  BY <1>1, <1>2 DEF Shuffle, MovesOf
<1>7. Deterministically(h)
  BY <1>1, <1>2 DEF Shuffle, Deterministically
<1> QED
  BY <1>1, <1>3, <1>4, <1>5, <1>6, <1>7 DEF Shuffle, h

\* The marking.
LEMMA MarkSC ==
    ASSUME IInvSC, Mark
    PROVE  IInvSC'
<1>1. /\ Parsed /\ stage = "threads" /\ composed > 0 /\ composed = Len(thread_graphs_)
      /\ result' = [result EXCEPT !.marked = AssertionTargets(result)]
      /\ stage' = "marked"
      /\ UNCHANGED <<module, parsing, faudesAutomata, composed, lGenerator>>
  BY DEF Mark, MarkAssertions, AssertionTargets
<1>2. /\ IInvParse' /\ Parsed' = Parsed /\ ThreadGenerators' = ThreadGenerators
      /\ thread_graphs_' = thread_graphs_ /\ mAssnMap' = mAssnMap
  BY <1>1, ParsedStays
<1>3. composed \in Nat /\ composed # 0
  <2>1. Len(faudesAutomata) \in Nat
    BY DEF IInvSC, IInvAutomata
  <2> QED
    BY <1>1, <2>1 DEF IInvSC, IInvAutomata
<1>4. PICK at : Shuffle(thread_graphs_, result, composed, at)
  BY <1>3 DEF IInvSC, IInvResult
<1>5. AssertionTargets(result) \in SUBSET result.states
  BY <1>4 DEF Shuffle, IsGenerator, Finite, AssertionTargets
<1>6. /\ result'.trans = result.trans /\ result'.marked = AssertionTargets(result)
      /\ Shuffle(thread_graphs_, result', composed, at)
  BY <1>1, <1>4, <1>5, MarkingStays
<1>7. result'.marked = AssertionTargets(result)'
  BY <1>2, <1>6 DEF AssertionTargets
<1>8. IInvAutomata'
  BY <1>1, <1>2 DEF IInvSC, IInvAutomata
<1>9. IInvResult'
  BY <1>1, <1>2, <1>3, <1>6 DEF IInvResult
<1>10. IInvReversed'
  BY <1>1, <1>2, <1>3, <1>7 DEF IInvSC, IInvReversed
<1> QED
  BY <1>2, <1>8, <1>9, <1>10 DEF IInvSC

\* The reversal.
LEMMA ReverseSC ==
    ASSUME IInvSC, Reverse
    PROVE  IInvSC'
<1>1. /\ stage = "marked" /\ stage' = "done"
      /\ lGenerator' = ReverseGenerator(Deterministic(result))
      /\ UNCHANGED <<module, parsing, faudesAutomata, result, composed>>
  BY DEF Reverse
<1>2. /\ IInvParse' /\ Parsed' = Parsed /\ ThreadGenerators' = ThreadGenerators
      /\ thread_graphs_' = thread_graphs_ /\ mAssnMap' = mAssnMap
  BY <1>1, ParsedStays
<1>3. Parsed
  BY <1>1 DEF IInvSC, IInvReversed
<1>4. IInvResult'
  BY <1>1, <1>2, ShuffleStays DEF IInvSC
<1>5. IInvAutomata'
  BY <1>1, <1>2, <1>3 DEF IInvSC, IInvAutomata
<1>6. IInvReversed'
  <2>1. result.marked = AssertionTargets(result) /\ composed # 0 /\ composed = Len(thread_graphs_)
    BY <1>1 DEF IInvSC, IInvReversed
  <2>2. AssertionTargets(result)' = AssertionTargets(result)
    BY <1>1, <1>2 DEF AssertionTargets
  <2> QED
    BY <1>1, <1>2, <1>3, <2>1, <2>2 DEF IInvReversed
<1> QED
  BY <1>2, <1>4, <1>5, <1>6 DEF IInvSC

\* A step that changes nothing.
LEMMA StutterSC ==
    ASSUME IInvSC, UNCHANGED scvars
    PROVE  IInvSC'
<1>1. UNCHANGED <<module, parsing, faudesAutomata, result, composed, lGenerator, stage>>
  BY DEF scvars, building
<1>2. /\ IInvParse' /\ Parsed' = Parsed /\ ThreadGenerators' = ThreadGenerators
      /\ thread_graphs_' = thread_graphs_ /\ mAssnMap' = mAssnMap
  BY <1>1, ParsedStays
<1>3. IInvResult'
  BY <1>1, <1>2, ShuffleStays DEF IInvSC
<1>4. IInvAutomata'
  BY <1>1, <1>2 DEF IInvSC, IInvAutomata, NotStarted
<1>5. IInvReversed'
  <2>1. AssertionTargets(result)' = AssertionTargets(result)
    BY <1>1, <1>2 DEF AssertionTargets
  <2> QED
    BY <1>1, <1>2, <2>1 DEF IInvSC, IInvReversed
<1> QED
  BY <1>2, <1>3, <1>4, <1>5 DEF IInvSC

\* Every step keeps the invariant.
LEMMA StepSC ==
    ASSUME IInvSC, [NextSC]_scvars
    PROVE  IInvSC'
BY ParseSC, CreateNextSC, ComposeNextSC, NoProcessSC, MarkSC, ReverseSC, StutterSC
   DEF NextSC, Finished

\* The reversal of the product has its states and transitions, one by one.
IsReversed(g, s0, h) ==
    /\ h.states = {{s} : s \in Reachable(g)}
    /\ h.init = {{s} : s \in Reachable(g) \cap g.marked}
    /\ h.marked = {{s0}}
    /\ \A tr : tr \in h.trans
         <=> \E t \in g.trans : t[1] \in Reachable(g) /\ tr = <<{t[3]}, t[2], {t[1]}>>

\* The reversal of the subset construction of a deterministic generator.
LEMMA ReversedFacts ==
    ASSUME NEW g, IsGenerator(g), Deterministically(g), NEW s0, g.init = {s0}
    PROVE  LET h == ReverseGenerator(Deterministic(g))
           IN  IsReversed(g, s0, h) /\ WellFormed(h)
<1> DEFINE d == Deterministic(g)
           h == ReverseGenerator(d)
           D == Reachable(g)
<1>1. /\ d.init = {{s0}}
      /\ d.states = {{s} : s \in D}
      /\ d.marked = {{s} : s \in D \cap g.marked}
      /\ \A tr : tr \in d.trans
           <=> \E t \in g.trans : t[1] \in D /\ tr = <<{t[1]}, t[2], {t[3]}>>
  BY DeterministicFacts DEF IsGenerator
<1>2. g.init \subseteq D /\ ClosedUnder(g, D)
  BY ReachableFacts DEF IsGenerator
<1> HIDE DEF d, D
<1>3. /\ h.states = d.states /\ h.init = d.marked /\ h.marked = d.init
      /\ h.trans = {<<tr[3], tr[2], tr[1]>> : tr \in d.trans}
  BY DEF ReverseGenerator
<1> HIDE DEF h
<1>4. ASSUME NEW tr
      PROVE  tr \in h.trans <=> \E t \in g.trans : t[1] \in D /\ tr = <<{t[3]}, t[2], {t[1]}>>
  <2>1. ASSUME NEW x \in d.trans, tr = <<x[3], x[2], x[1]>>
        PROVE  \E t \in g.trans : t[1] \in D /\ tr = <<{t[3]}, t[2], {t[1]}>>
    <3>1. PICK t \in g.trans : t[1] \in D /\ x = <<{t[1]}, t[2], {t[3]}>>
      BY <1>1
    <3> QED
      BY <2>1, <3>1
  <2>2. ASSUME NEW t \in g.trans, t[1] \in D, tr = <<{t[3]}, t[2], {t[1]}>>
        PROVE  \E x \in d.trans : tr = <<x[3], x[2], x[1]>>
    <3> DEFINE x == <<{t[1]}, t[2], {t[3]}>>
    <3>1. tr = <<x[3], x[2], x[1]>>
      BY <2>2
    <3>2. x \in d.trans
      <4>1. \E u \in g.trans : u[1] \in D /\ x = <<{u[1]}, u[2], {u[3]}>>
        BY <2>2
      <4> HIDE DEF x
      <4> QED
        BY <1>1, <4>1
    <3> QED
      BY <3>1, <3>2
  <2> QED
    BY <1>3, <2>1, <2>2
<1>5. WellFormed(h)
  <2>1. h.init \cup h.marked \subseteq h.states
    BY <1>1, <1>2, <1>3
  <2>2. ASSUME NEW tr \in h.trans
        PROVE  tr \in h.states \X Nat \X h.states
    <3>1. PICK t \in g.trans : t[1] \in D /\ tr = <<{t[3]}, t[2], {t[1]}>>
      BY <1>4
    <3>2. t[3] \in D /\ t[2] \in Nat
      BY <1>2, <3>1 DEF ClosedUnder, IsGenerator, Finite
    <3> QED
      BY <1>1, <1>3, <3>1, <3>2
  <2> QED
    BY <2>1, <2>2 DEF WellFormed
<1>6. IsReversed(g, s0, h)
  BY <1>1, <1>3, <1>4 DEF IsReversed, D
<1> QED
  BY <1>5, <1>6 DEF h, d

\* The invariant implies the type invariant.
LEMMA IInvTypeOKSC ==
    ASSUME IInvSC
    PROVE  TypeOKSC
<1>1. TypeOK
  BY IInvTypeOK DEF IInvSC
<1>2. /\ stage \in {"threads", "marked", "done", "aborted"}
      /\ composed \in 0..Len(faudesAutomata)
      /\ Len(faudesAutomata) \in 0..Len(thread_graphs_)
  <2>1. Len(faudesAutomata) \in Nat /\ Len(thread_graphs_) \in Nat
    BY DEF IInvSC, IInvAutomata, IInvParse, ParseTypes
  <2> QED
    BY <2>1 DEF IInvSC, IInvAutomata
<1>3. WellFormed(EmptyGenerator)
  BY DEF WellFormed, EmptyGenerator
<1>4. WellFormed(result)
  <2>1. CASE composed = 0
    BY <1>3, <2>1 DEF IInvSC, IInvResult
  <2>2. CASE composed # 0
    BY <2>2 DEF IInvSC, IInvResult, Shuffle, IsGenerator, Finite, WellFormed
  <2> QED
    BY <2>1, <2>2
<1>5. WellFormed(lGenerator)
  <2>1. CASE stage # "done"
    BY <1>3, <2>1 DEF IInvSC, IInvReversed
  <2>2. CASE stage = "done"
    <3>1. lGenerator = ReverseGenerator(Deterministic(result)) /\ composed # 0
      BY <2>2 DEF IInvSC, IInvReversed
    <3>2. PICK at : Shuffle(thread_graphs_, result, composed, at)
      BY <3>1 DEF IInvSC, IInvResult
    <3>3. /\ IsGenerator(result) /\ Deterministically(result)
          /\ \E s : result.init = {s}
      BY <3>2 DEF Shuffle, PlacesOf
    <3> QED
      BY <3>1, <3>3, ReversedFacts
  <2> QED
    BY <2>1, <2>2
<1> QED
  BY <1>1, <1>2, <1>4, <1>5 DEF TypeOKSC

-----------------------------------------------------------------------------
(***************************************************************************)
(* The words of the reversed automaton are those of its walks.             *)
(***************************************************************************)
Walk(h, w, r) ==
    /\ r \in [0..Len(w) -> h.states]
    /\ r[0] \in h.init
    /\ \A j \in 1..Len(w) : <<r[j-1], w[j], r[j]>> \in h.trans

\* A walk goes on along a transition.
LEMMA WalkOn ==
    ASSUME NEW h, WellFormed(h), NEW w \in Seq(Nat), NEW r, Walk(h, w, r),
           NEW t \in h.trans, t[1] = r[Len(w)]
    PROVE  /\ Append(w, t[2]) \in Seq(Nat) /\ Len(Append(w, t[2])) = Len(w) + 1
           /\ \E r2 : Walk(h, Append(w, t[2]), r2) /\ r2[Len(w) + 1] = t[3]
<1> DEFINE k == Len(w)
           w2 == Append(w, t[2])
           r2 == [j \in 0..(k + 1) |-> IF j <= k THEN r[j] ELSE t[3]]
<1>1. t[2] \in Nat /\ t[3] \in h.states /\ t = <<t[1], t[2], t[3]>> /\ k \in Nat
  BY DEF WellFormed
<1>2. /\ w2 \in Seq(Nat) /\ Len(w2) = k + 1 /\ w2[k + 1] = t[2]
      /\ \A j \in 1..k : w2[j] = w[j]
  BY <1>1
<1>3. /\ r2[k + 1] = t[3] /\ r2[0] = r[0]
      /\ \A j \in 0..k : r2[j] = r[j]
  BY <1>1
<1>4. r2 \in [0..(k + 1) -> h.states]
  BY <1>1 DEF Walk
<1> HIDE DEF r2
<1>5. ASSUME NEW j \in 1..(k + 1)
      PROVE  <<r2[j-1], w2[j], r2[j]>> \in h.trans
  <2>1. CASE j = k + 1
    <3>1. j - 1 = k /\ k \in 0..k
      BY <1>1, <2>1
    <3>2. r2[j-1] = t[1] /\ w2[j] = t[2] /\ r2[j] = t[3]
      BY <1>2, <1>3, <2>1, <3>1
    <3> QED
      BY <1>1, <3>2
  <2>2. CASE j # k + 1
    <3>1. j \in 1..k /\ j - 1 \in 0..k /\ j \in 0..k
      BY <1>1, <2>2
    <3>2. r2[j-1] = r[j-1] /\ w2[j] = w[j] /\ r2[j] = r[j]
      BY <1>2, <1>3, <3>1
    <3> QED
      BY <3>1, <3>2 DEF Walk
  <2> QED
    BY <2>1, <2>2
<1> HIDE DEF w2, k
<1>6. Walk(h, w2, r2)
  BY <1>2, <1>3, <1>4, <1>5 DEF Walk, k
<1> QED
  BY <1>2, <1>3, <1>6 DEF w2, k

LastStep(h, k, w, S) ==
    \E v \in Seq(Nat) : \E r : \E t \in h.trans :
       /\ Len(v) = k /\ Walk(h, v, r) /\ t[1] = r[k]
       /\ w = Append(v, t[2]) /\ t[3] = S

\* A walk that is not empty has a last transition.
LEMMA WalkBack ==
    ASSUME NEW h, WellFormed(h), NEW k \in Nat, NEW w \in Seq(Nat), Len(w) = k + 1,
           NEW r, Walk(h, w, r)
    PROVE  LastStep(h, k, w, r[k + 1])
<1> DEFINE v == SubSeq(w, 1, k)
           r2 == [j \in 0..k |-> r[j]]
           t == <<r[k], w[k + 1], r[k + 1]>>
<1>1. /\ v \in Seq(Nat) /\ Len(v) = k
      /\ \A j \in 1..k : v[j] = w[j]
  OBVIOUS
<1>2. w = Append(v, w[k + 1])
  <2>1. w[k + 1] \in Nat
    OBVIOUS
  <2>2. Append(v, w[k + 1]) \in Seq(Nat) /\ Len(Append(v, w[k + 1])) = k + 1
    BY <1>1, <2>1
  <2>3. \A j \in 1..(k + 1) : Append(v, w[k + 1])[j] = w[j]
    BY <1>1, <2>1
  <2> HIDE DEF v
  <2> QED
    BY <2>2, <2>3
<1>3. k + 1 \in 1..Len(w) /\ k + 1 - 1 = k /\ \A j \in 1..k : j \in 1..Len(w)
  OBVIOUS
<1>4. t \in h.trans
  <2>1. <<r[k + 1 - 1], w[k + 1], r[k + 1]>> \in h.trans
    BY <1>3 DEF Walk
  <2> QED
    BY <1>3, <2>1
<1>5. /\ \A j \in 1..k : j \in 0..k /\ j - 1 \in 0..k
      /\ \A j \in 0..k : j \in 0..Len(w) /\ r2[j] = r[j]
      /\ 0 \in 0..k /\ k \in 0..k
  OBVIOUS
<1>6. r2 \in [0..k -> h.states]
  BY <1>5 DEF Walk
<1> HIDE DEF v, r2
<1>7. Walk(h, v, r2)
  <2>1. \A j \in 1..k : <<r2[j-1], v[j], r2[j]>> = <<r[j-1], w[j], r[j]>>
    BY <1>1, <1>5
  <2>2. \A j \in 1..k : <<r[j-1], w[j], r[j]>> \in h.trans
    BY <1>3 DEF Walk
  <2>3. r2[0] \in h.init
    BY <1>5 DEF Walk
  <2> QED
    BY <1>1, <1>6, <2>1, <2>2, <2>3 DEF Walk
<1>8. t[1] = r2[k] /\ t[2] = w[k + 1] /\ t[3] = r[k + 1]
  BY <1>5
<1> HIDE DEF t
<1> QED
  BY <1>1, <1>2, <1>4, <1>7, <1>8 DEF LastStep

WordsAfter(h, k, X) ==
    X \cup UNION {{<<Append(p[1], tr[2]), tr[3]>> : tr \in {t \in h.trans : t[1] = p[2]}} :
                     p \in {q \in X : Len(q[1]) = k - 1}}

\* The bound on the lengths is a number.
LEMMA MaxLenIsNat ==
    MaxLen \in Nat
BY MaxLenAssumption DEF MaxLenAssumption

\* The equations of ReversedWords.
LEMMA ReversedWordsEquations ==
    ASSUME NEW h, WellFormed(h)
    PROVE  \E P : /\ P[0] = {<<<<>>, S>> : S \in h.init}
                  /\ \A k \in 1..MaxLen : P[k] = WordsAfter(h, k, P[k-1])
                  /\ ReversedWords(h) = {p[1] : p \in {q \in P[MaxLen] : q[2] \in h.marked}}
<1> DEFINE U == Seq(Nat) \X h.states
           n == MaxLen
           c == {<<<<>>, S>> : S \in h.init}
           After(k, X) == X \cup
               UNION {{<<Append(p[1], tr[2]), tr[3]>> : tr \in {t \in h.trans : t[1] = p[2]}} :
                         p \in {q \in X : Len(q[1]) = k - 1}}
           Body(f) == [k \in 0..n |-> IF k = 0 THEN {<<<<>>, S>> : S \in h.init} ELSE After(k, f[k-1])]
           G == [p \in (1..n) \X SUBSET U |-> After(p[1], p[2])]
           Last(f) == {p[1] : p \in {q \in f[n] : q[2] \in h.marked}}
<1>1. c \in SUBSET U
  <2>1. <<>> \in Seq(Nat) /\ h.init \subseteq h.states
    BY DEF WellFormed
  <2>2. ASSUME NEW e \in Seq(Nat), NEW S \in h.init
        PROVE  <<e, S>> \in U
    BY <2>1
  <2>3. \A S \in h.init : <<<<>>, S>> \in U
    BY <2>1, <2>2
  <2> QED
    BY <2>3
<1>2. ASSUME NEW k \in 1..n, NEW X \in SUBSET U
      PROVE  After(k, X) \in SUBSET U
  <2>1. ASSUME NEW p \in X, NEW t \in h.trans
        PROVE  <<Append(p[1], t[2]), t[3]>> \in U
    <3>1. p[1] \in Seq(Nat) /\ t[2] \in Nat /\ t[3] \in h.states
      BY DEF WellFormed
    <3>2. Append(p[1], t[2]) \in Seq(Nat)
      BY <3>1
    <3> QED
      BY <3>1, <3>2
  <2> QED
    BY <2>1
<1>3. G \in [(1..n) \X SUBSET U -> SUBSET U]
  <2> HIDE DEF After, n, U
  <2> QED
    BY <1>2
<1>4. PICK f : Nats!IsIteration(f, SUBSET U, c, n, G)
  <2> HIDE DEF G, After, n, U, c
  <2> QED
    BY <1>1, <1>3, MaxLenIsNat, Nats!IterationExists DEF n
<1>5. ASSUME NEW k \in 1..n
      PROVE  f[k] = After(k, f[k-1])
  <2>1. f[k-1] \in SUBSET U /\ f[k] = G[<<k, f[k-1]>>]
    <3>1. k - 1 \in 0..n
      BY MaxLenIsNat
    <3> HIDE DEF G, n, U, c
    <3> QED
      BY <1>4, <3>1 DEF Nats!IsIteration
  <2> HIDE DEF After, n, U
  <2> QED
    BY <2>1
<1>6. f \in [0..n -> SUBSET U] /\ f[0] = c
  <2> HIDE DEF G, n, U, c
  <2> QED
    BY <1>4 DEF Nats!IsIteration
<1>7. f = Body(f)
  <2> HIDE DEF After, n, U
  <2> QED
    BY <1>5, <1>6
<1> DEFINE N == CHOOSE g : g = Body(g)
<1>8. ReversedWords(h) = Last(N)
  BY DEF ReversedWords
<1>9. N = Body(N)
  <2> HIDE DEF Body
  <2> QED
    BY <1>7
<1>10. N[0] = c /\ \A k \in 1..n : N[k] = After(k, N[k-1])
  <2> HIDE DEF After, N
  <2>1. \A k \in 0..n : N[k] = IF k = 0 THEN c ELSE After(k, N[k-1])
    BY <1>9
  <2>2. \A k \in 1..n : k \in 0..n /\ k # 0
    OBVIOUS
  <2>3. 0 \in 0..n
    BY MaxLenIsNat
  <2> HIDE DEF n, c
  <2> QED
    BY <2>1, <2>2, <2>3
<1> HIDE DEF N
<1>11. \A k \in 1..n : N[k] = WordsAfter(h, k, N[k-1])
  BY <1>10 DEF WordsAfter
<1> QED
  BY <1>8, <1>10, <1>11

\* ReversedWords has the words of the walks to a marked state.
LEMMA ReversedWordsFacts ==
    ASSUME NEW h, WellFormed(h), NEW w
    PROVE  w \in ReversedWords(h)
             <=> /\ w \in Seq(Nat) /\ Len(w) <= MaxLen
                 /\ \E r : Walk(h, w, r) /\ r[Len(w)] \in h.marked
<1> DEFINE Good(v, S, k) == /\ v \in Seq(Nat) /\ Len(v) <= k
                            /\ \E r : Walk(h, v, r) /\ r[Len(v)] = S
<1>1. PICK P : /\ P[0] = {<<<<>>, S>> : S \in h.init}
               /\ \A k \in 1..MaxLen : P[k] = WordsAfter(h, k, P[k-1])
               /\ ReversedWords(h) = {p[1] : p \in {q \in P[MaxLen] : q[2] \in h.marked}}
  BY ReversedWordsEquations
<1> DEFINE T == {k \in Nat : k <= MaxLen => /\ \A x \in P[k] : Good(x[1], x[2], k) /\ x = <<x[1], x[2]>>
                                           /\ \A v, S : Good(v, S, k) => <<v, S>> \in P[k]}
<1>2. 0 \in T
  <2>1. ASSUME NEW S \in h.init
        PROVE  Good(<<>>, S, 0)
    <3> DEFINE r == [j \in 0..0 |-> S]
    <3>1. r \in [0..0 -> h.states] /\ r[0] = S
      BY DEF WellFormed
    <3>2. <<>> \in Seq(Nat) /\ Len(<<>>) = 0 /\ 1..0 = {}
      OBVIOUS
    <3> HIDE DEF r
    <3>3. Walk(h, <<>>, r)
      BY <3>1, <3>2 DEF Walk
    <3> QED
      BY <3>1, <3>2, <3>3
  <2>2. ASSUME NEW v, NEW S, Good(v, S, 0)
        PROVE  v = <<>> /\ S \in h.init
    <3>1. v \in Seq(Nat) /\ Len(v) = 0
      BY <2>2
    <3>2. PICK r : Walk(h, v, r) /\ r[Len(v)] = S
      BY <2>2
    <3> QED
      BY <3>1, <3>2 DEF Walk
  <2> HIDE DEF Good
  <2>3. ASSUME NEW x \in P[0]
        PROVE  Good(x[1], x[2], 0) /\ x = <<x[1], x[2]>>
    <3>1. PICK S \in h.init : x = <<<<>>, S>>
      BY <1>1
    <3> QED
      BY <2>1, <3>1
  <2>4. ASSUME NEW v, NEW S, Good(v, S, 0)
        PROVE  <<v, S>> \in P[0]
    <3>1. v = <<>> /\ S \in h.init
      BY <2>2, <2>4
    <3> QED
      BY <1>1, <3>1
  <2> QED
    BY <2>3, <2>4
<1>3. ASSUME NEW k \in Nat, k \in T
      PROVE  k + 1 \in T
  <2>1. SUFFICES ASSUME k + 1 <= MaxLen
                 PROVE  /\ \A x \in P[k + 1] : Good(x[1], x[2], k + 1) /\ x = <<x[1], x[2]>>
                        /\ \A v, S : Good(v, S, k + 1) => <<v, S>> \in P[k + 1]
    OBVIOUS
  <2>2. /\ \A x \in P[k] : Good(x[1], x[2], k) /\ x = <<x[1], x[2]>>
        /\ \A v, S : Good(v, S, k) => <<v, S>> \in P[k]
    BY <1>3, <2>1, MaxLenIsNat
  <2>3. P[k + 1] = WordsAfter(h, k + 1, P[k]) /\ k + 1 - 1 = k
    <3>1. k + 1 \in 1..MaxLen /\ k + 1 - 1 = k
      BY <2>1
    <3> QED
      BY <1>1, <3>1
  <2>4. ASSUME NEW v, NEW S, Good(v, S, k)
        PROVE  Good(v, S, k + 1)
    <3>1. v \in Seq(Nat) /\ Len(v) \in Nat /\ Len(v) <= k
      BY <2>4
    <3>2. Len(v) <= k + 1
      BY <3>1
    <3> QED
      BY <2>4, <3>1, <3>2
  <2>5. ASSUME NEW x \in P[k + 1]
        PROVE  Good(x[1], x[2], k + 1) /\ x = <<x[1], x[2]>>
    <3>1. CASE x \in P[k]
      <4> HIDE DEF Good
      <4> QED
        BY <2>2, <2>4, <3>1
    <3>2. CASE \E p \in P[k] : /\ Len(p[1]) = k
                               /\ \E t \in h.trans : t[1] = p[2] /\ x = <<Append(p[1], t[2]), t[3]>>
      <4>1. PICK p \in P[k] : /\ Len(p[1]) = k
                              /\ \E t \in h.trans : t[1] = p[2] /\ x = <<Append(p[1], t[2]), t[3]>>
        BY <3>2
      <4>2. PICK t \in h.trans : t[1] = p[2] /\ x = <<Append(p[1], t[2]), t[3]>>
        BY <4>1
      <4>3. p[1] \in Seq(Nat) /\ \E r : Walk(h, p[1], r) /\ r[Len(p[1])] = p[2]
        BY <2>2
      <4>4. PICK r : Walk(h, p[1], r) /\ r[Len(p[1])] = p[2]
        BY <4>3
      <4> DEFINE u == p[1]
      <4>5. u \in Seq(Nat) /\ Len(u) = k /\ Walk(h, u, r) /\ t[1] = r[Len(u)]
        BY <4>1, <4>2, <4>3, <4>4
      <4>6. x[1] = Append(u, t[2]) /\ x[2] = t[3] /\ x = <<x[1], x[2]>>
        BY <4>2
      <4> HIDE DEF u, Good, T
      <4>7. /\ Append(u, t[2]) \in Seq(Nat) /\ Len(Append(u, t[2])) = Len(u) + 1
            /\ \E r2 : Walk(h, Append(u, t[2]), r2) /\ r2[Len(u) + 1] = t[3]
        BY <4>5, WalkOn
      <4>8. x[1] \in Seq(Nat) /\ Len(x[1]) <= k + 1
        BY <4>5, <4>6, <4>7
      <4>9. \E r2 : Walk(h, x[1], r2) /\ r2[Len(x[1])] = x[2]
        BY <4>5, <4>6, <4>7
      <4> QED
        BY <4>6, <4>8, <4>9 DEF Good
    <3> HIDE DEF Good, T
    <3>3. P[k + 1] = WordsAfter(h, k + 1, P[k])
      BY <2>3
    <3>4. x \in P[k] \/ \E p \in {q \in P[k] : Len(q[1]) = k + 1 - 1} :
             x \in {<<Append(p[1], tr[2]), tr[3]>> : tr \in {t \in h.trans : t[1] = p[2]}}
      BY <3>3 DEF WordsAfter
    <3> QED
      BY <2>3, <3>1, <3>2, <3>4
  <2>6. ASSUME NEW v, NEW S, Good(v, S, k + 1)
        PROVE  <<v, S>> \in P[k + 1]
    <3>1. v \in Seq(Nat) /\ Len(v) \in Nat /\ Len(v) <= k + 1
      BY <2>6
    <3>2. PICK r : Walk(h, v, r) /\ r[Len(v)] = S
      BY <2>6
    <3>3. CASE Len(v) <= k
      <4>1. Good(v, S, k)
        BY <3>1, <3>2, <3>3
      <4> HIDE DEF Good
      <4> QED
        BY <2>2, <2>3, <4>1 DEF WordsAfter
    <3>4. CASE Len(v) = k + 1
      <4>0. LastStep(h, k, v, r[k + 1])
        <5>1. v \in Seq(Nat) /\ Len(v) = k + 1 /\ Walk(h, v, r)
          BY <3>1, <3>2, <3>4
        <5> HIDE DEF Good, T
        <5> QED
          BY <5>1, WalkBack
      <4>1. PICK u \in Seq(Nat) : \E r2 : \E t \in h.trans :
                /\ Len(u) = k /\ Walk(h, u, r2) /\ t[1] = r2[k]
                /\ v = Append(u, t[2]) /\ t[3] = r[k + 1]
        BY <4>0 DEF LastStep
      <4>2. PICK r2 : \E t \in h.trans :
                /\ Len(u) = k /\ Walk(h, u, r2) /\ t[1] = r2[k]
                /\ v = Append(u, t[2]) /\ t[3] = r[k + 1]
        BY <4>1
      <4>3. PICK t \in h.trans :
                /\ Len(u) = k /\ Walk(h, u, r2) /\ t[1] = r2[k]
                /\ v = Append(u, t[2]) /\ t[3] = r[k + 1]
        BY <4>2
      <4>4. Good(u, r2[k], k)
        BY <4>3
      <4> DEFINE p == <<u, r2[k]>>
      <4>5. p \in P[k] /\ p[1] = u /\ p[2] = r2[k]
        <5> HIDE DEF Good
        <5> QED
          BY <2>2, <4>4
      <4>6. t[3] = S
        BY <3>2, <3>4, <4>3
      <4> HIDE DEF p, Good
      <4>7. <<Append(p[1], t[2]), t[3]>> = <<v, S>>
        BY <4>3, <4>5, <4>6
      <4>8. Len(p[1]) = k + 1 - 1 /\ t \in {y \in h.trans : y[1] = p[2]}
        BY <2>3, <4>3, <4>5
      <4>9. <<Append(p[1], t[2]), t[3]>> \in WordsAfter(h, k + 1, P[k])
        BY <4>5, <4>8 DEF WordsAfter
      <4> QED
        BY <2>3, <4>7, <4>9
    <3> QED
      BY <3>1, <3>3, <3>4
  <2> HIDE DEF Good
  <2> QED
    BY <2>5, <2>6
<1>4. Nat \subseteq T
  <2> HIDE DEF T
  <2> QED
    BY <1>2, <1>3, Nats!NatSetInduction
<1>5. /\ \A x \in P[MaxLen] : Good(x[1], x[2], MaxLen) /\ x = <<x[1], x[2]>>
      /\ \A v, S : Good(v, S, MaxLen) => <<v, S>> \in P[MaxLen]
  BY <1>4, MaxLenIsNat
<1>6. ASSUME w \in ReversedWords(h)
      PROVE  /\ w \in Seq(Nat) /\ Len(w) <= MaxLen
             /\ \E r : Walk(h, w, r) /\ r[Len(w)] \in h.marked
  <2>1. PICK q \in P[MaxLen] : q[2] \in h.marked /\ w = q[1]
    BY <1>1, <1>6
  <2>2. Good(w, q[2], MaxLen)
    BY <1>5, <2>1
  <2> QED
    BY <2>1, <2>2
<1>7. ASSUME w \in Seq(Nat), Len(w) <= MaxLen, NEW r, Walk(h, w, r), r[Len(w)] \in h.marked
      PROVE  w \in ReversedWords(h)
  <2> DEFINE x == <<w, r[Len(w)]>>
  <2>1. Good(w, r[Len(w)], MaxLen)
    BY <1>7
  <2>2. x \in P[MaxLen] /\ x[1] = w /\ x[2] = r[Len(w)]
    BY <1>5, <2>1
  <2> HIDE DEF x
  <2> QED
    BY <1>1, <1>7, <2>2
<1> QED
  BY <1>6, <1>7

-----------------------------------------------------------------------------
(***************************************************************************)
(* The interleavings are the words of runs of the threads.  A run gives    *)
(* the nodes of the threads before the last symbol of the word, and after  *)
(* each symbol from there to the first.                                    *)
(***************************************************************************)
Run(T, n, w, V) ==
    /\ V \in [0..Len(w) -> [1..n -> Nat]]
    /\ V[Len(w)] = [i \in 1..n |-> 3]
    /\ \A j \in 1..Len(w) : \E i \in 1..n : \E e \in Edges(T, i) : Moved(T, V[j], w[j], V[j-1], i, e)

Hit(A, w) == \E j \in 1..Len(w) : w[j] \in A

\* The symbols in mAssnMap are those of the edges of node 1.
LEMMA AssertionLabel ==
    ASSUME IInvParse, Parsed, NEW i \in 1..Len(thread_graphs_), NEW e \in Edges(thread_graphs_, i)
    PROVE  e[1] = 1 <=> GetLabel(e[2]) \in mAssnMap
<1>1. mAssnMap = AssertionSymbols /\ DOMAIN thread_graphs_ = 1..Len(thread_graphs_)
  BY DEF IInvParse, ParseEnds, ParseTypes
<1>2. ASSUME e[1] = 1
      PROVE  GetLabel(e[2]) \in mAssnMap
  BY <1>1, <1>2 DEF AssertionSymbols, Edges
<1>3. ASSUME GetLabel(e[2]) \in mAssnMap
      PROVE  e[1] = 1
  <2>1. PICK j \in 1..Len(thread_graphs_) : \E d \in Edges(thread_graphs_, j) :
            d[1] = 1 /\ GetLabel(e[2]) = GetLabel(d[2])
    BY <1>1, <1>3 DEF AssertionSymbols, Edges
  <2>2. PICK d \in Edges(thread_graphs_, j) : d[1] = 1 /\ GetLabel(e[2]) = GetLabel(d[2])
    BY <2>1
  <2>3. d[1] # 0
    BY <2>2
  <2>4. d = e
    BY <2>2, <2>3, LabelOwner
  <2> QED
    BY <2>2, <2>4
<1> QED
  BY <1>2, <1>3

\* A word with one more symbol in front.
LEMMA InFront ==
    ASSUME NEW a \in Nat, NEW w \in Seq(Nat)
    PROVE  /\ <<a>> \o w \in Seq(Nat) /\ Len(<<a>> \o w) = Len(w) + 1
           /\ (<<a>> \o w)[1] = a
           /\ \A j \in 1..Len(w) : (<<a>> \o w)[j + 1] = w[j]
OBVIOUS

\* A word with one more symbol in front has an assertion there or later.
LEMMA HitInFront ==
    ASSUME NEW A, NEW a \in Nat, NEW w \in Seq(Nat)
    PROVE  Hit(A, <<a>> \o w) <=> a \in A \/ Hit(A, w)
<1> DEFINE u == <<a>> \o w
<1>1. /\ u \in Seq(Nat) /\ Len(u) = Len(w) + 1 /\ u[1] = a
      /\ \A j \in 1..Len(w) : u[j + 1] = w[j]
  BY InFront
<1>2. Len(w) \in Nat
  OBVIOUS
<1> HIDE DEF u
<1>3. ASSUME NEW j \in 1..Len(u), u[j] \in A
      PROVE  a \in A \/ Hit(A, w)
  <2>1. CASE j = 1
    BY <1>1, <1>3, <2>1
  <2>2. CASE j # 1
    <3>1. j - 1 \in 1..Len(w) /\ j - 1 + 1 = j
      BY <1>1, <1>2, <2>2
    <3>2. u[j - 1 + 1] = w[j - 1]
      BY <1>1, <3>1
    <3> QED
      BY <1>3, <3>1, <3>2 DEF Hit
  <2> QED
    BY <2>1, <2>2
<1>4. ASSUME a \in A
      PROVE  Hit(A, u)
  <2>1. 1 \in 1..Len(u)
    BY <1>1, <1>2
  <2> QED
    BY <1>1, <1>4, <2>1 DEF Hit
<1>5. ASSUME NEW j \in 1..Len(w), w[j] \in A
      PROVE  Hit(A, u)
  <2>1. j + 1 \in 1..Len(u) /\ u[j + 1] = w[j]
    BY <1>1, <1>2
  <2> QED
    BY <1>5, <2>1 DEF Hit
<1>6. Hit(A, u) <=> a \in A \/ Hit(A, w)
  BY <1>3, <1>4, <1>5 DEF Hit
<1> QED
  BY <1>6 DEF u

RunTo(T, n, w, v) == \E V : Run(T, n, w, V) /\ V[0] = v

OneMove(T, n, u, a, v) == \E i \in 1..n : \E e \in Edges(T, i) : Moved(T, u, a, v, i, e)

\* A run goes on, to the front of the word.
LEMMA RunOn ==
    ASSUME NEW T, NEW n \in Nat, NEW w \in Seq(Nat), NEW V, Run(T, n, w, V), NEW a \in Nat, NEW v \in [1..n -> Nat],
           OneMove(T, n, V[0], a, v)
    PROVE  RunTo(T, n, <<a>> \o w, v)
<1> DEFINE k == Len(w)
           u == <<a>> \o w
           V2 == [j \in 0..(k + 1) |-> IF j = 0 THEN v ELSE V[j-1]]
<1>1. k \in Nat
  OBVIOUS
<1>2. /\ u \in Seq(Nat) /\ Len(u) = k + 1 /\ u[1] = a
      /\ \A j \in 1..k : u[j + 1] = w[j]
  BY InFront
<1>3. V2[0] = v /\ \A j \in 0..k : V2[j + 1] = V[j]
  <2>1. 0 \in 0..(k + 1)
    BY <1>1
  <2>2. \A j \in 0..k : j + 1 \in 0..(k + 1) /\ j + 1 # 0 /\ j + 1 - 1 = j
    BY <1>1
  <2> HIDE DEF k
  <2> QED
    BY <2>1, <2>2
<1>4. V2 \in [0..(k + 1) -> [1..n -> Nat]]
  <2>1. \A j \in 0..(k + 1) : j # 0 => j - 1 \in 0..k
    BY <1>1
  <2>2. V \in [0..k -> [1..n -> Nat]]
    BY DEF Run
  <2> HIDE DEF k
  <2> QED
    BY <2>1, <2>2
<1> HIDE DEF V2, u
<1>5. V2[k + 1] = [i \in 1..n |-> 3]
  <2>1. k \in 0..k
    BY <1>1
  <2> QED
    BY <1>3, <2>1 DEF Run
<1>6. ASSUME NEW j \in 1..(k + 1)
      PROVE  \E i \in 1..n : \E e \in Edges(T, i) : Moved(T, V2[j], u[j], V2[j-1], i, e)
  <2>1. CASE j = 1
    <3>1. 0 \in 0..k /\ 0 + 1 = 1 /\ j - 1 = 0
      BY <1>1, <2>1
    <3>2. V2[j] = V[0] /\ V2[j-1] = v /\ u[j] = a
      BY <1>2, <1>3, <2>1, <3>1
    <3> QED
      BY <3>2 DEF OneMove
  <2>2. CASE j # 1
    <3>1. PICK m \in 1..k : j = m + 1
      <4>1. j - 1 \in 1..k /\ j = (j - 1) + 1
        BY <1>1, <2>2
      <4> QED
        BY <4>1
    <3>2. m \in 0..k /\ m - 1 \in 0..k /\ (m - 1) + 1 = m /\ j - 1 = m
      BY <1>1, <3>1
    <3>3. V2[j] = V[m] /\ V2[j-1] = V[m-1] /\ u[j] = w[m]
      BY <1>2, <1>3, <3>1, <3>2
    <3>4. \E i \in 1..n : \E e \in Edges(T, i) : Moved(T, V[m], w[m], V[m-1], i, e)
      BY DEF Run
    <3> QED
      BY <3>3, <3>4
  <2> QED
    BY <2>1, <2>2
<1> HIDE DEF k
<1>7. Run(T, n, u, V2)
  BY <1>2, <1>4, <1>5, <1>6 DEF Run
<1> QED
  BY <1>3, <1>7 DEF u, RunTo

FirstStep(T, n, k, w, v) ==
    \E u \in Seq(Nat) : \E V : \E i \in 1..n : \E e \in Edges(T, i) :
        /\ Len(u) = k /\ Run(T, n, u, V) /\ w = <<w[1]>> \o u
        /\ Moved(T, V[0], w[1], v, i, e)

\* A run of a word that is not empty has a first symbol.
LEMMA RunBack ==
    ASSUME NEW T, NEW n \in Nat, NEW k \in Nat, NEW w \in Seq(Nat), Len(w) = k + 1, NEW V, Run(T, n, w, V)
    PROVE  FirstStep(T, n, k, w, V[0])
<1> DEFINE u == Tail(w)
           V2 == [j \in 0..k |-> V[j + 1]]
<1>1. /\ u \in Seq(Nat) /\ Len(u) = k
      /\ \A j \in 1..k : u[j] = w[j + 1]
      /\ w[1] \in Nat
  OBVIOUS
<1>2. w = <<w[1]>> \o u
  <2> DEFINE x == <<w[1]>> \o u
  <2>1. /\ x \in Seq(Nat) /\ Len(x) = k + 1 /\ x[1] = w[1]
        /\ \A j \in 1..k : x[j + 1] = u[j]
    BY <1>1, InFront
  <2> HIDE DEF x, u
  <2>2. ASSUME NEW j \in 1..(k + 1)
        PROVE  x[j] = w[j]
    <3>1. CASE j = 1
      BY <2>1, <3>1
    <3>2. CASE j # 1
      <4>1. j - 1 \in 1..k /\ (j - 1) + 1 = j
        BY <3>2
      <4>2. x[(j - 1) + 1] = u[j - 1] /\ u[j - 1] = w[(j - 1) + 1]
        BY <1>1, <2>1, <4>1
      <4> QED
        BY <4>1, <4>2
    <3> QED
      BY <3>1, <3>2
  <2>3. x = w
    BY <2>1, <2>2
  <2> QED
    BY <2>3 DEF x
<1>3. \A j \in 0..k : V2[j] = V[j + 1] /\ j + 1 \in 0..(k + 1)
  OBVIOUS
<1>4. V \in [0..(k + 1) -> [1..n -> Nat]] /\ V[k + 1] = [i \in 1..n |-> 3]
  BY DEF Run
<1>5. V2 \in [0..k -> [1..n -> Nat]]
  BY <1>3, <1>4
<1> HIDE DEF u, V2
<1>6. V2[k] = [i \in 1..n |-> 3]
  <2>1. k \in 0..k
    OBVIOUS
  <2> QED
    BY <1>3, <1>4, <2>1
<1>7. ASSUME NEW j \in 1..k
      PROVE  \E i \in 1..n : \E e \in Edges(T, i) : Moved(T, V2[j], u[j], V2[j-1], i, e)
  <2>1. j \in 0..k /\ j - 1 \in 0..k /\ (j - 1) + 1 = j /\ j + 1 \in 1..Len(w) /\ (j + 1) - 1 = j
    OBVIOUS
  <2>2. V2[j] = V[j + 1] /\ V2[j-1] = V[j] /\ u[j] = w[j + 1]
    BY <1>1, <1>3, <2>1
  <2>3. \E i \in 1..n : \E e \in Edges(T, i) : Moved(T, V[j + 1], w[j + 1], V[(j + 1) - 1], i, e)
    BY <2>1 DEF Run
  <2> QED
    BY <2>1, <2>2, <2>3
<1>8. Run(T, n, u, V2)
  BY <1>1, <1>5, <1>6, <1>7 DEF Run
<1>9. \E i \in 1..n : \E e \in Edges(T, i) : Moved(T, V2[0], w[1], V[0], i, e)
  <2>1. 1 \in 1..Len(w) /\ 1 - 1 = 0 /\ 0 \in 0..k /\ 0 + 1 = 1
    OBVIOUS
  <2>2. \E i \in 1..n : \E e \in Edges(T, i) : Moved(T, V[1], w[1], V[1-1], i, e)
    BY <2>1 DEF Run
  <2>3. V2[0] = V[1]
    BY <1>3, <2>1
  <2> QED
    BY <2>1, <2>2, <2>3
<1> QED
  BY <1>1, <1>2, <1>8, <1>9 DEF FirstStep

-----------------------------------------------------------------------------
(***************************************************************************)
(* The steps of Interleavings.                                             *)
(***************************************************************************)
Records(n) == [word : Seq(Nat), at : [1..n -> Nat], failed : BOOLEAN]

Grown(p, i, e) ==
    [word |-> <<GetLabel(e[2])>> \o p.word,
     at |-> [p.at EXCEPT ![i] = e[3]],
     failed |-> p.failed \/ e[1] = 1]

Steps(T, n, p) == UNION {{<<i, e>> : e \in {d \in T[i].edges : d[1] = p.at[i]}} : i \in 1..n}

LongerWords(T, n, k, X) ==
    X \cup UNION {{[word |-> <<GetLabel(m[2][2])>> \o p.word,
                    at |-> [p.at EXCEPT ![m[1]] = m[2][3]],
                    failed |-> p.failed \/ m[2][1] = 1] : m \in Steps(T, n, p)} :
                     p \in {q \in X : Len(q.word) = k - 1}}

\* What is in LongerWords.
LEMMA LongerWordsParts ==
    ASSUME NEW T, NEW n, NEW k, NEW X, NEW x
    PROVE  x \in LongerWords(T, n, k, X)
             <=> \/ x \in X
                 \/ \E p \in X : \E i \in 1..n : \E e \in Edges(T, i) :
                       Len(p.word) = k - 1 /\ e[1] = p.at[i] /\ x = Grown(p, i, e)
<1>1. ASSUME NEW p
      PROVE  x \in {[word |-> <<GetLabel(m[2][2])>> \o p.word,
                     at |-> [p.at EXCEPT ![m[1]] = m[2][3]],
                     failed |-> p.failed \/ m[2][1] = 1] : m \in Steps(T, n, p)}
               <=> \E i \in 1..n : \E e \in Edges(T, i) : e[1] = p.at[i] /\ x = Grown(p, i, e)
  <2>1. ASSUME NEW i, NEW e
        PROVE  <<i, e>>[1] = i /\ <<i, e>>[2] = e
    OBVIOUS
  <2>2. \A m : m \in Steps(T, n, p) <=> \E i \in 1..n : \E e \in Edges(T, i) : e[1] = p.at[i] /\ m = <<i, e>>
    BY DEF Steps, Edges
  <2>3. x \in {[word |-> <<GetLabel(m[2][2])>> \o p.word,
                     at |-> [p.at EXCEPT ![m[1]] = m[2][3]],
                     failed |-> p.failed \/ m[2][1] = 1] : m \in Steps(T, n, p)}
          <=> \E m \in Steps(T, n, p) : x = Grown(p, m[1], m[2])
    BY DEF Grown
  <2>4. ASSUME NEW m \in Steps(T, n, p), x = Grown(p, m[1], m[2])
        PROVE  \E i \in 1..n : \E e \in Edges(T, i) : e[1] = p.at[i] /\ x = Grown(p, i, e)
    BY <2>1, <2>2, <2>4
  <2>5. ASSUME NEW i \in 1..n, NEW e \in Edges(T, i), e[1] = p.at[i], x = Grown(p, i, e)
        PROVE  \E m \in Steps(T, n, p) : x = Grown(p, m[1], m[2])
    <3> DEFINE m == <<i, e>>
    <3>1. m[1] = i /\ m[2] = e
      BY <2>1
    <3>2. m \in Steps(T, n, p)
      BY <2>2, <2>5
    <3> HIDE DEF m
    <3> QED
      BY <2>5, <3>1, <3>2
  <2> QED
    BY <2>3, <2>4, <2>5
<1>2. x \in LongerWords(T, n, k, X)
        <=> x \in X \/ \E p \in X : Len(p.word) = k - 1 /\
              x \in {[word |-> <<GetLabel(m[2][2])>> \o p.word,
                      at |-> [p.at EXCEPT ![m[1]] = m[2][3]],
                      failed |-> p.failed \/ m[2][1] = 1] : m \in Steps(T, n, p)}
  BY DEF LongerWords
<1> QED
  BY <1>1, <1>2

\* A longer record has the type.
LEMMA GrownType ==
    ASSUME IInvParse, NEW p \in Records(Len(thread_graphs_)),
           NEW i \in 1..Len(thread_graphs_), NEW e \in Edges(thread_graphs_, i)
    PROVE  Grown(p, i, e) \in Records(Len(thread_graphs_))
<1> DEFINE n == Len(thread_graphs_)
<1>1. GetLabel(e[2]) \in Nat /\ e[3] \in Nat
  BY EdgeFacts
<1>2. p.word \in Seq(Nat) /\ p.at \in [1..n -> Nat] /\ p.failed \in BOOLEAN
  BY DEF Records
<1>3. <<GetLabel(e[2])>> \o p.word \in Seq(Nat)
  BY <1>1, <1>2, InFront
<1>4. [p.at EXCEPT ![i] = e[3]] \in [1..n -> Nat]
  BY <1>1, <1>2
<1>5. (p.failed \/ e[1] = 1) \in BOOLEAN
  OBVIOUS
<1> QED
  BY <1>3, <1>4, <1>5 DEF Grown, Records

\* The equations of Interleavings.
LEMMA InterleavingsEquations ==
    ASSUME IInvParse
    PROVE  LET n == Len(thread_graphs_)
           IN  \E P : /\ P[0] = {[word |-> <<>>, at |-> [i \in 1..n |-> 3], failed |-> FALSE]}
                      /\ \A k \in 1..MaxLen : P[k] = LongerWords(thread_graphs_, n, k, P[k-1])
                      /\ Interleavings = {p.word : p \in {q \in P[MaxLen] : q.failed}}
<1> DEFINE n == Len(thread_graphs_)
           U == Records(n)
           c == {[word |-> <<>>, at |-> [i \in 1..n |-> 3], failed |-> FALSE]}
           Moves(p) == UNION {{<<i, e>> : e \in {d \in thread_graphs_[i].edges : d[1] = p.at[i]}} :
                              i \in 1..n}
           After(k, X) == X \cup
                     UNION {{[word |-> <<GetLabel(m[2][2])>> \o p.word,
                              at |-> [p.at EXCEPT ![m[1]] = m[2][3]],
                              failed |-> p.failed \/ m[2][1] = 1] : m \in Moves(p)} :
                               p \in {q \in X : Len(q.word) = k - 1}}
           Body(f) == [k \in 0..MaxLen |->
                         IF k = 0 THEN {[word |-> <<>>, at |-> [i \in 1..n |-> 3], failed |-> FALSE]}
                         ELSE After(k, f[k-1])]
           G == [p \in (1..MaxLen) \X SUBSET U |-> After(p[1], p[2])]
           Last(f) == {p.word : p \in {q \in f[MaxLen] : q.failed}}
<1>0. \A k, X : After(k, X) = LongerWords(thread_graphs_, n, k, X)
  BY DEF LongerWords, Steps
<1>1. c \in SUBSET U
  <2>1. <<>> \in Seq(Nat) /\ [i \in 1..n |-> 3] \in [1..n -> Nat]
    OBVIOUS
  <2> HIDE DEF n
  <2> QED
    BY <2>1 DEF Records
<1>2. ASSUME NEW k \in 1..MaxLen, NEW X \in SUBSET U
      PROVE  After(k, X) \in SUBSET U
  <2> HIDE DEF After
  <2>1. ASSUME NEW x \in LongerWords(thread_graphs_, n, k, X)
        PROVE  x \in U
    <3>1. CASE x \in X
      BY <3>1
    <3>2. CASE \E p \in X : \E i \in 1..n : \E e \in Edges(thread_graphs_, i) : x = Grown(p, i, e)
      <4>1. PICK p \in X : \E i \in 1..n : \E e \in Edges(thread_graphs_, i) : x = Grown(p, i, e)
        BY <3>2
      <4>2. PICK i \in 1..n : \E e \in Edges(thread_graphs_, i) : x = Grown(p, i, e)
        BY <4>1
      <4>3. PICK e \in Edges(thread_graphs_, i) : x = Grown(p, i, e)
        BY <4>2
      <4>4. p \in Records(Len(thread_graphs_))
        OBVIOUS
      <4> QED
        BY <4>3, <4>4, GrownType
    <3> QED
      BY <3>1, <3>2, LongerWordsParts
  <2> QED
    BY <1>0, <2>1
<1> HIDE DEF U, Moves
<1>3. G \in [(1..MaxLen) \X SUBSET U -> SUBSET U]
  <2> HIDE DEF After
  <2> QED
    BY <1>2
<1>4. PICK f : Nats!IsIteration(f, SUBSET U, c, MaxLen, G)
  <2> HIDE DEF G, After, c
  <2> QED
    BY <1>1, <1>3, MaxLenIsNat, Nats!IterationExists
<1>5. ASSUME NEW k \in 1..MaxLen
      PROVE  f[k] = After(k, f[k-1])
  <2>1. f[k-1] \in SUBSET U /\ f[k] = G[<<k, f[k-1]>>]
    <3>1. k - 1 \in 0..MaxLen
      BY MaxLenIsNat
    <3> HIDE DEF G, c
    <3> QED
      BY <1>4, <3>1 DEF Nats!IsIteration
  <2> HIDE DEF After
  <2> QED
    BY <2>1
<1>6. f \in [0..MaxLen -> SUBSET U] /\ f[0] = c
  <2> HIDE DEF G, c
  <2> QED
    BY <1>4 DEF Nats!IsIteration
<1>7. f = Body(f)
  <2> HIDE DEF After
  <2> QED
    BY <1>5, <1>6
<1> DEFINE N == CHOOSE g : g = Body(g)
<1>8. Interleavings = Last(N)
  BY DEF Interleavings, Moves
<1>9. N = Body(N)
  <2> HIDE DEF Body
  <2> QED
    BY <1>7
<1>10. N[0] = c /\ \A k \in 1..MaxLen : N[k] = After(k, N[k-1])
  <2> HIDE DEF After, N
  <2>1. \A k \in 0..MaxLen : N[k] = IF k = 0 THEN c ELSE After(k, N[k-1])
    BY <1>9
  <2>2. \A k \in 1..MaxLen : k \in 0..MaxLen /\ k # 0
    OBVIOUS
  <2>3. 0 \in 0..MaxLen
    BY MaxLenIsNat
  <2> HIDE DEF c
  <2> QED
    BY <2>1, <2>2, <2>3
<1> HIDE DEF N, After
<1>11. \A k \in 1..MaxLen : N[k] = LongerWords(thread_graphs_, n, k, N[k-1])
  BY <1>0, <1>10
<1> QED
  BY <1>8, <1>10, <1>11

\* What a record of Interleavings says about its word.
Counted(T, A, n, k, x) ==
    /\ x \in Records(n) /\ Len(x.word) <= k
    /\ x.failed <=> Hit(A, x.word)
    /\ RunTo(T, n, x.word, x.at)

\* It goes along an edge, to the front of the word.
LEMMA GrownCounted ==
    ASSUME IInvParse, Parsed, NEW k \in Nat, NEW p,
           Counted(thread_graphs_, mAssnMap, Len(thread_graphs_), k, p),
           NEW i \in 1..Len(thread_graphs_), NEW e \in Edges(thread_graphs_, i), e[1] = p.at[i]
    PROVE  Counted(thread_graphs_, mAssnMap, Len(thread_graphs_), k + 1, Grown(p, i, e))
<1> DEFINE T == thread_graphs_
           n == Len(T)
           x == Grown(p, i, e)
           a == GetLabel(e[2])
           w == p.word
           v == [p.at EXCEPT ![i] = e[3]]
<1>1. p \in Records(n) /\ Len(w) <= k /\ (p.failed <=> Hit(mAssnMap, w))
  BY DEF Counted
<1>2. w \in Seq(Nat) /\ Len(w) \in Nat /\ p.at \in [1..n -> Nat]
  BY <1>1 DEF Records
<1>3. PICK V : Run(T, n, w, V) /\ V[0] = p.at
  BY DEF Counted, RunTo
<1>4. a \in Nat /\ e[3] \in Nat /\ n \in Nat
  BY EdgeFacts DEF IInvParse, ParseTypes
<1>5. x \in Records(n) /\ x.word = <<a>> \o w /\ x.at = v /\ (x.failed <=> p.failed \/ e[1] = 1)
  <2>1. x \in Records(n)
    BY <1>1, GrownType
  <2>2. x.word = <<a>> \o w /\ x.at = v
    BY DEF Grown
  <2>3. x.failed = (p.failed \/ e[1] = 1)
    BY DEF Grown
  <2> QED
    BY <2>1, <2>2, <2>3
<1>6. Moved(T, V[0], a, v, i, e)
  BY <1>3 DEF Moved, Put
<1>7. v \in [1..n -> Nat]
  BY <1>2, <1>4
<1>8. e[1] = 1 <=> a \in mAssnMap
  BY AssertionLabel
<1> HIDE DEF x, a, w, v, T, n
<1>9. Len(x.word) = Len(w) + 1
  BY <1>2, <1>4, <1>5, InFront
<1>10. x.failed <=> Hit(mAssnMap, x.word)
  BY <1>1, <1>2, <1>4, <1>5, <1>8, HitInFront
<1>11. OneMove(T, n, V[0], a, v)
  BY <1>6 DEF T, n, OneMove
<1>12. RunTo(T, n, x.word, x.at)
  <2>1. Run(T, n, w, V) /\ n \in Nat /\ w \in Seq(Nat) /\ a \in Nat /\ v \in [1..n -> Nat]
    BY <1>2, <1>3, <1>4, <1>7
  <2>2. RunTo(T, n, <<a>> \o w, v)
    BY <1>11, <2>1, RunOn
  <2> QED
    BY <1>5, <2>2
<1>13. Len(x.word) <= k + 1
  BY <1>1, <1>2, <1>9
<1>14. Counted(T, mAssnMap, n, k + 1, x)
  BY <1>5, <1>10, <1>12, <1>13 DEF Counted
<1> QED
  BY <1>14 DEF T, n, x

CameFrom(T, A, n, k, x) ==
    \E p : \E i \in 1..n : \E e \in Edges(T, i) :
       Counted(T, A, n, k, p) /\ Len(p.word) = k /\ e[1] = p.at[i] /\ x = Grown(p, i, e)

\* The record of a word has come from that of the word without its front.
LEMMA CountedGrown ==
    ASSUME IInvParse, Parsed, NEW k \in Nat, NEW x,
           Counted(thread_graphs_, mAssnMap, Len(thread_graphs_), k + 1, x), Len(x.word) = k + 1
    PROVE  CameFrom(thread_graphs_, mAssnMap, Len(thread_graphs_), k, x)
<1> DEFINE T == thread_graphs_
           n == Len(T)
           w == x.word
           A == mAssnMap
<1>1. x \in Records(n) /\ (x.failed <=> Hit(A, w)) /\ w \in Seq(Nat) /\ x.failed \in BOOLEAN
  BY DEF Counted, Records
<1>2. PICK V : Run(T, n, w, V) /\ V[0] = x.at
  BY DEF Counted, RunTo
<1>3. n \in Nat
  BY DEF IInvParse, ParseTypes
<1>4. PICK u \in Seq(Nat) : \E V2 : \E i \in 1..n : \E e \in Edges(T, i) :
        /\ Len(u) = k /\ Run(T, n, u, V2) /\ w = <<w[1]>> \o u
        /\ Moved(T, V2[0], w[1], V[0], i, e)
  <2>1. FirstStep(T, n, k, w, V[0])
    <3>1. Len(w) = k + 1
      OBVIOUS
    <3> HIDE DEF w, T, n
    <3> QED
      BY <1>1, <1>2, <1>3, <3>1, RunBack
  <2> QED
    BY <2>1 DEF FirstStep
<1>5. PICK V2 : \E i \in 1..n : \E e \in Edges(T, i) :
        /\ Len(u) = k /\ Run(T, n, u, V2) /\ w = <<w[1]>> \o u
        /\ Moved(T, V2[0], w[1], V[0], i, e)
  BY <1>4
<1>6. PICK i \in 1..n : \E e \in Edges(T, i) :
        /\ Len(u) = k /\ Run(T, n, u, V2) /\ w = <<w[1]>> \o u
        /\ Moved(T, V2[0], w[1], V[0], i, e)
  BY <1>5
<1>7. PICK e \in Edges(T, i) :
        /\ Len(u) = k /\ Run(T, n, u, V2) /\ w = <<w[1]>> \o u
        /\ Moved(T, V2[0], w[1], V[0], i, e)
  BY <1>6
<1> DEFINE a == GetLabel(e[2])
           p == [word |-> u, at |-> V2[0], failed |-> Hit(A, u)]
<1>8. a \in Nat
  BY EdgeFacts
<1>9. e[1] = 1 <=> a \in A
  BY AssertionLabel
<1>10. w[1] = a /\ V[0] = [V2[0] EXCEPT ![i] = e[3]] /\ e[1] = V2[0][i]
  BY <1>7 DEF Moved, Put
<1>11. Hit(A, w) <=> a \in A \/ Hit(A, u)
  <2>1. w = <<a>> \o u
    BY <1>7, <1>10
  <2> HIDE DEF w, a, A, p
  <2> QED
    BY <1>8, <2>1, HitInFront
<1>12. p.word = u /\ p.at = V2[0] /\ p.failed = Hit(A, u)
  OBVIOUS
<1>13. p \in Records(n)
  <2>1. V2[0] \in [1..n -> Nat]
    <3>1. 0 \in 0..k
      OBVIOUS
    <3> HIDE DEF n, T, p
    <3> QED
      BY <1>7, <3>1 DEF Run
  <2>2. Hit(A, u) \in BOOLEAN
    BY DEF Hit
  <2> HIDE DEF A, n, T
  <2> QED
    BY <2>1, <2>2 DEF Records
<1>14. x = Grown(p, i, e)
  <2>1. x = [word |-> x.word, at |-> x.at, failed |-> x.failed]
    BY <1>1 DEF Records
  <2>2. x.word = <<a>> \o u /\ x.at = [V2[0] EXCEPT ![i] = e[3]]
    BY <1>2, <1>7, <1>10
  <2>3. x.failed = (p.failed \/ e[1] = 1)
    BY <1>1, <1>9, <1>11, <1>12
  <2> HIDE DEF p
  <2> QED
    BY <1>12, <2>1, <2>2, <2>3 DEF Grown
<1> HIDE DEF p, T, n, w, A, a
<1>15. Counted(T, A, n, k, p)
  BY <1>7, <1>12, <1>13 DEF Counted, RunTo
<1>16. Len(p.word) = k /\ e[1] = p.at[i]
  BY <1>7, <1>10, <1>12
<1> QED
  BY <1>14, <1>15, <1>16 DEF T, n, A, CameFrom

\* Interleavings has the words of the runs that have an assertion.
LEMMA InterleavingsFacts ==
    ASSUME IInvParse, Parsed, NEW w
    PROVE  w \in Interleavings
             <=> /\ w \in Seq(Nat) /\ Len(w) <= MaxLen /\ Hit(mAssnMap, w)
                 /\ \E V : Run(thread_graphs_, Len(thread_graphs_), w, V)
<1> DEFINE n == Len(thread_graphs_)
           C(k, x) == Counted(thread_graphs_, mAssnMap, n, k, x)
<1>1. PICK P : /\ P[0] = {[word |-> <<>>, at |-> [i \in 1..n |-> 3], failed |-> FALSE]}
               /\ \A k \in 1..MaxLen : P[k] = LongerWords(thread_graphs_, n, k, P[k-1])
               /\ Interleavings = {p.word : p \in {q \in P[MaxLen] : q.failed}}
  BY InterleavingsEquations
<1> DEFINE S == {k \in Nat : k <= MaxLen => \A x : x \in P[k] <=> C(k, x)}
<1>2. 0 \in S
  <2> DEFINE v == [i \in 1..n |-> 3]
             z == [word |-> <<>>, at |-> v, failed |-> FALSE]
  <2>1. C(0, z)
    <3> DEFINE V == [j \in 0..0 |-> v]
    <3>1. <<>> \in Seq(Nat) /\ Len(<<>>) = 0 /\ 1..0 = {} /\ v \in [1..n -> Nat]
      OBVIOUS
    <3>2. V \in [0..0 -> [1..n -> Nat]] /\ V[0] = v
      OBVIOUS
    <3>3. z.word = <<>> /\ z.at = v /\ z.failed = FALSE
      OBVIOUS
    <3>4. z \in Records(n)
      <4> HIDE DEF v, n
      <4> QED
        BY <3>1 DEF Records
    <3>5. Run(thread_graphs_, n, <<>>, V)
      <4> HIDE DEF V, n, z
      <4> QED
        BY <3>1, <3>2 DEF Run
    <3>6. ~Hit(mAssnMap, <<>>)
      BY <3>1 DEF Hit
    <3>7. Len(z.word) <= 0
      BY <3>1, <3>3
    <3> HIDE DEF V, n, z, v
    <3> QED
      BY <3>2, <3>3, <3>4, <3>5, <3>6, <3>7 DEF Counted, RunTo
  <2>2. ASSUME NEW x, C(0, x)
        PROVE  x = z
    <3>1. x \in Records(n) /\ Len(x.word) <= 0 /\ (x.failed <=> Hit(mAssnMap, x.word))
      BY <2>2 DEF Counted
    <3>2. x.word = <<>>
      BY <3>1 DEF Records
    <3>3. PICK V : Run(thread_graphs_, n, x.word, V) /\ V[0] = x.at
      BY <2>2 DEF Counted, RunTo
    <3>4. Len(<<>>) = 0 /\ 1..0 = {}
      OBVIOUS
    <3>5. x.at = v
      BY <3>2, <3>3, <3>4 DEF Run
    <3>6. x.failed = FALSE
      BY <3>1, <3>2, <3>4 DEF Hit, Records
    <3>7. x = [word |-> x.word, at |-> x.at, failed |-> x.failed]
      BY <3>1 DEF Records
    <3> HIDE DEF v
    <3> QED
      BY <3>2, <3>5, <3>6, <3>7
  <2>3. P[0] = {z}
    BY <1>1
  <2> HIDE DEF z, C
  <2> QED
    BY <2>1, <2>2, <2>3
<1>3. ASSUME NEW k \in Nat, k \in S
      PROVE  k + 1 \in S
  <2>1. SUFFICES ASSUME k + 1 <= MaxLen, NEW x
                 PROVE  x \in P[k + 1] <=> C(k + 1, x)
    OBVIOUS
  <2>2. \A y : y \in P[k] <=> C(k, y)
    BY <1>3, <2>1, MaxLenIsNat
  <2>3. P[k + 1] = LongerWords(thread_graphs_, n, k + 1, P[k]) /\ k + 1 - 1 = k
    <3>1. k + 1 \in 1..MaxLen /\ k + 1 - 1 = k
      BY <2>1, MaxLenIsNat
    <3> QED
      BY <1>1, <3>1
  <2>4. x \in P[k + 1]
          <=> \/ x \in P[k]
              \/ \E p \in P[k] : \E i \in 1..n : \E e \in Edges(thread_graphs_, i) :
                    Len(p.word) = k /\ e[1] = p.at[i] /\ x = Grown(p, i, e)
    <3> HIDE DEF C, S, n
    <3> QED
      BY <2>3, LongerWordsParts
  <2>5. C(k, x) <=> C(k + 1, x) /\ Len(x.word) <= k
    <3>1. ASSUME x \in Records(n)
          PROVE  Len(x.word) \in Nat
      BY <3>1 DEF Records
    <3>2. ASSUME x \in Records(n)
          PROVE  Len(x.word) <= k <=> Len(x.word) <= k /\ Len(x.word) <= k + 1
      BY <3>1, <3>2
    <3> HIDE DEF n
    <3> QED
      BY <3>2 DEF Counted
  <2>6. ASSUME NEW p \in P[k], NEW i \in 1..n, NEW e \in Edges(thread_graphs_, i),
               e[1] = p.at[i], x = Grown(p, i, e)
        PROVE  C(k + 1, x)
    <3>1. C(k, p)
      <4> HIDE DEF C
      <4> QED
        BY <2>2
    <3> HIDE DEF S
    <3> QED
      BY <2>6, <3>1, GrownCounted
  <2>7. ASSUME C(k + 1, x), ~(Len(x.word) <= k)
        PROVE  \E p \in P[k] : \E i \in 1..n : \E e \in Edges(thread_graphs_, i) :
                  Len(p.word) = k /\ e[1] = p.at[i] /\ x = Grown(p, i, e)
    <3>1. Len(x.word) = k + 1
      <4>1. Len(x.word) \in Nat /\ Len(x.word) <= k + 1
        BY <2>7 DEF Counted, Records
      <4> QED
        BY <2>7, <4>1
    <3>2. \E p : \E i \in 1..n : \E e \in Edges(thread_graphs_, i) :
              C(k, p) /\ Len(p.word) = k /\ e[1] = p.at[i] /\ x = Grown(p, i, e)
      <4>1. Counted(thread_graphs_, mAssnMap, Len(thread_graphs_), k + 1, x)
        BY <2>7
      <4>2. CameFrom(thread_graphs_, mAssnMap, Len(thread_graphs_), k, x)
        <5> HIDE DEF S, C, n
        <5> QED
          BY <3>1, <4>1, CountedGrown
      <4> HIDE DEF S
      <4> QED
        BY <4>2 DEF CameFrom
    <3> HIDE DEF C, S
    <3> QED
      BY <2>2, <3>2
  <2> HIDE DEF C, S
  <2> QED
    BY <2>2, <2>4, <2>5, <2>6, <2>7
<1>4. Nat \subseteq S
  <2> HIDE DEF S
  <2> QED
    BY <1>2, <1>3, Nats!NatSetInduction
<1>5. \A x : x \in P[MaxLen] <=> C(MaxLen, x)
  <2> HIDE DEF C
  <2> QED
    BY <1>4, MaxLenIsNat
<1>6. ASSUME w \in Interleavings
      PROVE  /\ w \in Seq(Nat) /\ Len(w) <= MaxLen /\ Hit(mAssnMap, w)
             /\ \E V : Run(thread_graphs_, n, w, V)
  <2>1. PICK x \in P[MaxLen] : x.failed /\ w = x.word
    BY <1>1, <1>6
  <2>2. C(MaxLen, x)
    BY <1>5
  <2> QED
    BY <2>1, <2>2 DEF Counted, Records, RunTo
<1>7. ASSUME w \in Seq(Nat), Len(w) <= MaxLen, Hit(mAssnMap, w), NEW V, Run(thread_graphs_, n, w, V)
      PROVE  w \in Interleavings
  <2> DEFINE x == [word |-> w, at |-> V[0], failed |-> TRUE]
  <2>1. V[0] \in [1..n -> Nat]
    <3>1. 0 \in 0..Len(w)
      BY <1>7
    <3> QED
      BY <1>7, <3>1 DEF Run
  <2>2. x.word = w /\ x.at = V[0] /\ x.failed = TRUE
    OBVIOUS
  <2>3. x \in Records(n)
    <3> HIDE DEF n
    <3> QED
      BY <1>7, <2>1 DEF Records
  <2> HIDE DEF x, n
  <2>4. C(MaxLen, x)
    BY <1>7, <2>2, <2>3 DEF Counted, RunTo
  <2>5. x \in P[MaxLen]
    BY <1>5, <2>4
  <2> QED
    BY <1>1, <2>2, <2>5
<1> QED
  BY <1>6, <1>7

-----------------------------------------------------------------------------
(***************************************************************************)
(* The paths of the product, from a marked state back to the initial one.  *)
(***************************************************************************)
Path(g, w, q) ==
    /\ q \in [0..Len(w) -> Reachable(g)]
    /\ g.init = {q[Len(w)]} /\ q[0] \in g.marked
    /\ \A j \in 1..Len(w) : <<q[j], w[j], q[j-1]>> \in g.trans

\* A walk of the reversed automaton is a path of the product.
LEMMA PathOfWalk ==
    ASSUME NEW g, IsGenerator(g), Deterministically(g), NEW s0, g.init = {s0},
           NEW w \in Seq(Nat), NEW r, Walk(ReverseGenerator(Deterministic(g)), w, r),
           r[Len(w)] \in ReverseGenerator(Deterministic(g)).marked
    PROVE  \E q : Path(g, w, q)
<1> DEFINE h == ReverseGenerator(Deterministic(g))
           D == Reachable(g)
           k == Len(w)
<1>1. /\ h.states = {{s} : s \in D} /\ h.init = {{s} : s \in D \cap g.marked} /\ h.marked = {{s0}}
      /\ \A tr : tr \in h.trans
           <=> \E t \in g.trans : t[1] \in D /\ tr = <<{t[3]}, t[2], {t[1]}>>
  <2>1. IsReversed(g, s0, h)
    BY ReversedFacts
  <2> QED
    BY <2>1 DEF IsReversed
<1>2. Walk(h, w, r) /\ r[k] \in h.marked
  OBVIOUS
<1>3. k \in Nat /\ 0 \in 0..k /\ k \in 0..k /\ \A j \in 1..k : j \in 0..k /\ j - 1 \in 0..k
  OBVIOUS
<1> HIDE DEF h, k, D
<1>4. r \in [0..k -> h.states] /\ r[0] \in h.init /\ \A j \in 1..k : <<r[j-1], w[j], r[j]>> \in h.trans
  BY <1>2 DEF Walk, k
<1> DEFINE q == [j \in 0..k |-> CHOOSE s \in D : r[j] = {s}]
<1>5. \A j \in 0..k : q[j] \in D /\ r[j] = {q[j]}
  <2>1. \A j \in 0..k : \E s \in D : r[j] = {s}
    BY <1>1, <1>4
  <2> QED
    BY <2>1
<1>6. q \in [0..k -> D]
  BY <1>5
<1> HIDE DEF q
<1>7. g.init = {q[k]}
  BY <1>1, <1>2, <1>3, <1>5
<1>8. q[0] \in g.marked
  <2>1. PICK s \in D \cap g.marked : r[0] = {s}
    BY <1>1, <1>4
  <2>2. r[0] = {q[0]}
    BY <1>3, <1>5
  <2> QED
    BY <2>1, <2>2
<1>9. ASSUME NEW j \in 1..k
      PROVE  <<q[j], w[j], q[j-1]>> \in g.trans
  <2>1. r[j-1] = {q[j-1]} /\ r[j] = {q[j]}
    BY <1>3, <1>5
  <2>2. PICK t \in g.trans : <<r[j-1], w[j], r[j]>> = <<{t[3]}, t[2], {t[1]}>>
    BY <1>1, <1>4
  <2>3. r[j-1] = {t[3]} /\ w[j] = t[2] /\ r[j] = {t[1]}
    BY <2>2
  <2>4. t[3] = q[j-1] /\ t[1] = q[j] /\ t[2] = w[j]
    BY <2>1, <2>3
  <2>5. t = <<t[1], t[2], t[3]>>
    BY DEF IsGenerator, Finite
  <2> QED
    BY <2>4, <2>5
<1>10. Path(g, w, q)
  BY <1>6, <1>7, <1>8, <1>9 DEF Path, k, D
<1> QED
  BY <1>10

WalkTo(h, w) == \E r : Walk(h, w, r) /\ r[Len(w)] \in h.marked

\* A path of the product is a walk of the reversed automaton.
LEMMA WalkOfPath ==
    ASSUME NEW g, IsGenerator(g), Deterministically(g), NEW w \in Seq(Nat), NEW q, Path(g, w, q)
    PROVE  WalkTo(ReverseGenerator(Deterministic(g)), w)
<1> DEFINE h == ReverseGenerator(Deterministic(g))
           D == Reachable(g)
           k == Len(w)
<1>1. k \in Nat /\ 0 \in 0..k /\ k \in 0..k /\ \A j \in 1..k : j \in 0..k /\ j - 1 \in 0..k
  OBVIOUS
<1> HIDE DEF k
<1>2. /\ q \in [0..k -> D] /\ g.init = {q[k]} /\ q[0] \in g.marked
      /\ \A j \in 1..k : <<q[j], w[j], q[j-1]>> \in g.trans
  BY DEF Path, k
<1>3. /\ h.states = {{s} : s \in D} /\ h.init = {{s} : s \in D \cap g.marked} /\ h.marked = {{q[k]}}
      /\ \A tr : tr \in h.trans
           <=> \E t \in g.trans : t[1] \in D /\ tr = <<{t[3]}, t[2], {t[1]}>>
  <2>1. IsReversed(g, q[k], h)
    BY <1>2, ReversedFacts
  <2> QED
    BY <2>1 DEF IsReversed
<1> DEFINE r == [j \in 0..k |-> {q[j]}]
<1> HIDE DEF h, D
<1>4. \A j \in 0..k : r[j] = {q[j]} /\ q[j] \in D
  BY <1>2
<1>5. r \in [0..k -> h.states]
  BY <1>2, <1>3
<1> HIDE DEF r
<1>6. r[0] \in h.init /\ r[k] \in h.marked
  BY <1>1, <1>2, <1>3, <1>4
<1>7. ASSUME NEW j \in 1..k
      PROVE  <<r[j-1], w[j], r[j]>> \in h.trans
  <2> DEFINE t == <<q[j], w[j], q[j-1]>>
  <2>1. t[1] = q[j] /\ t[2] = w[j] /\ t[3] = q[j-1] /\ t \in g.trans
    BY <1>2
  <2>2. r[j-1] = {q[j-1]} /\ r[j] = {q[j]} /\ q[j] \in D
    BY <1>1, <1>4
  <2> HIDE DEF t
  <2>3. <<r[j-1], w[j], r[j]>> = <<{t[3]}, t[2], {t[1]}>>
    BY <2>1, <2>2
  <2> QED
    BY <1>3, <2>1, <2>2, <2>3
<1>8. Walk(h, w, r)
  BY <1>5, <1>6, <1>7 DEF Walk, k
<1> QED
  BY <1>6, <1>8 DEF h, k, WalkTo

-----------------------------------------------------------------------------
(***************************************************************************)
(* Runs and the accepting nodes: a thread that is there at the end has     *)
(* passed its assertion, and one that has passed it stays there.           *)
(***************************************************************************)
LEMMA AcceptingHit ==
    ASSUME IInvParse, Parsed, NEW w \in Seq(Nat), NEW V, Run(thread_graphs_, Len(thread_graphs_), w, V),
           NEW i \in 1..Len(thread_graphs_), V[0][i] = 2,
           \A c \in 1..Len(thread_graphs_) : OnlyAsserted(thread_graphs_[c])
    PROVE  Hit(mAssnMap, w)
<1> DEFINE T == thread_graphs_
           n == Len(T)
           k == Len(w)
           S == {j \in Nat : j <= k => V[j][i] = 2}
<1>1. SUFFICES ASSUME \A j \in 1..k : w[j] \notin mAssnMap
               PROVE  FALSE
  BY DEF Hit
<1>2. k \in Nat /\ k \in 0..k
  OBVIOUS
<1>3. /\ V \in [0..k -> [1..n -> Nat]] /\ V[k] = [c \in 1..n |-> 3]
      /\ \A j \in 1..k : \E c \in 1..n : \E e \in Edges(T, c) : Moved(T, V[j], w[j], V[j-1], c, e)
  BY DEF Run
<1>4. 0 \in S
  OBVIOUS
<1>5. ASSUME NEW j \in Nat, j \in S
      PROVE  j + 1 \in S
  <2>1. SUFFICES ASSUME j + 1 <= k
                 PROVE  V[j + 1][i] = 2
    OBVIOUS
  <2>2. V[j][i] = 2
    BY <1>2, <1>5, <2>1
  <2>3. j + 1 \in 1..k /\ j + 1 \in 0..k /\ (j + 1) - 1 = j
    BY <1>2, <2>1
  <2> HIDE DEF k, S, n, T
  <2>4. PICK c \in 1..n : \E e \in Edges(T, c) : Moved(T, V[j + 1], w[j + 1], V[(j + 1) - 1], c, e)
    BY <1>3, <2>3
  <2>5. PICK e \in Edges(T, c) : Moved(T, V[j + 1], w[j + 1], V[(j + 1) - 1], c, e)
    BY <2>4
  <2>6. w[j + 1] = GetLabel(e[2]) /\ V[j] = [V[j + 1] EXCEPT ![c] = e[3]]
    BY <2>3, <2>5 DEF Moved, Put
  <2>7. V[j + 1] \in [1..n -> Nat]
    BY <1>3, <2>3
  <2>8. CASE c # i
    BY <2>2, <2>6, <2>7, <2>8 DEF n, T
  <2>9. CASE c = i
    <3>1. e[3] = 2
      BY <2>2, <2>6, <2>7, <2>9
    <3>2. OnlyAsserted(T[c]) /\ e \in T[c].edges
      BY DEF T, n, Edges
    <3>3. e[1] = 1
      BY <3>1, <3>2 DEF OnlyAsserted
    <3>4. w[j + 1] \in mAssnMap
      BY <2>6, <3>3, AssertionLabel DEF T, n
    <3> QED
      BY <1>1, <2>3, <3>4
  <2> QED
    BY <2>8, <2>9
<1>6. Nat \subseteq S
  <2> HIDE DEF S
  <2> QED
    BY <1>4, <1>5, Nats!NatSetInduction
<1>7. V[k][i] = 2
  BY <1>2, <1>6
<1> QED
  BY <1>3, <1>7

\* A run that hits an assertion can be arranged so that it ends there.
Arrangement(T, A, n, w, V, i, e, j) ==
    /\ e \in Edges(T, i) /\ j \in 1..Len(w) /\ GetLabel(e[2]) \in A
    /\ V[j][i] = e[1] /\ V[0][i] = e[3]

\* There is an edge of an assertion that the run can be rearranged to end with.
LEMMA HitAccepting ==
    ASSUME IInvParse, Parsed, NEW w \in Seq(Nat), NEW V, Run(thread_graphs_, Len(thread_graphs_), w, V),
           Hit(mAssnMap, w)
    PROVE  \E i \in 1..Len(thread_graphs_) : \E e, j :
              Arrangement(thread_graphs_, mAssnMap, Len(thread_graphs_), w, V, i, e, j)
<1> DEFINE T == thread_graphs_
           n == Len(T)
           k == Len(w)
<1>1. /\ V \in [0..k -> [1..n -> Nat]] /\ V[k] = [c \in 1..n |-> 3]
      /\ \A j \in 1..k : \E c \in 1..n : \E e \in Edges(T, c) : Moved(T, V[j], w[j], V[j-1], c, e)
  BY DEF Run
<1>2. PICK j \in 1..k : w[j] \in mAssnMap
  BY DEF Hit
<1>3. PICK i \in 1..n : \E e \in Edges(T, i) : Moved(T, V[j], w[j], V[j-1], i, e)
  BY <1>1
<1>4. PICK e \in Edges(T, i) : Moved(T, V[j], w[j], V[j-1], i, e)
  BY <1>3
<1>5. e[1] = V[j][i] /\ w[j] = GetLabel(e[2]) /\ V[j-1] = [V[j] EXCEPT ![i] = e[3]]
  BY <1>4 DEF Moved, Put
<1>6. k \in Nat /\ j \in 0..k /\ j - 1 \in 0..k /\ j - 1 \in Nat
  OBVIOUS
<1>7. e[1] = 1 /\ e[3] = 2
  BY <1>2, <1>5, AssertionLabel, EdgeFacts
<1>8. V[j-1][i] = 2
  BY <1>1, <1>5, <1>6, <1>7
<1> DEFINE m == j - 1
           S == {c \in Nat : c <= m => V[m - c][i] = 2}
<1>9. 0 \in S
  BY <1>6, <1>8
<1>10. ASSUME NEW c \in Nat, c \in S
       PROVE  c + 1 \in S
  <2>1. SUFFICES ASSUME c + 1 <= m
                 PROVE  V[m - (c + 1)][i] = 2
    OBVIOUS
  <2>2. V[m - c][i] = 2
    BY <1>6, <1>10, <2>1
  <2> DEFINE b == m - c
  <2>3. b \in 1..k /\ b - 1 = m - (c + 1) /\ b \in 0..k
    BY <1>6, <2>1
  <2>4. V[b][i] = 2
    BY <2>2
  <2> HIDE DEF b, S, m, n, T, k
  <2>5. PICK c2 \in 1..n : \E d \in Edges(T, c2) : Moved(T, V[b], w[b], V[b-1], c2, d)
    BY <1>1, <2>3
  <2>6. PICK d \in Edges(T, c2) : Moved(T, V[b], w[b], V[b-1], c2, d)
    BY <2>5
  <2>7. d[1] = V[b][c2] /\ V[b-1] = [V[b] EXCEPT ![c2] = d[3]]
    BY <2>6 DEF Moved, Put
  <2>8. d[1] # 2
    BY EdgeFacts DEF T, n
  <2>9. c2 # i
    BY <2>4, <2>7, <2>8
  <2>10. V[b] \in [1..n -> Nat]
    BY <1>1, <2>3
  <2>11. V[b-1][i] = 2
    BY <2>4, <2>7, <2>9, <2>10
  <2> QED
    BY <2>3, <2>11
<1>11. Nat \subseteq S
  <2> HIDE DEF S
  <2> QED
    BY <1>9, <1>10, Nats!NatSetInduction
<1>12. V[0][i] = 2
  <2>1. m \in S /\ m - m = 0 /\ m <= m
    BY <1>6, <1>11
  <2> QED
    BY <2>1
<1> HIDE DEF m, S
<1>13. Arrangement(T, mAssnMap, n, w, V, i, e, j)
  BY <1>2, <1>5, <1>7, <1>12 DEF Arrangement
<1> QED
  BY <1>13

\* A path is a run, and has an assertion.
LEMMA RunOfPath ==
    ASSUME IInvParse, Parsed, NEW g, NEW at, Shuffle(thread_graphs_, g, Len(thread_graphs_), at),
           g.marked = AssertionTargets(g), \A c \in 1..Len(thread_graphs_) : OnlyAsserted(thread_graphs_[c]),
           NEW w \in Seq(Nat), NEW q, Path(g, w, q)
    PROVE  Hit(mAssnMap, w) /\ \E V : Run(thread_graphs_, Len(thread_graphs_), w, V)
<1> DEFINE T == thread_graphs_
           n == Len(T)
           k == Len(w)
           D == Reachable(g)
           V == [j \in 0..k |-> at[q[j]]]
<1>1. k \in Nat /\ 0 \in 0..k /\ k \in 0..k /\ \A j \in 1..k : j \in 0..k /\ j - 1 \in 0..k
  OBVIOUS
<1> HIDE DEF k
<1>2. /\ q \in [0..k -> D] /\ g.init = {q[k]} /\ q[0] \in g.marked
      /\ \A j \in 1..k : <<q[j], w[j], q[j-1]>> \in g.trans
  BY DEF Path, k
<1>3. /\ at \in [D -> [1..n -> Nat \ {0}]]
      /\ at[q[k]] = [i \in 1..n |-> 3]
  <2> HIDE DEF n
  <2>1. at \in [D -> [1..n -> Nat \ {0}]] /\ \E s : g.init = {s} /\ at[s] = [i \in 1..n |-> 3]
    BY DEF Shuffle, PlacesOf, n
  <2> QED
    BY <1>2, <2>1
<1>4. \A tr \in g.trans : tr[1] \in D =>
          \E i \in 1..n : \E e \in Edges(T, i) : Moved(T, at[tr[1]], tr[2], at[tr[3]], i, e)
  BY DEF Shuffle, MovesOf
<1> HIDE DEF T, n, D
<1>5. \A j \in 0..k : V[j] = at[q[j]]
  OBVIOUS
<1>6. V \in [0..k -> [1..n -> Nat]]
  <2>1. \A j \in 0..k : at[q[j]] \in [1..n -> Nat]
    BY <1>2, <1>3
  <2> QED
    BY <2>1
<1> HIDE DEF V
<1>7. ASSUME NEW j \in 1..k
      PROVE  \E i \in 1..n : \E e \in Edges(T, i) : Moved(T, V[j], w[j], V[j-1], i, e)
  <2> DEFINE tr == <<q[j], w[j], q[j-1]>>
  <2>1. tr \in g.trans /\ tr[1] = q[j] /\ tr[2] = w[j] /\ tr[3] = q[j-1]
    BY <1>2
  <2>2. V[j] = at[q[j]] /\ V[j-1] = at[q[j-1]] /\ q[j] \in D
    BY <1>1, <1>2, <1>5
  <2> HIDE DEF tr
  <2> QED
    BY <1>4, <2>1, <2>2
<1>8. Run(T, n, w, V)
  BY <1>1, <1>3, <1>5, <1>6, <1>7 DEF Run, k
<1>9. PICK tr \in g.trans : tr[2] \in mAssnMap /\ tr[3] = q[0]
  BY <1>2 DEF AssertionTargets
<1>10. PICK i \in 1..n : \E e \in Edges(T, i) :
           tr[2] = GetLabel(e[2]) /\ (tr[3] \in D /\ e[1] = 1 => at[tr[3]][i] = 2)
  BY DEF Shuffle, EventsOf, T, n, D
<1>11. PICK e \in Edges(T, i) :
           tr[2] = GetLabel(e[2]) /\ (tr[3] \in D /\ e[1] = 1 => at[tr[3]][i] = 2)
  BY <1>10
<1>12. e[1] = 1
  BY <1>9, <1>11, AssertionLabel DEF T, n
<1>13. V[0][i] = 2
  BY <1>1, <1>2, <1>5, <1>9, <1>11, <1>12
<1>14. Hit(mAssnMap, w)
  BY <1>8, <1>13, AcceptingHit DEF T, n
<1> QED
  BY <1>8, <1>14 DEF T, n

\* The nodes of a run are places of the product.
LEMMA PlacesOfRun ==
    ASSUME IInvParse, NEW g, NEW at, Shuffle(thread_graphs_, g, Len(thread_graphs_), at),
           NEW w \in Seq(Nat), NEW V, Run(thread_graphs_, Len(thread_graphs_), w, V)
    PROVE  \A j \in 0..Len(w) : \E s \in Reachable(g) : at[s] = V[j]
<1> DEFINE T == thread_graphs_
           n == Len(T)
           k == Len(w)
           D == Reachable(g)
           S == {c \in Nat : c <= k => \E s \in D : at[s] = V[k - c]}
<1>1. k \in Nat
  OBVIOUS
<1>2. /\ V[k] = [c \in 1..n |-> 3]
      /\ \A j \in 1..k : \E c \in 1..n : \E e \in Edges(T, c) : Moved(T, V[j], w[j], V[j-1], c, e)
  BY DEF Run
<1>3. \A s \in D : \A i \in 1..n : \A e \in Edges(T, i) : e[1] = at[s][i] =>
          \E t \in D : <<s, GetLabel(e[2]), t>> \in g.trans /\ Moved(T, at[s], GetLabel(e[2]), at[t], i, e)
  BY DEF Shuffle, MovesOf
<1>4. \E s \in D : at[s] = [i \in 1..n |-> 3]
  <2>1. PICK s : g.init = {s} /\ at[s] = [i \in 1..n |-> 3]
    BY DEF Shuffle, PlacesOf
  <2>2. g.init \subseteq D
    BY ReachableFacts DEF Shuffle, IsGenerator
  <2> QED
    BY <2>1, <2>2
<1> HIDE DEF T, n, k, D
<1>5. 0 \in S
  <2>1. k - 0 = k
    BY <1>1
  <2> QED
    BY <1>2, <1>4, <2>1
<1>6. ASSUME NEW c \in Nat, c \in S
      PROVE  c + 1 \in S
  <2>1. SUFFICES ASSUME c + 1 <= k
                 PROVE  \E s \in D : at[s] = V[k - (c + 1)]
    OBVIOUS
  <2> DEFINE j == k - c
  <2>2. PICK s \in D : at[s] = V[j]
    BY <1>1, <1>6, <2>1
  <2>3. j \in 1..k /\ j - 1 = k - (c + 1)
    BY <1>1, <2>1
  <2> HIDE DEF j, S
  <2>4. PICK i \in 1..n : \E e \in Edges(T, i) : Moved(T, V[j], w[j], V[j-1], i, e)
    BY <1>2, <2>3
  <2>5. PICK e \in Edges(T, i) : Moved(T, V[j], w[j], V[j-1], i, e)
    BY <2>4
  <2>6. e[1] = at[s][i] /\ V[j-1] = Put(at[s], i, e[3])
    BY <2>2, <2>5 DEF Moved
  <2>7. PICK t \in D : Moved(T, at[s], GetLabel(e[2]), at[t], i, e)
    BY <1>3, <2>6
  <2>8. at[t] = V[j-1]
    BY <2>6, <2>7 DEF Moved
  <2> QED
    BY <2>3, <2>8
<1>7. Nat \subseteq S
  <2> HIDE DEF S
  <2> QED
    BY <1>5, <1>6, Nats!NatSetInduction
<1>8. ASSUME NEW j \in 0..k
      PROVE  \E s \in D : at[s] = V[j]
  <2>1. k - j \in Nat /\ k - j <= k /\ k - (k - j) = j
    BY <1>1
  <2>2. k - j \in S
    BY <1>7, <2>1
  <2> QED
    BY <2>1, <2>2
<1> QED
  BY <1>8 DEF k, D

\* A run with an assertion is a path.
LEMMA PathOfRun ==
    ASSUME IInvParse, Parsed, NEW g, NEW at, Shuffle(thread_graphs_, g, Len(thread_graphs_), at),
           g.marked = AssertionTargets(g),
           NEW w \in Seq(Nat), NEW V, Run(thread_graphs_, Len(thread_graphs_), w, V), Hit(mAssnMap, w)
    PROVE  \E q : Path(g, w, q)
<1> DEFINE T == thread_graphs_
           n == Len(T)
           k == Len(w)
           D == Reachable(g)
           q == [j \in 0..k |-> CHOOSE s \in D : at[s] = V[j]]
<1>1. k \in Nat /\ 0 \in 0..k /\ k \in 0..k /\ \A j \in 1..k : j \in 0..k /\ j - 1 \in 0..k
  OBVIOUS
<1>2. /\ V[k] = [c \in 1..n |-> 3] /\ V \in [0..k -> [1..n -> Nat]]
      /\ \A j \in 1..k : \E c \in 1..n : \E e \in Edges(T, c) : Moved(T, V[j], w[j], V[j-1], c, e)
  BY DEF Run
<1>3. \A s \in D : \A i \in 1..n : \A e \in Edges(T, i) : e[1] = at[s][i] =>
          \E t \in D : <<s, GetLabel(e[2]), t>> \in g.trans /\ Moved(T, at[s], GetLabel(e[2]), at[t], i, e)
  BY DEF Shuffle, MovesOf
<1>4. \A s, t \in D : at[s] = at[t] => s = t
  BY DEF Shuffle, PlacesOf
<1>5. PICK s0 : g.init = {s0} /\ at[s0] = [i \in 1..n |-> 3]
  BY DEF Shuffle, PlacesOf
<1>6. s0 \in D
  <2>1. g.init \subseteq D
    BY ReachableFacts DEF Shuffle, IsGenerator
  <2> QED
    BY <1>5, <2>1
<1>7. \A j \in 0..k : q[j] \in D /\ at[q[j]] = V[j]
  <2>1. \A j \in 0..k : \E s \in D : at[s] = V[j]
    BY PlacesOfRun
  <2> HIDE DEF k, D
  <2> QED
    BY <2>1
<1>8. \A s, t \in D : \A i \in 1..n : \E u \in D : at[u] = Put(at[s], i, at[t][i])
  BY DEF Shuffle, PlacesOf
<1>9. PICK i \in 1..n : \E e, j : Arrangement(T, mAssnMap, n, w, V, i, e, j)
  BY HitAccepting
<1> HIDE DEF T, n, D
<1>10. q \in [0..k -> D]
  <2> HIDE DEF k
  <2>1. q = [j \in 0..k |-> q[j]]
    OBVIOUS
  <2> HIDE DEF q
  <2> QED
    BY <1>7, <2>1
<1> HIDE DEF q, k
<1>11. g.init = {q[k]}
  <2>1. q[k] \in D /\ at[q[k]] = at[s0]
    BY <1>1, <1>2, <1>5, <1>7
  <2>2. q[k] = s0
    BY <1>4, <1>6, <2>1
  <2> QED
    BY <1>5, <2>2
<1>12. ASSUME NEW j \in 1..k
       PROVE  <<q[j], w[j], q[j-1]>> \in g.trans
  <2>1. PICK c \in 1..n : \E e \in Edges(T, c) : Moved(T, V[j], w[j], V[j-1], c, e)
    BY <1>2
  <2>2. PICK e \in Edges(T, c) : Moved(T, V[j], w[j], V[j-1], c, e)
    BY <2>1
  <2>3. q[j] \in D /\ at[q[j]] = V[j] /\ q[j-1] \in D /\ at[q[j-1]] = V[j-1]
    BY <1>1, <1>7
  <2>4. e[1] = at[q[j]][c] /\ w[j] = GetLabel(e[2]) /\ V[j-1] = Put(at[q[j]], c, e[3])
    BY <2>2, <2>3 DEF Moved
  <2>5. PICK t \in D : <<q[j], GetLabel(e[2]), t>> \in g.trans /\ Moved(T, at[q[j]], GetLabel(e[2]), at[t], c, e)
    BY <1>3, <2>3, <2>4
  <2>6. at[t] = at[q[j-1]]
    BY <2>3, <2>4, <2>5 DEF Moved
  <2>7. t = q[j-1]
    BY <1>4, <2>3, <2>6
  <2> QED
    BY <2>4, <2>5, <2>7
<1>13. q[0] \in g.marked
  <2>1. PICK e, j : Arrangement(T, mAssnMap, n, w, V, i, e, j)
    BY <1>9
  <2>2. e \in Edges(T, i) /\ j \in 1..k /\ GetLabel(e[2]) \in mAssnMap /\ V[j][i] = e[1] /\ V[0][i] = e[3]
    BY <2>1 DEF Arrangement, k
  <2>3. /\ q[0] \in D /\ at[q[0]] = V[0] /\ q[j] \in D /\ at[q[j]] = V[j]
        /\ V[0] \in [1..n -> Nat]
    BY <1>1, <1>2, <1>7, <2>2
  <2>4. PICK u \in D : at[u] = Put(at[q[0]], i, at[q[j]][i])
    BY <1>8, <2>3
  <2>5. at[u] = [V[0] EXCEPT ![i] = e[1]]
    BY <2>2, <2>3, <2>4 DEF Put
  <2>6. e[1] = at[u][i]
    BY <2>3, <2>5
  <2>7. PICK t \in D : <<u, GetLabel(e[2]), t>> \in g.trans /\ Moved(T, at[u], GetLabel(e[2]), at[t], i, e)
    BY <1>3, <2>2, <2>6
  <2>8. at[t] = [at[u] EXCEPT ![i] = e[3]]
    BY <2>7 DEF Moved, Put
  <2>9. at[t] = V[0]
    BY <2>2, <2>3, <2>5, <2>8
  <2>10. t = q[0]
    BY <1>4, <2>3, <2>9
  <2> DEFINE tr == <<u, GetLabel(e[2]), t>>
  <2>11. tr \in g.trans /\ tr[2] \in mAssnMap /\ tr[3] = q[0]
    BY <2>2, <2>7, <2>10
  <2> HIDE DEF tr
  <2>12. q[0] \in AssertionTargets(g)
    BY <2>11 DEF AssertionTargets
  <2> QED
    BY <2>12
<1>14. Path(g, w, q)
  BY <1>10, <1>11, <1>12, <1>13 DEF Path, k, D
<1> QED
  BY <1>14

\* Every block of every function ends in a branch or a return, or has a call.
AllBranching == \A m \in Modules : \A k \in DOMAIN m : Branching(m[k])

\* What is left when the reversed automaton is built.
LEMMA Completion ==
    ASSUME IInvSC, stage = "done"
    PROVE  /\ IInvParse /\ Parsed
           /\ result.marked = AssertionTargets(result)
           /\ lGenerator = ReverseGenerator(Deterministic(result)) /\ WellFormed(lGenerator)
           /\ IsGenerator(result) /\ Deterministically(result) /\ \E s : result.init = {s}
           /\ \E at : Shuffle(thread_graphs_, result, Len(thread_graphs_), at)
<1>1. /\ IInvParse /\ Parsed /\ composed # 0 /\ composed = Len(thread_graphs_)
      /\ result.marked = AssertionTargets(result)
      /\ lGenerator = ReverseGenerator(Deterministic(result))
  BY DEF IInvSC, IInvReversed
<1>2. PICK at : Shuffle(thread_graphs_, result, Len(thread_graphs_), at)
  BY <1>1 DEF IInvSC, IInvResult
<1>3. /\ IsGenerator(result) /\ Deterministically(result)
      /\ \E s : result.init = {s}
  BY <1>2 DEF Shuffle, PlacesOf
<1>4. WellFormed(lGenerator)
  BY <1>1, <1>3, ReversedFacts
<1> QED
  BY <1>1, <1>2, <1>3, <1>4

\* Each interleaving with an assertion is a word of the automaton.
LEMMA NoneLost ==
    ASSUME IInvSC, stage = "done", NEW w \in Interleavings
    PROVE  w \in ReversedWords(lGenerator)
<1> DEFINE T == thread_graphs_
           n == Len(T)
           h == lGenerator
<1>1. /\ IInvParse /\ Parsed /\ result.marked = AssertionTargets(result)
      /\ h = ReverseGenerator(Deterministic(result)) /\ WellFormed(h)
      /\ IsGenerator(result) /\ Deterministically(result)
  BY Completion
<1>2. PICK at : Shuffle(T, result, n, at)
  BY Completion
<1> HIDE DEF T, n, h
<1>3. w \in Seq(Nat) /\ Len(w) <= MaxLen /\ Hit(mAssnMap, w) /\ \E V : Run(T, n, w, V)
  BY <1>1, InterleavingsFacts DEF T, n
<1>4. PICK V : Run(T, n, w, V)
  BY <1>3
<1>5. PICK q : Path(result, w, q)
  BY <1>1, <1>2, <1>3, <1>4, PathOfRun DEF T, n
<1>6. WalkTo(h, w)
  BY <1>1, <1>3, <1>5, WalkOfPath DEF h
<1>7. \E r : Walk(h, w, r) /\ r[Len(w)] \in h.marked
  BY <1>6 DEF WalkTo
<1>8. w \in ReversedWords(h)
  BY <1>1, <1>3, <1>7, ReversedWordsFacts
<1> QED
  BY <1>8 DEF h

\* Each word of the automaton is such an interleaving.
LEMMA NoneAdded ==
    ASSUME AllBranching, IInvSC, stage = "done", NEW w \in ReversedWords(lGenerator)
    PROVE  w \in Interleavings
<1> DEFINE T == thread_graphs_
           n == Len(T)
           h == lGenerator
<1>1. /\ IInvParse /\ Parsed /\ result.marked = AssertionTargets(result)
      /\ h = ReverseGenerator(Deterministic(result)) /\ WellFormed(h)
      /\ IsGenerator(result) /\ Deterministically(result)
  BY Completion
<1>2. PICK at : Shuffle(T, result, n, at)
  BY Completion
<1>3. PICK s0 : result.init = {s0}
  BY Completion
<1>4. \A c \in 1..n : OnlyAsserted(T[c])
  <2>1. module \in Modules /\ DOMAIN T = 1..n
    BY <1>1 DEF IInvParse, ParseTypes
  <2>2. \A k \in DOMAIN module : Branching(module[k])
    BY <2>1 DEF AllBranching
  <2> QED
    BY <1>1, <2>1, <2>2 DEF IInvParse, ParseGraphs
<1>5. w \in ReversedWords(h)
  OBVIOUS
<1> HIDE DEF T, n, h
<1>6. /\ w \in Seq(Nat) /\ Len(w) <= MaxLen
      /\ \E r : Walk(h, w, r) /\ r[Len(w)] \in h.marked
  BY <1>1, <1>5, ReversedWordsFacts
<1>7. PICK r : Walk(h, w, r) /\ r[Len(w)] \in h.marked
  BY <1>6
<1>8. PICK q : Path(result, w, q)
  BY <1>1, <1>3, <1>6, <1>7, PathOfWalk DEF h
<1>9. Hit(mAssnMap, w) /\ \E V : Run(T, n, w, V)
  BY <1>1, <1>2, <1>4, <1>6, <1>8, RunOfPath DEF T, n
<1> QED
  BY <1>1, <1>6, <1>9, InterleavingsFacts DEF T, n

\* Together.
LEMMA SameWords ==
    ASSUME AllBranching, IInvSC, stage = "done"
    PROVE  ReversedWords(lGenerator) = Interleavings
BY NoneLost, NoneAdded

\* An interleaving that does not begin with an assertion goes on after one.
LEMMA TailInterleaves ==
    ASSUME IInvParse, Parsed, NEW w \in Interleavings
    PROVE  w # <<>> /\ (Head(w) \notin mAssnMap => Tail(w) \in Interleavings)
<1> DEFINE T == thread_graphs_
           n == Len(T)
<1>1. w \in Seq(Nat) /\ Len(w) <= MaxLen /\ Hit(mAssnMap, w) /\ \E V : Run(T, n, w, V)
  BY InterleavingsFacts
<1>2. PICK V : Run(T, n, w, V)
  BY <1>1
<1>3. PICK j \in 1..Len(w) : w[j] \in mAssnMap
  BY <1>1 DEF Hit
<1>4. w # <<>> /\ Len(w) \in Nat /\ Len(w) # 0
  BY <1>1, <1>3
<1>5. PICK k \in Nat : Len(w) = k + 1
  <2>1. Len(w) - 1 \in Nat /\ Len(w) = (Len(w) - 1) + 1
    BY <1>4
  <2> QED
    BY <2>1
<1>6. n \in Nat
  BY DEF IInvParse, ParseTypes
<1> HIDE DEF T, n
<1>7. FirstStep(T, n, k, w, V[0])
  BY <1>1, <1>2, <1>5, <1>6, RunBack
<1>8. PICK u \in Seq(Nat) : Len(u) = k /\ w = <<w[1]>> \o u /\ \E V2 : Run(T, n, u, V2)
  BY <1>7 DEF FirstStep
<1>9. w[1] \in Nat /\ Head(w) = w[1]
  BY <1>1, <1>4
<1>10. Tail(w) = u
  <2>1. /\ Tail(w) \in Seq(Nat) /\ Len(Tail(w)) = k
        /\ \A m \in 1..k : Tail(w)[m] = w[m + 1]
    BY <1>1, <1>4, <1>5
  <2>2. \A m \in 1..Len(u) : (<<w[1]>> \o u)[m + 1] = u[m]
    BY <1>9, InFront
  <2>3. \A m \in 1..k : Tail(w)[m] = u[m]
    BY <1>8, <2>1, <2>2
  <2> HIDE DEF T, n
  <2> QED
    BY <1>8, <2>1, <2>3
<1>11. ASSUME Head(w) \notin mAssnMap
       PROVE  Tail(w) \in Interleavings
  <2>1. Hit(mAssnMap, w) <=> w[1] \in mAssnMap \/ Hit(mAssnMap, u)
    <3> DEFINE a == w[1]
    <3>1. a \in Nat /\ w = <<a>> \o u
      BY <1>8, <1>9
    <3> HIDE DEF a
    <3>2. Hit(mAssnMap, <<a>> \o u) <=> a \in mAssnMap \/ Hit(mAssnMap, u)
      BY <3>1, HitInFront
    <3>3. Hit(mAssnMap, w) <=> a \in mAssnMap \/ Hit(mAssnMap, u)
      BY <3>1, <3>2
    <3> QED
      BY <3>3 DEF a
  <2>2. Hit(mAssnMap, u)
    BY <1>1, <1>9, <1>11, <2>1
  <2>3. Len(u) <= MaxLen
    BY <1>1, <1>5, <1>8, MaxLenIsNat
  <2>4. u \in Interleavings
    BY <1>8, <2>2, <2>3, InterleavingsFacts DEF T, n
  <2> QED
    BY <1>10, <2>4
<1> QED
  BY <1>4, <1>11

\* The invariant holds of every state of the construction.
LEMMA InductiveSC ==
    SpecSC => []IInvSC
<1>1. InitSC => IInvSC
  BY SCInit
<1>2. IInvSC /\ [NextSC]_scvars => IInvSC'
  BY StepSC
<1> QED
  BY <1>1, <1>2, PTL DEF SpecSC

\* The numbers of instructions and the nodes of graphs are in range.
THEOREM TypeCorrect ==
    SpecSC => []TypeOK
<1>1. IInvSC => TypeOK
  BY IInvTypeOK DEF IInvSC
<1> QED
  BY <1>1, InductiveSC, PTL

\* Threads share no symbol, and an assertion's symbol is on its edge only,
\* whatever numbers FindInstruction returns.
THEOREM ThreadsApart ==
    SpecSC => []SymbolsApart
<1>1. IInvSC => SymbolsApart
  BY IInvSymbolsApart DEF IInvSC
<1> QED
  BY <1>1, InductiveSC, PTL

\* The generators are well-formed at every stage of BuildSCTS.
THEOREM TypeCorrectSC ==
    SpecSC => []TypeOKSC
<1>1. IInvSC => TypeOKSC
  BY IInvTypeOKSC
<1> QED
  BY <1>1, InductiveSC, PTL

\* No interleaving with an assertion is lost by the product, the marking, the
\* two subset constructions and the reversal.
THEOREM NoTraceLost ==
    SpecSC => [](stage = "done" => Interleavings \subseteq ReversedWords(lGenerator))
<1>1. IInvSC => (stage = "done" => Interleavings \subseteq ReversedWords(lGenerator))
  BY NoneLost
<1> QED
  BY <1>1, InductiveSC, PTL

\* And none is added, if every block ends in a branch or a return or has a
\* call: the words of the automaton BuildSCTS returns are the interleavings.
THEOREM ExactTraces ==
    ASSUME AllBranching
    PROVE  SpecSC => []TracesExact
<1>1. IInvSC => TracesExact
  BY SameWords DEF TracesExact
<1> QED
  BY <1>1, InductiveSC, PTL

\* A trace that does not begin at an assertion can drop its first symbol.
THEOREM AssertionAhead ==
    ASSUME AllBranching
    PROVE  SpecSC => []EndsAtAssertion
<1>1. IInvSC => EndsAtAssertion
  <2>1. SUFFICES ASSUME IInvSC, stage = "done"
                 PROVE  \A w \in Interleavings : w # <<>> /\ (Head(w) \notin mAssnMap => Tail(w) \in Interleavings)
    BY SameWords DEF EndsAtAssertion
  <2>2. IInvParse /\ Parsed
    BY <2>1 DEF IInvSC, IInvReversed
  <2> QED
    BY <2>2, TailInterleaves
<1> QED
  BY <1>1, InductiveSC, PTL

-----------------------------------------------------------------------------
(***************************************************************************)
(* PathsExact.  An invariant that follows every instruction to its number: *)
(* what a block under construction has got of its first k instructions.    *)
(***************************************************************************)
Means(list, n, inst) == n \in 0..(Len(list) - 1) /\ list[n + 1] = inst

Plain(inst) == inst.op \in {"Assign", "AtomicCmpXchg"}
Leaves(inst) == inst.op \in {"Br", "CondBr", "Ret"}

\* The instruction of an assignment or a compare-and-swap.
Meaning(inst) == IF inst.op = "Assign" THEN Assign(inst.expr) ELSE Cas(inst.expr)

\* The instructions that leave a block, each with the block it leads to.
Exits(inst) ==
    CASE inst.op = "Ret" -> {<<AssumeTrue, 1>>}
      [] inst.op = "Br" -> {<<AssumeTrue, inst.target>>}
      [] inst.op = "CondBr" -> {<<Assume(inst.cond, TRUE), inst.then>>,
                                <<Assume(inst.cond, FALSE), inst.else>>}
      [] OTHER -> {}

\* The blocks the flow may come from, each with the assignment then made.
Arrivals(inst) ==
    IF inst.op = "PHI"
    THEN {<<inst.incoming[i].block, Assign(inst.incoming[i].expr)>> : i \in DOMAIN inst.incoming}
    ELSE {}

PlainUpTo(insts, k) == {j \in 1..k : Plain(insts[j])}
PlainCount(insts, k) == Cardinality(PlainUpTo(insts, k))

MarksMatch(insts, k, bb) ==
    /\ bb.is_accepting <=> \E j \in 1..k : insts[j].op = "Call"
    /\ bb.has_phi <=> \E j \in 1..k : insts[j].op = "PHI"
    /\ bb.has_branch <=> \E j \in 1..k : Leaves(insts[j])

InstsMatch(list, insts, k, bb) ==
    /\ Len(bb.inst) = PlainCount(insts, k)
    /\ \A j \in 1..k : Plain(insts[j]) =>
          Means(list, bb.inst[PlainCount(insts, j - 1) + 1], Meaning(insts[j]))

BranchesMatch(list, insts, k, bb) ==
    /\ \A e \in bb.branch_map : \E j \in 1..k : \E x \in Exits(insts[j]) :
          Means(list, e[1], x[1]) /\ e[2] = x[2]
    /\ \A j \in 1..k : (\A i \in 1..(j - 1) : ~Leaves(insts[i])) =>
          \A x \in Exits(insts[j]) : \E e \in bb.branch_map : Means(list, e[1], x[1]) /\ e[2] = x[2]

PhisMatch(list, insts, k, bb) ==
    /\ \A p \in bb.phi_map : \E j \in 1..k : \E x \in Arrivals(insts[j]) :
          p[1] = x[1] /\ Means(list, p[2], x[2])
    /\ \A j \in 1..k : \A x \in Arrivals(insts[j]) : \E p \in bb.phi_map : p[1] = x[1]

Reflected(list, insts, k, bb) ==
    /\ MarksMatch(insts, k, bb) /\ InstsMatch(list, insts, k, bb)
    /\ BranchesMatch(list, insts, k, bb) /\ PhisMatch(list, insts, k, bb)

\* How many instructions of the block b have been parsed.
Handled(f, block, inst, b) ==
    IF b < block THEN Len(f.blocks[b]) ELSE IF b = block THEN inst - 1 ELSE 0

\* The blocks of a function, all parsed, and the graph they give.
Mirrors(list, f, BB) ==
    /\ BlocksOK(BB)
    /\ Len(BB) = Len(f.blocks)
    /\ \A b \in 1..Len(BB) : Reflected(list, f.blocks[b], Len(f.blocks[b]), BB[b])

WithAssertion(BB, n) == [CreateAutGraph(BB) EXCEPT !.edges = @ \cup {<<1, n, 2>>}]

GraphOf(list, f, g) ==
    \E BB, n : Mirrors(list, f, BB) /\ Means(list, n, AssumeTrue) /\ g = WithAssertion(BB, n)

PathsBlocks ==
    bb_automata # <<>> =>
        \A b \in 1..Len(bb_automata) :
            Reflected(inst_list_, Func.blocks[b], Handled(Func, cur_block, cur_inst, b), bb_automata[b])

PathsNames == \A i \in 1..Len(thread_names_) : thread_names_[i] # "__ASSERT"

PathsGraphs ==
    \A i \in 1..Len(thread_graphs_) : \A k \in 1..Len(module) :
        module[k].name = thread_names_[i] => GraphOf(inst_list_, module[k], thread_graphs_[i])

IInvPaths == PathsBlocks /\ PathsNames /\ PathsGraphs

\* A function whose graph is exact.  LLVM ensures that only the last instruction of a
\* block branches or returns, and that PHI nodes come first, not in the first block, with
\* one value for each block that branches to theirs.  It does not ensure that a block has
\* one PHI node at most, that every block branches, returns or has a call, and that the
\* first block has none: with a call in it, the edge of the start leads to 0, the number
\* first_nd is initialised with.
Structured(f) ==
    /\ Branching(f)
    /\ ~Failing(f, 1)
    /\ \A b \in DOMAIN f.blocks : \A k \in DOMAIN f.blocks[b] :
          LET inst == f.blocks[b][k]
          IN  /\ Leaves(inst) => k = Len(f.blocks[b])
              /\ inst.op = "PHI" =>
                    /\ k = 1 /\ b # 1
                    /\ \A x, y \in Arrivals(inst) : x[1] = y[1] => x = y
                    /\ \A c \in DOMAIN f.blocks :
                          (\E j \in DOMAIN f.blocks[c] : b \in Targets(f.blocks[c][j]))
                             => \E x \in Arrivals(inst) : x[1] = c

\* A number keeps its meaning when the tables grow.
LEMMA MeansGrows ==
    ASSUME NEW l1 \in Seq(Instr), NEW l2 \in Seq(Instr), NEW m1, NEW m2, Grows(l1, m1, l2, m2),
           NEW n, NEW inst, Means(l1, n, inst)
    PROVE  Means(l2, n, inst)
<1>1. /\ Len(l1) \in Nat /\ Len(l2) \in Nat /\ Len(l1) <= Len(l2)
      /\ \A k \in 1..Len(l1) : l2[k] = l1[k]
      /\ n \in 0..(Len(l1) - 1) /\ l1[n + 1] = inst
  BY DEF Grows, Means
<1>2. n + 1 \in 1..Len(l1) /\ n \in 0..(Len(l2) - 1)
  BY <1>1
<1> QED
  BY <1>1, <1>2 DEF Means

\* So a block reflects the same instructions.
LEMMA ReflectedGrows ==
    ASSUME NEW l1 \in Seq(Instr), NEW l2 \in Seq(Instr), NEW m1, NEW m2, Grows(l1, m1, l2, m2),
           NEW insts, NEW k, NEW bb, Reflected(l1, insts, k, bb)
    PROVE  Reflected(l2, insts, k, bb)
<1>1. \A n, inst : Means(l1, n, inst) => Means(l2, n, inst)
  BY MeansGrows
<1> HIDE DEF Means
<1>2. InstsMatch(l2, insts, k, bb)
  BY <1>1 DEF Reflected, InstsMatch
<1>3. BranchesMatch(l2, insts, k, bb)
  <2>1. ASSUME NEW e \in bb.branch_map
        PROVE  \E j \in 1..k : \E x \in Exits(insts[j]) : Means(l2, e[1], x[1]) /\ e[2] = x[2]
    BY <1>1 DEF Reflected, BranchesMatch
  <2>2. ASSUME NEW j \in 1..k, \A i \in 1..(j - 1) : ~Leaves(insts[i]), NEW x \in Exits(insts[j])
        PROVE  \E e \in bb.branch_map : Means(l2, e[1], x[1]) /\ e[2] = x[2]
    BY <1>1, <2>2 DEF Reflected, BranchesMatch
  <2> QED
    BY <2>1, <2>2 DEF BranchesMatch
<1>4. PhisMatch(l2, insts, k, bb)
  <2>1. ASSUME NEW p \in bb.phi_map
        PROVE  \E j \in 1..k : \E x \in Arrivals(insts[j]) : p[1] = x[1] /\ Means(l2, p[2], x[2])
    BY <1>1 DEF Reflected, PhisMatch
  <2>2. \A j \in 1..k : \A x \in Arrivals(insts[j]) : \E p \in bb.phi_map : p[1] = x[1]
    BY DEF Reflected, PhisMatch
  <2> QED
    BY <2>1, <2>2 DEF PhisMatch
<1> QED
  BY <1>2, <1>3, <1>4 DEF Reflected

\* The plain instructions among the first k are finitely many.
LEMMA PlainFinite ==
    ASSUME NEW insts, NEW k \in Nat
    PROVE  IsFiniteSet(PlainUpTo(insts, k)) /\ PlainCount(insts, k) \in Nat
<1>1. IsFiniteSet(1..k)
  <2>1. 1 \in Int /\ k \in Int
    OBVIOUS
  <2> QED
    BY <2>1, FS_Interval
<1>2. PlainUpTo(insts, k) \in SUBSET (1..k)
  BY DEF PlainUpTo
<1>3. IsFiniteSet(PlainUpTo(insts, k))
  BY <1>1, <1>2, FS_Subset
<1> QED
  BY <1>3, FS_CardinalityType DEF PlainCount

\* How many there are with one more instruction.
LEMMA PlainNext ==
    ASSUME NEW insts, NEW k \in Nat \ {0}
    PROVE  /\ Plain(insts[k]) => PlainCount(insts, k) = PlainCount(insts, k - 1) + 1
           /\ ~Plain(insts[k]) => PlainCount(insts, k) = PlainCount(insts, k - 1)
<1>1. k - 1 \in Nat /\ 1..k = 1..(k - 1) \cup {k} /\ k \notin 1..(k - 1)
  OBVIOUS
<1>2. IsFiniteSet(PlainUpTo(insts, k - 1))
  BY <1>1, PlainFinite
<1>3. CASE Plain(insts[k])
  <2>1. PlainUpTo(insts, k) = PlainUpTo(insts, k - 1) \cup {k}
    BY <1>1, <1>3 DEF PlainUpTo
  <2>2. k \notin PlainUpTo(insts, k - 1)
    BY <1>1 DEF PlainUpTo
  <2> QED
    BY <1>2, <1>3, <2>1, <2>2, FS_AddElement DEF PlainCount
<1>4. CASE ~Plain(insts[k])
  <2>1. PlainUpTo(insts, k) = PlainUpTo(insts, k - 1)
    BY <1>1, <1>4 DEF PlainUpTo
  <2> QED
    BY <1>4, <2>1 DEF PlainCount
<1> QED
  BY <1>3, <1>4

\* The place of a plain instruction.
LEMMA PlainPlace ==
    ASSUME NEW insts, NEW k \in Nat, NEW j \in 1..k, Plain(insts[j])
    PROVE  /\ PlainCount(insts, j - 1) + 1 \in 1..PlainCount(insts, k)
           /\ PlainCount(insts, j) = PlainCount(insts, j - 1) + 1
<1>1. j \in Nat \ {0} /\ j - 1 \in Nat
  OBVIOUS
<1>2. PlainCount(insts, j) = PlainCount(insts, j - 1) + 1 /\ PlainCount(insts, j - 1) \in Nat
  BY <1>1, PlainNext, PlainFinite
<1>3. PlainUpTo(insts, j) \in SUBSET PlainUpTo(insts, k)
  BY DEF PlainUpTo
<1>4. PlainCount(insts, j) <= PlainCount(insts, k) /\ PlainCount(insts, k) \in Nat
  BY <1>3, PlainFinite, FS_Subset DEF PlainCount
<1> QED
  BY <1>2, <1>4

\* The marks after one more instruction.
LEMMA MarksNext ==
    ASSUME NEW insts, NEW k \in Nat \ {0}, NEW bb, NEW nb, MarksMatch(insts, k - 1, bb),
           bb \in BasicBlock, nb \in BasicBlock,
           nb.is_accepting <=> bb.is_accepting \/ insts[k].op = "Call",
           nb.has_phi <=> bb.has_phi \/ insts[k].op = "PHI",
           nb.has_branch <=> bb.has_branch \/ Leaves(insts[k])
    PROVE  MarksMatch(insts, k, nb)
<1>1. 1..k = 1..(k - 1) \cup {k}
  OBVIOUS
<1>2. \A j \in 1..k : j \in 1..(k - 1) \/ j = k
  BY <1>1
<1>3. k \in 1..k /\ \A j \in 1..(k - 1) : j \in 1..k
  BY <1>1
<1>4. /\ bb.is_accepting <=> \E j \in 1..(k - 1) : insts[j].op = "Call"
      /\ bb.has_phi <=> \E j \in 1..(k - 1) : insts[j].op = "PHI"
      /\ bb.has_branch <=> \E j \in 1..(k - 1) : Leaves(insts[j])
  BY DEF MarksMatch
<1>5. nb.is_accepting <=> \E j \in 1..k : insts[j].op = "Call"
  BY <1>2, <1>3, <1>4, Zenon
<1>6. nb.has_phi <=> \E j \in 1..k : insts[j].op = "PHI"
  BY <1>2, <1>3, <1>4, Zenon
<1>7. nb.has_branch <=> \E j \in 1..k : Leaves(insts[j])
  BY <1>2, <1>3, <1>4, Zenon
<1> QED
  BY <1>5, <1>6, <1>7 DEF MarksMatch

\* An instruction that gets no number in the block.
LEMMA InstsKept ==
    ASSUME NEW list, NEW insts, NEW k \in Nat \ {0}, NEW bb, NEW nb,
           InstsMatch(list, insts, k - 1, bb), nb.inst = bb.inst, ~Plain(insts[k])
    PROVE  InstsMatch(list, insts, k, nb)
<1>1. PlainCount(insts, k) = PlainCount(insts, k - 1)
  BY PlainNext
<1>2. \A j \in 1..k : j \in 1..(k - 1) \/ j = k
  OBVIOUS
<1> QED
  BY <1>1, <1>2 DEF InstsMatch

\* An instruction at the end of the block.
LEMMA InstsAdded ==
    ASSUME NEW list, NEW insts, NEW k \in Nat \ {0}, NEW bb, NEW nb, NEW m \in Nat,
           bb.inst \in Seq(Nat),
           InstsMatch(list, insts, k - 1, bb), nb.inst = Append(bb.inst, m), Plain(insts[k]),
           Means(list, m, Meaning(insts[k]))
    PROVE  InstsMatch(list, insts, k, nb)
<1> DEFINE c == PlainCount(insts, k - 1)
<1>1. PlainCount(insts, k) = c + 1 /\ c \in Nat /\ k - 1 \in Nat
  BY PlainNext, PlainFinite
<1>2. Len(bb.inst) = c
  BY DEF InstsMatch
<1>3. /\ Len(nb.inst) = c + 1 /\ nb.inst[c + 1] = m
      /\ \A i \in 1..c : nb.inst[i] = bb.inst[i]
  BY <1>1, <1>2
<1>4. ASSUME NEW j \in 1..k, Plain(insts[j])
      PROVE  Means(list, nb.inst[PlainCount(insts, j - 1) + 1], Meaning(insts[j]))
  <2>1. CASE j = k
    BY <1>3, <2>1
  <2>2. CASE j \in 1..(k - 1)
    <3>1. PlainCount(insts, j - 1) + 1 \in 1..c
      BY <1>1, <1>4, <2>2, PlainPlace
    <3>2. Means(list, bb.inst[PlainCount(insts, j - 1) + 1], Meaning(insts[j]))
      BY <1>4, <2>2 DEF InstsMatch
    <3> QED
      BY <1>3, <3>1, <3>2
  <2>3. j = k \/ j \in 1..(k - 1)
    OBVIOUS
  <2> QED
    BY <2>1, <2>2, <2>3
<1> QED
  BY <1>1, <1>3, <1>4 DEF InstsMatch

\* An instruction that stays in the block.
LEMMA BranchesKept ==
    ASSUME NEW list, NEW insts, NEW k \in Nat \ {0}, NEW bb, NEW nb,
           BranchesMatch(list, insts, k - 1, bb), nb.branch_map = bb.branch_map, ~Leaves(insts[k])
    PROVE  BranchesMatch(list, insts, k, nb)
<1>1. Exits(insts[k]) = {}
  BY DEF Exits, Leaves
<1>2. \A j \in 1..k : j \in 1..(k - 1) \/ j = k
  OBVIOUS
<1>3. \A j \in 1..(k - 1) : j \in 1..k
  OBVIOUS
<1> HIDE DEF Means, Exits, Leaves
<1>4. ASSUME NEW e \in nb.branch_map
      PROVE  \E j \in 1..k : \E x \in Exits(insts[j]) : Means(list, e[1], x[1]) /\ e[2] = x[2]
  BY <1>3 DEF BranchesMatch
<1>5. ASSUME NEW j \in 1..k, \A i \in 1..(j - 1) : ~Leaves(insts[i]), NEW x \in Exits(insts[j])
      PROVE  \E e \in nb.branch_map : Means(list, e[1], x[1]) /\ e[2] = x[2]
  BY <1>1, <1>2, <1>5 DEF BranchesMatch
<1> QED
  BY <1>4, <1>5 DEF BranchesMatch

\* An instruction that leaves it.
LEMMA BranchesAdded ==
    ASSUME NEW list, NEW insts, NEW k \in Nat \ {0}, NEW bb, NEW nb, NEW pairs,
           BranchesMatch(list, insts, k - 1, bb),
           nb.branch_map = bb.branch_map \cup {p \in pairs : \A e \in bb.branch_map : e[1] # p[1]},
           \A p \in pairs : \E x \in Exits(insts[k]) : Means(list, p[1], x[1]) /\ p[2] = x[2],
           \A x \in Exits(insts[k]) : \E p \in pairs : Means(list, p[1], x[1]) /\ p[2] = x[2]
    PROVE  BranchesMatch(list, insts, k, nb)
<1>2. \A j \in 1..k : j \in 1..(k - 1) \/ j = k
  OBVIOUS
<1>3. k \in 1..k /\ \A j \in 1..(k - 1) : j \in 1..k
  OBVIOUS
<1>1. \A j : Exits(insts[j]) # {} => Leaves(insts[j])
  BY DEF Exits, Leaves
<1> HIDE DEF Means, Exits, Leaves
<1>4. ASSUME NEW e \in nb.branch_map
      PROVE  \E j \in 1..k : \E x \in Exits(insts[j]) : Means(list, e[1], x[1]) /\ e[2] = x[2]
  <2>1. CASE e \in bb.branch_map
    BY <1>3, <2>1 DEF BranchesMatch
  <2>2. CASE e \in pairs
    BY <1>3, <2>2
  <2> QED
    BY <2>1, <2>2
<1>5. ASSUME NEW j \in 1..k, \A i \in 1..(j - 1) : ~Leaves(insts[i]), NEW x \in Exits(insts[j])
      PROVE  \E e \in nb.branch_map : Means(list, e[1], x[1]) /\ e[2] = x[2]
  <2>1. CASE j \in 1..(k - 1)
    <3>1. PICK e \in bb.branch_map : Means(list, e[1], x[1]) /\ e[2] = x[2]
      BY <1>5, <2>1 DEF BranchesMatch
    <3> QED
      BY <3>1
  <2>2. CASE j = k
    <3>1. bb.branch_map = {}
      <4>1. ASSUME NEW e \in bb.branch_map
            PROVE  FALSE
        <5>1. PICK i \in 1..(k - 1) : Exits(insts[i]) # {}
          BY DEF BranchesMatch
        <5> QED
          BY <1>1, <1>5, <2>2, <5>1
      <4> QED
        BY <4>1
    <3>2. PICK p \in pairs : Means(list, p[1], x[1]) /\ p[2] = x[2]
      BY <2>2
    <3>3. p \in nb.branch_map
      BY <3>1
    <3> QED
      BY <3>2, <3>3
  <2> QED
    BY <1>2, <2>1, <2>2
<1> QED
  BY <1>4, <1>5 DEF BranchesMatch

\* An instruction that is no PHI node.
LEMMA PhisKept ==
    ASSUME NEW list, NEW insts, NEW k \in Nat \ {0}, NEW bb, NEW nb,
           PhisMatch(list, insts, k - 1, bb), nb.phi_map = bb.phi_map, insts[k].op # "PHI"
    PROVE  PhisMatch(list, insts, k, nb)
<1>1. Arrivals(insts[k]) = {}
  BY DEF Arrivals
<1>2. \A j \in 1..k : j \in 1..(k - 1) \/ j = k
  OBVIOUS
<1>3. \A j \in 1..(k - 1) : j \in 1..k
  OBVIOUS
<1> HIDE DEF Means, Arrivals
<1>4. ASSUME NEW p \in nb.phi_map
      PROVE  \E j \in 1..k : \E x \in Arrivals(insts[j]) : p[1] = x[1] /\ Means(list, p[2], x[2])
  BY <1>3 DEF PhisMatch
<1>5. ASSUME NEW j \in 1..k, NEW x \in Arrivals(insts[j])
      PROVE  \E p \in nb.phi_map : p[1] = x[1]
  BY <1>1, <1>2 DEF PhisMatch
<1> QED
  BY <1>4, <1>5 DEF PhisMatch

\* A PHI node.
LEMMA PhisAdded ==
    ASSUME NEW list, NEW insts, NEW k \in Nat \ {0}, NEW bb, NEW nb, NEW new,
           PhisMatch(list, insts, k - 1, bb),
           nb.phi_map = bb.phi_map \cup {p \in new : p[1] \notin {q[1] : q \in bb.phi_map}},
           \A p \in new : \E x \in Arrivals(insts[k]) : p[1] = x[1] /\ Means(list, p[2], x[2]),
           \A x \in Arrivals(insts[k]) : \E p \in new : p[1] = x[1]
    PROVE  PhisMatch(list, insts, k, nb)
<1>2. \A j \in 1..k : j \in 1..(k - 1) \/ j = k
  OBVIOUS
<1>3. k \in 1..k /\ \A j \in 1..(k - 1) : j \in 1..k
  OBVIOUS
<1> HIDE DEF Means, Arrivals
<1>4. ASSUME NEW p \in nb.phi_map
      PROVE  \E j \in 1..k : \E x \in Arrivals(insts[j]) : p[1] = x[1] /\ Means(list, p[2], x[2])
  <2>1. CASE p \in bb.phi_map
    BY <1>3, <2>1 DEF PhisMatch
  <2>2. CASE p \in new
    BY <1>3, <2>2
  <2> QED
    BY <2>1, <2>2
<1>5. ASSUME NEW j \in 1..k, NEW x \in Arrivals(insts[j])
      PROVE  \E p \in nb.phi_map : p[1] = x[1]
  <2>1. CASE j \in 1..(k - 1)
    BY <2>1 DEF PhisMatch
  <2>2. CASE j = k
    <3>1. PICK p \in new : p[1] = x[1]
      BY <2>2
    <3> QED
      BY <3>1
  <2> QED
    BY <1>2, <2>1, <2>2
<1> QED
  BY <1>4, <1>5 DEF PhisMatch

\* A graph reflects its function however the tables grow.
LEMMA GraphOfGrows ==
    ASSUME NEW l1 \in Seq(Instr), NEW l2 \in Seq(Instr), NEW m1, NEW m2, Grows(l1, m1, l2, m2),
           NEW f, NEW g, GraphOf(l1, f, g)
    PROVE  GraphOf(l2, f, g)
<1>1. PICK BB, n : Mirrors(l1, f, BB) /\ Means(l1, n, AssumeTrue) /\ g = WithAssertion(BB, n)
  BY DEF GraphOf
<1>2. Means(l2, n, AssumeTrue)
  BY <1>1, MeansGrows
<1>3. \A b \in 1..Len(BB) : Reflected(l2, f.blocks[b], Len(f.blocks[b]), BB[b])
  BY <1>1, ReflectedGrows DEF Mirrors
<1>4. Mirrors(l2, f, BB)
  BY <1>1, <1>3 DEF Mirrors
<1> QED
  BY <1>1, <1>2, <1>4 DEF GraphOf

\* The finished graphs while no other is finished.
LEMMA PathsGraphsStay ==
    ASSUME PathsGraphs, inst_list_ \in Seq(Instr), inst_list_' \in Seq(Instr),
           Grows(inst_list_, inst_map_, inst_list_', inst_map_'),
           UNCHANGED <<module, thread_graphs_>>,
           \A i \in 1..Len(thread_graphs_) : thread_names_'[i] = thread_names_[i]
    PROVE  PathsGraphs'
<1>1. ASSUME NEW i \in 1..Len(thread_graphs_), NEW k \in 1..Len(module),
             module[k].name = thread_names_[i]
      PROVE  GraphOf(inst_list_', module[k], thread_graphs_[i])
  <2>1. GraphOf(inst_list_, module[k], thread_graphs_[i])
    BY <1>1 DEF PathsGraphs
  <2> QED
    BY <2>1, GraphOfGrows
<1> QED
  BY <1>1 DEF PathsGraphs

\* Tables that do not change have not lost anything.
LEMMA GrowsStutter ==
    ASSUME UNCHANGED <<inst_list_, inst_map_>>, inst_list_ \in Seq(Instr)
    PROVE  Grows(inst_list_, inst_map_, inst_list_', inst_map_')
BY DEF Grows

\* An instruction changes the block it is in.
LEMMA PathsStep ==
    ASSUME IInvParse, IInvPaths, InBlock, Advance, NEW nb,
           bb_automata' = [bb_automata EXCEPT ![cur_block] = nb],
           inst_list_' \in Seq(Instr), Grows(inst_list_, inst_map_, inst_list_', inst_map_'),
           Reflected(inst_list_', Func.blocks[cur_block], cur_inst, nb)
    PROVE  IInvPaths'
<1> DEFINE BB == bb_automata
<1>1. /\ Len(BB) \in Nat /\ cur_block \in 1..Len(BB) /\ cur_inst \in 1..Len(Func.blocks[cur_block])
      /\ Func.blocks[cur_block] \in Seq(Instruction)
  BY CurrentBlock
<1>2. BB \in Seq(BasicBlock) /\ BB # <<>> /\ inst_list_ \in Seq(Instr)
  BY DEF IInvParse, ParseTypes, TablesOK, InBlock
<1>3. /\ Len(BB') = Len(BB) /\ BB'[cur_block] = nb
      /\ \A b \in 1..Len(BB) : b # cur_block => BB'[b] = BB[b]
  BY <1>1, <1>2
<1>4. /\ cur_inst' = cur_inst + 1
      /\ UNCHANGED <<module, cur_func, cur_block, thread_names_, thread_graphs_>>
  BY DEF Advance
<1>5. Func' = Func
  BY <1>4 DEF Func
<1>6. ASSUME NEW b \in 1..Len(BB)
      PROVE  Reflected(inst_list_', Func.blocks[b], Handled(Func, cur_block, cur_inst', b), BB'[b])
  <2>1. CASE b = cur_block
    <3>1. Handled(Func, cur_block, cur_inst', b) = cur_inst
      BY <1>1, <1>4, <2>1 DEF Handled
    <3> QED
      BY <1>3, <2>1, <3>1
  <2>2. CASE b # cur_block
    <3>1. Handled(Func, cur_block, cur_inst', b) = Handled(Func, cur_block, cur_inst, b)
      BY <2>2 DEF Handled
    <3>2. Reflected(inst_list_, Func.blocks[b], Handled(Func, cur_block, cur_inst, b), BB[b])
      BY <1>2 DEF IInvPaths, PathsBlocks
    <3>3. Reflected(inst_list_', Func.blocks[b], Handled(Func, cur_block, cur_inst, b), BB[b])
      BY <1>2, <3>2, ReflectedGrows
    <3> QED
      BY <1>3, <2>2, <3>1, <3>3
  <2> QED
    BY <2>1, <2>2
<1>7. PathsBlocks'
  BY <1>3, <1>4, <1>5, <1>6 DEF PathsBlocks
<1>8. PathsNames'
  BY <1>4 DEF IInvPaths, PathsNames
<1>9. PathsGraphs'
  BY <1>2, <1>4, PathsGraphsStay DEF IInvPaths
<1> QED
  BY <1>7, <1>8, <1>9 DEF IInvPaths

\* What is known of the block an instruction is in.
LEMMA CurrentReflected ==
    ASSUME IInvParse, IInvPaths, InBlock
    PROVE  /\ inst_list_ \in Seq(Instr)
           /\ Reflected(inst_list_, Func.blocks[cur_block], cur_inst - 1, bb_automata[cur_block])
           /\ cur_inst \in Nat \ {0} /\ Inst = Func.blocks[cur_block][cur_inst]
<1>1. /\ cur_block \in 1..Len(bb_automata) /\ cur_inst \in 1..Len(Func.blocks[cur_block])
      /\ Inst = Func.blocks[cur_block][cur_inst] /\ Len(bb_automata) \in Nat
  BY CurrentBlock
<1>2. inst_list_ \in Seq(Instr) /\ cur_inst \in Nat \ {0}
  BY DEF IInvParse, ParseTypes, TablesOK
<1>3. Handled(Func, cur_block, cur_inst, cur_block) = cur_inst - 1
  BY <1>1 DEF Handled
<1>4. Reflected(inst_list_, Func.blocks[cur_block], cur_inst - 1, bb_automata[cur_block])
  BY <1>1, <1>3 DEF IInvPaths, PathsBlocks, InBlock
<1> QED
  BY <1>1, <1>2, <1>4

\* The block as it is, in the tables after the lookups, and what they mean.
LEMMA NumberedReflected ==
    ASSUME IInvParse, IInvPaths, InBlock, NEW insts \in Seq(Instr), NEW t \in Numbered(insts), SetTables(t)
    PROVE  /\ inst_list_' \in Seq(Instr) /\ Grows(inst_list_, inst_map_, inst_list_', inst_map_')
           /\ Reflected(inst_list_', Func.blocks[cur_block], cur_inst - 1, bb_automata[cur_block])
           /\ \A j \in 1..Len(insts) : t.nums[j] \in Nat /\ Means(inst_list_', t.nums[j], insts[j])
<1>1. inst_list_' = t.list /\ inst_map_' = t.map
  BY DEF SetTables
<1>2. /\ TablesOK(t.list, t.map) /\ Grows(inst_list_, inst_map_, t.list, t.map)
      /\ \A j \in 1..Len(insts) :
            t.nums[j] \in Nat /\ <<thread_name, insts[j], t.nums[j]>> \in t.map
  BY NewNumbers
<1>3. t.list \in Seq(Instr) /\ Len(t.list) \in Nat
  BY <1>2 DEF TablesOK
<1>4. Reflected(t.list, Func.blocks[cur_block], cur_inst - 1, bb_automata[cur_block])
  BY <1>2, <1>3, CurrentReflected, ReflectedGrows
<1>5. ASSUME NEW j \in 1..Len(insts)
      PROVE  t.nums[j] \in Nat /\ Means(t.list, t.nums[j], insts[j])
  <2> DEFINE e == <<thread_name, insts[j], t.nums[j]>>
  <2>1. e \in t.map /\ t.nums[j] \in Nat
    BY <1>2
  <2>2. e[3] < Len(t.list) /\ t.list[e[3] + 1] = e[2]
    BY <1>2, <2>1 DEF TablesOK
  <2>3. e[3] = t.nums[j] /\ e[2] = insts[j]
    OBVIOUS
  <2> HIDE DEF e
  <2>4. t.nums[j] \in 0..(Len(t.list) - 1) /\ t.list[t.nums[j] + 1] = insts[j]
    BY <1>3, <2>1, <2>2, <2>3
  <2> QED
    BY <2>1, <2>4 DEF Means
<1> QED
  BY <1>1, <1>2, <1>3, <1>4, <1>5

-----------------------------------------------------------------------------
\* A call.
LEMMA ParseCallPaths ==
    ASSUME IInvParse, IInvPaths, ParseCall
    PROVE  IInvPaths'
<1> DEFINE bb == bb_automata[cur_block]
           nb == [bb EXCEPT !.is_accepting = TRUE]
           insts == Func.blocks[cur_block]
<1>1. InBlock /\ Inst.op = "Call" /\ Advance /\ UNCHANGED <<inst_list_, inst_map_>>
  BY DEF ParseCall
<1>2. bb \in BasicBlock
  BY <1>1, CurrentBlock
<1>3. /\ inst_list_ \in Seq(Instr) /\ Reflected(inst_list_, insts, cur_inst - 1, bb)
      /\ cur_inst \in Nat \ {0} /\ Inst = insts[cur_inst]
  BY <1>1, CurrentReflected
<1>4. bb_automata' = [bb_automata EXCEPT ![cur_block] = nb]
  BY DEF ParseCall
<1>5. /\ nb \in BasicBlock /\ nb.is_accepting = TRUE /\ nb.has_branch = bb.has_branch
      /\ nb.has_phi = bb.has_phi
      /\ nb.inst = bb.inst /\ nb.branch_map = bb.branch_map /\ nb.phi_map = bb.phi_map
  BY <1>2 DEF BasicBlock
<1> HIDE DEF nb, bb, insts
<1>6. insts[cur_inst].op = "Call" /\ ~Plain(insts[cur_inst]) /\ ~Leaves(insts[cur_inst])
  BY <1>1, <1>3 DEF Plain, Leaves
<1>7. MarksMatch(insts, cur_inst, nb)
  <2>1. MarksMatch(insts, cur_inst - 1, bb)
    BY <1>3 DEF Reflected
  <2> QED
    BY <1>2, <1>3, <1>5, <1>6, <2>1, MarksNext
<1>8. InstsMatch(inst_list_, insts, cur_inst, nb)
  BY <1>3, <1>5, <1>6, InstsKept DEF Reflected
<1>9. BranchesMatch(inst_list_, insts, cur_inst, nb)
  BY <1>3, <1>5, <1>6, BranchesKept DEF Reflected
<1>10. PhisMatch(inst_list_, insts, cur_inst, nb)
  BY <1>3, <1>5, <1>6, PhisKept DEF Reflected
<1>11. Reflected(inst_list_', insts, cur_inst, nb)
  BY <1>1, <1>7, <1>8, <1>9, <1>10 DEF Reflected
<1>12. Grows(inst_list_, inst_map_, inst_list_', inst_map_') /\ inst_list_' \in Seq(Instr)
  BY <1>1, <1>3, GrowsStutter
<1> QED
  BY <1>1, <1>4, <1>11, <1>12, PathsStep DEF insts

\* What is skipped.
LEMMA SkipInstPaths ==
    ASSUME IInvParse, IInvPaths, SkipInst
    PROVE  IInvPaths'
<1> DEFINE bb == bb_automata[cur_block]
           insts == Func.blocks[cur_block]
<1>1. /\ InBlock /\ Inst.op = "Other" /\ Advance
      /\ UNCHANGED <<bb_automata, inst_list_, inst_map_>>
  BY DEF SkipInst
<1>2. bb \in BasicBlock /\ bb_automata \in Seq(BasicBlock) /\ cur_block \in 1..Len(bb_automata)
  BY <1>1, CurrentBlock DEF IInvParse, ParseTypes
<1>3. /\ inst_list_ \in Seq(Instr) /\ Reflected(inst_list_, insts, cur_inst - 1, bb)
      /\ cur_inst \in Nat \ {0} /\ Inst = insts[cur_inst]
  BY <1>1, CurrentReflected
<1>4. bb_automata' = [bb_automata EXCEPT ![cur_block] = bb]
  BY <1>1, <1>2
<1> HIDE DEF bb, insts
<1>6. insts[cur_inst].op = "Other" /\ ~Plain(insts[cur_inst]) /\ ~Leaves(insts[cur_inst])
  BY <1>1, <1>3 DEF Plain, Leaves
<1>7. MarksMatch(insts, cur_inst, bb)
  <2>1. MarksMatch(insts, cur_inst - 1, bb)
    BY <1>3 DEF Reflected
  <2> QED
    BY <1>2, <1>3, <1>6, <2>1, MarksNext
<1>8. InstsMatch(inst_list_, insts, cur_inst, bb)
  BY <1>3, <1>6, InstsKept DEF Reflected
<1>9. BranchesMatch(inst_list_, insts, cur_inst, bb)
  BY <1>3, <1>6, BranchesKept DEF Reflected
<1>10. PhisMatch(inst_list_, insts, cur_inst, bb)
  BY <1>3, <1>6, PhisKept DEF Reflected
<1>11. Reflected(inst_list_', insts, cur_inst, bb)
  BY <1>1, <1>7, <1>8, <1>9, <1>10 DEF Reflected
<1>12. Grows(inst_list_, inst_map_, inst_list_', inst_map_') /\ inst_list_' \in Seq(Instr)
  BY <1>1, <1>3, GrowsStutter
<1> QED
  BY <1>1, <1>4, <1>11, <1>12, PathsStep DEF insts

\* An assignment or a compare-and-swap.
LEMMA OneInstPaths ==
    ASSUME IInvParse, IInvPaths, InBlock, Advance, Plain(Inst), NEW t \in Numbered(<<Meaning(Inst)>>),
           Meaning(Inst) \in Instr, SetTables(t),
           bb_automata' = [bb_automata EXCEPT ![cur_block].inst = Append(@, t.nums[1])]
    PROVE  IInvPaths'
<1> DEFINE bb == bb_automata[cur_block]
           nb == [bb EXCEPT !.inst = Append(@, t.nums[1])]
           insts == Func.blocks[cur_block]
           new == <<Meaning(Inst)>>
           list == inst_list_'
<1>1. bb \in BasicBlock /\ BlockOK(bb, Len(bb_automata))
  BY CurrentBlock
<1>2. cur_inst \in Nat \ {0} /\ Inst = insts[cur_inst]
  BY CurrentReflected
<1>3. new \in Seq(Instr) /\ 1 \in 1..Len(new) /\ new[1] = Meaning(Inst)
  OBVIOUS
<1>4. bb_automata' = [bb_automata EXCEPT ![cur_block] = nb]
  OBVIOUS
<1> HIDE DEF new
<1>5. /\ list \in Seq(Instr) /\ Grows(inst_list_, inst_map_, inst_list_', inst_map_')
      /\ Reflected(list, insts, cur_inst - 1, bb)
      /\ t.nums[1] \in Nat /\ Means(list, t.nums[1], Meaning(Inst))
  <2>1. t \in Numbered(new)
    BY DEF new
  <2> QED
    BY <1>3, <2>1, NumberedReflected
<1>6. bb.inst \in Seq(Nat)
  BY <1>1 DEF BasicBlock
<1> HIDE DEF bb
<1>7. /\ nb.inst = Append(bb.inst, t.nums[1]) /\ nb.branch_map = bb.branch_map
      /\ nb.is_accepting = bb.is_accepting /\ nb.has_branch = bb.has_branch
      /\ nb.phi_map = bb.phi_map /\ nb.has_phi = bb.has_phi /\ nb \in BasicBlock
  <2>1. Append(bb.inst, t.nums[1]) \in Seq(Nat)
    BY <1>5, <1>6
  <2> QED
    BY <1>1, <2>1 DEF BasicBlock
<1>8. /\ Plain(insts[cur_inst]) /\ ~Leaves(insts[cur_inst])
      /\ insts[cur_inst].op # "Call" /\ insts[cur_inst].op # "PHI"
  BY <1>2 DEF Plain, Leaves
<1> HIDE DEF nb, insts, list
<1>9. MarksMatch(insts, cur_inst, nb)
  <2>1. MarksMatch(insts, cur_inst - 1, bb)
    BY <1>5 DEF Reflected
  <2> QED
    BY <1>1, <1>2, <1>7, <1>8, <2>1, MarksNext
<1>10. InstsMatch(list, insts, cur_inst, nb)
  <2>1. InstsMatch(list, insts, cur_inst - 1, bb)
    BY <1>5 DEF Reflected
  <2> QED
    BY <1>2, <1>5, <1>6, <1>7, <1>8, <2>1, InstsAdded
<1>11. BranchesMatch(list, insts, cur_inst, nb)
  BY <1>2, <1>5, <1>7, <1>8, BranchesKept DEF Reflected
<1>12. PhisMatch(list, insts, cur_inst, nb)
  BY <1>2, <1>5, <1>7, <1>8, PhisKept DEF Reflected
<1>13. Reflected(list, insts, cur_inst, nb)
  BY <1>9, <1>10, <1>11, <1>12 DEF Reflected
<1> QED
  BY <1>4, <1>5, <1>13, PathsStep DEF insts, list

\* An assignment.
LEMMA ParseAssignPaths ==
    ASSUME IInvParse, IInvPaths, ParseAssign
    PROVE  IInvPaths'
<1>1. InBlock /\ Inst.op = "Assign" /\ Advance
  BY DEF ParseAssign
<1>2. Meaning(Inst) = Assign(Inst.expr) /\ Plain(Inst)
  BY <1>1 DEF Meaning, Plain
<1>3. PICK t \in Numbered(<<Meaning(Inst)>>) :
         /\ bb_automata' = [bb_automata EXCEPT ![cur_block].inst = Append(@, t.nums[1])]
         /\ SetTables(t)
  BY <1>2 DEF ParseAssign
<1>4. Assign(Inst.expr) \in Instr
  BY <1>1, CurrentBlock, InstructionFields, InstrTypes
<1> QED
  BY <1>1, <1>2, <1>3, <1>4, OneInstPaths

\* A compare-and-swap.
LEMMA ParseAtomicCmpXchgPaths ==
    ASSUME IInvParse, IInvPaths, ParseAtomicCmpXchg
    PROVE  IInvPaths'
<1>1. InBlock /\ Inst.op = "AtomicCmpXchg" /\ Advance
  BY DEF ParseAtomicCmpXchg
<1>2. Meaning(Inst) = Cas(Inst.expr) /\ Plain(Inst)
  BY <1>1 DEF Meaning, Plain
<1>3. PICK t \in Numbered(<<Meaning(Inst)>>) :
         /\ bb_automata' = [bb_automata EXCEPT ![cur_block].inst = Append(@, t.nums[1])]
         /\ SetTables(t)
  BY <1>2 DEF ParseAtomicCmpXchg
<1>4. Cas(Inst.expr) \in Instr
  BY <1>1, CurrentBlock, InstructionFields, InstrTypes
<1> QED
  BY <1>1, <1>2, <1>3, <1>4, OneInstPaths

\* The pairs an instruction that leaves the block adds are those of its exits.
PairsMatch(list, inst, pairs) ==
    /\ \A p \in pairs : \E x \in Exits(inst) : Means(list, p[1], x[1]) /\ p[2] = x[2]
    /\ \A x \in Exits(inst) : \E p \in pairs : Means(list, p[1], x[1]) /\ p[2] = x[2]

\* An instruction that leaves the block.
LEMMA BranchesPaths ==
    ASSUME IInvParse, IInvPaths, InBlock, Advance, Leaves(Inst),
           NEW new \in Seq(Instr), NEW t \in Numbered(new), SetTables(t),
           NEW pairs, PairsMatch(inst_list_', Inst, pairs),
           bb_automata' = [bb_automata EXCEPT ![cur_block] = AddBranches(@, pairs)],
           pairs \subseteq Nat \X Nat
    PROVE  IInvPaths'
<1> DEFINE bb == bb_automata[cur_block]
           nb == AddBranches(bb, pairs)
           insts == Func.blocks[cur_block]
           list == inst_list_'
<1>1. bb \in BasicBlock
  BY CurrentBlock
<1>2. cur_inst \in Nat \ {0} /\ Inst = insts[cur_inst]
  BY CurrentReflected
<1>3. /\ list \in Seq(Instr) /\ Grows(inst_list_, inst_map_, inst_list_', inst_map_')
      /\ Reflected(list, insts, cur_inst - 1, bb)
  BY NumberedReflected
<1>4. bb_automata' = [bb_automata EXCEPT ![cur_block] = nb]
  OBVIOUS
<1> HIDE DEF bb
<1>5. /\ nb.has_branch = TRUE
      /\ nb.branch_map = bb.branch_map \cup {p \in pairs : \A e \in bb.branch_map : e[1] # p[1]}
      /\ nb.is_accepting = bb.is_accepting /\ nb.inst = bb.inst /\ nb.phi_map = bb.phi_map
      /\ nb.has_phi = bb.has_phi /\ nb \in BasicBlock
  BY <1>1 DEF AddBranches, BasicBlock
<1>6. /\ ~Plain(insts[cur_inst]) /\ Leaves(insts[cur_inst])
      /\ insts[cur_inst].op # "Call" /\ insts[cur_inst].op # "PHI"
  BY <1>2 DEF Plain, Leaves
<1>7. PairsMatch(list, insts[cur_inst], pairs)
  BY <1>2
<1> HIDE DEF nb, insts, list
<1>9. MarksMatch(insts, cur_inst, nb)
  <2>1. MarksMatch(insts, cur_inst - 1, bb)
    BY <1>3 DEF Reflected
  <2> QED
    BY <1>1, <1>2, <1>5, <1>6, <2>1, MarksNext
<1>10. InstsMatch(list, insts, cur_inst, nb)
  BY <1>2, <1>3, <1>5, <1>6, InstsKept DEF Reflected
<1>11. BranchesMatch(list, insts, cur_inst, nb)
  <2>1. BranchesMatch(list, insts, cur_inst - 1, bb)
    BY <1>3 DEF Reflected
  <2> QED
    BY <1>2, <1>5, <1>7, <2>1, BranchesAdded DEF PairsMatch
<1>12. PhisMatch(list, insts, cur_inst, nb)
  BY <1>2, <1>3, <1>5, <1>6, PhisKept DEF Reflected
<1>13. Reflected(list, insts, cur_inst, nb)
  BY <1>9, <1>10, <1>11, <1>12 DEF Reflected
<1> QED
  BY <1>3, <1>4, <1>13, PathsStep DEF insts, list

\* A return.
LEMMA ParseRetPaths ==
    ASSUME IInvParse, IInvPaths, ParseRet
    PROVE  IInvPaths'
<1> DEFINE new == <<AssumeTrue>>
           pairs(t) == {<<t.nums[1], 1>>}
<1>1. InBlock /\ Inst.op = "Ret" /\ Advance
  BY DEF ParseRet
<1>2. PICK t \in Numbered(new) :
         /\ bb_automata' = [bb_automata EXCEPT ![cur_block] = AddBranches(@, pairs(t))]
         /\ SetTables(t)
  BY DEF ParseRet
<1>3. new \in Seq(Instr) /\ 1 \in 1..Len(new) /\ new[1] = AssumeTrue
  BY InstrTypes
<1> HIDE DEF new
<1>4. t.nums[1] \in Nat /\ Means(inst_list_', t.nums[1], AssumeTrue)
  BY <1>1, <1>2, <1>3, NumberedReflected
<1>5. Exits(Inst) = {<<AssumeTrue, 1>>} /\ Leaves(Inst)
  BY <1>1 DEF Exits, Leaves
<1>6. PairsMatch(inst_list_', Inst, pairs(t)) /\ pairs(t) \subseteq Nat \X Nat
  <2> HIDE DEF Exits, Means
  <2> QED
    BY <1>4, <1>5 DEF PairsMatch
<1> HIDE DEF pairs
<1> QED
  BY <1>1, <1>2, <1>3, <1>5, <1>6, BranchesPaths

\* A branch.
LEMMA ParseBrPaths ==
    ASSUME IInvParse, IInvPaths, ParseBr
    PROVE  IInvPaths'
<1> DEFINE new == <<AssumeTrue>>
           pairs(t) == {<<t.nums[1], Inst.target>>}
<1>1. InBlock /\ Inst.op = "Br" /\ Advance
  BY DEF ParseBr
<1>2. PICK t \in Numbered(new) :
         /\ bb_automata' = [bb_automata EXCEPT ![cur_block] = AddBranches(@, pairs(t))]
         /\ SetTables(t)
  BY DEF ParseBr
<1>3. new \in Seq(Instr) /\ 1 \in 1..Len(new) /\ new[1] = AssumeTrue
  BY InstrTypes
<1> HIDE DEF new
<1>4. t.nums[1] \in Nat /\ Means(inst_list_', t.nums[1], AssumeTrue)
  BY <1>1, <1>2, <1>3, NumberedReflected
<1>5. Exits(Inst) = {<<AssumeTrue, Inst.target>>} /\ Leaves(Inst)
  BY <1>1 DEF Exits, Leaves
<1>6. Inst.target \in Nat
  BY <1>1, CurrentBlock, InstructionFields
<1>7. PairsMatch(inst_list_', Inst, pairs(t)) /\ pairs(t) \subseteq Nat \X Nat
  <2> HIDE DEF Exits, Means
  <2> QED
    BY <1>4, <1>5, <1>6 DEF PairsMatch
<1> HIDE DEF pairs
<1> QED
  BY <1>1, <1>2, <1>3, <1>5, <1>7, BranchesPaths

\* A conditional branch.
LEMMA ParseCondBrPaths ==
    ASSUME IInvParse, IInvPaths, ParseCondBr
    PROVE  IInvPaths'
<1> DEFINE i1 == Assume(Inst.cond, TRUE)
           i2 == Assume(Inst.cond, FALSE)
           new == <<i1, i2>>
           pairs(t) == {<<t.nums[1], Inst.then>>, <<t.nums[2], Inst.else>>}
<1>1. InBlock /\ Inst.op = "CondBr" /\ Advance
  BY DEF ParseCondBr
<1>2. PICK t \in Numbered(new) :
         /\ bb_automata' = [bb_automata EXCEPT ![cur_block] = AddBranches(@, pairs(t))]
         /\ SetTables(t)
  BY DEF ParseCondBr
<1>3. Inst.cond \in Expr /\ Inst.then \in Nat /\ Inst.else \in Nat
  BY <1>1, CurrentBlock, InstructionFields
<1>4. /\ new \in Seq(Instr) /\ 1 \in 1..Len(new) /\ 2 \in 1..Len(new)
      /\ new[1] = i1 /\ new[2] = i2
  <2>1. i1 \in Instr /\ i2 \in Instr
    BY <1>3, InstrTypes
  <2> HIDE DEF i1, i2
  <2> QED
    BY <2>1
<1>5. Exits(Inst) = {<<i1, Inst.then>>, <<i2, Inst.else>>} /\ Leaves(Inst)
  BY <1>1 DEF Exits, Leaves
<1> HIDE DEF new, i1, i2
<1>6. /\ t.nums[1] \in Nat /\ Means(inst_list_', t.nums[1], i1)
      /\ t.nums[2] \in Nat /\ Means(inst_list_', t.nums[2], i2)
  BY <1>1, <1>2, <1>4, NumberedReflected
<1>7. PairsMatch(inst_list_', Inst, pairs(t)) /\ pairs(t) \subseteq Nat \X Nat
  <2> HIDE DEF Exits, Means
  <2> QED
    BY <1>3, <1>5, <1>6 DEF PairsMatch
<1> HIDE DEF pairs
<1> QED
  BY <1>1, <1>2, <1>4, <1>5, <1>7, BranchesPaths

\* A PHI node.
LEMMA ParsePHIPaths ==
    ASSUME IInvParse, IInvPaths, ParsePHI
    PROVE  IInvPaths'
<1> DEFINE bb == bb_automata[cur_block]
           insts == Func.blocks[cur_block]
           inc == Inst.incoming
           asgs == [i \in DOMAIN inc |-> Assign(inc[i].expr)]
           list == inst_list_'
<1>1. InBlock /\ Inst.op = "PHI" /\ Advance
  BY DEF ParsePHI
<1>2. PICK t \in Numbered(asgs) :
         /\ LET new == {<<inc[i].block, t.nums[i]>> : i \in DOMAIN inc}
            IN  bb_automata' =
                   [bb_automata EXCEPT ![cur_block].has_phi = TRUE,
                       ![cur_block].phi_map =
                           @ \cup {p \in new : p[1] \notin {q[1] : q \in @}}]
         /\ SetTables(t)
  BY DEF ParsePHI
<1> DEFINE new == {<<inc[i].block, t.nums[i]>> : i \in DOMAIN inc}
           added == {p \in new : p[1] \notin {q[1] : q \in bb.phi_map}}
           nb == [bb EXCEPT !.has_phi = TRUE, !.phi_map = @ \cup added]
<1>3. inc \in Seq([block : Nat, expr : Expr])
  BY <1>1, CurrentBlock, InstructionFields
<1>4. \A i \in DOMAIN inc : inc[i].block \in Nat /\ inc[i].expr \in Expr
  <2>1. \A i \in DOMAIN inc : inc[i] \in [block : Nat, expr : Expr]
    <3>1. ASSUME NEW R, inc \in Seq(R), NEW i \in DOMAIN inc
          PROVE  inc[i] \in R
      <4> HIDE DEF inc
      <4> QED
        BY <3>1
    <3> QED
      BY <1>3, <3>1
  <2> QED
    BY <2>1
<1>5. DOMAIN inc = 1..Len(inc) /\ Len(inc) \in Nat
  BY <1>3
<1>6. asgs \in Seq(Instr) /\ Len(asgs) = Len(inc) /\ \A i \in 1..Len(inc) : asgs[i] = Assign(inc[i].expr)
  <2>1. \A i \in DOMAIN inc : Assign(inc[i].expr) \in Instr
    BY <1>4, InstrTypes
  <2>2. asgs \in [1..Len(inc) -> Instr]
    BY <1>5, <2>1
  <2> QED
    BY <1>5, <2>2
<1>7. bb \in BasicBlock
  BY <1>1, CurrentBlock
<1>8. cur_inst \in Nat \ {0} /\ Inst = insts[cur_inst]
  BY <1>1, CurrentReflected
<1>9. bb_automata' = [bb_automata EXCEPT ![cur_block] = nb]
  BY <1>2
<1> HIDE DEF asgs
<1>10. /\ list \in Seq(Instr) /\ Grows(inst_list_, inst_map_, inst_list_', inst_map_')
       /\ Reflected(list, insts, cur_inst - 1, bb)
       /\ \A i \in 1..Len(inc) : t.nums[i] \in Nat /\ Means(list, t.nums[i], Assign(inc[i].expr))
  BY <1>1, <1>2, <1>6, NumberedReflected
<1>11. Arrivals(Inst) = {<<inc[i].block, Assign(inc[i].expr)>> : i \in DOMAIN inc}
  BY <1>1 DEF Arrivals
<1>12. \A p \in new : \E x \in Arrivals(Inst) : p[1] = x[1] /\ Means(list, p[2], x[2])
  <2>1. ASSUME NEW i \in DOMAIN inc
        PROVE  \E x \in Arrivals(Inst) : inc[i].block = x[1] /\ Means(list, t.nums[i], x[2])
    <3>1. <<inc[i].block, Assign(inc[i].expr)>> \in Arrivals(Inst)
      BY <1>11
    <3>2. Means(list, t.nums[i], Assign(inc[i].expr))
      BY <1>5, <1>10
    <3> QED
      BY <3>1, <3>2
  <2> QED
    BY <2>1
<1>13. \A x \in Arrivals(Inst) : \E p \in new : p[1] = x[1]
  <2>1. ASSUME NEW i \in DOMAIN inc
        PROVE  \E p \in new : p[1] = inc[i].block
    <3>1. <<inc[i].block, t.nums[i]>> \in new
      OBVIOUS
    <3> QED
      BY <3>1
  <2> HIDE DEF new
  <2> QED
    BY <1>11, <2>1
<1>14. new \subseteq Nat \X Nat
  BY <1>4, <1>5, <1>10
<1> HIDE DEF bb, new, inc
<1>15. /\ nb.inst = bb.inst /\ nb.branch_map = bb.branch_map
       /\ nb.phi_map = bb.phi_map \cup added /\ nb.has_phi = TRUE
       /\ nb.is_accepting = bb.is_accepting /\ nb.has_branch = bb.has_branch
       /\ nb \in BasicBlock
  BY <1>7, <1>14 DEF BasicBlock
<1>16. /\ ~Plain(insts[cur_inst]) /\ ~Leaves(insts[cur_inst]) /\ insts[cur_inst].op = "PHI"
  BY <1>1, <1>8 DEF Plain, Leaves
<1>17. /\ \A p \in new : \E x \in Arrivals(insts[cur_inst]) : p[1] = x[1] /\ Means(list, p[2], x[2])
       /\ \A x \in Arrivals(insts[cur_inst]) : \E p \in new : p[1] = x[1]
  BY <1>8, <1>12, <1>13
<1>18. nb.phi_map = bb.phi_map \cup {p \in new : p[1] \notin {q[1] : q \in bb.phi_map}}
  BY <1>15
<1> HIDE DEF nb, insts, list, added
<1>19. MarksMatch(insts, cur_inst, nb)
  <2>1. MarksMatch(insts, cur_inst - 1, bb)
    BY <1>10 DEF Reflected
  <2> QED
    BY <1>7, <1>8, <1>15, <1>16, <2>1, MarksNext
<1>20. InstsMatch(list, insts, cur_inst, nb)
  BY <1>8, <1>10, <1>15, <1>16, InstsKept DEF Reflected
<1>21. BranchesMatch(list, insts, cur_inst, nb)
  BY <1>8, <1>10, <1>15, <1>16, BranchesKept DEF Reflected
<1>22. PhisMatch(list, insts, cur_inst, nb)
  <2>1. PhisMatch(list, insts, cur_inst - 1, bb)
    BY <1>10 DEF Reflected
  <2> QED
    BY <1>8, <1>17, <1>18, <2>1, PhisAdded
<1>23. Reflected(list, insts, cur_inst, nb)
  BY <1>19, <1>20, <1>21, <1>22 DEF Reflected
<1> QED
  BY <1>1, <1>9, <1>10, <1>23, PathsStep DEF insts, list

\* A block that has not been looked at.
LEMMA EmptyReflected ==
    ASSUME NEW list, NEW insts
    PROVE  Reflected(list, insts, 0, EmptyBlock)
<1>1. /\ EmptyBlock.has_phi = FALSE /\ EmptyBlock.has_branch = FALSE
      /\ EmptyBlock.is_accepting = FALSE /\ EmptyBlock.inst = <<>>
      /\ EmptyBlock.branch_map = {} /\ EmptyBlock.phi_map = {}
  BY DEF EmptyBlock
<1>2. PlainCount(insts, 0) = 0
  <2>1. PlainUpTo(insts, 0) = {}
    BY DEF PlainUpTo
  <2> QED
    BY <2>1, FS_EmptySet DEF PlainCount
<1>3. 1..0 = {}
  OBVIOUS
<1> QED
  BY <1>1, <1>2, <1>3 DEF Reflected, MarksMatch, InstsMatch, BranchesMatch, PhisMatch

\* The next function.
LEMMA NextFunctionPaths ==
    ASSUME IInvParse, IInvPaths, NextFunction
    PROVE  IInvPaths'
<1> DEFINE k == cur_func + 1
           f == module[k]
           n == Len(thread_names_)
<1>1. /\ bb_automata = <<>> /\ cur_func < Len(module) /\ cur_func' = k
      /\ cur_block' = 1 /\ cur_inst' = 1
      /\ UNCHANGED <<module, inst_list_, inst_map_, thread_graphs_>>
  BY DEF NextFunction
<1>2. /\ module \in Modules /\ cur_func \in 0..(Len(module) + 1)
      /\ thread_names_ \in Seq(Name) /\ inst_list_ \in Seq(Instr)
      /\ Len(thread_names_) = Len(thread_graphs_)
  BY <1>1 DEF IInvParse, ParseTypes, TablesOK, ParseNames
<1>3. /\ Len(module) \in Nat /\ k \in 1..Len(module)
      /\ f.name \in Name /\ f.blocks \in Seq(Seq(Instruction)) /\ Len(f.blocks) \in Nat \ {0}
  <2>1. Len(module) \in Nat
    BY <1>2, ModuleType
  <2>2. k \in 1..Len(module)
    BY <1>1, <1>2, <2>1
  <2> QED
    BY <1>2, <2>1, <2>2, ModuleType
<1>4. Grows(inst_list_, inst_map_, inst_list_', inst_map_') /\ inst_list_' \in Seq(Instr)
  BY <1>1, <1>2, GrowsStutter
<1>5. CASE f.name = "__ASSERT"
  <2>1. thread_names_' = thread_names_ /\ bb_automata' = <<>>
    BY <1>1, <1>5 DEF NextFunction
  <2>2. PathsGraphs'
    BY <1>1, <1>2, <1>4, <2>1, PathsGraphsStay DEF IInvPaths
  <2> QED
    BY <2>1, <2>2 DEF IInvPaths, PathsBlocks, PathsNames
<1>6. CASE f.name # "__ASSERT"
  <2> DEFINE BB == [b \in 1..Len(f.blocks) |-> EmptyBlock]
             names == Append(thread_names_, f.name)
  <2>1. thread_names_' = names /\ bb_automata' = BB
    BY <1>6 DEF NextFunction
  <2>2. Len(BB) = Len(f.blocks) /\ \A b \in 1..Len(BB) : BB[b] = EmptyBlock
    <3>1. BB \in [1..Len(f.blocks) -> {EmptyBlock}]
      OBVIOUS
    <3>2. Len(BB) = Len(f.blocks)
      BY <1>3, <3>1
    <3> QED
      BY <3>1, <3>2
  <2>3. /\ n \in Nat /\ Len(names) = n + 1 /\ names[n + 1] = f.name
        /\ \A i \in 1..n : names[i] = thread_names_[i]
    BY <1>2, <1>3
  <2> HIDE DEF BB, names, n
  <2>4. Func' = f
    BY <1>1 DEF Func
  <2>5. PathsBlocks'
    <3>1. ASSUME NEW b \in 1..Len(BB)
          PROVE  Reflected(inst_list_', f.blocks[b], Handled(f, 1, 1, b), BB[b])
      <4>1. Handled(f, 1, 1, b) = 0
        BY DEF Handled
      <4> QED
        BY <2>2, <4>1, EmptyReflected
    <3> QED
      BY <1>1, <2>1, <2>4, <3>1 DEF PathsBlocks
  <2>6. PathsNames'
    <3>1. ASSUME NEW i \in 1..(n + 1)
          PROVE  names[i] # "__ASSERT"
      <4>1. CASE i = n + 1
        BY <1>6, <2>3, <4>1
      <4>2. CASE i \in 1..n
        BY <2>3, <4>2 DEF IInvPaths, PathsNames, n
      <4> QED
        BY <2>3, <4>1, <4>2
    <3> QED
      BY <2>1, <2>3, <3>1 DEF PathsNames
  <2>7. PathsGraphs'
    <3>1. \A i \in 1..Len(thread_graphs_) : thread_names_'[i] = thread_names_[i]
      BY <1>2, <2>1, <2>3 DEF n
    <3> QED
      BY <1>1, <1>2, <1>4, <3>1, PathsGraphsStay DEF IInvPaths
  <2> QED
    BY <2>5, <2>6, <2>7 DEF IInvPaths
<1> QED
  BY <1>5, <1>6

\* The next block.
LEMMA NextBlockPaths ==
    ASSUME IInvParse, IInvPaths, NextBlock
    PROVE  IInvPaths'
<1>1. /\ bb_automata # <<>> /\ cur_block \in Blocks
      /\ cur_inst > Len(Func.blocks[cur_block])
      /\ cur_block' = cur_block + 1 /\ cur_inst' = 1
      /\ UNCHANGED <<module, cur_func, bb_automata, inst_list_, inst_map_, thread_names_, thread_graphs_>>
  BY DEF NextBlock
<1>2. /\ module \in Modules /\ inst_list_ \in Seq(Instr) /\ bb_automata \in Seq(BasicBlock)
      /\ cur_block \in Nat \ {0} /\ cur_inst \in Nat \ {0}
  BY DEF IInvParse, ParseTypes, TablesOK
<1>3. /\ cur_func \in 1..Len(module) /\ Len(bb_automata) = Len(Func.blocks)
      /\ cur_block <= Len(bb_automata) => cur_inst <= Len(Func.blocks[cur_block]) + 1
  BY <1>1 DEF IInvParse, ParseBlocks
<1>4. /\ Func.blocks \in Seq(Seq(Instruction))
      /\ \A b \in 1..Len(Func.blocks) : Func.blocks[b] \in Seq(Instruction)
  BY <1>2, <1>3, ModuleType DEF Func
<1>5. Func' = Func
  BY <1>1 DEF Func
<1>6. cur_block \in 1..Len(bb_automata)
  BY <1>1, <1>3, <1>4 DEF Blocks
<1>7. cur_inst - 1 = Len(Func.blocks[cur_block])
  <2>1. Len(Func.blocks[cur_block]) \in Nat
    BY <1>3, <1>4, <1>6
  <2> QED
    BY <1>1, <1>2, <1>3, <1>6, <2>1
<1>8. PathsBlocks'
  <2>1. ASSUME NEW b \in 1..Len(bb_automata)
        PROVE  Reflected(inst_list_, Func.blocks[b], Handled(Func, cur_block + 1, 1, b), bb_automata[b])
    <3>1. Handled(Func, cur_block + 1, 1, b) = Handled(Func, cur_block, cur_inst, b)
      BY <1>2, <1>7 DEF Handled
    <3> QED
      BY <1>1, <3>1 DEF IInvPaths, PathsBlocks
  <2> QED
    BY <1>1, <1>5, <2>1 DEF PathsBlocks
<1>9. PathsNames' /\ PathsGraphs'
  BY <1>1 DEF IInvPaths, PathsNames, PathsGraphs
<1> QED
  BY <1>8, <1>9 DEF IInvPaths

\* The graph of a function reflects it.
LEMMA FinishThreadPaths ==
    ASSUME IInvParse, IInvPaths, FinishThread
    PROVE  IInvPaths'
<1> DEFINE BB == bb_automata
           n == Len(inst_list_)
           g == WithAssertion(BB, n)
           list == Append(inst_list_, AssumeTrue)
           map == inst_map_ \cup {<<thread_name, AssumeTrue, n>>}
           graphs == Append(thread_graphs_, g)
           m == Len(thread_graphs_)
<1>1. /\ BB # <<>> /\ cur_block \notin Blocks /\ BB' = <<>>
      /\ UNCHANGED <<module, cur_func, cur_block, cur_inst, thread_names_, mAssnMap>>
      /\ thread_graphs_' = graphs
  BY DEF FinishThread, WithAssertion
<1>2. inst_list_' = list /\ inst_map_' = map
  BY DEF FinishThread, SetTables, Insert, Tables
<1>3. /\ module \in Modules /\ BB \in Seq(BasicBlock) /\ cur_block \in Nat \ {0}
      /\ inst_list_ \in Seq(Instr) /\ thread_graphs_ \in Seq(GraphType)
  BY DEF IInvParse, ParseTypes, TablesOK
<1>4. /\ cur_func \in 1..Len(module) /\ Len(BB) = Len(Func.blocks)
      /\ cur_block <= Len(BB) + 1
      /\ \A b \in 1..Len(BB) : BlockOK(BB[b], Len(BB))
  BY <1>1 DEF IInvParse, ParseBlocks
<1>5. /\ Func.blocks \in Seq(Seq(Instruction)) /\ Len(Func.blocks) \in Nat
      /\ \A i, j \in 1..Len(module) : module[i].name = module[j].name => i = j
  BY <1>3, <1>4, ModuleType DEF Func
<1>6. \A b \in 1..Len(BB) : b < cur_block
  BY <1>1, <1>3, <1>4, <1>5 DEF Blocks
<1>7. Len(thread_names_) = m + 1 /\ m \in Nat /\ thread_names_[m + 1] = thread_name
  BY <1>1, <1>3 DEF IInvParse, ParseNames
<1>8. BlocksOK(BB)
  BY <1>1, <1>3, <1>4 DEF BlocksOK
<1>9. n \in Nat /\ list \in Seq(Instr) /\ Len(list) = n + 1 /\ list[n + 1] = AssumeTrue
      /\ \A i \in 1..n : list[i] = inst_list_[i]
  BY <1>3, InstrTypes
<1>10. Grows(inst_list_, inst_map_, list, map)
  BY <1>9 DEF Grows
<1>11. Means(list, n, AssumeTrue)
  BY <1>9 DEF Means
<1> HIDE DEF list, map, n
<1>12. Mirrors(list, Func, BB)
  <2>1. ASSUME NEW b \in 1..Len(BB)
        PROVE  Reflected(list, Func.blocks[b], Len(Func.blocks[b]), BB[b])
    <3>1. Handled(Func, cur_block, cur_inst, b) = Len(Func.blocks[b])
      BY <1>6 DEF Handled
    <3>2. Reflected(inst_list_, Func.blocks[b], Len(Func.blocks[b]), BB[b])
      BY <1>1, <3>1 DEF IInvPaths, PathsBlocks
    <3> QED
      BY <1>3, <1>9, <1>10, <3>2, ReflectedGrows
  <2> QED
    BY <1>4, <1>8, <2>1 DEF Mirrors
<1>13. GraphOf(list, Func, g)
  BY <1>11, <1>12 DEF GraphOf
<1> HIDE DEF g
<1>14. /\ Len(graphs) = m + 1 /\ graphs[m + 1] = g
       /\ \A i \in 1..m : graphs[i] = thread_graphs_[i]
  BY <1>3
<1> HIDE DEF graphs, m
<1>15. ASSUME NEW i \in 1..(m + 1), NEW k \in 1..Len(module), module[k].name = thread_names_[i]
       PROVE  GraphOf(list, module[k], graphs[i])
  <2>1. CASE i = m + 1
    <3>1. module[k].name = module[cur_func].name
      BY <1>7, <1>15, <2>1 DEF thread_name, Func
    <3>2. module[k] = Func
      BY <1>4, <1>5, <3>1 DEF Func
    <3> QED
      BY <1>13, <1>14, <2>1, <3>2
  <2>2. CASE i \in 1..m
    <3>1. GraphOf(inst_list_, module[k], thread_graphs_[i])
      BY <1>15, <2>2 DEF IInvPaths, PathsGraphs, m
    <3> QED
      BY <1>3, <1>9, <1>10, <1>14, <2>2, <3>1, GraphOfGrows
  <2> QED
    BY <1>7, <2>1, <2>2
<1>16. PathsGraphs'
  BY <1>1, <1>2, <1>14, <1>15 DEF PathsGraphs
<1>17. PathsBlocks' /\ PathsNames'
  BY <1>1 DEF IInvPaths, PathsBlocks, PathsNames
<1> QED
  BY <1>16, <1>17 DEF IInvPaths

\* The end of the parsing.
LEMMA MakeOldInterfacePaths ==
    ASSUME IInvPaths, MakeOldInterface
    PROVE  IInvPaths'
<1>1. /\ bb_automata = <<>>
      /\ UNCHANGED <<module, bb_automata, inst_list_, inst_map_, thread_names_, thread_graphs_>>
  BY DEF MakeOldInterface
<1> QED
  BY <1>1 DEF IInvPaths, PathsBlocks, PathsNames, PathsGraphs

\* A step that is not the parser's.
LEMMA PathsStutter ==
    ASSUME IInvPaths, UNCHANGED <<module, parsing>>
    PROVE  IInvPaths'
<1>1. UNCHANGED <<module, cur_func, cur_block, cur_inst, bb_automata, inst_list_, thread_names_, thread_graphs_>>
  BY DEF parsing
<1>2. Func' = Func
  BY <1>1 DEF Func
<1> QED
  BY <1>1, <1>2 DEF IInvPaths, PathsBlocks, PathsNames, PathsGraphs

\* Every instruction gets its number, in every state of the construction.
LEMMA InductivePaths ==
    SpecSC => [](IInvSC /\ IInvPaths)
<1>1. InitSC => IInvSC /\ IInvPaths
  <2>1. InitSC => IInvSC
    BY SCInit
  <2>2. ASSUME InitSC
        PROVE  IInvPaths
    <3>1. bb_automata = <<>> /\ thread_names_ = <<>> /\ thread_graphs_ = <<>>
      BY <2>2 DEF InitSC, Init
    <3> QED
      BY <3>1 DEF IInvPaths, PathsBlocks, PathsNames, PathsGraphs
  <2> QED
    BY <2>1, <2>2
<1>2. IInvSC /\ IInvPaths /\ [NextSC]_scvars => IInvSC' /\ IInvPaths'
  <2>1. SUFFICES ASSUME IInvSC, IInvPaths, [NextSC]_scvars
                 PROVE  IInvPaths'
    BY StepSC
  <2>2. IInvParse
    BY <2>1 DEF IInvSC
  <2>3. CASE Parse
    BY <2>1, <2>2, <2>3, NextFunctionPaths, ParseCallPaths, ParseAssignPaths, ParseAtomicCmpXchgPaths,
       ParseRetPaths, ParseBrPaths, ParseCondBrPaths, ParsePHIPaths, SkipInstPaths, NextBlockPaths,
       FinishThreadPaths, MakeOldInterfacePaths
       DEF Parse, ParseNext
  <2>4. CASE UNCHANGED <<module, parsing>>
    BY <2>1, <2>4, PathsStutter
  <2>5. Parse \/ UNCHANGED <<module, parsing>>
    BY <2>1 DEF NextSC, CreateNext, ComposeNext, NoProcess, Mark, Reverse, Finished, scvars
  <2> QED
    BY <2>3, <2>4, <2>5
<1> QED
  BY <1>1, <1>2, PTL DEF SpecSC

\* The edges of a graph with its assertion.
LEMMA AssertedEdges ==
    ASSUME NEW BB, NEW n
    PROVE  WithAssertion(BB, n).edges = CreateAutGraph(BB).edges \cup {<<1, n, 2>>}
BY DEF WithAssertion, CreateAutGraph

\* The edges that leave a node of a block are edges of the block.
LEMMA EdgeOfBlock ==
    ASSUME NEW BB, BlocksOK(BB), NEW n, NEW b \in 1..Len(BB), Built(BB[b]), NEW e,
           Start(BB, b) <= e[1], e[1] < Stop(BB, b)
    PROVE  e \in WithAssertion(BB, n).edges <=> e \in BlockEdges(BB, b)
<1>1. e \in WithAssertion(BB, n).edges <=> e \in CreateAutGraph(BB).edges \/ e = <<1, n, 2>>
  BY AssertedEdges
<1>2. /\ Start(BB, b) \in Nat /\ 3 <= Start(BB, b) /\ Stop(BB, b) \in Nat
      /\ \A c, d \in 1..Len(BB) : c < d => Stop(BB, c) <= Start(BB, d)
      /\ Len(BB) \in Nat
  BY NodeRanges DEF BlocksOK
<1>3. ASSUME e \in CreateAutGraph(BB).edges
      PROVE  e \in BlockEdges(BB, b)
  <2>1. e # <<0, -1, first_nd(BB, 1)>>
    BY <1>2
  <2>2. PICK c \in 1..Len(BB) : Built(BB[c]) /\ e \in BlockEdges(BB, c)
    BY <1>3, <2>1, GraphEdges
  <2>3. e \in Nat \X Nat \X Nat /\ Start(BB, c) <= e[1] /\ e[1] < Stop(BB, c)
    BY <2>2, EdgeRange
  <2>4. Start(BB, c) \in Nat /\ Stop(BB, c) \in Nat /\ e[1] \in Nat
    BY <2>3, NodeRanges
  <2>5. ~(b < c) /\ ~(c < b)
    BY <1>2, <2>3, <2>4
  <2>6. b = c
    BY <1>2, <2>5
  <2> QED
    BY <2>2, <2>6
<1>4. e # <<1, n, 2>>
  BY <1>2
<1>5. ASSUME e \in BlockEdges(BB, b)
      PROVE  e \in CreateAutGraph(BB).edges
  BY <1>5 DEF CreateAutGraph
<1> QED
  BY <1>1, <1>3, <1>4, <1>5

EdgesAt(g, q) == {e \in g.edges : e[1] = q}

\* The edges before the first node of a block.
LEMMA EdgesAtPhi ==
    ASSUME NEW BB, BlocksOK(BB), NEW n, NEW b \in 1..Len(BB), Built(BB[b]),
           NEW from \in Incoming(BB[b])
    PROVE  EdgesAt(WithAssertion(BB, n), phi_nd(BB, b, from)) =
              {<<phi_nd(BB, b, from), p[2], first_nd(BB, b)>> : p \in {q \in BB[b].phi_map : q[1] = from}}
<1> DEFINE q0 == phi_nd(BB, b, from)
           first == first_nd(BB, b)
           last == last_nd(BB, b)
           R == {<<q0, p[2], first>> : p \in {q \in BB[b].phi_map : q[1] = from}}
<1>1. /\ BB[b] \in BasicBlock /\ IsFiniteSet(BB[b].phi_map) /\ Len(BB[b].inst) \in Nat
  BY SizeType DEF BlockOK
<1>2. Incoming(BB[b]) \subseteq Nat
  BY <1>1, IncomingFinite
<1>3. /\ first \in Nat /\ last \in Nat /\ last = first + Len(BB[b].inst) /\ last + 1 = Stop(BB, b)
      /\ first = Start(BB, b) + Cardinality(BB[b].phi_map)
  BY BuiltNodes
<1>4. ASSUME NEW f \in Incoming(BB[b])
      PROVE  /\ phi_nd(BB, b, f) \in Nat /\ Start(BB, b) <= phi_nd(BB, b, f) /\ phi_nd(BB, b, f) < first
             /\ \A h \in Nat : f < h => phi_nd(BB, b, f) < phi_nd(BB, b, h)
  BY <1>2, <1>3, PhiNodes
<1>5. q0 \in Nat /\ Start(BB, b) <= q0 /\ q0 < first /\ q0 < Stop(BB, b)
  BY <1>1, <1>3, <1>4
<1>6. ASSUME NEW f \in Incoming(BB[b]), phi_nd(BB, b, f) = q0
      PROVE  f = from
  <2>1. f \in Nat /\ from \in Nat
    BY <1>2
  <2>2. ~(f < from) /\ ~(from < f)
    BY <1>4, <1>5, <1>6, <2>1
  <2> QED
    BY <2>1, <2>2
<1>7. ASSUME NEW e, e[1] = q0
      PROVE  e \in WithAssertion(BB, n).edges <=> e \in BlockEdges(BB, b)
  BY <1>5, <1>7, EdgeOfBlock
<1>8. ASSUME NEW e \in BlockEdges(BB, b), e[1] = q0
      PROVE  e \in R
  <2>1. CASE \E p \in BB[b].phi_map : e = <<phi_nd(BB, b, p[1]), p[2], first>>
    <3>1. PICK p \in BB[b].phi_map : e = <<phi_nd(BB, b, p[1]), p[2], first>>
      BY <2>1
    <3>2. p[1] \in Incoming(BB[b]) /\ phi_nd(BB, b, p[1]) = q0
      BY <1>8, <3>1 DEF Incoming
    <3>3. p[1] = from
      BY <1>6, <3>2
    <3> QED
      BY <3>1, <3>3
  <2>2. CASE \E i \in DOMAIN BB[b].inst : e = <<first + i - 1, BB[b].inst[i], first + i>>
    <3>1. PICK i \in DOMAIN BB[b].inst : e = <<first + i - 1, BB[b].inst[i], first + i>>
      BY <2>2
    <3>2. i \in Nat /\ i >= 1
      BY <1>1 DEF BasicBlock
    <3>3. e[1] = first + i - 1
      BY <3>1
    <3> HIDE DEF q0, first
    <3> QED
      BY <1>3, <1>5, <1>8, <3>2, <3>3
  <2>3. CASE \E c \in BB[b].branch_map : e = <<last, c[1], Target(BB, b, c[2])>>
    <3>1. e[1] = last
      BY <2>3
    <3> HIDE DEF q0, first, last
    <3> QED
      BY <1>1, <1>3, <1>5, <1>8, <3>1
  <2> QED
    BY <2>1, <2>2, <2>3, BlockEdgeShape
<1>9. ASSUME NEW e \in R
      PROVE  e \in BlockEdges(BB, b) /\ e[1] = q0
  BY DEF BlockEdges
<1> QED
  BY <1>7, <1>8, <1>9 DEF EdgesAt

\* The edge of an instruction is the only one that leaves its node.
EdgeAlone(BB, n, b, i) ==
    EdgesAt(WithAssertion(BB, n), first_nd(BB, b) + i - 1) =
        {<<first_nd(BB, b) + i - 1, BB[b].inst[i], first_nd(BB, b) + i>>}

\* The edge of an instruction.
LEMMA EdgesAtInst ==
    ASSUME NEW BB, BlocksOK(BB), NEW n, NEW b \in 1..Len(BB), Built(BB[b]),
           NEW i \in 1..Len(BB[b].inst)
    PROVE  EdgeAlone(BB, n, b, i)
<1> DEFINE first == first_nd(BB, b)
           last == last_nd(BB, b)
           l == Len(BB[b].inst)
           q0 == first + i - 1
           e0 == <<q0, BB[b].inst[i], first + i>>
<1>1. /\ BB[b] \in BasicBlock /\ IsFiniteSet(BB[b].phi_map) /\ l \in Nat
  BY SizeType DEF BlockOK
<1>2. Incoming(BB[b]) \subseteq Nat
  BY <1>1, IncomingFinite
<1>3. /\ first \in Nat /\ last \in Nat /\ last = first + l /\ last + 1 = Stop(BB, b)
      /\ first = Start(BB, b) + Cardinality(BB[b].phi_map)
      /\ Start(BB, b) <= first /\ Start(BB, b) \in Nat
  BY BuiltNodes, NodeRanges
<1>4. DOMAIN BB[b].inst = 1..l
  BY <1>1 DEF BasicBlock
<1>5. i \in 1..l
  OBVIOUS
<1>6. q0 \in Nat /\ first <= q0 /\ q0 < last /\ Start(BB, b) <= q0 /\ q0 < Stop(BB, b)
  <2> HIDE DEF first, last, l
  <2> QED
    BY <1>1, <1>3, <1>5
<1>7. ASSUME NEW e, e[1] = q0
      PROVE  e \in WithAssertion(BB, n).edges <=> e \in BlockEdges(BB, b)
  BY <1>6, <1>7, EdgeOfBlock
<1>8. ASSUME NEW e \in BlockEdges(BB, b), e[1] = q0
      PROVE  e = e0
  <2>1. CASE \E p \in BB[b].phi_map : e = <<phi_nd(BB, b, p[1]), p[2], first>>
    <3>1. PICK p \in BB[b].phi_map : e = <<phi_nd(BB, b, p[1]), p[2], first>>
      BY <2>1
    <3>2. p[1] \in Incoming(BB[b]) /\ p[1] \in Nat
      BY <1>2 DEF Incoming
    <3>3. phi_nd(BB, b, p[1]) < first /\ phi_nd(BB, b, p[1]) \in Nat /\ e[1] = phi_nd(BB, b, p[1])
      BY <1>3, <3>1, <3>2, PhiNodes
    <3> HIDE DEF q0, first
    <3> QED
      BY <1>3, <1>6, <1>8, <3>3
  <2>2. CASE \E j \in DOMAIN BB[b].inst : e = <<first + j - 1, BB[b].inst[j], first + j>>
    <3>1. PICK j \in DOMAIN BB[b].inst : e = <<first + j - 1, BB[b].inst[j], first + j>>
      BY <2>2
    <3>2. j \in Nat /\ i \in Nat /\ first + j - 1 = first + i - 1
      BY <1>1, <1>4, <1>5, <1>8, <3>1
    <3>3. i = j
      <4> HIDE DEF first
      <4> QED
        BY <1>3, <3>2
    <3> QED
      BY <3>1, <3>3
  <2>3. CASE \E c \in BB[b].branch_map : e = <<last, c[1], Target(BB, b, c[2])>>
    <3>1. e[1] = last
      BY <2>3
    <3> HIDE DEF q0, first, last
    <3> QED
      BY <1>1, <1>3, <1>6, <1>8, <3>1
  <2> QED
    BY <2>1, <2>2, <2>3, BlockEdgeShape
<1>9. e0 \in BlockEdges(BB, b) /\ e0[1] = q0
  BY <1>4, <1>5 DEF BlockEdges
<1> QED
  BY <1>7, <1>8, <1>9 DEF EdgesAt, EdgeAlone

\* The edges that leave a block.
LEMMA EdgesAtExit ==
    ASSUME NEW BB, BlocksOK(BB), NEW n, NEW b \in 1..Len(BB), Built(BB[b])
    PROVE  EdgesAt(WithAssertion(BB, n), last_nd(BB, b)) =
              {<<last_nd(BB, b), c[1], Target(BB, b, c[2])>> : c \in BB[b].branch_map}
<1> DEFINE first == first_nd(BB, b)
           last == last_nd(BB, b)
           l == Len(BB[b].inst)
           R == {<<last, c[1], Target(BB, b, c[2])>> : c \in BB[b].branch_map}
<1>1. /\ BB[b] \in BasicBlock /\ IsFiniteSet(BB[b].phi_map) /\ l \in Nat
  BY SizeType DEF BlockOK
<1>2. Incoming(BB[b]) \subseteq Nat
  BY <1>1, IncomingFinite
<1>3. /\ first \in Nat /\ last \in Nat /\ last = first + l /\ last + 1 = Stop(BB, b)
      /\ first = Start(BB, b) + Cardinality(BB[b].phi_map)
      /\ Start(BB, b) <= first /\ Start(BB, b) \in Nat
  BY BuiltNodes, NodeRanges
<1>4. DOMAIN BB[b].inst = 1..l
  BY <1>1 DEF BasicBlock
<1>6. first <= last /\ Start(BB, b) <= last /\ last < Stop(BB, b)
  <2> HIDE DEF first, last, l
  <2> QED
    BY <1>1, <1>3
<1>7. ASSUME NEW e, e[1] = last
      PROVE  e \in WithAssertion(BB, n).edges <=> e \in BlockEdges(BB, b)
  BY <1>6, <1>7, EdgeOfBlock
<1>8. ASSUME NEW e \in BlockEdges(BB, b), e[1] = last
      PROVE  e \in R
  <2>1. CASE \E p \in BB[b].phi_map : e = <<phi_nd(BB, b, p[1]), p[2], first>>
    <3>1. PICK p \in BB[b].phi_map : e = <<phi_nd(BB, b, p[1]), p[2], first>>
      BY <2>1
    <3>2. p[1] \in Incoming(BB[b]) /\ p[1] \in Nat
      BY <1>2 DEF Incoming
    <3>3. phi_nd(BB, b, p[1]) < first /\ phi_nd(BB, b, p[1]) \in Nat /\ e[1] = phi_nd(BB, b, p[1])
      BY <1>3, <3>1, <3>2, PhiNodes
    <3> HIDE DEF last, first
    <3> QED
      BY <1>3, <1>6, <1>8, <3>3
  <2>2. CASE \E j \in DOMAIN BB[b].inst : e = <<first + j - 1, BB[b].inst[j], first + j>>
    <3>1. PICK j \in DOMAIN BB[b].inst : e = <<first + j - 1, BB[b].inst[j], first + j>>
      BY <2>2
    <3>2. j \in 1..l /\ last = first + j - 1
      BY <1>4, <1>8, <3>1
    <3>3. FALSE
      <4> HIDE DEF first, last, l
      <4> QED
        BY <1>1, <1>3, <3>2
    <3> QED
      BY <3>3
  <2>3. CASE \E c \in BB[b].branch_map : e = <<last, c[1], Target(BB, b, c[2])>>
    BY <2>3
  <2> QED
    BY <2>1, <2>2, <2>3, BlockEdgeShape
<1>9. ASSUME NEW e \in R
      PROVE  e \in BlockEdges(BB, b) /\ e[1] = last
  BY DEF BlockEdges
<1> QED
  BY <1>7, <1>8, <1>9 DEF EdgesAt

\* The edge of the assertion, and the accepting node.
LEMMA EdgesAtEnd ==
    ASSUME NEW BB, BlocksOK(BB), NEW n
    PROVE  /\ EdgesAt(WithAssertion(BB, n), 1) = {<<1, n, 2>>}
           /\ EdgesAt(WithAssertion(BB, n), 2) = {}
<1>1. ASSUME NEW e \in CreateAutGraph(BB).edges
      PROVE  e[1] # 1 /\ e[1] # 2
  <2>1. CASE e = <<0, -1, first_nd(BB, 1)>>
    BY <2>1
  <2>2. CASE \E b \in 1..Len(BB) : Built(BB[b]) /\ e \in BlockEdges(BB, b)
    <3>1. PICK b \in 1..Len(BB) : Built(BB[b]) /\ e \in BlockEdges(BB, b)
      BY <2>2
    <3>2. Start(BB, b) <= e[1] /\ e \in Nat \X Nat \X Nat /\ Start(BB, b) \in Nat /\ 3 <= Start(BB, b)
      BY <3>1, EdgeRange, NodeRanges
    <3>3. e[1] \in Nat
      BY <3>2
    <3> QED
      BY <3>2, <3>3
  <2> QED
    BY <2>1, <2>2, GraphEdges
<1> QED
  BY <1>1, AssertedEdges DEF EdgesAt

\* A set of natural numbers that is not empty has a least element.
LEMMA LeastElement ==
    ASSUME NEW T \in SUBSET Nat, T # {}
    PROVE  \E i \in T : \A j \in T : i <= j
<1> SUFFICES ASSUME \A i \in T : \E j \in T : j < i
             PROVE  FALSE
  OBVIOUS
<1> DEFINE S == {n \in Nat : \A m \in 0..n : m \notin T}
<1>1. 0 \in S
  <2>1. 0 \notin T
    OBVIOUS
  <2>2. \A m \in 0..0 : m = 0
    OBVIOUS
  <2> QED
    BY <2>1, <2>2
<1>2. ASSUME NEW n \in Nat, n \in S
      PROVE  n + 1 \in S
  <2>1. n + 1 \notin T
    <3>1. ASSUME NEW j \in T, j < n + 1
          PROVE  FALSE
      <4>1. j \in 0..n
        BY <3>1
      <4> QED
        BY <1>2, <4>1
    <3> QED
      BY <3>1
  <2>2. \A m \in 0..(n + 1) : m \in 0..n \/ m = n + 1
    OBVIOUS
  <2> QED
    BY <1>2, <2>1, <2>2
<1>3. Nat \subseteq S
  <2> HIDE DEF S
  <2> QED
    BY <1>1, <1>2, Nats!NatSetInduction
<1>4. ASSUME NEW i \in T
      PROVE  FALSE
  <2>1. i \in Nat /\ i \in 0..i
    OBVIOUS
  <2> QED
    BY <1>3, <2>1
<1> QED
  BY <1>4

-----------------------------------------------------------------------------
(***************************************************************************)
(* A function LLVM may hand over, and the blocks the parser has made of it.*)
(***************************************************************************)
Sound(f) ==
    /\ f.blocks \in Seq(Seq(Instruction)) /\ f.blocks # <<>>
    /\ \A b \in 1..Len(f.blocks) : \A k \in 1..Len(f.blocks[b]) :
          Targets(f.blocks[b][k]) \subseteq 1..Len(f.blocks)
    /\ Structured(f)

Parts(list, f, BB) == Sound(f) /\ Mirrors(list, f, BB)

\* The position p of the function and the node q have the same instructions before them.
At(f, BB, p, q) ==
    \/ p = Fail /\ q = 1
    \/ p = End /\ q = 2
    \/ \E b \in 1..Len(BB) : \E i \in 1..Len(f.blocks[b]) : \E from \in Nat :
          /\ p = <<b, i, from>> /\ ~Failing(f, b)
          /\ f.blocks[b][i].op # "Other"
          /\ IF f.blocks[b][i].op = "PHI"
             THEN from \in Incoming(BB[b]) /\ q = phi_nd(BB, b, from)
             ELSE q = first_nd(BB, b) + PlainCount(f.blocks[b], i - 1)

\* A block that does not fail ends with its only branch, and a PHI node comes first.
LEMMA BlockEnd ==
    ASSUME NEW f, Sound(f), NEW b \in 1..Len(f.blocks), ~Failing(f, b)
    PROVE  /\ f.blocks[b] \in Seq(Instruction) /\ Len(f.blocks[b]) \in Nat \ {0}
           /\ Leaves(f.blocks[b][Len(f.blocks[b])])
           /\ \A j \in 1..Len(f.blocks[b]) : Leaves(f.blocks[b][j]) => j = Len(f.blocks[b])
           /\ \A j \in 1..Len(f.blocks[b]) : f.blocks[b][j].op = "PHI" => j = 1
           /\ \A j \in 1..Len(f.blocks[b]) : f.blocks[b][j].op # "Call"
<1> DEFINE insts == f.blocks[b]
<1>1. insts \in Seq(Instruction) /\ DOMAIN f.blocks = 1..Len(f.blocks)
  BY DEF Sound
<1>2. Len(insts) \in Nat /\ DOMAIN insts = 1..Len(insts)
  BY <1>1
<1>3. PICK k \in DOMAIN insts : insts[k].op \in {"Call", "Br", "CondBr", "Ret"}
  BY <1>1 DEF Sound, Structured, Branching
<1>4. \A j \in DOMAIN insts : insts[j].op # "Call"
  BY DEF Failing
<1>5. Leaves(insts[k])
  BY <1>3, <1>4 DEF Leaves
<1>6. \A j \in DOMAIN insts : /\ Leaves(insts[j]) => j = Len(insts)
                              /\ insts[j].op = "PHI" => j = 1
  BY <1>1 DEF Sound, Structured
<1>7. k = Len(insts) /\ Len(insts) # 0
  BY <1>2, <1>3, <1>5, <1>6
<1> QED
  BY <1>1, <1>2, <1>4, <1>5, <1>6, <1>7

\* What the parser has made of a block.
LEMMA BlockMirrored ==
    ASSUME NEW list, NEW f, NEW BB, Parts(list, f, BB), NEW b \in 1..Len(BB)
    PROVE  /\ BlocksOK(BB) /\ Len(BB) = Len(f.blocks) /\ Sound(f) /\ Len(BB) \in Nat \ {0}
           /\ BB[b].is_accepting <=> Failing(f, b)
           /\ ~Failing(f, b) => Built(BB[b])
           /\ BB[b].has_phi <=> \E j \in 1..Len(f.blocks[b]) : f.blocks[b][j].op = "PHI"
           /\ InstsMatch(list, f.blocks[b], Len(f.blocks[b]), BB[b])
           /\ BranchesMatch(list, f.blocks[b], Len(f.blocks[b]), BB[b])
           /\ PhisMatch(list, f.blocks[b], Len(f.blocks[b]), BB[b])
<1> DEFINE insts == f.blocks[b]
<1>1. BlocksOK(BB) /\ Len(BB) = Len(f.blocks) /\ Sound(f) /\ Reflected(list, insts, Len(insts), BB[b])
  BY DEF Parts, Mirrors
<1>2. Len(BB) \in Nat \ {0}
  BY <1>1 DEF BlocksOK
<1>3. insts \in Seq(Instruction) /\ DOMAIN insts = 1..Len(insts) /\ Len(insts) \in Nat
  <2>1. insts \in Seq(Instruction)
    BY <1>1 DEF Sound
  <2> QED
    BY <2>1
<1>4. MarksMatch(insts, Len(insts), BB[b])
  BY <1>1 DEF Reflected
<1>5. BB[b].is_accepting <=> Failing(f, b)
  BY <1>3, <1>4 DEF MarksMatch, Failing
<1>6. ASSUME ~Failing(f, b)
      PROVE  Built(BB[b])
  <2>1. Leaves(insts[Len(insts)]) /\ Len(insts) \in 1..Len(insts)
    BY <1>1, <1>3, <1>6, BlockEnd
  <2>2. BB[b].has_branch
    BY <1>4, <2>1 DEF MarksMatch
  <2> QED
    BY <1>5, <1>6, <2>2 DEF Built
<1>7. BB[b].has_phi <=> \E j \in 1..Len(insts) : insts[j].op = "PHI"
  BY <1>4 DEF MarksMatch
<1> QED
  BY <1>1, <1>2, <1>5, <1>6, <1>7 DEF Reflected

\* Normal skips the instructions that do nothing, and no other.
LEMMA NormalFacts ==
    ASSUME NEW f, Sound(f), NEW b \in 1..Len(f.blocks), ~Failing(f, b),
           NEW i0 \in 1..Len(f.blocks[b]), NEW from
    PROVE  \E i \in i0..Len(f.blocks[b]) :
              /\ Normal(f, <<b, i0, from>>) = <<b, i, from>>
              /\ f.blocks[b][i].op # "Other"
              /\ \A j \in i0..(i - 1) : f.blocks[b][j].op = "Other"
<1> DEFINE insts == f.blocks[b]
           n == Len(insts)
           rest == {i \in i0..n : insts[i].op # "Other"}
           m == CHOOSE i \in rest : \A j \in rest : i <= j
<1>1. n \in Nat /\ n # 0 /\ Leaves(insts[n]) /\ i0 \in 1..n
  BY BlockEnd
<1>2. n \in i0..n
  <2> HIDE DEF n
  <2> QED
    BY <1>1
<1>3. n \in rest
  BY <1>1, <1>2 DEF Leaves
<1>4. rest \in SUBSET Nat
  <2> HIDE DEF n
  <2> QED
    BY <1>1
<1> HIDE DEF n
<1>5. \E i \in rest : \A j \in rest : i <= j
  <2> HIDE DEF rest
  <2> QED
    BY <1>3, <1>4, LeastElement
<1>6. m \in rest /\ \A j \in rest : m <= j
  <2> HIDE DEF rest
  <2> QED
    BY <1>5
<1>7. b # 0
  BY DEF Sound
<1>8. Normal(f, <<b, i0, from>>) = IF rest = {} THEN End ELSE <<b, m, from>>
  BY <1>7 DEF Normal, n
<1>9. Normal(f, <<b, i0, from>>) = <<b, m, from>>
  BY <1>3, <1>8
<1> HIDE DEF m
<1>10. ASSUME NEW j \in i0..(m - 1)
       PROVE  insts[j].op = "Other"
  <2>1. m \in i0..n
    BY <1>6
  <2>2. j \in i0..n /\ ~(m <= j)
    BY <1>1, <2>1
  <2> QED
    BY <1>6, <2>2
<1> QED
  BY <1>6, <1>9, <1>10 DEF n

\* Instructions that do nothing do not count.
LEMMA OthersSkipped ==
    ASSUME NEW insts, NEW i0 \in Nat \ {0}, NEW i \in Nat, i0 <= i,
           \A j \in i0..(i - 1) : insts[j].op = "Other"
    PROVE  PlainCount(insts, i - 1) = PlainCount(insts, i0 - 1)
<1>1. \A j \in 1..(i - 1) : j \in 1..(i0 - 1) \/ j \in i0..(i - 1)
  OBVIOUS
<1>2. \A j \in 1..(i0 - 1) : j \in 1..(i - 1)
  OBVIOUS
<1>3. \A j \in i0..(i - 1) : ~Plain(insts[j])
  BY DEF Plain
<1>4. PlainUpTo(insts, i - 1) = PlainUpTo(insts, i0 - 1)
  BY <1>1, <1>2, <1>3 DEF PlainUpTo
<1> QED
  BY <1>4 DEF PlainCount

\* Where the flow settles inside a block.
LEMMA SettleAt ==
    ASSUME NEW list, NEW f, NEW BB, Parts(list, f, BB), NEW b \in 1..Len(BB), ~Failing(f, b),
           NEW i0 \in 1..Len(f.blocks[b]), NEW from \in Nat, f.blocks[b][i0].op # "PHI"
    PROVE  At(f, BB, Normal(f, <<b, i0, from>>), first_nd(BB, b) + PlainCount(f.blocks[b], i0 - 1))
<1> DEFINE insts == f.blocks[b]
<1>1. Sound(f) /\ Len(BB) = Len(f.blocks)
  BY BlockMirrored
<1>2. PICK i \in i0..Len(insts) :
         /\ Normal(f, <<b, i0, from>>) = <<b, i, from>>
         /\ insts[i].op # "Other"
         /\ \A j \in i0..(i - 1) : insts[j].op = "Other"
  BY <1>1, NormalFacts
<1>3. Len(insts) \in Nat /\ \A j \in 1..Len(insts) : insts[j].op = "PHI" => j = 1
  BY <1>1, BlockEnd
<1>4. i \in 1..Len(insts) /\ i \in Nat /\ i0 \in Nat \ {0} /\ i0 <= i /\ (i = 1 => i0 = i)
  BY <1>3
<1>5. insts[i].op # "PHI"
  BY <1>3, <1>4
<1>6. PlainCount(insts, i - 1) = PlainCount(insts, i0 - 1)
  BY <1>2, <1>4, OthersSkipped
<1> QED
  BY <1>2, <1>4, <1>5, <1>6 DEF At

\* The first node of a block without a PHI node.
LEMMA NoneBefore ==
    ASSUME NEW insts
    PROVE  PlainCount(insts, 1 - 1) = 0
<1>1. PlainUpTo(insts, 1 - 1) = {}
  BY DEF PlainUpTo
<1> QED
  BY <1>1, FS_EmptySet DEF PlainCount

\* An edge from one block to another leads to where the flow settles in the second.
LEMMA EnterAt ==
    ASSUME NEW list, NEW f, NEW BB, Parts(list, f, BB), NEW b \in 1..Len(BB), NEW c \in 1..Len(BB),
           c = 1 \/ \E j \in 1..Len(f.blocks[b]) : c \in Targets(f.blocks[b][j])
    PROVE  At(f, BB, Normal(f, Enter(f, c, b)), Target(BB, b, c))
<1> DEFINE insts == f.blocks[c]
<1>1. /\ BlocksOK(BB) /\ Len(BB) = Len(f.blocks) /\ Sound(f) /\ Len(BB) \in Nat \ {0}
      /\ BB[c].is_accepting <=> Failing(f, c)
      /\ ~Failing(f, c) => Built(BB[c])
      /\ BB[c].has_phi <=> \E j \in 1..Len(insts) : insts[j].op = "PHI"
      /\ PhisMatch(list, insts, Len(insts), BB[c])
  BY BlockMirrored
<1>2. CASE Failing(f, c)
  <2>1. Enter(f, c, b) = Fail /\ Normal(f, Fail) = Fail
    BY <1>2 DEF Enter, Normal, Fail
  <2>2. Target(BB, b, c) = 1
    BY <1>1, <1>2 DEF Target
  <2> QED
    BY <2>1, <2>2 DEF At
<1>3. CASE ~Failing(f, c)
  <2>1. Enter(f, c, b) = <<c, 1, b>> /\ ~BB[c].is_accepting /\ BB[c].has_branch
    BY <1>1, <1>3 DEF Enter, Built
  <2>2. /\ Len(insts) \in Nat \ {0}
        /\ \A j \in 1..Len(insts) : insts[j].op = "PHI" => j = 1
    BY <1>1, <1>3, BlockEnd
  <2>3. 1 \in 1..Len(insts) /\ b \in Nat
    BY <1>1, <2>2
  <2>4. CASE insts[1].op = "PHI"
    <3>1. /\ DOMAIN f.blocks = 1..Len(f.blocks) /\ DOMAIN insts = 1..Len(insts)
          /\ DOMAIN f.blocks[b] = 1..Len(f.blocks[b])
      BY <1>1 DEF Sound
    <3>2. /\ c # 1
          /\ \A d \in DOMAIN f.blocks :
                (\E j \in DOMAIN f.blocks[d] : c \in Targets(f.blocks[d][j]))
                  => \E x \in Arrivals(insts[1]) : x[1] = d
      <4>1. c \in DOMAIN f.blocks /\ 1 \in DOMAIN insts
        BY <1>1, <2>3, <3>1
      <4>2. Structured(f)
        BY <1>1 DEF Sound
      <4> QED
        BY <2>4, <4>1, <4>2 DEF Structured
    <3>3. PICK x \in Arrivals(insts[1]) : x[1] = b
      BY <1>1, <3>1, <3>2
    <3>4. PICK p \in BB[c].phi_map : p[1] = b
      BY <1>1, <2>3, <3>3 DEF PhisMatch
    <3>5. b \in Incoming(BB[c])
      BY <3>4 DEF Incoming
    <3>6. Target(BB, b, c) = phi_nd(BB, c, b)
      BY <1>1, <2>1, <2>3, <2>4 DEF Target
    <3>7. PICK i \in 1..Len(insts) :
             /\ Normal(f, <<c, 1, b>>) = <<c, i, b>>
             /\ \A j \in 1..(i - 1) : insts[j].op = "Other"
      BY <1>1, <1>3, <2>3, NormalFacts
    <3>8. i = 1
      <4>1. i # 1 => 1 \in 1..(i - 1)
        BY <2>2
      <4> QED
        BY <2>4, <3>7, <4>1
    <3> QED
      BY <1>3, <2>1, <2>3, <2>4, <3>5, <3>6, <3>7, <3>8 DEF At
  <2>5. CASE insts[1].op # "PHI"
    <3>1. ~BB[c].has_phi
      BY <1>1, <2>2, <2>5
    <3>2. Target(BB, b, c) = first_nd(BB, c)
      BY <2>1, <3>1 DEF Target
    <3>3. PlainCount(insts, 1 - 1) = 0 /\ first_nd(BB, c) \in Nat
      BY <1>1, <1>3, NoneBefore, BuiltNodes
    <3>4. At(f, BB, Normal(f, <<c, 1, b>>), first_nd(BB, c) + PlainCount(insts, 1 - 1))
      BY <1>3, <2>3, <2>5, SettleAt
    <3> QED
      BY <2>1, <3>2, <3>3, <3>4
  <2> QED
    BY <2>4, <2>5
<1> QED
  BY <1>2, <1>3

\* The flow starts at node 3.
LEMMA StartsAtThree ==
    ASSUME NEW list, NEW f, NEW BB, Parts(list, f, BB)
    PROVE  At(f, BB, Normal(f, Enter(f, 1, 0)), 3)
<1> DEFINE insts == f.blocks[1]
<1>1. 1 \in 1..Len(BB)
  BY DEF Parts, Mirrors, BlocksOK
<1>2. /\ BlocksOK(BB) /\ Len(BB) = Len(f.blocks) /\ Sound(f)
      /\ ~Failing(f, 1) => Built(BB[1])
      /\ PhisMatch(list, insts, Len(insts), BB[1])
  BY <1>1, BlockMirrored
<1>3. ~Failing(f, 1)
  BY <1>2 DEF Sound, Structured
<1>4. Len(insts) \in Nat \ {0} /\ insts \in Seq(Instruction)
  BY <1>1, <1>2, <1>3, BlockEnd
<1>5. \A j \in 1..Len(insts) : insts[j].op # "PHI"
  <2>1. DOMAIN f.blocks = 1..Len(f.blocks) /\ DOMAIN insts = 1..Len(insts)
    BY <1>2, <1>4 DEF Sound
  <2> QED
    BY <1>1, <1>2, <2>1 DEF Sound, Structured
<1>6. BB[1].phi_map = {}
  <2>1. ASSUME NEW p \in BB[1].phi_map
        PROVE  FALSE
    <3>1. \E j \in 1..Len(insts) : \E x \in Arrivals(insts[j]) : TRUE
      BY <1>2, <2>1 DEF PhisMatch
    <3> QED
      BY <1>5, <3>1 DEF Arrivals
  <2> QED
    BY <2>1
<1>7. first_nd(BB, 1) = 3
  <2>1. first_nd(BB, 1) = Start(BB, 1) + Cardinality(BB[1].phi_map) /\ Start(BB, 1) = 3
    BY <1>1, <1>2, <1>3, BuiltNodes, NodeRanges
  <2> QED
    BY <1>6, <2>1, FS_EmptySet
<1>8. At(f, BB, Normal(f, <<1, 1, 0>>), first_nd(BB, 1) + PlainCount(insts, 1 - 1))
  <2>1. 1 \in 1..Len(insts) /\ 0 \in Nat
    BY <1>4
  <2> QED
    BY <1>1, <1>3, <1>5, <2>1, SettleAt
<1>9. Enter(f, 1, 0) = <<1, 1, 0>>
  BY <1>3 DEF Enter
<1> QED
  BY <1>7, <1>8, <1>9, NoneBefore

\* The position p executes what the edges of the node q carry, and lead to the same place.
Alike(list, f, BB, g, p, q) ==
    /\ \A x \in Executes(f, p) : \E e \in EdgesAt(g, q) : list[e[2] + 1] = x[1]
    /\ \A e \in EdgesAt(g, q) : \E x \in Executes(f, p) : list[e[2] + 1] = x[1]
    /\ \A x \in Executes(f, p) : \A e \in EdgesAt(g, q) :
          list[e[2] + 1] = x[1] => At(f, BB, Normal(f, x[2]), e[3])

\* A block with a call, and the end after it.
LEMMA FailAlike ==
    ASSUME NEW list, NEW f, NEW BB, BlocksOK(BB), NEW n, Means(list, n, AssumeTrue)
    PROVE  /\ Alike(list, f, BB, WithAssertion(BB, n), Fail, 1)
           /\ Alike(list, f, BB, WithAssertion(BB, n), End, 2)
<1> DEFINE g == WithAssertion(BB, n)
<1>1. EdgesAt(g, 1) = {<<1, n, 2>>} /\ EdgesAt(g, 2) = {}
  BY EdgesAtEnd
<1>2. list[n + 1] = AssumeTrue
  BY DEF Means
<1>3. Executes(f, Fail) = {<<AssumeTrue, End>>} /\ Executes(f, End) = {} /\ Normal(f, End) = End
  BY DEF Executes, Fail, End, Normal
<1> HIDE DEF g
<1>4. At(f, BB, End, 2)
  BY DEF At
<1>5. ASSUME NEW x \in Executes(f, Fail), NEW e \in EdgesAt(g, 1)
      PROVE  x[1] = list[e[2] + 1] /\ Normal(f, x[2]) = End /\ e[3] = 2
  BY <1>1, <1>2, <1>3, <1>5
<1>6. Alike(list, f, BB, g, Fail, 1)
  BY <1>1, <1>3, <1>4, <1>5 DEF Alike
<1>7. Alike(list, f, BB, g, End, 2)
  BY <1>1, <1>3 DEF Alike
<1> QED
  BY <1>6, <1>7 DEF g

\* One instruction at a position and one edge at a node that carries it.
LEMMA OneAlike ==
    ASSUME NEW list, NEW f, NEW BB, NEW g, NEW p, NEW q, NEW inst, NEW next, NEW e0,
           Executes(f, p) = {<<inst, next>>}, EdgesAt(g, q) = {e0},
           list[e0[2] + 1] = inst, At(f, BB, Normal(f, next), e0[3])
    PROVE  Alike(list, f, BB, g, p, q)
BY DEF Alike

\* A position inside a block.
LEMMA InsideBlock ==
    ASSUME NEW f, NEW b \in Nat \ {0}, NEW i, NEW from
    PROVE  /\ <<b, i, from>> # Fail /\ <<b, i, from>> # End
           /\ <<b, i, from>>[1] = b /\ <<b, i, from>>[2] = i /\ <<b, i, from>>[3] = from
BY DEF Fail, End

\* What a position of the block b executes, by the kind of its instruction.
Moves(f, inst, next, b, from) ==
    CASE inst.op = "Assign" -> {<<Assign(inst.expr), next>>}
      [] inst.op = "AtomicCmpXchg" -> {<<Cas(inst.expr), next>>}
      [] inst.op = "PHI" ->
            {<<Assign(u.expr), next>> :
                u \in {v \in {inst.incoming[i] : i \in DOMAIN inst.incoming} : v.block = from}}
      [] inst.op = "Ret" -> {<<AssumeTrue, Enter(f, 1, b)>>}
      [] inst.op = "Br" -> {<<AssumeTrue, Enter(f, inst.target, b)>>}
      [] inst.op = "CondBr" ->
            {<<Assume(inst.cond, TRUE), Enter(f, inst.then, b)>>,
             <<Assume(inst.cond, FALSE), Enter(f, inst.else, b)>>}

\* Executes inside a block.
LEMMA ExecutesInside ==
    ASSUME NEW f, NEW b \in Nat \ {0}, NEW i, NEW from
    PROVE  Executes(f, <<b, i, from>>) = Moves(f, f.blocks[b][i], <<b, i + 1, from>>, b, from)
<1> DEFINE p == <<b, i, from>>
<1>1. p # Fail /\ p # End
  BY InsideBlock
<1>2. Executes(f, p) = Moves(f, f.blocks[p[1]][p[2]], <<p[1], p[2] + 1, p[3]>>, p[1], p[3])
  <2> HIDE DEF p
  <2> QED
    BY <1>1 DEF Executes, Moves
<1>3. p[1] = b /\ p[2] = i /\ p[3] = from
  OBVIOUS
<1> HIDE DEF p
<1>4. Executes(f, p) = Moves(f, f.blocks[b][i], <<b, i + 1, from>>, b, from)
  BY <1>2, <1>3
<1> QED
  BY <1>4 DEF p

\* An assignment or a compare-and-swap.
LEMMA PlainAlike ==
    ASSUME NEW list, NEW f, NEW BB, Parts(list, f, BB), NEW n, NEW b \in 1..Len(BB), ~Failing(f, b),
           NEW i \in 1..Len(f.blocks[b]), NEW from \in Nat, Plain(f.blocks[b][i])
    PROVE  Alike(list, f, BB, WithAssertion(BB, n), <<b, i, from>>,
                 first_nd(BB, b) + PlainCount(f.blocks[b], i - 1))
<1> DEFINE insts == f.blocks[b]
           g == WithAssertion(BB, n)
           c == PlainCount(insts, i - 1)
           first == first_nd(BB, b)
           e0 == <<first + c, BB[b].inst[c + 1], first + c + 1>>
<1>1. /\ BlocksOK(BB) /\ Len(BB) = Len(f.blocks) /\ Sound(f) /\ Len(BB) \in Nat
      /\ Built(BB[b]) /\ InstsMatch(list, insts, Len(insts), BB[b])
  BY BlockMirrored
<1>2. /\ Len(insts) \in Nat /\ Leaves(insts[Len(insts)])
      /\ \A j \in 1..Len(insts) : insts[j].op = "PHI" => j = 1
  BY <1>1, BlockEnd
<1>3. i # Len(insts)
  BY <1>2 DEF Plain, Leaves
<1>4. i + 1 \in 1..Len(insts) /\ i \in Nat \ {0} /\ i - 1 \in Nat /\ (i + 1) - 1 = i
  BY <1>2, <1>3
<1>5. c + 1 \in 1..Len(BB[b].inst) /\ PlainCount(insts, i) = c + 1 /\ c \in Nat /\ first \in Nat
  <2>1. c + 1 \in 1..PlainCount(insts, Len(insts)) /\ PlainCount(insts, i) = c + 1
    BY <1>2, PlainPlace
  <2>2. c \in Nat
    BY <1>4, PlainFinite
  <2> QED
    BY <1>1, <2>1, <2>2, BuiltNodes DEF InstsMatch
<1>6. Means(list, BB[b].inst[c + 1], Meaning(insts[i]))
  BY <1>1 DEF InstsMatch
<1>7. EdgesAt(g, first + (c + 1) - 1) = {<<first + (c + 1) - 1, BB[b].inst[c + 1], first + (c + 1)>>}
  <2>1. EdgeAlone(BB, n, b, c + 1)
    <3> HIDE DEF c
    <3> QED
      BY <1>1, <1>5, EdgesAtInst
  <2> QED
    BY <2>1 DEF EdgeAlone
<1>8. EdgesAt(g, first + c) = {e0}
  <2>1. first + (c + 1) - 1 = first + c /\ first + (c + 1) = first + c + 1
    <3> HIDE DEF c, first
    <3> QED
      BY <1>5
  <2> QED
    BY <1>7, <2>1
<1>9. Executes(f, <<b, i, from>>) = {<<Meaning(insts[i]), <<b, i + 1, from>>>>}
  <2>1. b \in Nat \ {0}
    BY <1>1
  <2>4. Executes(f, <<b, i, from>>) = Moves(f, insts[i], <<b, i + 1, from>>, b, from)
    BY <2>1, ExecutesInside
  <2>2. CASE insts[i].op = "Assign"
    BY <2>4, <2>2 DEF Meaning, Moves
  <2>3. CASE insts[i].op = "AtomicCmpXchg"
    BY <2>4, <2>3 DEF Meaning, Moves
  <2> QED
    BY <2>2, <2>3 DEF Plain
<1>10. At(f, BB, Normal(f, <<b, i + 1, from>>), first + c + 1)
  <2>1. insts[i + 1].op # "PHI"
    BY <1>2, <1>4
  <2>2. At(f, BB, Normal(f, <<b, i + 1, from>>), first + PlainCount(insts, (i + 1) - 1))
    BY <1>4, <2>1, SettleAt
  <2>3. PlainCount(insts, (i + 1) - 1) = c + 1 /\ first + (c + 1) = first + c + 1
    BY <1>4, <1>5
  <2> QED
    BY <2>2, <2>3
<1>11. list[e0[2] + 1] = Meaning(insts[i]) /\ e0[3] = first + c + 1
  BY <1>6 DEF Means
<1> HIDE DEF e0, g, c, first
<1>12. Alike(list, f, BB, g, <<b, i, from>>, first + c)
  BY <1>8, <1>9, <1>10, <1>11, OneAlike
<1> QED
  BY <1>12 DEF g, c, first

\* A PHI node.
LEMMA PhiAlike ==
    ASSUME NEW list, NEW f, NEW BB, Parts(list, f, BB), NEW n, NEW b \in 1..Len(BB), ~Failing(f, b),
           NEW i \in 1..Len(f.blocks[b]), NEW from \in Incoming(BB[b]), f.blocks[b][i].op = "PHI"
    PROVE  Alike(list, f, BB, WithAssertion(BB, n), <<b, i, from>>, phi_nd(BB, b, from))
<1> DEFINE insts == f.blocks[b]
           g == WithAssertion(BB, n)
           q0 == phi_nd(BB, b, from)
           first == first_nd(BB, b)
           p0 == <<b, i, from>>
           next == <<b, 2, from>>
<1>1. /\ BlocksOK(BB) /\ Len(BB) = Len(f.blocks) /\ Sound(f) /\ Len(BB) \in Nat
      /\ Built(BB[b]) /\ PhisMatch(list, insts, Len(insts), BB[b])
  BY BlockMirrored
<1>2. /\ Len(insts) \in Nat \ {0} /\ Leaves(insts[Len(insts)]) /\ insts \in Seq(Instruction)
      /\ \A j \in 1..Len(insts) : insts[j].op = "PHI" => j = 1
  BY <1>1, BlockEnd
<1>3. i = 1 /\ 1 # Len(insts) /\ 1 \in 1..Len(insts) /\ 2 \in 1..Len(insts)
  <2>1. i = 1 /\ insts[i].op = "PHI"
    BY <1>2
  <2>2. i # Len(insts)
    BY <1>2, <2>1 DEF Leaves
  <2>3. Len(insts) \in Nat \ {0} /\ Len(insts) # 1
    BY <1>2, <2>1, <2>2
  <2>4. \A m \in Nat \ {0} : m # 1 => 1 \in 1..m /\ 2 \in 1..m
    OBVIOUS
  <2> QED
    BY <2>1, <2>3, <2>4
<1>4. \A x, y \in Arrivals(insts[1]) : x[1] = y[1] => x = y
  <2>1. DOMAIN f.blocks = 1..Len(f.blocks) /\ DOMAIN insts = 1..Len(insts)
    BY <1>1, <1>2 DEF Sound
  <2>2. b \in DOMAIN f.blocks /\ 1 \in DOMAIN insts /\ insts[1].op = "PHI"
    BY <1>1, <1>3, <2>1
  <2>3. Structured(f)
    BY <1>1 DEF Sound
  <2> QED
    BY <2>2, <2>3 DEF Structured
<1>5. EdgesAt(g, q0) = {<<q0, p[2], first>> : p \in {q \in BB[b].phi_map : q[1] = from}}
  BY <1>1, EdgesAtPhi
<1>6. from \in Nat /\ BB[b] \in BasicBlock
  BY <1>1, SizeType, IncomingFinite DEF BlockOK
<1>7. ASSUME NEW p \in BB[b].phi_map
      PROVE  \E x \in Arrivals(insts[1]) : p[1] = x[1] /\ Means(list, p[2], x[2])
  <2>1. PICK j \in 1..Len(insts) : \E x \in Arrivals(insts[j]) : p[1] = x[1] /\ Means(list, p[2], x[2])
    BY <1>1, <1>7 DEF PhisMatch
  <2>2. insts[j].op = "PHI"
    BY <2>1 DEF Arrivals
  <2> QED
    BY <1>2, <2>1, <2>2
<1>8. PICK p1 \in BB[b].phi_map : p1[1] = from
  BY DEF Incoming
<1>9. PICK x1 \in Arrivals(insts[1]) : x1[1] = from /\ Means(list, p1[2], x1[2])
  BY <1>7, <1>8
<1>10. \A x : x \in Executes(f, p0) <=> x = <<x1[2], next>>
  <2>1. b \in Nat \ {0} /\ insts[1].op = "PHI"
    BY <1>1, <1>3
  <2>2. Executes(f, p0) = {<<Assign(u.expr), <<b, 1 + 1, from>>>> :
            u \in {v \in {insts[1].incoming[k] : k \in DOMAIN insts[1].incoming} : v.block = from}}
    <3>1. Executes(f, <<b, 1, from>>) = Moves(f, insts[1], <<b, 1 + 1, from>>, b, from)
      BY <2>1, ExecutesInside
    <3> QED
      BY <1>3, <2>1, <3>1 DEF Moves
  <2>3. Arrivals(insts[1]) =
           {<<insts[1].incoming[k].block, Assign(insts[1].incoming[k].expr)>> :
              k \in DOMAIN insts[1].incoming}
    BY <2>1 DEF Arrivals
  <2>4. PICK k1 \in DOMAIN insts[1].incoming :
           x1 = <<insts[1].incoming[k1].block, Assign(insts[1].incoming[k1].expr)>>
    BY <2>3
  <2>5. insts[1].incoming[k1].block = from /\ Assign(insts[1].incoming[k1].expr) = x1[2]
    BY <1>9, <2>4
  <2>6. <<x1[2], next>> \in Executes(f, p0)
    BY <2>2, <2>5
  <2>7. ASSUME NEW x \in Executes(f, p0)
        PROVE  x = <<x1[2], next>>
    <3>1. PICK k \in DOMAIN insts[1].incoming :
             insts[1].incoming[k].block = from
               /\ x = <<Assign(insts[1].incoming[k].expr), <<b, 1 + 1, from>>>>
      BY <2>2, <2>7
    <3>2. <<from, Assign(insts[1].incoming[k].expr)>> \in Arrivals(insts[1])
      BY <2>3, <3>1
    <3>3. x1 = <<from, Assign(insts[1].incoming[k].expr)>>
      BY <1>4, <1>9, <3>2
    <3> QED
      BY <3>1, <3>3
  <2> QED
    BY <2>6, <2>7
<1>11. At(f, BB, Normal(f, next), first)
  <2>1. insts[2].op # "PHI"
    BY <1>2, <1>3
  <2>2. At(f, BB, Normal(f, next), first + PlainCount(insts, 2 - 1))
    BY <1>3, <1>6, <2>1, SettleAt
  <2>3. PlainCount(insts, 2 - 1) = 0
    <3>1. ~Plain(insts[1]) /\ 1 \in Nat \ {0} /\ 2 - 1 = 1
      BY <1>3 DEF Plain
    <3> QED
      BY <3>1, PlainNext, NoneBefore
  <2>4. first \in Nat
    BY <1>1, BuiltNodes
  <2> QED
    BY <2>2, <2>3, <2>4
<1>12. ASSUME NEW e \in EdgesAt(g, q0)
       PROVE  list[e[2] + 1] = x1[2] /\ e[3] = first
  <2>1. PICK p \in BB[b].phi_map : p[1] = from /\ e = <<q0, p[2], first>>
    BY <1>5, <1>12
  <2>2. PICK x \in Arrivals(insts[1]) : p[1] = x[1] /\ Means(list, p[2], x[2])
    BY <1>7
  <2>3. x = x1
    BY <1>4, <1>9, <2>1, <2>2
  <2>4. list[p[2] + 1] = x1[2]
    BY <2>2, <2>3 DEF Means
  <2> QED
    BY <2>1, <2>4
<1>13. <<q0, p1[2], first>> \in EdgesAt(g, q0)
  BY <1>5, <1>8
<1> HIDE DEF g, q0, p0, next, first
<1>14. \A x \in Executes(f, p0) : x[1] = x1[2] /\ x[2] = next
  BY <1>10
<1>15. <<x1[2], next>> \in Executes(f, p0) /\ <<x1[2], next>>[1] = x1[2]
  BY <1>10
<1>16. Alike(list, f, BB, g, p0, q0)
  <2>1. \A x \in Executes(f, p0) : \E e \in EdgesAt(g, q0) : list[e[2] + 1] = x[1]
    BY <1>12, <1>13, <1>14
  <2>2. \A e \in EdgesAt(g, q0) : \E x \in Executes(f, p0) : list[e[2] + 1] = x[1]
    BY <1>12, <1>15
  <2>3. \A x \in Executes(f, p0) : \A e \in EdgesAt(g, q0) : At(f, BB, Normal(f, x[2]), e[3])
    BY <1>11, <1>12, <1>14
  <2> QED
    BY <2>1, <2>2, <2>3 DEF Alike
<1> QED
  BY <1>16 DEF g, p0, q0

\* What an instruction that leaves a block executes: its exits.
LEMMA ExitMoves ==
    ASSUME NEW f, NEW inst, NEW next, NEW b, NEW from, Leaves(inst)
    PROVE  /\ Moves(f, inst, next, b, from) = {<<x[1], Enter(f, x[2], b)>> : x \in Exits(inst)}
           /\ \A x, y \in Exits(inst) : x[1] = y[1] => x = y
           /\ \A x \in Exits(inst) : x[2] = 1 \/ x[2] \in Targets(inst)
<1>1. CASE inst.op = "Ret"
  BY <1>1 DEF Moves, Exits
<1>2. CASE inst.op = "Br"
  BY <1>2 DEF Moves, Exits, Targets
<1>3. CASE inst.op = "CondBr"
  <2> DEFINE x1 == <<Assume(inst.cond, TRUE), inst.then>>
             x2 == <<Assume(inst.cond, FALSE), inst.else>>
  <2>1. Exits(inst) = {x1, x2} /\ x1[1] # x2[1]
    BY <1>3 DEF Exits, Assume
  <2>2. \A x, y \in Exits(inst) : x[1] = y[1] => x = y
    <3> HIDE DEF x1, x2
    <3> QED
      BY <2>1
  <2>3. \A x \in Exits(inst) : x[2] = 1 \/ x[2] \in Targets(inst)
    <3>1. Targets(inst) = {inst.then, inst.else}
      BY <1>3 DEF Targets
    <3>2. x1[2] = inst.then /\ x2[2] = inst.else
      OBVIOUS
    <3> HIDE DEF x1, x2
    <3> QED
      BY <2>1, <3>1, <3>2
  <2>4. Moves(f, inst, next, b, from) =
           {<<Assume(inst.cond, TRUE), Enter(f, inst.then, b)>>,
            <<Assume(inst.cond, FALSE), Enter(f, inst.else, b)>>}
    BY <1>3 DEF Moves
  <2>5. {<<x[1], Enter(f, x[2], b)>> : x \in {x1, x2}} =
           {<<Assume(inst.cond, TRUE), Enter(f, inst.then, b)>>,
            <<Assume(inst.cond, FALSE), Enter(f, inst.else, b)>>}
    <3>1. /\ x1[1] = Assume(inst.cond, TRUE) /\ x1[2] = inst.then
          /\ x2[1] = Assume(inst.cond, FALSE) /\ x2[2] = inst.else
      OBVIOUS
    <3>2. {<<x[1], Enter(f, x[2], b)>> : x \in {x1, x2}} =
             {<<x1[1], Enter(f, x1[2], b)>>, <<x2[1], Enter(f, x2[2], b)>>}
      <4> HIDE DEF x1, x2
      <4> QED
        OBVIOUS
    <3> QED
      BY <3>1, <3>2
  <2>6. Moves(f, inst, next, b, from) = {<<x[1], Enter(f, x[2], b)>> : x \in Exits(inst)}
    BY <2>1, <2>4, <2>5
  <2> QED
    BY <2>2, <2>3, <2>6
<1> QED
  BY <1>1, <1>2, <1>3 DEF Leaves

\* The end of a block.
LEMMA ExitAlike ==
    ASSUME NEW list, NEW f, NEW BB, Parts(list, f, BB), NEW n, NEW b \in 1..Len(BB), ~Failing(f, b),
           NEW i \in 1..Len(f.blocks[b]), NEW from \in Nat, Leaves(f.blocks[b][i])
    PROVE  Alike(list, f, BB, WithAssertion(BB, n), <<b, i, from>>,
                 first_nd(BB, b) + PlainCount(f.blocks[b], i - 1))
<1> DEFINE insts == f.blocks[b]
           inst == insts[i]
           g == WithAssertion(BB, n)
           p0 == <<b, i, from>>
           last == last_nd(BB, b)
           map == BB[b].branch_map
<1>1. /\ BlocksOK(BB) /\ Len(BB) = Len(f.blocks) /\ Sound(f) /\ Len(BB) \in Nat
      /\ Built(BB[b]) /\ InstsMatch(list, insts, Len(insts), BB[b])
      /\ BranchesMatch(list, insts, Len(insts), BB[b])
  BY BlockMirrored
<1>2. /\ Len(insts) \in Nat /\ insts \in Seq(Instruction)
      /\ \A j \in 1..Len(insts) : Leaves(insts[j]) => j = Len(insts)
  BY <1>1, BlockEnd
<1>3. i = Len(insts) /\ i \in Nat \ {0}
  BY <1>2
<1>4. first_nd(BB, b) + PlainCount(insts, i - 1) = last
  <2>1. ~Plain(inst)
    BY DEF Plain, Leaves
  <2>2. PlainCount(insts, i) = PlainCount(insts, i - 1)
    BY <1>3, <2>1, PlainNext
  <2>3. Len(BB[b].inst) = PlainCount(insts, i)
    BY <1>1, <1>3 DEF InstsMatch
  <2> QED
    BY <2>2, <2>3 DEF last_nd
<1>5. EdgesAt(g, last) = {<<last, c[1], Target(BB, b, c[2])>> : c \in map}
  BY <1>1, EdgesAtExit
<1>6. /\ Executes(f, p0) = {<<x[1], Enter(f, x[2], b)>> : x \in Exits(inst)}
      /\ \A x, y \in Exits(inst) : x[1] = y[1] => x = y
      /\ \A x \in Exits(inst) : x[2] = 1 \/ x[2] \in Targets(inst)
  <2>1. b \in Nat \ {0}
    BY <1>1
  <2>2. Executes(f, p0) = Moves(f, inst, <<b, i + 1, from>>, b, from)
    BY <2>1, ExecutesInside
  <2>3. /\ Moves(f, inst, <<b, i + 1, from>>, b, from) = {<<x[1], Enter(f, x[2], b)>> : x \in Exits(inst)}
        /\ \A x, y \in Exits(inst) : x[1] = y[1] => x = y
        /\ \A x \in Exits(inst) : x[2] = 1 \/ x[2] \in Targets(inst)
    BY ExitMoves
  <2> QED
    BY <2>2, <2>3
<1>7. ASSUME NEW c \in map
      PROVE  \E x \in Exits(inst) : list[c[1] + 1] = x[1] /\ c[2] = x[2]
  <2>1. PICK j \in 1..Len(insts) : \E x \in Exits(insts[j]) : Means(list, c[1], x[1]) /\ c[2] = x[2]
    BY <1>1, <1>7 DEF BranchesMatch
  <2>2. Leaves(insts[j])
    BY <2>1 DEF Exits, Leaves
  <2>3. j = i
    BY <1>2, <1>3, <2>2
  <2> QED
    BY <2>1, <2>3 DEF Means
<1>8. ASSUME NEW x \in Exits(inst)
      PROVE  \E c \in map : list[c[1] + 1] = x[1] /\ c[2] = x[2]
  <2>1. \A j \in 1..(i - 1) : ~Leaves(insts[j])
    BY <1>2, <1>3
  <2>2. \E c \in map : Means(list, c[1], x[1]) /\ c[2] = x[2]
    BY <1>1, <1>3, <1>8, <2>1 DEF BranchesMatch
  <2> QED
    BY <2>2 DEF Means
<1>9. ASSUME NEW x \in Exits(inst)
      PROVE  At(f, BB, Normal(f, Enter(f, x[2], b)), Target(BB, b, x[2]))
  <2>1. Targets(inst) \subseteq 1..Len(BB)
    BY <1>1, <1>3 DEF Sound
  <2>2. x[2] = 1 \/ x[2] \in Targets(inst)
    BY <1>6
  <2>3. x[2] \in 1..Len(BB)
    BY <1>1, <2>1, <2>2
  <2>4. x[2] = 1 \/ \E j \in 1..Len(f.blocks[b]) : x[2] \in Targets(f.blocks[b][j])
    BY <1>3, <2>2
  <2> QED
    BY <2>3, <2>4, EnterAt
<1> HIDE DEF g, p0, last, map, inst
<1>10. \A y \in Executes(f, p0) : \E e \in EdgesAt(g, last) : list[e[2] + 1] = y[1]
  <2>1. ASSUME NEW y \in Executes(f, p0)
        PROVE  \E e \in EdgesAt(g, last) : list[e[2] + 1] = y[1]
    <3>1. PICK x \in Exits(inst) : y = <<x[1], Enter(f, x[2], b)>>
      BY <1>6, <2>1
    <3>2. PICK c \in map : list[c[1] + 1] = x[1]
      BY <1>8
    <3>3. <<last, c[1], Target(BB, b, c[2])>> \in EdgesAt(g, last)
      BY <1>5
    <3> QED
      BY <3>1, <3>2, <3>3
  <2> QED
    BY <2>1
<1>11. \A e \in EdgesAt(g, last) : \E y \in Executes(f, p0) : list[e[2] + 1] = y[1]
  <2>1. ASSUME NEW e \in EdgesAt(g, last)
        PROVE  \E y \in Executes(f, p0) : list[e[2] + 1] = y[1]
    <3>1. PICK c \in map : e = <<last, c[1], Target(BB, b, c[2])>>
      BY <1>5, <2>1
    <3>2. PICK x \in Exits(inst) : list[c[1] + 1] = x[1]
      BY <1>7
    <3>3. <<x[1], Enter(f, x[2], b)>> \in Executes(f, p0)
      BY <1>6
    <3> QED
      BY <3>1, <3>2, <3>3
  <2> QED
    BY <2>1
<1>12. ASSUME NEW y \in Executes(f, p0), NEW e \in EdgesAt(g, last), list[e[2] + 1] = y[1]
       PROVE  At(f, BB, Normal(f, y[2]), e[3])
  <2>1. PICK x \in Exits(inst) : y = <<x[1], Enter(f, x[2], b)>>
    BY <1>6
  <2>2. PICK c \in map : e = <<last, c[1], Target(BB, b, c[2])>>
    BY <1>5
  <2>3. PICK z \in Exits(inst) : list[c[1] + 1] = z[1] /\ c[2] = z[2]
    BY <1>7
  <2>4. y[1] = x[1] /\ y[2] = Enter(f, x[2], b) /\ e[2] = c[1] /\ e[3] = Target(BB, b, c[2])
    BY <2>1, <2>2
  <2>5. z = x
    BY <1>6, <1>12, <2>3, <2>4
  <2> QED
    BY <1>9, <2>3, <2>4, <2>5
<1>13. Alike(list, f, BB, g, p0, last)
  BY <1>10, <1>11, <1>12 DEF Alike
<1> QED
  BY <1>4, <1>13 DEF g, p0

\* Wherever the flow is, the graph has the same instructions next.
LEMMA AlwaysAlike ==
    ASSUME NEW list, NEW f, NEW BB, Parts(list, f, BB), NEW n, Means(list, n, AssumeTrue),
           NEW p, NEW q, At(f, BB, p, q)
    PROVE  Alike(list, f, BB, WithAssertion(BB, n), p, q)
<1>1. CASE p = Fail /\ q = 1
  BY <1>1, FailAlike DEF Parts, Mirrors
<1>2. CASE p = End /\ q = 2
  BY <1>2, FailAlike DEF Parts, Mirrors
<1>3. CASE ~(p = Fail /\ q = 1) /\ ~(p = End /\ q = 2)
  <2>0. PICK b \in 1..Len(BB) : \E i \in 1..Len(f.blocks[b]) : \E from \in Nat :
            /\ p = <<b, i, from>> /\ ~Failing(f, b)
            /\ f.blocks[b][i].op # "Other"
            /\ IF f.blocks[b][i].op = "PHI"
               THEN from \in Incoming(BB[b]) /\ q = phi_nd(BB, b, from)
               ELSE q = first_nd(BB, b) + PlainCount(f.blocks[b], i - 1)
    BY <1>3 DEF At
  <2>1. PICK i \in 1..Len(f.blocks[b]), from \in Nat :
            /\ p = <<b, i, from>> /\ ~Failing(f, b)
            /\ f.blocks[b][i].op # "Other"
            /\ IF f.blocks[b][i].op = "PHI"
               THEN from \in Incoming(BB[b]) /\ q = phi_nd(BB, b, from)
               ELSE q = first_nd(BB, b) + PlainCount(f.blocks[b], i - 1)
    BY <2>0
  <2>2. Sound(f) /\ Len(BB) = Len(f.blocks)
    BY BlockMirrored
  <2>3. f.blocks[b] \in Seq(Instruction) /\ f.blocks[b][i].op # "Call"
    BY <2>1, <2>2, BlockEnd
  <2>4. f.blocks[b][i] \in Instruction
    BY <2>3
  <2>5. f.blocks[b][i].op = "PHI" \/ Plain(f.blocks[b][i]) \/ Leaves(f.blocks[b][i])
    BY <2>1, <2>3, <2>4 DEF Instruction, Plain, Leaves
  <2>6. CASE f.blocks[b][i].op = "PHI"
    BY <2>1, <2>6, PhiAlike
  <2>7. CASE Plain(f.blocks[b][i])
    BY <2>1, <2>7, PlainAlike DEF Plain
  <2>8. CASE Leaves(f.blocks[b][i])
    BY <2>1, <2>8, ExitAlike DEF Leaves
  <2> QED
    BY <2>5, <2>6, <2>7, <2>8
<1> QED
  BY <1>1, <1>2, <1>3

\* Positions and nodes are numbers.
LEMMA AtType ==
    ASSUME NEW list, NEW f, NEW BB, Parts(list, f, BB), NEW p, NEW q, At(f, BB, p, q)
    PROVE  p \in Nat \X Nat \X Nat /\ q \in Nat
<1>1. CASE p = Fail /\ q = 1
  BY <1>1 DEF Fail
<1>2. CASE p = End /\ q = 2
  BY <1>2 DEF End
<1>3. CASE ~(p = Fail /\ q = 1) /\ ~(p = End /\ q = 2)
  <2>0. PICK b \in 1..Len(BB) : \E i \in 1..Len(f.blocks[b]) : \E from \in Nat :
            /\ p = <<b, i, from>> /\ ~Failing(f, b)
            /\ f.blocks[b][i].op # "Other"
            /\ IF f.blocks[b][i].op = "PHI"
               THEN from \in Incoming(BB[b]) /\ q = phi_nd(BB, b, from)
               ELSE q = first_nd(BB, b) + PlainCount(f.blocks[b], i - 1)
    BY <1>3 DEF At
  <2>1. PICK i \in 1..Len(f.blocks[b]), from \in Nat :
            /\ p = <<b, i, from>> /\ ~Failing(f, b)
            /\ f.blocks[b][i].op # "Other"
            /\ IF f.blocks[b][i].op = "PHI"
               THEN from \in Incoming(BB[b]) /\ q = phi_nd(BB, b, from)
               ELSE q = first_nd(BB, b) + PlainCount(f.blocks[b], i - 1)
    BY <2>0
  <2>2. BlocksOK(BB) /\ Built(BB[b]) /\ Len(BB) \in Nat /\ Len(f.blocks[b]) \in Nat
    BY <2>1, BlockMirrored, BlockEnd
  <2>3. b \in Nat /\ i \in Nat /\ i - 1 \in Nat
    BY <2>2
  <2>4. first_nd(BB, b) \in Nat /\ phi_nd(BB, b, from) \in Nat /\ PlainCount(f.blocks[b], i - 1) \in Nat
    BY <2>2, <2>3, BuiltNodes, PhiNodes, PlainFinite
  <2>5. q \in Nat
    BY <2>1, <2>4
  <2> QED
    BY <2>1, <2>3, <2>5
<1> QED
  BY <1>1, <1>2, <1>3

\* The edges of a graph, as GraphExecutes reads them.
LEMMA GraphMoves ==
    ASSUME NEW g, NEW q
    PROVE  GraphExecutes(g, q) = {<<inst_list_[e[2] + 1], e[3]>> : e \in EdgesAt(g, q)}
BY DEF GraphExecutes, EdgesAt

\* One step of a position and a node together.
Together(f, g, m) ==
    {<<Normal(f, z[1][2]), z[2][2]>> :
        z \in {x \in Executes(f, m[1]) \X GraphExecutes(g, m[2]) : x[1][1] = x[2][1]}}

\* Such a step leads from matching places to matching places.
LEMMA TogetherAt ==
    ASSUME NEW f, NEW BB, Parts(inst_list_, f, BB), NEW n, Means(inst_list_, n, AssumeTrue),
           NEW m, At(f, BB, m[1], m[2]), NEW t \in Together(f, WithAssertion(BB, n), m)
    PROVE  \E p, q : t = <<p, q>> /\ At(f, BB, p, q)
<1> DEFINE g == WithAssertion(BB, n)
<1>1. Alike(inst_list_, f, BB, g, m[1], m[2])
  BY AlwaysAlike
<1> HIDE DEF g
<1>2. PICK z \in Executes(f, m[1]) \X GraphExecutes(g, m[2]) :
         z[1][1] = z[2][1] /\ t = <<Normal(f, z[1][2]), z[2][2]>>
  BY DEF Together, g
<1>3. PICK e \in EdgesAt(g, m[2]) : z[2] = <<inst_list_[e[2] + 1], e[3]>>
  BY <1>2, GraphMoves
<1>4. z[1] \in Executes(f, m[1]) /\ inst_list_[e[2] + 1] = z[1][1] /\ z[2][2] = e[3]
  BY <1>2, <1>3
<1>5. At(f, BB, Normal(f, z[1][2]), z[2][2])
  BY <1>1, <1>4 DEF Alike
<1> QED
  BY <1>2, <1>5

\* Everything Matched reaches is a matching place.
LEMMA MatchedAt ==
    ASSUME NEW f, NEW BB, Parts(inst_list_, f, BB), NEW n, Means(inst_list_, n, AssumeTrue),
           NEW k \in Nat, NEW m \in Matched(f, WithAssertion(BB, n), k)
    PROVE  At(f, BB, m[1], m[2])
<1> DEFINE g == WithAssertion(BB, n)
           U == {u \in (Nat \X Nat \X Nat) \X Nat : At(f, BB, u[1], u[2])}
           c == {<<Normal(f, Enter(f, 1, 0)), 3>>}
           After(X) == X \cup UNION
               {{<<Normal(f, z[1][2]), z[2][2]>> :
                    z \in {x \in Executes(f, v[1]) \X GraphExecutes(g, v[2]) :
                              x[1][1] = x[2][1]}} : v \in X}
           Rule(h) == [i \in 0..k |-> IF i = 0 THEN c ELSE After(h[i-1])]
           G == [p \in (1..k) \X SUBSET U |-> After(p[2])]
<1>1. c \in SUBSET U
  <2>1. At(f, BB, Normal(f, Enter(f, 1, 0)), 3)
    BY StartsAtThree
  <2>2. Normal(f, Enter(f, 1, 0)) \in Nat \X Nat \X Nat /\ 3 \in Nat
    BY <2>1, AtType
  <2> QED
    BY <2>1, <2>2
<1>2. ASSUME NEW X \in SUBSET U
      PROVE  After(X) \in SUBSET U
  <2>1. ASSUME NEW v \in X, NEW t \in Together(f, g, v)
        PROVE  t \in U
    <3>1. At(f, BB, v[1], v[2])
      OBVIOUS
    <3>2. PICK p, q : t = <<p, q>> /\ At(f, BB, p, q)
      BY <2>1, <3>1, TogetherAt
    <3>3. p \in Nat \X Nat \X Nat /\ q \in Nat
      BY <3>2, AtType
    <3> QED
      BY <3>2, <3>3
  <2>2. After(X) = X \cup UNION {Together(f, g, v) : v \in X}
    BY DEF Together
  <2> HIDE DEF After, U
  <2> QED
    BY <2>1, <2>2
<1>3. G \in [(1..k) \X SUBSET U -> SUBSET U]
  <2> HIDE DEF After, U
  <2> QED
    BY <1>2
<1>4. PICK h : Nats!IsIteration(h, SUBSET U, c, k, G)
  <2> HIDE DEF G, After, U, c
  <2> QED
    BY <1>1, <1>3, Nats!IterationExists
<1>5. ASSUME NEW i \in 1..k
      PROVE  h[i] = After(h[i-1])
  <2>1. h[i-1] \in SUBSET U /\ h[i] = G[<<i, h[i-1]>>]
    <3>1. i - 1 \in 0..k
      OBVIOUS
    <3> HIDE DEF G, U, c
    <3> QED
      BY <1>4, <3>1 DEF Nats!IsIteration
  <2> HIDE DEF After, U
  <2> QED
    BY <2>1
<1>6. h \in [0..k -> SUBSET U] /\ h[0] = c
  <2> HIDE DEF G, U, c
  <2> QED
    BY <1>4 DEF Nats!IsIteration
<1>7. h = Rule(h)
  <2> HIDE DEF After, U, c
  <2> QED
    BY <1>5, <1>6
<1> DEFINE N == CHOOSE j : j = Rule(j)
<1>8. Matched(f, g, k) = N[k]
  BY DEF Matched
<1>9. N = Rule(N)
  <2> HIDE DEF Rule
  <2> QED
    BY <1>7
<1> HIDE DEF N
<1>10. ASSUME NEW i \in 0..k
       PROVE  N[i] \in SUBSET U
  <2>1. N[0] = c /\ \A j \in 1..k : N[j] = After(N[j-1])
    <3>1. \A j \in 0..k : N[j] = IF j = 0 THEN c ELSE After(N[j-1])
      <4> HIDE DEF After, c
      <4> QED
        BY <1>9
    <3>2. 0 \in 0..k /\ \A j \in 1..k : j \in 0..k /\ j # 0
      OBVIOUS
    <3> HIDE DEF After, c
    <3> QED
      BY <3>1, <3>2
  <2> DEFINE T == {j \in Nat : j \in 0..k => N[j] \in SUBSET U}
  <2>2. 0 \in T
    <3> HIDE DEF After, U, c
    <3> QED
      BY <1>1, <2>1
  <2>3. ASSUME NEW j \in Nat, j \in T
        PROVE  j + 1 \in T
    <3>1. CASE j + 1 \in 0..k
      <4>1. j \in 0..k /\ j + 1 \in 1..k /\ (j + 1) - 1 = j
        BY <3>1
      <4>2. N[j] \in SUBSET U
        BY <2>3, <4>1
      <4>3. N[j + 1] = After(N[j])
        <5> HIDE DEF After, c
        <5> QED
          BY <2>1, <4>1
      <4> HIDE DEF After, U
      <4> QED
        BY <1>2, <4>2, <4>3
    <3>2. CASE j + 1 \notin 0..k
      BY <3>2
    <3> QED
      BY <3>1, <3>2
  <2>4. Nat \subseteq T
    <3> HIDE DEF T
    <3> QED
      BY <2>2, <2>3, Nats!NatSetInduction
  <2>5. i \in Nat
    OBVIOUS
  <2> QED
    BY <2>4, <2>5
<1>11. m \in U
  <2>1. k \in 0..k
    OBVIOUS
  <2> HIDE DEF U
  <2> QED
    BY <1>8, <1>10, <2>1
<1> QED
  BY <1>11

\* The same instructions come next, as PathsExact says of a position and a node.
SameNext(f, g, m) == {x[1] : x \in Executes(f, m[1])} = {y[1] : y \in GraphExecutes(g, m[2])}

\* The graph of a function has exactly its instruction sequences.
LEMMA GraphExact ==
    ASSUME NEW f, Sound(f), NEW g, GraphOf(inst_list_, f, g), NEW k \in Nat,
           NEW m \in Matched(f, g, k)
    PROVE  SameNext(f, g, m)
<1>1. PICK BB, n : Mirrors(inst_list_, f, BB) /\ Means(inst_list_, n, AssumeTrue) /\ g = WithAssertion(BB, n)
  BY DEF GraphOf
<1>2. Parts(inst_list_, f, BB)
  BY <1>1 DEF Parts
<1>3. At(f, BB, m[1], m[2])
  BY <1>1, <1>2, MatchedAt
<1>4. Alike(inst_list_, f, BB, g, m[1], m[2])
  BY <1>1, <1>2, <1>3, AlwaysAlike
<1>5. ASSUME NEW y \in GraphExecutes(g, m[2])
      PROVE  \E e \in EdgesAt(g, m[2]) : y[1] = inst_list_[e[2] + 1]
  BY GraphMoves
<1>6. ASSUME NEW e \in EdgesAt(g, m[2])
      PROVE  \E y \in GraphExecutes(g, m[2]) : y[1] = inst_list_[e[2] + 1]
  <2>1. <<inst_list_[e[2] + 1], e[3]>> \in GraphExecutes(g, m[2])
    BY GraphMoves
  <2> QED
    BY <2>1
<1>7. ASSUME NEW x \in Executes(f, m[1])
      PROVE  \E y \in GraphExecutes(g, m[2]) : y[1] = x[1]
  BY <1>4, <1>6 DEF Alike
<1>8. ASSUME NEW y \in GraphExecutes(g, m[2])
      PROVE  \E x \in Executes(f, m[1]) : y[1] = x[1]
  BY <1>4, <1>5 DEF Alike
<1> QED
  BY <1>7, <1>8 DEF SameNext

\* The function of a thread is the one that bears its name.
LEMMA ThreadOf ==
    ASSUME NEW i \in 1..Len(thread_names_), module \in Modules,
           NEW k \in 1..Len(module), module[k].name = thread_names_[i]
    PROVE  ThreadFunc(i) = module[k]
<1>1. DOMAIN module = 1..Len(module) /\ \A a, b \in 1..Len(module) : module[a].name = module[b].name => a = b
  BY ModuleType
<1>2. \A h \in {module[j] : j \in DOMAIN module} : h.name = thread_names_[i] => h = module[k]
  BY <1>1
<1>3. module[k] \in {module[j] : j \in DOMAIN module}
  BY <1>1
<1> QED
  BY <1>2, <1>3 DEF ThreadFunc

\* PathsExact holds in every state of the invariant.
LEMMA PathsFollow ==
    ASSUME \A m \in Modules : \A k \in 1..Len(m) : m[k].name = "__ASSERT" \/ Structured(m[k]),
           IInvParse, IInvPaths
    PROVE  PathsExact
<1>1. /\ module \in Modules /\ thread_graphs_ \in Seq(GraphType) /\ Len(thread_graphs_) \in Nat
      /\ Len(thread_graphs_) <= Len(thread_names_) /\ Len(thread_names_) \in Nat
      /\ \A i \in 1..Len(thread_names_) : \E k \in 1..Len(module) : module[k].name = thread_names_[i]
  BY DEF IInvParse, ParseTypes, ParseNames
<1>2. ASSUME NEW i \in 1..Len(thread_graphs_), NEW m \in Matched(ThreadFunc(i), thread_graphs_[i], thread_graphs_[i].size)
      PROVE  {x[1] : x \in Executes(ThreadFunc(i), m[1])} =
                {y[1] : y \in GraphExecutes(thread_graphs_[i], m[2])}
  <2>1. i \in 1..Len(thread_names_)
    BY <1>1
  <2>2. PICK k \in 1..Len(module) : module[k].name = thread_names_[i]
    BY <1>1, <2>1
  <2>3. ThreadFunc(i) = module[k]
    BY <1>1, <2>1, <2>2, ThreadOf
  <2>4. module[k].name # "__ASSERT"
    BY <2>1, <2>2 DEF IInvPaths, PathsNames
  <2>5. Sound(module[k])
    <3>1. Structured(module[k])
      BY <1>1, <2>4
    <3> QED
      BY <1>1, <3>1, ModuleType DEF Sound
  <2>6. GraphOf(inst_list_, module[k], thread_graphs_[i])
    BY <2>2 DEF IInvPaths, PathsGraphs
  <2>7. thread_graphs_[i].size \in Nat
    <3>1. thread_graphs_[i] \in GraphType
      BY <1>1
    <3> QED
      BY <3>1 DEF GraphType
  <2>8. m \in Matched(module[k], thread_graphs_[i], thread_graphs_[i].size)
    BY <1>2, <2>3
  <2>9. SameNext(module[k], thread_graphs_[i], m)
    BY <2>5, <2>6, <2>7, <2>8, GraphExact
  <2> QED
    BY <2>3, <2>9 DEF SameNext
<1>3. DOMAIN thread_graphs_ = 1..Len(thread_graphs_)
  BY <1>1
<1> QED
  BY <1>2, <1>3 DEF PathsExact

\* "Program will parse every function (thread) present in the code and create an adjacency
\* list representation of its automata" (Program.h:42): if the functions are Structured,
\* every graph has exactly the instruction sequences of its function, from node 3 on and
\* however far it runs, whatever numbers FindInstruction shares or misses.
THEOREM ExactPaths ==
    ASSUME \A m \in Modules : \A k \in 1..Len(m) : m[k].name = "__ASSERT" \/ Structured(m[k])
    PROVE  SpecSC => []PathsExact
<1>1. IInvSC /\ IInvPaths => PathsExact
  BY PathsFollow DEF IInvSC
<1> QED
  BY <1>1, InductivePaths, PTL
===================================================================================
