----------------------------- MODULE TreeProofs -----------------------------
(***************************************************************************)
(* The tree of pre-images: what PassOne builds and what PassTwo leaves of  *)
(* it.                                                                     *)
(*                                                                         *)
(* PassOne computes exact pre-images, for every program, trace, formula    *)
(* and choice of the solver.  The first part is about pre-images only.     *)
(*                                                                         *)
(* HMapExact is not inductive: it says nothing of the calls that have not  *)
(* returned.  The inductive invariant adds that the call stack lists the   *)
(* unfinished states, in the order of their allocation (so every child of  *)
(* the running call is finished), and what each suspended call has         *)
(* established about its own state so far.                                 *)
(***************************************************************************)
EXTENDS PassTwo, FiniteSetTheorems, SequenceTheorems, TLAPS

(***************************************************************************)
(* Induction over the natural numbers, for a set of numbers: the smallest  *)
(* number outside the set would be the successor of a member.              *)
(***************************************************************************)
\* A non-empty set of natural numbers has a least member.
LEMMA LeastNat ==
    ASSUME NEW T \in SUBSET Nat, T # {}
    PROVE  \E x \in T : \A y \in T : x <= y
<1>1. PICK n \in T : TRUE
  OBVIOUS
<1> DEFINE S == 0..n
           Downs == {0..k : k \in T \cap S}
<1>2. IsFiniteSet(S)
  BY FS_Interval
<1>3. Downs \subseteq FiniteSubsetsOf(S)
  <2>1. ASSUME NEW k \in T \cap S
        PROVE  0..k \in FiniteSubsetsOf(S)
    BY <1>2, FS_Subset DEF FiniteSubsetsOf
  <2> QED
    BY <2>1
<1>4. Downs # {}
  BY <1>1
<1>5. \E A \in Downs : \A B \in Downs : <<B, A>> \notin StrictSubsetOrdering(S)
  <2>1. IsWellFoundedOn(StrictSubsetOrdering(S), FiniteSubsetsOf(S))
    BY FS_StrictSubsetOrderingWellFounded
  <2> HIDE DEF Downs, S
  <2> QED
    BY <2>1, <1>3, <1>4, WFMin
<1>6. PICK k \in T \cap S :
        \A j \in T \cap S : <<0..j, 0..k>> \notin StrictSubsetOrdering(S)
  BY <1>5
<1>7. ASSUME NEW y \in T, y < k
      PROVE  FALSE
  <2>1. y \in S
    BY <1>7
  <2>2. 0..y \subseteq 0..k /\ k \in 0..k /\ k \notin 0..y
    BY <1>7
  <2>3. 0..y \in SUBSET S /\ 0..k \in SUBSET S
    BY <1>6, <2>1
  <2> QED
    BY <1>6, <2>1, <2>2, <2>3 DEF StrictSubsetOrdering
<1> QED
  BY <1>7

\* A set that holds 0 and the successor of each of its numbers holds them all.
LEMMA NatSetInduction ==
    ASSUME NEW T, 0 \in T, \A n \in Nat : n \in T => n + 1 \in T
    PROVE  Nat \subseteq T
<1>1. SUFFICES ASSUME Nat \ T # {}
               PROVE  FALSE
  OBVIOUS
<1>2. PICK m \in Nat \ T : \A y \in Nat \ T : m <= y
  BY <1>1, LeastNat
<1>3. m # 0 /\ m - 1 \in Nat
  OBVIOUS
<1>4. m - 1 \in T
  BY <1>2, <1>3
<1> QED
  BY <1>2, <1>3, <1>4

-----------------------------------------------------------------------------
(***************************************************************************)
(* One symbol.                                                             *)
(***************************************************************************)
\* A step of a symbol ends in a state, and in one state only.
LEMMA StepType ==
    ASSUME NEW a, NEW s \in State, NEW t, Step(a, s, t)
    PROVE  t \in State
<1>1. CASE Assigns(a, s, t)
  BY <1>1, MapAssumption DEF Assigns, State, Expr
<1>2. CASE Assumes(a, s, t)
  BY <1>2 DEF Assumes
<1>3. CASE Swaps(a, s, t)
  <2>1. mCASLHRHMap[a] \in [ptr : Var, old : Expr, new : Expr, ret : Var]
    BY <1>3, MapAssumption DEF Swaps
  <2> DEFINE c == mCASLHRHMap[a]
  <2>2. c.ptr \in Var /\ c.ret \in Var /\ c.new[s] \in Val
    BY <2>1 DEF Expr
  <2>3. 0 \in Val /\ 1 \in Val
    BY SymAssumption
  <2> QED
    BY <1>3, <2>2, <2>3 DEF Swaps, State
<1> QED
  BY <1>1, <1>2, <1>3 DEF Step

LEMMA StepDeterministic ==
    ASSUME NEW a, NEW s, NEW t, NEW u, Step(a, s, t), Step(a, s, u)
    PROVE  t = u
BY SymAssumption DEF Step, Assigns, Assumes, Swaps

\* The pre-image of an assignment is exact.
LEMMA PreRWExact ==
    ASSUME NEW a \in RWSym, NEW phi \in SUBSET State, NEW s \in State
    PROVE  s \in PreRW(a, phi) <=> \E t \in phi : Step(a, s, t)
BY SymAssumption DEF PreRW, Substitute, Step, Assigns, Assumes, Swaps

\* The pre-image of an assumed condition is exact.
LEMMA PreAssumeExact ==
    ASSUME NEW a \in AssumeSym, NEW phi \in SUBSET State, NEW s \in State
    PROVE  s \in PreAssume(a, phi) <=> \E t \in phi : Step(a, s, t)
BY SymAssumption DEF PreAssume, Step, Assigns, Assumes, Swaps

\* The two substitutions of PassOne's cas branch compute the exact pre-image.
LEMMA PreCASExact ==
    ASSUME NEW a \in CASSym, NEW phi \in SUBSET State, NEW s \in State
    PROVE  s \in PreCAS(a, phi) <=> \E t \in phi : Step(a, s, t)
<1> DEFINE c == mCASLHRHMap[a]
           s1 == [s EXCEPT ![c.ret] = 1]
           s0 == [s EXCEPT ![c.ret] = 0]
           won == [s EXCEPT ![c.ptr] = c.new[s], ![c.ret] = 1]
<1>1. c \in [ptr : Var, old : Expr, new : Expr, ret : Var]
  BY MapAssumption
<1>2. c.ptr \in Var /\ c.ret \in Var /\ c.ptr # c.ret /\ c.new[s] \in Val
  BY <1>1, SSAAssumption DEF Expr
<1>3. 0 \in Val /\ 1 \in Val
  BY SymAssumption
<1>4. s1 \in State /\ s0 \in State
  BY <1>2, <1>3 DEF State
<1>5. c.new[s1] = c.new[s]
  BY <1>3, SSAAssumption
<1>6. [s1 EXCEPT ![c.ptr] = c.new[s1]] = won
  BY <1>2, <1>5 DEF State
<1>7. Num(1)[s] = 1 /\ Num(0)[s] = 0
  BY DEF Num
<1>8. s \in Substitute(Substitute(phi, c.ptr, c.new), c.ret, Num(1)) <=> won \in phi
  BY <1>4, <1>6, <1>7 DEF Substitute
<1>9. s \in Substitute(phi, c.ret, Num(0)) <=> s0 \in phi
  BY <1>7 DEF Substitute
<1>10. s \in PreCAS(a, phi) <=> \/ s[c.ptr] = c.old[s] /\ won \in phi
                                \/ s[c.ptr] # c.old[s] /\ s0 \in phi
  BY <1>8, <1>9 DEF PreCAS, Compares, AfterSuccess, AfterFailure
<1>11. \A t : Step(a, s, t) <=> \/ s[c.ptr] = c.old[s] /\ t = won
                                \/ s[c.ptr] # c.old[s] /\ t = s0
  BY SymAssumption DEF Step, Assigns, Assumes, Swaps
<1> QED
  BY <1>10, <1>11

(***************************************************************************)
(* A state satisfies the formula PassOne builds for a symbol exactly when  *)
(* executing the symbol from it ends in a state of the given formula       *)
(* (AFAState.cpp, the three branches of the loop over the residual word).  *)
(***************************************************************************)
THEOREM PreExact ==
    ASSUME NEW a \in mAllSyms, NEW phi \in SUBSET State, NEW s \in State
    PROVE  s \in Pre(a, phi) <=> \E t \in phi : Step(a, s, t)
<1>1. CASE a \in RWSym
  BY <1>1, PreRWExact, SymAssumption DEF Pre
<1>2. CASE a \in CASSym
  BY <1>2, PreCASExact, SymAssumption DEF Pre
<1>3. CASE a \in AssumeSym
  BY <1>3, PreAssumeExact, SymAssumption DEF Pre
<1> QED
  BY <1>1, <1>2, <1>3 DEF mAllSyms

LEMMA PreType ==
    ASSUME NEW a \in mAllSyms, NEW phi \in SUBSET State
    PROVE  Pre(a, phi) \in SUBSET State
<1>1. CASE a \in RWSym
  BY <1>1, SymAssumption DEF Pre, PreRW, Substitute
<1>2. CASE a \in CASSym
  BY <1>2, SymAssumption DEF Pre, PreCAS, AfterSuccess, AfterFailure, Substitute
<1>3. CASE a \in AssumeSym
  BY <1>3, SymAssumption DEF Pre, PreAssume
<1> QED
  BY <1>1, <1>2, <1>3 DEF mAllSyms

\* An assignment to a variable the formula does not depend on can be skipped.
LEMMA PreIndependent ==
    ASSUME NEW a \in RWSym, NEW phi \in SUBSET State,
           Independent(phi, mRWLHRHMap[a].lhs)
    PROVE  Pre(a, phi) = phi
<1>1. \A s \in State : mRWLHRHMap[a].rhs[s] \in Val
  BY MapAssumption DEF Expr
<1> QED
  BY <1>1, SymAssumption DEF Pre, PreRW, Substitute, Independent

-----------------------------------------------------------------------------
(***************************************************************************)
(* Words.                                                                  *)
(***************************************************************************)
LEMMA WordPreType ==
    ASSUME NEW w, NEW k \in Nat, NEW phi
    PROVE  WordPre(w, k, phi) \in SUBSET State
BY DEF WordPre, Runs

\* Before no symbol at all, the formula itself has to hold.
LEMMA WordPreZero ==
    ASSUME NEW w, NEW phi \in SUBSET State
    PROVE  WordPre(w, 0, phi) = phi
<1>1. ASSUME NEW s \in phi
      PROVE  s \in WordPre(w, 0, phi)
  <2> DEFINE r == [i \in 0..0 |-> s]
  <2>1. r \in Runs(w, 0) /\ r[0] = s
    BY DEF Runs
  <2> QED
    BY <2>1 DEF WordPre
<1> QED
  BY <1>1 DEF WordPre

\* The last symbol of a word can be replaced by its pre-image.
LEMMA WordPreStep ==
    ASSUME NEW w \in Seq(mAllSyms), NEW k \in 1..Len(w),
           NEW phi \in SUBSET State
    PROVE  WordPre(w, k, phi) = WordPre(w, k - 1, Pre(w[k], phi))
<1>1. w[k] \in mAllSyms /\ k \in Nat /\ k - 1 \in Nat
  OBVIOUS
<1>2. ASSUME NEW s \in WordPre(w, k, phi)
      PROVE  s \in WordPre(w, k - 1, Pre(w[k], phi))
  <2>1. PICK r \in Runs(w, k) : r[k] \in phi /\ s = r[0]
    BY <1>2 DEF WordPre
  <2> DEFINE q == [i \in 0..(k-1) |-> r[i]]
  <2>2. q \in Runs(w, k - 1) /\ q[0] = r[0] /\ q[k-1] = r[k-1]
    BY <1>1, <2>1 DEF Runs
  <2>3. r[k-1] \in State /\ Step(w[k], r[k-1], r[k])
    BY <1>1, <2>1 DEF Runs
  <2>4. r[k-1] \in Pre(w[k], phi)
    BY <1>1, <2>1, <2>3, PreExact
  <2> QED
    BY <2>1, <2>2, <2>4 DEF WordPre
<1>3. ASSUME NEW s \in WordPre(w, k - 1, Pre(w[k], phi))
      PROVE  s \in WordPre(w, k, phi)
  <2>1. PICK q \in Runs(w, k - 1) : q[k-1] \in Pre(w[k], phi) /\ s = q[0]
    BY <1>3 DEF WordPre
  <2>2. q \in [0..(k-1) -> State] /\ q[k-1] \in State
    BY <1>1, <2>1 DEF Runs
  <2>3. PICK t \in phi : Step(w[k], q[k-1], t)
    BY <1>1, <2>1, <2>2, PreExact
  <2> DEFINE r == [i \in 0..k |-> IF i = k THEN t ELSE q[i]]
  <2>4. r \in [0..k -> State]
    BY <1>1, <2>2
  <2>5. r[0] = q[0] /\ r[k] = t
    BY <1>1
  <2>6. ASSUME NEW i \in 1..k
        PROVE  Step(w[i], r[i-1], r[i])
    <3>1. CASE i = k
      <4>1. r[i] = t /\ r[i-1] = q[k-1]
        BY <1>1, <3>1
      <4> QED
        BY <3>1, <4>1, <2>3
    <3>2. CASE i # k
      <4>1. i \in 1..(k-1) /\ r[i] = q[i] /\ r[i-1] = q[i-1]
        BY <1>1, <3>2
      <4> QED
        BY <4>1, <2>1 DEF Runs
    <3> QED
      BY <3>1, <3>2
  <2> HIDE DEF r
  <2>7. r \in Runs(w, k)
    BY <2>4, <2>6 DEF Runs
  <2> QED
    BY <2>1, <2>3, <2>5, <2>7 DEF WordPre
<1> QED
  BY <1>2, <1>3

\* Two runs of the same word from the same state are the same run.
LEMMA RunsDeterministic ==
    ASSUME NEW w, NEW k \in Nat, NEW r \in Runs(w, k), NEW q \in Runs(w, k),
           r[0] = q[0]
    PROVE  r = q
<1> DEFINE T == {i \in Nat : i <= k => r[i] = q[i]}
<1>1. 0 \in T
  OBVIOUS
<1>2. ASSUME NEW n \in Nat, n \in T
      PROVE  n + 1 \in T
  <2>1. SUFFICES ASSUME n + 1 <= k
                 PROVE  r[n+1] = q[n+1]
    OBVIOUS
  <2>2. r[n] = q[n] /\ n + 1 \in 1..k
    BY <1>2, <2>1
  <2>3. Step(w[n+1], r[(n+1)-1], r[n+1]) /\ Step(w[n+1], q[(n+1)-1], q[n+1])
    BY <2>2 DEF Runs
  <2>4. (n+1)-1 = n
    OBVIOUS
  <2> QED
    BY <2>2, <2>3, <2>4, StepDeterministic
<1> HIDE DEF T
<1>3. Nat \subseteq T
  BY <1>1, <1>2, NatSetInduction
<1>4. \A i \in 0..k : r[i] = q[i]
  BY <1>3 DEF T
<1>5. r \in [0..k -> State] /\ q \in [0..k -> State]
  BY DEF Runs
<1> QED
  BY <1>4, <1>5

\* The pre-image under a word distributes over conjunction and disjunction.
LEMMA WordPreConjunction ==
    ASSUME NEW w, NEW k \in Nat, NEW F \in SUBSET SUBSET State, F # {},
           NEW s \in State
    PROVE  s \in WordPre(w, k, {t \in State : \A phi \in F : t \in phi})
              <=> \A phi \in F : s \in WordPre(w, k, phi)
<1>1. ASSUME \A phi \in F : s \in WordPre(w, k, phi)
      PROVE  s \in WordPre(w, k, {t \in State : \A phi \in F : t \in phi})
  <2>1. PICK phi \in F : TRUE
    OBVIOUS
  <2>2. PICK r \in Runs(w, k) : r[0] = s /\ r[k] \in phi
    BY <1>1, <2>1 DEF WordPre
  <2>3. ASSUME NEW psi \in F
        PROVE  r[k] \in psi
    <3>1. PICK q \in Runs(w, k) : q[0] = s /\ q[k] \in psi
      BY <1>1 DEF WordPre
    <3> QED
      BY <2>2, <3>1, RunsDeterministic
  <2> QED
    BY <2>2, <2>3 DEF WordPre
<1>2. ASSUME s \in WordPre(w, k, {t \in State : \A phi \in F : t \in phi}),
             NEW phi \in F
      PROVE  s \in WordPre(w, k, phi)
  BY <1>2 DEF WordPre
<1> QED
  BY <1>1, <1>2

LEMMA WordPreDisjunction ==
    ASSUME NEW w, NEW k \in Nat, NEW F \in SUBSET SUBSET State
    PROVE  WordPre(w, k, UNION F) = UNION {WordPre(w, k, phi) : phi \in F}
BY DEF WordPre
-----------------------------------------------------------------------------
(***************************************************************************)
(* The invariant.                                                          *)
(***************************************************************************)
\* The unfinished states are those of the calls, the youngest one last.
CallStack ==
    /\ \A i \in 1..Len(stack) : stack[i].st \in 1..Len(node)
    /\ \A i, j \in 1..Len(stack) : i < j => stack[i].st < stack[j].st
    /\ \A n \in 1..Len(node) :
          node[n].hmap = NULL <=> \E i \in 1..Len(stack) : stack[i].st = n

\* What the call fr knows: the symbols it has skipped do not matter, and the
\* states it has created stand for the rest of its task.
LitFrame(fr, nds) ==
    LET nd  == nds[fr.st]
        phi == Meaning[nd.amap]
    IN  /\ WordPre(word, nd.rword, phi) = WordPre(word, fr.pos, phi)
        /\ \A m \in fr.next :
              /\ fr.pos > 0
              /\ nds[m].rword = fr.pos - 1
              /\ Meaning[nds[m].amap] = Pre(word[fr.pos], phi)

ArgFrame(fr, nds) ==
    LET nd == nds[fr.st]
    IN  /\ fr.todo \subseteq Args[nd.amap]
        /\ \A m \in fr.next : /\ nds[m].rword = nd.rword
                              /\ nds[m].amap \in Args[nd.amap]
        /\ \A f \in Args[nd.amap] :
              f \in fr.todo \/ \E m \in fr.next : nds[m].amap = f

FrameOK(fr, nds) ==
    /\ fr.pos <= nds[fr.st].rword
    /\ fr.next \subseteq (fr.st + 1)..Len(nds)
    /\ mType[nds[fr.st].amap] = "ORLit" => LitFrame(fr, nds)
    /\ mType[nds[fr.st].amap] # "ORLit" => ArgFrame(fr, nds)

Frames == \A i \in 1..Len(stack) : FrameOK(stack[i], node)

Root == node[1].amap = Post /\ node[1].rword = Len(word)

ResidualWords == \A n \in 1..Len(node) : node[n].rword <= Len(word)

\* A state is created as accepted only if nothing is left to be computed.
AcceptedEarly ==
    \A n \in 1..Len(node) :
        node[n].hmap = NULL /\ node[n].acc =>
            node[n].amap = FalseExp \/ node[n].rword = 0

Verdict == pc # "PassOne" => /\ stack = <<>>
                             /\ pc = "Error" <=> node[1].hmap # {}

IInv ==
    /\ TypeOK
    /\ CallStack
    /\ Frames
    /\ Root
    /\ ResidualWords
    /\ AcceptedEarly
    /\ HMapExact
    /\ Verdict

-----------------------------------------------------------------------------
(***************************************************************************)
(* Facts about the running call that every action uses.                    *)
(***************************************************************************)
LEMMA RunningFacts ==
    ASSUME IInv, Running
    PROVE  /\ Len(stack) \in Nat \ {0}
           /\ Len(node) \in Nat \ {0}
           /\ top \in Frame
           /\ top.st \in 1..Len(node)
           /\ this \in Node
           /\ this.hmap = NULL
           /\ this.rword <= Len(word)
           /\ FrameOK(top, node)
           /\ word \in Seq(mAllSyms)
           /\ Meaning[this.amap] \in SUBSET State
<1>1. stack \in Seq(Frame) /\ stack # <<>> /\ node \in Seq(Node) /\ Len(node) > 0
  BY DEF IInv, TypeOK, Running
<1>2. Len(stack) \in Nat \ {0} /\ Len(node) \in Nat \ {0}
  BY <1>1
<1>3. Len(stack) \in 1..Len(stack)
  BY <1>2
<1>4. top \in Frame
  BY <1>1, <1>3, ElementOfSeq DEF top
<1>5. top.st \in 1..Len(node) /\ node[top.st].hmap = NULL
  BY <1>3 DEF IInv, CallStack, top
<1>6. this \in Node
  BY <1>1, <1>5, ElementOfSeq DEF this
<1>7. Meaning[this.amap] \in SUBSET State
  BY <1>6, FormulaAssumption DEF Node
<1>8. FrameOK(top, node)
  BY <1>3 DEF IInv, Frames, top
<1>9. word \in Seq(mAllSyms)
  BY WordAssumption DEF IInv, TypeOK
<1>10. this.rword <= Len(word)
  BY <1>5 DEF IInv, ResidualWords, this
<1> QED
  BY <1>2, <1>4, <1>5, <1>6, <1>7, <1>8, <1>9, <1>10 DEF this

\* The children of the running call have returned.
LEMMA ChildrenDone ==
    ASSUME IInv, Running, NEW m \in top.next
    PROVE  /\ m \in (top.st + 1)..Len(node)
           /\ node[m] \in Node
           /\ node[m].hmap \in SUBSET State
           /\ node[m].hmap = WordPre(word, node[m].rword, Meaning[node[m].amap])
<1>1. m \in (top.st + 1)..Len(node) /\ m \in 1..Len(node)
  BY RunningFacts DEF FrameOK
<1>2. node[m] \in Node
  BY <1>1, ElementOfSeq DEF IInv, TypeOK
<1>3. \A i \in 1..Len(stack) : stack[i].st # m
  <2>1. SUFFICES ASSUME NEW i \in 1..Len(stack)
                 PROVE  stack[i].st <= top.st
    BY <1>1, RunningFacts DEF IInv, CallStack
  <2>2. CASE i = Len(stack)
    BY <2>2, RunningFacts DEF top
  <2>3. CASE i # Len(stack)
    <3>1. i < Len(stack) /\ Len(stack) \in 1..Len(stack)
      BY <2>3, RunningFacts
    <3>2. stack[i].st < stack[Len(stack)].st /\ stack[i].st \in 1..Len(node)
      BY <3>1 DEF IInv, CallStack
    <3> QED
      BY <3>2, RunningFacts DEF top
  <2> QED
    BY <2>2, <2>3
<1>4. node[m].hmap # NULL
  BY <1>1, <1>3 DEF IInv, CallStack
<1> QED
  BY <1>1, <1>2, <1>4 DEF IInv, HMapExact, Node

(***************************************************************************)
(* The two ways in which an action changes the tree.                       *)
(***************************************************************************)
\* A call that creates a state which fits its own task keeps the invariant.
LEMMA RecurseStep ==
    ASSUME IInv, Running,
           NEW fr \in Frame, fr.st = top.st,
           NEW nd \in Node, nd.hmap = NULL, nd.rword <= Len(word),
           nd.acc => nd.amap = FalseExp \/ nd.rword = 0,
           FrameOK([fr EXCEPT !.next = @ \cup {Len(node) + 1}], Append(node, nd)),
           Recurse(fr, nd)
    PROVE  IInv'
<1> DEFINE n == Len(node) + 1
           k == Len(stack)
           fr2 == [fr EXCEPT !.next = @ \cup {n}]
           mid == [stack EXCEPT ![k] = fr2]
<1>1. /\ k \in Nat \ {0}
      /\ Len(node) \in Nat \ {0}
      /\ stack \in Seq(Frame)
      /\ node \in Seq(Node)
      /\ n \in Nat
      /\ k \in 1..k
  BY RunningFacts DEF IInv, TypeOK
<1>2. /\ node' = Append(node, nd)
      /\ stack' = Append(mid, Call(n, nd))
      /\ word' = word
      /\ pc' = pc
      /\ allStates' \subseteq allStates \cup {n}
  BY DEF Recurse
<1>3. /\ node' \in Seq(Node)
      /\ Len(node') = n
      /\ node'[n] = nd
      /\ \A m \in 1..Len(node) : node'[m] = node[m]
  BY <1>1, <1>2, AppendProperties
<1>4. fr2 \in Frame
  BY <1>1 DEF Frame
<1>5. Call(n, nd) \in Frame
  BY <1>1, FormulaAssumption DEF Call, Frame, Node
<1>6. mid \in Seq(Frame) /\ Len(mid) = k
      /\ \A i \in 1..k : mid[i] = IF i = k THEN fr2 ELSE stack[i]
  BY <1>1, <1>4, ExceptSeq
<1> HIDE DEF mid
<1>7. /\ stack' \in Seq(Frame)
      /\ Len(stack') = k + 1
      /\ stack'[k+1] = Call(n, nd)
      /\ stack'[k] = fr2
      /\ \A i \in 1..k : i # k => stack'[i] = stack[i]
  <2> DEFINE c == Call(n, nd)
  <2>1. c \in Frame /\ stack' = Append(mid, c)
    BY <1>2, <1>5
  <2> HIDE DEF c
  <2>2. /\ stack' \in Seq(Frame)
        /\ Len(stack') = Len(mid) + 1
        /\ \A i \in 1..Len(mid) : stack'[i] = mid[i]
        /\ stack'[Len(mid) + 1] = c
    BY <1>6, <2>1, AppendProperties
  <2> QED
    BY <1>1, <1>6, <2>2 DEF c
<1>8. fr2.st = top.st /\ Call(n, nd).st = n
  BY DEF Call, Frame
<1>9. \A i \in 1..k : stack'[i].st = stack[i].st
  BY <1>1, <1>7, <1>8 DEF top
<1>10. TypeOK'
  BY <1>1, <1>2, <1>3, <1>7 DEF IInv, TypeOK
<1>11. CallStack'
  <2>1. \A i \in 1..k : stack[i].st \in 1..Len(node)
    BY DEF IInv, CallStack
  <2>2. \A i \in 1..Len(stack') : stack'[i].st \in 1..Len(node')
    BY <1>1, <1>3, <1>7, <1>8, <1>9, <2>1
  <2>3. \A i, j \in 1..Len(stack') : i < j => stack'[i].st < stack'[j].st
    <3>1. SUFFICES ASSUME NEW i \in 1..(k+1), NEW j \in 1..(k+1), i < j
                   PROVE  stack'[i].st < stack'[j].st
      BY <1>7
    <3>2. CASE j = k + 1
      BY <1>1, <1>7, <1>8, <1>9, <2>1, <3>1, <3>2
    <3>3. CASE j # k + 1
      <4>1. i \in 1..k /\ j \in 1..k
        BY <1>1, <3>1, <3>3
      <4> QED
        BY <1>9, <3>1, <4>1 DEF IInv, CallStack
    <3> QED
      BY <3>2, <3>3
  <2>4. ASSUME NEW m \in 1..Len(node')
        PROVE  node'[m].hmap = NULL <=> \E i \in 1..Len(stack') : stack'[i].st = m
    <3>1. CASE m = n
      BY <1>1, <1>3, <1>7, <1>8, <3>1
    <3>2. CASE m # n
      <4>1. m \in 1..Len(node) /\ node'[m] = node[m]
        BY <1>1, <1>3, <3>2
      <4>2. node[m].hmap = NULL <=> \E i \in 1..k : stack[i].st = m
        BY <4>1 DEF IInv, CallStack
      <4>3. (\E i \in 1..k : stack[i].st = m)
               <=> \E i \in 1..(k+1) : stack'[i].st = m
        <5>1. ASSUME NEW i \in 1..(k+1), stack'[i].st = m
              PROVE  \E j \in 1..k : stack[j].st = m
          <6>1. i \in 1..k
            BY <1>1, <1>7, <1>8, <3>2, <5>1
          <6> QED
            BY <1>9, <5>1, <6>1
        <5> QED
          BY <1>1, <1>9, <5>1
      <4> QED
        BY <1>7, <4>1, <4>2, <4>3
    <3> QED
      BY <3>1, <3>2
  <2> QED
    BY <2>2, <2>3, <2>4 DEF CallStack
<1>12. Frames'
  <2>1. SUFFICES ASSUME NEW i \in 1..(k+1)
                 PROVE  FrameOK(stack[i], node)'
    BY <1>7 DEF Frames
  <2>2. CASE i = k + 1
    <3>1. node'[n] = nd /\ nd.rword \in Nat
      BY <1>3 DEF Node
    <3>2. stack'[i].st = n /\ stack'[i].pos = nd.rword /\ stack'[i].next = {}
      BY <1>7, <2>2 DEF Call
    <3>3. mType[nd.amap] # "ORLit" => stack'[i].todo = Args[nd.amap]
      BY <1>7, <2>2 DEF Call
    <3> QED
      BY <3>1, <3>2, <3>3 DEF FrameOK, LitFrame, ArgFrame
  <2>3. CASE i = k
    <3> DEFINE nds == Append(node, nd)
    <3>1. FrameOK(fr2, nds)
      OBVIOUS
    <3>2. stack'[i] = fr2 /\ word' = word /\ node' = nds
      BY <1>2, <1>7, <2>3
    <3> HIDE DEF fr2, nds
    <3>3. LitFrame(fr2, nds) => LitFrame(stack[i], node)'
      BY <3>2 DEF LitFrame
    <3>4. ArgFrame(fr2, nds) => ArgFrame(stack[i], node)'
      BY <3>2 DEF ArgFrame
    <3> QED
      BY <3>1, <3>2, <3>3, <3>4 DEF FrameOK
  <2>4. CASE i # k /\ i # k + 1
    <3>1. i \in 1..k /\ stack'[i] = stack[i]
      BY <1>1, <1>7, <2>4
    <3>2. FrameOK(stack[i], node) /\ stack[i].st \in 1..Len(node)
      BY <3>1 DEF IInv, Frames, CallStack
    <3>3. stack[i].next \subseteq 1..Len(node)
      BY <3>2 DEF FrameOK
    <3>4. node'[stack[i].st] = node[stack[i].st]
          /\ \A m \in stack[i].next : node'[m] = node[m]
      BY <1>3, <3>2, <3>3
    <3>5. (stack[i].st + 1)..Len(node) \subseteq (stack[i].st + 1)..Len(node')
      BY <1>1, <1>3, <3>2
    <3> DEFINE f == stack[i]
    <3>6. stack'[i] = f /\ word' = word
      BY <1>2, <3>1
    <3> HIDE DEF f, n, k, fr2
    <3>7. FrameOK(f, node) /\ node'[f.st] = node[f.st]
          /\ (\A m \in f.next : node'[m] = node[m])
          /\ f.next \subseteq (f.st + 1)..Len(node')
      BY <3>2, <3>4, <3>5 DEF f, FrameOK
    <3>8. LitFrame(f, node) => LitFrame(stack[i], node)'
      BY <3>6, <3>7 DEF LitFrame
    <3>9. ArgFrame(f, node) => ArgFrame(stack[i], node)'
      BY <3>6, <3>7 DEF ArgFrame
    <3> QED
      BY <3>6, <3>7, <3>8, <3>9 DEF FrameOK
  <2> QED
    BY <2>2, <2>3, <2>4
<1>13. Root'
  BY <1>1, <1>2, <1>3 DEF IInv, Root
<1>14. ResidualWords'
  BY <1>1, <1>2, <1>3 DEF IInv, ResidualWords
<1>15. HMapExact'
  <2>1. SUFFICES ASSUME NEW m \in 1..n, node'[m].hmap # NULL
                 PROVE  node'[m].hmap = WordPre(word, node'[m].rword, Meaning[node'[m].amap])
    BY <1>2, <1>3 DEF HMapExact
  <2>2. m \in 1..Len(node) /\ node'[m] = node[m]
    BY <1>1, <1>3, <2>1
  <2> QED
    BY <2>1, <2>2 DEF IInv, HMapExact
<1>16. Verdict'
  BY <1>2 DEF IInv, Verdict, Running
<1>17. AcceptedEarly'
  <2>1. AcceptedEarly
    BY DEF IInv
  <2>2. ASSUME NEW m \in 1..Len(node'), node'[m].acc
        PROVE  node'[m].hmap = NULL => node'[m].amap = FalseExp \/ node'[m].rword = 0
    <3>1. CASE m \in 1..Len(node)
      BY <1>3, <2>1, <2>2, <3>1 DEF AcceptedEarly
    <3>2. CASE m \notin 1..Len(node)
      BY <1>1, <1>3, <2>2, <3>2
    <3> QED
      BY <3>1, <3>2
  <2> QED
    BY <2>2 DEF AcceptedEarly
<1> QED
  BY <1>10, <1>11, <1>12, <1>13, <1>14, <1>15, <1>16, <1>17 DEF IInv

\* A call that returns with the pre-image of its formula keeps the invariant.
LEMMA ReturnStep ==
    ASSUME IInv, Running,
           NEW nd \in Node,
           nd.amap = this.amap, nd.rword = this.rword,
           nd.hmap \in SUBSET State,
           nd.hmap = WordPre(word, nd.rword, Meaning[nd.amap]),
           Return(nd)
    PROVE  IInv'
<1> DEFINE k == Len(stack)
           n == top.st
<1>1. /\ k \in Nat \ {0}
      /\ Len(node) \in Nat \ {0}
      /\ stack \in Seq(Frame)
      /\ node \in Seq(Node)
      /\ n \in 1..Len(node)
      /\ nd.hmap # NULL
  BY RunningFacts, NullAssumption DEF IInv, TypeOK
<1>2. /\ node' = [node EXCEPT ![n] = nd]
      /\ stack' = SubSeq(stack, 1, k - 1)
      /\ word' = word
      /\ pc' = pc
      /\ allStates' = allStates
  BY DEF Return
<1>3. /\ node' \in Seq(Node)
      /\ Len(node') = Len(node)
      /\ \A m \in 1..Len(node) : node'[m] = IF m = n THEN nd ELSE node[m]
  BY <1>1, <1>2, ExceptSeq
<1>4. /\ stack' \in Seq(Frame)
      /\ Len(stack') = k - 1
      /\ \A i \in 1..(k-1) : stack'[i] = stack[i]
  <2>1. \A i \in 1..(k-1) : stack[i] \in Frame
    BY <1>1, ElementOfSeq
  <2>2. 1 \in Int /\ k - 1 \in Int /\ k - 1 - 1 + 1 = k - 1
    BY <1>1
  <2> HIDE DEF k
  <2>3. /\ SubSeq(stack, 1, k-1) \in Seq(Frame)
        /\ Len(SubSeq(stack, 1, k-1)) = IF 1 <= k-1 THEN (k-1)-1+1 ELSE 0
        /\ \A i \in 1..((k-1)-1+1) : SubSeq(stack, 1, k-1)[i] = stack[1+i-1]
    BY <2>1, <2>2, SubSeqProperties
  <2> QED
    BY <1>1, <1>2, <2>3
<1>5. ASSUME NEW i \in 1..(k-1)
      PROVE  /\ stack[i].st < n
             /\ stack[i].st \in 1..Len(node)
             /\ i \in 1..k
  <2>1. i \in 1..k /\ k \in 1..k /\ i < k
    BY <1>1
  <2> QED
    BY <2>1 DEF IInv, CallStack, top
<1>6. /\ this = node[n]
      /\ \A m \in 1..Len(node) : /\ node'[m].amap = node[m].amap
                                 /\ node'[m].rword = node[m].rword
  BY <1>1, <1>3 DEF this
<1>7. TypeOK'
  BY <1>1, <1>2, <1>3, <1>4 DEF IInv, TypeOK
<1>8. CallStack'
  <2>1. \A i \in 1..(k-1) : stack'[i].st \in 1..Len(node')
    BY <1>3, <1>4, <1>5
  <2>2. \A i, j \in 1..(k-1) : i < j => stack'[i].st < stack'[j].st
    BY <1>4, <1>5 DEF IInv, CallStack
  <2>3. ASSUME NEW m \in 1..Len(node')
        PROVE  node'[m].hmap = NULL <=> \E i \in 1..(k-1) : stack'[i].st = m
    <3>1. CASE m = n
      <4>1. node'[m].hmap # NULL
        BY <1>1, <1>3, <3>1
      <4>2. \A i \in 1..(k-1) : stack'[i].st # m
        <5>1. ASSUME NEW i \in 1..(k-1)
              PROVE  stack'[i].st # m
          BY <1>1, <1>4, <1>5, <3>1
        <5> QED
          BY <5>1
      <4> QED
        BY <4>1, <4>2
    <3>2. CASE m # n
      <4>1. m \in 1..Len(node) /\ node'[m] = node[m]
        BY <1>3, <3>2
      <4>2. node[m].hmap = NULL <=> \E i \in 1..k : stack[i].st = m
        BY <4>1 DEF IInv, CallStack
      <4>3. stack[k].st = n
        BY DEF top
      <4>4. (\E i \in 1..k : stack[i].st = m) <=> \E i \in 1..(k-1) : stack'[i].st = m
        <5>1. ASSUME NEW i \in 1..k, stack[i].st = m
              PROVE  i \in 1..(k-1)
          BY <1>1, <3>2, <4>3, <5>1
        <5> QED
          BY <1>4, <1>5, <5>1
      <4> QED
        BY <4>1, <4>2, <4>4
    <3> QED
      BY <3>1, <3>2
  <2> QED
    BY <1>4, <2>1, <2>2, <2>3 DEF CallStack
<1>9. Frames'
  <2>1. SUFFICES ASSUME NEW i \in 1..(k-1)
                 PROVE  FrameOK(stack[i], node)'
    BY <1>4 DEF Frames
  <2> DEFINE f == stack[i]
  <2>2. stack'[i] = f /\ word' = word
    BY <1>2, <1>4
  <2>3. FrameOK(f, node)
    BY <1>5 DEF IInv, Frames
  <2>4. f.st \in 1..Len(node) /\ f.next \subseteq 1..Len(node)
    BY <1>1, <1>5, <2>3 DEF FrameOK
  <2>5. /\ node'[f.st].amap = node[f.st].amap
        /\ node'[f.st].rword = node[f.st].rword
        /\ \A m \in f.next : /\ node'[m].amap = node[m].amap
                             /\ node'[m].rword = node[m].rword
        /\ Len(node') = Len(node)
    BY <1>3, <1>6, <2>4
  <2> HIDE DEF f
  <2>6. LitFrame(f, node) => LitFrame(stack[i], node)'
    BY <2>2, <2>5 DEF LitFrame
  <2>7. ArgFrame(f, node) => ArgFrame(stack[i], node)'
    BY <2>2, <2>5 DEF ArgFrame
  <2> QED
    BY <2>2, <2>3, <2>5, <2>6, <2>7 DEF FrameOK
<1>10. Root'
  BY <1>1, <1>2, <1>6 DEF IInv, Root
<1>11. ResidualWords'
  BY <1>2, <1>3, <1>6 DEF IInv, ResidualWords
<1>12. HMapExact'
  <2>1. SUFFICES ASSUME NEW m \in 1..Len(node), node'[m].hmap # NULL
                 PROVE  node'[m].hmap = WordPre(word, node'[m].rword, Meaning[node'[m].amap])
    BY <1>2, <1>3 DEF HMapExact
  <2>2. CASE m = n
    BY <1>3, <2>2
  <2>3. CASE m # n
    BY <1>3, <2>1, <2>3 DEF IInv, HMapExact
  <2> QED
    BY <2>2, <2>3
<1>13. Verdict'
  BY <1>2 DEF IInv, Verdict, Running
<1>14. AcceptedEarly'
  BY <1>1, <1>3 DEF IInv, AcceptedEarly
<1> QED
  BY <1>7, <1>8, <1>9, <1>10, <1>11, <1>12, <1>13, <1>14 DEF IInv

-----------------------------------------------------------------------------
(***************************************************************************)
(* Every action keeps the invariant.                                       *)
(***************************************************************************)
LEMMA InitInv == Init => IInv
<1> SUFFICES ASSUME Init
             PROVE  IInv
  OBVIOUS
<1> DEFINE nd == NewNode(Post, Len(word), FALSE)
<1>1. word \in Words /\ word \in Seq(mAllSyms) /\ Len(word) \in Nat
  BY WordAssumption DEF Init
<1>2. nd \in Node
  BY <1>1, FormulaAssumption DEF NewNode, Node
<1>3. Call(1, nd) \in Frame
  BY <1>1, <1>2, FormulaAssumption DEF Call, Frame, Node
<1>4. node = <<nd>> /\ stack = <<Call(1, nd)>>
  BY DEF Init
<1>5. TypeOK
  <2> DEFINE c == Call(1, nd)
  <2>1. c \in Frame /\ stack = <<c>> /\ node = <<nd>> /\ nd \in Node
    BY <1>2, <1>3, <1>4
  <2> HIDE DEF c, nd
  <2>2. stack \in Seq(Frame) /\ node \in Seq(Node) /\ Len(node) = 1
    BY <2>1
  <2>3. allStates \in SUBSET (1..Len(node)) /\ pc = "PassOne" /\ word \in Words
    BY <2>2 DEF Init
  <2> QED
    BY <2>2, <2>3 DEF TypeOK
<1>6. /\ Len(node) = 1 /\ Len(stack) = 1
      /\ node[1].hmap = NULL /\ node[1].amap = Post /\ node[1].rword = Len(word)
      /\ stack[1].st = 1 /\ stack[1].pos = Len(word) /\ stack[1].next = {}
      /\ mType[Post] # "ORLit" => stack[1].todo = Args[Post]
      /\ node[1].acc = FALSE
  BY <1>4 DEF NewNode, Call
<1>7. CallStack /\ Root /\ ResidualWords /\ HMapExact /\ AcceptedEarly
  BY <1>1, <1>6 DEF CallStack, Root, ResidualWords, HMapExact, AcceptedEarly
<1>8. Frames
  BY <1>1, <1>6 DEF Frames, FrameOK, LitFrame, ArgFrame
<1>9. Verdict
  BY DEF Init, Verdict
<1> QED
  BY <1>5, <1>7, <1>8, <1>9 DEF IInv

LEMMA VisitArgInv == IInv /\ VisitArg => IInv'
<1> SUFFICES ASSUME IInv, VisitArg
             PROVE  IInv'
  OBVIOUS
<1>1. Running /\ mType[this.amap] # "ORLit"
  BY DEF VisitArg
<1>2. PICK f \in top.todo : Recurse([top EXCEPT !.todo = @ \ {f}], NewNode(f, this.rword, FALSE))
  BY DEF VisitArg
<1> DEFINE fr == [top EXCEPT !.todo = @ \ {f}]
           nd == NewNode(f, this.rword, FALSE)
           n == Len(node) + 1
           fr2 == [fr EXCEPT !.next = @ \cup {n}]
<1>3. top \in Frame /\ this \in Node /\ this = node[top.st] /\ top.st \in 1..Len(node)
      /\ Len(node) \in Nat /\ node \in Seq(Node) /\ this.rword <= Len(word)
  BY <1>1, RunningFacts DEF this, IInv, TypeOK
<1>4. f \in Formula
  BY <1>3 DEF Frame
<1>5. nd \in Node /\ nd.hmap = NULL /\ nd.rword = this.rword /\ nd.amap = f /\ ~nd.acc
  BY <1>3, <1>4 DEF NewNode, Node
<1>6. /\ fr \in Frame /\ fr.st = top.st
      /\ fr2.st = top.st /\ fr2.pos = top.pos /\ fr2.next = top.next \cup {n}
      /\ fr2.todo = top.todo \ {f}
  BY <1>3 DEF Frame
<1>7. FrameOK(top, node) /\ ArgFrame(top, node) /\ f \in Args[this.amap]
  <2>1. FrameOK(top, node)
    BY <1>1, RunningFacts
  <2>2. ArgFrame(top, node)
    BY <1>1, <1>3, <2>1 DEF FrameOK
  <2> QED
    BY <1>2, <1>3, <2>1, <2>2 DEF ArgFrame
<1> DEFINE nds == Append(node, nd)
<1>8. Len(nds) = n /\ nds[n] = nd /\ \A m \in 1..Len(node) : nds[m] = node[m]
  <2> HIDE DEF nd
  <2> QED
    BY <1>3, <1>5, AppendProperties
<1>9. top.next \subseteq 1..Len(node) /\ top.next \subseteq (top.st + 1)..n
      /\ n \in (top.st + 1)..n /\ nds[top.st] = this
  <2> HIDE DEF nds, nd
  <2>1. top.next \subseteq (top.st + 1)..Len(node) /\ top.st \in Nat
    BY <1>3, <1>7 DEF FrameOK
  <2>2. top.next \subseteq 1..Len(node) /\ top.next \subseteq (top.st + 1)..n
    BY <1>3, <2>1
  <2> QED
    BY <1>3, <1>8, <2>2
<1>10. FrameOK(fr2, nds)
  <2> HIDE DEF fr2, nds, nd, n
  <2>1. fr2.pos <= this.rword /\ fr2.next \subseteq (fr2.st + 1)..Len(nds)
    BY <1>3, <1>6, <1>7, <1>8, <1>9 DEF FrameOK, ArgFrame
  <2>2. \A m \in fr2.next : nds[m].rword = this.rword /\ nds[m].amap \in Args[this.amap]
    BY <1>1, <1>3, <1>5, <1>6, <1>7, <1>8, <1>9 DEF FrameOK, ArgFrame
  <2>3. ASSUME NEW g \in Args[this.amap]
        PROVE  g \in fr2.todo \/ \E m \in fr2.next : nds[m].amap = g
    <3>1. CASE g = f
      BY <1>5, <1>6, <1>8, <3>1
    <3>2. CASE g # f
      BY <1>1, <1>3, <1>6, <1>7, <1>8, <1>9, <3>2 DEF FrameOK, ArgFrame
    <3> QED
      BY <3>1, <3>2
  <2>4. fr2.todo \subseteq Args[this.amap]
    BY <1>1, <1>3, <1>6, <1>7 DEF FrameOK, ArgFrame
  <2> QED
    BY <1>1, <1>6, <1>9, <2>1, <2>2, <2>3, <2>4 DEF FrameOK, ArgFrame
<1> HIDE DEF nd, fr, n
<1> QED
  BY <1>1, <1>2, <1>3, <1>5, <1>6, <1>10, RecurseStep DEF nd, fr, n

\* The HMaps of the children of a finished AND or OR state are the pre-images
\* of its arguments.
LEMMA ArgHMaps ==
    ASSUME IInv, Running, mType[this.amap] # "ORLit", top.todo = {}
    PROVE  /\ HMapsOf(top.next) =
                {WordPre(word, this.rword, phi) : phi \in {Meaning[f] : f \in Args[this.amap]}}
           /\ top.next \subseteq 1..Len(node)
<1>1. ArgFrame(top, node) /\ this = node[top.st]
  BY RunningFacts DEF FrameOK, this
<1>2. ASSUME NEW m \in top.next
      PROVE  /\ node[m].hmap = WordPre(word, this.rword, Meaning[node[m].amap])
             /\ node[m].amap \in Args[this.amap]
             /\ m \in 1..Len(node)
  BY <1>1, <1>2, ChildrenDone, RunningFacts DEF ArgFrame
<1>3. \A f \in Args[this.amap] : \E m \in top.next : node[m].amap = f
  BY <1>1 DEF ArgFrame
<1> QED
  BY <1>2, <1>3 DEF HMapsOf

LEMMA EpsEdge ==
    ASSUME IInv, Running, NEW h \in SUBSET State, top.next \subseteq 1..Len(node)
    PROVE  [this EXCEPT !.hmap = h, !.trans = {<<Eps, top.next>>}] \in Node
<1>1. this \in Node /\ Len(node) \in Nat
  BY RunningFacts
<1>2. {<<Eps, top.next>>} \subseteq (mAllSyms \cup {Eps}) \X SUBSET Nat
  BY <1>1
<1> QED
  BY <1>1, <1>2 DEF Node

LEMMA FinishAndInv == IInv /\ FinishAnd => IInv'
<1> SUFFICES ASSUME IInv, FinishAnd
             PROVE  IInv'
  OBVIOUS
<1> DEFINE f == this.amap
           F == {Meaning[g] : g \in Args[f]}
           h == {s \in State : \A x \in HMapsOf(top.next) : s \in x}
           nd == [this EXCEPT !.hmap = h, !.trans = {<<Eps, top.next>>}]
<1>1. Running /\ mType[f] = "AND" /\ top.todo = {} /\ Return(nd)
  BY DEF FinishAnd
<1>2. HMapsOf(top.next) = {WordPre(word, this.rword, phi) : phi \in F}
      /\ top.next \subseteq 1..Len(node)
  BY <1>1, ArgHMaps
<1>3. this \in Node /\ f \in Formula /\ this.rword \in Nat
  BY <1>1, RunningFacts DEF Node
<1>4. F \in SUBSET SUBSET State /\ F # {}
      /\ Meaning[f] = {s \in State : \A phi \in F : s \in phi}
  BY <1>1, <1>3, ShapeAssumption, FormulaAssumption
<1>5. h = WordPre(word, this.rword, Meaning[f])
  <2>1. \A s \in State : s \in h <=> \A phi \in F : s \in WordPre(word, this.rword, phi)
    BY <1>2
  <2> HIDE DEF F, f
  <2>2. \A s \in State : s \in WordPre(word, this.rword, Meaning[f])
                            <=> \A phi \in F : s \in WordPre(word, this.rword, phi)
    BY <1>3, <1>4, WordPreConjunction
  <2>3. WordPre(word, this.rword, Meaning[f]) \in SUBSET State
    BY <1>3, WordPreType
  <2> QED
    BY <2>1, <2>2, <2>3
<1>6. nd \in Node
  BY <1>1, <1>2, EpsEdge
<1>7. nd.amap = this.amap /\ nd.rword = this.rword /\ nd.hmap = h
  BY <1>3 DEF Node
<1> HIDE DEF nd, h
<1>8. h \in SUBSET State
  BY DEF h
<1> QED
  BY <1>1, <1>5, <1>6, <1>7, <1>8, ReturnStep

LEMMA FinishOrInv == IInv /\ FinishOr => IInv'
<1> SUFFICES ASSUME IInv, FinishOr
             PROVE  IInv'
  OBVIOUS
<1> DEFINE f == this.amap
           F == {Meaning[g] : g \in Args[f]}
           h == UNION HMapsOf(top.next)
           nd == [this EXCEPT !.hmap = h, !.trans = {<<Eps, top.next>>}]
<1>1. Running /\ mType[f] = "OR" /\ top.todo = {} /\ Return(nd)
  BY DEF FinishOr
<1>2. HMapsOf(top.next) = {WordPre(word, this.rword, phi) : phi \in F}
      /\ top.next \subseteq 1..Len(node)
  BY <1>1, ArgHMaps
<1>3. this \in Node /\ f \in Formula /\ this.rword \in Nat
  BY <1>1, RunningFacts DEF Node
<1>4. F \in SUBSET SUBSET State /\ Meaning[f] = UNION F
  BY <1>1, <1>3, ShapeAssumption, FormulaAssumption
<1>5. h = WordPre(word, this.rword, Meaning[f])
  <2> HIDE DEF F, f
  <2> QED
    BY <1>2, <1>3, <1>4, WordPreDisjunction
<1>6. h \in SUBSET State
  BY <1>3, <1>5, WordPreType
<1>7. nd \in Node
  BY <1>1, <1>2, <1>6, EpsEdge
<1>8. nd.amap = this.amap /\ nd.rword = this.rword /\ nd.hmap = h
  BY <1>3 DEF Node
<1> HIDE DEF nd, h
<1> QED
  BY <1>1, <1>5, <1>6, <1>7, <1>8, ReturnStep

LEMMA AcceptInv == IInv /\ Accept => IInv'
<1> SUFFICES ASSUME IInv, Accept
             PROVE  IInv'
  OBVIOUS
<1> DEFINE phi == Meaning[this.amap]
           nd == [this EXCEPT !.hmap = phi, !.acc = TRUE]
<1>1. Running /\ mType[this.amap] = "ORLit" /\ Return(nd)
  BY DEF Accept, AtLit
<1>2. /\ this \in Node /\ this = node[top.st] /\ top.st \in 1..Len(node)
      /\ this.hmap = NULL /\ phi \in SUBSET State /\ this.rword \in Nat
      /\ LitFrame(top, node)
  BY <1>1, RunningFacts DEF this, FrameOK, Node
<1>3. phi = WordPre(word, this.rword, phi)
  <2>1. CASE top.pos = 0
    BY <1>2, <2>1, WordPreZero DEF LitFrame
  <2>2. CASE this.acc /\ this.rword = 0
    BY <1>2, <2>2, WordPreZero
  <2>3. CASE this.acc /\ this.amap = FalseExp
    <3>1. phi = {}
      BY <2>3, FormulaAssumption
    <3> QED
      BY <3>1 DEF WordPre
  <2>4. this.acc \/ top.pos = 0
    BY DEF Accept
  <2> QED
    BY <1>2, <2>1, <2>2, <2>3, <2>4 DEF IInv, AcceptedEarly
<1>4. nd \in Node /\ nd.amap = this.amap /\ nd.rword = this.rword /\ nd.hmap = phi
  BY <1>2 DEF Node
<1> HIDE DEF nd, phi
<1> QED
  BY <1>1, <1>2, <1>3, <1>4, ReturnStep DEF phi

LEMMA SkipInv == IInv /\ Skip => IInv'
<1> SUFFICES ASSUME IInv, Skip
             PROVE  IInv'
  OBVIOUS
<1> DEFINE k == Len(stack)
           phi == Meaning[this.amap]
           fr == [top EXCEPT !.pos = @ - 1]
<1>1. /\ Running /\ mType[this.amap] = "ORLit" /\ top.next = {} /\ top.pos > 0
      /\ word[top.pos] \in RWSym
      /\ mRWLHRHMap[word[top.pos]].lhs \notin FreeVars[this.amap]
  BY DEF Skip, Scanning, AtLit, sym
<1>2. /\ top \in Frame /\ this \in Node /\ this = node[top.st]
      /\ k \in Nat \ {0} /\ stack \in Seq(Frame)
      /\ phi \in SUBSET State /\ word \in Seq(mAllSyms)
      /\ this.rword <= Len(word) /\ FrameOK(top, node) /\ LitFrame(top, node)
  BY <1>1, RunningFacts DEF this, FrameOK, IInv, TypeOK
<1>3. /\ top.pos \in Nat /\ top.pos \in 1..Len(word) /\ this.rword \in Nat
      /\ this.amap \in Formula
  BY <1>1, <1>2 DEF Frame, FrameOK, Node
<1>4. WordPre(word, top.pos, phi) = WordPre(word, top.pos - 1, phi)
  <2>1. mRWLHRHMap[word[top.pos]].lhs \in Var
    BY <1>1, MapAssumption
  <2>2. Independent(phi, mRWLHRHMap[word[top.pos]].lhs)
    BY <1>1, <1>3, <2>1, ShapeAssumption
  <2>3. Pre(word[top.pos], phi) = phi
    BY <1>1, <1>2, <2>2, PreIndependent
  <2> HIDE DEF phi
  <2> QED
    BY <1>2, <1>3, <2>3, WordPreStep
<1>5. fr \in Frame /\ fr.st = top.st /\ fr.pos = top.pos - 1 /\ fr.next = {}
  <2>1. top.pos - 1 \in Nat
    BY <1>1, <1>3
  <2>2. top \in Frame /\ top.next = {}
    BY <1>1, <1>2
  <2> HIDE DEF phi, k
  <2> QED
    BY <2>1, <2>2 DEF Frame
<1>6. FrameOK(fr, node)
  BY <1>1, <1>2, <1>3, <1>4, <1>5 DEF FrameOK, LitFrame
<1>7. stack' = [stack EXCEPT ![k] = fr] /\ UNCHANGED <<word, node, allStates, pc>>
  <2>1. stack' = [stack EXCEPT ![k].pos = @ - 1] /\ UNCHANGED <<word, node, allStates, pc>>
    BY DEF Skip
  <2> QED
    BY <1>2, <2>1 DEF top
<1>8. k \in 1..k
  BY <1>2
<1> HIDE DEF fr
<1>9. /\ stack' \in Seq(Frame) /\ Len(stack') = k
      /\ \A i \in 1..k : stack'[i] = IF i = k THEN fr ELSE stack[i]
  BY <1>2, <1>5, <1>7, <1>8, ExceptSeq
<1>10. \A i \in 1..k : stack'[i].st = stack[i].st
  BY <1>5, <1>9 DEF top
<1>11. TypeOK'
  <2>1. TypeOK /\ stack' \in Seq(Frame)
    BY <1>9 DEF IInv
  <2> QED
    BY <1>7, <2>1 DEF TypeOK
<1>12. CallStack'
  <2>1. CallStack /\ node' = node /\ Len(stack') = Len(stack)
        /\ \A i \in 1..Len(stack) : stack'[i].st = stack[i].st
    BY <1>7, <1>9, <1>10 DEF IInv
  <2> HIDE DEF k, phi
  <2>2. \A i \in 1..Len(stack') : stack'[i].st \in 1..Len(node')
    BY <2>1 DEF CallStack
  <2>3. \A i, j \in 1..Len(stack') : i < j => stack'[i].st < stack'[j].st
    BY <2>1 DEF CallStack
  <2>4. \A n \in 1..Len(node') :
          node'[n].hmap = NULL <=> \E i \in 1..Len(stack') : stack'[i].st = n
    BY <2>1 DEF CallStack
  <2> QED
    BY <2>2, <2>3, <2>4 DEF CallStack
<1>13. Frames'
  <2>1. ASSUME NEW i \in 1..k
        PROVE  FrameOK(stack'[i], node)
    BY <1>6, <1>9 DEF IInv, Frames
  <2>2. ASSUME NEW i \in 1..k
        PROVE  FrameOK(stack[i], node)'
    <3> DEFINE f == stack'[i]
    <3>1. FrameOK(f, node) /\ stack'[i] = f /\ word' = word /\ node' = node
      BY <1>7, <2>1
    <3> HIDE DEF f
    <3>2. LitFrame(f, node) => LitFrame(stack[i], node)'
      BY <3>1 DEF LitFrame
    <3>3. ArgFrame(f, node) => ArgFrame(stack[i], node)'
      BY <3>1 DEF ArgFrame
    <3> QED
      BY <3>1, <3>2, <3>3 DEF FrameOK
  <2> QED
    BY <1>9, <2>2 DEF Frames
<1>14. (Root /\ ResidualWords /\ AcceptedEarly /\ HMapExact)'
  BY <1>7 DEF IInv, Root, ResidualWords, AcceptedEarly, HMapExact
<1>15. Verdict'
  BY <1>1, <1>7 DEF Verdict, Running
<1> QED
  BY <1>11, <1>12, <1>13, <1>14, <1>15 DEF IInv

\* What PassOne recurses with has the meaning of the pre-image, whichever of
\* the forms that HelperSimplifyExpr leaves it in (AFAState.cpp:67-114).
LEMMA SimplifiedMeaning ==
    ASSUME NEW a \in mAllSyms, NEW phi \in SUBSET State, NEW f \in Simplified(a, phi)
    PROVE  f \in Formula /\ Meaning[f] = Pre(a, phi)
<1>1. PICK g \in Substituted(a, phi) : f = Decided(g)
  BY DEF Simplified
<1>2. g \in Formula /\ Meaning[g] = Pre(a, phi)
  <2>1. CASE a \in RWSym
    BY <1>1, <2>1, SymAssumption DEF Substituted, Literals, Pre
  <2>2. CASE a \in AssumeSym
    BY <1>1, <2>2, SymAssumption DEF Substituted, Conjunctions, Pre, PreAssume
  <2>3. CASE a \in CASSym
    <3>1. a \notin RWSym /\ a \notin AssumeSym
      BY <2>3, SymAssumption
    <3>2. PICK lc1 \in Conjunctions(AfterSuccess(a, phi), Compares(a)),
               lc2 \in Conjunctions(AfterFailure(a, phi), State \ Compares(a)) :
             g \in Disjunctions(lc1, lc2)
      <4> DEFINE C1 == Conjunctions(AfterSuccess(a, phi), Compares(a))
                 C2 == Conjunctions(AfterFailure(a, phi), State \ Compares(a))
      <4>1. Substituted(a, phi) = UNION {Disjunctions(lc1, lc2) : lc1 \in C1, lc2 \in C2}
        BY <2>3, <3>1 DEF Substituted
      <4> HIDE DEF C1, C2
      <4>2. \E lc1 \in C1, lc2 \in C2 : g \in Disjunctions(lc1, lc2)
        BY <4>1
      <4> QED
        BY <4>2 DEF C1, C2
    <3>3. /\ Meaning[lc1] = AfterSuccess(a, phi) \cap Compares(a)
          /\ Meaning[lc2] = AfterFailure(a, phi) \cap (State \ Compares(a))
      BY <3>2 DEF Conjunctions
    <3>4. g \in Formula /\ Meaning[g] = Meaning[lc1] \cup Meaning[lc2]
      BY <3>2 DEF Disjunctions
    <3>5. AfterFailure(a, phi) \subseteq State
      BY DEF AfterFailure, Substitute
    <3>6. Meaning[g] = PreCAS(a, phi)
      BY <3>3, <3>4, <3>5 DEF PreCAS
    <3> QED
      BY <2>3, <3>1, <3>4, <3>6 DEF Pre
  <2> QED
    BY <2>1, <2>2, <2>3 DEF mAllSyms
<1> QED
  BY <1>1, <1>2, FormulaAssumption DEF Decided

LEMMA ProcessSymInv == IInv /\ ProcessSym => IInv'
<1> SUFFICES ASSUME IInv, ProcessSym
             PROVE  IInv'
  OBVIOUS
<1> DEFINE phi == Meaning[this.amap]
           a == word[top.pos]
           n == Len(node) + 1
<1>1. /\ Running /\ mType[this.amap] = "ORLit" /\ top.next = {} /\ top.pos > 0
  BY DEF ProcessSym, Scanning, AtLit
<1>2. PICK f \in Simplified(a, phi) :
        Recurse(top, NewNode(f, top.pos - 1, f = FalseExp \/ (f = TrueExp /\ top.pos = 1)))
  BY DEF ProcessSym, sym
<1> DEFINE nd == NewNode(f, top.pos - 1, f = FalseExp \/ (f = TrueExp /\ top.pos = 1))
           fr2 == [top EXCEPT !.next = @ \cup {n}]
           nds == Append(node, nd)
<1>3. /\ top \in Frame /\ this \in Node /\ this = node[top.st] /\ top.st \in 1..Len(node)
      /\ node \in Seq(Node) /\ Len(node) \in Nat
      /\ phi \in SUBSET State /\ word \in Seq(mAllSyms)
      /\ this.rword <= Len(word) /\ FrameOK(top, node) /\ LitFrame(top, node)
  BY <1>1, RunningFacts DEF this, FrameOK, IInv, TypeOK
<1>4. /\ top.pos \in 1..Len(word) /\ top.pos - 1 \in Nat /\ this.rword \in Nat
      /\ a \in mAllSyms /\ top.pos <= this.rword
  BY <1>1, <1>3 DEF Frame, FrameOK, Node
<1>5. f \in Formula /\ Meaning[f] = Pre(a, phi)
  <2> HIDE DEF a, phi
  <2> QED
    BY <1>2, <1>3, <1>4, SimplifiedMeaning
<1>6. /\ nd \in Node /\ nd.hmap = NULL /\ nd.rword = top.pos - 1 /\ nd.amap = f
      /\ nd.acc => nd.amap = FalseExp \/ nd.rword = 0
  <2> DEFINE acc == f = FalseExp \/ (f = TrueExp /\ top.pos = 1)
             p == top.pos - 1
  <2>1. acc \in BOOLEAN /\ p \in Nat /\ f \in Formula /\ nd = NewNode(f, p, acc)
    BY <1>4, <1>5
  <2>2. acc => f = FalseExp \/ p = 0
    BY <1>4
  <2> HIDE DEF acc, p, nd
  <2>3. nd \in Node /\ nd.hmap = NULL /\ nd.rword = p /\ nd.amap = f /\ nd.acc = acc
    BY <2>1 DEF NewNode, Node
  <2> QED
    BY <2>2, <2>3 DEF p
<1>7. nd.rword <= Len(word)
  BY <1>3, <1>4, <1>6
<1>8. fr2.st = top.st /\ fr2.pos = top.pos /\ fr2.next = {n}
  BY <1>1, <1>3 DEF Frame
<1> HIDE DEF nd
<1>9. Len(nds) = n /\ nds[n] = nd /\ nds[top.st] = this /\ n \in (top.st + 1)..n
  BY <1>3, <1>6, AppendProperties
<1> HIDE DEF fr2, nds, n
<1>10. FrameOK(fr2, nds)
  BY <1>1, <1>3, <1>4, <1>5, <1>6, <1>8, <1>9 DEF FrameOK, LitFrame
<1> QED
  BY <1>1, <1>2, <1>3, <1>6, <1>7, <1>10, RecurseStep DEF nd, fr2, nds, n

LEMMA FinishSymInv == IInv /\ FinishSym => IInv'
<1> SUFFICES ASSUME IInv, FinishSym
             PROVE  IInv'
  OBVIOUS
<1> DEFINE phi == Meaning[this.amap]
           a == word[top.pos]
<1>1. Running /\ mType[this.amap] = "ORLit"
  BY DEF FinishSym, AtLit
<1>2. PICK m \in top.next :
        Return([this EXCEPT !.hmap = node[m].hmap, !.trans = {<<a, {m}>>}])
  BY DEF FinishSym, sym
<1> DEFINE nd == [this EXCEPT !.hmap = node[m].hmap, !.trans = {<<a, {m}>>}]
<1>3. /\ top \in Frame /\ this \in Node /\ this = node[top.st] /\ Len(node) \in Nat
      /\ phi \in SUBSET State /\ word \in Seq(mAllSyms) /\ this.rword \in Nat
      /\ this.rword <= Len(word) /\ top.pos <= this.rword /\ LitFrame(top, node)
  BY <1>1, RunningFacts DEF this, FrameOK, Node
<1>4. /\ node[m].hmap \in SUBSET State
      /\ node[m].hmap = WordPre(word, node[m].rword, Meaning[node[m].amap])
      /\ m \in Nat
  <2>1. top.st \in Nat
    BY <1>3 DEF Frame
  <2> QED
    BY <1>1, <1>3, <2>1, ChildrenDone
<1>5. /\ top.pos > 0 /\ node[m].rword = top.pos - 1
      /\ Meaning[node[m].amap] = Pre(a, phi)
      /\ WordPre(word, this.rword, phi) = WordPre(word, top.pos, phi)
  BY <1>3 DEF LitFrame
<1>6. top.pos \in 1..Len(word)
  BY <1>3, <1>5 DEF Frame
<1>7. node[m].hmap = WordPre(word, this.rword, phi)
  BY <1>3, <1>4, <1>5, <1>6, WordPreStep
<1>8. {<<a, {m}>>} \subseteq (mAllSyms \cup {Eps}) \X SUBSET Nat
  BY <1>3, <1>4, <1>6
<1>9. nd \in Node /\ nd.amap = this.amap /\ nd.rword = this.rword /\ nd.hmap = node[m].hmap
  BY <1>3, <1>4, <1>8 DEF Node
<1> HIDE DEF nd
<1> QED
  BY <1>1, <1>2, <1>4, <1>7, <1>9, ReturnStep DEF nd

LEMMA CheckRootInv == IInv /\ CheckRoot => IInv'
<1> SUFFICES ASSUME IInv, CheckRoot
             PROVE  IInv'
  OBVIOUS
<1>1. /\ stack = <<>> /\ pc' = IF node[1].hmap = {} THEN "PassTwo" ELSE "Error"
      /\ UNCHANGED <<word, node, allStates, stack>>
  BY DEF CheckRoot
<1>2. TypeOK'
  BY <1>1 DEF IInv, TypeOK
<1>3. CallStack'
  BY <1>1 DEF IInv, CallStack
<1>4. Frames'
  BY <1>1 DEF Frames
<1>5. (Root /\ ResidualWords /\ AcceptedEarly /\ HMapExact)'
  BY <1>1 DEF IInv, Root, ResidualWords, AcceptedEarly, HMapExact
<1>6. Verdict'
  BY <1>1 DEF Verdict
<1> QED
  BY <1>2, <1>3, <1>4, <1>5, <1>6 DEF IInv

LEMMA StutterInv == IInv /\ UNCHANGED passOneVars => IInv'
<1> SUFFICES ASSUME IInv, UNCHANGED <<word, node, allStates, stack, pc>>
             PROVE  IInv'
  BY DEF passOneVars
<1>1. (TypeOK /\ CallStack)'
  BY DEF IInv, TypeOK, CallStack
<1>2. Frames'
  BY DEF IInv, Frames, FrameOK, LitFrame, ArgFrame
<1>3. (Root /\ ResidualWords /\ AcceptedEarly /\ HMapExact)'
  BY DEF IInv, Root, ResidualWords, AcceptedEarly, HMapExact
<1>4. Verdict'
  BY DEF IInv, Verdict
<1> QED
  BY <1>1, <1>2, <1>3, <1>4 DEF IInv

LEMMA NextInv == IInv /\ [Next]_passOneVars => IInv'
BY VisitArgInv, FinishAndInv, FinishOrInv, AcceptInv, SkipInv, ProcessSymInv,
   FinishSymInv, CheckRootInv, StutterInv DEF Next, PassOneNext, Returned

-----------------------------------------------------------------------------
(***************************************************************************)
(* The theorems.                                                           *)
(***************************************************************************)
LEMMA Inductive == Spec => []IInv
<1>1. Init => IInv
  BY InitInv
<1>2. IInv /\ [Next]_passOneVars => IInv'
  BY NextInv
<1> QED
  BY <1>1, <1>2, PTL DEF Spec

\* Every state PassOne reaches is well formed: the tree, the map allStates and
\* the call stack have the types of AFAState.h.
THEOREM TypeCorrect == Spec => []TypeOK
<1>1. IInv => TypeOK
  BY DEF IInv
<1> QED
  BY <1>1, Inductive, PTL

\* PassOne computes the exact pre-image in every state that it finishes
\* (AFAState.cpp:249-584), for every program, trace and simplifier.
THEOREM PassOneHMapExact == Spec => []HMapExact
<1>1. IInv => HMapExact
  BY DEF IInv
<1> QED
  BY <1>1, Inductive, PTL

\* MakeAFAutProof reports an error exactly for the traces with an execution
\* that violates the assertion (AFAut.cpp:210-215).
THEOREM PassOneVerdictExact == Spec => []VerdictExact
<1>1. ASSUME IInv, pc # "PassOne"
      PROVE  pc = "Error" <=> \E r \in Runs(word, Len(word)) : r[Len(word)] \in Meaning[Post]
  <2>1. /\ stack = <<>> /\ word \in Seq(mAllSyms) /\ Len(word) \in Nat
        /\ pc = "Error" <=> node[1].hmap # {}
        /\ 1 \in 1..Len(node) /\ Meaning[Post] \in SUBSET State
    BY <1>1, WordAssumption, FormulaAssumption DEF IInv, Verdict, TypeOK
  <2>2. ~ \E i \in 1..Len(stack) : stack[i].st = 1
    BY <2>1
  <2>3. node[1].hmap # NULL
    BY <1>1, <2>1, <2>2 DEF IInv, CallStack
  <2>4. node[1].hmap = WordPre(word, Len(word), Meaning[Post])
    BY <1>1, <2>1, <2>3 DEF IInv, HMapExact, Root
  <2>5. ASSUME NEW r \in Runs(word, Len(word))
        PROVE  r[0] \in State
    BY <2>1 DEF Runs
  <2> QED
    BY <2>1, <2>4, <2>5 DEF WordPre
<1>2. IInv => VerdictExact
  BY <1>1 DEF VerdictExact
<1> QED
  BY <1>2, Inductive, PTL
-----------------------------------------------------------------------------
(***************************************************************************)
(* PassTwo turns the tree PassOne has built into a refutation, for every   *)
(* program, trace, simplifier and choice of unsat cores.                   *)
(*                                                                         *)
(* None of its properties is inductive.  The invariant says what PassOne   *)
(* leaves at a state it has finished (Grown), what PassTwo makes of an AND *)
(* state (Pruned), and of every call under way what it has established so  *)
(* far: which children have been seen, and what its result will be.  These *)
(* parts are operators of the tree nds and the set all of the states that  *)
(* have been entered, so that a lemma about them says what survives when   *)
(* the tree changes.                                                       *)
(***************************************************************************)

Kind(nds, n) == mType[nds[n].amap]
Kids(nds, n) == UNION {tr[2] : tr \in nds[n].trans}
Void(nds, n) == nds[n].hmap = {}
Met(nds, all, n) == \E m \in all : Key(nds[m]) = Key(nds[n])

\* The states in all the HMaps of S.
Joint(nds, S) == {s \in State : \A m \in S : s \in nds[m].hmap}

\* A finished literal: accepted, or it leads to the state after a symbol.
GrownLit(nds, n) ==
    IF nds[n].acc
    THEN nds[n].trans = {} /\ nds[n].hmap = Meaning[nds[n].amap]
    ELSE \E tr \in nds[n].trans, m \in Kids(nds, n) :
            /\ nds[n].trans = {tr} /\ tr[1] \in mAllSyms /\ tr[2] = {m}
            /\ nds[m].hmap = nds[n].hmap
            /\ Meaning[nds[m].amap] = Pre(tr[1], Meaning[nds[n].amap])

\* A finished AND or OR state leads to one state for each argument.
GrownArgs(nds, n) ==
    \E tr \in nds[n].trans :
        /\ nds[n].trans = {tr} /\ tr[1] = Eps
        /\ nds[n].hmap = IF Kind(nds, n) = "AND" THEN Joint(nds, tr[2])
                         ELSE UNION {nds[m].hmap : m \in tr[2]}
        /\ \A m \in tr[2] : /\ nds[m].rword = nds[n].rword
                            /\ nds[m].amap \in Args[nds[n].amap]
        /\ \A f \in Args[nds[n].amap] : \E m \in tr[2] : nds[m].amap = f

\* A finished state with the edges PassOne has given it.
Grown(nds, n) ==
    /\ Kids(nds, n) \subseteq (n + 1)..Len(nds)
    /\ \A m \in Kids(nds, n) : nds[m].hmap # NULL
    /\ Kind(nds, n) = "ORLit" => GrownLit(nds, n)
    /\ Kind(nds, n) # "ORLit" => GrownArgs(nds, n)

\* An AND state with the edges PassTwo has given it: each alternative has no
\* more states than the conjunction, no two share a child, and the arguments in
\* none of them are consistent.
Pruned(nds, w, n) ==
    /\ Kids(nds, n) \subseteq (n + 1)..Len(nds)
    /\ \A m \in Kids(nds, n) : nds[m].amap \in Args[nds[n].amap]
    /\ nds[n].trans # {}
    /\ \A tr \in nds[n].trans : /\ tr[1] = Eps /\ Joint(nds, tr[2]) \subseteq nds[n].hmap
                                /\ tr[2] = {} => Args[nds[n].amap] = {}
    /\ \A t1, t2 \in nds[n].trans : t1 # t2 => t1[2] \cap t2[2] = {}
    /\ \E s \in State : \A f \in Args[nds[n].amap] :
          \/ \E m \in Kids(nds, n) : nds[m].amap = f
          \/ s \in WordPre(w, nds[n].rword, Meaning[f])

\* A state gets its edges when it is finished, and a literal that has read a
\* symbol was not created as accepted.
Growing ==
    /\ \A n \in 1..Len(node) : node[n].hmap = NULL => node[n].trans = {}
    /\ \A i \in 1..Len(stack) :
          Kind(node, stack[i].st) = "ORLit" /\ stack[i].next # {} => ~node[stack[i].st].acc

AllGrown == \A n \in 1..Len(node) : node[n].hmap # NULL => Grown(node, n)

-----------------------------------------------------------------------------
\* The loop over the cores: those found and the rest are the children.
CoreLoop(fr, nds) ==
    /\ Kind(nds, fr.st) = "AND"
    /\ fr.todo = {}
    /\ Kids(nds, fr.st) = fr.nextset \cup UNION fr.cores
    /\ \A c \in fr.cores : Joint(nds, c) = {} /\ c \cap fr.nextset = {}
    /\ \A c, d \in fr.cores : c # d => c \cap d = {}

\* The loop over the children: those that are not in todo have been seen.
ChildLoop(fr, nds, all) ==
    /\ fr.todo \subseteq Kids(nds, fr.st)
    /\ \A m \in Kids(nds, fr.st) \ fr.todo : Met(nds, all, m)
    /\ Kind(nds, fr.st) = "AND" => (fr.res <=> Void(nds, fr.st))

CallOK(fr, nds, all) == IF fr.pruned THEN ChildLoop(fr, nds, all) ELSE CoreLoop(fr, nds)

\* The result so far of a call that does not wait for another.
Settled(fr, nds) ==
    fr.pruned =>
        /\ Kind(nds, fr.st) = "ORLit" => fr.todo # {} \/ (fr.res <=> Void(nds, fr.st))
        /\ Kind(nds, fr.st) = "OR" =>
              IF fr.res THEN \A m \in Kids(nds, fr.st) \ fr.todo : Void(nds, m)
              ELSE \E m \in Kids(nds, fr.st) : ~Void(nds, m)

\* A call that waits for the result of state c: at a disjunction all the
\* disjuncts before c were unsatisfiable.
WaitsFor(fr, nds, c) ==
    /\ fr.pruned
    /\ c \in Kids(nds, fr.st) \ fr.todo
    /\ Kind(nds, fr.st) = "OR" =>
          \A m \in Kids(nds, fr.st) \ (fr.todo \cup {c}) : Void(nds, m)

BeingPruned(cs, n) == \E i \in 1..Len(cs) : cs[i].st = n /\ ~cs[i].pruned
Active(cs, n) == \E i \in 1..Len(cs) : cs[i].st = n

Shape(nds, w, all, cs, n) ==
    IF Kind(nds, n) = "AND" /\ n \in all /\ ~BeingPruned(cs, n)
    THEN Pruned(nds, w, n) ELSE Grown(nds, n)

Shapes ==
    \A n \in 1..Len(node) :
        node[n].hmap # NULL => Shape(node, word, passtwoallstates, calls, n)

\* What a sequence of waiting calls has established, the last of them waiting
\* for state c.
Waiting(cs, nds, all, c) ==
    \A i \in 1..Len(cs) :
        /\ CallOK(cs[i], nds, all)
        /\ WaitsFor(cs[i], nds, IF i = Len(cs) THEN c ELSE cs[i + 1].st)

InOrder(cs, all) ==
    /\ \A i \in 1..Len(cs) : cs[i].st \in all
    /\ \A i, j \in 1..Len(cs) : i < j => cs[i].st < cs[j].st

Calls ==
    /\ InOrder(calls, passtwoallstates)
    /\ \A i \in 1..Len(calls) : CallOK(calls[i], node, passtwoallstates)
    /\ \A i \in 1..(Len(calls) - 1) : WaitsFor(calls[i], node, calls[i + 1].st)
    /\ calls # <<>> => IF ret = NULL THEN Settled(caller, node)
                       ELSE WaitsFor(caller, node, ret.st)

\* A call that has returned has seen all children, unless it stopped at a
\* satisfiable disjunct.
ReturnedCalls ==
    \A n \in passtwoallstates : ~Active(calls, n) =>
        ((Kind(node, n) = "OR" => Void(node, n)) =>
            \A m \in Kids(node, n) : Met(node, passtwoallstates, m))

Phases ==
    /\ pc # "PassTwo" => passtwoallstates = {}
    /\ passtwoallstates = {} => calls = <<>> /\ ret = NULL /\ ~done
    /\ IF done THEN calls = <<>> /\ ret # NULL /\ freed = {n \in allStates : ~Seen(n)}
       ELSE freed = {}

IInvTwo ==
    /\ IInv
    /\ Growing
    /\ TypeOKTwo
    /\ Shapes
    /\ Calls
    /\ ReturnedCalls
    /\ ReturnExact
    /\ Phases

-----------------------------------------------------------------------------
(***************************************************************************)
(* What the shapes say, and when they survive a change of the tree.        *)
(***************************************************************************)
\* Two trees agree on the formula and the HMap of a state.
Agree(nds, nds2, m) ==
    /\ nds2[m].hmap = nds[m].hmap
    /\ nds2[m].amap = nds[m].amap
    /\ nds2[m].rword = nds[m].rword

\* A finished state whose record and whose finished successors do not change
\* stays as PassOne has left it.
LEMMA GrownStable ==
    ASSUME NEW nds, NEW nds2, NEW n \in Nat, Grown(nds, n), nds2[n] = nds[n],
           Len(nds) \in Nat, Len(nds2) \in Nat, Len(nds) <= Len(nds2),
           \A m \in (n + 1)..Len(nds) : nds[m].hmap # NULL => Agree(nds, nds2, m)
    PROVE  Grown(nds2, n)
<1>1. Kids(nds2, n) = Kids(nds, n) /\ Kind(nds2, n) = Kind(nds, n)
  BY DEF Kids, Kind
<1>2. \A m \in Kids(nds, n) : Agree(nds, nds2, m)
  BY DEF Grown
<1>3. Kids(nds2, n) \subseteq (n + 1)..Len(nds2)
  BY <1>1 DEF Grown
<1>4. \A m \in Kids(nds2, n) : nds2[m].hmap # NULL
  BY <1>1, <1>2 DEF Grown, Agree
<1>5. GrownLit(nds, n) => GrownLit(nds2, n)
  BY <1>1, <1>2 DEF GrownLit, Agree
<1>6. GrownArgs(nds, n) => GrownArgs(nds2, n)
  <2>1. SUFFICES ASSUME GrownArgs(nds, n) PROVE GrownArgs(nds2, n)
    OBVIOUS
  <2>2. PICK tr \in nds[n].trans :
          /\ nds[n].trans = {tr} /\ tr[1] = Eps
          /\ nds[n].hmap = IF Kind(nds, n) = "AND" THEN Joint(nds, tr[2])
                           ELSE UNION {nds[m].hmap : m \in tr[2]}
          /\ \A m \in tr[2] : /\ nds[m].rword = nds[n].rword
                              /\ nds[m].amap \in Args[nds[n].amap]
          /\ \A f \in Args[nds[n].amap] : \E m \in tr[2] : nds[m].amap = f
    BY <2>1 DEF GrownArgs
  <2>3. \A m \in tr[2] : Agree(nds, nds2, m)
    BY <1>2, <2>2 DEF Kids
  <2>4. Joint(nds2, tr[2]) = Joint(nds, tr[2])
    BY <2>3 DEF Joint, Agree
  <2>5. {nds2[m].hmap : m \in tr[2]} = {nds[m].hmap : m \in tr[2]}
    BY <2>3 DEF Agree
  <2>6. \A m \in tr[2] : /\ nds2[m].rword = nds2[n].rword
                         /\ nds2[m].amap \in Args[nds2[n].amap]
    BY <2>2, <2>3 DEF Agree
  <2>7. \A f \in Args[nds2[n].amap] : \E m \in tr[2] : nds2[m].amap = f
    BY <2>2, <2>3 DEF Agree
  <2>8. nds2[n].hmap = IF Kind(nds2, n) = "AND" THEN Joint(nds2, tr[2])
                       ELSE UNION {nds2[m].hmap : m \in tr[2]}
    BY <1>1, <2>2, <2>4, <2>5
  <2> QED
    BY <2>2, <2>6, <2>7, <2>8 DEF GrownArgs
<1> QED
  BY <1>1, <1>3, <1>4, <1>5, <1>6 DEF Grown

\* The same of a pruned state.
LEMMA PrunedStable ==
    ASSUME NEW nds, NEW nds2, NEW w, NEW n \in Nat, Pruned(nds, w, n), nds2[n] = nds[n],
           Len(nds) \in Nat, Len(nds2) = Len(nds),
           \A m \in (n + 1)..Len(nds) : Agree(nds, nds2, m)
    PROVE  Pruned(nds2, w, n)
<1>1. Kids(nds2, n) = Kids(nds, n)
  BY DEF Kids
<1>2. \A m \in Kids(nds, n) : Agree(nds, nds2, m)
  BY DEF Pruned
<1>3. \A tr \in nds[n].trans : Joint(nds2, tr[2]) = Joint(nds, tr[2])
  <2>1. \A tr \in nds[n].trans : \A m \in tr[2] : Agree(nds, nds2, m)
    BY <1>2 DEF Kids
  <2> QED
    BY <2>1 DEF Joint, Agree
<1> QED
  BY <1>1, <1>2, <1>3 DEF Pruned, Agree

\* A literal that is not accepted has one child, with the same HMap.
LEMMA LitChild ==
    ASSUME NEW nds, NEW n, Grown(nds, n), Kind(nds, n) = "ORLit"
    PROVE  /\ nds[n].acc => Kids(nds, n) = {}
           /\ ~nds[n].acc => \E m : Kids(nds, n) = {m} /\ (Void(nds, m) <=> Void(nds, n))
BY DEF Grown, GrownLit, Kids, Void

\* A disjunction is unsatisfiable if all its disjuncts are.
LEMMA OrChildren ==
    ASSUME NEW nds, NEW n, Grown(nds, n), Kind(nds, n) = "OR"
    PROVE  Void(nds, n) <=> \A m \in Kids(nds, n) : Void(nds, m)
<1>1. PICK tr \in nds[n].trans : /\ nds[n].trans = {tr}
                                 /\ nds[n].hmap = UNION {nds[m].hmap : m \in tr[2]}
  BY DEF Grown, GrownArgs
<1>2. Kids(nds, n) = tr[2]
  BY <1>1 DEF Kids
<1>3. Void(nds, n) <=> \A h \in {nds[m].hmap : m \in tr[2]} : h = {}
  BY <1>1 DEF Void
<1> QED
  BY <1>2, <1>3 DEF Void

\* The HMap of a conjunction is the intersection of those of its conjuncts.
LEMMA AndChildren ==
    ASSUME NEW nds, NEW n, Grown(nds, n), Kind(nds, n) = "AND"
    PROVE  /\ nds[n].hmap = Joint(nds, Kids(nds, n))
           /\ \E tr : nds[n].trans = {tr} /\ tr[1] = Eps /\ tr[2] = Kids(nds, n)
           /\ \A m \in Kids(nds, n) : /\ nds[m].rword = nds[n].rword
                                      /\ nds[m].amap \in Args[nds[n].amap]
           /\ \A f \in Args[nds[n].amap] : \E m \in Kids(nds, n) : nds[m].amap = f
<1>1. PICK tr \in nds[n].trans : /\ nds[n].trans = {tr} /\ tr[1] = Eps
                                 /\ nds[n].hmap = Joint(nds, tr[2])
                                 /\ \A m \in tr[2] : /\ nds[m].rword = nds[n].rword
                                                     /\ nds[m].amap \in Args[nds[n].amap]
                                 /\ \A f \in Args[nds[n].amap] : \E m \in tr[2] : nds[m].amap = f
  BY DEF Grown, GrownArgs
<1>2. Kids(nds, n) = tr[2]
  BY <1>1 DEF Kids
<1> QED
  BY <1>1, <1>2

-----------------------------------------------------------------------------
(***************************************************************************)
(* PassOne leaves every state that it finishes as Grown says.              *)
(***************************************************************************)
\* A call that creates a state keeps the shapes.
LEMMA RecurseKeeps ==
    ASSUME IInv, Running, Growing, AllGrown,
           NEW fr \in Frame, fr.st = top.st,
           NEW nd \in Node, nd.hmap = NULL, nd.trans = {},
           Kind(node, top.st) = "ORLit" => ~this.acc,
           Recurse(fr, nd)
    PROVE  Growing' /\ AllGrown'
<1> DEFINE n == Len(node) + 1
           k == Len(stack)
           fr2 == [fr EXCEPT !.next = @ \cup {n}]
           mid == [stack EXCEPT ![k] = fr2]
<1>1. /\ k \in Nat \ {0} /\ k \in 1..k
      /\ Len(node) \in Nat \ {0}
      /\ stack \in Seq(Frame)
      /\ node \in Seq(Node)
      /\ \A i \in 1..k : stack[i].st \in 1..Len(node)
  BY RunningFacts DEF IInv, TypeOK, CallStack
<1>2. node' = Append(node, nd) /\ stack' = Append(mid, Call(n, nd))
  BY DEF Recurse
<1>3. /\ Len(node') = n
      /\ node'[n] = nd
      /\ \A m \in 1..Len(node) : node'[m] = node[m]
  BY <1>1, <1>2, AppendProperties
<1>4. /\ fr2 \in Frame /\ fr2.st = top.st
      /\ Call(n, nd) \in Frame /\ Call(n, nd).st = n /\ Call(n, nd).next = {}
  <2>1. n \in Nat
    BY <1>1
  <2>2. fr2 \in Frame /\ fr2.st = top.st
    BY <2>1 DEF Frame
  <2>3. Call(n, nd) \in Frame
    BY <2>1, FormulaAssumption DEF Call, Frame, Node
  <2>4. Call(n, nd).st = n /\ Call(n, nd).next = {}
    BY DEF Call
  <2> QED
    BY <2>2, <2>3, <2>4
<1>5. mid \in Seq(Frame) /\ Len(mid) = k
      /\ \A i \in 1..k : mid[i] = IF i = k THEN fr2 ELSE stack[i]
  BY <1>1, <1>4, ExceptSeq
<1> DEFINE c == Call(n, nd)
<1>6. c \in Frame /\ c.next = {} /\ stack' = Append(mid, c)
  BY <1>2, <1>4
<1> HIDE DEF mid, c
<1>7. Len(stack') = k + 1 /\ stack'[k+1] = c /\ \A i \in 1..k : stack'[i] = mid[i]
  BY <1>1, <1>5, <1>6, AppendProperties
<1>8. \A m \in 1..Len(node') : node'[m].hmap = NULL => node'[m].trans = {}
  BY <1>1, <1>3 DEF Growing
<1>9. ASSUME NEW i \in 1..Len(stack'),
             Kind(node', stack'[i].st) = "ORLit", stack'[i].next # {}
      PROVE  ~node'[stack'[i].st].acc
  <2>1. i \in 1..k /\ stack'[i] = mid[i]
    BY <1>1, <1>6, <1>7, <1>9
  <2>2. CASE i = k
    <3>1. stack'[i].st = top.st /\ top.st \in 1..Len(node)
      BY <1>1, <1>4, <1>5, <2>1, <2>2 DEF top
    <3>2. node'[stack'[i].st] = this
      BY <1>3, <3>1 DEF this
    <3> QED
      BY <1>9, <3>1, <3>2 DEF Kind, this
  <2>3. CASE i # k
    <3>1. stack'[i] = stack[i] /\ stack[i].st \in 1..Len(node)
      BY <1>1, <1>5, <2>1, <2>3
    <3>2. node'[stack'[i].st] = node[stack[i].st]
      BY <1>3, <3>1
    <3> QED
      BY <1>9, <2>1, <3>1, <3>2 DEF Growing, Kind
  <2> QED
    BY <2>2, <2>3
<1>10. ASSUME NEW m \in 1..Len(node'), node'[m].hmap # NULL
       PROVE  Grown(node', m)
  <2>1. m \in 1..Len(node) /\ node'[m] = node[m]
    BY <1>1, <1>3, <1>10
  <2>2. Grown(node, m)
    BY <1>10, <2>1 DEF AllGrown
  <2>3. \A p \in (m + 1)..Len(node) : Agree(node, node', p)
    BY <1>1, <1>3, <2>1 DEF Agree
  <2>4. Len(node) \in Nat /\ Len(node') \in Nat /\ Len(node) <= Len(node') /\ m \in Nat
    BY <1>1, <1>3
  <2> QED
    BY <2>1, <2>2, <2>3, <2>4, GrownStable
<1> QED
  BY <1>8, <1>9, <1>10 DEF Growing, AllGrown

\* A call that finishes its state, in its shape, keeps the shapes.
LEMMA ReturnKeeps ==
    ASSUME IInv, Running, Growing, AllGrown,
           NEW nd \in Node, nd.amap = this.amap, nd.rword = this.rword, nd.hmap # NULL,
           Return(nd), Grown(node', top.st)
    PROVE  Growing' /\ AllGrown'
<1> DEFINE k == Len(stack)
           n == top.st
<1>1. /\ k \in Nat \ {0} /\ k \in 1..k
      /\ Len(node) \in Nat \ {0}
      /\ stack \in Seq(Frame)
      /\ node \in Seq(Node)
      /\ n \in 1..Len(node)
      /\ node[n].hmap = NULL
      /\ \A i \in 1..k : stack[i].st \in 1..Len(node)
  BY RunningFacts DEF IInv, TypeOK, CallStack, this
<1>2. node' = [node EXCEPT ![n] = nd] /\ stack' = SubSeq(stack, 1, k - 1)
  BY DEF Return
<1>3. /\ Len(node') = Len(node)
      /\ \A m \in 1..Len(node) : node'[m] = IF m = n THEN nd ELSE node[m]
  BY <1>1, <1>2, ExceptSeq
<1>4. Len(stack') = k - 1 /\ \A i \in 1..(k-1) : stack'[i] = stack[i]
  <2>1. \A i \in 1..(k-1) : stack[i] \in Frame
    BY <1>1, ElementOfSeq
  <2>2. 1 \in Int /\ k - 1 \in Int /\ k - 1 - 1 + 1 = k - 1
    BY <1>1
  <2> HIDE DEF k
  <2>3. /\ Len(SubSeq(stack, 1, k-1)) = IF 1 <= k-1 THEN (k-1)-1+1 ELSE 0
        /\ \A i \in 1..((k-1)-1+1) : SubSeq(stack, 1, k-1)[i] = stack[1+i-1]
    BY <2>1, <2>2, SubSeqProperties
  <2> QED
    BY <1>1, <1>2, <2>3
<1>5. ASSUME NEW i \in 1..(k-1)
      PROVE  i \in 1..k /\ stack[i].st \in 1..Len(node) /\ stack[i].st # n
  <2>1. i \in 1..k /\ k \in 1..k /\ i < k
    BY <1>1
  <2>2. stack[i].st < n
    BY <2>1 DEF IInv, CallStack, top
  <2> QED
    BY <1>1, <2>1, <2>2
<1>6. Growing'
  <2>1. \A m \in 1..Len(node') : node'[m].hmap = NULL => node'[m].trans = {}
    BY <1>3 DEF Growing
  <2>2. ASSUME NEW i \in 1..(k-1)
        PROVE  stack'[i] = stack[i] /\ node'[stack[i].st] = node[stack[i].st] /\ i \in 1..k
    BY <1>3, <1>4, <1>5
  <2> QED
    BY <1>4, <2>1, <2>2 DEF Growing, Kind
<1>7. ASSUME NEW m \in 1..Len(node'), node'[m].hmap # NULL
      PROVE  Grown(node', m)
  <2>1. CASE m = n
    BY <2>1
  <2>2. CASE m # n
    <3>1. m \in 1..Len(node) /\ m \in Nat /\ node'[m] = node[m]
      BY <1>3, <2>2
    <3>2. Grown(node, m)
      BY <1>7, <3>1 DEF AllGrown
    <3>3. ASSUME NEW p \in (m + 1)..Len(node), node[p].hmap # NULL
          PROVE  Agree(node, node', p)
      <4>1. p \in 1..Len(node) /\ p # n
        BY <1>1, <3>1, <3>3
      <4>2. node'[p] = node[p]
        BY <1>3, <4>1
      <4> QED
        BY <4>2 DEF Agree
    <3> QED
      BY <1>1, <1>3, <3>1, <3>2, <3>3, GrownStable
  <2> QED
    BY <2>1, <2>2
<1> QED
  BY <1>6, <1>7 DEF AllGrown

\* The running call returns nd: what the tree then holds.
LEMMA ReturnTree ==
    ASSUME IInv, Running, NEW nd \in Node, Return(nd)
    PROVE  /\ Len(node') = Len(node)
           /\ node'[top.st] = nd
           /\ \A m \in 1..Len(node) : m # top.st => node'[m] = node[m]
           /\ \A m \in top.next : /\ node'[m] = node[m] /\ node[m].hmap # NULL
                                  /\ m \in (top.st + 1)..Len(node')
<1>1. node \in Seq(Node) /\ Len(node) \in Nat /\ top.st \in 1..Len(node)
  BY RunningFacts DEF IInv, TypeOK
<1>2. node' = [node EXCEPT ![top.st] = nd]
  BY DEF Return
<1>3. /\ Len(node') = Len(node)
      /\ \A m \in 1..Len(node) : node'[m] = IF m = top.st THEN nd ELSE node[m]
  BY <1>1, <1>2, ExceptSeq
<1>4. ASSUME NEW m \in top.next
      PROVE  /\ node'[m] = node[m] /\ node[m].hmap # NULL
             /\ m \in (top.st + 1)..Len(node')
  <2>1. m \in (top.st + 1)..Len(node) /\ node[m].hmap \in SUBSET State
    BY ChildrenDone
  <2> QED
    BY <1>1, <1>3, <2>1, NullAssumption
<1> QED
  BY <1>1, <1>3, <1>4

LEMMA VisitArgKeeps == IInv /\ Growing /\ AllGrown /\ VisitArg => Growing' /\ AllGrown'
<1> SUFFICES ASSUME IInv, Growing, AllGrown, VisitArg
             PROVE  Growing' /\ AllGrown'
  OBVIOUS
<1>1. Running /\ mType[this.amap] # "ORLit"
  BY DEF VisitArg
<1>2. PICK f \in top.todo : Recurse([top EXCEPT !.todo = @ \ {f}], NewNode(f, this.rword, FALSE))
  BY DEF VisitArg
<1> DEFINE fr == [top EXCEPT !.todo = @ \ {f}]
           nd == NewNode(f, this.rword, FALSE)
<1>3. top \in Frame /\ this \in Node
  BY <1>1, RunningFacts
<1>4. nd \in Node /\ nd.hmap = NULL /\ nd.trans = {}
  BY <1>3 DEF NewNode, Node, Frame
<1>5. fr \in Frame /\ fr.st = top.st
  BY <1>3 DEF Frame
<1>6. Kind(node, top.st) # "ORLit"
  BY <1>1 DEF Kind, this
<1> HIDE DEF nd, fr
<1> QED
  BY <1>1, <1>2, <1>4, <1>5, <1>6, RecurseKeeps DEF nd, fr

LEMMA ProcessSymKeeps == IInv /\ Growing /\ AllGrown /\ ProcessSym => Growing' /\ AllGrown'
<1> SUFFICES ASSUME IInv, Growing, AllGrown, ProcessSym
             PROVE  Growing' /\ AllGrown'
  OBVIOUS
<1> DEFINE phi == Meaning[this.amap]
           a == word[top.pos]
<1>1. Running /\ ~this.acc /\ top.pos > 0
  BY DEF ProcessSym, Scanning, AtLit
<1>2. PICK f \in Simplified(a, phi) :
        Recurse(top, NewNode(f, top.pos - 1, f = FalseExp \/ (f = TrueExp /\ top.pos = 1)))
  BY DEF ProcessSym, sym
<1> DEFINE acc == f = FalseExp \/ (f = TrueExp /\ top.pos = 1)
           nd == NewNode(f, top.pos - 1, acc)
<1>3. top \in Frame /\ top.pos - 1 \in Nat
  BY <1>1, RunningFacts DEF Frame
<1>4. f \in Formula
  <2>1. a \in mAllSyms /\ phi \in SUBSET State
    BY <1>1, <1>3, RunningFacts, FormulaAssumption DEF FrameOK, IInv, TypeOK, Frame, Node, this
  <2> HIDE DEF a, phi
  <2> QED
    BY <1>2, <2>1, SimplifiedMeaning
<1>5. acc \in BOOLEAN
  OBVIOUS
<1>6. nd \in Node /\ nd.hmap = NULL /\ nd.trans = {}
  <2> HIDE DEF acc
  <2> QED
    BY <1>3, <1>4, <1>5 DEF NewNode, Node
<1> HIDE DEF nd, acc
<1>7. Recurse(top, nd)
  BY <1>2 DEF nd, acc
<1> QED
  BY <1>1, <1>3, <1>6, <1>7, RecurseKeeps

\* The edge to the children of a finished AND or OR state.
LEMMA ArgsGrown ==
    ASSUME IInv, Running, mType[this.amap] # "ORLit", top.todo = {},
           NEW h \in SUBSET State,
           h = IF mType[this.amap] = "AND" THEN Joint(node, top.next)
               ELSE UNION HMapsOf(top.next),
           Return([this EXCEPT !.hmap = h, !.trans = {<<Eps, top.next>>}])
    PROVE  Grown(node', top.st)
<1> DEFINE n == top.st
           nx == top.next
           nd == [this EXCEPT !.hmap = h, !.trans = {<<Eps, nx>>}]
<1>1. ArgFrame(top, node) /\ this = node[n] /\ this \in Node /\ nx \subseteq 1..Len(node)
      /\ nx \in SUBSET Nat
  BY RunningFacts, ArgHMaps DEF FrameOK, this, Frame
<1>2. nd \in Node /\ nd.amap = this.amap /\ nd.rword = this.rword
      /\ nd.hmap = h /\ nd.trans = {<<Eps, nx>>}
  BY <1>1, EpsEdge DEF Node
<1> HIDE DEF nd
<1>3. /\ Len(node') = Len(node) /\ node'[n] = nd
      /\ \A m \in nx : /\ node'[m] = node[m] /\ node[m].hmap # NULL
                       /\ m \in (n + 1)..Len(node')
  BY ReturnTree, <1>2 DEF nd
<1> HIDE DEF n, nx
<1>4. Kids(node', n) = nx
  <2>1. node'[n].trans = {<<Eps, nx>>}
    BY <1>2, <1>3
  <2> QED
    BY <2>1 DEF Kids
<1>5. Kind(node', n) = mType[this.amap]
  <2>1. node'[n].amap = this.amap
    BY <1>2, <1>3
  <2> QED
    BY <2>1 DEF Kind
<1>6. Joint(node', nx) = Joint(node, nx)
  BY <1>3 DEF Joint
<1>7. {node'[m].hmap : m \in nx} = HMapsOf(nx)
  BY <1>3 DEF HMapsOf
<1>8. \A m \in nx : node'[m].rword = nd.rword /\ node'[m].amap \in Args[nd.amap]
  BY <1>1, <1>2, <1>3 DEF ArgFrame, n, nx
<1>9. \A f \in Args[nd.amap] : \E m \in nx : node'[m].amap = f
  BY <1>1, <1>2, <1>3 DEF ArgFrame, n, nx
<1>10. nd.hmap = IF Kind(node', n) = "AND" THEN Joint(node', nx)
                 ELSE UNION {node'[m].hmap : m \in nx}
  BY <1>2, <1>5, <1>6, <1>7 DEF nx
<1>11. GrownArgs(node', n)
  <2> DEFINE tr == <<Eps, nx>>
  <2>1. node'[n].trans = {tr} /\ tr \in node'[n].trans /\ tr[1] = Eps /\ tr[2] = nx
    BY <1>2, <1>3
  <2> HIDE DEF tr
  <2> QED
    BY <1>3, <1>8, <1>9, <1>10, <2>1 DEF GrownArgs
<1> QED
  BY <1>3, <1>4, <1>5, <1>11 DEF Grown, n

LEMMA FinishArgsKeeps ==
    IInv /\ Growing /\ AllGrown /\ (FinishAnd \/ FinishOr) => Growing' /\ AllGrown'
<1> SUFFICES ASSUME IInv, Growing, AllGrown, FinishAnd \/ FinishOr
             PROVE  Growing' /\ AllGrown'
  OBVIOUS
<1> DEFINE ha == {s \in State : \A x \in HMapsOf(top.next) : s \in x}
           ho == UNION HMapsOf(top.next)
           h == IF mType[this.amap] = "AND" THEN ha ELSE ho
           nd == [this EXCEPT !.hmap = h, !.trans = {<<Eps, top.next>>}]
<1>1. Running /\ mType[this.amap] # "ORLit" /\ top.todo = {} /\ Return(nd)
  BY DEF FinishAnd, FinishOr
<1>2. ha = Joint(node, top.next)
  BY DEF Joint, HMapsOf
<1>3. \A x \in HMapsOf(top.next) : x \in SUBSET State
  BY <1>1, ChildrenDone DEF HMapsOf
<1>4. h \in SUBSET State
  BY <1>3
<1>5. top.next \subseteq 1..Len(node)
  BY <1>1, ArgHMaps
<1>6. this \in Node
  BY <1>1, RunningFacts
<1>7. h = IF mType[this.amap] = "AND" THEN Joint(node, top.next) ELSE UNION HMapsOf(top.next)
  BY <1>2
<1> HIDE DEF h
<1>8. nd \in Node /\ nd.amap = this.amap /\ nd.rword = this.rword /\ nd.hmap # NULL
  BY <1>1, <1>4, <1>5, <1>6, EpsEdge, NullAssumption DEF Node
<1>9. Grown(node', top.st)
  BY <1>1, <1>4, <1>7, ArgsGrown
<1> HIDE DEF nd
<1> QED
  BY <1>1, <1>8, <1>9, ReturnKeeps

LEMMA AcceptKeeps == IInv /\ Growing /\ AllGrown /\ Accept => Growing' /\ AllGrown'
<1> SUFFICES ASSUME IInv, Growing, AllGrown, Accept
             PROVE  Growing' /\ AllGrown'
  OBVIOUS
<1> DEFINE nd == [this EXCEPT !.hmap = Meaning[this.amap], !.acc = TRUE]
           n == top.st
<1>1. Running /\ mType[this.amap] = "ORLit" /\ Return(nd)
  BY DEF Accept, AtLit
<1>2. this \in Node /\ this = node[n] /\ n \in 1..Len(node) /\ this.hmap = NULL
      /\ Meaning[this.amap] \in SUBSET State
  BY <1>1, RunningFacts DEF this
<1>3. this.trans = {}
  BY <1>2 DEF Growing
<1>4. /\ nd \in Node /\ nd.amap = this.amap /\ nd.rword = this.rword /\ nd.acc
      /\ nd.hmap = Meaning[nd.amap] /\ nd.hmap # NULL /\ nd.trans = {}
  BY <1>2, <1>3, NullAssumption DEF Node
<1> HIDE DEF nd
<1>5. node'[n] = nd
  BY <1>1, <1>4, ReturnTree
<1>6. Kids(node', n) = {} /\ Kind(node', n) = "ORLit"
  BY <1>1, <1>4, <1>5 DEF Kids, Kind
<1>7. Grown(node', n)
  BY <1>4, <1>5, <1>6 DEF Grown, GrownLit
<1> QED
  BY <1>1, <1>4, <1>7, ReturnKeeps

LEMMA FinishSymKeeps == IInv /\ Growing /\ AllGrown /\ FinishSym => Growing' /\ AllGrown'
<1> SUFFICES ASSUME IInv, Growing, AllGrown, FinishSym
             PROVE  Growing' /\ AllGrown'
  OBVIOUS
<1> DEFINE phi == Meaning[this.amap]
           a == word[top.pos]
           n == top.st
<1>1. Running /\ mType[this.amap] = "ORLit"
  BY DEF FinishSym, AtLit
<1>2. PICK m \in top.next :
        Return([this EXCEPT !.hmap = node[m].hmap, !.trans = {<<a, {m}>>}])
  BY DEF FinishSym, sym
<1> DEFINE nd == [this EXCEPT !.hmap = node[m].hmap, !.trans = {<<a, {m}>>}]
<1>3. /\ top \in Frame /\ this \in Node /\ this = node[n] /\ Len(node) \in Nat
      /\ word \in Seq(mAllSyms) /\ this.rword \in Nat /\ n \in Nat /\ n \in 1..Len(node)
      /\ this.rword <= Len(word) /\ top.pos <= this.rword /\ LitFrame(top, node)
  BY <1>1, RunningFacts DEF this, FrameOK, Node
<1>4. node[m].hmap \in SUBSET State /\ m \in Nat /\ m \in (n + 1)..Len(node)
  BY <1>1, <1>3, ChildrenDone
<1>5. top.pos > 0 /\ Meaning[node[m].amap] = Pre(a, phi)
  BY <1>3 DEF LitFrame
<1>6. top.pos \in 1..Len(word) /\ a \in mAllSyms
  BY <1>3, <1>5 DEF Frame
<1>7. {<<a, {m}>>} \subseteq (mAllSyms \cup {Eps}) \X SUBSET Nat
  BY <1>4, <1>6
<1>8. /\ nd \in Node /\ nd.amap = this.amap /\ nd.rword = this.rword /\ nd.acc = this.acc
      /\ nd.hmap = node[m].hmap /\ nd.trans = {<<a, {m}>>} /\ nd.hmap # NULL
  BY <1>3, <1>4, <1>7, NullAssumption DEF Node
<1>9. ~this.acc
  <2>1. Len(stack) \in 1..Len(stack)
    BY <1>1, RunningFacts
  <2> QED
    BY <1>1, <1>2, <2>1 DEF Growing, top, this, Kind
<1> HIDE DEF nd
<1>10. /\ node'[n] = nd /\ node'[m] = node[m] /\ m \in (n + 1)..Len(node')
  BY <1>1, <1>2, <1>8, ReturnTree DEF nd
<1>11. Kids(node', n) = {m} /\ Kind(node', n) = "ORLit"
  <2>1. node'[n].amap = this.amap /\ node'[n].trans = {<<a, {m}>>}
    BY <1>8, <1>10
  <2>2. Kids(node', n) = {m}
    BY <2>1 DEF Kids
  <2> QED
    BY <1>1, <2>1, <2>2 DEF Kind
<1>12. GrownLit(node', n)
  <2> DEFINE tr == <<a, {m}>>
  <2>1. tr \in node'[n].trans /\ node'[n].trans = {tr} /\ tr[1] = a /\ tr[2] = {m}
    BY <1>8, <1>10
  <2> HIDE DEF tr, a
  <2>2. Meaning[node'[m].amap] = Pre(tr[1], Meaning[node'[n].amap])
    BY <1>5, <1>8, <1>10, <2>1
  <2> QED
    BY <1>6, <1>8, <1>9, <1>10, <1>11, <2>1, <2>2 DEF GrownLit
<1>13. Grown(node', n)
  BY <1>8, <1>10, <1>11, <1>12 DEF Grown
<1> QED
  BY <1>1, <1>2, <1>8, <1>13, ReturnKeeps DEF nd

LEMMA PassOneKeeps == IInv /\ Growing /\ AllGrown /\ PassOneNext => Growing' /\ AllGrown'
<1> SUFFICES ASSUME IInv, Growing, AllGrown, PassOneNext
             PROVE  Growing' /\ AllGrown'
  OBVIOUS
<1>1. CASE Skip
  <2> DEFINE k == Len(stack)
  <2>1. k \in 1..k /\ stack \in Seq(Frame) /\ top \in Frame /\ top.pos > 0
    BY <1>1, RunningFacts DEF Skip, Scanning, AtLit, IInv, TypeOK
  <2> DEFINE fr == [top EXCEPT !.pos = @ - 1]
  <2>2. fr \in Frame /\ fr.st = top.st /\ fr.next = top.next
    <3>1. top.pos - 1 \in Nat
      BY <2>1 DEF Frame
    <3> QED
      BY <2>1, <3>1 DEF Frame
  <2>3. node' = node /\ stack' = [stack EXCEPT ![k] = fr]
    BY <1>1 DEF Skip, top
  <2> HIDE DEF fr
  <2>4. Len(stack') = k /\ \A i \in 1..k : stack'[i] = IF i = k THEN fr ELSE stack[i]
    BY <2>1, <2>2, <2>3, ExceptSeq
  <2>5. \A i \in 1..k : stack'[i].st = stack[i].st /\ stack'[i].next = stack[i].next
    BY <2>2, <2>4 DEF top
  <2> QED
    BY <2>3, <2>4, <2>5 DEF Growing, AllGrown, Kind
<1>2. CASE CheckRoot
  BY <1>2 DEF CheckRoot, Growing, AllGrown
<1> QED
  BY <1>1, <1>2, VisitArgKeeps, FinishArgsKeeps, AcceptKeeps, ProcessSymKeeps, FinishSymKeeps
  DEF PassOneNext

-----------------------------------------------------------------------------
(***************************************************************************)
(* Facts about the second pass that every action of it uses.               *)
(***************************************************************************)
\* PassOne has finished every state.
LEMMA PassOneOver ==
    ASSUME IInvTwo, pc = "PassTwo"
    PROVE  /\ stack = <<>>
           /\ node \in Seq(Node) /\ Len(node) \in Nat \ {0}
           /\ \A n \in 1..Len(node) :
                 /\ node[n] \in Node
                 /\ node[n].hmap \in SUBSET State
                 /\ node[n].hmap # NULL
                 /\ node[n].hmap = WordPre(word, node[n].rword, Meaning[node[n].amap])
                 /\ Shape(node, word, passtwoallstates, calls, n)
                 /\ Kids(node, n) \subseteq (n + 1)..Len(node)
                 /\ Kind(node, n) \in {"AND", "OR", "ORLit"}
<1>1. IInv /\ TypeOK /\ Shapes
  BY DEF IInvTwo, IInv
<1>2. stack = <<>> /\ node \in Seq(Node) /\ Len(node) \in Nat \ {0}
  BY <1>1 DEF IInv, Verdict, TypeOK
<1>3. ASSUME NEW n \in 1..Len(node)
      PROVE  /\ node[n] \in Node
             /\ node[n].hmap \in SUBSET State
             /\ node[n].hmap # NULL
             /\ node[n].hmap = WordPre(word, node[n].rword, Meaning[node[n].amap])
             /\ Shape(node, word, passtwoallstates, calls, n)
             /\ Kids(node, n) \subseteq (n + 1)..Len(node)
             /\ Kind(node, n) \in {"AND", "OR", "ORLit"}
  <2>1. node[n] \in Node
    BY <1>2, ElementOfSeq
  <2>2. node[n].hmap # NULL
    BY <1>1, <1>2 DEF IInv, CallStack
  <2>3. Shape(node, word, passtwoallstates, calls, n)
    BY <1>1, <2>2 DEF Shapes
  <2>4. Kids(node, n) \subseteq (n + 1)..Len(node)
    BY <2>3 DEF Shape, Grown, Pruned
  <2>5. Kind(node, n) \in {"AND", "OR", "ORLit"}
    BY <2>1, FormulaAssumption DEF Kind, Node
  <2>6. node[n].hmap = WordPre(word, node[n].rword, Meaning[node[n].amap])
    BY <1>1, <2>2 DEF IInv, HMapExact
  <2> QED
    BY <2>1, <2>2, <2>3, <2>4, <2>5, <2>6 DEF Node
<1> QED
  BY <1>2, <1>3

\* The operators of the specification are those of the invariant.
LEMMA SameOperators ==
    /\ \A n : ChildrenOf(n) = Kids(node, n)
    /\ \A n : Unsat(n) <=> Void(node, n)
    /\ \A S : JointlyUnsat(S) <=> Joint(node, S) = {}
    /\ \A n : Seen(n) <=> Met(node, passtwoallstates, n)
BY DEF ChildrenOf, Kids, Unsat, Void, JointlyUnsat, Joint, Seen, Met

\* A call of PassTwo is under way or has just returned.
LEMMA InPassTwoFacts ==
    ASSUME IInvTwo, calls # <<>>
    PROVE  /\ pc = "PassTwo" /\ passtwoallstates # {} /\ ~done /\ freed = {}
           /\ Len(calls) \in Nat \ {0} /\ Len(calls) \in 1..Len(calls)
           /\ calls \in Seq(PruneCall)
           /\ caller \in PruneCall /\ caller = calls[Len(calls)]
           /\ caller.st \in passtwoallstates /\ caller.st \in 1..Len(node)
           /\ CallOK(caller, node, passtwoallstates)
<1>1. calls \in Seq(PruneCall) /\ passtwoallstates \subseteq 1..Len(node)
  BY DEF IInvTwo, TypeOKTwo
<1>2. Len(calls) \in Nat \ {0} /\ Len(calls) \in 1..Len(calls)
  BY <1>1
<1>3. caller \in PruneCall /\ caller = calls[Len(calls)]
  BY <1>1, <1>2, ElementOfSeq DEF caller
<1>4. caller.st \in passtwoallstates /\ CallOK(caller, node, passtwoallstates)
  BY <1>2 DEF IInvTwo, Calls, InOrder, caller
<1> QED
  BY <1>1, <1>2, <1>3, <1>4 DEF IInvTwo, Phases

\* A step that leaves the tree alone: what is left to show.
LEMMA SameTree ==
    ASSUME IInvTwo, pc = "PassTwo", ~done,
           UNCHANGED <<passOneVars, freed, done>>,
           passtwoallstates' # {},
           passtwoallstates \subseteq passtwoallstates',
           passtwoallstates' \subseteq 1..Len(node),
           calls' \in Seq(PruneCall),
           ret' \in {NULL} \cup [st : 1..Len(node), unsat : BOOLEAN],
           Calls',
           ReturnExact',
           \A n \in 1..Len(node) :
              Kind(node, n) = "AND" =>
                 ((n \in passtwoallstates' /\ ~BeingPruned(calls', n))
                     <=> (n \in passtwoallstates /\ ~BeingPruned(calls, n))),
           \A n \in passtwoallstates' : ~Active(calls', n) =>
              \/ n \in passtwoallstates /\ ~Active(calls, n)
              \/ (Kind(node, n) = "OR" => Void(node, n)) =>
                    \A m \in Kids(node, n) : Met(node, passtwoallstates', m)
    PROVE  IInvTwo'
<1>1. /\ word' = word /\ node' = node /\ allStates' = allStates /\ stack' = stack /\ pc' = pc
      /\ freed' = freed /\ done' = done
  BY DEF passOneVars
<1>2. IInv'
  BY StutterInv DEF IInvTwo
<1>3. Growing'
  BY <1>1 DEF IInvTwo, Growing, Kind
<1>4. TypeOKTwo'
  <2>1. TypeOK'
    BY <1>2 DEF IInv
  <2> QED
    BY <1>1, <2>1 DEF IInvTwo, TypeOKTwo
<1>5. Shapes'
  <2>1. SUFFICES ASSUME NEW n \in 1..Len(node), node[n].hmap # NULL
                 PROVE  Shape(node, word, passtwoallstates', calls', n)
    BY <1>1 DEF Shapes
  <2>2. Shape(node, word, passtwoallstates, calls, n)
    BY <2>1 DEF IInvTwo, Shapes
  <2> QED
    BY <2>2 DEF Shape
<1>6. ReturnedCalls'
  <2>1. SUFFICES ASSUME NEW n \in passtwoallstates', ~Active(calls', n),
                        Kind(node, n) = "OR" => Void(node, n),
                        NEW m \in Kids(node, n)
                 PROVE  Met(node, passtwoallstates', m)
    BY <1>1 DEF ReturnedCalls
  <2>2. CASE n \in passtwoallstates /\ ~Active(calls, n)
    <3>1. Met(node, passtwoallstates, m)
      BY <2>1, <2>2 DEF IInvTwo, ReturnedCalls
    <3> QED
      BY <3>1 DEF Met
  <2> QED
    BY <2>1, <2>2
<1>7. Phases'
  <2>1. done' = FALSE /\ freed' = {} /\ pc' = "PassTwo"
    BY <1>1 DEF IInvTwo, Phases, TypeOKTwo
  <2> QED
    BY <2>1 DEF Phases
<1> QED
  BY <1>2, <1>3, <1>4, <1>5, <1>6, <1>7 DEF IInvTwo

-----------------------------------------------------------------------------
(***************************************************************************)
(* Every action keeps the invariant.                                       *)
(***************************************************************************)
LEMMA InitTwoInv == InitTwo => IInvTwo
<1> SUFFICES ASSUME InitTwo PROVE IInvTwo
  OBVIOUS
<1>1. Init /\ passtwoallstates = {} /\ calls = <<>> /\ ret = NULL /\ freed = {} /\ done = FALSE
  BY DEF InitTwo
<1>2. IInv
  BY <1>1, InitInv
<1>3. Len(node) = 1 /\ Len(stack) = 1 /\ pc = "PassOne"
      /\ node[1].hmap = NULL /\ node[1].trans = {} /\ stack[1].next = {}
  BY <1>1 DEF Init, NewNode, Call
<1>4. Growing
  BY <1>3 DEF Growing
<1>5. Shapes
  BY <1>3 DEF Shapes
<1>6. TypeOKTwo
  <2>1. TypeOK
    BY <1>2 DEF IInv
  <2>2. calls = <<>> /\ calls \in Seq(PruneCall)
    BY <1>1
  <2> QED
    BY <1>1, <2>1, <2>2 DEF TypeOKTwo
<1>7. Calls /\ ReturnedCalls /\ ReturnExact /\ Phases
  BY <1>1, <1>3 DEF Calls, InOrder, ReturnedCalls, ReturnExact, Phases
<1> QED
  BY <1>2, <1>4, <1>5, <1>6, <1>7 DEF IInvTwo

\* The steps of PassOne, before PassTwo starts.
LEMMA PassOneStepInv == IInvTwo /\ PassOneNext /\ UNCHANGED passTwoVars => IInvTwo'
<1> SUFFICES ASSUME IInvTwo, PassOneNext, UNCHANGED passTwoVars
             PROVE  IInvTwo'
  OBVIOUS
<1>1. pc = "PassOne"
  BY DEF PassOneNext, VisitArg, FinishAnd, FinishOr, Accept, AtLit, Skip, Scanning,
         ProcessSym, FinishSym, CheckRoot, Running
<1>2. /\ passtwoallstates = {} /\ calls = <<>> /\ ret = NULL /\ freed = {} /\ done = FALSE
      /\ passtwoallstates' = {} /\ calls' = <<>> /\ ret' = NULL /\ freed' = {} /\ done' = FALSE
  BY <1>1 DEF IInvTwo, Phases, TypeOKTwo, passTwoVars
<1>3. AllGrown
  BY <1>2 DEF IInvTwo, Shapes, Shape, AllGrown
<1>4. IInv'
  BY NextInv DEF IInvTwo, Next
<1>5. Growing' /\ AllGrown'
  BY <1>3, PassOneKeeps DEF IInvTwo
<1>6. Shapes'
  BY <1>2, <1>5 DEF Shapes, Shape, AllGrown
<1>7. TypeOKTwo'
  <2>1. TypeOK'
    BY <1>4 DEF IInv
  <2>2. calls' = <<>> /\ calls' \in Seq(PruneCall)
    BY <1>2
  <2> QED
    BY <1>2, <2>1, <2>2 DEF TypeOKTwo
<1>8. (Calls /\ ReturnedCalls /\ ReturnExact /\ Phases)'
  <2>1. Calls'
    BY <1>2 DEF Calls, InOrder
  <2>2. (ReturnedCalls /\ ReturnExact /\ Phases)'
    BY <1>2 DEF ReturnedCalls, ReturnExact, Phases
  <2> QED
    BY <2>1, <2>2
<1> QED
  BY <1>4, <1>5, <1>6, <1>7, <1>8 DEF IInvTwo

\* PassTwo is called for state m by a caller whose frames then wait for it.
LEMMA EnterStep ==
    ASSUME IInvTwo, pc = "PassTwo", ~done,
           NEW m \in 1..Len(node), NEW frames \in Seq(PruneCall),
           InOrder(frames, passtwoallstates),
           \A i \in 1..Len(frames) : frames[i].st < m,
           Waiting(frames, node, passtwoallstates \cup {m}, m),
           \A n : BeingPruned(frames, n) <=> BeingPruned(calls, n),
           \A n : Active(frames, n) <=> Active(calls, n),
           EnterPassTwo(m, frames),
           UNCHANGED <<passOneVars, freed, done>>
    PROVE  IInvTwo'
<1> DEFINE all == passtwoallstates
           k == Len(frames)
<1>1. /\ word' = word /\ node' = node /\ allStates' = allStates /\ stack' = stack /\ pc' = pc
      /\ freed' = freed /\ done' = done
  BY DEF passOneVars
<1>2. /\ k \in Nat /\ all \subseteq 1..Len(node)
      /\ node[m] \in Node
      /\ Shape(node, word, all, calls, m)
      /\ Kids(node, m) \subseteq (m + 1)..Len(node) /\ Len(node) \in Nat
      /\ Kind(node, m) \in {"AND", "OR", "ORLit"}
  BY PassOneOver DEF IInvTwo, TypeOKTwo
<1>3. CASE Seen(m)
  <2>1. ret' = Result(m, Unsat(m)) /\ calls' = frames /\ all' = all
    BY <1>3 DEF EnterPassTwo
  <2>2. /\ ret'.st = m /\ ret'.unsat = Void(node, m)
        /\ ret' \in [st : 1..Len(node), unsat : BOOLEAN] /\ ret' # NULL
    <3> DEFINE u == Void(node, m)
    <3>1. ret' = [st |-> m, unsat |-> u] /\ u \in BOOLEAN
      BY <2>1 DEF Result, Unsat, Void
    <3> HIDE DEF u
    <3>2. ret' \in [st : 1..Len(node), unsat : BOOLEAN] /\ ret' \in [st : Nat, unsat : BOOLEAN]
      BY <3>1
    <3>3. ret'.st = m /\ ret'.unsat = u
      BY <3>1
    <3> QED
      BY <3>2, <3>3, ResultAssumption DEF u
  <2>3. all # {}
    BY <1>3 DEF Seen
  <2>4. \A p : Met(node, all \cup {m}, p) => Met(node, all, p)
    BY <1>3 DEF Seen, Met
  <2>5. ASSUME NEW i \in 1..k
        PROVE  CallOK(frames[i], node, all)
    <3>1. CallOK(frames[i], node, all \cup {m})
      BY DEF Waiting
    <3> QED
      BY <2>4, <3>1 DEF CallOK, ChildLoop
  <2>6. ASSUME NEW i \in 1..(k - 1)
        PROVE  WaitsFor(frames[i], node, frames[i + 1].st)
    <3>1. i \in 1..k /\ i # k
      BY <1>2
    <3> QED
      BY <3>1 DEF Waiting
  <2>7. frames # <<>> => WaitsFor(frames[k], node, m)
    <3>1. frames # <<>> => k \in 1..k
      BY <1>2
    <3> QED
      BY <3>1 DEF Waiting
  <2>8. Calls'
    BY <1>1, <2>1, <2>2, <2>5, <2>6, <2>7 DEF Calls, caller
  <2>9. ReturnExact'
    BY <1>1, <2>2 DEF ReturnExact, Unsat, Void
  <2> QED
    BY <1>1, <1>2, <2>1, <2>2, <2>3, <2>8, <2>9, SameTree
<1>4. CASE ~Seen(m)
  <2> DEFINE and == mType[node[m].amap] = "AND"
             lit == mType[node[m].amap] = "ORLit"
             next == IF lit /\ node[m].acc THEN {} ELSE ChildrenOf(m)
             fr == [st |-> m, nextset |-> IF and THEN next ELSE {}, cores |-> {},
                    pruned |-> ~and, todo |-> IF and THEN {} ELSE next,
                    res |-> IF lit THEN node[m].acc /\ Unsat(m) ELSE ~and]
  <2>1. all' = all \cup {m} /\ calls' = Append(frames, fr) /\ ret' = NULL
    BY <1>4 DEF EnterPassTwo
  <2>2. m \notin all
    BY <1>4 DEF Seen
  <2>3. Grown(node, m)
    BY <1>2, <2>2 DEF Shape
  <2>4. next \in SUBSET Nat
    <3>1. ChildrenOf(m) \subseteq (m + 1)..Len(node)
      BY <1>2, SameOperators
    <3> QED
      BY <1>2, <3>1
  <2>5. next = Kids(node, m)
    BY <2>3, LitChild, SameOperators DEF Kind
  <2>6. /\ fr.st = m /\ fr.cores = {} /\ (fr.pruned <=> ~and)
        /\ and => fr.nextset = Kids(node, m) /\ fr.todo = {}
        /\ ~and => fr.todo = Kids(node, m)
        /\ fr.res <=> IF lit THEN node[m].acc /\ Void(node, m) ELSE ~and
    BY <2>5, SameOperators
  <2>7. fr \in PruneCall
    <3> DEFINE done1 == IF lit THEN node[m].acc /\ Unsat(m) ELSE ~and
               todo == IF and THEN {} ELSE next
               nextset == IF and THEN next ELSE {}
               loop == ~and
    <3>1. done1 \in BOOLEAN /\ loop \in BOOLEAN /\ m \in Nat
      <4>1. loop \in BOOLEAN /\ m \in Nat
        BY <1>2
      <4>2. (node[m].acc /\ Unsat(m)) \in BOOLEAN
        BY DEF Unsat
      <4> HIDE DEF loop
      <4>3. done1 = IF lit THEN node[m].acc /\ Unsat(m) ELSE loop
        BY DEF loop
      <4> QED
        BY <4>1, <4>2, <4>3
    <3>2. todo \in SUBSET Nat /\ nextset \in SUBSET Nat
      BY <2>4
    <3>3. fr = [st |-> m, nextset |-> nextset, cores |-> {}, pruned |-> loop,
                todo |-> todo, res |-> done1]
      OBVIOUS
    <3> HIDE DEF fr, done1, todo, nextset, loop
    <3> QED
      BY <3>1, <3>2, <3>3 DEF PruneCall
  <2> HIDE DEF fr
  <2>8. /\ calls' \in Seq(PruneCall) /\ Len(calls') = k + 1
        /\ calls'[k+1] = fr /\ \A i \in 1..k : calls'[i] = frames[i]
    BY <2>1, <2>7, AppendProperties
  <2>9. CallOK(fr, node, all') /\ Settled(fr, node)
    <3>1. CASE and
      <4>1. CoreLoop(fr, node)
        BY <2>6, <3>1 DEF CoreLoop, Kind
      <4> QED
        BY <2>6, <3>1, <4>1 DEF CallOK, Settled
    <3>2. CASE ~and
      <4>1. ChildLoop(fr, node, all')
        BY <2>6, <3>2 DEF ChildLoop, Kind
      <4>2. Kind(node, m) = "ORLit" => fr.todo # {} \/ (fr.res <=> Void(node, m))
        <5>1. SUFFICES ASSUME Kind(node, m) = "ORLit", fr.todo = {}
                       PROVE  fr.res <=> Void(node, m)
          OBVIOUS
        <5>2. node[m].acc
          BY <2>3, <2>6, <3>2, <5>1, LitChild
        <5> QED
          BY <2>6, <5>1, <5>2 DEF Kind
      <4>3. Kind(node, m) = "OR" => fr.res
        BY <2>6, <3>2 DEF Kind
      <4> QED
        BY <2>6, <3>2, <4>1, <4>2, <4>3 DEF CallOK, Settled
    <3> QED
      BY <3>1, <3>2
  <2>10. Calls'
    <3>1. InOrder(calls', all')
      <4>1. \A i \in 1..k : frames[i].st \in all
        BY DEF InOrder
      <4>2. \A i \in 1..(k+1) : calls'[i].st \in all'
        BY <1>2, <2>1, <2>6, <2>8, <4>1
      <4>3. ASSUME NEW i \in 1..(k+1), NEW j \in 1..(k+1), i < j
            PROVE  calls'[i].st < calls'[j].st
        <5>1. CASE j = k + 1
          <6>1. i \in 1..k
            BY <1>2, <4>3, <5>1
          <6> QED
            BY <2>6, <2>8, <5>1, <6>1
        <5>2. CASE j # k + 1
          <6>1. i \in 1..k /\ j \in 1..k
            BY <1>2, <4>3, <5>2
          <6> QED
            BY <2>8, <4>3, <6>1 DEF InOrder
        <5> QED
          BY <5>1, <5>2
      <4> QED
        BY <2>8, <4>2, <4>3 DEF InOrder
    <3>2. ASSUME NEW i \in 1..(k+1)
          PROVE  CallOK(calls'[i], node, all')
      <4>1. CASE i = k + 1
        BY <2>8, <2>9, <4>1
      <4>2. CASE i # k + 1
        <5>1. i \in 1..k /\ calls'[i] = frames[i]
          BY <1>2, <2>8, <4>2
        <5> QED
          BY <2>1, <5>1 DEF Waiting
      <4> QED
        BY <4>1, <4>2
    <3>3. ASSUME NEW i \in 1..k
          PROVE  WaitsFor(calls'[i], node, calls'[i + 1].st)
      <4>1. CASE i = k
        BY <2>6, <2>8, <4>1 DEF Waiting
      <4>2. CASE i # k
        <5>1. i + 1 \in 1..k
          BY <1>2, <4>2
        <5> QED
          BY <2>8, <4>2, <5>1 DEF Waiting
      <4> QED
        BY <4>1, <4>2
    <3>4. (Len(calls') - 1) = k /\ caller' = fr
      BY <1>2, <2>8 DEF caller
    <3> QED
      BY <1>1, <2>1, <2>8, <2>9, <3>1, <3>2, <3>3, <3>4 DEF Calls
  <2>11. ReturnExact'
    BY <2>1 DEF ReturnExact
  <2>12. ASSUME NEW n, n # m
         PROVE  /\ BeingPruned(calls', n) <=> BeingPruned(frames, n)
                /\ Active(calls', n) <=> Active(frames, n)
    <3>1. \A i \in 1..(k+1) : calls'[i].st = n => i \in 1..k
      BY <1>2, <2>6, <2>8, <2>12
    <3>2. 1..k \subseteq 1..(k+1)
      BY <1>2
    <3> QED
      BY <2>8, <3>1, <3>2 DEF BeingPruned, Active
  <2>13. /\ Active(calls', m)
         /\ and => BeingPruned(calls', m)
    <3>1. k + 1 \in 1..(k+1)
      BY <1>2
    <3> QED
      BY <2>6, <2>8, <3>1 DEF Active, BeingPruned
  <2>14. ASSUME NEW n \in 1..Len(node), Kind(node, n) = "AND"
         PROVE  (n \in all' /\ ~BeingPruned(calls', n)) <=> (n \in all /\ ~BeingPruned(calls, n))
    <3>1. CASE n = m
      BY <2>2, <2>13, <2>14, <3>1 DEF Kind
    <3>2. CASE n # m
      BY <2>1, <2>12, <3>2
    <3> QED
      BY <3>1, <3>2
  <2>15. ASSUME NEW n \in all', ~Active(calls', n)
         PROVE  n \in all /\ ~Active(calls, n)
    BY <2>1, <2>12, <2>13, <2>15
  <2>16. all' # {} /\ all \subseteq all' /\ all' \subseteq 1..Len(node)
    BY <1>2, <2>1
  <2> QED
    BY <1>1, <2>1, <2>8, <2>10, <2>11, <2>14, <2>15, <2>16, SameTree
<1> QED
  BY <1>3, <1>4

LEMMA StartPassTwoInv == IInvTwo /\ StartPassTwo => IInvTwo'
<1> SUFFICES ASSUME IInvTwo, StartPassTwo
             PROVE  IInvTwo'
  OBVIOUS
<1>1. /\ pc = "PassTwo" /\ passtwoallstates = {} /\ EnterPassTwo(1, <<>>)
      /\ UNCHANGED <<passOneVars, freed, done>>
  BY DEF StartPassTwo
<1>2. calls = <<>> /\ ~done
  BY <1>1 DEF IInvTwo, Phases
<1>3. 1 \in 1..Len(node)
  BY <1>1, PassOneOver
<1>4. <<>> \in Seq(PruneCall) /\ Len(<<>>) = 0
  OBVIOUS
<1>5. InOrder(<<>>, passtwoallstates) /\ Waiting(<<>>, node, passtwoallstates \cup {1}, 1)
  BY <1>4 DEF InOrder, Waiting
<1>6. \A i \in 1..Len(<<>>) : <<>>[i].st < 1
  BY <1>4
<1> QED
  BY <1>1, <1>2, <1>3, <1>4, <1>5, <1>6, EnterStep

\* A step that replaces the running call, which stays settled.
LEMMA SetCallerStep ==
    ASSUME IInvTwo, calls # <<>>,
           NEW fr \in PruneCall, fr.st = caller.st, fr.pruned = caller.pruned,
           CallOK(fr, node, passtwoallstates), Settled(fr, node),
           SetCaller(fr), ret' = NULL,
           UNCHANGED <<passOneVars, passtwoallstates, freed, done>>
    PROVE  IInvTwo'
<1> DEFINE k == Len(calls)
           all == passtwoallstates
<1>1. /\ pc = "PassTwo" /\ all # {} /\ ~done /\ k \in Nat \ {0} /\ k \in 1..k
      /\ calls \in Seq(PruneCall) /\ caller = calls[k] /\ all \subseteq 1..Len(node)
  BY InPassTwoFacts DEF IInvTwo, TypeOKTwo
<1>2. node' = node /\ all' = all /\ ret' = NULL
  BY DEF passOneVars
<1>3. calls' = [calls EXCEPT ![k] = fr]
  BY DEF SetCaller
<1>4. /\ calls' \in Seq(PruneCall) /\ Len(calls') = k
      /\ \A i \in 1..k : calls'[i] = IF i = k THEN fr ELSE calls[i]
  BY <1>1, <1>3, ExceptSeq
<1>5. \A i \in 1..k : calls'[i].st = calls[i].st /\ calls'[i].pruned = calls[i].pruned
  BY <1>1, <1>4
<1>6. Calls'
  <2>1. InOrder(calls', all)
    BY <1>4, <1>5 DEF IInvTwo, Calls, InOrder
  <2>2. \A i \in 1..k : CallOK(calls'[i], node, all)
    BY <1>4 DEF IInvTwo, Calls
  <2>3. ASSUME NEW i \in 1..(k - 1)
        PROVE  WaitsFor(calls'[i], node, calls'[i + 1].st)
    <3>1. i \in 1..k /\ i # k /\ i + 1 \in 1..k
      BY <1>1
    <3> QED
      BY <1>4, <1>5, <3>1 DEF IInvTwo, Calls
  <2>4. caller' = fr
    BY <1>1, <1>4 DEF caller
  <2> QED
    BY <1>2, <1>4, <2>1, <2>2, <2>3, <2>4 DEF Calls
<1>7. ReturnExact'
  BY <1>2 DEF ReturnExact
<1>8. \A n : (BeingPruned(calls', n) <=> BeingPruned(calls, n))
             /\ (Active(calls', n) <=> Active(calls, n))
  BY <1>4, <1>5 DEF BeingPruned, Active
<1> QED
  BY <1>1, <1>2, <1>4, <1>6, <1>7, <1>8, SameTree

LEMMA FindCoreInv == IInvTwo /\ FindCore => IInvTwo'
<1> SUFFICES ASSUME IInvTwo, FindCore
             PROVE  IInvTwo'
  OBVIOUS
<1>1. /\ calls # <<>> /\ ret = NULL /\ ~caller.pruned
      /\ UNCHANGED <<passOneVars, passtwoallstates, ret, freed, done>>
  BY DEF FindCore, InPassTwo
<1>2. PICK core \in SUBSET caller.nextset :
        /\ JointlyUnsat(core)
        /\ SetCaller([caller EXCEPT !.nextset = @ \ core, !.cores = @ \cup {core}])
  BY DEF FindCore
<1> DEFINE fr == [caller EXCEPT !.nextset = @ \ core, !.cores = @ \cup {core}]
<1>3. caller \in PruneCall /\ CoreLoop(caller, node)
  BY <1>1, InPassTwoFacts DEF CallOK
<1>4. /\ fr \in PruneCall /\ fr.st = caller.st /\ fr.pruned = caller.pruned
      /\ fr.todo = caller.todo
      /\ fr.nextset = caller.nextset \ core /\ fr.cores = caller.cores \cup {core}
  <2>1. caller.nextset \ core \in SUBSET Nat
        /\ caller.cores \cup {core} \in SUBSET SUBSET Nat
    <3>1. caller.nextset \in SUBSET Nat /\ caller.cores \in SUBSET SUBSET Nat
      BY ONLY <1>3 DEF PruneCall
    <3>2. core \in SUBSET Nat
      BY <1>2, <3>1
    <3> QED
      BY <3>1, <3>2
  <2>2. fr \in PruneCall
    <3> DEFINE nextset2 == caller.nextset \ core
               cores2 == caller.cores \cup {core}
    <3>1. fr = [caller EXCEPT !.nextset = nextset2, !.cores = cores2]
      OBVIOUS
    <3>2. nextset2 \in SUBSET Nat /\ cores2 \in SUBSET SUBSET Nat
      BY <2>1
    <3> HIDE DEF nextset2, cores2, fr
    <3> QED
      BY ONLY <1>3, <3>1, <3>2 DEF PruneCall
  <2>3. /\ fr.st = caller.st /\ fr.pruned = caller.pruned /\ fr.todo = caller.todo
        /\ fr.nextset = caller.nextset \ core /\ fr.cores = caller.cores \cup {core}
    BY ONLY <1>3 DEF PruneCall, fr
  <2> QED
    BY <2>2, <2>3
<1> HIDE DEF fr
<1>5. Joint(node, core) = {}
  BY <1>2, SameOperators
<1>6. CoreLoop(fr, node)
  <2>1. Kind(node, fr.st) = "AND" /\ fr.todo = {}
    BY <1>3, <1>4 DEF CoreLoop
  <2>2. UNION fr.cores = core \cup UNION caller.cores
    BY <1>4
  <2>3. Kids(node, fr.st) = fr.nextset \cup UNION fr.cores
    BY <1>3, <1>4, <2>2 DEF CoreLoop
  <2>4. \A c \in fr.cores : Joint(node, c) = {} /\ c \cap fr.nextset = {}
    BY <1>3, <1>4, <1>5 DEF CoreLoop
  <2>5. \A c, d \in fr.cores : c # d => c \cap d = {}
    BY <1>3, <1>4 DEF CoreLoop
  <2> QED
    BY <2>1, <2>3, <2>4, <2>5 DEF CoreLoop
<1>7. CallOK(fr, node, passtwoallstates) /\ Settled(fr, node)
  BY <1>1, <1>4, <1>6 DEF CallOK, Settled
<1>8. SetCaller(fr) /\ ret' = NULL /\ UNCHANGED <<passOneVars, passtwoallstates, freed, done>>
  BY <1>1, <1>2 DEF fr
<1> QED
  BY <1>1, <1>4, <1>7, <1>8, SetCallerStep

LEMMA ResumeInv == IInvTwo /\ Resume => IInvTwo'
<1> SUFFICES ASSUME IInvTwo, Resume
             PROVE  IInvTwo'
  OBVIOUS
<1> DEFINE n == caller.st
           c == ret.st
           fr == IF mType[node[n].amap] = "AND" THEN caller
                 ELSE [caller EXCEPT !.res = ret.unsat]
<1>1. /\ calls # <<>> /\ ret # NULL /\ SetCaller(fr) /\ ret' = NULL
      /\ UNCHANGED <<passOneVars, passtwoallstates, freed, done>>
  BY DEF Resume
<1>2. /\ pc = "PassTwo" /\ caller \in PruneCall /\ n \in 1..Len(node)
      /\ CallOK(caller, node, passtwoallstates)
  BY <1>1, InPassTwoFacts
<1>3. /\ WaitsFor(caller, node, c)
      /\ ret.unsat <=> Void(node, c)
      /\ ret.unsat \in BOOLEAN
  <2>1. ret \in [st : 1..Len(node), unsat : BOOLEAN]
    BY <1>1 DEF IInvTwo, TypeOKTwo
  <2>2. WaitsFor(caller, node, c)
    BY <1>1 DEF IInvTwo, Calls
  <2>3. ret.unsat = Unsat(ret.st)
    BY <1>1 DEF IInvTwo, ReturnExact
  <2> QED
    BY <2>1, <2>2, <2>3, SameOperators
<1>4. /\ fr \in PruneCall /\ fr.st = n /\ fr.pruned = caller.pruned /\ fr.todo = caller.todo
      /\ Kind(node, n) = "AND" => fr = caller
      /\ Kind(node, n) # "AND" => (fr.res <=> Void(node, c))
  BY <1>2, <1>3 DEF PruneCall, Kind
<1> HIDE DEF fr, n, c
<1>5. ChildLoop(fr, node, passtwoallstates)
  <2>1. ChildLoop(caller, node, passtwoallstates)
    BY <1>2, <1>3 DEF CallOK, WaitsFor
  <2> QED
    BY <1>4, <2>1 DEF ChildLoop, n
<1>6. Settled(fr, node)
  <2>1. CASE Kind(node, n) = "ORLit"
    <3>1. Grown(node, n)
      BY <1>2, <2>1, PassOneOver DEF Shape
    <3>2. c \in Kids(node, n)
      BY <1>3 DEF WaitsFor, n
    <3>3. Void(node, c) <=> Void(node, n)
      BY <2>1, <3>1, <3>2, LitChild
    <3> QED
      BY <1>4, <2>1, <3>3 DEF Settled
  <2>2. CASE Kind(node, n) = "OR"
    <3>1. c \in Kids(node, n) \ fr.todo
      BY <1>3, <1>4 DEF WaitsFor, n
    <3>2. \A m \in Kids(node, n) \ (fr.todo \cup {c}) : Void(node, m)
      BY <1>3, <1>4, <2>2 DEF WaitsFor, n
    <3> QED
      BY <1>4, <2>2, <3>1, <3>2 DEF Settled
  <2>3. CASE Kind(node, n) = "AND"
    BY <1>4, <2>3 DEF Settled
  <2> QED
    BY <1>2, <2>1, <2>2, <2>3, PassOneOver
<1>7. CallOK(fr, node, passtwoallstates)
  BY <1>3, <1>4, <1>5 DEF CallOK, WaitsFor
<1> QED
  BY <1>1, <1>4, <1>6, <1>7, SetCallerStep DEF n

LEMMA VisitInv == IInvTwo /\ Visit => IInvTwo'
<1> SUFFICES ASSUME IInvTwo, Visit
             PROVE  IInvTwo'
  OBVIOUS
<1> DEFINE k == Len(calls)
           all == passtwoallstates
           n == caller.st
<1>1. /\ calls # <<>> /\ ret = NULL /\ caller.pruned /\ MoreToVisit
      /\ UNCHANGED <<passOneVars, freed, done>>
  BY DEF Visit, InPassTwo
<1>2. PICK m \in caller.todo : EnterPassTwo(m, [calls EXCEPT ![k].todo = @ \ {m}])
  BY DEF Visit
<1> DEFINE fr == [caller EXCEPT !.todo = @ \ {m}]
           frames == [calls EXCEPT ![k] = fr]
<1>3. /\ pc = "PassTwo" /\ all # {} /\ ~done /\ k \in Nat \ {0} /\ k \in 1..k
      /\ calls \in Seq(PruneCall) /\ caller = calls[k] /\ caller \in PruneCall
      /\ n \in 1..Len(node) /\ Len(node) \in Nat
      /\ ChildLoop(caller, node, all) /\ Settled(caller, node)
  BY <1>1, InPassTwoFacts, PassOneOver DEF CallOK, IInvTwo, Calls
<1>4. EnterPassTwo(m, frames)
  BY <1>2 DEF caller
<1>5. /\ fr \in PruneCall /\ fr.st = n /\ fr.pruned = caller.pruned
      /\ fr.res = caller.res /\ fr.todo = caller.todo \ {m}
  BY <1>3 DEF PruneCall
<1> HIDE DEF fr
<1>6. /\ frames \in Seq(PruneCall) /\ Len(frames) = k
      /\ \A i \in 1..k : frames[i] = IF i = k THEN fr ELSE calls[i]
  BY <1>3, <1>5, ExceptSeq
<1> HIDE DEF frames
<1>7. \A i \in 1..k : frames[i].st = calls[i].st /\ frames[i].pruned = calls[i].pruned
  BY <1>3, <1>5, <1>6
<1>8. m \in Kids(node, n) /\ m \in (n + 1)..Len(node) /\ m \in 1..Len(node)
  <2>1. m \in Kids(node, n)
    BY <1>3 DEF ChildLoop
  <2>2. m \in (n + 1)..Len(node)
    BY <1>3, <2>1, PassOneOver
  <2> QED
    BY <1>3, <2>1, <2>2
<1>9. InOrder(frames, all)
  BY <1>6, <1>7 DEF IInvTwo, Calls, InOrder
<1>10. ASSUME NEW i \in 1..Len(frames)
       PROVE  frames[i].st < m
  <2>1. i \in 1..k /\ frames[i].st = calls[i].st
    BY <1>6, <1>7
  <2>2. calls[i].st \in 1..Len(node)
    BY <2>1 DEF IInvTwo, Calls, InOrder, TypeOKTwo
  <2>3. CASE i = k
    BY <1>3, <1>8, <2>1, <2>3
  <2>4. CASE i # k
    <3>1. i < k
      BY <1>3, <2>1, <2>4
    <3>2. calls[i].st < n
      BY <1>3, <2>1, <3>1 DEF IInvTwo, Calls, InOrder
    <3> QED
      BY <1>3, <1>8, <2>1, <2>2, <3>2
  <2> QED
    BY <2>3, <2>4
<1>11. CallOK(fr, node, all \cup {m}) /\ WaitsFor(fr, node, m)
  <2>1. fr.todo \subseteq Kids(node, fr.st)
    BY <1>3, <1>5 DEF ChildLoop
  <2>2. ASSUME NEW p \in Kids(node, fr.st) \ fr.todo
        PROVE  Met(node, all \cup {m}, p)
    <3>1. CASE p = m
      BY <3>1 DEF Met
    <3>2. CASE p # m
      <4>1. Met(node, all, p)
        BY <1>3, <1>5, <3>2 DEF ChildLoop
      <4> QED
        BY <4>1 DEF Met
    <3> QED
      BY <3>1, <3>2
  <2>3. ChildLoop(fr, node, all \cup {m})
    BY <1>3, <1>5, <2>1, <2>2 DEF ChildLoop
  <2>4. WaitsFor(fr, node, m)
    <3>1. SUFFICES ASSUME Kind(node, n) = "OR",
                          NEW p \in Kids(node, n) \ (fr.todo \cup {m})
                   PROVE  Void(node, p)
      BY <1>1, <1>5, <1>8 DEF WaitsFor
    <3>2. caller.res
      BY <1>1, <3>1 DEF MoreToVisit, Kind
    <3>3. p \in Kids(node, n) \ caller.todo
      BY <1>5, <3>1
    <3> QED
      BY <1>1, <1>3, <3>1, <3>2, <3>3 DEF Settled
  <2> QED
    BY <1>1, <1>5, <2>3, <2>4 DEF CallOK
<1>12. Waiting(frames, node, all \cup {m}, m)
  <2>1. SUFFICES ASSUME NEW i \in 1..k
                 PROVE  /\ CallOK(frames[i], node, all \cup {m})
                        /\ WaitsFor(frames[i], node, IF i = k THEN m ELSE frames[i + 1].st)
    BY <1>6 DEF Waiting
  <2>2. CASE i = k
    BY <1>6, <1>11, <2>2
  <2>3. CASE i # k
    <3>1. i \in 1..(k - 1) /\ i + 1 \in 1..k
      BY <1>3, <2>3
    <3>2. CallOK(calls[i], node, all) /\ WaitsFor(calls[i], node, calls[i + 1].st)
      BY <3>1 DEF IInvTwo, Calls
    <3>3. CallOK(calls[i], node, all \cup {m})
      BY <3>2 DEF CallOK, ChildLoop, Met
    <3> QED
      BY <1>6, <1>7, <2>3, <3>1, <3>2, <3>3
  <2> QED
    BY <2>2, <2>3
<1>13. \A x : (BeingPruned(frames, x) <=> BeingPruned(calls, x))
              /\ (Active(frames, x) <=> Active(calls, x))
  BY <1>6, <1>7 DEF BeingPruned, Active
<1> HIDE DEF k, all, n
<1> QED
  BY <1>1, <1>3, <1>4, <1>6, <1>8, <1>9, <1>10, <1>12, <1>13, EnterStep DEF all

LEMMA ReturnFromPassTwoInv == IInvTwo /\ ReturnFromPassTwo => IInvTwo'
<1> SUFFICES ASSUME IInvTwo, ReturnFromPassTwo
             PROVE  IInvTwo'
  OBVIOUS
<1> DEFINE k == Len(calls)
           all == passtwoallstates
           n == caller.st
<1>1. /\ calls # <<>> /\ ret = NULL /\ caller.pruned /\ ~MoreToVisit
      /\ ret' = Result(n, caller.res) /\ calls' = SubSeq(calls, 1, k - 1)
      /\ UNCHANGED <<passOneVars, passtwoallstates, freed, done>>
  BY DEF ReturnFromPassTwo, InPassTwo
<1>2. /\ pc = "PassTwo" /\ all # {} /\ ~done /\ k \in Nat \ {0} /\ k \in 1..k
      /\ calls \in Seq(PruneCall) /\ caller = calls[k] /\ caller \in PruneCall
      /\ n \in 1..Len(node) /\ Len(node) \in Nat /\ n \in all
      /\ ChildLoop(caller, node, all) /\ Settled(caller, node)
  BY <1>1, InPassTwoFacts, PassOneOver DEF CallOK, IInvTwo, Calls
<1>3. node' = node /\ all' = all /\ all \subseteq 1..Len(node)
  BY <1>1 DEF passOneVars, IInvTwo, TypeOKTwo
<1>4. caller.todo = {} \/ (Kind(node, n) = "OR" /\ ~caller.res)
  BY <1>1 DEF MoreToVisit, Kind
<1>5. caller.res <=> Void(node, n)
  <2>1. CASE Kind(node, n) = "ORLit"
    BY <1>1, <1>2, <1>4, <2>1 DEF Settled
  <2>2. CASE Kind(node, n) = "AND"
    BY <1>2, <2>2 DEF ChildLoop
  <2>3. CASE Kind(node, n) = "OR"
    <3>1. Grown(node, n)
      BY <1>2, <2>3, PassOneOver DEF Shape
    <3>2. Void(node, n) <=> \A m \in Kids(node, n) : Void(node, m)
      BY <2>3, <3>1, OrChildren
    <3>3. CASE caller.res
      BY <1>1, <1>2, <1>4, <2>3, <3>2, <3>3 DEF Settled
    <3>4. CASE ~caller.res
      BY <1>1, <1>2, <2>3, <3>2, <3>4 DEF Settled
    <3> QED
      BY <3>3, <3>4
  <2> QED
    BY <1>2, <2>1, <2>2, <2>3, PassOneOver
<1>6. /\ ret'.st = n /\ (ret'.unsat <=> Void(node, n)) /\ ret'.unsat \in BOOLEAN
      /\ ret' \in [st : 1..Len(node), unsat : BOOLEAN] /\ ret' # NULL
  <2> DEFINE b == caller.res
  <2>1. ret' = [st |-> n, unsat |-> b] /\ b \in BOOLEAN
    BY <1>1, <1>2 DEF Result, PruneCall
  <2> HIDE DEF b, n
  <2>2. ret' \in [st : 1..Len(node), unsat : BOOLEAN] /\ ret' \in [st : Nat, unsat : BOOLEAN]
    BY <1>2, <2>1 DEF n
  <2>3. ret'.st = n /\ ret'.unsat = b
    BY <2>1
  <2> QED
    BY <1>5, <2>1, <2>2, <2>3, ResultAssumption DEF b, n
<1>7. /\ calls' \in Seq(PruneCall) /\ Len(calls') = k - 1
      /\ \A i \in 1..(k-1) : calls'[i] = calls[i]
  <2>1. \A i \in 1..(k-1) : calls[i] \in PruneCall
    BY <1>2, ElementOfSeq
  <2>2. 1 \in Int /\ k - 1 \in Int /\ k - 1 - 1 + 1 = k - 1
    BY <1>2
  <2> HIDE DEF k
  <2>3. /\ SubSeq(calls, 1, k-1) \in Seq(PruneCall)
        /\ Len(SubSeq(calls, 1, k-1)) = IF 1 <= k-1 THEN (k-1)-1+1 ELSE 0
        /\ \A i \in 1..((k-1)-1+1) : SubSeq(calls, 1, k-1)[i] = calls[1+i-1]
    BY <2>1, <2>2, SubSeqProperties
  <2> QED
    BY <1>1, <1>2, <2>3
<1>8. 1..(k-1) \subseteq 1..k /\ \A i \in 1..k : i = k \/ i \in 1..(k-1)
  BY <1>2
<1>9. Calls'
  <2>1. InOrder(calls', all)
    BY <1>7, <1>8 DEF IInvTwo, Calls, InOrder
  <2>2. \A i \in 1..(k-1) : CallOK(calls'[i], node, all)
    BY <1>7, <1>8 DEF IInvTwo, Calls
  <2>3. ASSUME NEW i \in 1..(k-1)
        PROVE  WaitsFor(calls'[i], node, calls[i + 1].st)
    BY <1>7 DEF IInvTwo, Calls
  <2>4. \A i \in 1..(k-1-1) : i \in 1..(k-1) /\ i + 1 \in 1..(k-1)
    BY <1>2
  <2>5. \A i \in 1..(k-1-1) : WaitsFor(calls'[i], node, calls'[i + 1].st)
    BY <1>7, <2>3, <2>4
  <2>6. calls' # <<>> => WaitsFor(calls'[k-1], node, n)
    <3>1. SUFFICES ASSUME calls' # <<>> PROVE WaitsFor(calls'[k-1], node, n)
      OBVIOUS
    <3>2. k - 1 \in 1..(k-1) /\ k - 1 + 1 = k
      BY <1>2, <1>7, <3>1
    <3> QED
      BY <1>2, <2>3, <3>2
  <2> QED
    BY <1>3, <1>6, <1>7, <2>1, <2>2, <2>5, <2>6 DEF Calls, caller
<1>10. ReturnExact'
  BY <1>3, <1>6 DEF ReturnExact, Unsat, Void
<1>11. \A x : BeingPruned(calls', x) <=> BeingPruned(calls, x)
  BY <1>1, <1>2, <1>7, <1>8 DEF BeingPruned
<1>12. ASSUME NEW x, ~Active(calls', x), x # n
       PROVE  ~Active(calls, x)
  BY <1>2, <1>7, <1>8, <1>12 DEF Active
<1>13. (Kind(node, n) = "OR" => Void(node, n)) => \A m \in Kids(node, n) : Met(node, all, m)
  BY <1>2, <1>4, <1>5 DEF ChildLoop
<1> HIDE DEF n, k
<1> QED
  BY <1>1, <1>2, <1>3, <1>6, <1>7, <1>9, <1>10, <1>11, <1>12, <1>13, SameTree

LEMMA DeleteUnseenInv == IInvTwo /\ DeleteUnseen => IInvTwo'
<1> SUFFICES ASSUME IInvTwo, DeleteUnseen
             PROVE  IInvTwo'
  OBVIOUS
<1>1. /\ calls = <<>> /\ ret # NULL
      /\ freed' = {n \in allStates : ~Seen(n)} /\ done' = TRUE
      /\ UNCHANGED <<word, node, allStates, stack, pc>>
      /\ UNCHANGED <<passtwoallstates, calls, ret>>
  BY DEF DeleteUnseen, passOneVars
<1>2. IInv'
  BY <1>1, StutterInv DEF IInvTwo, passOneVars
<1>3. Growing'
  BY <1>1 DEF IInvTwo, Growing, Kind
<1>4. TypeOKTwo'
  <2>1. TypeOK'
    BY <1>2 DEF IInv
  <2> QED
    BY <1>1, <2>1 DEF IInvTwo, TypeOKTwo
<1>5. Shapes'
  BY <1>1 DEF IInvTwo, Shapes
<1>6. (Calls /\ ReturnedCalls /\ ReturnExact)'
  <2>1. Calls'
    BY <1>1 DEF IInvTwo, Calls, caller
  <2>2. ReturnedCalls' /\ ReturnExact'
    BY <1>1 DEF IInvTwo, ReturnedCalls, ReturnExact, Unsat
  <2> QED
    BY <2>1, <2>2
<1>7. Phases'
  BY <1>1 DEF IInvTwo, Phases, Seen
<1> QED
  BY <1>2, <1>3, <1>4, <1>5, <1>6, <1>7 DEF IInvTwo

LEMMA StutterTwoInv == IInvTwo /\ UNCHANGED vars => IInvTwo'
<1> SUFFICES ASSUME IInvTwo, UNCHANGED vars
             PROVE  IInvTwo'
  OBVIOUS
<1>1. /\ UNCHANGED <<word, node, allStates, stack, pc>>
      /\ UNCHANGED <<passtwoallstates, calls, ret, freed, done>>
  BY DEF vars, passOneVars, passTwoVars
<1>2. IInv'
  BY <1>1, StutterInv DEF IInvTwo, passOneVars
<1>3. Growing'
  BY <1>1 DEF IInvTwo, Growing, Kind
<1>4. TypeOKTwo'
  <2>1. TypeOK'
    BY <1>2 DEF IInv
  <2> QED
    BY <1>1, <2>1 DEF IInvTwo, TypeOKTwo
<1>5. Shapes'
  BY <1>1 DEF IInvTwo, Shapes
<1>6. Calls'
  BY <1>1 DEF IInvTwo, Calls, caller
<1>7. (ReturnedCalls /\ ReturnExact /\ Phases)'
  BY <1>1 DEF IInvTwo, ReturnedCalls, ReturnExact, Unsat, Phases, Seen
<1> QED
  BY <1>2, <1>3, <1>4, <1>5, <1>6, <1>7 DEF IInvTwo

\* What the first pass has established does not depend on the edges.
LEMMA NewEdges ==
    ASSUME IInv, pc = "PassTwo", NEW n \in 1..Len(node),
           NEW nd \in Node, nd.amap = node[n].amap, nd.rword = node[n].rword,
           nd.acc = node[n].acc, nd.hmap = node[n].hmap,
           node' = [node EXCEPT ![n] = nd],
           UNCHANGED <<word, allStates, stack, pc>>
    PROVE  /\ IInv'
           /\ Len(node') = Len(node)
           /\ node'[n] = nd
           /\ \A m \in 1..Len(node) : /\ m # n => node'[m] = node[m]
                                      /\ Agree(node, node', m)
<1>1. node \in Seq(Node) /\ Len(node) \in Nat \ {0} /\ stack = <<>> /\ Len(stack) = 0
  BY DEF IInv, TypeOK, Verdict
<1>2. /\ node' \in Seq(Node) /\ Len(node') = Len(node)
      /\ \A m \in 1..Len(node) : node'[m] = IF m = n THEN nd ELSE node[m]
  BY <1>1, ExceptSeq
<1>3. \A m \in 1..Len(node) : Agree(node, node', m) /\ node'[m].acc = node[m].acc
  BY <1>2 DEF Agree
<1>4. TypeOK'
  BY <1>1, <1>2 DEF IInv, TypeOK
<1>5. CallStack'
  BY <1>1, <1>2, <1>3 DEF IInv, CallStack, Agree
<1>6. Frames'
  BY <1>1 DEF Frames
<1>7. (Root /\ ResidualWords /\ AcceptedEarly)'
  BY <1>1, <1>2, <1>3 DEF IInv, Root, ResidualWords, AcceptedEarly, Agree
<1>8. HMapExact'
  BY <1>2, <1>3 DEF IInv, HMapExact, Agree
<1>9. Verdict'
  BY <1>1, <1>3 DEF IInv, Verdict, Agree
<1> QED
  BY <1>2, <1>3, <1>4, <1>5, <1>6, <1>7, <1>8, <1>9 DEF IInv

\* A waiting call is not affected by new edges of another state.
LEMMA WaitingStable ==
    ASSUME NEW nds, NEW nds2, NEW all, NEW fr, NEW c,
           WaitsFor(fr, nds, c), CallOK(fr, nds, all), nds2[fr.st] = nds[fr.st],
           \A m \in all \cup Kids(nds, fr.st) : Agree(nds, nds2, m)
    PROVE  CallOK(fr, nds2, all) /\ WaitsFor(fr, nds2, c)
<1>1. /\ Kids(nds2, fr.st) = Kids(nds, fr.st)
      /\ Kind(nds2, fr.st) = Kind(nds, fr.st)
      /\ Void(nds2, fr.st) <=> Void(nds, fr.st)
  BY DEF Kids, Kind, Void
<1>2. \A m \in Kids(nds, fr.st) : /\ Void(nds2, m) <=> Void(nds, m)
                                  /\ Met(nds2, all, m) <=> Met(nds, all, m)
  BY DEF Void, Met, Key, Agree
<1>3. fr.pruned /\ ChildLoop(fr, nds, all)
  BY DEF WaitsFor, CallOK
<1>4. ChildLoop(fr, nds2, all)
  BY <1>1, <1>2, <1>3 DEF ChildLoop
<1>5. WaitsFor(fr, nds2, c)
  BY <1>1, <1>2 DEF WaitsFor
<1> QED
  BY <1>3, <1>4, <1>5 DEF CallOK

\* The edges that replace those of an AND state once no further core is found.
LEMMA CutEdgesShape ==
    ASSUME NEW nds, NEW nds2, NEW w, NEW n \in Nat, NEW fr, fr.st = n,
           Len(nds) \in Nat, Len(nds2) = Len(nds),
           Grown(nds, n), CoreLoop(fr, nds),
           Joint(nds, fr.nextset) # {},
           \A m \in Kids(nds, n) : nds[m].hmap = WordPre(w, nds[m].rword, Meaning[nds[m].amap]),
           nds2[n].trans = IF fr.cores = {} THEN nds[n].trans
                           ELSE {<<Eps, core>> : core \in fr.cores},
           Agree(nds, nds2, n),
           \A m \in (n + 1)..Len(nds) : Agree(nds, nds2, m)
    PROVE  /\ Pruned(nds2, w, n)
           /\ fr.cores # {} <=> Void(nds2, n)
<1>1. /\ Kind(nds, n) = "AND"
      /\ Kids(nds, n) = fr.nextset \cup UNION fr.cores
      /\ \A c \in fr.cores : Joint(nds, c) = {} /\ c \cap fr.nextset = {}
      /\ \A c, d \in fr.cores : c # d => c \cap d = {}
  BY DEF CoreLoop
<1>2. /\ nds[n].hmap = Joint(nds, Kids(nds, n))
      /\ \E tr : nds[n].trans = {tr} /\ tr[1] = Eps /\ tr[2] = Kids(nds, n)
      /\ \A m \in Kids(nds, n) : /\ nds[m].rword = nds[n].rword
                                 /\ nds[m].amap \in Args[nds[n].amap]
      /\ \A f \in Args[nds[n].amap] : \E m \in Kids(nds, n) : nds[m].amap = f
  <2>1. Grown(nds, n) /\ Kind(nds, n) = "AND"
    BY <1>1
  <2> QED
    BY ONLY <2>1, AndChildren
<1>3. Kids(nds, n) \subseteq (n + 1)..Len(nds)
  BY DEF Grown
<1>4. \A m \in Kids(nds, n) : Agree(nds, nds2, m)
  BY <1>3
<1>5. /\ nds2[n].hmap = nds[n].hmap /\ nds2[n].amap = nds[n].amap
      /\ nds2[n].rword = nds[n].rword
  BY DEF Agree
<1>6. \A S : S \subseteq Kids(nds, n) => Joint(nds2, S) = Joint(nds, S)
  BY <1>4 DEF Joint, Agree
<1>7. PICK s \in State : \A m \in fr.nextset : s \in nds[m].hmap
  BY DEF Joint
<1>8. CASE fr.cores = {}
  <2>1. nds2[n].trans = nds[n].trans /\ Kids(nds2, n) = Kids(nds, n)
    BY <1>8 DEF Kids
  <2>2. PICK tr : nds[n].trans = {tr} /\ tr[1] = Eps /\ tr[2] = Kids(nds, n)
    BY <1>2
  <2>3. fr.nextset = Kids(nds, n)
    BY <1>1, <1>8
  <2>4. Joint(nds2, tr[2]) \subseteq nds2[n].hmap
    BY <1>2, <1>5, <1>6, <2>2
  <2>5. \A f \in Args[nds2[n].amap] : \E m \in Kids(nds2, n) : nds2[m].amap = f
    BY <1>2, <1>4, <1>5, <2>1 DEF Agree
  <2>6. \A m \in Kids(nds2, n) : nds2[m].amap \in Args[nds2[n].amap]
    BY <1>2, <1>4, <1>5, <2>1 DEF Agree
  <2>7. Pruned(nds2, w, n)
    <3>1. nds2[n].trans = {tr} /\ nds2[n].trans # {}
      BY <2>1, <2>2
    <3>2. Kids(nds2, n) \subseteq (n + 1)..Len(nds2)
      BY <1>3, <2>1
    <3>3. \A t \in nds2[n].trans : t[1] = Eps /\ Joint(nds2, t[2]) \subseteq nds2[n].hmap
      BY <2>2, <2>4, <3>1
    <3>4. \A t1, t2 \in nds2[n].trans : t1 # t2 => t1[2] \cap t2[2] = {}
      BY <3>1
    <3>5. \A t \in nds2[n].trans : t[2] = {} => Args[nds2[n].amap] = {}
      BY <1>2, <1>5, <2>2, <3>1
    <3> QED
      BY <1>7, <2>5, <2>6, <3>1, <3>2, <3>3, <3>4, <3>5 DEF Pruned
  <2>8. ~Void(nds2, n)
    BY <1>2, <1>5, <2>3 DEF Void
  <2> QED
    BY <1>8, <2>7, <2>8
<1>9. CASE fr.cores # {}
  <2>1. nds2[n].trans = {<<Eps, core>> : core \in fr.cores}
    BY <1>9
  <2>2. Kids(nds2, n) = UNION fr.cores
    <3>1. \A tr \in nds2[n].trans : tr[2] \in fr.cores
      BY <2>1
    <3>2. ASSUME NEW c \in fr.cores
          PROVE  \E tr \in nds2[n].trans : tr[2] = c
      <4>1. <<Eps, c>> \in nds2[n].trans /\ <<Eps, c>>[2] = c
        BY <2>1
      <4> QED
        BY ONLY <4>1
    <3> QED
      BY <3>1, <3>2 DEF Kids
  <2>3. \A m \in Kids(nds2, n) : nds2[m].amap \in Args[nds2[n].amap] /\ m \in Kids(nds, n)
    BY <1>1, <1>2, <1>4, <1>5, <2>2 DEF Agree
  <2>4. \A c \in fr.cores : Joint(nds2, c) = {}
    <3>1. \A c \in fr.cores : c \subseteq Kids(nds, n)
      BY <1>1
    <3> QED
      BY <1>1, <1>6, <3>1
  <2>5. \A tr \in nds2[n].trans : tr[1] = Eps /\ tr[2] \in fr.cores
    BY <2>1
  <2>6. \A t1, t2 \in nds2[n].trans : t1 # t2 => t1[2] \cap t2[2] = {}
    <3>1. SUFFICES ASSUME NEW c \in fr.cores, NEW d \in fr.cores, <<Eps, c>> # <<Eps, d>>
                   PROVE  c \cap d = {}
      BY <2>1
    <3> QED
      BY <1>1, <3>1
  <2>7. ASSUME NEW f \in Args[nds2[n].amap]
        PROVE  \/ \E m \in Kids(nds2, n) : nds2[m].amap = f
               \/ s \in WordPre(w, nds2[n].rword, Meaning[f])
    <3>1. PICK m \in Kids(nds, n) : nds[m].amap = f
      BY <1>2, <1>5
    <3>2. CASE m \in fr.nextset
      <4>1. s \in nds[m].hmap /\ nds[m].hmap = WordPre(w, nds[m].rword, Meaning[nds[m].amap])
        BY <1>7, <3>2
      <4> QED
        BY <1>2, <1>5, <3>1, <4>1
    <3>3. CASE m \notin fr.nextset
      BY <1>1, <1>4, <2>2, <3>1, <3>3 DEF Agree
    <3> QED
      BY <3>2, <3>3
  <2>8. nds2[n].trans # {} /\ Kids(nds2, n) \subseteq (n + 1)..Len(nds2)
    BY <1>3, <1>9, <2>1, <2>3
  <2>9. \A tr \in nds2[n].trans : tr[1] = Eps /\ Joint(nds2, tr[2]) \subseteq nds2[n].hmap
    BY <2>4, <2>5
  <2>10. Pruned(nds2, w, n)
    <3>1. \A c \in fr.cores : c # {}
      BY <1>1, <1>7 DEF Joint
    <3>2. \A tr \in nds2[n].trans : tr[2] # {}
      BY <2>5, <3>1
    <3> QED
      BY <2>3, <2>6, <2>7, <2>8, <2>9, <3>2 DEF Pruned
  <2>11. Void(nds2, n)
    <3>1. PICK c \in fr.cores : TRUE
      BY <1>9
    <3>2. Joint(nds, Kids(nds, n)) \subseteq Joint(nds, c)
      BY <1>1 DEF Joint
    <3>3. Joint(nds, c) = {}
      BY <1>1
    <3>4. nds2[n].hmap = {}
      BY <1>2, <1>5, <3>2, <3>3
    <3> QED
      BY <3>4 DEF Void
  <2> QED
    BY <1>9, <2>10, <2>11
<1> QED
  BY <1>8, <1>9

LEMMA CutEdgesInv == IInvTwo /\ CutEdges => IInvTwo'
<1> SUFFICES ASSUME IInvTwo, CutEdges
             PROVE  IInvTwo'
  OBVIOUS
<1> DEFINE k == Len(calls)
           all == passtwoallstates
           n == caller.st
           trans == IF caller.cores = {} THEN node[n].trans
                    ELSE {<<Eps, core>> : core \in caller.cores}
           nd == [node[n] EXCEPT !.trans = trans]
           fr == [caller EXCEPT !.pruned = TRUE, !.res = caller.cores # {},
                                !.todo = UNION {tr[2] : tr \in trans}]
<1>1. /\ calls # <<>> /\ ret = NULL /\ ~caller.pruned /\ ~JointlyUnsat(caller.nextset)
      /\ node' = [node EXCEPT ![n].trans = trans] /\ SetCaller(fr)
      /\ UNCHANGED <<word, allStates, stack, pc, passtwoallstates, ret, freed, done>>
  BY DEF CutEdges, InPassTwo
<1>2. /\ pc = "PassTwo" /\ all # {} /\ ~done /\ k \in Nat \ {0} /\ k \in 1..k
      /\ calls \in Seq(PruneCall) /\ caller = calls[k] /\ caller \in PruneCall
      /\ n \in 1..Len(node) /\ Len(node) \in Nat /\ n \in all
      /\ CoreLoop(caller, node) /\ node[n] \in Node /\ n \in Nat
      /\ Kids(node, n) \subseteq (n + 1)..Len(node)
  BY <1>1, InPassTwoFacts, PassOneOver DEF CallOK
<1>3. all \subseteq 1..Len(node) /\ IInv /\ InOrder(calls, all)
  BY DEF IInvTwo, TypeOKTwo, Calls
<1>4. nd \in Node /\ nd.amap = node[n].amap /\ nd.rword = node[n].rword
      /\ nd.acc = node[n].acc /\ nd.hmap = node[n].hmap /\ nd.trans = trans
  <2>1. {<<Eps, core>> : core \in caller.cores} \subseteq (mAllSyms \cup {Eps}) \X SUBSET Nat
    BY <1>2 DEF PruneCall
  <2>2. trans \in SUBSET ((mAllSyms \cup {Eps}) \X SUBSET Nat)
    BY <1>2, <2>1 DEF Node
  <2> HIDE DEF trans, n
  <2> QED
    BY <1>2, <2>2 DEF Node
<1>5. node' = [node EXCEPT ![n] = nd]
  BY <1>1
<1> HIDE DEF nd
<1>6. /\ IInv' /\ Len(node') = Len(node) /\ node'[n] = nd
      /\ \A m \in 1..Len(node) : /\ m # n => node'[m] = node[m]
                                 /\ Agree(node, node', m)
  <2> HIDE DEF n
  <2> QED
    BY <1>1, <1>2, <1>3, <1>4, <1>5, NewEdges
<1>7. Kids(node', n) = UNION {tr[2] : tr \in trans}
  BY <1>4, <1>6 DEF Kids
<1>8. Grown(node, n)
  <2>1. BeingPruned(calls, n)
    BY <1>1, <1>2 DEF BeingPruned
  <2> QED
    BY <1>2, <2>1, PassOneOver DEF Shape
<1>9. Pruned(node', word, n) /\ (caller.cores # {} <=> Void(node', n))
  <2>1. Joint(node, caller.nextset) # {}
    BY <1>1, SameOperators
  <2>2. \A m \in (n + 1)..Len(node) : m \in 1..Len(node)
    BY <1>2
  <2>3. \A m \in Kids(node, n) : node[m].hmap = WordPre(word, node[m].rword, Meaning[node[m].amap])
    BY <1>2, <2>2, PassOneOver
  <2>4. node'[n].trans = IF caller.cores = {} THEN node[n].trans
                         ELSE {<<Eps, core>> : core \in caller.cores}
    BY <1>4, <1>6
  <2>5. Agree(node, node', n) /\ \A m \in (n + 1)..Len(node) : Agree(node, node', m)
    BY <1>2, <1>6, <2>2
  <2>6. /\ caller.st = n /\ n \in Nat /\ Len(node) \in Nat /\ Len(node') = Len(node)
        /\ CoreLoop(caller, node)
    BY <1>2, <1>6
  <2> HIDE DEF n, fr, trans, all, k
  <2> QED
    BY ONLY <1>8, <2>1, <2>3, <2>4, <2>5, <2>6, CutEdgesShape
<1> HIDE DEF trans
<1>10. /\ fr \in PruneCall /\ fr.st = n /\ fr.pruned /\ fr.todo = Kids(node', n)
       /\ (fr.res <=> caller.cores # {})
  <2> DEFINE todo == UNION {tr[2] : tr \in trans}
             r == caller.cores # {}
  <2>1. todo \in SUBSET Nat /\ r \in BOOLEAN
    <3>1. node'[n] \in Node
      BY <1>4, <1>6
    <3>2. Kids(node', n) \in SUBSET Nat
      BY <3>1 DEF Node, Kids
    <3> QED
      BY <1>7, <3>2
  <2>2. fr = [caller EXCEPT !.pruned = TRUE, !.res = r, !.todo = todo]
    OBVIOUS
  <2> HIDE DEF fr, todo, r
  <2>3. fr \in PruneCall /\ fr.st = n /\ fr.pruned /\ fr.todo = todo /\ fr.res = r
    BY <1>2, <2>1, <2>2 DEF PruneCall
  <2> QED
    BY <1>7, <2>3 DEF r, todo
<1>11. calls' = [calls EXCEPT ![k] = fr]
  BY <1>1 DEF SetCaller
<1> HIDE DEF fr
<1>12. /\ calls' \in Seq(PruneCall) /\ Len(calls') = k
       /\ \A i \in 1..k : calls'[i] = IF i = k THEN fr ELSE calls[i]
  BY <1>2, <1>10, <1>11, ExceptSeq
<1>13. \A i \in 1..k : /\ calls'[i].st = calls[i].st
                       /\ i # k => calls[i].st # n
  <2>1. ASSUME NEW i \in 1..k, i # k
        PROVE  calls[i].st # n
    <3>1. i < k
      BY <1>2, <2>1
    <3>2. calls[i].st < n /\ calls[i].st \in all
      BY <1>2, <1>3, <3>1 DEF InOrder
    <3> QED
      BY <1>2, <1>3, <3>2
  <2> QED
    BY <1>2, <1>10, <1>12, <2>1
<1>14. \A x : /\ Active(calls', x) <=> Active(calls, x)
              /\ x # n => (BeingPruned(calls', x) <=> BeingPruned(calls, x))
  <2>1. \A x : Active(calls', x) <=> Active(calls, x)
    BY <1>12, <1>13 DEF Active
  <2>2. ASSUME NEW x, x # n
        PROVE  BeingPruned(calls', x) <=> BeingPruned(calls, x)
    <3>1. \A i \in 1..k : calls[i].st = x \/ calls'[i].st = x => i # k /\ calls'[i] = calls[i]
      BY <1>2, <1>12, <1>13, <2>2
    <3> QED
      BY <1>12, <1>13, <3>1 DEF BeingPruned
  <2> QED
    BY <2>1, <2>2
<1>15. ~BeingPruned(calls', n)
  BY <1>10, <1>12, <1>13 DEF BeingPruned
<1>16. /\ word' = word /\ allStates' = allStates /\ pc' = pc /\ all' = all
       /\ ret' = NULL /\ freed' = freed /\ done' = done
  BY <1>1
<1>17. Growing'
  <2>1. \A m \in 1..Len(node) : node'[m].hmap # NULL
    BY <1>2, <1>6, PassOneOver DEF Agree
  <2>2. Len(stack') = 0
    BY <1>1, <1>2, PassOneOver
  <2> QED
    BY <1>6, <2>1, <2>2 DEF Growing
<1>18. TypeOKTwo'
  <2>1. TypeOK'
    BY <1>6 DEF IInv
  <2> QED
    BY <1>6, <1>12, <1>16, <2>1 DEF IInvTwo, TypeOKTwo
<1>19. Shapes'
  <2>1. SUFFICES ASSUME NEW x \in 1..Len(node)
                 PROVE  Shape(node', word, all, calls', x)
    BY <1>6, <1>16 DEF Shapes
  <2>2. CASE x = n
    <3>1. Kind(node', n) = "AND"
      BY <1>2, <1>4, <1>6 DEF CoreLoop, Kind
    <3> QED
      BY <1>2, <1>9, <1>15, <2>2, <3>1 DEF Shape
  <2>3. CASE x # n
    <3>1. Shape(node, word, all, calls, x) /\ x \in Nat /\ node'[x] = node[x]
      BY <1>2, <1>6, <2>3, PassOneOver
    <3>2. Kind(node', x) = Kind(node, x)
      BY <3>1 DEF Kind
    <3>3. \A m \in (x + 1)..Len(node) : Agree(node, node', m)
      <4>1. \A m \in (x + 1)..Len(node) : m \in 1..Len(node)
        BY <1>2, <3>1
      <4> QED
        BY <1>6, <4>1
    <3>4. Grown(node, x) => Grown(node', x)
      BY <1>2, <1>6, <3>1, <3>3, GrownStable
    <3>5. Pruned(node, word, x) => Pruned(node', word, x)
      BY <1>2, <1>6, <3>1, <3>3, PrunedStable
    <3>6. BeingPruned(calls', x) <=> BeingPruned(calls, x)
      BY <1>14, <2>3
    <3> QED
      BY <3>1, <3>2, <3>4, <3>5, <3>6 DEF Shape
  <2> QED
    BY <2>2, <2>3
<1>20. Calls'
  <2>1. InOrder(calls', all)
    BY <1>3, <1>12, <1>13 DEF InOrder
  <2>2. CallOK(fr, node', all) /\ Settled(fr, node')
    <3>1. Kind(node', n) = "AND"
      BY <1>2, <1>4, <1>6 DEF CoreLoop, Kind
    <3> QED
      BY <1>9, <1>10, <3>1 DEF CallOK, ChildLoop, Settled
  <2>3. ASSUME NEW i \in 1..(k-1)
        PROVE  CallOK(calls'[i], node', all) /\ WaitsFor(calls'[i], node', calls'[i + 1].st)
    <3>1. i \in 1..k /\ i # k /\ i + 1 \in 1..k
      BY <1>2
    <3> DEFINE f == calls[i]
               c == calls[i + 1].st
    <3>2. calls'[i] = f /\ calls'[i + 1].st = c /\ f.st # n
      BY <1>12, <1>13, <3>1
    <3>3. f.st \in 1..Len(node)
      BY <1>3, <3>1 DEF InOrder
    <3>4. WaitsFor(f, node, c) /\ CallOK(f, node, all)
      BY <3>1 DEF IInvTwo, Calls
    <3>5. node'[f.st] = node[f.st]
      BY <1>6, <3>2, <3>3
    <3>6. \A m \in all \cup Kids(node, f.st) : Agree(node, node', m)
      <4>1. Kids(node, f.st) \subseteq (f.st + 1)..Len(node)
        BY <1>2, <3>3, PassOneOver
      <4>2. \A m \in (f.st + 1)..Len(node) : m \in 1..Len(node)
        BY <1>2, <3>3
      <4> QED
        BY <1>3, <1>6, <4>1, <4>2
    <3> HIDE DEF f, c
    <3> QED
      BY <3>2, <3>4, <3>5, <3>6, WaitingStable
  <2>4. \A i \in 1..k : CallOK(calls'[i], node', all)
    <3>1. \A i \in 1..k : i = k \/ i \in 1..(k-1)
      BY <1>2
    <3> QED
      BY <1>12, <2>2, <2>3, <3>1
  <2>5. caller' = fr
    BY <1>2, <1>12 DEF caller
  <2> QED
    BY <1>12, <1>16, <2>1, <2>2, <2>3, <2>4, <2>5 DEF Calls
<1>21. ReturnedCalls'
  <2>1. SUFFICES ASSUME NEW x \in all, ~Active(calls', x),
                        Kind(node', x) = "OR" => Void(node', x),
                        NEW m \in Kids(node', x)
                 PROVE  Met(node', all, m)
    BY <1>16 DEF ReturnedCalls
  <2>2. ~Active(calls, x) /\ x \in 1..Len(node)
    BY <1>3, <1>14, <2>1
  <2>3. x # n
    BY <1>2, <2>2 DEF Active
  <2>4. node'[x] = node[x]
    BY <1>6, <2>2, <2>3
  <2>5. Kind(node', x) = Kind(node, x) /\ Kids(node', x) = Kids(node, x)
        /\ (Void(node', x) <=> Void(node, x))
    BY <2>4 DEF Kind, Kids, Void
  <2>6. Met(node, all, m)
    BY <2>1, <2>2, <2>5 DEF IInvTwo, ReturnedCalls
  <2>7. m \in 1..Len(node)
    <3>1. m \in (x + 1)..Len(node)
      BY <1>2, <2>1, <2>2, <2>5, PassOneOver
    <3> QED
      BY <1>2, <2>2, <3>1
  <2> QED
    BY <1>3, <1>6, <2>6, <2>7 DEF Met, Key, Agree
<1>22. ReturnExact' /\ Phases'
  <2>1. ReturnExact'
    BY <1>16 DEF ReturnExact
  <2>2. freed = {}
    BY <1>2 DEF IInvTwo, Phases
  <2>3. Phases'
    BY <1>2, <1>16, <2>2 DEF Phases
  <2> QED
    BY <2>1, <2>3
<1> QED
  BY <1>6, <1>17, <1>18, <1>19, <1>20, <1>21, <1>22 DEF IInvTwo

LEMMA ProgressInv == IInvTwo /\ [Progress \/ Finished]_vars => IInvTwo'
BY PassOneStepInv, StartPassTwoInv, FindCoreInv, CutEdgesInv, VisitInv, ResumeInv,
   ReturnFromPassTwoInv, DeleteUnseenInv, StutterTwoInv
DEF Progress, PassTwoNext, Finished

-----------------------------------------------------------------------------
(***************************************************************************)
(* The theorems.                                                           *)
(***************************************************************************)
LEMMA InductiveTwo == SpecTwo => []IInvTwo
<1>1. InitTwo => IInvTwo
  BY InitTwoInv
<1>2. IInvTwo /\ [Progress \/ Finished]_vars => IInvTwo'
  BY ProgressInv
<1> QED
  BY <1>1, <1>2, PTL DEF SpecTwo

\* The tree, the map passtwoallstates, the call stack of PassTwo and its result
\* have the types of PassTwo.cpp and AFAState.h in every state.
THEOREM TypeCorrectTwo == SpecTwo => []TypeOKTwo
<1>1. IInvTwo => TypeOKTwo
  BY DEF IInvTwo
<1> QED
  BY <1>1, InductiveTwo, PTL

\* PassTwo returns true exactly for an unsatisfiable state (PassTwo.cpp:16),
\* whichever cores z3 returns and in whatever order the children are visited.
THEOREM ReturnsExact == SpecTwo => []ReturnExact
<1>1. IInvTwo => ReturnExact
  BY DEF IInvTwo
<1> QED
  BY <1>1, InductiveTwo, PTL

\* Once the pass is over no call is under way: every AND state that was entered
\* is pruned and every other state is as PassOne has left it.
LEMMA AfterPassTwo ==
    ASSUME IInvTwo, done, NEW n \in passtwoallstates
    PROVE  /\ n \in 1..Len(node) /\ pc = "PassTwo"
           /\ ~Active(calls, n)
           /\ IF Kind(node, n) = "AND" THEN Pruned(node, word, n) ELSE Grown(node, n)
<1>1. pc = "PassTwo" /\ calls = <<>>
  BY DEF IInvTwo, Phases
<1>2. n \in 1..Len(node)
  BY DEF IInvTwo, TypeOKTwo
<1>3. ~Active(calls, n) /\ ~BeingPruned(calls, n)
  BY <1>1 DEF Active, BeingPruned
<1> QED
  BY <1>1, <1>2, <1>3, PassOneOver DEF Shape

\* After the pass, the children of a state that was entered have been met,
\* unless it is a disjunction that stopped at a satisfiable disjunct.
LEMMA ChildrenMet ==
    ASSUME IInvTwo, done, NEW n \in passtwoallstates,
           Kind(node, n) = "OR" => Void(node, n),
           NEW m \in Kids(node, n)
    PROVE  Seen(m)
<1>1. Met(node, passtwoallstates, m)
  BY AfterPassTwo DEF IInvTwo, ReturnedCalls
<1> QED
  BY <1>1, SameOperators

\* The states PassTwo has entered form a refutation of the trace
\* (PassTwo.cpp:16-176): an unsatisfiable state has an alternative, its
\* alternatives are inconsistent, and the states they consist of were entered
\* too, or states with their keys, down to the accepting ones.
THEOREM RefutationSound == SpecTwo => []Refutation
<1>1. ASSUME IInvTwo, done, NEW n \in passtwoallstates, Unsat(n), ~node[n].acc
      PROVE  /\ Kind(node, n) # "OR" => node[n].trans # {}
             /\ \A tr \in node[n].trans :
                   IF Kind(node, n) = "AND" THEN Joint(node, tr[2]) = {}
                   ELSE \A m \in tr[2] : Void(node, m)
             /\ \A m \in Kids(node, n) : Seen(m)
  <2>1. node[n].hmap = {} /\ Void(node, n)
    BY <1>1 DEF Unsat, Void
  <2>2. IF Kind(node, n) = "AND" THEN Pruned(node, word, n) ELSE Grown(node, n)
    BY <1>1, AfterPassTwo
  <2>3. \A m \in Kids(node, n) : Seen(m)
    BY <1>1, <2>1, ChildrenMet
  <2>4. CASE Kind(node, n) = "AND"
    BY <2>1, <2>2, <2>3, <2>4 DEF Pruned
  <2>5. CASE Kind(node, n) = "ORLit"
    <3>1. PICK tr \in node[n].trans, m \in Kids(node, n) :
            node[n].trans = {tr} /\ tr[2] = {m} /\ node[m].hmap = node[n].hmap
      BY <1>1, <2>2, <2>5 DEF Grown, GrownLit
    <3> QED
      BY <2>1, <2>3, <2>5, <3>1 DEF Void
  <2>6. CASE Kind(node, n) = "OR"
    <3>1. \A m \in Kids(node, n) : Void(node, m)
      BY <2>1, <2>2, <2>6, OrChildren
    <3> QED
      BY <2>3, <2>6, <3>1 DEF Kids
  <2>7. Kind(node, n) \in {"AND", "OR", "ORLit"}
    BY <1>1, AfterPassTwo, PassOneOver
  <2> QED
    BY <2>4, <2>5, <2>6, <2>7
<1>2. IInvTwo => Refutation
  <2>1. \A S : JointlyUnsat(S) <=> Joint(node, S) = {}
    BY SameOperators
  <2>2. \A m : Unsat(m) <=> Void(node, m)
    BY SameOperators
  <2>3. \A n : ChildrenOf(n) = Kids(node, n)
    BY SameOperators
  <2> QED
    BY <1>1, <2>1, <2>2, <2>3 DEF Refutation, Kind
<1> QED
  BY <1>2, InductiveTwo, PTL

\* No core is missed by removing the cores one by one (PassTwo.cpp:70): the
\* alternatives of a conjunction are disjoint and the conjuncts in none of them
\* are consistent.
THEOREM AllCoresAlwaysFound == SpecTwo => []AllCoresFound
<1>1. ASSUME IInvTwo, done, NEW n \in passtwoallstates, Kind(node, n) = "AND"
      PROVE  Pruned(node, word, n)
  BY <1>1, AfterPassTwo
<1>2. \A n : ChildrenOf(n) = Kids(node, n)
  BY SameOperators
<1>3. IInvTwo => AllCoresFound
  BY <1>1, <1>2 DEF AllCoresFound, Pruned, Kind
<1> QED
  BY <1>3, InductiveTwo, PTL

\* The deletion (AFAut.cpp:233-244) spares the children of every state that
\* was entered, unless it is a disjunction that stopped at a satisfiable
\* disjunct.
THEOREM NeededChildrenSurvive == SpecTwo => []ChildrenSurvive
<1>1. ASSUME IInvTwo, NEW n \in passtwoallstates, Kind(node, n) = "OR" => Void(node, n),
             NEW m \in Kids(node, n)
      PROVE  m \notin freed
  <2>1. CASE ~done
    BY <1>1, <2>1 DEF IInvTwo, Phases
  <2>2. CASE done
    <3>1. Seen(m)
      BY <1>1, <2>2, ChildrenMet
    <3> QED
      BY <1>1, <2>2, <3>1 DEF IInvTwo, Phases
  <2> QED
    BY <2>1, <2>2
<1>2. \A n : ChildrenOf(n) = Kids(node, n) /\ (Unsat(n) <=> Void(node, n))
  BY SameOperators
<1>3. IInvTwo => ChildrenSurvive
  BY <1>1, <1>2 DEF ChildrenSurvive, Kind
<1> QED
  BY <1>3, InductiveTwo, PTL
=============================================================================
