------------------------- MODULE IntersectionProofs -------------------------
(***************************************************************************)
(* The worklist of Intersection computes exactly the reachable part of the *)
(* product, for every generator and every alternating automaton and in     *)
(* whatever order the workset is emptied; and what is left of it after     *)
(* trimming accepts exactly the words both of them accept.                 *)
(***************************************************************************)
EXTENDS Intersection, AlternatingProofs

LEMMA ConjunctedType ==
    ASSUME TypeOK, NEW S \in SUBSET AFAState, NEW sym \in mAllSyms
    PROVE  GetConjunctedTransitions(S, sym) \subseteq SUBSET AFAState
<1> SUFFICES ASSUME NEW T \in GetConjunctedTransitions(S, sym), NEW q \in T
             PROVE  q \in AFAState
  OBVIOUS
<1>1. PICK c : /\ \A p \in S : c[p] \in afa.mTransitions[<<p, sym>>]
               /\ T = UNION {c[p] : p \in S}
  BY DEF GetConjunctedTransitions
<1>2. PICK p \in S : q \in c[p]
  BY <1>1
<1>3. afa.mTransitions \in [AFAState \X mAllSyms -> SUBSET SUBSET AFAState]
  BY DEF TypeOK, Automaton
<1>4. afa.mTransitions[<<p, sym>>] \in SUBSET SUBSET AFAState
  BY <1>3
<1> QED
  BY <1>1, <1>2, <1>4

LEMMA SuccessorsType ==
    ASSUME TypeOK, NEW t \in Tuple
    PROVE  /\ Successors(t) \subseteq {t} \X mAllSyms \X Tuple
           /\ Targets(Successors(t)) \subseteq Tuple
<1>1. rGen.trans \subseteq GenState \X mAllSyms \X GenState
  BY DEF TypeOK, Generator
<1>2. ASSUME NEW e \in Successors(t)
      PROVE  e \in {t} \X mAllSyms \X Tuple
  <2>1. PICK d \in rGen.trans : \E S \in GetConjunctedTransitions(t[2], d[2]) :
                                   e = <<t, d[2], <<d[3], S>>>>
    BY DEF Successors
  <2>2. d[2] \in mAllSyms /\ d[3] \in GenState /\ t[2] \in SUBSET AFAState
    BY <1>1 DEF Tuple
  <2> QED
    BY <2>1, <2>2, ConjunctedType DEF Tuple
<1> QED
  BY <1>2 DEF Targets

LEMMA InitialType ==
    ASSUME rGen \in Generator, afa \in Automaton
    PROVE  InitialTuples \subseteq Tuple
<1>1. rGen.init \subseteq GenState
  BY DEF Generator
<1>2. afa.mInit \in AFAState /\ afa.zero \subseteq SUBSET AFAState
  BY DEF Automaton
<1> QED
  BY <1>1, <1>2 DEF InitialTuples, Tuple

-----------------------------------------------------------------------------
\* Until the result is trimmed its initial states are all the initial tuples.
InitialKept == pc = "loop" => rInit = InitialTuples

IInv ==
    /\ TypeOK
    /\ ProcessedComplete
    /\ NothingInvented
    /\ InitialKept

LEMMA InitInv == Init => IInv
<1> SUFFICES ASSUME Init
             PROVE  IInv
  OBVIOUS
<1>1. rGen \in Generator /\ afa \in Automaton
  BY IntersectionAssumption DEF Init
<1>2. InitialTuples \subseteq Tuple
  BY <1>1, InitialType
<1>3. TypeOK
  BY <1>1, <1>2 DEF Init, TypeOK
<1>4. ProcessedComplete
  BY DEF Init, ProcessedComplete
<1>5. NothingInvented
  BY DEF Init, NothingInvented
<1>6. InitialKept
  BY DEF Init, InitialKept
<1> QED
  BY <1>3, <1>4, <1>5, <1>6 DEF IInv

LEMMA ProcessInv == IInv /\ Process => IInv'
<1> SUFFICES ASSUME IInv, Process
             PROVE  IInv'
  OBVIOUS
<1> DEFINE new(t) == Targets(Successors(t)) \ seenmap
<1>1. PICK t \in workset :
        /\ workset' = (workset \ {t}) \cup new(t)
        /\ seenmap' = seenmap \cup new(t)
        /\ rMarked' = IF IsFinal(t) THEN rMarked \cup {t} ELSE rMarked
        /\ rTrans' = rTrans \cup Successors(t)
  BY DEF Process
<1>2. pc = "loop" /\ UNCHANGED <<rGen, afa, rInit, pc>>
  BY DEF Process
<1>3. t \in seenmap /\ t \in Tuple
  BY DEF IInv, TypeOK
<1>4. Successors(t) \subseteq {t} \X mAllSyms \X Tuple /\ Targets(Successors(t)) \subseteq Tuple
  BY <1>3, SuccessorsType DEF IInv
<1>5. \A e \in Successors(t) : e[3] \in Targets(Successors(t))
  BY DEF Targets
<1>6. \A u : /\ Successors(u)' = Successors(u)
             /\ IsFinal(u)' = IsFinal(u)
  BY <1>2 DEF Successors, IsFinal, GetConjunctedTransitions
<1>7. InitialTuples' = InitialTuples
  BY <1>2 DEF InitialTuples
<1>8. Targets(Successors(t)) \subseteq seenmap'
  BY <1>1
<1>9. TypeOK'
  <2>1. seenmap' \subseteq Tuple /\ workset' \subseteq seenmap' /\ seenmap \subseteq seenmap'
    BY <1>1, <1>4 DEF IInv, TypeOK
  <2>2. rInit' \subseteq seenmap' /\ rMarked' \subseteq seenmap'
    BY <1>1, <1>2, <1>3, <2>1 DEF IInv, TypeOK
  <2>3. Successors(t) \subseteq seenmap' \X mAllSyms \X seenmap'
    <3>1. ASSUME NEW e \in Successors(t)
          PROVE  e \in seenmap' \X mAllSyms \X seenmap'
      <4>1. e \in {t} \X mAllSyms \X Tuple /\ e[3] \in seenmap'
        BY <1>4, <1>5, <1>8
      <4> QED
        BY <1>3, <2>1, <4>1
    <3> QED
      BY <3>1
  <2>4. rTrans' \subseteq seenmap' \X mAllSyms \X seenmap'
    BY <1>1, <2>1, <2>3 DEF IInv, TypeOK
  <2> QED
    BY <1>2, <2>1, <2>2, <2>4 DEF IInv, TypeOK
<1>10. ProcessedComplete'
  <2>1. SUFFICES ASSUME NEW u \in seenmap' \ workset'
                 PROVE  /\ Successors(u) \subseteq rTrans'
                        /\ Targets(Successors(u)) \subseteq seenmap'
                        /\ u \in rMarked' <=> IsFinal(u)
    <3>1. workset' \subseteq seenmap'
      BY <1>9 DEF TypeOK
    <3>2. \A u : Targets(Successors(u))' = Targets(Successors(u))
      BY <1>6 DEF Targets
    <3>3. \A u \in seenmap' \ workset' :
              /\ Successors(u)' \subseteq rTrans'
              /\ Targets(Successors(u))' \subseteq seenmap'
              /\ u \in rMarked' <=> IsFinal(u)'
      BY <1>6, <2>1, <3>2
    <3> QED
      BY <3>1, <3>3 DEF ProcessedComplete
  <2>2. CASE u = t
    <3>1. t \in rMarked => IsFinal(t)
      BY <1>2 DEF IInv, NothingInvented
    <3> QED
      BY <1>1, <1>8, <2>2, <3>1
  <2>3. CASE u # t
    <3>1. u \in seenmap \ workset
      BY <1>1, <2>1, <2>3
    <3> QED
      BY <1>1, <1>2, <2>3, <3>1 DEF IInv, ProcessedComplete
  <2> QED
    BY <2>2, <2>3
<1>11. NothingInvented'
  <2>1. rTrans' \subseteq UNION {Successors(u) : u \in seenmap'}
    BY <1>1, <1>3 DEF IInv, NothingInvented
  <2>2. ASSUME NEW u \in seenmap'
        PROVE  u \in InitialTuples \/ \E e \in rTrans' : e[3] = u
    <3>1. CASE u \in seenmap
      BY <1>1, <3>1 DEF IInv, NothingInvented
    <3>2. CASE u \in Targets(Successors(t))
      BY <1>1, <3>2 DEF Targets
    <3> QED
      BY <1>1, <3>1, <3>2
  <2>3. \A u \in rMarked' : IsFinal(u)
    BY <1>1 DEF IInv, NothingInvented
  <2>4. rTrans' \subseteq UNION {Successors(u)' : u \in seenmap'}
    BY <1>6, <2>1
  <2>5. \A u \in rMarked' : IsFinal(u)'
    BY <1>6, <2>3
  <2>6. \A u \in seenmap' : u \in InitialTuples' \/ \E e \in rTrans' : e[3] = u
    BY <1>7, <2>2
  <2> QED
    BY <2>4, <2>5, <2>6 DEF NothingInvented
<1>12. InitialKept'
  BY <1>2, <1>7 DEF IInv, InitialKept
<1> QED
  BY <1>9, <1>10, <1>11, <1>12 DEF IInv

\* A marked tuple can reach one, and so can the sources of the transitions
\* into tuples that can.
LEMMA CoReachableClosed ==
    ASSUME TypeOK
    PROVE  /\ rMarked \subseteq CoReachable
           /\ \A e \in rTrans : e[3] \in CoReachable => e[1] \in CoReachable
<1>1. rMarked \subseteq CoReachable
  BY DEF TypeOK, CoReachable
<1>2. ASSUME NEW e \in rTrans, e[3] \in CoReachable
      PROVE  e[1] \in CoReachable
  <2>1. e[1] \in seenmap
    BY DEF TypeOK
  <2>2. SUFFICES ASSUME NEW C \in SUBSET seenmap,
                        rMarked \subseteq C,
                        \A d \in rTrans : d[3] \in C => d[1] \in C
                 PROVE  e[1] \in C
    BY <2>1 DEF CoReachable
  <2>3. e[3] \in C
    BY <1>2, <2>2 DEF CoReachable
  <2> QED
    BY <2>2, <2>3
<1> QED
  BY <1>1, <1>2

LEMMA CoaccessibleInv == IInv /\ Coaccessible => IInv'
<1> SUFFICES ASSUME IInv, Coaccessible
             PROVE  IInv'
  OBVIOUS
<1> DEFINE K == CoReachable
<1>1. /\ seenmap' = seenmap \cap K
      /\ rInit' = rInit \cap K
      /\ rTrans' = rTrans \cap (K \X mAllSyms \X K)
      /\ pc' = "done" /\ workset = {}
      /\ UNCHANGED <<rGen, afa, workset, rMarked>>
  BY DEF Coaccessible
<1>2. rMarked \subseteq K /\ \A e \in rTrans : e[3] \in K => e[1] \in K
  BY CoReachableClosed DEF IInv
<1> HIDE DEF K
<1>3. TypeOK'
  BY <1>1, <1>2 DEF IInv, TypeOK
<1>4. ProcessedComplete'
  BY <1>1 DEF ProcessedComplete
<1>5. \A u : /\ Successors(u)' = Successors(u)
             /\ IsFinal(u)' = IsFinal(u)
  BY <1>1 DEF Successors, IsFinal, GetConjunctedTransitions
<1>6. InitialTuples' = InitialTuples
  BY <1>1 DEF InitialTuples
<1>7. \A u \in rMarked' : IsFinal(u)'
  BY <1>1, <1>5 DEF IInv, NothingInvented
<1>8. ASSUME NEW e \in rTrans'
      PROVE  \E u \in seenmap' : e \in Successors(u)'
  <2>1. PICK u \in seenmap : e \in Successors(u)
    BY <1>1 DEF IInv, NothingInvented
  <2>2. u \in Tuple /\ e[1] = u
    BY <2>1, SuccessorsType DEF IInv, TypeOK
  <2>3. u \in K
    BY <1>1, <2>2
  <2> QED
    BY <1>1, <1>5, <2>1, <2>3
<1>9. ASSUME NEW u \in seenmap'
      PROVE  u \in InitialTuples' \/ \E e \in rTrans' : e[3] = u
  <2>1. u \in InitialTuples \/ \E e \in rTrans : e[3] = u
    BY <1>1 DEF IInv, NothingInvented
  <2>2. ASSUME NEW e \in rTrans, e[3] = u
        PROVE  e \in rTrans'
    BY <1>1, <1>2, <2>2 DEF IInv, TypeOK
  <2> QED
    BY <1>6, <2>1, <2>2
<1>10. NothingInvented'
  BY <1>7, <1>8, <1>9 DEF NothingInvented
<1>11. InitialKept'
  BY <1>1 DEF InitialKept
<1> QED
  BY <1>3, <1>4, <1>10, <1>11 DEF IInv

LEMMA StutterInv == IInv /\ UNCHANGED vars => IInv'
<1> SUFFICES ASSUME IInv, UNCHANGED vars
             PROVE  IInv'
  OBVIOUS
<1>1. \A u : Successors(u)' = Successors(u) /\ IsFinal(u)' = IsFinal(u)
  BY DEF vars, Successors, IsFinal, GetConjunctedTransitions
<1>2. \A u : Targets(Successors(u))' = Targets(Successors(u))
  BY <1>1 DEF Targets
<1>3. InitialTuples' = InitialTuples
  BY DEF vars, InitialTuples
<1>4. TypeOK'
  BY DEF IInv, TypeOK, vars
<1>5. ProcessedComplete'
  <2>1. pc' = "loop" =>
          /\ workset' \subseteq seenmap'
          /\ \A t \in seenmap' \ workset' :
                /\ Successors(t)' \subseteq rTrans'
                /\ Targets(Successors(t))' \subseteq seenmap'
                /\ t \in rMarked' <=> IsFinal(t)'
    BY <1>1, <1>2 DEF IInv, ProcessedComplete, vars
  <2> QED
    BY <2>1 DEF ProcessedComplete
<1>6. NothingInvented'
  <2>1. /\ \A t \in rMarked' : IsFinal(t)'
        /\ rTrans' \subseteq UNION {Successors(t)' : t \in seenmap'}
        /\ \A t \in seenmap' : t \in InitialTuples' \/ \E e \in rTrans' : e[3] = t
    BY <1>1, <1>3 DEF IInv, NothingInvented, vars
  <2> QED
    BY <2>1 DEF NothingInvented
<1>7. InitialKept'
  BY <1>3 DEF IInv, InitialKept, vars
<1> QED
  BY <1>4, <1>5, <1>6, <1>7 DEF IInv

LEMMA Inductive == Spec => []IInv
<1>1. Init => IInv
  BY InitInv
<1>2. IInv /\ [Next]_vars => IInv'
  BY ProcessInv, CoaccessibleInv, StutterInv DEF Next, Returned
<1> QED
  BY <1>1, <1>2, PTL DEF Spec

-----------------------------------------------------------------------------
\* The result is a generator over the tuples (AFAut.cpp:676-771).
THEOREM TypeCorrect == Spec => []TypeOK
<1>1. IInv => TypeOK
  BY DEF IInv
<1> QED
  BY <1>1, Inductive, PTL

\* Every tuple that has left the workset is complete: its transitions, their
\* targets and its marking are in the result (AFAut.cpp:714-760).
THEOREM WorklistComplete == Spec => []ProcessedComplete
<1>1. IInv => ProcessedComplete
  BY DEF IInv
<1> QED
  BY <1>1, Inductive, PTL

\* The result, trimmed or not, is a part of the product (AFAut.cpp:676-771).
THEOREM ResultInProduct == Spec => []NothingInvented
<1>1. IInv => NothingInvented
  BY DEF IInv
<1> QED
  BY <1>1, Inductive, PTL

-----------------------------------------------------------------------------
(* The language of the result. *)

\* Does some conjunction of alternatives lie within X?
ConjunctionWithin(Q, sym, X) ==
    \E S \in GetConjunctedTransitions(Q, sym) : S \subseteq X

\* It does if and only if each state has an alternative that does.
LEMMA ConjunctedMeaning ==
    ASSUME NEW Q, NEW sym, NEW X
    PROVE  ConjunctionWithin(Q, sym, X)
               <=> \A q \in Q : \E alt \in afa.mTransitions[<<q, sym>>] : alt \subseteq X
<1> USE DEF ConjunctionWithin
<1> DEFINE tr(q) == afa.mTransitions[<<q, sym>>]
<1>1. ASSUME NEW S \in GetConjunctedTransitions(Q, sym), S \subseteq X, NEW q \in Q
      PROVE  \E alt \in tr(q) : alt \subseteq X
  <2>1. PICK c : (\A p \in Q : c[p] \in tr(p)) /\ S = UNION {c[p] : p \in Q}
    BY DEF GetConjunctedTransitions
  <2> QED
    BY <1>1, <2>1
<1>2. ASSUME \A q \in Q : \E alt \in tr(q) : alt \subseteq X
      PROVE  \E S \in GetConjunctedTransitions(Q, sym) : S \subseteq X
  <2> DEFINE c == [q \in Q |-> CHOOSE alt \in tr(q) : alt \subseteq X]
             S == UNION {c[q] : q \in Q}
  <2> HIDE DEF tr
  <2>1. \A q \in Q : c[q] \in tr(q) /\ c[q] \subseteq X
    BY <1>2
  <2>2. c \in [Q -> UNION {tr(q) : q \in Q}]
    BY <2>1
  <2> HIDE DEF c
  <2>3. S \in GetConjunctedTransitions(Q, sym)
    BY <2>1, <2>2 DEF GetConjunctedTransitions, tr
  <2> QED
    BY <2>1, <2>3
<1> QED
  BY <1>1, <1>2

\* When the workset is empty, the transitions out of a tuple are its successors.
LEMMA OutOfTuple ==
    ASSUME IInv, pc = "loop", workset = {}, NEW t \in seenmap, NEW sym, NEW X
    PROVE  (\E e \in rTrans : e[1] = t /\ e[2] = sym /\ e[3] \in X)
             <=> \E d \in rGen.trans : /\ d[1] = t[1] /\ d[2] = sym
                                       /\ \E S \in GetConjunctedTransitions(t[2], sym) :
                                             <<d[3], S>> \in X
<1>1. Successors(t) \subseteq rTrans
  BY DEF IInv, ProcessedComplete
<1>2. ASSUME NEW e \in rTrans, e[1] = t
      PROVE  e \in Successors(t)
  <2>1. PICK u \in seenmap : e \in Successors(u)
    BY DEF IInv, NothingInvented
  <2>2. e[1] = u
    BY <2>1, SuccessorsType DEF IInv, TypeOK
  <2> QED
    BY <1>2, <2>1, <2>2
<1>3. ASSUME NEW e \in Successors(t), e[2] = sym, e[3] \in X
      PROVE  \E d \in rGen.trans : /\ d[1] = t[1] /\ d[2] = sym
                                   /\ \E S \in GetConjunctedTransitions(t[2], sym) :
                                         <<d[3], S>> \in X
  <2>1. PICK d \in rGen.trans :
            d[1] = t[1] /\ \E S \in GetConjunctedTransitions(t[2], d[2]) : e = <<t, d[2], <<d[3], S>>>>
    BY DEF Successors
  <2> QED
    BY <1>3, <2>1
<1>4. ASSUME NEW d \in rGen.trans, d[1] = t[1], d[2] = sym,
             NEW S \in GetConjunctedTransitions(t[2], sym), <<d[3], S>> \in X
      PROVE  \E e \in Successors(t) : e[1] = t /\ e[2] = sym /\ e[3] \in X
  <2>1. <<t, d[2], <<d[3], S>>>> \in Successors(t)
    BY <1>4 DEF Successors
  <2> QED
    BY <1>4, <2>1
<1> QED
  BY <1>1, <1>2, <1>3, <1>4

\* By induction on the number of symbols left: before the result is trimmed, a
\* tuple leads to a marked one if and only if its two parts accept.
LEMMA TuplesExact ==
    ASSUME IInv, pc = "loop", workset = {}, NEW w \in Seq(mAllSyms), NEW t \in seenmap
    PROVE  t \in MarkedAfter(rTrans, rMarked, w)[Len(w)]
             <=> /\ t[1] \in MarkedAfter(rGen.trans, rGen.marked, w)[Len(w)]
                 /\ t[2] \subseteq AcceptingAfter(afa, w)[Len(w)]
<1> DEFINE n == Len(w)
           A == AcceptingAfter(afa, w)
           G == MarkedAfter(rGen.trans, rGen.marked, w)
           B == MarkedAfter(rTrans, rMarked, w)
           P(i) == \A u \in seenmap : u \in B[i] <=> (u[1] \in G[i] /\ u[2] \subseteq A[i])
           S == {i \in Nat : i <= n => P(i)}
<1>1. /\ n \in Nat /\ afa \in Automaton
      /\ rGen.marked \in SUBSET GenState
      /\ rGen.trans \in SUBSET (GenState \X mAllSyms \X GenState)
      /\ rMarked \in SUBSET seenmap /\ rTrans \in SUBSET (seenmap \X mAllSyms \X seenmap)
      /\ seenmap \subseteq Tuple
  BY DEF IInv, TypeOK, Generator
<1>2. /\ A[0] = afa.mIsAccepted
      /\ \A i \in 1..n : A[i] = {q \in AFAState :
             \E alt \in afa.mTransitions[<<q, w[n-i+1]>>] : alt \subseteq A[i-1]}
  BY <1>1, AcceptingAfterEquations
<1>3. /\ G[0] = rGen.marked
      /\ \A i \in 1..n : G[i] =
             {e[1] : e \in {d \in rGen.trans : d[2] = w[n-i+1] /\ d[3] \in G[i-1]}}
  BY <1>1, MarkedAfterEquations
<1>4. /\ B[0] = rMarked
      /\ \A i \in 1..n : B[i] =
             {e[1] : e \in {d \in rTrans : d[2] = w[n-i+1] /\ d[3] \in B[i-1]}}
  BY <1>1, MarkedAfterEquations
<1> HIDE DEF A, G, B
<1>5. 0 \in S
  BY <1>2, <1>3, <1>4 DEF IInv, ProcessedComplete, IsFinal
<1>6. ASSUME NEW i \in Nat, i \in S
      PROVE  i + 1 \in S
  <2>1. SUFFICES ASSUME i + 1 <= n, NEW u \in seenmap
                 PROVE  u \in B[i+1] <=> (u[1] \in G[i+1] /\ u[2] \subseteq A[i+1])
    OBVIOUS
  <2>2. P(i)
    BY <1>1, <1>6, <2>1
  <2> DEFINE sym == w[n-(i+1)+1]
  <2>3. i + 1 \in 1..n /\ (i + 1) - 1 = i
    BY <1>1, <2>1
  <2>4. A[i+1] = {q \in AFAState : \E alt \in afa.mTransitions[<<q, sym>>] : alt \subseteq A[i]}
    BY <1>2, <2>3
  <2>5. G[i+1] = {e[1] : e \in {d \in rGen.trans : d[2] = sym /\ d[3] \in G[i]}}
    BY <1>3, <2>3
  <2>6. B[i+1] = {e[1] : e \in {d \in rTrans : d[2] = sym /\ d[3] \in B[i]}}
    BY <1>4, <2>3
  <2> HIDE DEF sym, P
  <2>7. u \in B[i+1] <=> \E e \in rTrans : e[1] = u /\ e[2] = sym /\ e[3] \in B[i]
    BY <2>6
  <2>8. u[1] \in G[i+1] <=> \E d \in rGen.trans : d[1] = u[1] /\ d[2] = sym /\ d[3] \in G[i]
    BY <2>5
  <2>9. u[2] \subseteq A[i+1]
           <=> \E T \in GetConjunctedTransitions(u[2], sym) : T \subseteq A[i]
    <3>1. u[2] \subseteq AFAState
      BY <1>1 DEF Tuple
    <3>2. u[2] \subseteq A[i+1]
            <=> \A q \in u[2] : \E alt \in afa.mTransitions[<<q, sym>>] : alt \subseteq A[i]
      BY <2>4, <3>1
    <3>3. ConjunctionWithin(u[2], sym, A[i])
             <=> \A q \in u[2] : \E alt \in afa.mTransitions[<<q, sym>>] : alt \subseteq A[i]
      BY ConjunctedMeaning
    <3> QED
      BY <3>2, <3>3 DEF ConjunctionWithin
  <2>10. (\E e \in rTrans : e[1] = u /\ e[2] = sym /\ e[3] \in B[i])
            <=> \E d \in rGen.trans : /\ d[1] = u[1] /\ d[2] = sym
                                      /\ \E T \in GetConjunctedTransitions(u[2], sym) :
                                            <<d[3], T>> \in B[i]
    <3> DEFINE X == B[i]
    <3>1. (\E e \in rTrans : e[1] = u /\ e[2] = sym /\ e[3] \in X)
            <=> \E d \in rGen.trans : /\ d[1] = u[1] /\ d[2] = sym
                                      /\ \E T \in GetConjunctedTransitions(u[2], sym) :
                                            <<d[3], T>> \in X
      <4> HIDE DEF X
      <4> QED BY OutOfTuple
    <3> QED
      BY <3>1
  <2>11. ASSUME NEW d \in rGen.trans, d[1] = u[1], d[2] = sym,
                NEW T \in GetConjunctedTransitions(u[2], sym)
         PROVE  <<d[3], T>> \in B[i] <=> (d[3] \in G[i] /\ T \subseteq A[i])
    <3>1. <<d[3], T>> \in Targets(Successors(u))
      <4> DEFINE e == <<u, d[2], <<d[3], T>>>>
      <4>1. e \in Successors(u)
        BY <2>11 DEF Successors
      <4>2. e[3] = <<d[3], T>>
        OBVIOUS
      <4> HIDE DEF e
      <4> QED
        BY <4>1, <4>2 DEF Targets
    <3>2. <<d[3], T>> \in seenmap
      BY <3>1 DEF IInv, ProcessedComplete
    <3> QED
      BY <2>2, <3>2 DEF P
  <2> QED
    BY <2>7, <2>8, <2>9, <2>10, <2>11
<1>7. Nat \subseteq S
  <2> HIDE DEF S
  <2> QED BY <1>5, <1>6, NatSetInduction
<1>8. P(n)
  BY <1>1, <1>7
<1> QED
  BY <1>8 DEF A, G, B

\* Trimming loses no word: every tuple that leads to a marked one stays.
LEMMA TrimmedSame ==
    ASSUME TypeOK, NEW w \in Seq(mAllSyms)
    PROVE  LET K == CoReachable
           IN  PathAccepts(rInit \cap K, rTrans \cap (K \X mAllSyms \X K), rMarked, w)
                  <=> PathAccepts(rInit, rTrans, rMarked, w)
<1> DEFINE K == CoReachable
           n == Len(w)
           trimmed == rTrans \cap (K \X mAllSyms \X K)
           B == MarkedAfter(rTrans, rMarked, w)
           C == MarkedAfter(trimmed, rMarked, w)
           S == {i \in Nat : i <= n => C[i] = B[i] /\ B[i] \subseteq K}
<1>1. /\ n \in Nat /\ rMarked \in SUBSET seenmap
      /\ rTrans \in SUBSET (seenmap \X mAllSyms \X seenmap)
      /\ trimmed \in SUBSET (seenmap \X mAllSyms \X seenmap)
  BY DEF TypeOK
<1>2. rMarked \subseteq K /\ \A e \in rTrans : e[3] \in K => e[1] \in K
  BY CoReachableClosed
<1>3. \A e \in rTrans : e[1] \in K /\ e[3] \in K => e \in trimmed
  BY <1>1
<1>4. trimmed \subseteq rTrans
  OBVIOUS
<1> HIDE DEF K, trimmed
<1>5. /\ B[0] = rMarked
      /\ \A i \in 1..n : B[i] =
             {e[1] : e \in {d \in rTrans : d[2] = w[n-i+1] /\ d[3] \in B[i-1]}}
  BY <1>1, MarkedAfterEquations
<1>6. /\ C[0] = rMarked
      /\ \A i \in 1..n : C[i] =
             {e[1] : e \in {d \in trimmed : d[2] = w[n-i+1] /\ d[3] \in C[i-1]}}
  BY <1>1, MarkedAfterEquations
<1> HIDE DEF B, C
<1>7. 0 \in S
  BY <1>2, <1>5, <1>6
<1>8. ASSUME NEW i \in Nat, i \in S
      PROVE  i + 1 \in S
  <2>1. SUFFICES ASSUME i + 1 <= n
                 PROVE  C[i+1] = B[i+1] /\ B[i+1] \subseteq K
    OBVIOUS
  <2>2. C[i] = B[i] /\ B[i] \subseteq K
    BY <1>1, <1>8, <2>1
  <2> DEFINE sym == w[n-(i+1)+1]
  <2>3. i + 1 \in 1..n /\ (i + 1) - 1 = i
    BY <1>1, <2>1
  <2>4. B[i+1] = {e[1] : e \in {d \in rTrans : d[2] = sym /\ d[3] \in B[i]}}
    BY <1>5, <2>3
  <2>5. C[i+1] = {e[1] : e \in {d \in trimmed : d[2] = sym /\ d[3] \in B[i]}}
    BY <1>6, <2>2, <2>3
  <2> HIDE DEF sym
  <2> QED
    BY <1>2, <1>3, <1>4, <2>2, <2>4, <2>5
<1>9. Nat \subseteq S
  <2> HIDE DEF S
  <2> QED BY <1>7, <1>8, NatSetInduction
<1>10. C[n] = B[n] /\ B[n] \subseteq K
  BY <1>1, <1>9
<1>11. PathAccepts(rInit \cap K, trimmed, rMarked, w) <=> PathAccepts(rInit, rTrans, rMarked, w)
  BY <1>10 DEF PathAccepts, B, C
<1> QED
  BY <1>11 DEF K, trimmed

\* The initial tuples: the generator starts and one of the initial sets accepts.
LEMMA UntrimmedExact ==
    ASSUME IInv, pc = "loop", workset = {}, NEW w \in Seq(mAllSyms)
    PROVE  PathAccepts(rInit, rTrans, rMarked, w)
              <=> /\ PathAccepts(rGen.init, rGen.trans, rGen.marked, w)
                  /\ AutomatonAccepts(afa, w)
<1> DEFINE A == AcceptingAfter(afa, w)[Len(w)]
           G == MarkedAfter(rGen.trans, rGen.marked, w)[Len(w)]
           B == MarkedAfter(rTrans, rMarked, w)[Len(w)]
           sets == IF afa.lit THEN {{afa.mInit}} ELSE afa.zero
<1>1. rInit = rGen.init \X sets /\ rInit \subseteq seenmap
  BY DEF IInv, TypeOK, InitialKept, InitialTuples
<1>2. \A t \in rInit : t \in B <=> (t[1] \in G /\ t[2] \subseteq A)
  BY <1>1, TuplesExact
<1>3. AutomatonAccepts(afa, w) <=> \E T \in sets : T \subseteq A
  BY DEF AutomatonAccepts
<1> HIDE DEF A, B, G, sets
<1>4. (rInit \cap B # {}) <=> (rGen.init \cap G # {} /\ \E T \in sets : T \subseteq A)
  <2>1. ASSUME NEW t \in rInit, t \in B
        PROVE  rGen.init \cap G # {} /\ \E T \in sets : T \subseteq A
    BY <1>1, <1>2, <2>1
  <2>2. ASSUME NEW g \in rGen.init, g \in G, NEW T \in sets, T \subseteq A
        PROVE  <<g, T>> \in rInit \cap B
    BY <1>1, <1>2, <2>2
  <2> QED
    BY <2>1, <2>2
<1> QED
  BY <1>3, <1>4 DEF PathAccepts, B, G

\* The result accepts exactly the words that the generator and the automaton
\* both accept (AFAut.cpp:676-771).
THEOREM IntersectionExact == Spec => []LanguageExact
<1> DEFINE J == IInv /\ LanguageExact
<1>1. Init => J
  BY InitInv DEF Init, LanguageExact
<1>2. J /\ [Next]_vars => J'
  <2> SUFFICES ASSUME J, [Next]_vars
               PROVE  J'
    OBVIOUS
  <2>1. CASE Process
    BY <2>1, ProcessInv DEF Process, LanguageExact
  <2>2. CASE Coaccessible
    <3>1. /\ pc = "loop" /\ workset = {} /\ UNCHANGED <<rGen, afa, rMarked>>
          /\ rInit' = rInit \cap CoReachable
          /\ rTrans' = rTrans \cap (CoReachable \X mAllSyms \X CoReachable)
      BY <2>2 DEF Coaccessible
    <3>2. ASSUME NEW w \in Words
          PROVE  PathAccepts(rInit', rTrans', rMarked, w)
                    <=> /\ PathAccepts(rGen.init, rGen.trans, rGen.marked, w)
                        /\ AutomatonAccepts(afa, w)
      <4>1. w \in Seq(mAllSyms)
        BY IntersectionAssumption
      <4> QED
        BY <3>1, <4>1, TrimmedSame, UntrimmedExact DEF IInv
    <3> QED
      BY <2>2, <3>1, <3>2, CoaccessibleInv DEF LanguageExact
  <2>3. CASE UNCHANGED vars
    BY <2>3, StutterInv DEF LanguageExact, vars
  <2> QED
    BY <2>1, <2>2, <2>3 DEF Next, Returned
<1>3. J => LanguageExact
  OBVIOUS
<1> QED
  BY <1>1, <1>2, <1>3, PTL DEF Spec
=============================================================================
