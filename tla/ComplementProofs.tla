-------------------------- MODULE ComplementProofs --------------------------
(***************************************************************************)
(* Complement negates every reachable state exactly once and leaves an     *)
(* automaton that accepts exactly the words the original one rejects, for  *)
(* every alternating automaton, with shared states and cycles, and         *)
(* whatever order the symbols and targets are visited in.                  *)
(***************************************************************************)
EXTENDS Complement, AlternatingProofs

-----------------------------------------------------------------------------
(* One state out of each alternative. *)

\* A choice takes its states from the alternatives, and one from each of them.
LEMMA ChoicesParts ==
    ASSUME NEW D, NEW T \in Choices(D)
    PROVE  T \subseteq UNION D /\ \A alt \in D : alt \cap T # {}
<1>1. PICK c \in [D -> UNION D] : (\A alt \in D : c[alt] \in alt) /\ T = {c[alt] : alt \in D}
  BY DEF Choices
<1> QED
  BY <1>1

\* Some choice lies within S if and only if every alternative meets S.
LEMMA ChoicesMeet ==
    ASSUME NEW D, NEW S
    PROVE  (\E T \in Choices(D) : T \subseteq S) <=> \A alt \in D : alt \cap S # {}
<1>1. ASSUME NEW T \in Choices(D), T \subseteq S
      PROVE  \A alt \in D : alt \cap S # {}
  BY <1>1, ChoicesParts
<1>2. ASSUME \A alt \in D : alt \cap S # {}
      PROVE  \E T \in Choices(D) : T \subseteq S
  <2> DEFINE c == [alt \in D |-> CHOOSE x : x \in alt \cap S]
             T == {c[alt] : alt \in D}
  <2>1. \A alt \in D : c[alt] \in alt \cap S
    BY <1>2
  <2>2. c \in [D -> UNION D]
    BY <2>1
  <2> HIDE DEF c
  <2>3. T \in Choices(D)
    BY <2>1, <2>2 DEF Choices
  <2> QED
    BY <2>1, <2>3
<1> QED
  BY <1>1, <1>2

LEMMA NegatedType ==
    ASSUME NEW D \in SUBSET SUBSET OldState
    PROVE  /\ Negated(D) \in SUBSET SUBSET AFAState
           /\ UNION Negated(D) \subseteq (UNION D) \cup {ErrorState}
<1>1. ErrorState \in AFAState
  BY AutomataAssumption
<1>2. CASE D = {}
  BY <1>1, <1>2 DEF Negated
<1>3. CASE D # {}
  <2>1. ASSUME NEW T \in Negated(D)
        PROVE  T \subseteq UNION D
    BY <1>3, ChoicesParts DEF Negated
  <2> QED
    BY <2>1 DEF OldState
<1> QED
  BY <1>2, <1>3

\* What is known of the automata Complement is called for.
LEMMA OriginalType ==
    ASSUME NEW a \in Automata
    PROVE  /\ a \in Automaton
           /\ a.mInit \in OldState
           /\ a.mIsAccepted \subseteq OldState
           /\ a.zero \in SUBSET SUBSET OldState
           /\ \A q \in AFAState, sym \in mAllSyms :
                 a.mTransitions[<<q, sym>>] \in SUBSET SUBSET OldState
<1>1. a \in Automaton /\ a.mInit \in AFAState
  BY AutomataAssumption DEF Automaton
<1> QED
  BY <1>1, AutomataAssumption DEF OldState

\* Replacing the alternatives of one state on one symbol.
Replaced(a, q, sym, D) == [a EXCEPT !.mTransitions[<<q, sym>>] = D]

LEMMA ReplaceOne ==
    ASSUME NEW a \in Automaton, NEW q \in AFAState, NEW sym \in mAllSyms,
           NEW D \in SUBSET SUBSET AFAState, NEW b, b = Replaced(a, q, sym, D)
    PROVE  /\ b \in Automaton
           /\ b.mInit = a.mInit /\ b.lit = a.lit /\ b.zero = a.zero
           /\ b.mIsAccepted = a.mIsAccepted
           /\ \A p \in AFAState, s \in mAllSyms :
                 b.mTransitions[<<p, s>>] =
                    IF p = q /\ s = sym THEN D ELSE a.mTransitions[<<p, s>>]
<1>1. a.mTransitions \in [AFAState \X mAllSyms -> SUBSET SUBSET AFAState]
  BY DEF Automaton
<1>2. b = [a EXCEPT !.mTransitions = [a.mTransitions EXCEPT ![<<q, sym>>] = D]]
  BY DEF Automaton, Replaced
<1> DEFINE t == [a.mTransitions EXCEPT ![<<q, sym>>] = D]
<1>3. t \in [AFAState \X mAllSyms -> SUBSET SUBSET AFAState]
  BY <1>1
<1>4. \A p \in AFAState, s \in mAllSyms :
         t[<<p, s>>] = IF p = q /\ s = sym THEN D ELSE a.mTransitions[<<p, s>>]
  BY <1>1
<1> HIDE DEF t
<1>5. b = [a EXCEPT !.mTransitions = t]
  BY <1>2 DEF t
<1>6. b \in Automaton /\ b.mTransitions = t
  BY <1>3, <1>5 DEF Automaton
<1>7. /\ b.mInit = a.mInit /\ b.lit = a.lit /\ b.zero = a.zero
      /\ b.mIsAccepted = a.mIsAccepted
  BY <1>5 DEF Automaton
<1> QED
  BY <1>4, <1>6, <1>7

\* Replacing the set of accepting states.
LEMMA ReplaceAccepted ==
    ASSUME NEW a \in Automaton, NEW S \in SUBSET AFAState, NEW b,
           b = [a EXCEPT !.mIsAccepted = S]
    PROVE  /\ b \in Automaton
           /\ b.mInit = a.mInit /\ b.lit = a.lit /\ b.zero = a.zero
           /\ b.mIsAccepted = S /\ b.mTransitions = a.mTransitions
BY DEF Automaton

\* Replacing fields of a call of RecComplement.
LEMMA ReplaceFields ==
    ASSUME NEW r \in Call, NEW S, NEW C, NEW T
    PROVE  /\ [r EXCEPT !.syms = S, !.cur = C, !.todo = T]
                 = [st |-> r.st, syms |-> S, cur |-> C, todo |-> T]
           /\ [r EXCEPT !.cur = C] = [st |-> r.st, syms |-> r.syms, cur |-> C, todo |-> r.todo]
           /\ [r EXCEPT !.todo = T] = [st |-> r.st, syms |-> r.syms, cur |-> r.cur, todo |-> T]
<1> DEFINE a == [r EXCEPT !.syms = S]
           b == [a EXCEPT !.cur = C]
           c == [b EXCEPT !.todo = T]
<1>1. a = [st |-> r.st, syms |-> S, cur |-> r.cur, todo |-> r.todo]
  BY DEF Call
<1>2. /\ c = [r EXCEPT !.syms = S, !.cur = C, !.todo = T]
      /\ [r EXCEPT !.cur = C] = [st |-> r.st, syms |-> r.syms, cur |-> C, todo |-> r.todo]
      /\ [r EXCEPT !.todo = T] = [st |-> r.st, syms |-> r.syms, cur |-> r.cur, todo |-> T]
  BY DEF Call
<1> HIDE DEF a
<1>3. b = [st |-> r.st, syms |-> S, cur |-> C, todo |-> r.todo]
  BY <1>1
<1> HIDE DEF b
<1>4. c = [st |-> r.st, syms |-> S, cur |-> C, todo |-> T]
  BY <1>3
<1> HIDE DEF c
<1> QED
  BY <1>2, <1>4

-----------------------------------------------------------------------------
(* The inductive invariant. *)

Roots == IF original.lit THEN {original.mInit} ELSE UNION original.zero

\* The calls under way are for different states, and each handles at most one
\* symbol, which is not among those still to be handled.
Frames ==
    /\ \A i, j \in 1..Len(stack) : stack[i].st = stack[j].st => i = j
    /\ \A i \in 1..Len(stack) :
          /\ stack[i].cur \cap stack[i].syms = {}
          /\ \A s, t \in stack[i].cur : s = t

\* A state that was negated owes a visit to a target only while its call is
\* under way and the target's symbol is to be handled.
TargetsVisited ==
    \A q \in mapseenset, sym \in mAllSyms :
        \A m \in UNION original.mTransitions[<<q, sym>>] :
            \/ m \in mapseenset
            \/ \E i \in 1..Len(stack) :
                  /\ stack[i].st = q
                  /\ sym \in stack[i].syms \/ (sym \in stack[i].cur /\ m \in stack[i].todo)

ErrorStateAdded ==
    IF pc = "start"
    THEN afa = original /\ mapseenset = {} /\ stack = <<>>
    ELSE /\ ErrorState \in afa.mIsAccepted
         /\ \A sym \in mAllSyms : afa.mTransitions[<<ErrorState, sym>>] = {{ErrorState}}

InitialState ==
    /\ falseacc \in FalseStates(original) \cup {NULL}
    /\ afa.mInit = original.mInit
    /\ afa.lit = original.lit
    /\ afa.zero = IF pc = "done" /\ ~original.lit THEN Choices(original.zero) ELSE original.zero
    /\ pc # "start" => Roots \subseteq mapseenset \cup rootTodo
    /\ pc = "done" => stack = <<>> /\ rootTodo = {}

IInv ==
    /\ TypeOK
    /\ NegatedOnce
    /\ Frames
    /\ TargetsVisited
    /\ ErrorStateAdded
    /\ InitialState

LEMMA InitInv == Init => IInv
<1> SUFFICES ASSUME Init
             PROVE  IInv
  OBVIOUS
<1>1. original \in Automata /\ afa = original /\ stack = <<>> /\ pc = "start"
      /\ mapseenset = {} /\ rootTodo = {}
  BY DEF Init
<1>2. falseacc \in OldState \cup {NULL}
  <2>1. original.mIsAccepted \subseteq OldState
    BY <1>1, OriginalType
  <2> QED
    BY <2>1 DEF Init, FalseStates
<1>3. TypeOK
  BY <1>1, <1>2, OriginalType DEF TypeOK
<1>4. NegatedOnce
  BY <1>1 DEF NegatedOnce
<1>5. Frames /\ TargetsVisited /\ ErrorStateAdded
  BY <1>1 DEF Frames, TargetsVisited, ErrorStateAdded
<1>6. InitialState
  BY <1>1 DEF Init, InitialState
<1> QED
  BY <1>3, <1>4, <1>5, <1>6 DEF IInv

LEMMA AddErrorStateInv == IInv /\ AddErrorState => IInv'
<1> SUFFICES ASSUME IInv, AddErrorState
             PROVE  IInv'
  OBVIOUS
<1>1. /\ pc = "start" /\ pc' = "rec" /\ afa = original /\ mapseenset = {} /\ stack = <<>>
      /\ UNCHANGED <<original, falseacc, mapseenset, stack>>
      /\ original \in Automata /\ falseacc \in OldState \cup {NULL}
  BY DEF AddErrorState, IInv, TypeOK, ErrorStateAdded
<1> DEFINE t == [d \in AFAState \X mAllSyms |->
                    IF d[1] = ErrorState THEN {{ErrorState}} ELSE original.mTransitions[d]]
           acc == original.mIsAccepted \cup {ErrorState}
<1>2. original \in Automaton
  BY <1>1, OriginalType
<1>3. original.mTransitions \in [AFAState \X mAllSyms -> SUBSET SUBSET AFAState]
  BY <1>2 DEF Automaton
<1>4. afa' = [original EXCEPT !.mIsAccepted = acc, !.mTransitions = t]
  <2>1. DOMAIN original.mTransitions = AFAState \X mAllSyms
    BY <1>3
  <2>2. t = [d \in DOMAIN original.mTransitions |->
               IF d[1] = ErrorState THEN {{ErrorState}} ELSE original.mTransitions[d]]
    BY <2>1
  <2>3. afa' = [afa EXCEPT
           !.mIsAccepted = afa.mIsAccepted \cup {ErrorState},
           !.mTransitions = [d \in DOMAIN afa.mTransitions |->
                IF d[1] = ErrorState THEN {{ErrorState}} ELSE afa.mTransitions[d]]]
    BY <1>1, <1>2 DEF AddErrorState, Automaton
  <2> HIDE DEF t
  <2> QED
    BY <1>1, <2>2, <2>3
<1>5. t \in [AFAState \X mAllSyms -> SUBSET SUBSET AFAState] /\ acc \in SUBSET AFAState
  <2>1. ErrorState \in AFAState /\ original.mIsAccepted \in SUBSET AFAState
    BY <1>2, AutomataAssumption DEF Automaton
  <2> QED
    BY <1>3, <2>1
<1>6. \A q \in OldState, sym \in mAllSyms : t[<<q, sym>>] = original.mTransitions[<<q, sym>>]
  BY DEF OldState
<1>7. \A sym \in mAllSyms : t[<<ErrorState, sym>>] = {{ErrorState}}
  BY AutomataAssumption
<1> HIDE DEF t
<1>8. /\ afa' \in Automaton
      /\ afa'.mInit = original.mInit /\ afa'.lit = original.lit /\ afa'.zero = original.zero
      /\ afa'.mIsAccepted = acc /\ afa'.mTransitions = t
  BY <1>2, <1>4, <1>5 DEF Automaton
<1>9. rootTodo' = Roots
  BY <1>1 DEF AddErrorState, Roots
<1>10. Roots \subseteq OldState
  BY <1>1, OriginalType DEF Roots
<1>11. TypeOK'
  BY <1>1, <1>8, <1>9, <1>10 DEF TypeOK
<1>12. NegatedOnce'
  BY <1>1, <1>6, <1>8 DEF NegatedOnce, OldState
<1>13. Frames' /\ TargetsVisited'
  BY <1>1 DEF Frames, TargetsVisited
<1>14. ErrorStateAdded'
  BY <1>1, <1>7, <1>8 DEF ErrorStateAdded
<1>15. InitialState'
  <2>1. Roots' = Roots /\ FalseStates(original)' = FalseStates(original)
    BY <1>1 DEF Roots, FalseStates
  <2> QED
    BY <1>1, <1>8, <1>9, <2>1 DEF IInv, InitialState
<1> QED
  BY <1>11, <1>12, <1>13, <1>14, <1>15 DEF IInv

-----------------------------------------------------------------------------
\* The caller of RecComplement for q has changed nothing but its todo, from
\* which at most q was taken.
SameBut(frames, q) ==
    /\ frames \in Seq(Call)
    /\ Len(frames) = Len(stack)
    /\ \A i \in 1..Len(stack) :
          /\ frames[i].st = stack[i].st
          /\ frames[i].syms = stack[i].syms
          /\ frames[i].cur = stack[i].cur
          /\ stack[i].todo \subseteq frames[i].todo \cup {q}

LEMMA RecComplementInv ==
    ASSUME IInv, pc = "rec", NEW q \in OldState, NEW frames, SameBut(frames, q),
           RecComplement(q, frames), UNCHANGED <<original, falseacc, pc>>,
           rootTodo' \subseteq rootTodo, rootTodo \subseteq rootTodo' \cup {q}
    PROVE  IInv'
<1> DEFINE frame == [st |-> q, syms |-> mAllSyms, cur |-> {}, todo |-> {}]
           n == Len(stack)
<1>1. n \in Nat /\ stack \in Seq(Call) /\ frames \in Seq(Call) /\ Len(frames) = n
  BY DEF IInv, TypeOK, SameBut
<1>2. /\ Roots' = Roots /\ FalseStates(original)' = FalseStates(original)
      /\ \A D : Negated(D)' = Negated(D)
  BY DEF Roots, FalseStates, Negated
<1>3. \A i \in 1..n : /\ frames[i].st = stack[i].st
                      /\ frames[i].syms = stack[i].syms
                      /\ frames[i].cur = stack[i].cur
                      /\ stack[i].todo \subseteq frames[i].todo \cup {q}
  BY DEF SameBut
<1>4. CASE q \in mapseenset
  <2>1. stack' = frames /\ UNCHANGED <<afa, mapseenset>>
    BY <1>4 DEF RecComplement
  <2>2. Len(stack') = n
    BY <1>1, <2>1
  <2>3. TypeOK'
    <3>1. \A i \in 1..n : stack'[i].st \in mapseenset
      BY <1>3, <2>1 DEF IInv, TypeOK
    <3> QED
      BY <1>1, <2>1, <2>2, <3>1 DEF IInv, TypeOK
  <2>4. \A p, sym : Pending(p, sym)' <=> Pending(p, sym)
    BY <1>3, <2>1, <2>2 DEF Pending
  <2>5. NegatedOnce'
    BY <1>2, <2>1, <2>4 DEF IInv, NegatedOnce
  <2>6. Frames'
    BY <1>3, <2>1, <2>2 DEF IInv, Frames
  <2>7. TargetsVisited'
    <3> SUFFICES ASSUME NEW p \in mapseenset, NEW sym \in mAllSyms,
                        NEW m \in UNION original.mTransitions[<<p, sym>>]
                 PROVE  \/ m \in mapseenset
                        \/ \E i \in 1..n :
                              /\ frames[i].st = p
                              /\ \/ sym \in frames[i].syms
                                 \/ sym \in frames[i].cur /\ m \in frames[i].todo
      BY <2>1, <2>2 DEF TargetsVisited
    <3>1. CASE m \in mapseenset
      BY <3>1
    <3>2. CASE m \notin mapseenset
      <4>1. PICK i \in 1..n :
                  /\ stack[i].st = p
                  /\ sym \in stack[i].syms \/ (sym \in stack[i].cur /\ m \in stack[i].todo)
        BY <3>2 DEF IInv, TargetsVisited
      <4>2. m # q
        BY <1>4, <3>2
      <4> QED
        BY <1>3, <4>1, <4>2
    <3> QED
      BY <3>1, <3>2
  <2>8. ErrorStateAdded'
    BY <2>1 DEF IInv, ErrorStateAdded
  <2>9. InitialState'
    BY <1>2, <1>4, <2>1 DEF IInv, InitialState
  <2> QED
    BY <2>3, <2>5, <2>6, <2>7, <2>8, <2>9 DEF IInv
<1>5. CASE q \notin mapseenset
  <2>1. /\ mapseenset' = mapseenset \cup {q}
        /\ afa' = [afa EXCEPT !.mIsAccepted = Negate(q, @)]
        /\ stack' = Append(frames, frame)
    BY <1>5 DEF RecComplement
  <2> DEFINE acc == Negate(q, afa.mIsAccepted)
  <2>2. afa \in Automaton /\ acc \in SUBSET AFAState
    BY DEF IInv, TypeOK, Automaton, Negate, OldState
  <2>3. afa' = [afa EXCEPT !.mIsAccepted = acc]
    BY <2>1, <2>2 DEF Automaton
  <2>4. \A p : p \in acc <=> IF p = q THEN p \notin afa.mIsAccepted ELSE p \in afa.mIsAccepted
    BY DEF Negate
  <2> HIDE DEF acc
  <2>5. /\ afa' \in Automaton
        /\ afa'.mInit = afa.mInit /\ afa'.lit = afa.lit /\ afa'.zero = afa.zero
        /\ afa'.mIsAccepted = acc /\ afa'.mTransitions = afa.mTransitions
    BY <2>2, <2>3, ReplaceAccepted
  <2>6. frame \in Call
    BY DEF Call
  <2>7. /\ stack' \in Seq(Call) /\ Len(stack') = n + 1 /\ stack'[n+1] = frame
        /\ \A i \in 1..n : stack'[i] = frames[i]
    BY <1>1, <2>1, <2>6
  <2>8. \A i \in 1..(n+1) : i \in 1..n \/ i = n + 1
    BY <1>1
  <2>9. \A i \in 1..n : i \in 1..(n+1) /\ i # n + 1 /\ stack[i].st \in mapseenset
    BY <1>1 DEF IInv, TypeOK
  <2>10. n + 1 \in 1..(n+1)
    BY <1>1
  <2>11. stack'[n+1].st = q /\ stack'[n+1].syms = mAllSyms
         /\ stack'[n+1].cur = {} /\ stack'[n+1].todo = {}
    BY <2>7
  <2> HIDE DEF frame, n
  <2>12. TypeOK'
    <3>1. \A i \in 1..(n+1) : stack'[i].st \in mapseenset'
      BY <1>3, <2>1, <2>7, <2>8, <2>9, <2>11
    <3> QED
      BY <2>1, <2>5, <2>7, <3>1 DEF IInv, TypeOK
  <2>13. \A p, sym : Pending(p, sym)' <=> (Pending(p, sym) \/ (p = q /\ sym \in mAllSyms))
    <3>1. \A p, sym : Pending(p, sym) <=>
              \E i \in 1..n : stack[i].st = p /\ sym \in stack[i].syms \cup stack[i].cur
      BY DEF Pending, n
    <3>2. \A p, sym : Pending(p, sym)' <=>
              \E i \in 1..(n+1) : stack'[i].st = p /\ sym \in stack'[i].syms \cup stack'[i].cur
      BY <2>7 DEF Pending
    <3> QED
      BY <1>3, <2>7, <2>8, <2>9, <2>10, <2>11, <3>1, <3>2
  <2>14. NegatedOnce'
    <3> SUFFICES ASSUME NEW p \in OldState
                 PROVE  /\ p \in acc <=> (p \in mapseenset' <=> p \notin original.mIsAccepted)
                        /\ \A sym \in mAllSyms :
                              afa.mTransitions[<<p, sym>>] =
                                 IF p \in mapseenset' /\ ~Pending(p, sym)'
                                 THEN Negated(original.mTransitions[<<p, sym>>])
                                 ELSE original.mTransitions[<<p, sym>>]
      BY <1>2, <2>5 DEF NegatedOnce
    <3>1. CASE p = q
      BY <1>5, <2>1, <2>4, <2>13, <3>1 DEF IInv, NegatedOnce
    <3>2. CASE p # q
      BY <2>1, <2>4, <2>13, <3>2 DEF IInv, NegatedOnce
    <3> QED
      BY <3>1, <3>2
  <2>15. Frames'
    <3>1. /\ \A i, j \in 1..n : stack[i].st = stack[j].st => i = j
          /\ \A i \in 1..n : /\ stack[i].cur \cap stack[i].syms = {}
                             /\ \A s, t \in stack[i].cur : s = t
      BY DEF IInv, Frames, n
    <3>2. \A i, j \in 1..(n+1) : stack'[i].st = stack'[j].st => i = j
      BY <1>3, <1>5, <2>7, <2>8, <2>9, <2>11, <3>1
    <3>3. \A i \in 1..(n+1) : /\ stack'[i].cur \cap stack'[i].syms = {}
                              /\ \A s, t \in stack'[i].cur : s = t
      BY <1>3, <2>7, <2>8, <2>11, <3>1
    <3> QED
      BY <2>7, <3>2, <3>3 DEF Frames
  <2>16. TargetsVisited'
    <3> SUFFICES ASSUME NEW p \in mapseenset', NEW sym \in mAllSyms,
                        NEW m \in UNION original.mTransitions[<<p, sym>>]
                 PROVE  \/ m \in mapseenset'
                        \/ \E i \in 1..(n+1) :
                              /\ stack'[i].st = p
                              /\ \/ sym \in stack'[i].syms
                                 \/ sym \in stack'[i].cur /\ m \in stack'[i].todo
      BY <2>7 DEF TargetsVisited
    <3>1. CASE p = q
      BY <2>10, <2>11, <3>1
    <3>2. CASE m \in mapseenset'
      BY <3>2
    <3>3. CASE p # q /\ m \notin mapseenset'
      <4>1. p \in mapseenset /\ m \notin mapseenset /\ m # q
        BY <2>1, <3>3
      <4>2. PICK i \in 1..n :
                  /\ stack[i].st = p
                  /\ sym \in stack[i].syms \/ (sym \in stack[i].cur /\ m \in stack[i].todo)
        BY <4>1 DEF IInv, TargetsVisited, n
      <4> QED
        BY <1>3, <2>7, <2>9, <4>1, <4>2
    <3> QED
      BY <3>1, <3>2, <3>3
  <2>17. ErrorStateAdded'
    <3>1. ErrorState # q
      BY DEF OldState
    <3> QED
      BY <2>4, <2>5, <3>1 DEF IInv, ErrorStateAdded
  <2>18. InitialState'
    BY <1>2, <2>1, <2>5 DEF IInv, InitialState
  <2> QED
    BY <2>12, <2>14, <2>15, <2>16, <2>17, <2>18 DEF IInv
<1> QED
  BY <1>4, <1>5

LEMMA VisitRootInv == IInv /\ VisitRoot => IInv'
<1> SUFFICES ASSUME IInv, VisitRoot
             PROVE  IInv'
  OBVIOUS
<1>1. PICK q \in rootTodo : rootTodo' = rootTodo \ {q} /\ RecComplement(q, stack)
  BY DEF VisitRoot
<1>2. pc = "rec" /\ UNCHANGED <<original, falseacc, pc>> /\ q \in OldState
  BY DEF VisitRoot, IInv, TypeOK
<1>3. SameBut(stack, q)
  BY DEF IInv, TypeOK, SameBut
<1>4. rootTodo' \subseteq rootTodo /\ rootTodo \subseteq rootTodo' \cup {q}
  BY <1>1
<1> QED
  BY <1>1, <1>2, <1>3, <1>4, RecComplementInv

\* The call on top of the stack.
LEMMA TopType ==
    ASSUME IInv, stack # <<>>
    PROVE  /\ Len(stack) \in Nat \ {0} /\ Len(stack) \in 1..Len(stack)
           /\ top \in Call /\ top.st \in OldState /\ top.st \in AFAState
           /\ top.syms \subseteq mAllSyms /\ top.cur \subseteq mAllSyms
           /\ top.todo \subseteq OldState
<1>1. stack \in Seq(Call)
  BY DEF IInv, TypeOK
<1>2. Len(stack) \in Nat \ {0} /\ Len(stack) \in 1..Len(stack)
  BY <1>1
<1>3. top \in Call
  BY <1>1, <1>2 DEF top
<1> QED
  BY <1>2, <1>3 DEF Call, OldState

\* Replacing the call on top of the stack.
LEMMA SetTopType ==
    ASSUME IInv, stack # <<>>, NEW frame \in Call, SetTop(frame)
    PROVE  /\ stack' \in Seq(Call) /\ Len(stack') = Len(stack)
           /\ \A i \in 1..Len(stack) : stack'[i] = IF i = Len(stack) THEN frame ELSE stack[i]
<1>1. stack \in Seq(Call)
  BY DEF IInv, TypeOK
<1>2. stack' = [stack EXCEPT ![Len(stack)] = frame]
  BY DEF SetTop
<1> QED
  BY <1>1, <1>2

LEMMA VisitTargetInv == IInv /\ VisitTarget => IInv'
<1> SUFFICES ASSUME IInv, VisitTarget
             PROVE  IInv'
  OBVIOUS
<1> DEFINE n == Len(stack)
<1>1. PICK q \in top.todo :
            RecComplement(q, [stack EXCEPT ![Len(stack)].todo = @ \ {q}])
  BY DEF VisitTarget
<1>2. /\ pc = "rec" /\ UNCHANGED <<original, falseacc, rootTodo, pc>> /\ stack # <<>>
  BY DEF VisitTarget, InCall
<1>3. n \in 1..n /\ top \in Call /\ q \in OldState
  BY <1>2, TopType
<1> DEFINE frame == [top EXCEPT !.todo = @ \ {q}]
           frames == [stack EXCEPT ![n] = frame]
<1>4. frame = [st |-> top.st, syms |-> top.syms, cur |-> top.cur, todo |-> top.todo \ {q}]
      /\ frame \in Call
  <2>1. top \in Call /\ top.todo \ {q} \subseteq OldState
    BY <1>2, TopType
  <2>2. frame = [st |-> top.st, syms |-> top.syms, cur |-> top.cur, todo |-> top.todo \ {q}]
    BY <2>1, ReplaceFields
  <2> HIDE DEF frame
  <2>3. QED
    BY <2>1, <2>2 DEF Call
<1>5. stack \in Seq(Call)
  BY DEF IInv, TypeOK
<1>6. frames = [stack EXCEPT ![Len(stack)].todo = @ \ {q}]
  BY DEF top
<1>7. SameBut(frames, q)
  <2>1. frames \in Seq(Call) /\ Len(frames) = n
        /\ \A i \in 1..n : frames[i] = IF i = n THEN frame ELSE stack[i]
    BY <1>3, <1>4, <1>5
  <2>2. stack[n] = top
    BY DEF top
  <2>3. frame.st = top.st /\ frame.syms = top.syms /\ frame.cur = top.cur
        /\ frame.todo = top.todo \ {q}
    BY <1>4
  <2> HIDE DEF frame, frames
  <2>4. \A i \in 1..n :
          /\ frames[i].st = stack[i].st
          /\ frames[i].syms = stack[i].syms
          /\ frames[i].cur = stack[i].cur
          /\ stack[i].todo \subseteq frames[i].todo \cup {q}
    BY <2>1, <2>2, <2>3
  <2> QED
    BY <2>1, <2>4 DEF SameBut
<1> HIDE DEF frames
<1>8. RecComplement(q, frames)
  BY <1>1, <1>6
<1> QED
  BY <1>2, <1>3, <1>7, <1>8, RecComplementInv

LEMMA NextSymbolInv == IInv /\ NextSymbol => IInv'
<1> SUFFICES ASSUME IInv, NextSymbol
             PROVE  IInv'
  OBVIOUS
<1> DEFINE n == Len(stack)
<1>1. /\ pc = "rec" /\ stack # <<>> /\ top.cur = {}
      /\ UNCHANGED <<original, falseacc, afa, mapseenset, rootTodo, pc>>
  BY DEF NextSymbol, InCall
<1> DEFINE frame(s) == [top EXCEPT !.syms = @ \ {s}, !.cur = {s},
                                   !.todo = UNION afa.mTransitions[<<top.st, s>>]]
<1>2. PICK sym \in top.syms : SetTop(frame(sym))
  BY DEF NextSymbol
<1>3. n \in 1..n /\ top \in Call /\ top.st \in OldState /\ top.st \in AFAState /\ sym \in mAllSyms
      /\ top.syms \subseteq mAllSyms
  BY <1>1, TopType
<1>4. top = stack[n] /\ original \in Automata
  BY DEF top, IInv, TypeOK
<1> DEFINE targets == UNION original.mTransitions[<<top.st, sym>>]
<1>5. afa.mTransitions[<<top.st, sym>>] = original.mTransitions[<<top.st, sym>>]
  <2>1. Pending(top.st, sym)
    BY <1>3, <1>4 DEF Pending
  <2> QED
    BY <1>3, <2>1 DEF IInv, NegatedOnce
<1>6. targets \subseteq OldState
  BY <1>3, <1>4, OriginalType
<1>7. frame(sym) = [st |-> top.st, syms |-> top.syms \ {sym}, cur |-> {sym}, todo |-> targets]
  <2>1. frame(sym) = [top EXCEPT !.syms = top.syms \ {sym}, !.cur = {sym}, !.todo = targets]
    BY <1>5
  <2> HIDE DEF frame, targets
  <2> QED
    BY <1>3, <2>1, ReplaceFields
<1> HIDE DEF targets, frame
<1>8. frame(sym) \in Call
  BY <1>3, <1>6, <1>7 DEF Call
<1>9. /\ frame(sym).st = top.st /\ frame(sym).syms = top.syms \ {sym}
      /\ frame(sym).cur = {sym} /\ frame(sym).todo = targets
  BY <1>7
<1>10. /\ stack' \in Seq(Call) /\ Len(stack') = n
       /\ \A i \in 1..n : stack'[i] = IF i = n THEN frame(sym) ELSE stack[i]
  BY <1>1, <1>2, <1>8, SetTopType
<1>11. \A i \in 1..n : /\ stack'[i].st = stack[i].st
                       /\ stack'[i].syms \cup stack'[i].cur = stack[i].syms \cup stack[i].cur
  BY <1>1, <1>4, <1>9, <1>10
<1>12. \A p, s : Pending(p, s)' <=> Pending(p, s)
  BY <1>10, <1>11 DEF Pending
<1>13. /\ Roots' = Roots /\ FalseStates(original)' = FalseStates(original)
       /\ \A D : Negated(D)' = Negated(D)
  BY <1>1 DEF Roots, FalseStates, Negated
<1>14. TypeOK'
  BY <1>1, <1>10, <1>11 DEF IInv, TypeOK
<1>15. NegatedOnce'
  BY <1>1, <1>12, <1>13 DEF IInv, NegatedOnce
<1>16. Frames'
  BY <1>9, <1>10, <1>11 DEF IInv, Frames
<1>17. TargetsVisited'
  <2> SUFFICES ASSUME NEW p \in mapseenset, NEW s \in mAllSyms,
                      NEW m \in UNION original.mTransitions[<<p, s>>], m \notin mapseenset
               PROVE  \E i \in 1..n :
                          /\ stack'[i].st = p
                          /\ \/ s \in stack'[i].syms
                             \/ s \in stack'[i].cur /\ m \in stack'[i].todo
    BY <1>1, <1>10 DEF TargetsVisited
  <2>1. PICK i \in 1..n : /\ stack[i].st = p
                          /\ s \in stack[i].syms \/ (s \in stack[i].cur /\ m \in stack[i].todo)
    BY DEF IInv, TargetsVisited
  <2>2. CASE i = n /\ s = sym
    <3>1. m \in targets /\ s \in stack'[n].cur /\ m \in stack'[n].todo
      BY <1>4, <1>9, <1>10, <2>1, <2>2 DEF targets
    <3> QED
      BY <1>11, <2>1, <2>2, <3>1
  <2>3. CASE i = n /\ s # sym
    <3>1. s \in stack'[n].syms
      BY <1>1, <1>3, <1>4, <1>9, <1>10, <2>1, <2>3
    <3> QED
      BY <1>11, <2>1, <2>3, <3>1
  <2>4. CASE i # n
    BY <1>10, <2>1, <2>4
  <2> QED
    BY <2>2, <2>3, <2>4
<1>18. ErrorStateAdded' /\ InitialState'
  BY <1>1, <1>13 DEF IInv, ErrorStateAdded, InitialState
<1> QED
  BY <1>14, <1>15, <1>16, <1>17, <1>18 DEF IInv

LEMMA ReplaceTransitionsInv == IInv /\ ReplaceTransitions => IInv'
<1> SUFFICES ASSUME IInv, ReplaceTransitions
             PROVE  IInv'
  OBVIOUS
<1> DEFINE n == Len(stack)
           frame == [top EXCEPT !.cur = {}]
<1>1. /\ pc = "rec" /\ stack # <<>> /\ top.todo = {}
      /\ UNCHANGED <<original, falseacc, mapseenset, rootTodo, pc>>
  BY DEF ReplaceTransitions, InCall
<1>2. PICK sym \in top.cur :
          /\ afa' = [afa EXCEPT !.mTransitions[<<top.st, sym>>] = Negated(@)]
          /\ SetTop(frame)
  BY DEF ReplaceTransitions
<1>3. n \in 1..n /\ top \in Call /\ top.st \in OldState /\ top.st \in AFAState /\ sym \in mAllSyms
  BY <1>1, TopType
<1>4. top = stack[n] /\ original \in Automata /\ afa \in Automaton
  BY DEF top, IInv, TypeOK
<1>5. top.cur = {sym} /\ sym \notin top.syms
  BY <1>3, <1>4 DEF IInv, Frames
<1>6. afa.mTransitions[<<top.st, sym>>] = original.mTransitions[<<top.st, sym>>]
  <2>1. Pending(top.st, sym)
    BY <1>3, <1>4 DEF Pending
  <2> QED
    BY <1>3, <2>1 DEF IInv, NegatedOnce
<1> DEFINE D == Negated(original.mTransitions[<<top.st, sym>>])
<1>7. D \in SUBSET SUBSET AFAState
  BY <1>3, <1>4, OriginalType, NegatedType
<1>8. afa' = Replaced(afa, top.st, sym, D)
  BY <1>2, <1>6 DEF Replaced
<1> HIDE DEF D
<1>9. /\ afa' \in Automaton
      /\ afa'.mInit = afa.mInit /\ afa'.lit = afa.lit /\ afa'.zero = afa.zero
      /\ afa'.mIsAccepted = afa.mIsAccepted
      /\ \A p \in AFAState, s \in mAllSyms :
            afa'.mTransitions[<<p, s>>] =
               IF p = top.st /\ s = sym THEN D ELSE afa.mTransitions[<<p, s>>]
  BY <1>3, <1>4, <1>7, <1>8, ReplaceOne
<1>10. frame = [st |-> top.st, syms |-> top.syms, cur |-> {}, todo |-> top.todo] /\ frame \in Call
  <2>1. frame = [st |-> top.st, syms |-> top.syms, cur |-> {}, todo |-> top.todo]
    BY <1>3, ReplaceFields
  <2> HIDE DEF frame
  <2> QED
    BY <1>3, <2>1 DEF Call
<1> HIDE DEF frame
<1>11. /\ stack' \in Seq(Call) /\ Len(stack') = n
       /\ \A i \in 1..n : stack'[i] = IF i = n THEN frame ELSE stack[i]
  BY <1>1, <1>2, <1>10, SetTopType
<1>12. frame.st = top.st /\ frame.syms = top.syms /\ frame.cur = {} /\ frame.todo = top.todo
  BY <1>10
<1>13. \A i \in 1..n : stack'[i].st = stack[i].st /\ stack'[i].syms = stack[i].syms
  BY <1>4, <1>11, <1>12
<1>14. \A p, s : Pending(p, s)' <=> (Pending(p, s) /\ ~(p = top.st /\ s = sym))
  <2> SUFFICES ASSUME NEW p, NEW s
               PROVE  Pending(p, s)' <=> (Pending(p, s) /\ ~(p = top.st /\ s = sym))
    OBVIOUS
  <2>1. Pending(p, s)' <=>
            \E i \in 1..n : stack'[i].st = p /\ s \in stack'[i].syms \cup stack'[i].cur
    BY <1>11 DEF Pending
  <2>2. Pending(p, s) <=>
            \E i \in 1..n : stack[i].st = p /\ s \in stack[i].syms \cup stack[i].cur
    BY DEF Pending
  <2>3. ASSUME Pending(p, s)'
        PROVE  Pending(p, s) /\ ~(p = top.st /\ s = sym)
    <3>1. PICK i \in 1..n : stack'[i].st = p /\ s \in stack'[i].syms \cup stack'[i].cur
      BY <2>1, <2>3
    <3>2. CASE i = n
      BY <1>4, <1>5, <1>11, <1>12, <2>2, <3>1, <3>2
    <3>3. CASE i # n
      <4>1. stack[i].st # top.st
        BY <1>3, <1>4, <3>3 DEF IInv, Frames
      <4> QED
        BY <1>11, <2>2, <3>1, <3>3, <4>1
    <3> QED
      BY <3>2, <3>3
  <2>4. ASSUME Pending(p, s), ~(p = top.st /\ s = sym)
        PROVE  Pending(p, s)'
    <3>1. PICK i \in 1..n : stack[i].st = p /\ s \in stack[i].syms \cup stack[i].cur
      BY <2>2, <2>4
    <3>2. CASE i = n
      <4>1. s \in top.syms
        BY <1>4, <1>5, <2>4, <3>1, <3>2
      <4> QED
        BY <1>4, <1>13, <2>1, <3>1, <3>2, <4>1
    <3>3. CASE i # n
      BY <1>11, <2>1, <3>1, <3>3
    <3> QED
      BY <3>2, <3>3
  <2> QED
    BY <2>3, <2>4
<1>15. /\ Roots' = Roots /\ FalseStates(original)' = FalseStates(original)
       /\ \A E : Negated(E)' = Negated(E)
  BY <1>1 DEF Roots, FalseStates, Negated
<1>16. TypeOK'
  BY <1>1, <1>9, <1>11, <1>13 DEF IInv, TypeOK
<1>17. NegatedOnce'
  <2> SUFFICES ASSUME NEW p \in OldState
               PROVE  /\ p \in afa.mIsAccepted <=> (p \in mapseenset <=> p \notin original.mIsAccepted)
                      /\ \A s \in mAllSyms :
                            afa'.mTransitions[<<p, s>>] =
                               IF p \in mapseenset /\ ~Pending(p, s)'
                               THEN Negated(original.mTransitions[<<p, s>>])
                               ELSE original.mTransitions[<<p, s>>]
    BY <1>1, <1>9, <1>15 DEF NegatedOnce
  <2>1. p \in AFAState
    BY DEF OldState
  <2>2. p \in afa.mIsAccepted <=> (p \in mapseenset <=> p \notin original.mIsAccepted)
    BY DEF IInv, NegatedOnce
  <2>3. ASSUME NEW s \in mAllSyms
        PROVE  afa'.mTransitions[<<p, s>>] =
                   IF p \in mapseenset /\ ~Pending(p, s)'
                   THEN Negated(original.mTransitions[<<p, s>>])
                   ELSE original.mTransitions[<<p, s>>]
    <3>1. CASE p = top.st /\ s = sym
      <4>1. p \in mapseenset
        BY <1>3, <1>4, <3>1 DEF IInv, TypeOK
      <4> QED
        BY <1>9, <1>14, <2>1, <3>1, <4>1 DEF D
    <3>2. CASE ~(p = top.st /\ s = sym)
      BY <1>9, <1>14, <2>1, <3>2 DEF IInv, NegatedOnce
    <3> QED
      BY <3>1, <3>2
  <2> QED
    BY <2>2, <2>3
<1>18. Frames'
  BY <1>11, <1>12, <1>13 DEF IInv, Frames
<1>19. TargetsVisited'
  <2> SUFFICES ASSUME NEW p \in mapseenset, NEW s \in mAllSyms,
                      NEW m \in UNION original.mTransitions[<<p, s>>], m \notin mapseenset
               PROVE  \E i \in 1..n :
                          /\ stack'[i].st = p
                          /\ \/ s \in stack'[i].syms
                             \/ s \in stack'[i].cur /\ m \in stack'[i].todo
    BY <1>1, <1>11 DEF TargetsVisited
  <2>1. PICK i \in 1..n : /\ stack[i].st = p
                          /\ s \in stack[i].syms \/ (s \in stack[i].cur /\ m \in stack[i].todo)
    BY DEF IInv, TargetsVisited
  <2>2. i = n => s \in stack[i].syms
    BY <1>1, <1>4, <2>1
  <2> QED
    BY <1>11, <1>13, <2>1, <2>2
<1>20. ErrorStateAdded'
  <2>1. ErrorState \in AFAState /\ ErrorState # top.st
    BY <1>3, AutomataAssumption DEF OldState
  <2> QED
    BY <1>1, <1>9, <2>1 DEF IInv, ErrorStateAdded
<1>21. InitialState'
  BY <1>1, <1>9, <1>15 DEF IInv, InitialState
<1> QED
  BY <1>16, <1>17, <1>18, <1>19, <1>20, <1>21 DEF IInv

LEMMA ReturnFromRecInv == IInv /\ ReturnFromRec => IInv'
<1> SUFFICES ASSUME IInv, ReturnFromRec
             PROVE  IInv'
  OBVIOUS
<1> DEFINE n == Len(stack)
<1>1. /\ pc = "rec" /\ stack # <<>> /\ top.syms = {} /\ top.cur = {}
      /\ UNCHANGED <<original, falseacc, afa, mapseenset, rootTodo, pc>>
      /\ stack' = SubSeq(stack, 1, n - 1)
  BY DEF ReturnFromRec, InCall
<1>2. n \in Nat \ {0} /\ stack \in Seq(Call) /\ top = stack[n]
  BY <1>1, TopType DEF top, IInv, TypeOK
<1>3. /\ stack' \in Seq(Call) /\ Len(stack') = n - 1
      /\ \A i \in 1..(n-1) : i \in 1..n /\ stack'[i] = stack[i]
  <2>1. stack' = [i \in 1..(n-1) |-> stack[i]]
    BY <1>1, <1>2
  <2>2. \A i \in 1..(n-1) : i \in 1..n /\ stack[i] \in Call
    BY <1>2
  <2> QED
    BY <1>2, <2>1, <2>2
<1>4. \A i \in 1..n : i \in 1..(n-1) \/ i = n
  BY <1>2
<1> HIDE DEF n
<1>5. \A p, s : Pending(p, s)' <=> Pending(p, s)
  BY <1>1, <1>2, <1>3, <1>4 DEF Pending, n
<1>6. /\ Roots' = Roots /\ FalseStates(original)' = FalseStates(original)
      /\ \A D : Negated(D)' = Negated(D)
  BY <1>1 DEF Roots, FalseStates, Negated
<1>7. TypeOK'
  BY <1>1, <1>3 DEF IInv, TypeOK, n
<1>8. NegatedOnce'
  BY <1>1, <1>5, <1>6 DEF IInv, NegatedOnce
<1>9. Frames'
  BY <1>3 DEF IInv, Frames, n
<1>10. TargetsVisited'
  <2> SUFFICES ASSUME NEW p \in mapseenset, NEW s \in mAllSyms,
                      NEW m \in UNION original.mTransitions[<<p, s>>], m \notin mapseenset
               PROVE  \E i \in 1..(n-1) :
                          /\ stack'[i].st = p
                          /\ \/ s \in stack'[i].syms
                             \/ s \in stack'[i].cur /\ m \in stack'[i].todo
    BY <1>1, <1>3 DEF TargetsVisited
  <2>1. PICK i \in 1..n : /\ stack[i].st = p
                          /\ s \in stack[i].syms \/ (s \in stack[i].cur /\ m \in stack[i].todo)
    BY DEF IInv, TargetsVisited, n
  <2>2. i # n
    BY <1>1, <1>2, <2>1
  <2> QED
    BY <1>3, <1>4, <2>1, <2>2
<1>11. ErrorStateAdded' /\ InitialState'
  BY <1>1, <1>6 DEF IInv, ErrorStateAdded, InitialState
<1> QED
  BY <1>7, <1>8, <1>9, <1>10, <1>11 DEF IInv

LEMMA FinishInv == IInv /\ Finish => IInv'
<1> SUFFICES ASSUME IInv, Finish
             PROVE  IInv'
  OBVIOUS
<1>1. /\ pc = "rec" /\ pc' = "done" /\ stack = <<>> /\ rootTodo = {}
      /\ UNCHANGED <<original, falseacc, mapseenset, rootTodo, stack>>
      /\ afa' = IF afa.lit THEN afa ELSE [afa EXCEPT !.zero = Choices(@)]
  BY DEF Finish
<1>2. afa \in Automaton /\ original \in Automata /\ afa.lit = original.lit /\ afa.lit \in BOOLEAN
      /\ afa.zero = original.zero
  BY <1>1 DEF IInv, TypeOK, InitialState, Automaton
<1>3. Choices(original.zero) \in SUBSET SUBSET AFAState
  <2>1. UNION original.zero \subseteq OldState
    BY <1>2, OriginalType
  <2> QED
    BY <2>1, ChoicesParts DEF OldState
<1>4. /\ afa' \in Automaton
      /\ afa'.mInit = afa.mInit /\ afa'.lit = afa.lit
      /\ afa'.zero = IF original.lit THEN original.zero ELSE Choices(original.zero)
      /\ afa'.mIsAccepted = afa.mIsAccepted /\ afa'.mTransitions = afa.mTransitions
  <2>1. CASE afa.lit
    BY <1>1, <1>2, <2>1
  <2>2. CASE ~afa.lit
    <3>1. afa' = [afa EXCEPT !.zero = Choices(original.zero)]
      BY <1>1, <1>2, <2>2 DEF Automaton
    <3> QED
      BY <1>2, <1>3, <2>2, <3>1 DEF Automaton
  <2> QED
    BY <2>1, <2>2
<1>5. /\ Roots' = Roots /\ FalseStates(original)' = FalseStates(original)
      /\ \A D : Negated(D)' = Negated(D)
      /\ Choices(original.zero)' = Choices(original.zero)
      /\ \A p, s : Pending(p, s)' <=> Pending(p, s)
  BY <1>1 DEF Roots, FalseStates, Negated, Pending
<1>6. TypeOK'
  BY <1>1, <1>4 DEF IInv, TypeOK
<1>7. NegatedOnce'
  BY <1>1, <1>4, <1>5 DEF IInv, NegatedOnce
<1>8. Frames' /\ TargetsVisited'
  BY <1>1 DEF IInv, Frames, TargetsVisited
<1>9. ErrorStateAdded'
  BY <1>1, <1>4 DEF IInv, ErrorStateAdded
<1>10. InitialState'
  BY <1>1, <1>2, <1>4, <1>5 DEF IInv, InitialState
<1> QED
  BY <1>6, <1>7, <1>8, <1>9, <1>10 DEF IInv

LEMMA StutterInv == IInv /\ UNCHANGED vars => IInv'
<1> SUFFICES ASSUME IInv, UNCHANGED vars
             PROVE  IInv'
  OBVIOUS
<1>1. /\ Roots' = Roots /\ FalseStates(original)' = FalseStates(original)
      /\ \A D : Negated(D)' = Negated(D)
      /\ \A p, s : Pending(p, s)' <=> Pending(p, s)
  BY DEF vars, Roots, FalseStates, Negated, Pending
<1>2. TypeOK' /\ Frames' /\ TargetsVisited' /\ ErrorStateAdded'
  BY DEF vars, IInv, TypeOK, Frames, TargetsVisited, ErrorStateAdded
<1>3. NegatedOnce'
  BY <1>1 DEF vars, IInv, NegatedOnce
<1>4. InitialState'
  BY <1>1 DEF vars, IInv, InitialState
<1> QED
  BY <1>2, <1>3, <1>4 DEF IInv

LEMMA Inductive == Spec => []IInv
<1>1. Init => IInv
  BY InitInv
<1>2. IInv /\ [Next]_vars => IInv'
  BY AddErrorStateInv, VisitRootInv, NextSymbolInv, VisitTargetInv, ReplaceTransitionsInv,
     ReturnFromRecInv, FinishInv, StutterInv DEF Next, ComplementNext, Returned
<1> QED
  BY <1>1, <1>2, PTL DEF Spec

-----------------------------------------------------------------------------
\* The automaton stays one, and RecComplement is entered for its old states
\* only (AFAut.cpp:266-396).
THEOREM TypeCorrect == Spec => []TypeOK
<1>1. IInv => TypeOK
  BY DEF IInv
<1> QED
  BY <1>1, Inductive, PTL

\* Every state met is negated exactly once, whatever is shared and whatever
\* cycles there are (AFAut.cpp:329-393).
THEOREM EachNegatedOnce == Spec => []NegatedOnce
<1>1. IInv => NegatedOnce
  BY DEF IInv
<1> QED
  BY <1>1, Inductive, PTL

\* What is known when Complement returns.
LEMMA AtReturn ==
    ASSUME IInv, pc = "done"
    PROVE  /\ original \in Automata /\ afa \in Automaton
           /\ Roots \subseteq mapseenset /\ mapseenset \subseteq OldState
           /\ \A q \in mapseenset, sym \in mAllSyms :
                 /\ UNION original.mTransitions[<<q, sym>>] \subseteq mapseenset
                 /\ afa.mTransitions[<<q, sym>>] = Negated(original.mTransitions[<<q, sym>>])
<1>1. stack = <<>> /\ rootTodo = {} /\ Len(stack) = 0
  BY DEF IInv, InitialState
<1>2. ~\E i \in 1..Len(stack) : TRUE
  BY <1>1
<1>3. Roots \subseteq mapseenset
  BY <1>1 DEF IInv, InitialState
<1>4. mapseenset \subseteq OldState /\ original \in Automata /\ afa \in Automaton
  BY DEF IInv, TypeOK
<1>5. ASSUME NEW q \in mapseenset, NEW sym \in mAllSyms
      PROVE  /\ UNION original.mTransitions[<<q, sym>>] \subseteq mapseenset
             /\ afa.mTransitions[<<q, sym>>] = Negated(original.mTransitions[<<q, sym>>])
  <2>1. UNION original.mTransitions[<<q, sym>>] \subseteq mapseenset
    BY <1>2 DEF IInv, TargetsVisited
  <2>2. ~Pending(q, sym)
    BY <1>2 DEF Pending
  <2> QED
    BY <1>4, <2>1, <2>2 DEF IInv, NegatedOnce
<1> QED
  BY <1>3, <1>4, <1>5

\* The result cannot reach a state that keeps its old meaning
\* (AFAut.cpp:313, 367).
THEOREM AllReachableNegated == Spec => []NoneLeftOut
<1>1. IInv => NoneLeftOut
  <2> SUFFICES ASSUME IInv, pc = "done"
               PROVE  /\ IF afa.lit THEN afa.mInit \in mapseenset
                                    ELSE UNION afa.zero \subseteq mapseenset
                      /\ \A q \in mapseenset, sym \in mAllSyms :
                            UNION afa.mTransitions[<<q, sym>>]
                                \subseteq mapseenset \cup {ErrorState}
    BY DEF NoneLeftOut
  <2>1. /\ afa.mInit = original.mInit /\ afa.lit = original.lit
        /\ afa.zero = IF ~original.lit THEN Choices(original.zero) ELSE original.zero
    BY DEF IInv, InitialState
  <2>2. Roots \subseteq mapseenset
    BY AtReturn
  <2>3. IF afa.lit THEN afa.mInit \in mapseenset ELSE UNION afa.zero \subseteq mapseenset
    <3>1. CASE original.lit
      <4>1. original.mInit \in mapseenset
        BY <2>2, <3>1 DEF Roots
      <4> QED
        BY <2>1, <3>1, <4>1
    <3>2. CASE ~original.lit
      <4>1. UNION original.zero \subseteq mapseenset
        BY <2>2, <3>2 DEF Roots
      <4>2. UNION Choices(original.zero) \subseteq UNION original.zero
        BY ChoicesParts
      <4>3. afa.zero = Choices(original.zero) /\ ~afa.lit
        BY <2>1, <3>2
      <4> QED
        BY <4>1, <4>2, <4>3
    <3> QED
      BY <3>1, <3>2
  <2>4. ASSUME NEW q \in mapseenset, NEW sym \in mAllSyms
        PROVE  UNION afa.mTransitions[<<q, sym>>] \subseteq mapseenset \cup {ErrorState}
    <3>1. q \in AFAState
      BY AtReturn DEF OldState
    <3>2. original.mTransitions[<<q, sym>>] \in SUBSET SUBSET OldState
      BY <3>1, AtReturn, OriginalType
    <3> QED
      BY <3>2, AtReturn, NegatedType
  <2> QED
    BY <2>3, <2>4
<1> QED
  BY <1>1, Inductive, PTL

-----------------------------------------------------------------------------
(* The language of the result. *)

\* The negated alternatives of q accept if and only if those of q do not,
\* when this holds of the states they lead to.
LEMMA NegatedMeaning ==
    ASSUME NEW D \in SUBSET SUBSET OldState, NEW A, NEW B,
           \A m \in UNION D : m \in B <=> m \notin A,
           ErrorState \in B,
           falseacc \in A \/ falseacc = NULL
    PROVE  (\E T \in Negated(D) : T \subseteq B) <=> ~\E alt \in D : alt \subseteq A
<1>1. CASE D = {}
  BY <1>1 DEF Negated
<1>2. CASE D # {}
  <2>1. Negated(D) = {T \in Choices(D) : falseacc \notin T}
    BY <1>2 DEF Negated
  <2>2. ASSUME NEW T \in Negated(D), T \subseteq B, NEW alt \in D
        PROVE  ~(alt \subseteq A)
    <3>1. alt \cap T # {}
      BY <2>1, <2>2, ChoicesParts
    <3> QED
      BY <2>2, <3>1
  <2>3. ASSUME \A alt \in D : ~(alt \subseteq A)
        PROVE  \E T \in Negated(D) : T \subseteq B
    <3> DEFINE S == (UNION D) \ A
    <3>1. \A alt \in D : alt \cap S # {}
      BY <2>3
    <3>2. PICK T \in Choices(D) : T \subseteq S
      <4> HIDE DEF S
      <4> QED BY <3>1, ChoicesMeet
    <3>3. falseacc \notin T
      <4>1. NULL \notin OldState
        BY AutomataAssumption DEF OldState
      <4> QED
        BY <3>2, <4>1
    <3> QED
      BY <2>1, <3>2, <3>3
  <2> QED
    BY <2>2, <2>3
<1> QED
  BY <1>1, <1>2

\* By induction on the number of symbols left: the result accepts them from a
\* state that was negated if and only if the original automaton does not.
LEMMA StatesComplemented ==
    ASSUME IInv, pc = "done", NEW w \in Seq(mAllSyms), NEW q \in mapseenset
    PROVE  q \in AcceptingAfter(afa, w)[Len(w)] <=> q \notin AcceptingAfter(original, w)[Len(w)]
<1> DEFINE n == Len(w)
           A == AcceptingAfter(original, w)
           B == AcceptingAfter(afa, w)
           P(i) == /\ \A p \in mapseenset : p \in B[i] <=> p \notin A[i]
                   /\ ErrorState \in B[i]
                   /\ falseacc \in A[i] \/ falseacc = NULL
           S == {i \in Nat : i <= n => P(i)}
<1>1. original \in Automaton /\ afa \in Automaton /\ n \in Nat
      /\ mapseenset \subseteq OldState /\ mapseenset \subseteq AFAState
      /\ ErrorState \in AFAState
  BY AtReturn, OriginalType, AutomataAssumption DEF OldState
<1>2. /\ A[0] = original.mIsAccepted
      /\ \A i \in 1..n : A[i] = {p \in AFAState :
             \E alt \in original.mTransitions[<<p, w[n-i+1]>>] : alt \subseteq A[i-1]}
  BY <1>1, AcceptingAfterEquations
<1>3. /\ B[0] = afa.mIsAccepted
      /\ \A i \in 1..n : B[i] = {p \in AFAState :
             \E alt \in afa.mTransitions[<<p, w[n-i+1]>>] : alt \subseteq B[i-1]}
  BY <1>1, AcceptingAfterEquations
<1> HIDE DEF A, B
<1>4. ErrorState \in afa.mIsAccepted
      /\ \A sym \in mAllSyms : afa.mTransitions[<<ErrorState, sym>>] = {{ErrorState}}
  BY DEF IInv, ErrorStateAdded
<1>5. falseacc \in FalseStates(original) \cup {NULL}
  BY DEF IInv, InitialState
<1>6. 0 \in S
  <2>1. \A p \in mapseenset : p \in B[0] <=> p \notin A[0]
    BY <1>1, <1>2, <1>3 DEF IInv, NegatedOnce
  <2>2. falseacc \in A[0] \/ falseacc = NULL
    BY <1>2, <1>5 DEF FalseStates
  <2> QED
    BY <1>3, <1>4, <2>1, <2>2
<1>7. ASSUME NEW i \in Nat, i \in S
      PROVE  i + 1 \in S
  <2>1. SUFFICES ASSUME i + 1 <= n
                 PROVE  P(i + 1)
    OBVIOUS
  <2>2. P(i)
    BY <1>1, <1>7, <2>1
  <2> DEFINE sym == w[n-(i+1)+1]
  <2>3. i + 1 \in 1..n /\ (i + 1) - 1 = i
    BY <1>1, <2>1
  <2>4. sym \in mAllSyms
    <3>1. n-(i+1)+1 \in 1..n
      BY <1>1, <2>3
    <3> QED
      BY <3>1
  <2>5. A[i+1] = {p \in AFAState : \E alt \in original.mTransitions[<<p, sym>>] : alt \subseteq A[i]}
    BY <1>2, <2>3
  <2>6. B[i+1] = {p \in AFAState : \E alt \in afa.mTransitions[<<p, sym>>] : alt \subseteq B[i]}
    BY <1>3, <2>3
  <2> HIDE DEF sym, P
  <2>7. ASSUME NEW p \in mapseenset
        PROVE  p \in B[i+1] <=> p \notin A[i+1]
    <3> DEFINE D == original.mTransitions[<<p, sym>>]
    <3>1. D \in SUBSET SUBSET OldState
      BY <1>1, <2>4, AtReturn, OriginalType
    <3>2. UNION D \subseteq mapseenset /\ afa.mTransitions[<<p, sym>>] = Negated(D)
      BY <2>4, AtReturn
    <3>3. p \in AFAState
      BY <1>1
    <3> HIDE DEF D
    <3>4. (\E T \in Negated(D) : T \subseteq B[i]) <=> ~\E alt \in D : alt \subseteq A[i]
      <4> DEFINE X == A[i]
                 Y == B[i]
      <4>1. /\ \A m \in UNION D : m \in Y <=> m \notin X
            /\ ErrorState \in Y /\ (falseacc \in X \/ falseacc = NULL)
        BY <2>2, <3>2 DEF P
      <4> HIDE DEF X, Y
      <4>2. (\E T \in Negated(D) : T \subseteq Y) <=> ~\E alt \in D : alt \subseteq X
        BY <3>1, <4>1, NegatedMeaning
      <4> QED
        BY <4>2 DEF X, Y
    <3>5. p \in B[i+1] <=> \E T \in Negated(D) : T \subseteq B[i]
      BY <2>6, <3>2, <3>3
    <3>6. p \in A[i+1] <=> \E alt \in D : alt \subseteq A[i]
      BY <2>5, <3>3 DEF D
    <3> QED
      BY <3>4, <3>5, <3>6
  <2>8. ErrorState \in B[i+1]
    <3>1. {ErrorState} \in afa.mTransitions[<<ErrorState, sym>>]
      BY <1>4, <2>4
    <3>2. {ErrorState} \subseteq B[i]
      BY <2>2 DEF P
    <3> QED
      BY <1>1, <2>6, <3>1, <3>2
  <2>9. falseacc \in A[i+1] \/ falseacc = NULL
    <3>1. CASE falseacc = NULL
      BY <3>1
    <3>2. CASE falseacc # NULL
      <4>1. falseacc \in AFAState /\ {falseacc} \in original.mTransitions[<<falseacc, sym>>]
        BY <1>1, <1>5, <2>4, <3>2 DEF FalseStates, Automaton
      <4> QED
        BY <2>2, <2>5, <3>2, <4>1 DEF P
    <3> QED
      BY <3>1, <3>2
  <2> QED
    BY <2>7, <2>8, <2>9 DEF P
<1>8. Nat \subseteq S
  <2> HIDE DEF S
  <2> QED BY <1>6, <1>7, NatSetInduction
<1>9. P(n)
  BY <1>1, <1>8
<1> QED
  BY <1>9 DEF A, B

\* "Complement this AFA" (AFAut.cpp:264): when it returns, the automaton
\* accepts exactly the words the original one rejects.
THEOREM ComplementsLanguage == Spec => []LanguageComplemented
<1>1. IInv => LanguageComplemented
  <2> SUFFICES ASSUME IInv, pc = "done", NEW w \in Words
               PROVE  AutomatonAccepts(afa, w) <=> ~AutomatonAccepts(original, w)
    BY DEF LanguageComplemented
  <2> DEFINE A == AcceptingAfter(original, w)[Len(w)]
             B == AcceptingAfter(afa, w)[Len(w)]
  <2>1. w \in Seq(mAllSyms)
    BY AutomataAssumption
  <2>2. \A q \in mapseenset : q \in B <=> q \notin A
    BY <2>1, StatesComplemented
  <2> HIDE DEF A, B
  <2>3. /\ afa.mInit = original.mInit /\ afa.lit = original.lit
        /\ afa.zero = IF ~original.lit THEN Choices(original.zero) ELSE original.zero
    BY DEF IInv, InitialState
  <2>4. Roots \subseteq mapseenset
    BY AtReturn
  <2>5. CASE original.lit
    <3>1. original.mInit \in B <=> original.mInit \notin A
      BY <2>2, <2>4, <2>5 DEF Roots
    <3> QED
      BY <2>3, <2>5, <3>1 DEF AutomatonAccepts, A, B
  <2>6. CASE ~original.lit
    <3>1. (\E T \in Choices(original.zero) : T \subseteq B)
             <=> \A alt \in original.zero : alt \cap B # {}
      BY ChoicesMeet
    <3>2. \A alt \in original.zero : alt \cap B # {} <=> ~(alt \subseteq A)
      BY <2>2, <2>4, <2>6 DEF Roots
    <3>3. (\E T \in afa.zero : T \subseteq B) <=> ~\E alt \in original.zero : alt \subseteq A
      BY <2>3, <2>6, <3>1, <3>2
    <3> QED
      BY <2>3, <2>6, <3>3 DEF AutomatonAccepts, A, B
  <2> QED
    BY <2>5, <2>6
<1> QED
  BY <1>1, Inductive, PTL
=============================================================================
