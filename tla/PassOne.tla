------------------------------- MODULE PassOne -------------------------------
(***************************************************************************)
(* The first pass of MakeAFAutProof (AFAState::PassOne): for a trace and   *)
(* the negated assertion it builds a tree of automaton states.  A state    *)
(* carries a formula (mAMap), the prefix of the trace that is still to be  *)
(* read backwards (mRWord) and, once it is finished, the pre-image of the  *)
(* formula under that prefix (mHMap).  The trace is infeasible when the    *)
(* HMap of the root is unsatisfiable.                                      *)
(*                                                                         *)
(* PassOne is recursive: `stack' is its call stack, and the states get the *)
(* numbers 1, 2, ... in the order in which they are allocated.  A residual *)
(* word is always a prefix of the trace and is represented by its length.  *)
(***************************************************************************)
EXTENDS TraceLogic

CONSTANTS
    Words,      \* the traces MakeAFAutProof is called with
    Post,       \* the negated assertion, mPhi
    (***********************************************************************)
    (* The z3 expressions, and what PassOne asks z3 about them: the shape  *)
    (* of an expression (its top connective), the arguments of a           *)
    (* conjunction or disjunction, the states that satisfy it, and the     *)
    (* variables HelperGetFreeVars finds in it.                            *)
    (***********************************************************************)
    Formula, mType, Args, Meaning, FreeVars,
    TrueExp, FalseExp,
    NULL        \* the null pointer: mHMap before it is computed

ASSUME WordAssumption == Words \subseteq Seq(mAllSyms)

ASSUME FormulaAssumption ==
    /\ Post \in Formula
    /\ mType \in [Formula -> {"AND", "OR", "ORLit"}]
    /\ Args \in [Formula -> SUBSET Formula]
    /\ Meaning \in [Formula -> SUBSET State]
    /\ FreeVars \in [Formula -> SUBSET Var]
    /\ TrueExp \in Formula /\ Meaning[TrueExp] = State
    /\ FalseExp \in Formula /\ Meaning[FalseExp] = {}

ASSUME ShapeAssumption ==
    \A f \in Formula :
        /\ mType[f] # "ORLit" => Args[f] # {}
        /\ mType[f] = "AND" => Meaning[f] = {s \in State : \A g \in Args[f] : s \in Meaning[g]}
        /\ mType[f] = "OR" => Meaning[f] = UNION {Meaning[g] : g \in Args[f]}
        /\ \A v \in Var : v \notin FreeVars[f] => Independent(Meaning[f], v)

ASSUME NullAssumption == \A phi \in SUBSET State : NULL # phi

VARIABLES
    word,       \* the trace, a member of Words
    node,       \* node[n] is the n-th AFAState that was allocated
    allStates,  \* the states in the map allStates: the first one of each key
    stack,      \* the calls of PassOne that have not returned
    pc

passOneVars == <<word, node, allStates, stack, pc>>

Eps == "0"

Node == [amap  : Formula,
         rword : Nat,
         acc   : BOOLEAN,
         hmap  : {NULL} \cup SUBSET State,
         trans : SUBSET ((mAllSyms \cup {Eps}) \X SUBSET Nat)]

\* One call of PassOne: the state it works on, how far the loop over the
\* residual word has come, the arguments it has still to visit, and nextset.
Frame == [st : Nat, pos : Nat, todo : SUBSET Formula, next : SUBSET Nat]

Call(n, nd) ==
    [st |-> n, pos |-> nd.rword,
     todo |-> IF mType[nd.amap] = "ORLit" THEN {} ELSE Args[nd.amap],
     next |-> {}]

NewNode(f, k, acc) ==
    [amap |-> f, rword |-> k, acc |-> acc, hmap |-> NULL, trans |-> {}]

\* mapstatecomparator: two states are the same key of the map allStates.
Key(nd) == <<nd.amap, nd.rword>>

top == stack[Len(stack)]
this == node[top.st]
Running == pc = "PassOne" /\ stack # <<>>

-----------------------------------------------------------------------------
Init ==
    /\ word \in Words
    /\ node = <<NewNode(Post, Len(word), FALSE)>>
    /\ allStates = {1}
    /\ stack = <<Call(1, node[1])>>
    /\ pc = "PassOne"

\* Faulty: the map gets the number of the state that will be allocated next.
RecurseOffByOne(frame, nd) ==
    LET n == Len(node) + 1
    IN  /\ node' = Append(node, nd)
        /\ allStates' = IF \E m \in allStates : m <= Len(node) /\ Key(node[m]) = Key(nd)
                        THEN allStates
                        ELSE allStates \cup {n + 1}
        /\ stack' = Append([stack EXCEPT ![Len(stack)] = [frame EXCEPT !.next = @ \cup {n}]],
                           Call(n, nd))
        /\ UNCHANGED <<word, pc>>

(***************************************************************************)
(* HelperAddStateIfAbsent allocates a state whether or not the key is      *)
(* already present; the map keeps the first state of each key; and PassOne *)
(* is called on the new state.  `frame' is what becomes of the caller.     *)
(***************************************************************************)
Recurse(frame, nd) ==
    LET n == Len(node) + 1
    IN  /\ node' = Append(node, nd)
        /\ allStates' = IF \E m \in allStates : Key(node[m]) = Key(nd)
                        THEN allStates
                        ELSE allStates \cup {n}
        /\ stack' = Append([stack EXCEPT ![Len(stack)] = [frame EXCEPT !.next = @ \cup {n}]],
                           Call(n, nd))
        /\ UNCHANGED <<word, pc>>

Return(nd) ==
    /\ node' = [node EXCEPT ![top.st] = nd]
    /\ stack' = SubSeq(stack, 1, Len(stack) - 1)
    /\ UNCHANGED <<word, allStates, pc>>

\* An AND or OR state: visit the next argument of the formula ...
VisitArg ==
    /\ Running
    /\ mType[this.amap] # "ORLit"
    /\ \E f \in top.todo :
           Recurse([top EXCEPT !.todo = @ \ {f}], NewNode(f, this.rword, FALSE))

HMapsOf(next) == {node[m].hmap : m \in next}

\* ... and join the HMaps of the children once all have been visited.
FinishAnd ==
    /\ Running
    /\ mType[this.amap] = "AND"
    /\ top.todo = {}
    /\ Return([this EXCEPT
           !.hmap = {s \in State : \A h \in HMapsOf(top.next) : s \in h},
           !.trans = {<<Eps, top.next>>}])

FinishOr ==
    /\ Running
    /\ mType[this.amap] = "OR"
    /\ top.todo = {}
    /\ Return([this EXCEPT
           !.hmap = UNION HMapsOf(top.next),
           !.trans = {<<Eps, top.next>>}])

-----------------------------------------------------------------------------
AtLit == Running /\ mType[this.amap] = "ORLit"
Scanning == AtLit /\ ~this.acc /\ top.next = {} /\ top.pos > 0
sym == word[top.pos]

\* An accepted state, an exhausted word, or a word none of whose symbols
\* matters to the formula: the HMap is the formula itself.
Accept ==
    /\ AtLit
    /\ top.next = {}
    /\ this.acc \/ top.pos = 0
    /\ Return([this EXCEPT !.hmap = Meaning[this.amap], !.acc = TRUE])

\* Faulty: the loop over the residual word does not advance.
SkipStuck ==
    /\ Scanning
    /\ sym \in RWSym
    /\ mRWLHRHMap[sym].lhs \notin FreeVars[this.amap]
    /\ UNCHANGED passOneVars

\* A symbol that assigns a variable which is not free in the formula.
Skip ==
    /\ Scanning
    /\ sym \in RWSym
    /\ mRWLHRHMap[sym].lhs \notin FreeVars[this.amap]
    /\ stack' = [stack EXCEPT ![Len(stack)].pos = @ - 1]
    /\ UNCHANGED <<word, node, allStates, pc>>

(***************************************************************************)
(* HelperSimplifyExpr.  Only literals read a symbol, and a literal with a  *)
(* term put in for a variable is a literal; so is every condition that is  *)
(* assumed or compared.  z3's simplifier drops a member it can do without  *)
(* and finds a contradiction, or keeps the conjunction or the disjunction  *)
(* it was given: it does not distribute one over the other.                *)
(***************************************************************************)
Literals(phi) == {f \in Formula : mType[f] = "ORLit" /\ Meaning[f] = phi}

Conjunctions(phi, psi) ==
    {f \in Formula :
        /\ Meaning[f] = phi \cap psi
        /\ \E l1 \in Literals(phi), l2 \in Literals(psi) :
              \/ f \in {l1, l2, FalseExp}
              \/ mType[f] = "AND" /\ Args[f] = {l1, l2}}

Disjunctions(lc1, lc2) ==
    {f \in Formula :
        /\ Meaning[f] = Meaning[lc1] \cup Meaning[lc2]
        /\ \/ f \in {lc1, lc2, TrueExp}
           \/ mType[f] = "OR" /\ Args[f] = {lc1, lc2}}

\* The expressions for the pre-image of a literal that holds in the states of phi.
Substituted(a, phi) ==
    CASE a \in RWSym     -> Literals(PreRW(a, phi))
      [] a \in AssumeSym -> Conjunctions(phi, mAssumeLHRHMap[a])
      [] a \in CASSym    ->
            UNION {Disjunctions(lc1, lc2) :
                      lc1 \in Conjunctions(AfterSuccess(a, phi), Compares(a)),
                      lc2 \in Conjunctions(AfterFailure(a, phi), State \ Compares(a))}

\* HelperIsUnsat and HelperIsValid: a constant takes the place of the expression.
Decided(f) == IF Meaning[f] = {} THEN FalseExp
              ELSE IF Meaning[f] = State THEN TrueExp
              ELSE f

Simplified(a, phi) == {Decided(f) : f \in Substituted(a, phi)}

\* Faulty: a valid formula is accepted although the word is not exhausted.
ProcessSymEager ==
    /\ Scanning
    /\ sym \in RWSym => mRWLHRHMap[sym].lhs \in FreeVars[this.amap]
    /\ \E f \in Simplified(sym, Meaning[this.amap]) :
           Recurse(top, NewNode(f, top.pos - 1, f \in {FalseExp, TrueExp}))

ProcessSym ==
    /\ Scanning
    /\ sym \in RWSym => mRWLHRHMap[sym].lhs \in FreeVars[this.amap]
    /\ \E f \in Simplified(sym, Meaning[this.amap]) :
           Recurse(top, NewNode(f, top.pos - 1, f = FalseExp \/ (f = TrueExp /\ top.pos = 1)))

\* The call for the state after the symbol has returned.
FinishSym ==
    /\ AtLit
    /\ \E m \in top.next :
           Return([this EXCEPT !.hmap = node[m].hmap, !.trans = {<<sym, {m}>>}])

-----------------------------------------------------------------------------
\* MakeAFAutProof, after PassOne: a satisfiable HMap of the root is an error
\* trace, an unsatisfiable one is handed to PassTwo.
CheckRoot ==
    /\ pc = "PassOne"
    /\ stack = <<>>
    /\ pc' = IF node[1].hmap = {} THEN "PassTwo" ELSE "Error"
    /\ UNCHANGED <<word, node, allStates, stack>>

PassOneNext ==
    \/ VisitArg \/ FinishAnd \/ FinishOr
    \/ Accept \/ Skip \/ ProcessSym \/ FinishSym
    \/ CheckRoot

Returned == pc # "PassOne" /\ UNCHANGED passOneVars

Next == PassOneNext \/ Returned

Spec == Init /\ [][Next]_passOneVars
FairSpec == Spec /\ WF_passOneVars(PassOneNext)

-----------------------------------------------------------------------------
(***************************************************************************)
(* Properties.                                                             *)
(***************************************************************************)
TypeOK ==
    /\ word \in Words
    /\ node \in Seq(Node)
    /\ Len(node) > 0
    /\ allStates \in SUBSET (1..Len(node))
    /\ stack \in Seq(Frame)
    /\ pc \in {"PassOne", "PassTwo", "Error"}

\* Whatever symbols are skipped, split or substituted on the way, the HMap of
\* a finished state is the pre-image of its formula under its residual word
\* (AFAState.cpp:249-584).
HMapExact ==
    \A n \in 1..Len(node) :
        node[n].hmap # NULL =>
            node[n].hmap = WordPre(word, node[n].rword, Meaning[node[n].amap])

\* A trace is reported as erroneous exactly when some execution of it ends in
\* a state that violates the assertion (AFAut.cpp:210-215).
VerdictExact ==
    pc # "PassOne" =>
        (pc = "Error" <=> \E r \in Runs(word, Len(word)) : r[Len(word)] \in Meaning[Post])

\* PassOne returns for every trace (the recursion ends).
Termination == <>(pc # "PassOne")
=============================================================================
