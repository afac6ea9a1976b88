------------------------------ MODULE PassFour ------------------------------
(***************************************************************************)
(* AFAut::PassFourNew: from the pruned tree of an infeasible trace to the  *)
(* proof automaton, which accepts that trace and others that are           *)
(* infeasible for the same reasons.  The phases are the loops of the code: *)
(* collect the states and the links (PassFourPhaseOne), let the            *)
(* alternatives of AND and OR states lead to literals (PassFourPhaseZero), *)
(* replace the links by these alternatives, merge the literals that have   *)
(* the same formulas, add self loops, and add the valid state to the       *)
(* initial ones.  It starts from the final states of PassTwo.              *)
(*                                                                         *)
(* A state of the automaton stands for the literals that have its AMap and *)
(* its HMap; two simplified HMaps of one meaning are one expression.       *)
(***************************************************************************)
EXTENDS PassTwo, FiniteSets

CONSTANTS
    mRevAssumeLHRHMap       \* the symbol of each assumed condition

ASSUME RevAssumption ==
    /\ DOMAIN mRevAssumeLHRHMap \subseteq Formula
    /\ \A f \in DOMAIN mRevAssumeLHRHMap :
          /\ mRevAssumeLHRHMap[f] \in AssumeSym
          /\ Meaning[f] = mAssumeLHRHMap[mRevAssumeLHRHMap[f]]

VARIABLES
    ORLitStates,    \* the literals in the tree
    toANDLink,      \* the links <<source, symbol, destination>> to be handled
    afa,            \* the automaton
    trueinit,       \* its valid state and its unsatisfiable one, or NULL
    falseaccepted,
    phase

passFourVars == <<ORLitStates, toANDLink, afa, trueinit, falseaccepted, phase>>
allVars == <<vars, passFourVars>>

Aut(Q) == INSTANCE Alternating WITH AFAState <- Q, GenState <- {}

Lit(n) == mType[node[n].amap] = "ORLit"
Class(n) == <<node[n].amap, node[n].hmap>>
Classes == {Class(n) : n \in ORLitStates}

\* The states of the automaton; an initial AND or OR state stays as it is.
States == Classes \cup {Class(1)}

\* mapstatecomparator again: the states of a transition, and whether d is one.
Keys(S) == {Key(node[m]) : m \in S}
Leads(tr, s, d) == tr[1] = s /\ Key(node[d]) \in Keys(tr[2])

-----------------------------------------------------------------------------
(***************************************************************************)
(* The two recursive functions.                                            *)
(***************************************************************************)
\* Faulty: a satisfiable state is recorded too.
AssumeInfoAnyState ==
    LET I[n \in 1..Len(node)] ==
            (IF node[n].amap \in DOMAIN mRevAssumeLHRHMap /\ ~node[n].acc
             THEN {<<mRevAssumeLHRHMap[node[n].amap], n>>} ELSE {})
            \cup UNION {I[m] : m \in ChildrenOf(n)}
    IN  I

\* What PassFourPhaseOne returns: the unsatisfiable states at or below n whose
\* formula is an assumed condition, each with the symbol that assumes it.
AssumeInfo ==
    LET I[n \in 1..Len(node)] ==
            (IF Unsat(n) /\ node[n].amap \in DOMAIN mRevAssumeLHRHMap /\ ~node[n].acc
             THEN {<<mRevAssumeLHRHMap[node[n].amap], n>>} ELSE {})
            \cup UNION {I[m] : m \in ChildrenOf(n)}
    IN  I

\* The edges that lead to an AND or OR state, and those that PassFourPhaseOne
\* adds: reading the symbol of a condition, an unsatisfiable literal may go on
\* with the refutation of that condition.
LinksOf(n) ==
    LET below == UNION {AssumeInfo[m] : m \in ChildrenOf(n)}
    IN  {<<n, tr[1], m>> : tr \in node[n].trans, m \in {c \in ChildrenOf(n) : ~Lit(c)}}
        \cup {<<n, b[1], b[2]>> : b \in {c \in below : Unsat(n) /\ Class(c[2]) # Class(n)}}

\* The ways to choose one of the alternatives of each member of a set.
Choices(alternatives) ==
    {c \in [DOMAIN alternatives -> UNION {alternatives[m] : m \in DOMAIN alternatives}] :
        \A m \in DOMAIN alternatives : c[m] \in alternatives[m]}

\* Faulty: what the alternatives of the members have in common.
CombinedCommon(alternatives) ==
    {{k \in UNION {c[m] : m \in DOMAIN c} : \A m \in DOMAIN c : k \in c[m]} :
        c \in Choices(alternatives)}

\* The cross product of the alternatives of the members of a set.
Combined(alternatives) == {UNION {c[m] : m \in DOMAIN c} : c \in Choices(alternatives)}

\* PassFourPhaseZero: the sets of literals that stand for a state.
Alternatives ==
    LET Z[n \in 1..Len(node)] ==
            IF Lit(n) THEN {{n}}
            ELSE UNION {Combined([m \in tr[2] |-> Z[m]]) : tr \in node[n].trans}
    IN  Z

-----------------------------------------------------------------------------
NoAutomaton ==
    [mInit |-> NULL, lit |-> TRUE, mIsAccepted |-> {}, zero |-> {}, mTransitions |-> <<>>]

InitFour ==
    /\ InitTwo
    /\ ORLitStates = {}
    /\ toANDLink = {}
    /\ afa = NoAutomaton
    /\ trueinit = NULL
    /\ falseaccepted = NULL
    /\ phase = "tree"

Tree == ReachableFrom({1})

\* Deleted states can still be reached: they are read, with any outcome.
ReadDeleted ==
    /\ done /\ phase = "tree"
    /\ Tree \cap freed # {}
    /\ phase' = "undefined"
    /\ UNCHANGED <<vars, ORLitStates, toANDLink, afa, trueinit, falseaccepted>>

PassFourPhaseOne ==
    /\ done /\ phase = "tree"
    /\ Tree \cap freed = {}
    /\ ORLitStates' = {n \in Tree : Lit(n)}
    /\ toANDLink' = UNION {LinksOf(n) : n \in {m \in Tree : Lit(m) /\ ~node[m].acc}}
    /\ phase' = "zero"
    /\ UNCHANGED <<vars, afa, trueinit, falseaccepted>>

PassFourPhaseZero ==
    /\ phase = "zero"
    /\ node' = [n \in DOMAIN node |->
           IF n \in Tree /\ ~Lit(n)
           THEN [node[n] EXCEPT !.trans = {<<Eps, alt>> : alt \in Alternatives[n]}]
           ELSE node[n]]
    /\ phase' = "links"
    /\ UNCHANGED <<word, allStates, stack, pc, passTwoVars,
                   ORLitStates, toANDLink, afa, trueinit, falseaccepted>>

\* An alternative that consists of a state in the class of src is not added.
Linked(src, s, dest) ==
    {tr \in node[src].trans : ~Leads(tr, s, dest)}
    \cup IF Lit(dest) THEN {<<s, {dest}>>}
         ELSE {<<s, tr[2]>> : tr \in {t \in node[dest].trans : \A m \in t[2] :
                                         Cardinality(Keys(t[2])) = 1 => Class(m) # Class(src)}}

\* The links of a literal and a symbol are handled in the order of the
\* addresses of their destinations; those of others do not interfere.
Link ==
    /\ phase = "links"
    /\ toANDLink # {}
    /\ LET first == CHOOSE link \in toANDLink : TRUE
       IN  \E link \in toANDLink :
              /\ <<link[1], link[2]>> = <<first[1], first[2]>>
              /\ IF \E tr \in node[link[1]].trans :
                       Leads(tr, link[2], link[3]) /\ Cardinality(Keys(tr[2])) # 1
                 THEN /\ phase' = "aborted"
                      /\ UNCHANGED <<node, toANDLink>>
                 ELSE /\ node' = [node EXCEPT ![link[1]].trans = Linked(link[1], link[2], link[3])]
                      /\ toANDLink' = toANDLink \ {link}
                      /\ UNCHANGED phase
    /\ UNCHANGED <<word, allStates, stack, pc, passTwoVars,
                   ORLitStates, afa, trueinit, falseaccepted>>

ClassesOf(S) == {Class(m) : m \in S}

EqClasses ==
    /\ phase = "links"
    /\ toANDLink = {}
    /\ afa' = [mInit |-> Class(1),
               lit |-> Lit(1),
               mIsAccepted |-> {Class(n) : n \in {m \in ORLitStates : node[m].acc}},
               zero |-> IF Lit(1) THEN {} ELSE {ClassesOf(tr[2]) : tr \in node[1].trans},
               mTransitions |->
                   [d \in States \X mAllSyms |->
                      {ClassesOf(tr[2]) : tr \in
                          {t \in UNION {node[n].trans : n \in {m \in ORLitStates : Class(m) = d[1]}} :
                              t[1] = d[2]}}]]
    /\ phase' = "loops"
    /\ UNCHANGED <<vars, ORLitStates, toANDLink, trueinit, falseaccepted>>

-----------------------------------------------------------------------------
\* Faulty: no self loops on conditions, unless on all symbols.
LoopsOnInstructions(f) ==
    IF f = TrueExp \/ Meaning[f] = {} THEN mAllSyms
    ELSE {a \in RWSym : mRWLHRHMap[a].lhs \notin FreeVars[f]}
         \cup {a \in CASSym : {mCASLHRHMap[a].ptr, mCASLHRHMap[a].ret} \cap FreeVars[f] = {}}

\* Faulty: the register of a compare-and-swap is not looked at.
LoopsOnRet(f) ==
    IF f = TrueExp \/ Meaning[f] = {} THEN mAllSyms
    ELSE AssumeSym
         \cup {a \in RWSym : mRWLHRHMap[a].lhs \notin FreeVars[f]}
         \cup {a \in CASSym : mCASLHRHMap[a].ptr \notin FreeVars[f]}

\* The symbols on which a state with formula f gets a self loop.
LoopsOn(f) ==
    IF f = TrueExp \/ Meaning[f] = {} THEN mAllSyms
    ELSE AssumeSym
         \cup {a \in RWSym : mRWLHRHMap[a].lhs \notin FreeVars[f]}
         \cup {a \in CASSym : {mCASLHRHMap[a].ptr, mCASLHRHMap[a].ret} \cap FreeVars[f] = {}}

\* The last of several states: they come in the order of their addresses.
LastOf(S) == IF S = {} THEN {NULL} ELSE S

\* Faulty: only on symbols on which there is no transition yet.
SelfLoopsIfAbsent ==
    /\ phase = "loops"
    /\ afa' = [afa EXCEPT !.mTransitions =
           [d \in DOMAIN @ |-> IF @[d] # {} THEN @[d]
               ELSE {{q} : q \in {d[1]} \cap {c \in Classes : d[2] \in LoopsOn(c[1])}}]]
    /\ trueinit' \in LastOf({q \in Classes : q[1] = TrueExp})
    /\ falseaccepted' \in LastOf({q \in Classes : Meaning[q[1]] = {}})
    /\ phase' = "init"
    /\ UNCHANGED <<vars, ORLitStates, toANDLink>>

SelfLoops ==
    /\ phase = "loops"
    /\ afa' = [afa EXCEPT !.mTransitions =
           [d \in DOMAIN @ |-> @[d] \cup {{q} : q \in {d[1]} \cap {c \in Classes : d[2] \in LoopsOn(c[1])}}]]
    /\ trueinit' \in LastOf({q \in Classes : q[1] = TrueExp})
    /\ falseaccepted' \in LastOf({q \in Classes : Meaning[q[1]] = {}})
    /\ phase' = "init"
    /\ UNCHANGED <<vars, ORLitStates, toANDLink>>

\* A new AND state if the initial one is a literal.
TrueInit ==
    /\ phase = "init"
    /\ afa' = IF trueinit = NULL THEN afa
              ELSE [afa EXCEPT !.lit = FALSE,
                               !.zero = {{trueinit}} \cup IF afa.lit THEN {{afa.mInit}} ELSE @]
    /\ phase' = "done"
    /\ UNCHANGED <<vars, ORLitStates, toANDLink, trueinit, falseaccepted>>

PassFourNext ==
    \/ ReadDeleted \/ PassFourPhaseOne \/ PassFourPhaseZero \/ Link
    \/ EqClasses \/ SelfLoops \/ TrueInit

FinishedFour ==
    /\ pc = "Error" \/ phase \in {"undefined", "aborted", "done"}
    /\ UNCHANGED allVars

Earlier == Progress /\ UNCHANGED passFourVars

NextFour ==
    \/ Earlier
    \/ PassFourNext
    \/ FinishedFour

SpecFour == InitFour /\ [][NextFour]_allVars

-----------------------------------------------------------------------------
(***************************************************************************)
(* Properties.                                                             *)
(***************************************************************************)
CONSTANT Others     \* the words whose acceptance is looked at

ASSUME OthersAssumption == Others \subseteq Seq(mAllSyms)

Built == phase = "done"

\* The automaton reads a trace from its last symbol to its first.
Backwards(w) == [i \in 1..Len(w) |-> w[Len(w) - i + 1]]
Accepted(w) == Aut(States)!AutomatonAccepts(afa, Backwards(w))

\* WordPre(w, Len(w), phi), one symbol after the other (TreeProofs).
PreUnder(w, phi) ==
    LET P[i \in 0..Len(w)] == IF i = 0 THEN phi ELSE LET after == P[i-1] IN Pre(w[Len(w)-i+1], after)
    IN  P[Len(w)]

\* Typed, and what Complement assumes of its input (AFAut.cpp:267): no
\* alternative is empty, and the unsatisfiable and the valid state are states.
TypeOKFour ==
    /\ phase \in {"tree", "undefined", "zero", "links", "aborted", "loops", "init", "done"}
    /\ ORLitStates \subseteq 1..Len(node)
    /\ toANDLink \subseteq ORLitStates \X mAllSyms \X (1..Len(node))
    /\ phase \in {"loops", "init", "done"} =>
          /\ afa \in Aut(States)!Automaton
          /\ \A d \in DOMAIN afa.mTransitions : {} \notin afa.mTransitions[d]
    /\ {trueinit, falseaccepted} \subseteq Classes \cup {NULL}

\* A class is annotated as its states were: from the states of its AMap, the
\* trace it accepts can be run backwards only to states of its HMap, although
\* links, merging and self loops let it accept traces it was not built from
\* (PassFourAFA.cpp:66-305).
Annotated ==
    Built => \A w \in Others : \A q \in Aut(States)!AcceptingAfter(afa, Backwards(w))[Len(w)] :
        PreUnder(w, Meaning[q[1]]) \subseteq q[2]

\* "Some serious error as this word must not be accepted by this complemented
\* FA" (SafetyVerificationPass.cpp:97): the automaton accepts the trace it was
\* built from, so that the loop does not check it again.
TraceAccepted == Built => Accepted(word)

\* "Seriour error" (PassFourAFA.cpp:84): a state that a link leads to is not
\* one of several targets of a transition on the same symbol, in whatever
\* order the links of a literal are handled.
LinkedAlone == phase # "aborted"

\* A word that goes on after an accepted one is accepted, so that the traces
\* that remain are closed as those of BuildSCTS are (PassFourAFA.cpp:246-305;
\* what TestBench assumes of a refutation).
GoesOn ==
    Built => \A w \in Others \cup {word} : \A a \in mAllSyms :
        Accepted(w) => Accepted(Append(w, a))

\* "Pass four- adding more edges respecting implications" (AFAut.cpp:247): no
\* feasible trace is accepted.
OnlyInfeasible ==
    Built => \A w \in Others : Accepted(w) => PreUnder(w, Meaning[Post]) = {}
=============================================================================
