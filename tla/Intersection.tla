---------------------------- MODULE Intersection ----------------------------
(***************************************************************************)
(* AFAut::Intersection: the product of the traces that are still to be     *)
(* checked (a nondeterministic automaton, rGen) and of the complemented    *)
(* proof automaton (an alternating one).  A state of the product is a      *)
(* tuple of a state of rGen and of a set of automaton states, all of which *)
(* must accept the rest of the trace; seenmap gives every tuple a state of *)
(* the result rRes, and is represented by its domain.                      *)
(***************************************************************************)
EXTENDS Alternating

CONSTANTS
    Generators,     \* the values of rGen
    Automata,       \* the values of the automaton
    Words           \* the words whose acceptance is compared

ASSUME IntersectionAssumption ==
    /\ Generators \subseteq Generator
    /\ Automata \subseteq Automaton
    /\ Words \subseteq Seq(mAllSyms)

VARIABLES
    rGen, afa,
    seenmap,        \* the tuples found so far: the states of rRes
    workset,        \* those whose successors have not been computed
    rInit, rMarked, rTrans,     \* the rest of rRes
    pc

rRes == <<seenmap, rInit, rMarked, rTrans>>
vars == <<rGen, afa, seenmap, workset, rInit, rMarked, rTrans, pc>>

Tuple == GenState \X SUBSET AFAState

-----------------------------------------------------------------------------
\* Faulty: a state without a transition on sym is left out.
GetPresentTransitions(stateset, sym) ==
    LET present == {q \in stateset : afa.mTransitions[<<q, sym>>] # {}}
        alternatives == UNION {afa.mTransitions[<<q, sym>>] : q \in present}
        choices == {c \in [present -> alternatives] :
                       \A q \in present : c[q] \in afa.mTransitions[<<q, sym>>]}
    IN  {UNION {c[q] : q \in present} : c \in choices}

(***************************************************************************)
(* GetConjunctedTransitions: one alternative of each state on sym, joined. *)
(* There is none if some state has no transition on sym, and the empty set *)
(* of states goes to itself.                                               *)
(***************************************************************************)
GetConjunctedTransitions(stateset, sym) ==
    LET alternatives == UNION {afa.mTransitions[<<q, sym>>] : q \in stateset}
        choices == {c \in [stateset -> alternatives] :
                       \A q \in stateset : c[q] \in afa.mTransitions[<<q, sym>>]}
    IN  {UNION {c[q] : q \in stateset} : c \in choices}

InitialTuples ==
    LET sets == IF afa.lit THEN {{afa.mInit}} ELSE afa.zero
    IN  rGen.init \X sets

\* The transitions of rRes out of a tuple.
Successors(t) ==
    UNION {{<<t, d[2], <<d[3], S>>>> : S \in GetConjunctedTransitions(t[2], d[2])} :
              d \in {e \in rGen.trans : e[1] = t[1]}}

Targets(edges) == {e[3] : e \in edges}

IsFinal(t) == t[1] \in rGen.marked /\ t[2] \subseteq afa.mIsAccepted

-----------------------------------------------------------------------------
Init ==
    /\ rGen \in Generators
    /\ afa \in Automata
    /\ seenmap = InitialTuples
    /\ workset = InitialTuples
    /\ rInit = InitialTuples
    /\ rMarked = {}
    /\ rTrans = {}
    /\ pc = "loop"

\* Faulty: the new tuples are not recorded in seenmap.
ProcessUnrecorded ==
    /\ pc = "loop"
    /\ \E t \in workset :
          LET new == Targets(Successors(t)) \ seenmap
          IN  /\ workset' = (workset \ {t}) \cup new
              /\ seenmap' = seenmap
              /\ rMarked' = IF IsFinal(t) THEN rMarked \cup {t} ELSE rMarked
              /\ rTrans' = rTrans \cup Successors(t)
    /\ UNCHANGED <<rGen, afa, rInit, pc>>

\* Faulty: the new tuples are not added to the workset.
ProcessUnqueued ==
    /\ pc = "loop"
    /\ \E t \in workset :
          LET new == Targets(Successors(t)) \ seenmap
          IN  /\ workset' = workset \ {t}
              /\ seenmap' = seenmap \cup new
              /\ rMarked' = IF IsFinal(t) THEN rMarked \cup {t} ELSE rMarked
              /\ rTrans' = rTrans \cup Successors(t)
    /\ UNCHANGED <<rGen, afa, rInit, pc>>

\* Faulty: a tuple is marked whatever the automaton's states say.
ProcessMarkedByGen ==
    /\ pc = "loop"
    /\ \E t \in workset :
          LET new == Targets(Successors(t)) \ seenmap
          IN  /\ workset' = (workset \ {t}) \cup new
              /\ seenmap' = seenmap \cup new
              /\ rMarked' = IF t[1] \in rGen.marked THEN rMarked \cup {t} ELSE rMarked
              /\ rTrans' = rTrans \cup Successors(t)
    /\ UNCHANGED <<rGen, afa, rInit, pc>>

\* Faulty: the processed tuple stays in the workset.
ProcessKept ==
    /\ pc = "loop"
    /\ \E t \in workset :
          LET new == Targets(Successors(t)) \ seenmap
          IN  /\ workset' = workset \cup new
              /\ seenmap' = seenmap \cup new
              /\ rMarked' = IF IsFinal(t) THEN rMarked \cup {t} ELSE rMarked
              /\ rTrans' = rTrans \cup Successors(t)
    /\ UNCHANGED <<rGen, afa, rInit, pc>>

\* One iteration of the loop: any element of the workset may be its first.
Process ==
    /\ pc = "loop"
    /\ \E t \in workset :
          LET new == Targets(Successors(t)) \ seenmap
          IN  /\ workset' = (workset \ {t}) \cup new
              /\ seenmap' = seenmap \cup new
              /\ rMarked' = IF IsFinal(t) THEN rMarked \cup {t} ELSE rMarked
              /\ rTrans' = rTrans \cup Successors(t)
    /\ UNCHANGED <<rGen, afa, rInit, pc>>

\* The states of rRes from which a marked one can be reached: those in every
\* set that holds the marked ones and is closed under predecessors.
CoReachable ==
    {t \in seenmap : \A C \in SUBSET seenmap :
        (rMarked \subseteq C /\ \A e \in rTrans : e[3] \in C => e[1] \in C) => t \in C}

\* rRes.Coaccessible()
Coaccessible ==
    /\ pc = "loop"
    /\ workset = {}
    /\ seenmap' = seenmap \cap CoReachable
    /\ rInit' = rInit \cap CoReachable
    /\ rTrans' = rTrans \cap (CoReachable \X mAllSyms \X CoReachable)
    /\ pc' = "done"
    /\ UNCHANGED <<rGen, afa, workset, rMarked>>

Returned == pc = "done" /\ UNCHANGED vars

Next == Process \/ Coaccessible \/ Returned

Spec == Init /\ [][Next]_vars
FairSpec == Spec /\ WF_vars(Process \/ Coaccessible)

-----------------------------------------------------------------------------
(***************************************************************************)
(* Properties.                                                             *)
(***************************************************************************)
TypeOK ==
    /\ rGen \in Generator
    /\ afa \in Automaton
    /\ seenmap \subseteq Tuple
    /\ workset \subseteq seenmap
    /\ rInit \subseteq seenmap
    /\ rMarked \subseteq seenmap
    /\ rTrans \subseteq seenmap \X mAllSyms \X seenmap
    /\ pc \in {"loop", "done"}

\* "Some serious issue, this element must be present" (AFAut.cpp:718), and
\* what a tuple owes once it has left the workset: all its transitions are
\* there, its targets are known, and it is marked if and only if it is final.
ProcessedComplete ==
    pc = "loop" =>
        /\ workset \subseteq seenmap
        /\ \A t \in seenmap \ workset :
              /\ Successors(t) \subseteq rTrans
              /\ Targets(Successors(t)) \subseteq seenmap
              /\ t \in rMarked <=> IsFinal(t)

\* No tuple, transition or marking is invented: it belongs to the product, and
\* every tuple that is not initial is entered by some transition.
NothingInvented ==
    /\ \A t \in rMarked : IsFinal(t)
    /\ rTrans \subseteq UNION {Successors(t) : t \in seenmap}
    /\ \A t \in seenmap : t \in InitialTuples \/ \E e \in rTrans : e[3] = t

\* The result accepts exactly the words that both automata accept
\* (AFAut.cpp:676-771).
LanguageExact ==
    pc = "done" => \A w \in Words :
        PathAccepts(rInit, rTrans, rMarked, w)
            <=> /\ PathAccepts(rGen.init, rGen.trans, rGen.marked, w)
                /\ AutomatonAccepts(afa, w)

Termination == <>(pc = "done")
=============================================================================
