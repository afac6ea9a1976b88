------------------------------- MODULE GetWord -------------------------------
(***************************************************************************)
(* SCTransSystem::GetWord: a breadth-first search of the automaton of the  *)
(* traces that are still to be checked, for the next one to be checked.    *)
(* The queue todo holds pairs of a state and the word read on the way to   *)
(* it.  A state enters seenSet only when it is taken off the queue, so it  *)
(* may be queued, and expanded, more than once.                            *)
(*                                                                         *)
(* The sets of the generator are iterated in an order the search does not  *)
(* rely on: the model takes their elements in any order.                   *)
(***************************************************************************)
EXTENDS Integers, Sequences, FiniteSets

CONSTANTS
    Idx,            \* the states of the generator
    Event,          \* its events, the symbols of the program
    Generators,     \* the generators GetWord is called with
    None            \* the answer for an empty language

Generator == [init : SUBSET Idx, marked : SUBSET Idx, trans : SUBSET (Idx \X Event \X Idx)]

ASSUME GeneratorAssumption ==
    /\ IsFiniteSet(Idx)
    /\ IsFiniteSet(Event)
    /\ Generators \subseteq Generator

ASSUME NoneAssumption == None \notin Seq(Event)

VARIABLES
    generator,
    inits,      \* the initial states that are still to be queued
    todo,       \* the queue
    seenSet,
    syms,       \* the word of the state that is being expanded
    edges,      \* its transitions that are still to be looked at
    result      \* the words returned: none while the search goes on

vars == <<generator, inits, todo, seenSet, syms, edges, result>>

TransRel(x) == {tr \in generator.trans : tr[1] = x}

-----------------------------------------------------------------------------
Init ==
    /\ generator \in Generators
    /\ inits = generator.init
    /\ todo = <<>>
    /\ seenSet = {}
    /\ syms = <<>>
    /\ edges = {}
    /\ result = {}

PushInitial ==
    /\ \E x \in inits :
          /\ todo' = Append(todo, <<x, <<>>>>)
          /\ inits' = inits \ {x}
    /\ UNCHANGED <<generator, seenSet, syms, edges, result>>

AtLoopHead == inits = {} /\ edges = {} /\ result = {}

\* A marked state at the front of the queue: return its word.
Found ==
    /\ AtLoopHead
    /\ todo # <<>>
    /\ LET x1 == Head(todo)[1]
       IN  /\ x1 \in generator.marked
           /\ seenSet' = seenSet \cup {x1}
           /\ result' = {Head(todo)[2]}
    /\ UNCHANGED <<generator, inits, todo, syms, edges>>

\* Faulty: the word of the popped state is not taken over.
PopForgetful ==
    /\ AtLoopHead
    /\ todo # <<>>
    /\ LET x1 == Head(todo)[1]
       IN  /\ x1 \notin generator.marked
           /\ seenSet' = seenSet \cup {x1}
           /\ edges' = TransRel(x1)
    /\ todo' = Tail(todo)
    /\ UNCHANGED <<generator, inits, syms, result>>

Pop ==
    /\ AtLoopHead
    /\ todo # <<>>
    /\ LET x1 == Head(todo)[1]
       IN  /\ x1 \notin generator.marked
           /\ seenSet' = seenSet \cup {x1}
           /\ edges' = TransRel(x1)
           /\ syms' = Head(todo)[2]
    /\ todo' = Tail(todo)
    /\ UNCHANGED <<generator, inits, result>>

\* Faulty: the target's event is queued in place of its state.
FollowEdgeMixed ==
    /\ \E tr \in edges :
          /\ edges' = edges \ {tr}
          /\ todo' = IF tr[3] \in seenSet THEN todo
                     ELSE Append(todo, <<tr[2], Append(syms, tr[2])>>)
    /\ UNCHANGED <<generator, inits, seenSet, syms, result>>

\* Faulty: the iterator is not advanced past a target seen before.
FollowEdgeStuck ==
    /\ \E tr \in edges :
          /\ edges' = IF tr[3] \in seenSet THEN edges ELSE edges \ {tr}
          /\ todo' = IF tr[3] \in seenSet THEN todo
                     ELSE Append(todo, <<tr[3], Append(syms, tr[2])>>)
    /\ UNCHANGED <<generator, inits, seenSet, syms, result>>

\* One transition of the popped state; a target seen before is not queued.
FollowEdge ==
    /\ \E tr \in edges :
          /\ edges' = edges \ {tr}
          /\ todo' = IF tr[3] \in seenSet THEN todo
                     ELSE Append(todo, <<tr[3], Append(syms, tr[2])>>)
    /\ UNCHANGED <<generator, inits, seenSet, syms, result>>

\* Faulty: the search gives up after the first state.
NotFoundEarly ==
    /\ AtLoopHead
    /\ todo = <<>> \/ seenSet # {}
    /\ result' = {None}
    /\ UNCHANGED <<generator, inits, todo, seenSet, syms, edges>>

NotFound ==
    /\ AtLoopHead
    /\ todo = <<>>
    /\ result' = {None}
    /\ UNCHANGED <<generator, inits, todo, seenSet, syms, edges>>

GetWordNext == PushInitial \/ Found \/ Pop \/ FollowEdge \/ NotFound

Returned == result # {} /\ UNCHANGED vars

Next == GetWordNext \/ Returned

Spec == Init /\ [][Next]_vars
FairSpec == Spec /\ WF_vars(GetWordNext)

-----------------------------------------------------------------------------
(***************************************************************************)
(* Properties.                                                             *)
(***************************************************************************)
\* The states that some path of g labelled w leads to.
After(g, w) ==
    LET D[i \in 0..Len(w)] ==
            IF i = 0 THEN g.init
            ELSE LET before == D[i-1]
                 IN  {tr[3] : tr \in {t \in g.trans : t[1] \in before /\ t[2] = w[i]}}
    IN  D[Len(w)]

Accepts(g, w) == After(g, w) \cap g.marked # {}

\* The states of g at distance at most n from an initial state.
Within(g, n) ==
    LET R[i \in 0..n] ==
            IF i = 0 THEN g.init
            ELSE LET nearer == R[i-1]
                 IN  nearer \cup {tr[3] : tr \in {t \in g.trans : t[1] \in nearer}}
    IN  R[n]

TypeOK ==
    /\ generator \in Generator
    /\ inits \subseteq Idx
    /\ todo \in Seq(Idx \X Seq(Event))
    /\ seenSet \subseteq Idx
    /\ syms \in Seq(Event)
    /\ edges \in SUBSET (Idx \X Event \X Idx)
    /\ Cardinality(result) <= 1
    /\ \A w \in result : w = None \/ w \in Seq(Event)

\* "breadth first search of the input automaton to find the shortest
\* accepting word" (SCTransSystem.cpp:184): the word is accepted and no state
\* nearer to the initial ones is marked.
Shortest ==
    \A w \in result \ {None} :
        /\ Accepts(generator, w)
        /\ Len(w) > 0 => Within(generator, Len(w) - 1) \cap generator.marked = {}

\* "if reached here without return in between then no word is accepted"
\* (SCTransSystem.cpp:245): None is returned only for an empty language,
\* whatever is dropped because its state has been seen.
NoneIsEmpty == None \in result => Within(generator, Cardinality(Idx)) \cap generator.marked = {}

\* The search ends, although the automaton may have cycles and a state may be
\* queued several times.
Termination == <>(result # {})
=============================================================================
