---------------------------- MODULE SCTransSystem ----------------------------
(***************************************************************************)
(* SCTransSystem::BuildSCTS: from the graphs of the threads to the         *)
(* automaton of all traces, which reads them from the last symbol to the   *)
(* first.  It starts from the final states of Program.                     *)
(*                                                                         *)
(* A generator is a record of states, initial and marked states and        *)
(* transitions; its events are those of its transitions.  Parallel and     *)
(* Deterministic belong to libfaudes.                                      *)
(***************************************************************************)
EXTENDS Program

VARIABLES
    faudesAutomata,     \* one generator for each thread
    result,             \* the product of the first threads
    composed,           \* the number of these threads
    lGenerator,         \* the reversed automaton
    stage

building == <<faudesAutomata, result, composed, lGenerator, stage>>
scvars == <<module, parsing, building>>

EmptyGenerator == [states |-> {}, init |-> {}, marked |-> {}, trans |-> {}]

Events(g) == {tr[2] : tr \in g.trans}

-----------------------------------------------------------------------------
(***************************************************************************)
(* The steps of the construction.                                          *)
(***************************************************************************)
\* The assertion at the start of CreateFAutomataFaudes.
ShapeRight(adj) == adj.size >= 4 /\ {e \in adj.edges : e[1] = 0} = {<<0, -1, 3>>}

CreateFAutomataFaudes(adj) ==
    [states |-> 0..(adj.size - 1),
     init   |-> {3},
     marked |-> {2},
     trans  |-> {<<e[1], GetLabel(e[2]), e[3]>> : e \in adj.edges}]

\* The transitions from a pair of states: common events together, others alone.
JointMoves(g1, g2, p) ==
    LET common == Events(g1) \cap Events(g2)
    IN  {<<p, t[2], <<t[3], p[2]>>>> : t \in {u \in g1.trans : u[1] = p[1] /\ u[2] \notin common}}
        \cup {<<p, t[2], <<p[1], t[3]>>>> : t \in {u \in g2.trans : u[1] = p[2] /\ u[2] \notin common}}
        \cup {<<p, t[1][2], <<t[1][3], t[2][3]>>>> :
                 t \in {u \in g1.trans \X g2.trans :
                           u[1][1] = p[1] /\ u[2][1] = p[2] /\ u[1][2] = u[2][2]}}

\* faudes::Parallel: the reachable pairs.
Parallel(g1, g2) ==
    LET R[i \in 0..(Cardinality(g1.states) + Cardinality(g2.states))] ==
            IF i = 0 THEN g1.init \X g2.init
            ELSE LET before == R[i-1]
                 IN  before \cup UNION {{tr[3] : tr \in JointMoves(g1, g2, p)} : p \in before}
        reached == R[Cardinality(g1.states) + Cardinality(g2.states)]
    IN  [states |-> reached,
         init   |-> g1.init \X g2.init,
         marked |-> reached \cap (g1.marked \X g2.marked),
         trans  |-> UNION {JointMoves(g1, g2, p) : p \in reached}]

\* Faulty: the states before the assertion are marked.
MarkBeforeAssertions(g) ==
    [g EXCEPT !.marked = {tr[1] : tr \in {t \in g.trans : t[2] \in mAssnMap}}]

\* Only the states that a transition on an assertion leads to are marked.
MarkAssertions(g) ==
    [g EXCEPT !.marked = {tr[3] : tr \in {t \in g.trans : t[2] \in mAssnMap}}]

\* The transitions from a set of states, one for each event.
SetMoves(g, S) ==
    {<<S, tr[2], {t[3] : t \in {u \in g.trans : u[1] \in S /\ u[2] = tr[2]}}>> :
        tr \in {u \in g.trans : u[1] \in S}}

\* faudes::Deterministic: the subset construction.  The graphs have one
\* successor for each symbol, so that there are no more sets than states.
Deterministic(g) ==
    LET R[i \in 0..Cardinality(g.states)] ==
            IF i = 0 THEN {g.init}
            ELSE LET before == R[i-1]
                 IN  before \cup UNION {{tr[3] : tr \in SetMoves(g, S)} : S \in before}
        reached == R[Cardinality(g.states)]
    IN  [states |-> reached,
         init   |-> {g.init},
         marked |-> {S \in reached : S \cap g.marked # {}},
         trans  |-> UNION {SetMoves(g, S) : S \in reached}]

\* Faulty: the transitions keep their direction.
ReverseGeneratorEnds(g) ==
    [states |-> g.states, init |-> g.marked, marked |-> g.init, trans |-> g.trans]

\* Faulty: only the initial and marked states are inserted first.
ReverseGeneratorBare(g) ==
    [states |-> g.init \cup g.marked,
     init   |-> g.marked,
     marked |-> g.init,
     trans  |-> {<<tr[3], tr[2], tr[1]>> : tr \in g.trans}]

\* Every transition turned round, initial and marked states exchanged.
ReverseGenerator(g) ==
    [states |-> g.states,
     init   |-> g.marked,
     marked |-> g.init,
     trans  |-> {<<tr[3], tr[2], tr[1]>> : tr \in g.trans}]

-----------------------------------------------------------------------------
InitSC ==
    /\ Init
    /\ faudesAutomata = <<>>
    /\ result = EmptyGenerator
    /\ composed = 0
    /\ lGenerator = EmptyGenerator
    /\ stage = "threads"

Parse == ParseNext /\ UNCHANGED building

CreateNext ==
    /\ Parsed /\ stage = "threads"
    /\ Len(faudesAutomata) < Len(thread_graphs_)
    /\ LET adj == thread_graphs_[Len(faudesAutomata) + 1]
       IN  IF ShapeRight(adj)
           THEN /\ faudesAutomata' = Append(faudesAutomata, CreateFAutomataFaudes(adj))
                /\ UNCHANGED stage
           ELSE /\ stage' = "aborted"
                /\ UNCHANGED faudesAutomata
    /\ UNCHANGED <<module, parsing, result, composed, lGenerator>>

ComposeNext ==
    /\ Parsed /\ stage = "threads"
    /\ Len(faudesAutomata) = Len(thread_graphs_)
    /\ composed < Len(faudesAutomata)
    /\ result' = IF composed = 0 THEN faudesAutomata[1]
                 ELSE Parallel(result, faudesAutomata[composed + 1])
    /\ composed' = composed + 1
    /\ UNCHANGED <<module, parsing, faudesAutomata, lGenerator, stage>>

\* "No process given as input.. Exiting".
NoProcess ==
    /\ Parsed /\ stage = "threads"
    /\ thread_graphs_ = <<>>
    /\ stage' = "aborted"
    /\ UNCHANGED <<module, parsing, faudesAutomata, result, composed, lGenerator>>

Mark ==
    /\ Parsed /\ stage = "threads"
    /\ composed > 0 /\ composed = Len(thread_graphs_)
    /\ result' = MarkAssertions(result)
    /\ stage' = "marked"
    /\ UNCHANGED <<module, parsing, faudesAutomata, composed, lGenerator>>

Reverse ==
    /\ stage = "marked"
    /\ lGenerator' = ReverseGenerator(Deterministic(result))
    /\ stage' = "done"
    /\ UNCHANGED <<module, parsing, faudesAutomata, result, composed>>

Finished == stage \in {"done", "aborted"} /\ UNCHANGED scvars

NextSC == Parse \/ CreateNext \/ ComposeNext \/ NoProcess \/ Mark \/ Reverse \/ Finished

SpecSC == InitSC /\ [][NextSC]_scvars

-----------------------------------------------------------------------------
(***************************************************************************)
(* Properties.                                                             *)
(***************************************************************************)
CONSTANT MaxLen     \* the longest words that are compared

MaxLenAssumption == MaxLen \in Nat

ASSUME MaxLenAssumption

\* The words of up to MaxLen symbols that the reversed automaton accepts.
ReversedWords(g) ==
    LET P[k \in 0..MaxLen] ==
            IF k = 0 THEN {<<<<>>, S>> : S \in g.init}
            ELSE LET before == P[k-1]
                 IN  before \cup
                     UNION {{<<Append(p[1], tr[2]), tr[3]>> : tr \in {t \in g.trans : t[1] = p[2]}} :
                               p \in {q \in before : Len(q[1]) = k - 1}}
    IN  {p[1] : p \in {q \in P[MaxLen] : q[2] \in g.marked}}

\* The interleavings of the threads of up to MaxLen symbols in which one has
\* passed its assertion, from the last symbol to the first.
Interleavings ==
    LET n == Len(thread_graphs_)
        Moves(p) == UNION {{<<i, e>> : e \in {d \in thread_graphs_[i].edges : d[1] = p.at[i]}} :
                              i \in 1..n}
        P[k \in 0..MaxLen] ==
            IF k = 0 THEN {[word |-> <<>>, at |-> [i \in 1..n |-> 3], failed |-> FALSE]}
            ELSE LET before == P[k-1]
                 IN  before \cup
                     UNION {{[word |-> <<GetLabel(m[2][2])>> \o p.word,
                              at |-> [p.at EXCEPT ![m[1]] = m[2][3]],
                              failed |-> p.failed \/ m[2][1] = 1] : m \in Moves(p)} :
                               p \in {q \in before : Len(q.word) = k - 1}}
    IN  {p.word : p \in {q \in P[MaxLen] : q.failed}}

WellFormed(g) ==
    /\ g.init \cup g.marked \subseteq g.states
    /\ g.trans \subseteq g.states \X Nat \X g.states

TypeOKSC ==
    /\ TypeOK
    /\ stage \in {"threads", "marked", "done", "aborted"}
    /\ composed \in 0..Len(faudesAutomata)
    /\ Len(faudesAutomata) \in 0..Len(thread_graphs_)
    /\ WellFormed(result)
    /\ WellFormed(lGenerator)

\* The automaton has exactly the interleavings that violate an assertion on
\* their way, turned round, although it is built from a product, a marking of
\* its own, two subset constructions and a reversal.
TracesExact ==
    stage = "done" => ReversedWords(lGenerator) = Interleavings

\* A trace that does not end at an assertion goes on after one that is in the
\* automaton too: what the loop of test_bench relies on (TestBench).
EndsAtAssertion ==
    stage = "done" =>
        LET words == ReversedWords(lGenerator)
        IN  \A w \in words : w # <<>> /\ (Head(w) \notin mAssnMap => Tail(w) \in words)
=============================================================================
