---------------------------- MODULE MCTestBench ----------------------------
(***************************************************************************)
(* Two threads.  The first sets x to 0, reads it into r, and goes round    *)
(* again if r is 0 or fails if r is 1:                                     *)
(*                                                                         *)
(*     0: x := 0   1: r := x   2: assume r = 0, goto 0                     *)
(*                             2: assume r = 1, goto 3   3: assert         *)
(*                                                                         *)
(* The second is one assignment to x.  The traces are the interleavings of *)
(* up to MaxLen symbols that contain the assertion.                        *)
(***************************************************************************)
EXTENDS TestBench

CONSTANTS
    MaxLen,
    Second      \* the symbols of the second thread

MCAllSyms == {"x:=0", "r:=x", "r=0", "r=1", "assert"} \cup Second
MCAssnMap == {"assert"}

First == {<<0, "x:=0", 1>>, <<1, "r:=x", 2>>, <<2, "r=0", 0>>, <<2, "r=1", 3>>, <<3, "assert", 4>>}

\* The interleavings of n symbols, each with the node of the first thread and
\* whether the second has run.
Interleavings(n) ==
    LET I[i \in 0..n] ==
            IF i = 0 THEN {[word |-> <<>>, node |-> 0, second |-> FALSE]}
            ELSE LET shorter == I[i-1]
                 IN  {[word |-> Append(s.word, e[2]), node |-> e[3], second |-> s.second] :
                         <<s, e>> \in {p \in shorter \X First : p[1].node = p[2][1]}}
                     \cup {[word |-> Append(s.word, a), node |-> s.node, second |-> TRUE] :
                         s \in {t \in shorter : ~t.second}, a \in Second}
    IN  I[n]

\* The states <<x, r>> after the word, from the states in S.
Values(w, S) ==
    LET V[i \in 0..Len(w)] ==
            IF i = 0 THEN S
            ELSE LET before == V[i-1]
                 IN  CASE w[i] \in {"x:=0", "2: x:=0"} -> {<<0, s[2]>> : s \in before}
                       [] w[i] = "2: x:=1" -> {<<1, s[2]>> : s \in before}
                       [] w[i] = "r:=x" -> {<<s[1], s[1]>> : s \in before}
                       [] w[i] = "r=0" -> {s \in before : s[2] = 0}
                       [] w[i] = "r=1" -> {s \in before : s[2] = 1}
                       [] w[i] = "assert" -> before
    IN  V[Len(w)]

MCTraces == {s.word : s \in {t \in UNION {Interleavings(n) : n \in 1..MaxLen} : t.node = 4}}
MCOriginal == {Reversed(w) : w \in MCTraces}

\* PassOne decides whether a trace is feasible from any state.
MCFeasible == {w \in MCTraces : Values(w, {0, 1} \X {0, 1}) # {}}

\* All traces that go on after one of C.
Extended(C) ==
    {w \in MCOriginal : \E k \in 1..Len(w) : Reversed(SubSeq(w, k, Len(w))) \in C}

\* A proof covers the trace it was built from or not, and another trace, which
\* may be a feasible one.
MCRefutations ==
    [t \in MCTraces \ MCFeasible |->
        {Extended({t, s}) : s \in MCTraces} \cup {Extended({s}) : s \in MCTraces}]
=============================================================================
