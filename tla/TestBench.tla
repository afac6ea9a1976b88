------------------------------ MODULE TestBench ------------------------------
(***************************************************************************)
(* The loop of test_bench: the traces that are still to be checked are the *)
(* language of the automaton `generator', which reads them from the last   *)
(* symbol to the first.  Each round takes a shortest one, turns it round,  *)
(* looks up the assertion at its end, and either reports it or subtracts   *)
(* the language of the proof automaton built from its refutation.          *)
(*                                                                         *)
(* The automata are represented by their languages: GetWord, the proof     *)
(* automaton and Intersection have modules of their own, and Deterministic *)
(* and aStateMin keep the language.  Traces are sequences of labels.       *)
(* `refuted' is a history variable: nothing the loop does depends on it.   *)
(***************************************************************************)
EXTENDS Integers, Sequences

CONSTANTS
    mAllSyms,
    mAssnMap,       \* the labels of the assertions (the keys of the map)
    Original,       \* the words of the automaton BuildSCTS has built
    Feasible,       \* the traces, first symbol first, some execution follows
    Refutations     \* for an infeasible trace, the languages of the proof
                    \* automata that MakeAFAutProof may build from it

Reversed(w) == [i \in 1..Len(w) |-> w[Len(w) - i + 1]]
Traces == {Reversed(w) : w \in Original}

(***************************************************************************)
(* A trace ends at an assertion, or goes on after one (SCTransSystem): a   *)
(* last symbol that is not an assertion may be taken off.                  *)
(***************************************************************************)
ASSUME OriginalAssumption ==
    /\ Original \subseteq Seq(mAllSyms) \ {<<>>}
    /\ \A w \in Original : Head(w) \notin mAssnMap => Tail(w) \in Original

(***************************************************************************)
(* MakeAFAutProof: with a trace, its automaton accepts those that go on    *)
(* after it (PassFour).  That it accepts the trace it was built from and   *)
(* no feasible one is not assumed: it may miss the first and accept some   *)
(* of the others (the runs PassFourLost and PassFourValid).                *)
(***************************************************************************)
KeepsGoingOn(L) ==
    /\ L \subseteq Seq(mAllSyms)
    /\ \A w \in Original : Tail(w) \in L => w \in L

ASSUME RefutationAssumption ==
    \A t \in Traces \ Feasible : \A L \in Refutations[t] : KeepsGoingOn(L)

VARIABLES
    generator,      \* the traces left, last symbol first
    revword,        \* the word GetWord has returned
    rev,            \* the same, first symbol first
    proofafa,       \* the language of the proof automaton
    refuted,        \* what the proof automata subtracted so far accept
    pc

vars == <<generator, revword, rev, proofafa, refuted, pc>>

(***************************************************************************)
(* Utils: a word is cut at the letter L, so that the first token is what   *)
(* stands before the first label, and the loops stop before that token.    *)
(***************************************************************************)
Bare == "L"
GetTokens(w) == IF w = <<>> THEN <<>> ELSE <<Bare>> \o w

\* Faulty: the first label is dropped with the token in front of it.
ReverseWordShort(w) ==
    LET tokens == GetTokens(w)
    IN  [i \in 1..(Len(tokens) - 2) |-> tokens[Len(tokens) - i + 1]]

ReverseWord(w) ==
    LET tokens == GetTokens(w)
    IN  [i \in 1..(Len(tokens) - 1) |-> tokens[Len(tokens) - i + 1]]

GetLastSymbol(w) == GetTokens(w)[Len(GetTokens(w))]

\* Faulty: any accepted word, as a depth-first search would find.
AnyWord(L) == L

\* What GetWord returns (see the module GetWord).
ShortestWords(L) == {w \in L : \A v \in L : Len(w) <= Len(v)}

-----------------------------------------------------------------------------
Init ==
    /\ generator = Original
    /\ revword = <<>>
    /\ rev = <<>>
    /\ proofafa = {}
    /\ refuted = {}
    /\ pc = "loop"

NoneLeft ==
    /\ pc = "loop"
    /\ generator = {}
    /\ pc' = "correct"
    /\ UNCHANGED <<generator, revword, rev, proofafa, refuted>>

TakeWord ==
    /\ pc = "loop"
    /\ \E w \in ShortestWords(generator) :
          /\ revword' = w
          /\ rev' = ReverseWord(w)
    /\ pc' = "assertion"
    /\ UNCHANGED <<generator, proofafa, refuted>>

\* GetEndStateAssertionFromWord: the last symbol has to be an assertion.
GetEndStateAssertion ==
    /\ pc = "assertion"
    /\ pc' = IF rev # <<>> /\ GetLastSymbol(rev) \in mAssnMap THEN "proof" ELSE "aborted"
    /\ UNCHANGED <<generator, revword, rev, proofafa, refuted>>

\* MakeAFAutProof returns false: the trace is reported and the program exits.
ErroneousTrace ==
    /\ pc = "proof"
    /\ rev \in Feasible
    /\ pc' = "erroneous"
    /\ UNCHANGED <<generator, revword, rev, proofafa, refuted>>

Refute ==
    /\ pc = "proof"
    /\ rev \notin Feasible
    /\ proofafa' \in Refutations[rev]
    /\ pc' = "subtract"
    /\ UNCHANGED <<generator, revword, rev, refuted>>

\* An assertion of PassFourNew fails (the run PassFourAborted).
ProofAborts ==
    /\ pc = "proof"
    /\ rev \notin Feasible
    /\ pc' = "failed"
    /\ UNCHANGED <<generator, revword, rev, proofafa, refuted>>

\* Faulty: the proof automaton is used before it has been complemented.
SubtractUncomplemented ==
    /\ pc = "subtract"
    /\ generator' = generator \cap proofafa
    /\ refuted' = refuted \cup proofafa
    /\ pc' = "loop"
    /\ UNCHANGED <<revword, rev, proofafa>>

\* Faulty: the intersection is computed but the generator keeps the old one.
SubtractForgotten ==
    /\ pc = "subtract"
    /\ refuted' = refuted \cup proofafa
    /\ pc' = "loop"
    /\ UNCHANGED <<generator, revword, rev, proofafa>>

\* Faulty: the generator is cleared after the result was assigned to it.
SubtractCleared ==
    /\ pc = "subtract"
    /\ generator' = {}
    /\ refuted' = refuted \cup proofafa
    /\ pc' = "loop"
    /\ UNCHANGED <<revword, rev, proofafa>>

\* The intersection with the complement of the proof automaton.
Subtract ==
    /\ pc = "subtract"
    /\ generator' = generator \ proofafa
    /\ refuted' = refuted \cup proofafa
    /\ pc' = "loop"
    /\ UNCHANGED <<revword, rev, proofafa>>

BenchNext ==
    \/ NoneLeft \/ TakeWord \/ GetEndStateAssertion \/ ErroneousTrace
    \/ Refute \/ ProofAborts \/ Subtract

Exited == pc \in {"correct", "erroneous", "aborted", "failed"} /\ UNCHANGED vars

Next == BenchNext \/ Exited

Spec == Init /\ [][Next]_vars
FairSpec == Spec /\ WF_vars(BenchNext)

-----------------------------------------------------------------------------
(***************************************************************************)
(* Properties.                                                             *)
(***************************************************************************)
TypeOK ==
    /\ generator \subseteq Original
    /\ revword \in Original \cup {<<>>}
    /\ rev \in Traces \cup {<<>>}
    /\ proofafa \subseteq Seq(mAllSyms)
    /\ refuted \subseteq Seq(mAllSyms)
    /\ pc \in {"loop", "assertion", "proof", "subtract",
               "correct", "erroneous", "aborted", "failed"}

\* "Some serious issue as the last char must be the one where assn is
\* defined" (SCTransSystem.cpp:67): although the automaton has traces that go
\* on after the assertion, the one that is checked ends with it.  A trace that
\* goes on is longer than the one it goes on from, and that one is not
\* subtracted alone.
AssertionFound == pc # "aborted"

\* The trace that is checked is a word of the generator, turned round
\* (SafetyVerificationPass.cpp:61-67), and no earlier proof automaton accepts
\* it: what a round has covered is never checked again.
WordChecked ==
    pc \in {"assertion", "proof", "subtract"} =>
        /\ revword \in generator
        /\ rev = Reversed(revword)
        /\ revword \notin refuted

\* The loop implements the promise: a round takes away what its proof automaton
\* accepts and nothing else, an error is reported only for a feasible trace
\* that is left, and success only when none is left.
verdict == CASE pc = "correct" -> "correct"
             [] pc = "erroneous" -> "erroneous"
             [] OTHER -> "none"

Promise == INSTANCE Verification
               WITH left <- {Reversed(w) : w \in generator},
                    refuted <- {Reversed(w) : w \in refuted \cap Original},
                    verdict <- verdict

KeepsPromise == Promise!Spec

\* "correct" is wrong only if a proof automaton has accepted a feasible trace,
\* and "erroneous" never (SafetyVerificationPass.cpp:58-131).
VerdictRight == Promise!VerdictRight

\* The proof automaton does not accept the trace it was built from.
Missed == pc = "subtract" /\ revword \notin proofafa

\* The loop ends unless the proof automata miss their traces again and again: a
\* round that does not takes away at least one of finitely many traces.
Verdict == <>(pc \in {"correct", "erroneous", "failed"}) \/ []<>Missed
=============================================================================
