---------------------------- MODULE Verification ----------------------------
(***************************************************************************)
(* What the pass promises, without automata: of a set of traces it refutes *)
(* more and more, until one of those that are left turns out to be         *)
(* feasible or none is left.  Whether what is refuted is infeasible is the *)
(* matter of the proofs and not of the loop.                               *)
(***************************************************************************)
CONSTANTS
    Traces,     \* the traces to be checked
    Feasible    \* the traces that some execution of the program follows

VARIABLES left, refuted, verdict

vars == <<left, refuted, verdict>>

Init == left = Traces /\ refuted = {} /\ verdict = "none"

\* A round covers more traces, and none but those are taken away.
Refute ==
    /\ verdict = "none"
    /\ refuted' \in SUBSET Traces
    /\ refuted \subseteq refuted'
    /\ left' = left \ refuted'
    /\ UNCHANGED verdict

ReportError ==
    /\ verdict = "none"
    /\ left \cap Feasible # {}
    /\ verdict' = "erroneous"
    /\ UNCHANGED <<left, refuted>>

ReportCorrect ==
    /\ verdict = "none"
    /\ left = {}
    /\ verdict' = "correct"
    /\ UNCHANGED <<left, refuted>>

Next == Refute \/ ReportError \/ ReportCorrect

Spec == Init /\ [][Next]_vars

-----------------------------------------------------------------------------
\* The verdict is about the program: an error is one, and success means that
\* every feasible trace was taken for a refuted one, so that there is none if
\* the proofs are sound.
VerdictRight ==
    /\ verdict = "correct" => Traces \cap Feasible \subseteq refuted
    /\ verdict = "erroneous" => Traces \cap Feasible # {}
=============================================================================
