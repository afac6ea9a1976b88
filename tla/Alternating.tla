---------------------------- MODULE Alternating ----------------------------
(***************************************************************************)
(* The two kinds of automata of the refinement loop: libfaudes generators, *)
(* which hold the traces still to be checked, and the alternating automata *)
(* (AFAut) built from proofs; and the words they accept, defined from the  *)
(* last symbol of the word backwards.                                      *)
(***************************************************************************)
EXTENDS Integers, Sequences

CONSTANTS
    GenState,       \* the states of a generator
    AFAState,       \* the states of an alternating automaton
    mAllSyms        \* the symbols of the program

Generator == [init : SUBSET GenState, marked : SUBSET GenState,
              trans : SUBSET (GenState \X mAllSyms \X GenState)]

(***************************************************************************)
(* A transition of an alternating automaton leads to a set of states, all  *)
(* of which must accept the rest of the word; mTransitions gives a state   *)
(* and a symbol its alternatives.  Only an initial state that is not an    *)
(* ORLit has transitions on "0", and no others: its alternatives are zero. *)
(***************************************************************************)
Automaton == [mInit : AFAState, lit : BOOLEAN, mIsAccepted : SUBSET AFAState,
              zero : SUBSET SUBSET AFAState,
              mTransitions : [AFAState \X mAllSyms -> SUBSET SUBSET AFAState]]

\* The states of a generator from which the last i symbols of w lead to a
\* marked state.
MarkedAfter(trans, marked, w) ==
    LET n == Len(w)
        B[i \in 0..n] ==
            IF i = 0 THEN marked
            ELSE LET after == B[i-1]
                 IN  {e[1] : e \in {d \in trans : d[2] = w[n-i+1] /\ d[3] \in after}}
    IN  B

PathAccepts(init, trans, marked, w) ==
    init \cap MarkedAfter(trans, marked, w)[Len(w)] # {}

\* The states of an alternating automaton that accept the last i symbols of w.
AcceptingAfter(a, w) ==
    LET n == Len(w)
        A[i \in 0..n] ==
            IF i = 0 THEN a.mIsAccepted
            ELSE LET after == A[i-1]
                 IN  {q \in AFAState :
                         \E alt \in a.mTransitions[<<q, w[n-i+1]>>] : alt \subseteq after}
    IN  A

AutomatonAccepts(a, w) ==
    LET accepting == AcceptingAfter(a, w)[Len(w)]
    IN  IF a.lit THEN a.mInit \in accepting ELSE \E alt \in a.zero : alt \subseteq accepting
=============================================================================
