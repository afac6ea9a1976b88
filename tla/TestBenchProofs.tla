--------------------------- MODULE TestBenchProofs ---------------------------
(***************************************************************************)
(* The loop of test_bench keeps the promise of Verification, for every set *)
(* of traces and every choice of refutations that the assumptions allow.   *)
(***************************************************************************)
EXTENDS TestBench, SequenceTheorems, TLAPS

-----------------------------------------------------------------------------
(***************************************************************************)
(* Turning words round.                                                    *)
(***************************************************************************)
\* Utils::ReverseWord turns a word round (the cut at L adds a token, the loop
\* leaves it out).
LEMMA ReverseWordExact ==
    ASSUME NEW w \in Seq(mAllSyms) \ {<<>>}
    PROVE  ReverseWord(w) = Reversed(w)
<1> DEFINE S == mAllSyms \cup {Bare}
           t == <<Bare>> \o w
<1>1. w \in Seq(S) /\ <<Bare>> \in Seq(S) /\ GetTokens(w) = t
  BY DEF GetTokens
<1>2. /\ Len(t) = Len(w) + 1
      /\ \A i \in 1..Len(w) : t[i + 1] = w[i]
  BY <1>1
<1>3. Len(w) \in Nat
  OBVIOUS
<1>4. \A i \in 1..Len(w) : t[Len(t) - i + 1] = w[Len(w) - i + 1]
  <2> HIDE DEF t
  <2> TAKE i \in 1..Len(w)
  <2> DEFINE j == Len(w) - i + 1
  <2>1. j \in 1..Len(w) /\ Len(t) - i + 1 = j + 1
    BY <1>2, <1>3
  <2> QED  BY <1>2, <2>1
<1>5. Len(t) - 1 = Len(w)
  <2> HIDE DEF t
  <2> QED  BY <1>2, <1>3
<1> HIDE DEF t
<1> QED  BY <1>1, <1>4, <1>5 DEF ReverseWord, Reversed

LEMMA ReversedProperties ==
    ASSUME NEW w \in Seq(mAllSyms) \ {<<>>}
    PROVE  /\ Reversed(w) \in Seq(mAllSyms) \ {<<>>}
           /\ Len(Reversed(w)) = Len(w)
           /\ Reversed(w)[Len(w)] = Head(w)
           /\ Reversed(Reversed(w)) = w
<1> DEFINE n == Len(w)
           r == Reversed(w)
<1>1. n \in Nat /\ n > 0 /\ w = [i \in 1..n |-> w[i]] /\ \A i \in 1..n : w[i] \in mAllSyms
  OBVIOUS
<1>2. r \in [1..n -> mAllSyms] /\ \A i \in 1..n : r[i] = w[n - i + 1]
  BY <1>1 DEF Reversed
<1>3. r \in Seq(mAllSyms) /\ Len(r) = n
  <2> HIDE DEF r
  <2> QED  BY <1>1, <1>2
<1>4. r[n] = w[1]
  <2> HIDE DEF r
  <2> QED  BY <1>1, <1>2
<1>5. \A i \in 1..n : r[n - i + 1] = w[i]
  <2> HIDE DEF r
  <2> TAKE i \in 1..n
  <2>1. n - i + 1 \in 1..n /\ n - (n - i + 1) + 1 = i
    BY <1>1
  <2> QED  BY <1>2, <2>1
<1>6. Reversed(r) = [i \in 1..n |-> w[i]]
  <2> HIDE DEF r
  <2> QED  BY <1>3, <1>5 DEF Reversed
<1> QED  BY <1>1, <1>3, <1>4, <1>6

LEMMA ReversedInjective ==
    ASSUME NEW v \in Original, NEW w \in Original, Reversed(v) = Reversed(w)
    PROVE  v = w
BY ReversedProperties, OriginalAssumption

\* The last symbol of a trace is the first of the word it was made from.
LEMMA LastSymbol ==
    ASSUME NEW w \in Original
    PROVE  GetLastSymbol(Reversed(w)) = Head(w)
<1> DEFINE r == Reversed(w)
           t == <<Bare>> \o r
           S == mAllSyms \cup {Bare}
<1>1. r \in Seq(mAllSyms) \ {<<>>} /\ Len(r) = Len(w) /\ r[Len(w)] = Head(w) /\ Len(w) \in Nat \ {0}
  BY ReversedProperties, OriginalAssumption
<1> HIDE DEF r
<1>2. r \in Seq(S) /\ <<Bare>> \in Seq(S) /\ GetTokens(r) = t
  BY <1>1 DEF GetTokens
<1>3. Len(t) = Len(w) + 1 /\ t[Len(w) + 1] = r[Len(w)]
  BY <1>1, <1>2
<1> HIDE DEF t
<1> QED  BY <1>1, <1>2, <1>3 DEF GetLastSymbol, r

-----------------------------------------------------------------------------
(***************************************************************************)
(* The inductive invariant.  That the shortest trace ends at an assertion  *)
(* needs Closed: a trace that goes on is never left without the one it     *)
(* goes on from.  Exactly what no proof automaton has accepted is left.    *)
(***************************************************************************)
Closed == \A w \in generator : Head(w) \notin mAssnMap => Tail(w) \in generator

RestLeft == generator = Original \ refuted

WordTaken ==
    /\ pc \in {"assertion", "proof", "subtract"} =>
          revword \in generator /\ rev = Reversed(revword)
    /\ pc = "assertion" => \A v \in generator : Len(revword) <= Len(v)

ProofOfWord == pc = "subtract" => KeepsGoingOn(proofafa)

VerdictJustified ==
    /\ pc = "correct" => generator = {}
    /\ pc = "erroneous" => revword \in generator /\ rev = Reversed(revword) /\ rev \in Feasible
    /\ pc # "aborted"

IInv == TypeOK /\ Closed /\ RestLeft /\ WordTaken /\ ProofOfWord /\ VerdictJustified

LEMMA InitIInv == Init => IInv
BY OriginalAssumption DEF Init, IInv, TypeOK, Closed, RestLeft, WordTaken, ProofOfWord,
    VerdictJustified, Traces

LEMMA TakeWordStep == IInv /\ TakeWord => IInv'
<1> SUFFICES ASSUME IInv, TakeWord PROVE IInv'
  OBVIOUS
<1>1. PICK w \in ShortestWords(generator) : revword' = w /\ rev' = ReverseWord(w)
  BY DEF TakeWord
<1>2. w \in generator /\ w \in Original /\ \A v \in generator : Len(w) <= Len(v)
  BY <1>1 DEF ShortestWords, IInv, TypeOK
<1>3. rev' = Reversed(w) /\ Reversed(w) \in Traces
  BY <1>1, <1>2, ReverseWordExact, OriginalAssumption DEF Traces
<1> QED
  BY <1>1, <1>2, <1>3
  DEF TakeWord, IInv, TypeOK, Closed, RestLeft, WordTaken, ProofOfWord, VerdictJustified

LEMMA AssertionStep == IInv /\ GetEndStateAssertion => IInv'
<1> SUFFICES ASSUME IInv, GetEndStateAssertion PROVE IInv'
  OBVIOUS
<1> USE DEF GetEndStateAssertion
<1>1. revword \in generator /\ rev = Reversed(revword) /\ revword \in Original
  BY DEF IInv, WordTaken, TypeOK
<1>2. revword \in Seq(mAllSyms) \ {<<>>} /\ rev # <<>> /\ GetLastSymbol(rev) = Head(revword)
  BY <1>1, ReversedProperties, LastSymbol, OriginalAssumption
<1>3. Head(revword) \in mAssnMap
  <2> SUFFICES ASSUME Head(revword) \notin mAssnMap PROVE FALSE
    OBVIOUS
  <2>1. Tail(revword) \in generator
    BY <1>1 DEF IInv, Closed
  <2>2. Len(revword) <= Len(Tail(revword))
    BY <2>1 DEF IInv, WordTaken
  <2>3. Len(Tail(revword)) = Len(revword) - 1 /\ Len(revword) \in Nat
    BY <1>2
  <2> QED  BY <2>2, <2>3
<1>4. pc' = "proof"
  BY <1>2, <1>3
<1> QED
  BY <1>1, <1>4
  DEF IInv, TypeOK, Closed, RestLeft, WordTaken, ProofOfWord, VerdictJustified

LEMMA SubtractStep == IInv /\ Subtract => IInv'
<1> SUFFICES ASSUME IInv, Subtract PROVE IInv'
  OBVIOUS
<1> USE DEF Subtract
<1>1. KeepsGoingOn(proofafa) /\ generator \subseteq Original
  BY DEF IInv, TypeOK, ProofOfWord
<1>2. Closed'
  <2> SUFFICES ASSUME NEW w \in generator \ proofafa, Head(w) \notin mAssnMap
               PROVE  Tail(w) \in generator \ proofafa
    BY DEF Closed
  <2>1. Tail(w) \in generator /\ w \in Original
    BY <1>1 DEF IInv, Closed
  <2> QED  BY <1>1, <2>1 DEF KeepsGoingOn
<1>3. RestLeft'
  BY DEF IInv, RestLeft
<1> QED
  BY <1>1, <1>2, <1>3 DEF IInv, TypeOK, KeepsGoingOn, WordTaken, ProofOfWord, VerdictJustified

LEMMA NextIInv == IInv /\ [Next]_vars => IInv'
<1> SUFFICES ASSUME IInv, [Next]_vars PROVE IInv'
  OBVIOUS
<1> USE DEF IInv, TypeOK, Closed, RestLeft, WordTaken, ProofOfWord, VerdictJustified
<1>1. CASE NoneLeft
  BY <1>1 DEF NoneLeft
<1>2. CASE TakeWord
  BY <1>2, TakeWordStep DEF IInv
<1>3. CASE GetEndStateAssertion
  BY <1>3, AssertionStep DEF IInv
<1>4. CASE ErroneousTrace
  BY <1>4 DEF ErroneousTrace
<1>5. CASE Refute
  <2>1. rev \in Traces \ Feasible
    BY <1>5 DEF Refute, Traces
  <2>2. KeepsGoingOn(proofafa')
    BY <1>5, <2>1, RefutationAssumption DEF Refute
  <2>3. proofafa' \subseteq Seq(mAllSyms)
    BY <2>2 DEF KeepsGoingOn
  <2> QED  BY <1>5, <2>2, <2>3 DEF Refute, KeepsGoingOn
<1>6. CASE ProofAborts
  BY <1>6 DEF ProofAborts
<1>7. CASE Subtract
  BY <1>7, SubtractStep DEF IInv
<1>8. CASE UNCHANGED vars
  BY <1>8 DEF vars, KeepsGoingOn
<1> QED
  BY <1>1, <1>2, <1>3, <1>4, <1>5, <1>6, <1>7, <1>8 DEF Next, BenchNext, Exited

LEMMA Invariance == Spec => []IInv
BY InitIInv, NextIInv, PTL DEF Spec

-----------------------------------------------------------------------------
(***************************************************************************)
(* Theorems.                                                               *)
(***************************************************************************)
\* The type invariant of the loop.
THEOREM TypeCorrect == Spec => []TypeOK
<1>1. IInv => TypeOK  BY DEF IInv
<1> QED  BY <1>1, Invariance, PTL

\* The assertion of GetEndStateAssertionFromWord never fails.
THEOREM AssertionAlwaysFound == Spec => []AssertionFound
<1>1. IInv => AssertionFound  BY DEF IInv, VerdictJustified, AssertionFound
<1> QED  BY <1>1, Invariance, PTL

\* The trace that is checked is the reversed word, and one that no earlier proof
\* automaton accepts (SafetyVerificationPass.cpp:61-67).
THEOREM EachWordOnce == Spec => []WordChecked
<1>1. IInv => WordChecked  BY DEF IInv, WordTaken, RestLeft, WordChecked
<1> QED  BY <1>1, Invariance, PTL

\* "erroneous" is said only of an erroneous program, and "correct" only if the
\* proof automata together accept every feasible trace there is: of a correct
\* program, or after an unsound proof.
THEOREM VerdictAlwaysRight == Spec => []VerdictRight
<1>1. ASSUME IInv, pc = "correct"
      PROVE  Traces \cap Feasible \subseteq {Reversed(w) : w \in refuted \cap Original}
  BY <1>1 DEF IInv, RestLeft, VerdictJustified, Traces
<1>2. ASSUME IInv, pc = "erroneous"
      PROVE  Traces \cap Feasible # {}
  BY <1>2 DEF IInv, TypeOK, VerdictJustified, Traces
<1>3. IInv => VerdictRight
  BY <1>1, <1>2 DEF VerdictRight, Promise!VerdictRight, verdict
<1> QED  BY <1>3, Invariance, PTL

LEMMA StepKeepsPromise == IInv /\ [Next]_vars => [Promise!Next]_(Promise!vars)
<1> DEFINE left == {Reversed(w) : w \in generator}
           covered == {Reversed(w) : w \in refuted \cap Original}
<1> SUFFICES ASSUME IInv, [Next]_vars
             PROVE  \/ Promise!Next
                    \/ left' = left /\ covered' = covered /\ verdict' = verdict
  BY DEF Promise!vars
<1>1. CASE NoneLeft
  BY <1>1 DEF NoneLeft, Promise!Next, Promise!ReportCorrect, verdict
<1>2. CASE TakeWord
  BY <1>2 DEF TakeWord, verdict
<1>3. CASE GetEndStateAssertion
  <2>1. IInv'
    BY NextIInv
  <2>2. pc' = "proof" /\ pc = "assertion" /\ generator' = generator /\ refuted' = refuted
    BY <1>3, <2>1 DEF GetEndStateAssertion, IInv, VerdictJustified
  <2> QED  BY <2>2 DEF verdict
<1>4. CASE ErroneousTrace
  <2>1. rev \in left \cap Feasible
    BY <1>4 DEF ErroneousTrace, IInv, WordTaken
  <2>2. Promise!ReportError
    BY <1>4, <2>1 DEF ErroneousTrace, Promise!ReportError, verdict
  <2> QED  BY <2>2 DEF Promise!Next
<1>5. CASE Refute
  BY <1>5 DEF Refute, verdict
<1>6. CASE ProofAborts
  BY <1>6 DEF ProofAborts, verdict
<1>7. CASE Subtract
  <2>1. generator = Original \ refuted /\ generator' = generator \ proofafa
        /\ refuted' = refuted \cup proofafa
    BY <1>7 DEF Subtract, IInv, RestLeft
  <2>2. covered' \in SUBSET Traces /\ covered \subseteq covered'
    BY <2>1 DEF Traces
  <2>3. \A v, w \in Original : Reversed(v) = Reversed(w) => v = w
    BY ReversedInjective
  <2>4. left' = left \ covered'
    BY <2>1, <2>3
  <2>5. verdict = "none" /\ verdict' = "none"
    BY <1>7 DEF Subtract, verdict
  <2>6. Promise!Refute
    BY <2>2, <2>4, <2>5 DEF Promise!Refute
  <2> QED  BY <2>6 DEF Promise!Next
<1>8. CASE UNCHANGED vars
  BY <1>8 DEF vars, verdict
<1> QED
  BY <1>1, <1>2, <1>3, <1>4, <1>5, <1>6, <1>7, <1>8 DEF Next, BenchNext, Exited

\* The loop implements the promise: each round is a step of Verification.
THEOREM ImplementsPromise == Spec => KeepsPromise
<1>1. Init => Promise!Init
  BY DEF Init, Promise!Init, verdict, Traces
<1> QED
  BY <1>1, StepKeepsPromise, Invariance, PTL DEF Spec, KeepsPromise, Promise!Spec
=============================================================================
