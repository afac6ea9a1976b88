----------------------------- MODULE TraceLogic -----------------------------
(***************************************************************************)
(* The instructions of a trace and their weakest pre-images.               *)
(*                                                                         *)
(* Program::MakeOldInterface gives every symbol of a trace one of three    *)
(* meanings: an assignment lhs := rhs (mRWLHRHMap), a condition to be      *)
(* assumed (mAssumeLHRHMap) or ret := cas(ptr, old, new) (mCASLHRHMap).    *)
(* A formula is represented by the set of the states that satisfy it, an   *)
(* integer expression by the function that evaluates it, so that what z3   *)
(* does to a formula without changing its meaning is not visible here.     *)
(***************************************************************************)
EXTENDS Integers, Sequences

CONSTANTS
    Var,             \* the z3 variables of the program (variable_expr_map_)
    Val,             \* their values
    RWSym,           \* the symbols of the assignments
    AssumeSym,       \* the symbols of the assumed conditions
    CASSym,          \* the symbols of the compare-and-swaps
    mRWLHRHMap,
    mAssumeLHRHMap,
    mCASLHRHMap

State == [Var -> Val]
Expr == [State -> Val]
mAllSyms == RWSym \cup AssumeSym \cup CASSym

(***************************************************************************)
(* A symbol has one meaning.  The operands of a compare-and-swap are SSA   *)
(* values that exist before it, so none of them is the register it sets    *)
(* and the location it writes is not that register either.                 *)
(***************************************************************************)
ASSUME SymAssumption ==
    /\ RWSym \cap AssumeSym = {}
    /\ RWSym \cap CASSym = {}
    /\ AssumeSym \cap CASSym = {}
    /\ {0, 1} \subseteq Val

ASSUME MapAssumption ==
    /\ mRWLHRHMap \in [RWSym -> [lhs : Var, rhs : Expr]]
    /\ mAssumeLHRHMap \in [AssumeSym -> SUBSET State]
    /\ mCASLHRHMap \in [CASSym -> [ptr : Var, old : Expr, new : Expr, ret : Var]]

ASSUME SSAAssumption ==
    \A a \in CASSym :
        LET c == mCASLHRHMap[a]
        IN  /\ c.ptr # c.ret
            /\ \A s \in State, v \in Val : c.new[[s EXCEPT ![c.ret] = v]] = c.new[s]

(***************************************************************************)
(* One execution step of the program: symbol a leads from s to t.          *)
(***************************************************************************)
Assigns(a, s, t) ==
    /\ a \in RWSym
    /\ t = [s EXCEPT ![mRWLHRHMap[a].lhs] = mRWLHRHMap[a].rhs[s]]

Assumes(a, s, t) ==
    /\ a \in AssumeSym
    /\ s \in mAssumeLHRHMap[a]
    /\ t = s

Swaps(a, s, t) ==
    /\ a \in CASSym
    /\ LET c == mCASLHRHMap[a]
       IN  \/ /\ s[c.ptr] = c.old[s]
              /\ t = [s EXCEPT ![c.ptr] = c.new[s], ![c.ret] = 1]
           \/ /\ s[c.ptr] # c.old[s]
              /\ t = [s EXCEPT ![c.ret] = 0]

Step(a, s, t) == Assigns(a, s, t) \/ Assumes(a, s, t) \/ Swaps(a, s, t)

(***************************************************************************)
(* What PassOne computes for one symbol: phi[v -> e] (z3's substitute) and *)
(* the pre-image of phi under the symbol, in the order in which the code   *)
(* substitutes.                                                            *)
(***************************************************************************)
Substitute(phi, v, e) == {s \in State : [s EXCEPT ![v] = e[s]] \in phi}

Num(n) == [s \in State |-> n]

PreRW(a, phi) == Substitute(phi, mRWLHRHMap[a].lhs, mRWLHRHMap[a].rhs)

PreAssume(a, phi) == phi \cap mAssumeLHRHMap[a]

\* A compare-and-swap: left = readarg, and phi after it has succeeded (lc1) and
\* after it has failed (lc2).
Compares(a) == {s \in State : s[mCASLHRHMap[a].ptr] = mCASLHRHMap[a].old[s]}

AfterSuccess(a, phi) ==
    LET c == mCASLHRHMap[a]
    IN  Substitute(Substitute(phi, c.ptr, c.new), c.ret, Num(1))

\* Faulty: the result register is not set.
AfterFailureUnset(a, phi) == phi

AfterFailure(a, phi) == Substitute(phi, mCASLHRHMap[a].ret, Num(0))

PreCAS(a, phi) ==
    (AfterSuccess(a, phi) \cap Compares(a)) \cup (AfterFailure(a, phi) \ Compares(a))

Pre(a, phi) ==
    CASE a \in RWSym     -> PreRW(a, phi)
      [] a \in CASSym    -> PreCAS(a, phi)
      [] a \in AssumeSym -> PreAssume(a, phi)

\* No state satisfies or violates phi because of the value of v alone.
Independent(phi, v) ==
    \A s \in State, n \in Val : s \in phi <=> [s EXCEPT ![v] = n] \in phi

(***************************************************************************)
(* The reference definition: the executions of the first k symbols of the  *)
(* word w, and the states from which one of them ends in phi.              *)
(***************************************************************************)
Runs(w, k) ==
    {r \in [0..k -> State] : \A i \in 1..k : Step(w[i], r[i-1], r[i])}

WordPre(w, k, phi) == {r[0] : r \in {q \in Runs(w, k) : q[k] \in phi}}
=============================================================================
