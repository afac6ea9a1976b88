----------------------------- MODULE MCFormulas -----------------------------
(***************************************************************************)
(* A small program for the runs: a shared variable x, the registers r and  *)
(* t, and the expressions that come up in its traces, in the shapes in     *)
(* which PassOne builds them.                                              *)
(***************************************************************************)
EXTENDS TraceLogic

MCVar == {"x", "r", "t"}
Signed == {-1, 0, 1}

Const(n) == [s \in State |-> n]
Value(v) == [s \in State |-> s[v]]
Same == {s \in State : s["r"] = s["t"]}
Holds(v, n) == {s \in State : s[v] = n}
AtMostZero == {s \in State : s["x"] <= 0}

MCRW == [a \in RWSym |->
    CASE a = "x:=0" -> [lhs |-> "x", rhs |-> Const(0)]
      [] a = "x:=1" -> [lhs |-> "x", rhs |-> Const(1)]
      [] a = "x:=t" -> [lhs |-> "x", rhs |-> Value("t")]]

MCAssume == [a \in AssumeSym |->
    CASE a = "x=0" -> Holds("x", 0)
      [] a = "x=1" -> Holds("x", 1)
      [] a = "x<=0" -> AtMostZero
      [] a = "r=1" -> Holds("r", 1)
      [] a = "t=0" -> Holds("t", 0)
      [] a = "t=1" -> Holds("t", 1)
      [] a = "r=t" -> Same
      [] a = "assert" -> State]

MCCAS == [a \in CASSym |-> [ptr |-> "x", old |-> Const(0), new |-> Const(1), ret |-> "r"]]

(***************************************************************************)
(* A literal compares a variable with a constant, or the two registers; a  *)
(* conjunction has two literals, of which neither negates the other; and a *)
(* disjunction has the two outcomes of the compare-and-swap.  `not false'  *)
(* is the expression MakeAFAutProof starts from: it is valid, and it is    *)
(* not the constant true.                                                  *)
(***************************************************************************)
Atoms == LET positive == {Holds(v, n) : v \in MCVar, n \in {0, 1}} \cup {Same, AtMostZero}
         IN  positive \cup {State \ phi : phi \in positive}

Atom(phi) == <<"lit", phi>>
MCTrue == <<"true", State>>
MCFalse == <<"false", {}>>
NotFalse == <<"not false", State>>

And(phi) == {<<"and", {Atom(phi), Atom(psi)}>> : psi \in Atoms \ {phi, State \ phi}}
Guarded(phi) == {Atom(phi)} \cup And(phi)

MCFormula ==
    {MCTrue, MCFalse, NotFalse}
    \cup {Atom(phi) : phi \in Atoms}
    \cup UNION {And(phi) : phi \in Atoms}
    \cup {<<"or", {lc1, lc2}>> : lc1 \in Guarded(Holds("x", 0)),
                                 lc2 \in Guarded(State \ Holds("x", 0))}

MCType == [f \in MCFormula |-> CASE f[1] = "and" -> "AND"
                                 [] f[1] = "or" -> "OR"
                                 [] OTHER -> "ORLit"]
MCArgs == [f \in MCFormula |-> IF MCType[f] = "ORLit" THEN {} ELSE f[2]]

Conjunction(f) == {s \in State : \A l \in f[2] : s \in l[2]}
MCMeaning == [f \in MCFormula |->
    CASE MCType[f] = "AND" -> Conjunction(f)
      [] MCType[f] = "OR" -> UNION {IF g[1] = "and" THEN Conjunction(g) ELSE g[2] : g \in f[2]}
      [] OTHER -> f[2]]

\* HelperGetFreeVars finds the variables that stand in an expression.
VarsOf(phi) == {v \in MCVar : \E s \in phi, n \in Val : [s EXCEPT ![v] = n] \notin phi}
MCFreeVars == [f \in MCFormula |->
    CASE MCType[f] = "AND" -> UNION {VarsOf(l[2]) : l \in f[2]}
      [] MCType[f] = "OR" -> UNION {IF g[1] = "and" THEN UNION {VarsOf(l[2]) : l \in g[2]}
                                    ELSE VarsOf(g[2]) : g \in f[2]}
      [] OTHER -> VarsOf(f[2])]

\* Every trace of up to two instructions that ends with the assertion, and
\* those of three that have a compare-and-swap in the middle.
MCShortWords ==
    {Append(w, "assert") : w \in UNION {[1..n -> mAllSyms \ {"assert"}] : n \in 0..2}}
    \cup {<<a, "r:=cas(x,0,1)", b, "assert">> : a \in RWSym \cup {"x=0"}, b \in AssumeSym}

\* Every trace of up to three instructions.
MCWords ==
    {Append(w, "assert") : w \in UNION {[1..n -> mAllSyms \ {"assert"}] : n \in 0..3}}

\* The swap succeeds and sets r to 1, so that r = t and t = 0 contradict each other.
MCComparison == {<<"x:=0", "r:=cas(x,0,1)", "r=t", "t=0", "assert">>}

\* Infeasible traces of four instructions: two disjoint cores, a satisfiable
\* conjunction below an unsatisfiable one, and a disjunction of which only one
\* disjunct is unsatisfiable.
MCLongWords ==
    {<<"x:=1", "r:=cas(x,0,1)", "r=1", "x=0", "assert">>,
     <<"r=1", "x:=1", "x=0", "t=1", "assert">>,
     <<"x:=1", "r:=cas(x,0,1)", "r=t", "x=0", "assert">>}

\* x = 1 is t = 1 before x := t, which t = 0 contradicts; r = 1 has no part in it.
MCOverlap == {<<"x:=t", "t=0", "x=1", "r=1", "assert">>}

\* The swap fails and leaves x as it was.
MCSwap == {<<"x:=1", "r:=cas(x,0,1)", "x<=0", "assert">>}
=============================================================================
