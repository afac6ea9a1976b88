--------------------------- MODULE MCIntersection ---------------------------
(***************************************************************************)
(* Intersection on three generators and every alternating automaton with   *)
(* two states and two symbols whose transitions are missing, to one state, *)
(* to both states or to either of them.  An initial state that is not an   *)
(* ORLit is no other state's target.                                       *)
(***************************************************************************)
EXTENDS Intersection

MCGenState == 1..2
MCAFAState == {"init", "p", "q"}
MCSyms == {"a", "b"}

\* (a|b)*, a(ba)* and a(a|b)* with a nondeterministic choice.
MCGenerators ==
    {[init |-> {1}, marked |-> {1}, trans |-> {<<1, "a", 1>>, <<1, "b", 1>>}],
     [init |-> {1}, marked |-> {2}, trans |-> {<<1, "a", 2>>, <<2, "b", 1>>}],
     [init |-> {1}, marked |-> {2},
      trans |-> {<<1, "a", 1>>, <<1, "a", 2>>, <<2, "b", 2>>, <<2, "a", 1>>}]}

Alternatives == {{}, {{"q"}}, {{"p", "q"}}, {{"p"}, {"q"}}}

MCAutomata ==
    {[mInit |-> IF z = {} THEN "p" ELSE "init", lit |-> z = {}, mIsAccepted |-> acc, zero |-> z,
      mTransitions |-> [e \in MCAFAState \X MCSyms |-> IF e[1] = "init" THEN {} ELSE d[e]]] :
        acc \in {{"p"}, {"q"}}, z \in {{}, {{"p", "q"}}, {{"p"}, {"q"}}},
        d \in [{"p", "q"} \X MCSyms -> Alternatives]}

MCWords == UNION {[1..n -> MCSyms] : n \in 0..4}
=============================================================================
