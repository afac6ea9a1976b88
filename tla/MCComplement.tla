---------------------------- MODULE MCComplement ----------------------------
(***************************************************************************)
(* Complement on the alternating automata with three states, one of them   *)
(* false, and two symbols whose transitions are missing, to one state, to  *)
(* two states or to either of two.  An initial state that is not an ORLit  *)
(* is no other state's target.                                             *)
(***************************************************************************)
EXTENDS Complement

MCAFAState == {"init", "p", "q", "false", "error"}
MCSyms == {"a", "b"}

OnA == {{}, {{"q"}}, {{"p", "q"}}, {{"p"}, {"q", "false"}}}
OnB == {{}, {{"p"}}, {{"p"}, {"q"}}, {{"q", "false"}, {"p", "false"}}}

Trans(pa, pb, qa, qb) == [d \in MCAFAState \X MCSyms |->
    CASE d = <<"p", "a">> -> pa
      [] d = <<"p", "b">> -> pb
      [] d = <<"q", "a">> -> qa
      [] d = <<"q", "b">> -> qb
      [] d[1] = "false" -> {{"false"}}
      [] d[1] \in {"init", "error"} -> {}]

MCAutomata ==
    {[mInit |-> IF z = {} THEN "p" ELSE "init", lit |-> z = {}, mIsAccepted |-> acc, zero |-> z,
      mTransitions |-> t] :
        acc \in {{"false"}, {"q", "false"}},
        z \in {{}, {{"p", "q"}}, {{"p"}, {"q", "false"}}},
        t \in {Trans(pa, pb, qa, qb) : pa \in OnA, pb \in OnB,
                                      qa \in {{}, {{"p", "q"}}}, qb \in {{}, {{"p"}}}}}

MCWords == UNION {[1..n -> MCSyms] : n \in 0..3}
=============================================================================
