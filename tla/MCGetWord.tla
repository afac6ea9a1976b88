------------------------------ MODULE MCGetWord ------------------------------
(***************************************************************************)
(* GetWord on every generator with three states and two events that is     *)
(* deterministic, the result of Deterministic and aStateMin, has at most   *)
(* one initial state and at most two marked ones; and on one that is not   *)
(* deterministic, in which a state is queued more than once.               *)
(***************************************************************************)
EXTENDS GetWord

MCIdx == {"q1", "q2", "q3"}
MCEvent == {"a", "b"}

\* A partial transition function: "-" stands for no transition.
Graph(delta) == {<<x, e, delta[<<x, e>>]>> : <<x, e>> \in {d \in DOMAIN delta : delta[d] # "-"}}

MCGenerators ==
    {[init |-> {"q1"}, marked |-> m, trans |-> Graph(d)] :
        m \in {{}, {"q3"}, {"q2", "q3"}}, d \in [MCIdx \X MCEvent -> MCIdx \cup {"-"}]}
    \cup {[init |-> i, marked |-> {"q3"},
        trans |-> {"q1", "q2"} \X MCEvent \X {"q2", "q3"}] : i \in SUBSET {"q1", "q2"}}
=============================================================================
