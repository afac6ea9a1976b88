------------------------------- MODULE PassTwo -------------------------------
(***************************************************************************)
(* The second pass of MakeAFAutProof (AFAState::PassTwo and the deletion   *)
(* that follows it): the tree of an infeasible trace is pruned.  At an AND *)
(* state the children are replaced by alternatives, each of them an unsat  *)
(* core of the children's HMaps; the states that the pass did not come     *)
(* across are then deleted.                                                *)
(*                                                                         *)
(* PassTwo is recursive too: `calls' is its call stack and `ret' the value *)
(* a call has just returned and its caller has not yet looked at.          *)
(***************************************************************************)
EXTENDS PassOne

VARIABLES
    passtwoallstates,   \* the states PassTwo has been entered for
    calls,              \* the calls of PassTwo that have not returned
    ret,                \* the state of the call that returned, and its result
    freed,              \* the states that have been deleted
    done                \* MakeAFAutProof goes on to PassFour

passTwoVars == <<passtwoallstates, calls, ret, freed, done>>
vars == <<passOneVars, passTwoVars>>

\* A call that has returned a result is not taken for one that has not.
ASSUME ResultAssumption == NULL \notin [st : Nat, unsat : BOOLEAN]

\* One call of PassTwo: the AND loop's nextset and the cores it has found,
\* whether that loop is over, the children still to be visited, and res.
PruneCall == [st : Nat, nextset : SUBSET Nat, cores : SUBSET SUBSET Nat,
              pruned : BOOLEAN, todo : SUBSET Nat, res : BOOLEAN]

ChildrenOf(n) == UNION {tr[2] : tr \in node[n].trans}
Unsat(n) == node[n].hmap = {}
JointlyUnsat(S) == ~ \E s \in State : \A m \in S : s \in node[m].hmap

caller == calls[Len(calls)]
SetCaller(fr) == calls' = [calls EXCEPT ![Len(calls)] = fr]
InPassTwo == pc = "PassTwo" /\ calls # <<>> /\ ret = NULL

Result(n, unsat) == [st |-> n, unsat |-> unsat]

\* Has a state with the key of n been entered?
Seen(n) == \E m \in passtwoallstates : Key(node[m]) = Key(node[n])

\* The call of PassTwo for state n, by a caller whose frames are `frames'.
EnterPassTwo(n, frames) ==
    LET lit  == mType[node[n].amap] = "ORLit"
        and  == mType[node[n].amap] = "AND"
        next == IF lit /\ node[n].acc THEN {} ELSE ChildrenOf(n)
    IN  IF Seen(n)
        THEN /\ ret' = Result(n, Unsat(n))
             /\ calls' = frames
             /\ UNCHANGED passtwoallstates
        ELSE /\ passtwoallstates' = passtwoallstates \cup {n}
             /\ calls' = Append(frames,
                   [st |-> n, nextset |-> IF and THEN next ELSE {}, cores |-> {},
                    pruned |-> ~and, todo |-> IF and THEN {} ELSE next,
                    res |-> IF lit THEN node[n].acc /\ Unsat(n) ELSE ~and])
             /\ ret' = NULL

-----------------------------------------------------------------------------
InitTwo ==
    /\ Init
    /\ passtwoallstates = {}
    /\ calls = <<>>
    /\ ret = NULL
    /\ freed = {}
    /\ done = FALSE

StartPassTwo ==
    /\ pc = "PassTwo"
    /\ passtwoallstates = {}
    /\ EnterPassTwo(1, <<>>)
    /\ UNCHANGED <<passOneVars, freed, done>>

\* Faulty: any set of children is taken for a core.
FindCoreUnchecked ==
    /\ InPassTwo
    /\ ~caller.pruned
    /\ JointlyUnsat(caller.nextset)
    /\ \E core \in SUBSET caller.nextset \ {{}} :
          SetCaller([caller EXCEPT !.nextset = @ \ core, !.cores = @ \cup {core}])
    /\ UNCHANGED <<passOneVars, passtwoallstates, ret, freed, done>>

\* Faulty: the core just found stays in nextset.
FindCoreKept ==
    /\ InPassTwo
    /\ ~caller.pruned
    /\ \E core \in SUBSET caller.nextset :
          /\ JointlyUnsat(core)
          /\ SetCaller([caller EXCEPT !.cores = @ \cup {core}])
    /\ UNCHANGED <<passOneVars, passtwoallstates, ret, freed, done>>

\* The remaining children of an AND state are inconsistent: z3 returns some
\* core of their HMaps, which becomes an alternative.
FindCore ==
    /\ InPassTwo
    /\ ~caller.pruned
    /\ \E core \in SUBSET caller.nextset :
          /\ JointlyUnsat(core)
          /\ SetCaller([caller EXCEPT !.nextset = @ \ core, !.cores = @ \cup {core}])
    /\ UNCHANGED <<passOneVars, passtwoallstates, ret, freed, done>>

\* Faulty: the search for cores stops at the first one.
CutEdgesAtOnce ==
    LET n == caller.st
        trans == IF caller.cores = {} THEN node[n].trans
                 ELSE {<<Eps, core>> : core \in caller.cores}
    IN  /\ InPassTwo
        /\ ~caller.pruned
        /\ caller.cores # {} \/ ~JointlyUnsat(caller.nextset)
        /\ node' = [node EXCEPT ![n].trans = trans]
        /\ SetCaller([caller EXCEPT !.pruned = TRUE, !.res = caller.cores # {},
                                    !.todo = UNION {tr[2] : tr \in trans}])
        /\ UNCHANGED <<word, allStates, stack, pc, passtwoallstates, ret, freed, done>>

\* Faulty: the children of a satisfiable conjunction are not visited.
CutEdgesUnsatOnly ==
    LET n == caller.st
        trans == IF caller.cores = {} THEN node[n].trans
                 ELSE {<<Eps, core>> : core \in caller.cores}
    IN  /\ InPassTwo
        /\ ~caller.pruned
        /\ ~JointlyUnsat(caller.nextset)
        /\ node' = [node EXCEPT ![n].trans = trans]
        /\ SetCaller([caller EXCEPT !.pruned = TRUE, !.res = caller.cores # {},
                                    !.todo = UNION caller.cores])
        /\ UNCHANGED <<word, allStates, stack, pc, passtwoallstates, ret, freed, done>>

\* No further core: the alternatives found replace the edges of the state.
CutEdges ==
    LET n == caller.st
        trans == IF caller.cores = {} THEN node[n].trans
                 ELSE {<<Eps, core>> : core \in caller.cores}
    IN  /\ InPassTwo
        /\ ~caller.pruned
        /\ ~JointlyUnsat(caller.nextset)
        /\ node' = [node EXCEPT ![n].trans = trans]
        /\ SetCaller([caller EXCEPT !.pruned = TRUE, !.res = caller.cores # {},
                                    !.todo = UNION {tr[2] : tr \in trans}])
        /\ UNCHANGED <<word, allStates, stack, pc, passtwoallstates, ret, freed, done>>

\* Faulty: every disjunct is visited, and the last result is kept.
VisitAll == caller.todo # {}

\* `res && child->PassTwo': the disjuncts after a satisfiable one are not visited.
MoreToVisit ==
    /\ caller.todo # {}
    /\ mType[node[caller.st].amap] = "OR" => caller.res

Visit ==
    /\ InPassTwo
    /\ caller.pruned
    /\ MoreToVisit
    /\ \E m \in caller.todo :
          EnterPassTwo(m, [calls EXCEPT ![Len(calls)].todo = @ \ {m}])
    /\ UNCHANGED <<passOneVars, freed, done>>

\* The caller looks at the result; an AND state ignores it.
Resume ==
    /\ calls # <<>>
    /\ ret # NULL
    /\ SetCaller(IF mType[node[caller.st].amap] = "AND" THEN caller
                 ELSE [caller EXCEPT !.res = ret.unsat])
    /\ ret' = NULL
    /\ UNCHANGED <<passOneVars, passtwoallstates, freed, done>>

ReturnFromPassTwo ==
    /\ InPassTwo
    /\ caller.pruned
    /\ ~MoreToVisit
    /\ ret' = Result(caller.st, caller.res)
    /\ calls' = SubSeq(calls, 1, Len(calls) - 1)
    /\ UNCHANGED <<passOneVars, passtwoallstates, freed, done>>

\* Faulty: every state that was not entered is deleted.
DeleteAnyUnseen ==
    /\ calls = <<>>
    /\ ret # NULL
    /\ ~done
    /\ freed' = (1..Len(node)) \ passtwoallstates
    /\ done' = TRUE
    /\ UNCHANGED <<passOneVars, passtwoallstates, calls, ret>>

\* MakeAFAutProof: delete the states of allStates whose key was not entered.
DeleteUnseen ==
    /\ calls = <<>>
    /\ ret # NULL
    /\ ~done
    /\ freed' = {n \in allStates : ~Seen(n)}
    /\ done' = TRUE
    /\ UNCHANGED <<passOneVars, passtwoallstates, calls, ret>>

PassTwoNext ==
    \/ StartPassTwo \/ FindCore \/ CutEdges \/ Visit \/ Resume
    \/ ReturnFromPassTwo \/ DeleteUnseen

Progress ==
    \/ PassOneNext /\ UNCHANGED passTwoVars
    \/ PassTwoNext

\* The trace is an error trace, or PassFour takes over.
Finished == (pc = "Error" \/ done) /\ UNCHANGED vars

SpecTwo == InitTwo /\ [][Progress \/ Finished]_vars
FairSpecTwo == SpecTwo /\ WF_vars(Progress)

-----------------------------------------------------------------------------
(***************************************************************************)
(* Properties.                                                             *)
(***************************************************************************)
TypeOKTwo ==
    /\ TypeOK
    /\ passtwoallstates \subseteq 1..Len(node)
    /\ calls \in Seq(PruneCall)
    /\ ret \in {NULL} \cup [st : 1..Len(node), unsat : BOOLEAN]
    /\ freed \subseteq allStates
    /\ done \in BOOLEAN

\* PassTwo returns true for exactly the states whose HMap is unsatisfiable
\* (PassTwo.cpp:16), although a disjunction stops at its first satisfiable
\* disjunct, a known key is not traversed and a conjunction looks for cores.
ReturnExact == ret # NULL => ret.unsat = Unsat(ret.st)

\* When the pass is over, the states it has entered form a refutation: an
\* unsatisfiable state has an alternative, each of its alternatives is
\* inconsistent -- jointly for a conjunction, child by child otherwise -- and
\* for every state in an alternative one with its key was entered too, so that
\* the refutation goes on down to accepting states.
Refutation ==
    done => \A n \in passtwoallstates :
        (Unsat(n) /\ ~node[n].acc) =>
            /\ mType[node[n].amap] # "OR" => node[n].trans # {}
            /\ \A tr \in node[n].trans :
                  IF mType[node[n].amap] = "AND" THEN JointlyUnsat(tr[2])
                  ELSE \A m \in tr[2] : Unsat(m)
            /\ \A m \in ChildrenOf(n) : Seen(m)

\* All cores have been found, after removing them one by one: the cores of a
\* conjunction share no child, and the conjuncts in none of them are
\* consistent under the residual word (PassTwo.cpp:70).
AllCoresFound ==
    done => \A n \in passtwoallstates :
        mType[node[n].amap] = "AND" =>
            /\ \A t1, t2 \in node[n].trans : t1 # t2 => t1[2] \cap t2[2] = {}
            /\ \E s \in State : \A f \in Args[node[n].amap] :
                  \/ \E m \in ChildrenOf(n) : node[m].amap = f
                  \/ s \in WordPre(word, node[n].rword, Meaning[f])

\* A state that was entered keeps its children alive, unless it is a
\* disjunction that stopped at a satisfiable disjunct.
ChildrenSurvive ==
    \A n \in passtwoallstates :
        (mType[node[n].amap] = "OR" => Unsat(n)) => ChildrenOf(n) \cap freed = {}

\* PassTwo returns and the deletion takes place, unless the trace is an error.
TerminationTwo == <>(pc = "Error" \/ done)

\* "passtwoallstates contain only those states which survived extinction..
\* So we can delete all other states as thy become unreachable as well"
\* (AFAut.cpp:232-233): no deleted state can be reached from the root, which
\* is where PassFour starts.
ReachableFrom(S) ==
    LET R[i \in 0..Len(node)] ==
            IF i = 0 THEN S
            ELSE LET before == R[i-1] IN before \cup UNION {ChildrenOf(n) : n \in before}
    IN  R[Len(node)]

DeletedUnreachable == freed # {} => ReachableFrom({1}) \cap freed = {}
=============================================================================
