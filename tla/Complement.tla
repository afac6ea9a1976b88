----------------------------- MODULE Complement -----------------------------
(***************************************************************************)
(* AFAut::Complement and RecComplement: the proof automaton is turned, in  *)
(* place, into one that accepts the words it did not accept.  A depth-     *)
(* first traversal negates the acceptance of every state it meets and      *)
(* replaces its alternatives on every symbol by those of the negation: one *)
(* state out of each alternative.  A missing transition becomes one to the *)
(* new state ErrorState, which accepts everything.                         *)
(*                                                                         *)
(* RecComplement is recursive: `stack' is its call stack.                  *)
(***************************************************************************)
EXTENDS Alternating

CONSTANTS
    Automata,       \* the automata Complement is called for
    ErrorState,     \* newerrorstate
    NULL,
    Words           \* the words whose acceptance is compared

OldState == AFAState \ {ErrorState}

(***************************************************************************)
(* ErrorState is new.  No transition of the automata leads to the empty    *)
(* set of states: the transitions PassFourNew builds come from the edges   *)
(* of the tree, which have at least one target.                            *)
(***************************************************************************)
ASSUME AutomataAssumption ==
    /\ ErrorState \in AFAState
    /\ NULL \notin AFAState
    /\ Words \subseteq Seq(mAllSyms)
    /\ \A a \in Automata :
          /\ a \in Automaton
          /\ a.mInit # ErrorState
          /\ a.mIsAccepted \subseteq OldState
          /\ \A alt \in a.zero : alt \subseteq OldState
          /\ \A q \in AFAState, sym \in mAllSyms : \A alt \in a.mTransitions[<<q, sym>>] :
                alt # {} /\ alt \subseteq OldState

VARIABLES
    original,       \* the automaton Complement was called for
    falseacc,       \* its unsatisfiable state, if PassFourNew has found one
    afa,            \* the same object, as it is being changed
    mapseenset,     \* the states RecComplement has been entered for
    rootTodo,       \* the states Complement has still to call RecComplement for
    stack,          \* the calls of RecComplement that have not returned
    pc

vars == <<original, falseacc, afa, mapseenset, rootTodo, stack, pc>>

\* One call of RecComplement: the symbols still to be handled, the one that is
\* being handled (if any), and the targets on it still to be visited.
Call == [st : OldState, syms : SUBSET mAllSyms, cur : SUBSET mAllSyms, todo : SUBSET OldState]

top == stack[Len(stack)]
SetTop(frame) == stack' = [stack EXCEPT ![Len(stack)] = frame]
InCall == pc = "rec" /\ stack # <<>>

\* One state out of each of the sets of states.
Choices(alternatives) ==
    LET picks == {c \in [alternatives -> UNION alternatives] :
                     \A alt \in alternatives : c[alt] \in alt}
    IN  {{c[alt] : alt \in alternatives} : c \in picks}

\* Faulty: a missing transition stays missing.
NegatedNoError(alternatives) ==
    {alt \in Choices(alternatives) : alternatives # {} /\ falseacc \notin alt}

\* The alternatives of the negation, without those that require the
\* unsatisfiable state: nothing will be accepted from it any more.
Negated(alternatives) ==
    IF alternatives = {} THEN {{ErrorState}}
    ELSE {alt \in Choices(alternatives) : falseacc \notin alt}

Negate(q, S) == IF q \in S THEN S \ {q} ELSE S \cup {q}

-----------------------------------------------------------------------------
\* A state with an unsatisfiable formula is accepting, and PassFourNew gives it
\* a self loop on every symbol.
FalseStates(a) ==
    {q \in a.mIsAccepted : \A sym \in mAllSyms : {q} \in a.mTransitions[<<q, sym>>]}

Init ==
    /\ original \in Automata
    /\ falseacc \in FalseStates(original) \cup {NULL}
    /\ afa = original
    /\ mapseenset = {}
    /\ rootTodo = {}
    /\ stack = <<>>
    /\ pc = "start"

\* Complement up to the first call of RecComplement: the new error state.
AddErrorState ==
    /\ pc = "start"
    /\ afa' = [afa EXCEPT
           !.mIsAccepted = @ \cup {ErrorState},
           !.mTransitions = [d \in DOMAIN @ |-> IF d[1] = ErrorState THEN {{ErrorState}} ELSE @[d]]]
    /\ rootTodo' = IF afa.lit THEN {afa.mInit} ELSE UNION afa.zero
    /\ pc' = "rec"
    /\ UNCHANGED <<original, falseacc, mapseenset, stack>>

\* Faulty: a state is marked as seen when its call returns.
RecComplementLate(q, frames) ==
    IF q \in mapseenset
    THEN /\ stack' = frames
         /\ UNCHANGED <<afa, mapseenset>>
    ELSE /\ mapseenset' = mapseenset \cup {frames[i].st : i \in 1..Len(frames)}
         /\ afa' = [afa EXCEPT !.mIsAccepted = Negate(q, @)]
         /\ stack' = Append(frames, [st |-> q, syms |-> mAllSyms, cur |-> {}, todo |-> {}])

\* Faulty: the acceptance is negated before the state is looked up.
RecComplementNegateFirst(q, frames) ==
    /\ afa' = [afa EXCEPT !.mIsAccepted = Negate(q, @)]
    /\ mapseenset' = mapseenset \cup {q}
    /\ stack' = IF q \in mapseenset THEN frames
                ELSE Append(frames, [st |-> q, syms |-> mAllSyms, cur |-> {}, todo |-> {}])

\* The call of RecComplement for q by a caller whose frames are `frames'.
RecComplement(q, frames) ==
    IF q \in mapseenset
    THEN /\ stack' = frames
         /\ UNCHANGED <<afa, mapseenset>>
    ELSE /\ mapseenset' = mapseenset \cup {q}
         /\ afa' = [afa EXCEPT !.mIsAccepted = Negate(q, @)]
         /\ stack' = Append(frames, [st |-> q, syms |-> mAllSyms, cur |-> {}, todo |-> {}])

VisitRoot ==
    /\ pc = "rec"
    /\ stack = <<>>
    /\ \E q \in rootTodo :
          /\ rootTodo' = rootTodo \ {q}
          /\ RecComplement(q, stack)
    /\ UNCHANGED <<original, falseacc, pc>>

\* The next symbol of the call on top.
NextSymbol ==
    /\ InCall
    /\ top.cur = {}
    /\ \E sym \in top.syms :
          SetTop([top EXCEPT !.syms = @ \ {sym}, !.cur = {sym},
                             !.todo = UNION afa.mTransitions[<<top.st, sym>>]])
    /\ UNCHANGED <<original, falseacc, afa, mapseenset, rootTodo, pc>>

\* Faulty: only one target of a transition is visited.
VisitOneTarget ==
    /\ InCall
    /\ \E q \in top.todo :
          RecComplement(q, [stack EXCEPT ![Len(stack)].todo = {}])
    /\ UNCHANGED <<original, falseacc, rootTodo, pc>>

\* Faulty: the iterator over the targets does not advance.
VisitTargetStuck ==
    /\ InCall
    /\ \E q \in top.todo : RecComplement(q, stack)
    /\ UNCHANGED <<original, falseacc, rootTodo, pc>>

VisitTarget ==
    /\ InCall
    /\ \E q \in top.todo :
          RecComplement(q, [stack EXCEPT ![Len(stack)].todo = @ \ {q}])
    /\ UNCHANGED <<original, falseacc, rootTodo, pc>>

\* All targets on the symbol have been visited: replace the alternatives.
ReplaceTransitions ==
    /\ InCall
    /\ top.todo = {}
    /\ \E sym \in top.cur :
          /\ afa' = [afa EXCEPT !.mTransitions[<<top.st, sym>>] = Negated(@)]
          /\ SetTop([top EXCEPT !.cur = {}])
    /\ UNCHANGED <<original, falseacc, mapseenset, rootTodo, pc>>

ReturnFromRec ==
    /\ InCall
    /\ top.syms = {} /\ top.cur = {}
    /\ stack' = SubSeq(stack, 1, Len(stack) - 1)
    /\ UNCHANGED <<original, falseacc, afa, mapseenset, rootTodo, pc>>

\* The rest of Complement: the alternatives of an initial state that is not
\* an ORLit.
Finish ==
    /\ pc = "rec"
    /\ stack = <<>>
    /\ rootTodo = {}
    /\ afa' = IF afa.lit THEN afa ELSE [afa EXCEPT !.zero = Choices(@)]
    /\ pc' = "done"
    /\ UNCHANGED <<original, falseacc, mapseenset, rootTodo, stack>>

ComplementNext ==
    \/ AddErrorState \/ VisitRoot \/ NextSymbol \/ VisitTarget
    \/ ReplaceTransitions \/ ReturnFromRec \/ Finish

Returned == pc = "done" /\ UNCHANGED vars

Next == ComplementNext \/ Returned

Spec == Init /\ [][Next]_vars
FairSpec == Spec /\ WF_vars(ComplementNext)

-----------------------------------------------------------------------------
(***************************************************************************)
(* Properties.                                                             *)
(***************************************************************************)
TypeOK ==
    /\ original \in Automata
    /\ falseacc \in OldState \cup {NULL}
    /\ afa \in Automaton
    /\ mapseenset \subseteq OldState
    /\ rootTodo \subseteq OldState
    /\ stack \in Seq(Call)
    /\ \A i \in 1..Len(stack) : stack[i].st \in mapseenset
    /\ pc \in {"start", "rec", "done"}

\* Is symbol sym of state q still to be replaced by a call that is under way?
Pending(q, sym) ==
    \E i \in 1..Len(stack) : stack[i].st = q /\ sym \in stack[i].syms \cup stack[i].cur

\* However the states are shared and the cycles run, a state's acceptance is
\* negated once, when it is seen first, and its alternatives on each symbol
\* are replaced once (AFAut.cpp:329-393).
NegatedOnce ==
    \A q \in OldState :
        /\ q \in afa.mIsAccepted <=> (q \in mapseenset <=> q \notin original.mIsAccepted)
        /\ \A sym \in mAllSyms :
              afa.mTransitions[<<q, sym>>] =
                  IF q \in mapseenset /\ ~Pending(q, sym)
                  THEN Negated(original.mTransitions[<<q, sym>>])
                  ELSE original.mTransitions[<<q, sym>>]

\* No state that keeps its old meaning can be reached from one that was
\* negated, nor from the initial state (AFAut.cpp:313, 367).
NoneLeftOut ==
    pc = "done" =>
        /\ IF afa.lit THEN afa.mInit \in mapseenset ELSE UNION afa.zero \subseteq mapseenset
        /\ \A q \in mapseenset, sym \in mAllSyms :
              UNION afa.mTransitions[<<q, sym>>] \subseteq mapseenset \cup {ErrorState}

\* "Complement this AFA" (AFAut.cpp:264): the result accepts exactly the words
\* the automaton did not accept.
LanguageComplemented ==
    pc = "done" => \A w \in Words : AutomatonAccepts(afa, w) <=> ~AutomatonAccepts(original, w)

\* Every call of RecComplement returns, whatever cycles the automaton has.
Termination == <>(pc = "done")
=============================================================================
