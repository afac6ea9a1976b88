# ProofTraPar (llvm-verify-pass) in TLA+

ProofTraPar is an LLVM pass that verifies assertions of a multi-threaded
program. It builds an automaton of all interleavings that end at an assertion
and checks one trace after the other. From the refutation of an infeasible trace
it constructs an alternating automaton of traces that are infeasible for the same
reason, and subtracts their language from what is still to be checked.
The program is correct when nothing is left, and erroneous when a trace is
feasible.

This directory holds TLA+ models of the parts of that loop, TLC configurations
that check them on small instances, and proofs checked by TLAPS.

    tlc -config PassOne.cfg MCPassOne        one run
    tlapm TreeProofs.tla                     one proof module

## The system

Everything is sequential: one call of the pass on one LLVM module. What is hard
is the interplay of recursive passes over shared, mutable, manually deleted
states, worklists whose order nobody fixed, and the correctness of what the
passes compute.

| Component | Code | State | Operations | Correct when |
|---|---|---|---|---|
| Program | `lib/Program.cpp` | instruction list, per-thread graphs, symbol maps | `ParseThread`, `CreateAutGraph`, `MakeOldInterface` | every path of a thread is a path of its graph and every symbol means its instruction |
| SCTransSystem | `lib/SCTransSystem.cpp` | a libfaudes generator | `BuildSCTS`, `ReverseGenerator`, `GetWord` | the generator has the reversed interleavings; `GetWord` finds a shortest one |
| Driver | `lib/SafetyVerificationPass.cpp` | the generator of the traces left | `test_bench` | it ends with the right verdict |
| Utils | `lib/Utils.cpp` | - | `GetTokens`, `ReverseWord`, `GetLastSymbol`, `GetLabel` | a word turned round has the same labels, each once |
| PassOne | `lib/AFA/AFAState.cpp` | a tree of `AFAState`s, the map `allStates` | `PassOne`, `HelperAddStateIfAbsent` | the HMap of a state is the pre-image of its formula; the verdict on the trace is right |
| PassTwo | `lib/AFA/PassTwo.cpp`, `AFAut.cpp:221-244` | the edges of the tree, `passtwoallstates`, the deleted states | `PassTwo`, deletion | what is left is a refutation and none of it is deleted |
| PassFour | `lib/AFA/PassFourWeak.cpp`, `PassFourAFA.cpp` | a new automaton over copies of the states | phases zero and one, links, equivalence classes, self loops, `trueinit` | only infeasible traces are accepted, and the refuted one is |
| Complement | `lib/AFA/AFAut.cpp:267-395` | a second automaton | `Complement`, `RecComplement` | it accepts the other words |
| Intersection | `lib/AFA/AFAut.cpp:666-771`, `PassFourAFA.cpp:352-378` | `seenmap`, `workset`, the result generator | `Intersection`, `GetConjunctedTransitions` | the result has the common words |
| Output | `lib/AFA/PassThree.cpp` | - | dot files | not modelled: pure output |
| z3, libfaudes, LLVM | - | - | - | external: what the code asks of them is a constant with assumptions |

The driver calls `GetWord` on the generator, `MakeAFAutProof` (PassOne, the
verdict, PassTwo, the deletion, PassFour, Complement) on the word, and
`Intersection` on the generator and the automaton; `Deterministic` and
`aStateMin` of libfaudes prepare the generator for the next round. PassOne and
PassTwo share the states of the tree, which `MakeAFAutProof` owns and deletes
through `allStates`. PassFour starts from the root of what PassTwo has left.

The models follow these interfaces. `SCTransSystem` extends `Program`, `PassTwo`
extends `PassOne` and `PassFour` extends `PassTwo`: the later pass starts from the final states
of the earlier one. `TestBench` sees the passes by what they promise, as
assumptions, and each of these is a property of the module of the pass:

| What `TestBench` assumes | Where it is a property |
|---|---|
| a trace that does not end at an assertion goes on after one that is in the generator too (`OriginalAssumption`) | `EndsAtAssertion` of `SCTransSystem` (proved for functions whose blocks all branch, return or call) |
| `GetWord` returns a shortest word, or says that there is none | `Shortest`, `NoneIsEmpty` of `GetWord` (proved) |
| a trace is reported if and only if it is feasible | `VerdictExact` of `PassOne` (proved) |
| the proof automaton accepts what goes on after an accepted trace (`KeepsGoingOn`) | `GoesOn` of `PassFour` (proved) |
| subtracting its language is what `Complement` and `Intersection` do | `LanguageComplemented`, `LanguageExact` (proved) |

Two things it does *not* assume, because the code does not ensure them: that the proof automaton accepts the
trace it was built from, and that it accepts no feasible one. The runs `PassFourLost` and `PassFourValid`
show automata that fail at each. What follows from the first, that a round makes progress, and
from the second, that "correct" is right, therefore holds of the loop only on
the conditions that its properties name.

The hard behaviours, and the properties that each needs, are listed with their
lines under `hazards` in `PROJECT.json`.

## The modules

| Module | Contents |
|---|---|
| `Verification` | the abstract specification: traces are refuted until one is feasible or none is left |
| `TestBench` | the loop of the driver, a refinement of `Verification` |
| `TestBenchProofs` | its invariants, and that it implements `Verification` (TLAPS) |
| `Program` | the parsing of the functions, the numbers of the instructions, the graphs of the threads |
| `SCTransSystem` | the generator of all traces, composed with `Program` |
| `SCTransSystemProofs` | the invariants of both: numbers and nodes, symbols that are apart, the words of the generator, the instructions a graph follows (TLAPS) |
| `GetWord` | the search for the next trace |
| `GetWordProofs` | that the word is a shortest one, and none is missed (TLAPS) |
| `TraceLogic` | the symbols, one execution step of each, and their pre-images |
| `PassOne` | the first pass, extends `TraceLogic` |
| `PassTwo` | the second pass and the deletion, composed with `PassOne` |
| `TreeProofs` | the pre-images of `TraceLogic` are exact; the type invariant of `PassOne`, exactness of its HMaps and of the verdict; the invariants of `PassTwo`: what it returns, the cores, the refutation and the deletion (TLAPS) |
| `PassFour` | the proof automaton, composed with `PassTwo` |
| `PassFourProofs` | that its classes keep their annotations, and when it accepts no feasible trace (TLAPS) |
| `Alternating` | generators and alternating automata, and the words they accept |
| `AlternatingProofs` | induction on the length of a word, the equations of acceptance (TLAPS) |
| `Complement` | the negation in place of the proof automaton |
| `ComplementProofs` | its invariants, and that it complements the language (TLAPS) |
| `Intersection` | the product with the complemented proof automaton |
| `IntersectionProofs` | its invariants, and that the language is the intersection (TLAPS) |
| `MCFormulas` | the small program of the runs of the passes |
| `MCFunctions` | the functions of the run of `SCTransSystem` |
| `MCTestBench`, `MCSCTransSystem`, `MCGetWord`, `MCPassOne`, `MCPassTwo`, `MCPassFour`, `MCComplement`, `MCIntersection` | instances for TLC |

### Verification, TestBench

`Verification` has no automata: the state is the set of the traces left, the set of those that
were taken for refuted, and the verdict. A round enlarges the second and takes away from the first what is in it and
nothing else; an error needs a feasible trace that is left, and success an empty set. Hence "correct" is wrong
only if a feasible trace was taken for a refuted one, which is all that the loop by itself can promise.

`TestBench` has one action per call of the loop in `test_bench`: `NoneLeft`,
`TakeWord` (`GetWord` and `ReverseWord`), `GetEndStateAssertion`, `ErroneousTrace`, `Refute` and `ProofAborts` (the
outcomes of `MakeAFAutProof`: it returns false, returns an automaton, or fails the assertion that
`PassFourAborted` is about), and `Subtract` (`Intersection`, `Deterministic`
and `aStateMin`). The history variable `refuted` collects what the proof automata of all rounds accept.
An automaton is represented by its language. Words of the generator run
backwards: `rev` is the trace, `revword` what the generator reads. `GetTokens` cuts a word at the letter
`L`, so that its first token is what stands before the first label (`Bare`), and `ReverseWord`
leaves that token out. The C++ loop dies in `GetEndStateAssertionFromWord` when the last symbol
is not an assertion; here that is `pc = "aborted"`, and `AssertionFound` says it does not happen.
That is not obvious: the generator has traces that go on after the assertion, and only their
being longer than the ones they go on from, in every round, keeps them from being taken.

### Program, SCTransSystem

A module is a sequence of functions, a function a sequence of blocks of instructions. One action of
`Program` is one instruction of one opcode class (`ParseAssign` for the five that build an
assignment, `ParseAtomicCmpXchg`, `ParsePHI`, `ParseCondBr`, ...), `FinishThread` is
`CreateAutGraph` and the edge of the assertion, `MakeOldInterface` collects the assertion symbols.
The reference is `Executes`, a step of the function itself.

What the code does, and the model with it:

* `InstructionComparator` (`Program.cpp:148`) is no strict weak order: with an assignment, an
  assumption and a swap in one map the lookup may miss an instruction that is there. `FindInstruction` is
  then nondeterministic: a known number, or a new one. `PathsExact` and `SymbolsApart` hold all
  the same.
* Any call marks its block as failing, whatever it calls, and the instructions of that block
  are dropped; an edge into it leads to node 1, before the assertion.
* A block without a branch (its terminator is a `switch`, or `unreachable`) gets no nodes, its
  `first_nd` stays 0, and edges into it lead to node 2, behind the assertion.
* A thread that returns starts again at its first block.
* Of several PHI nodes of a block only the assignments of the first are kept
  (`Program.cpp:716`): with two, `PathsExact` does not hold. The functions of the run have one.
* `CreateFAutomataFaudes` asserts that the start leads to node 3, which fails when the first block calls
  or has no branch; `ShapeRight` is that assertion, and `stage = "aborted"` its failure.
* `ParseGlobalVariables` records the initial values in `mInitString`, which nothing reads:
  the generator starts from any values, although the comment at
  `SafetyVerificationPass.cpp:42` says it has the initial ones.

`SCTransSystem` has one action per thread converted (`CreateNext`) and composed (`ComposeNext`), the marking of
the states behind an assertion, and the determinisation and reversal.
`Parallel` and `Deterministic` are what libfaudes documents of its functions.

### TraceLogic

`Program::MakeOldInterface` gives a symbol one of three meanings, the maps
`mRWLHRHMap`, `mAssumeLHRHMap` and `mCASLHRHMap`. `Step(a, s, t)` is their
operational meaning; `Pre(a, phi)` is what `PassOne` computes, in the order in
which it substitutes: for `ret = cas(ptr, old, new)` the result is
`phi[ptr -> new][ret -> 1] /\ ptr = old  \/  phi[ret -> 0] /\ ptr # old`.
A formula is the set of the states that satisfy it and an expression is the
function that evaluates it, so logical equivalence is equality. `WordPre` is
the reference definition: the states from which some execution of a prefix of
the trace ends in the formula. `SSAAssumption` says what SSA form gives: a
compare-and-swap does not read the register it sets, nor store to it.

### PassOne

The states get numbers in the order of their allocation (`node`); `stack`
represents the C++ call stack, one record per active call with the locals that
live across the recursive call. Residual words are always prefixes of the trace
and are represented by their length. One action is one stretch of code between two
calls: `VisitArg` (the next argument of a conjunction or disjunction),
`FinishAnd` / `FinishOr` (joining the HMaps), `Accept`, `Skip` (an assignment to
a variable that is not free in the formula), `ProcessSym` (the recursive call for
a symbol that matters), `FinishSym`, and `CheckRoot` (the verdict in
`MakeAFAutProof`). `HelperAddStateIfAbsent` always answers "not present", so
`Recurse` always allocates, while the map `allStates` keeps the first state of
each key (`AFAState.cpp:606-647`).

z3 appears as the constants `Formula`, `mType`, `Args`, `Meaning` and
`FreeVars`: the expressions, their top connective, their arguments, and the states that
satisfy them. `Simplified(a, phi)` is the set of the expressions that may come back for the pre-image of a
literal, in the shapes in which the code builds them (`AFAState.cpp:356-521`): a literal for an assignment, the conjunction of
two literals for an assumption, and for a swap the disjunction of its two outcomes, each guarded
by the comparison or its negation. z3 may drop a member it can do without or find a
contradiction; it does not distribute one connective over the other. `HelperIsUnsat` and `HelperIsValid` put the
constants in place of what is unsatisfiable or valid (`Decided`). Of the constants it is assumed
that connectives, arguments and meanings agree (`FormulaAssumption`), and that a conjunction or disjunction has arguments, as every z3 application of
`and` or `or` that survives `simplify` does (`ShapeAssumption`). Two different expressions are taken to be
different keys: the code compares hashes (`AFAState.cpp:24`), and a hash
collision is not modelled. Every expression is decided: z3's `unknown` is not modelled either.

### PassTwo

`calls` is the stack of `PassTwo`, `ret` the value a call has just returned. The
loop over the unsat cores is `FindCore`, once per core, and `CutEdges`; z3 may
return *any* inconsistent subset, minimal or not. `Visit` and `Resume` are the
recursive call and the use of its result, `MoreToVisit` has the short circuit of
`res = res && child->PassTwo(...)`. `DeleteUnseen` is the deletion in
`MakeAFAutProof`. The memo table `mUnsatMemoization` is only ever written (the
lookups are commented out) and is left out. An empty `nextset` makes the code take the
address of the first element of an empty vector (`PassTwo.cpp:98`); the model takes what every
build does, a check without assumptions. `ResultAssumption` keeps `NULL`, the absence of a result, apart from
the results.

### PassFour

`PassFourNew` runs on what `PassTwo` and the deletion have left, and its phases are actions:

* `PassFourPhaseOne` collects the literals of the tree and the links `toANDLink`: edges
  to AND and OR states, and additional ones, by which an unsatisfiable literal may go on with the
  refutation of a condition below it (`AssumeInfo`).
* `PassFourPhaseZero` gives an AND or OR state its alternatives, sets of literals, along the
  empty symbol `Eps`.
* `Link`, once per link, replaces an edge by the alternatives of its destination. The order is
  that of addresses, so any is taken. An alternative that is the class of its own source is
  skipped; a destination that stands among several targets fails the assertion "Seriour error"
  (`phase = "aborted"`, `PassFourAFA.cpp:84`).
* `EqClasses` merges literals with the same AMap and HMap; a state of the automaton is that pair. An
  initial AND or OR state stays as it is and is one more of them (`States`).
* `SelfLoops` adds a loop for every symbol that does not write a variable of the AMap, and on all symbols for
  a valid or unsatisfiable one; `trueinit` and `falseaccepted` are the last of these met.
* `TrueInit` makes `trueinit` an alternative of the initial state.

`ReadDeleted` is the case that a state deleted by `MakeAFAutProof` can still be reached (see
`PassTwoDeleted`): the code reads freed memory, and the model says nothing of what follows.

The cores are any inconsistent subsets, here as in `PassTwo`: the code switches unsat
cores on (`PassTwo.cpp:50-52`) and never asks for minimal ones. The model is the wider of the two, since which of
them z3 returns is its own affair. A core that is not minimal may hold a state together with one that another link leads to, and then
`Link` fails its assertion (`PassFourAborted`); what the run `PassFour` checks is said of the automata
that are built. Two HMaps of the same meaning are taken to be one expression here, whereas the code compares hashes of
simplified expressions (`PassFourWeak.cpp:96-101`): where z3 leaves two shapes of one meaning, the code has two classes
that this model merges.

### Alternating, Complement

An automaton of `Alternating` gives a state and a symbol its *alternatives*:
sets of states that must all accept the rest of the word. The code keeps them in
a multimap from symbols to sets of states; two equal entries count once here, which does not
change the language. The transitions on "0" of an initial state that is not an
`ORLit` are the field `zero`. What a word's acceptance means is defined from its last
symbol backwards; this is the reference definition that the language
properties of `Complement` and `Intersection` use, and not a part of the code
(`AFAut::IsAccepted` is never called).

`Complement` changes the automaton while it traverses it. `afa` is the object, `original`
what it was before, `stack` the call stack of `RecComplement`, with the symbols
and targets each call has still to handle. The order of the symbols is
alphabetical in the code and that of the targets is an order of pointers; the model
takes any. A call visits a target for each choice it appears in; only the first of these
visits does anything, and the model has that one. The product of the alternatives is
`Choices`. `falseacc` is the state `PassFourNew` found to be unsatisfiable, or `NULL`: an
accepting state with a self loop on every symbol (`PassFourAFA.cpp:266-269`).
`AutomataAssumption` adds that no edge leads to the empty set, which
`PassFourNew` cannot build: with such an edge `RecComplement` would not visit the targets of the
other alternatives.

### GetWord, Intersection

`GetWord` has one action per iteration of each loop. The sets are walked in any order. `Intersection` represents a state
of the result by its tuple, so `seenmap` is its domain;
two equal alternatives of the root would get two states in the code and the second would stay
unconnected and be removed by `Coaccessible`. `Process` takes any tuple of the
workset: the code takes the first in an order of pointers. `CoReachable` is the
set of states from which a marked state can be reached, as libfaudes
computes it.

## The runs

| Run | Instance | Question |
|---|---|---|
| `PassOne` | one shared variable, two registers, values 0 and 1; three assignments, four assumptions, a compare-and-swap; all traces of up to two instructions and those of three with the swap in the middle, each followed by the assertion; as formulas the comparisons of a variable with a constant or of the registers, the conjunctions of two, and the disjunctions of the two outcomes of a swap | Is the HMap of every finished state the pre-image of its formula (`HMapExact`), and the verdict on the trace right (`VerdictExact`)? Does the recursion end? |
| `PassTwo` | the same program; all traces of up to three instructions and four longer ones | Does a call return whether the HMap is unsatisfiable (`ReturnExact`)? Is what was entered a refutation (`Refutation`), are the cores disjoint and the rest consistent (`AllCoresFound`), do needed children survive the deletion (`ChildrenSurvive`)? |
| `PassTwoDeleted` | `x := 0; r := cas(x, 0, 1); assume r = t; assume t = 0; assert`, must fail | Is every deleted state unreachable, as the comment at `AFAut.cpp:232` says? |
| `PassFour` | two of the assignments, five conditions, the swap; all traces of up to three instructions and three longer ones, all cores; acceptance of all words of up to three symbols | If an automaton is built, does it accept its trace (`TraceAccepted`) and what goes on after accepted traces (`GoesOn`), and do its classes keep what their annotations say (`Annotated`)? |
| `PassFourAborted` | `x := t; assume t = 0; assume x = 1; assume r = 1; assert`, must fail | Is the destination of a link never one of several targets, as the assertion at `PassFourAFA.cpp:84` says? |
| `PassFourValid` | `x := 0; r := cas(x, 0, 1); assume r = t; assume t = 0; assert`, must fail | Are only infeasible traces accepted? |
| `PassFourLost` | `x := 1; r := cas(x, 0, 1); assume x <= 0; assert` with values -1, 0 and 1, must fail | Is the trace itself accepted? |
| `GetWord` | every deterministic generator with three states and two events, at most two marked states; and one that is not deterministic | Is a word returned a shortest one (`Shortest`), and "None" only for an empty language (`NoneIsEmpty`)? |
| `Complement` | 384 alternating automata with three states (one of them unsatisfiable) and two symbols, whose transitions are missing, to one state, to both, or to either; roots with and without "0" edges; with and without the unsatisfiable state handed over; words of up to three symbols | Is every state that is met negated once and completely (`NegatedOnce`), is none of those left out that the result can reach (`NoneLeftOut`), are exactly the rejected words accepted (`LanguageComplemented`), does the recursion end on cycles? |
| `Intersection` | three generators, every alternating automaton of two states and two symbols over four kinds of transitions; words of up to four symbols | Does the result accept the common words, and does the worklist forget or invent nothing? |
| `TestBench` | a loop that sets `x` to 0 and fails when it reads 1, and a second thread that sets it to 1; all interleavings of up to 7 symbols that pass the assertion; a proof automaton covers the trace or misses it, and any one other, which may be feasible, with what goes on after them | Does every round check a trace that ends at an assertion and that no earlier proof automaton accepts (`WordChecked`, `AssertionFound`)? Does the loop implement `Verification` (`KeepsPromise`), is a verdict wrong only because a proof automaton accepted a feasible trace (`VerdictRight`), and does the loop end unless traces are missed again and again (`Verdict`)? |
| `SCTransSystem` | all modules of one or two of four functions (a loop with an assertion inside, a lock, a PHI node behind a conditional, a loop over a PHI node), and one without a thread; words of up to 7 symbols | Has the graph of a thread the instruction sequences of its function (`PathsExact`), are the symbols of threads and assertions apart (`SymbolsApart`), has the generator the interleavings that pass an assertion (`TracesExact`), and with a trace the one it goes on from (`EndsAtAssertion`)? |

The bounds. Two values distinguish success from failure of a swap and both branches of a
condition; with three variables conjunctions and disjunctions nest, an
assignment can be irrelevant, and one meaning comes up in more than one shape. Traces of three instructions and the assertion
reach early acceptance, skipped symbols, splits after a swap, and
duplicate keys. The findings need more: traces of four instructions, or a third
value so that a condition and its split half differ. The formulas are those that come up in the
traces, in the shapes the code builds; what z3 makes of them may be any formula of these shapes and
of the right meaning, which is more than any one version of z3 does. Three states are enough for a cycle, a diamond and a
self loop in `GetWord`. In `Complement` two states that may lead to each other and to
themselves share targets and form cycles, and a call can be entered for a state whose own call
is under way. In `Intersection` an alternation of two states gives every
combination of missing, universal and existential transitions; words of four
symbols exceed the number of tuples on a simple path for most of the instances. The words of
`TestBench` are long enough to go round its loop and to go on after the assertion;
an erroneous trace needs five symbols, so some rounds are over before it is the shortest one left. In
`SCTransSystem` seven symbols pass a loop, an assertion and the start of the next round, and two
threads that run the same function have the same instructions.

Deadlock is checked in all runs: a finished model has an explicit stuttering
action (`Returned`, `Finished`, `FinishedFour`, `Exited`).

`PassTwoDeleted`: the literal `r = t` reads the swap and goes on with the disjunction of `t = 1` and `x = 0`, which is
satisfiable before `x := 0`, and `t = 0` and `x # 0`, which is not. If the first is visited first, the loop stops there
(`PassTwo.cpp:139`); the other one is never entered, its state is deleted, and its parent keeps the
edge. `ChildrenSurvive` states what does hold: of the states that were *entered*, only satisfiable
disjunctions have edges to deleted states. States that were not entered may survive too, when their key is known; their edges
are those that `PassOne` made, and may lead to deleted states as well.

`PassFourAborted`: the conjunction of `r = 1` and `x = 1` has an unsatisfiable child, `x = 1` (`t = 1` and `t = 0`
before `x := t`), and one whose HMap is `r = 1` and `t = 0`. The contradiction of `t = 1` and `t = 0` can also be found
between the two, and if z3 names that core, both are in it. Above it, the literal `r = 1` reads `x = 1` and has two
links on that symbol, to the conjunction and, as that is the condition assumed, to the child `x = 1`. The first becomes the
transition to both children; the second then finds its destination among two targets, and the pass aborts. In the other order it does not.

`PassFourValid`: the core of the root is `{r = t, t = 0}`. The swap turns `r = t` into a disjunction
with a satisfiable member, below which there is a literal whose AMap and HMap are both valid. It gets self loops on
every symbol, and as an alternative of the initial state it makes the automaton
accept everything. `PassFourLost`: the literal `x <= 0` reads the swap and goes on with `x <= 0`
and `x # 0`, whose only alternative is the literal `x <= 0` again, with the same HMap. `Link`
takes it for a self loop and skips it, but the swap writes `x` and no self loop is added: the
automaton rejects the trace, and the loop would check it again for ever.

Each property has a faulty variant of a definition, kept beside the
original and marked `Faulty`, that violates it; the pairs are under `mutants` in
`PROJECT.json`.

### Fairness

The program is one thread that never waits, so the only assumption is weak fairness
of its next step (`WF` of the disjunction of all steps, `GetWordNext`, `BenchNext` and so on); nothing is assumed about which of
several enabled steps is taken. That fairness leaves out crashes, and a z3 call that does not return.
In `TestBench` the traces are finitely many; the real generator has loops, and then the method need
not end.

## The proofs

* `TreeProofs`, `PreExact`: for every symbol, `Pre` is the set of the states
  from which a step can lead into the formula. The case of the swap is the one with
  content: it needs `SSAAssumption`.
* `TreeProofs`, on `PassOne`: `TypeCorrect`, `PassOneHMapExact`, `PassOneVerdictExact`, for
  every program, trace, assertion, and every answer of z3 that `FormulaAssumption` and
  `ShapeAssumption` allow. `HMapExact` alone is not inductive: a frame
  half-way through the word carries a promise. The invariant `IInv` adds that
  skipping has not changed the pre-image of the formula, that the children collected so far
  are finished and cover the arguments already visited, that accepted states
  keep their meaning under the rest of the word, and that the chain of
  frames ends at the root. The lemmas turn an execution of `k` symbols into a step and an
  execution of `k - 1` (`PreExact` used once per symbol), so that no induction
  over the word is needed.
* `TreeProofs`, on `PassTwo`: `TypeCorrectTwo`, `ReturnsExact`, `RefutationSound`, `AllCoresAlwaysFound` and
  `NeededChildrenSurvive`, for every program, trace and assertion, every order of the children and
  every answer of z3, whatever cores it returns. None of the properties is inductive.
  The tree is that of `PassOne`, so `IInvTwo` starts from the invariant there (`IInv`), with the
  addition that only a finished state has edges (`Growing`). `Shapes`
  says how far the edges of each state have been cut: as `PassOne` left them, or, for a conjunction that
  was entered and is past its loop over the cores, only disjoint inconsistent cores and a consistent
  rest. `Calls` relates each frame to the state it is for: in the core loop, `nextset` and the cores
  partition the children (`CoreLoop`); in the loop over the children, those not in `todo` have been
  entered or have a known key, and `res` says whether the ones visited are unsatisfiable (`ChildLoop`,
  `Settled`, `WaitsFor`). Children are allocated after their parents, so the calls under way are in the
  order of the numbers of their states, and none is for a state that is itself under way.
  `ReturnedCalls` keeps what a call has established after it has returned, and `Phases` says that
  `PassOne` is over before the pass begins and that nothing is deleted before it ends. A call for a key that is known
  already returns at once, which is right only because the HMap is part of the key. `RefutationSound` says that the alternatives
  of an entered state are inconsistent and that each of their states was entered itself or has the key of one that was, so that the refutation
  goes on down to accepting states; no child of a conjunction that stays in a core is forgotten (`ChildrenMet`).
* `PassFourProofs`: `TypeCorrectFour`, `AnnotationsSound`, `FeasibleNotAccepted` and `AcceptedGoesOn`, for every program,
  trace and assertion, every order of the links and every choice of cores. The idea that
  carries through the phases is `Covers(C, phi, h)`: whatever word all the classes in `C` can be
  run backwards over into their HMaps, `phi` can be run backwards over into `h`. When `PassTwo` has returned, the children of a state cover it
  (`TreeFinished`, from `IInvTwo`); so do the alternatives of phase zero, by induction on the
  tree from its leaves (`AlternativesSound`), and so does a condition found below an
  unsatisfiable literal, after its symbol is read (`AssumeInfoSound`). `IInvFour` says that of every edge of a literal and of every
  alternative that a link may put in its place (`EdgeOK`, `LinkOK`, `Replaced`), and, once there is
  an automaton, of each of its transitions (`Sound`): merging keeps it because a class has one AMap
  and one HMap, and a self loop because the symbol writes no variable of the AMap. `Annotated` itself
  then follows by induction on the length of the word (`AcceptingCovered`). The root has the negated assertion as its AMap and an
  unsatisfiable HMap, so an accepted word has no execution that fails the assertion, unless it is accepted
  by way of `trueinit`: `FeasibleNotAccepted` names the hypothesis under which that does no harm, no valid
  state or one with an unsatisfiable HMap. `PassFourValid` is the case it excludes.
  `AcceptedGoesOn` has a hypothesis too: `Post` is a literal without variables. In the code every assertion of
  a thread is `false` (`Program.cpp:1138-1142`), and `MakeAFAutProof` starts from `!false`; with a variable in `Post` the root
  would lose its self loop on a symbol that writes it, and the property would be false. It needs that the self loops
  are there to the end (`Loops`), and that words are accepted from the root or from the valid
  state only (`Starts`).
* `AlternatingProofs`: the acceptance of a word is a recursive function on its length.
  Its equations need the existence of a function with these equations, and that needs an
  induction. Both are obtained from the well-founded order of the natural numbers
  (`LessThanWellFounded`: every non-empty set has a minimal element), by an induction over a
  *set* (`NatSetInduction`), which takes no operator as a parameter.
* `ComplementProofs`: `TypeCorrect`, `EachNegatedOnce`, `AllReachableNegated` and
  `ComplementsLanguage`, for every automaton that `AutomataAssumption` allows. `NegatedOnce` is
  not inductive: `IInv` adds that the calls under way are for different states, that each of them
  handles one symbol at a time (`Frames`), and that a target that was not visited is
  owed by a call under way (`TargetsVisited`), from which nothing is left out when the stack is
  empty. The language follows by induction on the symbols that are left: a state
  that was negated accepts them if and only if it did not before. The step is
  `NegatedMeaning`, which also shows why alternatives with the unsatisfiable state may be dropped.
* `IntersectionProofs`: `TypeCorrect`, `WorklistComplete` (what a processed tuple owes),
  `ResultInProduct` (nothing is invented) and `IntersectionExact`, for every generator and
  automaton. When the workset is empty, a tuple leads to a marked one if and
  only if its two parts accept (`TuplesExact`, by induction on the symbols that are left), and
  trimming removes no tuple that does (`TrimmedSame`).
* `GetWordProofs`: `TypeCorrect`, `ReturnsShortest` and `NoneOnlyIfEmpty`, for every finite
  generator. A state is seen when it is popped, so the queue may hold it several times and the usual invariant
  of a breadth-first search, that the queue is the frontier, is false. `IInv` has instead: each queued word leads to its state
  (`OnPaths`); the words are queued in the order of their lengths, which differ by one at most
  (`QueueOrdered`); a transition of a seen state leads to a seen one, to one in the queue or is among
  the edges still to be followed (`Explored`); and everything nearer than the popped word is seen, what is as near is seen or waits
  (`Frontier`). When the queue is empty the seen states are therefore closed under the transitions.
* `SCTransSystemProofs`: `TypeCorrect`, `ThreadsApart`, `TypeCorrectSC`, `NoTraceLost`, `ExactTraces`,
  `AssertionAhead` and `ExactPaths`, for every set of modules that `ModulesAssumption` allows (functions have a body and
  a name of their own, branches stay inside), every outcome of the lookups and words of every length. Four
  arguments follow each other.
  *Parsing* (`IInvParse`): a number is `Owned` by the thread under whose name it stands in `inst_map_`,
  and by one thread only; what a block under construction and a finished graph hold is owned by their thread, and the number
  of an assertion is a new one each time. That is why symbols are apart although a lookup may
  miss an instruction: a miss makes a new number, and a hit is a hit of the same thread. `GraphOK` adds that a graph has one edge for each node and symbol, with nodes
  numbered block after block without overlap (`NodeRanges`, `PhiNodes`, `BlockDeterministic`).
  *Composition* (`IInvSC`): the states that `Parallel` reaches correspond to the combinations of nodes of the first threads
  (`Shuffle`): as no event is common, each step moves one thread by one of its edges. The bounded iteration of the definition
  reaches everything because a set that stopped growing is closed and the pairs are finitely many (`Saturation`).
  The product is deterministic, so the subset construction has singletons only (`DeterministicFacts`), and no set of states
  is lost to its bound.
  *Words*: a word of the reversed automaton is a walk backwards over the product (`Walk`), an interleaving is a run
  of the threads (`Run`), and the two are turned into each other (`PathOfRun`, `RunOfPath`). What is left is where they end: the
  generator accepts after *some* assertion as the last symbol of the trace or at any state behind one. A run with an assertion can be rearranged so that the
  assertion comes last, since the thread that passed it is at node 2 and moves no more (`HitAccepting`), which gives `NoTraceLost` for
  every module. Conversely a marked state has a thread at node 2, and that this thread has passed its assertion needs that
  no other edge leads to node 2 (`AcceptingHit`, `OnlyAsserted`). This is the hypothesis `AllBranching` of the other two: every block has a
  branch, a return or a call. A block that ends in a `switch` gets no nodes, and an edge into it leads to node 2 without an
  assertion; then the automaton has words that are no interleavings of this kind. All modules of the run satisfy it.
  *Instructions* (`IInvPaths`, for `ExactPaths`): the block under construction reflects the instructions parsed so far (`Reflected`):
  what each one means stands in the list under the number the block holds at its place. Since the list only
  grows, a number keeps its meaning whatever a lookup finds or misses. `EdgesAtPhi`, `EdgesAtInst`, `EdgesAtExit`
  and `EdgesAtEnd` say which edges leave a node, and `At` relates a position of the function to its node: the first node
  of the block and the assignments and swaps before the position, or the node of the predecessor before a PHI
  node. Related places have the same instructions next, and each leads to related places (`AlwaysAlike`), so all that `Matched` reaches is
  related (`MatchedAt`). The hypothesis is `Structured`. Part of it LLVM ensures: only the last instruction branches or returns, and a PHI node
  comes first, not in the first block, with one value for each predecessor. The rest it does not: one PHI node in a block at most (with two,
  `PathsExact` is false), a branch, a return or a call in every block, and no call in the first one
  (else the start does not lead to node 3, the assertion of `CreateFAutomataFaudes`). All functions of the run satisfy it.
* `TestBenchProofs`: `TypeCorrect`, `AssertionAlwaysFound`, `EachWordOnce`,
  `VerdictAlwaysRight` and the refinement `ImplementsPromise`, for every set of traces and all proof automata
  of which `GoesOn` is true, whether they accept the trace they were built from or not, and feasible traces or not. `Closed` (a trace left that does not
  end at an assertion goes on after one that is left) is what makes a shortest one
  end at an assertion; it is preserved because what is subtracted goes on too (`KeepsGoingOn`). `RestLeft`
  says that what is left is exactly what no proof automaton so far accepts: a trace that was covered is not
  checked again, and "correct" means that all were covered. `ReverseWordExact` shows that cutting and turning a word
  loses no label.

Only model-checked, and why:

* `TraceAccepted` of `PassFour`, which is a fact about the traces of that run and not about all: it fails in
  `PassFourLost`.
* All termination properties and the `Verdict` of the loop: liveness under fairness is beyond TLAPS. `Verdict` is
  conditional: on a trace that its proof automaton misses every time, as in `PassFourLost`, the loop does not end.

The four properties that fail of the code (`DeletedUnreachable`, `LinkedAlone`, `OnlyInfeasible`, `TraceAccepted`) are the
findings; the theorems above say what does hold instead (`NeededChildrenSurvive`,
`FeasibleNotAccepted`).

## Not modelled, and the plan

Not modelled, and why:

* The vendored headers of libfaudes, which are most of the lines under `src/`, z3 and LLVM: what the
  code asks of them is a constant with assumptions, or an operator that says what they document.
* `PassThree` and the dot files, the registration of the pass: output and boilerplate without state of their own.
* Code that is never called: `IsAccepted` and `GetWord` in `AFAut.cpp:465-664`, `PassHMap`,
  `GetDisjunctedTransitions`, and `ParseGlobalVariables`, whose results are never read.
* Which expression an opcode builds: in `Program` the expression is a value. A multiplication
  (`Program.cpp:846`, no `break`, then a null pointer) and a function without a body
  (`Program.cpp:108`) are undefined behaviour at once and are left out of the instances.
* Collisions of hashes (`AFAState.cpp:24`), different hashes of two shapes of one HMap, and z3's `unknown`.

What could come next: the weakest conditions under which `LinkedAlone` and `TraceAccepted` hold, and the part of
`PathsExact` that is left of a function in which a block has two PHI nodes.
