------------------------------- MODULE Program -------------------------------
(***************************************************************************)
(* Program: from the functions of an LLVM module to one graph for each     *)
(* thread, whose edges carry the numbers of instructions.                  *)
(*                                                                         *)
(* A module is a sequence of functions, a function has a name and a        *)
(* sequence of basic blocks, and a block is a sequence of instructions.    *)
(* What an instruction computes does not matter here: the expressions of   *)
(* an assignment (load, store, add, sub, icmp, xor, extractvalue) or a     *)
(* compare-and-swap are one value, and a condition is one value.           *)
(***************************************************************************)
EXTENDS Integers, Sequences, FiniteSets

CONSTANTS
    Name,           \* the names of functions
    Expr,           \* expressions and conditions
    Modules         \* the modules that may be parsed

\* Blocks are numbered from 1, in the order of the function.
Instruction ==
    [op : {"Assign", "AtomicCmpXchg"}, expr : Expr]
    \cup [op : {"Br"}, target : Nat]
    \cup [op : {"CondBr"}, cond : Expr, then : Nat, else : Nat]
    \cup [op : {"PHI"}, incoming : Seq([block : Nat, expr : Expr])]
    \cup [op : {"Call", "Ret", "Other"}]

Function == [name : Name, blocks : Seq(Seq(Instruction))]

\* The blocks an instruction may go to.
Targets(inst) ==
    CASE inst.op = "Br" -> {inst.target}
      [] inst.op = "CondBr" -> {inst.then, inst.else}
      [] OTHER -> {}

\* What LLVM ensures: names are unique and branches stay in their function.
\* Every function has a body, which the code relies on.
ModulesAssumption ==
    /\ "true" \in Expr
    /\ \A m \in Modules :
          /\ m \in Seq(Function)
          /\ \A i, j \in DOMAIN m : m[i].name = m[j].name => i = j
          /\ \A i \in DOMAIN m :
                LET blocks == m[i].blocks
                IN  /\ blocks # <<>>
                    /\ \A b \in DOMAIN blocks : \A k \in DOMAIN blocks[b] :
                          Targets(blocks[b][k]) \subseteq DOMAIN blocks

ASSUME ModulesAssumption

VARIABLES
    module,
    cur_func,       \* the function being parsed; past the end in MakeOldInterface
    cur_block, cur_inst,
    bb_automata,    \* a BasicBlockGraph for each block of the function
    inst_list_,     \* the instructions, in the order of their numbers
    inst_map_,      \* triples: a thread, an instruction, its number
    thread_names_,  \* the functions that become threads, in their order
    thread_graphs_,
    mAssnMap

parsing == <<cur_func, cur_block, cur_inst, bb_automata, inst_list_, inst_map_,
             thread_names_, thread_graphs_, mAssnMap>>

(***************************************************************************)
(* Instructions: InstructionType has a class and two expressions.          *)
(***************************************************************************)
Assign(e) == <<"kAssign", e, TRUE>>
Cas(e) == <<"cas", e, TRUE>>
Assume(c, b) == <<"kAssume", c, b>>
AssumeTrue == Assume("true", TRUE)

Func == module[cur_func]
thread_name == Func.name
Blocks == DOMAIN Func.blocks
Inst == Func.blocks[cur_block][cur_inst]

EmptyBlock ==
    [has_phi |-> FALSE, has_branch |-> FALSE, is_accepting |-> FALSE,
     inst |-> <<>>, branch_map |-> {}, phi_map |-> {}]

(***************************************************************************)
(* The numbers FindInstruction may return.  InstructionComparator compares *)
(* assignments with assumptions by class but compare-and-swaps with both   *)
(* by the hash of their first expression: it may order an assumption, an   *)
(* assignment and a compare-and-swap in a circle, and then the lookup may  *)
(* miss an instruction that is in the map.                                 *)
(***************************************************************************)
Classes(map) == {e[2][1] : e \in {m \in map : m[1] = thread_name}}

\* Faulty: an instruction is looked up without the thread it belongs to.
FindInstructionAnywhere(t, inst) ==
    LET known == {e[3] : e \in {m \in t.map : m[2] = inst}}
    IN  IF known = {} THEN {Len(t.list)} ELSE known

FindInstruction(t, inst) ==
    LET known == {e[3] : e \in {m \in t.map : m[1] = thread_name /\ m[2] = inst}}
    IN  IF known # {} /\ Classes(t.map) # {"kAssign", "kAssume", "cas"}
        THEN known
        ELSE known \cup {Len(t.list)}

\* Faulty: a new instruction is not added to the list.
InsertUnlisted(t, inst, n) ==
    [list |-> t.list,
     map  |-> IF n = Len(t.list) THEN t.map \cup {<<thread_name, inst, n>>} ELSE t.map,
     nums |-> Append(t.nums, n)]

\* The instruction tables after inst has got the number n.
Insert(t, inst, n) ==
    [list |-> IF n = Len(t.list) THEN Append(t.list, inst) ELSE t.list,
     map  |-> IF n = Len(t.list) THEN t.map \cup {<<thread_name, inst, n>>} ELSE t.map,
     nums |-> Append(t.nums, n)]

Tables == [list |-> inst_list_, map |-> inst_map_, nums |-> <<>>]

\* Every way to number the instructions of a sequence, one after the other.
Numbered(insts) ==
    LET N[k \in 0..Len(insts)] ==
            IF k = 0 THEN {Tables}
            ELSE LET before == N[k-1]
                 IN  UNION {{Insert(t, insts[k], n) : n \in FindInstruction(t, insts[k])} :
                               t \in before}
    IN  N[Len(insts)]

SetTables(t) == inst_list_' = t.list /\ inst_map_' = t.map

-----------------------------------------------------------------------------
(***************************************************************************)
(* CreateAutGraph: 0 is the start, 1 the node before the assertion, 2 the  *)
(* accepting one.  From 3 on the nodes belong to the blocks that are       *)
(* neither accepting nor without a branch, block after block: one for each *)
(* block the flow may come from if the block has a PHI node, the first     *)
(* one, and one after each instruction.                                    *)
(***************************************************************************)
Built(bb) == ~bb.is_accepting /\ bb.has_branch
Incoming(bb) == {p[1] : p \in bb.phi_map}
Size(bb) == Cardinality(bb.phi_map) + 1 + Len(bb.inst)

Start(BB, b) ==
    LET S[i \in 0..Len(BB)] ==
            IF i = 0 THEN 3
            ELSE LET before == S[i-1]
                 IN  IF Built(BB[i]) THEN before + Size(BB[i]) ELSE before
    IN  S[b-1]

\* A block that is not built keeps the zero it was initialised with.
first_nd(BB, b) == IF Built(BB[b]) THEN Start(BB, b) + Cardinality(BB[b].phi_map) ELSE 0
last_nd(BB, b) == first_nd(BB, b) + Len(BB[b].inst)
phi_nd(BB, b, from) == Start(BB, b) + Cardinality({p \in Incoming(BB[b]) : p < from})

\* Faulty: an edge into a block with a PHI node leaves out its assignment.
TargetPastPhi(BB, from, b) ==
    IF BB[b].is_accepting THEN 1
    ELSE IF ~BB[b].has_branch THEN 2
    ELSE first_nd(BB, b)

\* Where an edge from one block to another leads.
Target(BB, from, b) ==
    IF BB[b].is_accepting THEN 1
    ELSE IF ~BB[b].has_branch THEN 2
    ELSE IF ~BB[b].has_phi THEN first_nd(BB, b)
    ELSE phi_nd(BB, b, from)

BlockEdges(BB, b) ==
    LET bb == BB[b]
        first == first_nd(BB, b)
    IN  {<<phi_nd(BB, b, p[1]), p[2], first>> : p \in bb.phi_map}
        \cup {<<first + i - 1, bb.inst[i], first + i>> : i \in DOMAIN bb.inst}
        \cup {<<last_nd(BB, b), e[1], Target(BB, b, e[2])>> : e \in bb.branch_map}

CreateAutGraph(BB) ==
    LET n == Len(BB)
    IN  [size  |-> Start(BB, n) + (IF Built(BB[n]) THEN Size(BB[n]) ELSE 0),
         edges |-> {<<0, -1, first_nd(BB, 1)>>}
                   \cup UNION {BlockEdges(BB, b) : b \in {c \in 1..n : Built(BB[c])}}]

-----------------------------------------------------------------------------
Init ==
    /\ module \in Modules
    /\ cur_func = 0
    /\ cur_block = 1
    /\ cur_inst = 1
    /\ bb_automata = <<>>
    /\ inst_list_ = <<>>
    /\ inst_map_ = {}
    /\ thread_names_ = <<>>
    /\ thread_graphs_ = <<>>
    /\ mAssnMap = {}

InBlock == bb_automata # <<>> /\ cur_block \in Blocks /\ cur_inst \in DOMAIN Func.blocks[cur_block]
Advance ==
    /\ cur_inst' = cur_inst + 1
    /\ UNCHANGED <<module, cur_func, cur_block, thread_names_, thread_graphs_, mAssnMap>>

\* The next function, until the last one is parsed; __ASSERT is no thread.
NextFunction ==
    /\ bb_automata = <<>>
    /\ cur_func < Len(module)
    /\ cur_func' = cur_func + 1
    /\ cur_block' = 1
    /\ cur_inst' = 1
    /\ LET f == module[cur_func + 1]
       IN  IF f.name = "__ASSERT"
           THEN UNCHANGED <<thread_names_, bb_automata>>
           ELSE /\ thread_names_' = Append(thread_names_, f.name)
                /\ bb_automata' = [b \in 1..Len(f.blocks) |-> EmptyBlock]
    /\ UNCHANGED <<module, inst_list_, inst_map_, thread_graphs_, mAssnMap>>

\* Any call marks the block as one that fails.
ParseCall ==
    /\ InBlock /\ Inst.op = "Call"
    /\ bb_automata' = [bb_automata EXCEPT ![cur_block].is_accepting = TRUE]
    /\ Advance
    /\ UNCHANGED <<inst_list_, inst_map_>>

ParseAssign ==
    /\ InBlock /\ Inst.op = "Assign"
    /\ \E t \in Numbered(<<Assign(Inst.expr)>>) :
          /\ bb_automata' = [bb_automata EXCEPT ![cur_block].inst = Append(@, t.nums[1])]
          /\ SetTables(t)
    /\ Advance

ParseAtomicCmpXchg ==
    /\ InBlock /\ Inst.op = "AtomicCmpXchg"
    /\ \E t \in Numbered(<<Cas(Inst.expr)>>) :
          /\ bb_automata' = [bb_automata EXCEPT ![cur_block].inst = Append(@, t.nums[1])]
          /\ SetTables(t)
    /\ Advance

\* branch_map is a map: a symbol that is there keeps its target.
AddBranches(bb, pairs) ==
    [bb EXCEPT !.has_branch = TRUE,
               !.branch_map = @ \cup {p \in pairs : \A e \in @ : e[1] # p[1]}]

\* A thread that returns starts again.
ParseRet ==
    /\ InBlock /\ Inst.op = "Ret"
    /\ \E t \in Numbered(<<AssumeTrue>>) :
          /\ bb_automata' = [bb_automata EXCEPT ![cur_block] = AddBranches(@, {<<t.nums[1], 1>>})]
          /\ SetTables(t)
    /\ Advance

ParseBr ==
    /\ InBlock /\ Inst.op = "Br"
    /\ \E t \in Numbered(<<AssumeTrue>>) :
          /\ bb_automata' =
                [bb_automata EXCEPT ![cur_block] = AddBranches(@, {<<t.nums[1], Inst.target>>})]
          /\ SetTables(t)
    /\ Advance

ParseCondBr ==
    /\ InBlock /\ Inst.op = "CondBr"
    /\ \E t \in Numbered(<<Assume(Inst.cond, TRUE), Assume(Inst.cond, FALSE)>>) :
          /\ bb_automata' =
                [bb_automata EXCEPT ![cur_block] =
                    AddBranches(@, {<<t.nums[1], Inst.then>>, <<t.nums[2], Inst.else>>})]
          /\ SetTables(t)
    /\ Advance

\* One assignment for each block the flow may come from; a block that has one
\* already, from an earlier PHI node, keeps it.
ParsePHI ==
    /\ InBlock /\ Inst.op = "PHI"
    /\ \E t \in Numbered([i \in DOMAIN Inst.incoming |-> Assign(Inst.incoming[i].expr)]) :
          /\ LET new == {<<Inst.incoming[i].block, t.nums[i]>> : i \in DOMAIN Inst.incoming}
             IN  bb_automata' =
                    [bb_automata EXCEPT ![cur_block].has_phi = TRUE,
                        ![cur_block].phi_map =
                            @ \cup {p \in new : p[1] \notin {q[1] : q \in @}}]
          /\ SetTables(t)
    /\ Advance

\* alloca, unreachable, and what is unhandled: switch, other terminators.
SkipInst ==
    /\ InBlock /\ Inst.op = "Other"
    /\ Advance
    /\ UNCHANGED <<bb_automata, inst_list_, inst_map_>>

NextBlock ==
    /\ bb_automata # <<>> /\ cur_block \in Blocks
    /\ cur_inst > Len(Func.blocks[cur_block])
    /\ cur_block' = cur_block + 1
    /\ cur_inst' = 1
    /\ UNCHANGED <<module, cur_func, bb_automata, inst_list_, inst_map_, thread_names_, thread_graphs_,
                   mAssnMap>>

\* Faulty: the assertion gets the number of an instruction that is there (the
\* lookup that is commented out).
FinishThreadShared ==
    /\ bb_automata # <<>> /\ cur_block \notin Blocks
    /\ \E t \in Numbered(<<AssumeTrue>>) :
          LET graph == CreateAutGraph(bb_automata)
          IN  /\ thread_graphs_' = Append(thread_graphs_,
                     [graph EXCEPT !.edges = @ \cup {<<1, t.nums[1], 2>>}])
              /\ SetTables(t)
    /\ bb_automata' = <<>>
    /\ UNCHANGED <<module, cur_func, cur_block, cur_inst, thread_names_, mAssnMap>>

\* The graph, with the edge of the assertion, which always gets a new number.
FinishThread ==
    /\ bb_automata # <<>> /\ cur_block \notin Blocks
    /\ LET graph == CreateAutGraph(bb_automata)
           inst_num == Len(inst_list_)
       IN  /\ thread_graphs_' = Append(thread_graphs_,
                  [graph EXCEPT !.edges = @ \cup {<<1, inst_num, 2>>}])
           /\ SetTables(Insert(Tables, AssumeTrue, inst_num))
    /\ bb_automata' = <<>>
    /\ UNCHANGED <<module, cur_func, cur_block, cur_inst, thread_names_, mAssnMap>>

GetLabel(number) == number + 1

\* The symbol of the first edge of node 1 of every thread.
MakeOldInterface ==
    /\ bb_automata = <<>>
    /\ cur_func = Len(module)
    /\ cur_func' = cur_func + 1
    /\ mAssnMap' = {GetLabel(e[2]) : e \in {d \in UNION {g.edges : g \in
                        {thread_graphs_[i] : i \in DOMAIN thread_graphs_}} : d[1] = 1}}
    /\ UNCHANGED <<module, cur_block, cur_inst, bb_automata, inst_list_, inst_map_, thread_names_,
                   thread_graphs_>>

ParseNext ==
    \/ NextFunction \/ ParseCall \/ ParseAssign \/ ParseAtomicCmpXchg \/ ParseRet
    \/ ParseBr \/ ParseCondBr \/ ParsePHI \/ SkipInst \/ NextBlock \/ FinishThread
    \/ MakeOldInterface

Parsed == cur_func > Len(module)

ParseSpec == Init /\ [][ParseNext \/ (Parsed /\ UNCHANGED <<module, parsing>>)]_<<module, parsing>>

-----------------------------------------------------------------------------
(***************************************************************************)
(* Reference definition: the instructions a function can execute, one by   *)
(* one.  A position is a block, the next instruction, and the block the    *)
(* flow has come from; a block with a call fails when it is entered.       *)
(***************************************************************************)
Failing(f, b) == \E i \in DOMAIN f.blocks[b] : f.blocks[b][i].op = "Call"

Fail == <<0, 1, 0>>
End == <<0, 2, 0>>

Enter(f, b, from) == IF Failing(f, b) THEN Fail ELSE <<b, 1, from>>

\* Past the instructions that do nothing.
Normal(f, p) ==
    IF p[1] = 0 THEN p
    ELSE LET rest == {i \in p[2]..Len(f.blocks[p[1]]) : f.blocks[p[1]][i].op # "Other"}
         IN  IF rest = {} THEN End
             ELSE <<p[1], CHOOSE i \in rest : \A j \in rest : i <= j, p[3]>>

\* The instructions that may come next at a normal position, with the position
\* after each.
Executes(f, p) ==
    IF p = Fail THEN {<<AssumeTrue, End>>}
    ELSE IF p = End THEN {}
    ELSE LET inst == f.blocks[p[1]][p[2]]
             next == <<p[1], p[2] + 1, p[3]>>
         IN  CASE inst.op = "Assign" -> {<<Assign(inst.expr), next>>}
               [] inst.op = "AtomicCmpXchg" -> {<<Cas(inst.expr), next>>}
               [] inst.op = "PHI" ->
                     {<<Assign(u.expr), next>> :
                         u \in {v \in {inst.incoming[i] : i \in DOMAIN inst.incoming} : v.block = p[3]}}
               [] inst.op = "Ret" -> {<<AssumeTrue, Enter(f, 1, p[1])>>}
               [] inst.op = "Br" -> {<<AssumeTrue, Enter(f, inst.target, p[1])>>}
               [] inst.op = "CondBr" ->
                     {<<Assume(inst.cond, TRUE), Enter(f, inst.then, p[1])>>,
                      <<Assume(inst.cond, FALSE), Enter(f, inst.else, p[1])>>}

GraphExecutes(g, q) == {<<inst_list_[e[2] + 1], e[3]>> : e \in {d \in g.edges : d[1] = q}}

\* The positions and nodes that the same instructions lead to, up to n of them.
Matched(f, g, n) ==
    LET M[i \in 0..n] ==
            IF i = 0 THEN {<<Normal(f, Enter(f, 1, 0)), 3>>}
            ELSE LET before == M[i-1]
                 IN  before \cup UNION
                        {{<<Normal(f, z[1][2]), z[2][2]>> :
                             z \in {x \in Executes(f, m[1]) \X GraphExecutes(g, m[2]) :
                                       x[1][1] = x[2][1]}} : m \in before}
    IN  M[n]

\* The function of the i-th thread.
ThreadFunc(i) == CHOOSE f \in {module[k] : k \in DOMAIN module} : f.name = thread_names_[i]

-----------------------------------------------------------------------------
(***************************************************************************)
(* Properties.                                                             *)
(***************************************************************************)
TypeOK ==
    /\ module \in Modules
    /\ cur_func \in 0..(Len(module) + 1)
    /\ \A e \in inst_map_ : e[3] \in 0..(Len(inst_list_) - 1) /\ inst_list_[e[3] + 1] = e[2]
    /\ \A i \in DOMAIN thread_graphs_ : \A e \in thread_graphs_[i].edges :
          /\ {e[1], e[3]} \subseteq 0..(thread_graphs_[i].size - 1)
          /\ e[2] \in -1..(Len(inst_list_) - 1)

\* "Program will parse every function (thread) present in the code and create
\* an adjacency list representation of its automata" (Program.h:42): from node
\* 3 the graph has exactly the instruction sequences of the function, whatever
\* numbers are shared or missed, and however far the function runs.
PathsExact ==
    \A i \in DOMAIN thread_graphs_ :
        LET f == ThreadFunc(i)
            g == thread_graphs_[i]
        IN  \A m \in Matched(f, g, g.size) :
               {x[1] : x \in Executes(f, m[1])} = {y[1] : y \in GraphExecutes(g, m[2])}

Symbols(g) == {e[2] : e \in g.edges} \ {-1}

\* The threads share no symbol, so that the product of their automata is the
\* shuffle, although they share instructions, and the symbol of an assertion
\* is on no other edge, so that a trace that ends with it fails there.
SymbolsApart ==
    /\ \A i, j \in DOMAIN thread_graphs_ :
          i # j => Symbols(thread_graphs_[i]) \cap Symbols(thread_graphs_[j]) = {}
    /\ \A i \in DOMAIN thread_graphs_ : \A d, e \in thread_graphs_[i].edges :
          d[1] = 1 /\ d[2] = e[2] => d = e
=============================================================================
