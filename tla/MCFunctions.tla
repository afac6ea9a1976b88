---------------------------- MODULE MCFunctions ----------------------------
(***************************************************************************)
(* Functions for the run of SCTransSystem, and all modules of one or two   *)
(* of them, which have the same instructions then.                         *)
(***************************************************************************)
Do(e) == [op |-> "Assign", expr |-> e]
Swap(e) == [op |-> "AtomicCmpXchg", expr |-> e]
Br(b) == [op |-> "Br", target |-> b]
CondBr(c, b1, b2) == [op |-> "CondBr", cond |-> c, then |-> b1, else |-> b2]
PHI(u) == [op |-> "PHI", incoming |-> u]
From(b, e) == [block |-> b, expr |-> e]
Call == [op |-> "Call"]
Ret == [op |-> "Ret"]
Other == [op |-> "Other"]

\* A loop that writes x twice, with an assertion inside.
Loop == <<
    <<Other, Do("x:=1"), Br(2)>>,
    <<Do("r:=x"), Do("x:=1"), CondBr("r", 1, 3)>>,
    <<Call, Br(1)>> >>

\* The lock of test/lock.c: a swap until it succeeds.
Lock == <<
    <<Swap("r:=cas(x,0,1)"), Do("s:=r"), CondBr("s", 2, 3)>>,
    <<Br(1)>>,
    <<Do("r:=x"), CondBr("r", 5, 4)>>,
    <<Call, Br(5)>>,
    <<Do("x:=0"), Ret>> >>

\* A PHI node at the end of a conditional, as in test/peterson.c; the block of
\* the assertion ends in `unreachable'.
Phi == <<
    <<Do("r:=x"), CondBr("r", 3, 2)>>,
    <<Do("s:=x"), Br(3)>>,
    <<PHI(<<From(1, "t:=0"), From(2, "t:=s")>>), CondBr("t", 4, 5)>>,
    <<Call, Other>>,
    <<Ret>> >>

\* A loop over a PHI node, entered from its own block and from one that fails.
PhiLoop == <<
    <<Br(2)>>,
    <<PHI(<<From(1, "t:=0"), From(2, "t:=s"), From(3, "t:=0")>>), Do("s:=x"), CondBr("s", 2, 3)>>,
    <<Call, Br(2)>> >>

ASSERT == [name |-> "__ASSERT", blocks |-> << <<Ret>> >>]
Thread(name, body) == [name |-> name, blocks |-> body]

MCName == {"__ASSERT", "thr1", "thr2"}
MCExpr == {"true", "x:=1", "r:=x", "r", "r:=cas(x,0,1)", "s:=r", "s", "x:=0", "s:=x", "t:=0", "t:=s", "t"}

Bodies == {Loop, Lock, Phi, PhiLoop}

Modules1(B) == {<<Thread("thr1", b), ASSERT>> : b \in B}
Modules2(B) == {<<ASSERT, Thread("thr1", b1), Thread("thr2", b2)>> : b1, b2 \in B}

MCBranching == Modules1(Bodies) \cup Modules2(Bodies) \cup {<<ASSERT>>}
=============================================================================
