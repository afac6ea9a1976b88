SPECIFICATION FairSpec
CONSTANTS
    MaxLen = 7
    Second = {"2: x:=1"}
    mAllSyms <- MCAllSyms
    mAssnMap <- MCAssnMap
    Original <- MCOriginal
    Feasible <- MCFeasible
    Refutations <- MCRefutations
INVARIANTS
    TypeOK
    AssertionFound
    WordChecked
    VerdictRight
PROPERTIES
    KeepsPromise
    Verdict
