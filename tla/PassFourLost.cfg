SPECIFICATION SpecFour
CONSTANTS
    Var <- MCVar
    Val <- Signed
    RWSym = {"x:=0", "x:=1"}
    AssumeSym = {"x<=0", "assert"}
    CASSym = {"r:=cas(x,0,1)"}
    mRWLHRHMap <- MCRW
    mAssumeLHRHMap <- MCAssume
    mCASLHRHMap <- MCCAS
    Words <- MCSwap
    Post <- NotFalse
    Formula <- MCFormula
    mType <- MCType
    Args <- MCArgs
    Meaning <- MCMeaning
    FreeVars <- MCFreeVars
    TrueExp <- MCTrue
    FalseExp <- MCFalse
    NULL = NULL
    mRevAssumeLHRHMap <- MCRev
    Others <- MCFewOthers
INVARIANTS
    TraceAccepted
