SPECIFICATION SpecFour
CONSTANTS
    Var <- MCVar
    Val = {0, 1}
    RWSym = {"x:=t"}
    AssumeSym = {"t=0", "x=1", "r=1", "assert"}
    CASSym = {"r:=cas(x,0,1)"}
    mRWLHRHMap <- MCRW
    mAssumeLHRHMap <- MCAssume
    mCASLHRHMap <- MCCAS
    Words <- MCOverlap
    Post <- NotFalse
    Formula <- MCFormula
    mType <- MCType
    Args <- MCArgs
    Meaning <- MCMeaning
    FreeVars <- MCFreeVars
    TrueExp <- MCTrue
    FalseExp <- MCFalse
    NULL = NULL
    mRevAssumeLHRHMap <- MCRev
    Others <- MCFewOthers
INVARIANTS
    LinkedAlone
