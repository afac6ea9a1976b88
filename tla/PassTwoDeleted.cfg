SPECIFICATION SpecTwo
CONSTANTS
    Var <- MCVar
    Val = {0, 1}
    RWSym = {"x:=0", "x:=1", "x:=t"}
    AssumeSym = {"x=0", "r=1", "t=0", "t=1", "r=t", "assert"}
    CASSym = {"r:=cas(x,0,1)"}
    mRWLHRHMap <- MCRW
    mAssumeLHRHMap <- MCAssume
    mCASLHRHMap <- MCCAS
    Words <- MCComparison
    Post <- NotFalse
    Formula <- MCFormula
    mType <- MCType
    Args <- MCArgs
    Meaning <- MCMeaning
    FreeVars <- MCFreeVars
    TrueExp <- MCTrue
    FalseExp <- MCFalse
    NULL = NULL
INVARIANT DeletedUnreachable
