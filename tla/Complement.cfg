SPECIFICATION FairSpec
CONSTANTS
    GenState = {}
    AFAState <- MCAFAState
    mAllSyms <- MCSyms
    Automata <- MCAutomata
    ErrorState = "error"
    NULL = NULL
    Words <- MCWords
INVARIANTS
    TypeOK
    NegatedOnce
    NoneLeftOut
    LanguageComplemented
PROPERTY Termination
