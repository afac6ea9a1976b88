SPECIFICATION FairSpec
CONSTANTS
    GenState <- MCGenState
    AFAState <- MCAFAState
    mAllSyms <- MCSyms
    Generators <- MCGenerators
    Automata <- MCAutomata
    Words <- MCWords
INVARIANTS
    TypeOK
    ProcessedComplete
    NothingInvented
    LanguageExact
PROPERTY Termination
