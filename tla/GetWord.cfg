SPECIFICATION FairSpec
CONSTANTS
    Idx <- MCIdx
    Event <- MCEvent
    Generators <- MCGenerators
    None = None
INVARIANTS
    TypeOK
    Shortest
    NoneIsEmpty
PROPERTY Termination
