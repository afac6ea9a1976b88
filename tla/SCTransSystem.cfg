SPECIFICATION SpecSC
CONSTANTS
    Name <- MCName
    Expr <- MCExpr
    Modules <- MCBranching
    MaxLen = 7
INVARIANTS
    PathsExact
    SymbolsApart
    TypeOKSC
    TracesExact
    EndsAtAssertion
