\* Tables with one pool "local" whose rule has every hash range of up to
\* four tokens: a docstring-valid range "XX" without ":YY" is rejected.
CONSTANTS
    c1 = c1
    c2 = c2
    NoFile = NoFile
    NoName = NoName
    Callers <- MCCallers
    PoolNames <- MCPoolNames
    Tables <- GrammarTables
    Schemes <- MCSchemes
    OpsOf <- SetOps

SPECIFICATION Spec

INVARIANT SetterComplete
