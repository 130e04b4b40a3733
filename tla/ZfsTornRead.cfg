\* Both callers get or set.  A config read racing a config write (or after
\* one that raised half way) reads the truncated routing file: an answer
\* the table never had during the read.
CONSTANTS
    c1 = c1
    c2 = c2
    NoFile = NoFile
    NoName = NoName
    Callers <- MCCallers
    PoolNames <- MCPoolNames
    Tables <- MCTables
    Schemes <- MCSchemes
    OpsOf <- ReadSetOps

SPECIFICATION Spec

INVARIANT GetInOneGo
