\* Two callers: one may get, set, set_cache or purge, the other gets or
\* sets; any json call may raise.  Every routing file written obeys the
\* docstring's rules.
CONSTANTS
    c1 = c1
    c2 = c2
    NoFile = NoFile
    NoName = NoName
    Callers <- MCCallers
    PoolNames <- MCPoolNames
    Tables <- MCTables
    Schemes <- MCSchemes
    OpsOf <- AllOps

SPECIFICATION Spec

INVARIANT TypeOK
INVARIANT SetterSound
