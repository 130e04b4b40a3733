\* Both callers set or set_cache and no json call needs to fail: two
\* uploads open the same file with truncation and write at their own
\* offsets, and the file ends up holding parts of both tables.
CONSTANTS
    c1 = c1
    c2 = c2
    NoFile = NoFile
    NoName = NoName
    Callers <- MCCallers
    PoolNames <- MCPoolNames
    Tables <- MCTables
    Schemes <- MCSchemes
    OpsOf <- SetOps

SPECIFICATION Spec

INVARIANT UploadsWhole
