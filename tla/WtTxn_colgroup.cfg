\* Updatable column groups: storeUpdate writes them outside the WT
\* transaction; a reader must still see committed rows only.
CONSTANTS
    c1 = c1
    c2 = c2
    k1 = k1
    k2 = k2
    Ctx <- MCCtx
    Keys <- MCKeys
    MaxRec = 3
    MaxRetry = 1
    UpdatableCg = TRUE
    Absent = Absent
    Committed = Committed
    NoRec = NoRec
    NoVal = NoVal
    None = None
SYMMETRY CtxSymmetry
SPECIFICATION Spec
INVARIANT
    CommittedRowsReadable
