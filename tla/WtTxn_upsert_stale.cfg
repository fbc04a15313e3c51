\* An upsert races a remove of the row it found.
\* One key, no updatable column groups.
CONSTANTS
    c1 = c1
    c2 = c2
    k1 = k1
    k2 = k2
    Ctx <- MCCtx
    Keys <- MCKeys
    MaxRec = 3
    MaxRetry = 1
    UpdatableCg = FALSE
    Absent = Absent
    Committed = Committed
    NoRec = NoRec
    NoVal = NoVal
    None = None
SYMMETRY CtxSymmetry
SPECIFICATION Spec
INVARIANT
    AckedRowsLive
