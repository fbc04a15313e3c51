\* Scenario C: two contexts upsert the same unique key; the race must end
\* with one live row for the key.
CONSTANTS
    c1 = c1
    c2 = c2
    k1 = k1
    k2 = k2
    Ctx <- MCCtx
    Keys <- MCKeys
    MaxRec = 3
    MaxRetry = 1
    UpdatableCg = FALSE
    Absent = Absent
    Committed = Committed
    NoRec = NoRec
    NoVal = NoVal
    None = None
SYMMETRY CtxSymmetry
SPECIFICATION Spec
INVARIANT
    OneLiveRowPerKey
