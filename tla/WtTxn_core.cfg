\* Two contexts race insert/upsert/remove over two unique keys on a
\* writable segment of two recIds without updatable column groups: a
\* remove can meet a row of the other key, and each context can reserve
\* a recId (the second reservation of a context fills the segment).
CONSTANTS
    c1 = c1
    c2 = c2
    k1 = k1
    k2 = k2
    Ctx <- MCCtx
    Keys <- MCKeys2
    MaxRec = 2
    MaxRetry = 1
    UpdatableCg = FALSE
    Absent = Absent
    Committed = Committed
    NoRec = NoRec
    NoVal = NoVal
    None = None
SYMMETRY CtxSymmetry
SPECIFICATION Spec
INVARIANTS
    TypeOK
    IndexPointsToRow
    TombstonedUnindexed
