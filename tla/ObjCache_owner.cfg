\* Four CacheItem slots, at most four Wrappers allocated.  Once
\* ~DbContextObjCache has run and the moved-from items are gone nothing
\* is left to do, so deadlock is not checked.
CHECK_DEADLOCK FALSE
CONSTANTS
    s1 = s1
    s2 = s2
    s3 = s3
    s4 = s4
    Slots <- MCSlots
    MaxObjs = 4
    Null = Null
    Dead = Dead
SYMMETRY SlotSymmetry
SPECIFICATION Spec
INVARIANTS
    TypeOK
    SingleOwner
