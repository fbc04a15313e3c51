------------------------- MODULE MCDbContextObjCache -------------------------
EXTENDS DbContextObjCache, TLC

CONSTANTS s1, s2, s3, s4

\* Four CacheItems: all four held at once (every Wrapper out of the pool),
\* or fewer held with room to move one.
MCSlots == {s1, s2, s3, s4}
SlotSymmetry == Permutations(MCSlots)
=============================================================================
