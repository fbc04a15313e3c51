------------------------ MODULE MCWtSegmentRecovery ------------------------
EXTENDS WtSegmentRecovery, TLC

CONSTANTS k1, k2

MCKeys == {k1, k2}

KeySymmetry == Permutations(MCKeys)
=============================================================================
