--------------------- MODULE MCTerichDbSnapshotManager ---------------------
EXTENDS TerichDbSnapshotManager, TLC

CONSTANTS r1, r2

MCReaders == {r1, r2}

ReaderSymmetry == Permutations(MCReaders)
=============================================================================
