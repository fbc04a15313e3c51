\* Two readers, four snapshot names.
CONSTANTS
    r1 = r1
    r2 = r2
    Readers <- MCReaders
    MaxName = 4
    None = None
SPECIFICATION Spec
SYMMETRY ReaderSymmetry
\* After shutdown no caller uses the manager: the system stops there.
CHECK_DEADLOCK FALSE
INVARIANTS
    TypeOK
    CommittedSnapshotListed
