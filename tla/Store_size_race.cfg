\* Two threads, two recIds, rows of size 0 (remove) or 1, commits adding 1;
\* the resync threshold is low enough to be crossed within the bound.
CONSTANTS
    t1 = t1
    t2 = t2
    Thr <- MCThr
    Ids = {0, 1}
    Sizes = {0, 1}
    Diffs = {1}
    Overhead = 1
    Threshold = 2
    MaxOps = 4
    Absent = Absent
    None = None
SPECIFICATION Spec
INVARIANT DataSizeAccounted
\* Every behaviour ends once MaxOps operations have run: not a deadlock.
CHECK_DEADLOCK FALSE
