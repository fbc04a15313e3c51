------------------------- MODULE MCWtWritableStore -------------------------
EXTENDS WtWritableStore

CONSTANTS t1, t2

\* A committing thread and an updating thread.
MCThr == {t1, t2}
=============================================================================
