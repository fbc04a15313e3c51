--------------------------- MODULE MCWtSegmentTxn ---------------------------
(* Instantiation of WtSegmentTxn for TLC: two contexts, model values for   *)
(* the keys and the sentinels, and symmetry over the contexts.            *)
EXTENDS WtSegmentTxn, TLC

CONSTANTS c1, c2, k1, k2

MCCtx  == {c1, c2}
MCKeys == {k1}
MCKeys2 == {k1, k2}

\* Contexts are interchangeable: they run the same paths and a row's
\* payload is the context that wrote it, renamed with it.
CtxSymmetry == Permutations(MCCtx)
=============================================================================
