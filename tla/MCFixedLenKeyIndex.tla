------------------------- MODULE MCFixedLenKeyIndex -------------------------
(* FixedLenKeyIndex over every segment of 1..4 rows with signed 2-bit    *)
(* keys -1..1, stored byte-lex encoded.                                    *)
EXTENDS FixedLenKeyIndex

MCKeyVals == -1 .. 1
=============================================================================
