\* Every segment of up to 4 rows over 3 signed keys: build, then any sequence of
\* cursor moves and exact searches, checked against OrderedIndex.
CONSTANTS
    KeyVals <- MCKeyVals
    KeyBits = 2
    NeedEncode = TRUE
    NoFile = NoFile
    MaxRows = 4
    NoEntry = NoEntry
    Junk = Junk
SPECIFICATION Spec
INVARIANT
    TypeOK
PROPERTY
    Refinement
