\* Every segment of up to 4 rows over 3 signed keys: is m_isUnique, computed by
\* build(), true only when no key repeats?
CONSTANTS
    KeyVals <- MCKeyVals
    KeyBits = 2
    NeedEncode = TRUE
    NoFile = NoFile
    MaxRows = 4
    NoEntry = NoEntry
    Junk = Junk
SPECIFICATION Spec
INVARIANT
    UniqueFlagSound
