CONSTANTS
    KeyVals <- MCKeyVals
    MaxRows = 4
    NoEntry = NoEntry
    NoFile = NoFile
SPECIFICATION Spec
INVARIANTS TypeOK ReadPathsExact
PROPERTY Refinement
