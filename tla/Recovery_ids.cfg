\* Two keys, three recIds, two crashes.
CONSTANTS
    k1 = k1
    k2 = k2
    Keys <- MCKeys
    MaxRec = 3
    MaxCrash = 2
    Empty = Empty
    Absent = Absent
    None = None
SPECIFICATION Spec
SYMMETRY KeySymmetry
INVARIANTS
    TypeOK
    NoRecIdReuse
    
