SPECIFICATION Spec
CONSTANTS
    x1 = x1
    x2 = x2
    k1 = k1
    Objects <- MCObjects
    Keys <- MCKeys
    Names <- MCNames
    Inputs <- MCInputs
    Vectors <- MCVectors
    Index <- MCIndex
    MaxSteps = 3
SYMMETRY MCSymmetry
INVARIANTS
    TypeOK
    EqIsEquivalence
PROPERTIES
    AccessOnlyAdds
    RoundTrip
CHECK_DEADLOCK FALSE
