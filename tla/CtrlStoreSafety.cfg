SPECIFICATION Spec
CONSTANTS
    k1 = k1
    k2 = k2
    p1 = p1
    v1 = v1
    v2 = v2
    Keys <- MCKeys
    PropertyKeys <- MCPropertyKeys
    Values <- MCValues
    None = None
    Nil = Nil
    Linked = Linked
    NullDoc = NullDoc
    NoItem = NoItem
    MaxFaults = 2
    MaxEdits = 1
SYMMETRY Symmetry
INVARIANTS
    Synced
    LinksAreSound
    DeletedStaysAway
PROPERTIES
    WritesChangeOneKey
