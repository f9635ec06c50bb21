SPECIFICATION RSpec
CONSTANTS
    o1 = o1
    o2 = o2
    c1 = c1
    c2 = c2
    c3 = c3
    v1 = v1
    v2 = v2
    p1 = p1
    p2 = p2
    Operators <- MCOperators
    Configs <- MCConfigs
    YamlNames <- MCYamlNames
    LongNames <- MCLongNames
    Contents <- MCContents
    NoItem = NoItem
    Unknown = Unknown
    Unnamed = Unnamed
    MaxCalls = 3
    MaxFaults = 1
    ShortNames <- MCShortNames
    Sizes <- MCSizes
    Malformed <- MCMalformed
    Fleet <- MCFleet
    MaxReads = 1
    Before <- MCBefore
    Part <- MCPart
SYMMETRY Symmetry
INVARIANTS
    KnownIsHeld
    CreatedOnce
    RefusedChangesNothing
    PublishedIsRead
PROPERTIES
    PublishesWhatWasWritten
    HoldsThisRead
\* the calls are bounded
CHECK_DEADLOCK FALSE
