SPECIFICATION FairSpec
CONSTANTS
    s1 = s1
    s2 = s2
    s3 = s3
    Streams <- ThreeStreams
INVARIANTS
    OpenConnectionHasOwner
    FreshSessionLeavesNoOrphan
PROPERTIES
    OnlyItsCallClosesAttached
    UnansweredConnectionCloses
CHECK_DEADLOCK FALSE
