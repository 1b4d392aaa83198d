SPECIFICATION FairSpec
CONSTANTS
    MaxPrompts = 3
INVARIANTS
    SilenceIsWatched
PROPERTIES
    GoodbyeNeedsSilence
    SilenceEnds
