SPECIFICATION FairSpec
CONSTANTS
    s1 = s1
    s2 = s2
    Sessions = {s1, s2}
    NoSession = none
    Earlier <- MCEarlier
    MaxSeq <- MCMaxSeq
    MaxEffects = 2
    MaxFaults = 1
    Page = 2
    QueueLimit = 2
    LargeSeqs = {3}
    Window = 2
    ResetLimit = 1
INVARIANTS
    ShownIsJournal
    ReplayIsConsistent
PROPERTIES
    EndedEffectIsSilent
    CatchesUp
CHECK_DEADLOCK FALSE
