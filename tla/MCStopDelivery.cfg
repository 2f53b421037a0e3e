SPECIFICATION FairSpec
CONSTANTS
    Protocols = {"codex", "acp"}
    MaxTurns = 2
    MaxStops = 2
    Refuses = TRUE
INVARIANT StopIsExact
PROPERTY StopEndsTurn
CHECK_DEADLOCK FALSE
