SPECIFICATION FairSpec
CONSTANTS
    Turns = {t1}
    NoTurn = NoTurn
    MaxEvents = 11
    MaxQueued = 2
    MaxRuntimes = 2
    MaxRestarts = 1
    MaxPending = 0
    Operations = {"prompt", "enqueue", "resume", "archive", "fault"}
INVARIANT SentOnce
PROPERTY WorkSettles
CHECK_DEADLOCK FALSE
