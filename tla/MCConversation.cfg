SPECIFICATION Spec
CONSTANTS
    Turns = {t1, t2}
    NoTurn = NoTurn
    MaxEvents = 8
    MaxQueued = 2
    MaxRuntimes = 2
    MaxRestarts = 1
    MaxPending = 1
    Operations = {"prompt", "enqueue", "resume", "remove", "reorder", "pause", "stop",
                  "close"}
SYMMETRY TurnSymmetry
INVARIANTS QueueSurvives StopHolds OneAtATime
CHECK_DEADLOCK FALSE
