SPECIFICATION Spec
CONSTANTS
    Hosts = {h1}
    MaxEvents = 2
    MaxBatchEvents = 2
    MaxPendingEvents = 2
    MaxBufferedEvents = 2
    Urgencies = {TRUE, FALSE}
    MaxBoots = 2
    MaxScopeWrites = 1
INVARIANTS TypeOK RowsMatchRecord AckedIsStored NeverResubmitted UrgentIsWoken
PROPERTIES PendingSettles WaitersReturn ImplementsLog
CHECK_DEADLOCK FALSE
