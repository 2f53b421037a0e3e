SPECIFICATION Spec
CONSTANTS
    None = none
    ItemLimit = 8
    TextLimit = 2
    t1 = t1
    t2 = t2
    tool = tool
    answer = answer
    q1 = q1
    m1 = m1
    m2 = m2
    s1 = s1
    s2 = s2
    Sessions = {s1, s2}
    Turns = {t1, t2}
    Items <- MCItems
    RoleOf <- MCRoleOf
    Titled = {tool}
    WithImages = {tool}
    Locales = {en, zh}
    Requests = {q1}
    Outboxes <- MCOutboxes
    At <- MCAt
    MaxEvents = 4
INVARIANTS
    ProjectionIsFresh
    TimelineIsWhole
CHECK_DEADLOCK FALSE
