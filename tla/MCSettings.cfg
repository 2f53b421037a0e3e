SPECIFICATION Spec
CONSTANTS
    q1 = q1
    q2 = q2
    m1 = m1
    m2 = m2
    e1 = e1
    e2 = e2
    None = None
    NoMatch = NoMatch
    Providers = {q1, q2}
    Models = {m1, m2}
    Efforts = {e1, e2}
    Catalogs <- MCCatalogs
    Defaults <- MCDefaults
    OtherConfigs <- MCOtherConfigs
    LowerOf <- MCLowerOf
    Characters <- MCCharacters
    Names <- MCNames
    Queries <- MCQueries
    MaxVersions = 3
    MaxActs = 4
INVARIANTS
    NoLostUpdate
    EffortOfModel
    ShownIsRun
    ListedIsWanted
PROPERTY DraftIsKept
CHECK_DEADLOCK FALSE
