\* One request of any kind against every set of four rules, reloaded at will.
CONSTANTS
    KeywordRules = {kblock}
    RegexRules = {rblock, rwarn, rmask}
    Blocking = {kblock, rblock}
    Masking = {rmask}
    kblock = kblock
    rblock = rblock
    rwarn = rwarn
    rmask = rmask
SPECIFICATION FairSpec
INVARIANTS
    UpstreamSeesJudgedBody
    AuditedOnce
    ArchivedAsSent
PROPERTIES
    ArchivedAtTheEnd
    EveryRequestEnds
