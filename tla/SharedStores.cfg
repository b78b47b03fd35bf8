CONSTANTS
    Workers = {w1, w2}
    KeywordRules = {k1}
    RegexRules = {x1}
    MaxSwitches = 3
    MaxCrashes = 1
    None = None
    Sites = {"w1", "w2"}
    Refreshers = {"loop1", "page1", "loop2"}
    Setters = {"a", "b", "c"}
    SiteOf <- MCSiteOf
    Absent = Absent
    Unread = Unread
    Keys = {"sk-", "sk-a", "sk-b"}
    Generated = {"sk-sh"}
    PrefixOf <- MCPrefixOf
    Uids = {"1", "2"}
    ImportId <- MCImportId
    Made = {"ak_1", "ak_2"}
    Files <- MCFiles
    Tokens <- MCTokens
    Initial <- MCInitial
    MaxChanges = 4
    Nil = Nil
    Tables <- MCTables
    Stock <- MCStock
    Compared = {1}
    BatchSize = 2
    MaxRow = 4
    MaxRuns = 2
    MaxWrites = 2
SPECIFICATION Spec
CHECK_DEADLOCK FALSE
INVARIANTS SwitchesKept KeysAsGiven ImportRepeats EndedMoveIsWhole
PROPERTIES WorkersFollow WorkersAgree
