CONSTANTS
    Kinds = {"word", "Word", "mobile", "abroad", "gap", "unseen", "mask", "other"}
    Chats <- MCChats
    KeywordRules <- MCKeywordRules
    RegexRules <- MCRegexRules
    RuleSets <- MCRuleSets
    ContextPieces = 1
    Texts = {"a", "b", "U+2028"}
    Separator = "U+2028"
    Sayings <- MCSayings
    Limits = {0, 3, 6, 8, 10, 16}
    Tasks = {t1, t2}
    Ids = {x, y}
    i1 = i1
    i2 = i2
    Images = {i1, i2}
    Junk = Junk
    Answers <- MCAnswers
    MaxHops = 3
    Nothing = Nothing
SPECIFICATION Spec
CHECK_DEADLOCK FALSE
INVARIANTS ScannedIsMasked StrongestRuleDecides AuditShowsMatch ArchiveIsPrefix MessageIsSaid EachSourceRecordedOnce
PROPERTIES TasksEnd
