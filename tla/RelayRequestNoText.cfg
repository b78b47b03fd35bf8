\* Is a chat request without scannable text passed on?
CONSTANTS
    KeywordRules = {kblock}
    RegexRules = {rmask}
    Blocking = {kblock}
    Masking = {rmask}
    kblock = kblock
    rmask = rmask
SPECIFICATION Spec
INVARIANT NoTextIsPassedOn
