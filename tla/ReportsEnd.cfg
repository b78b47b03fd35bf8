CONSTANTS
    Workers = {w1}
    Periods = {p1}
    Formats <- MCFormats
    Ids <- MCIds
    Versions <- MCVersions
    Inodes <- MCInodes
    Details = {FALSE}
    Retention = 1
    MaxCrashes = 1
    None = None
    Starts <- MCStarts
    Span = 0
    Slots = 2
    Hits <- MCHits
    MaxAudits = 1
    NoReport = NoReport
SPECIFICATION Spec
CHECK_DEADLOCK FALSE
PROPERTIES RunningEnds OldFilesGo

