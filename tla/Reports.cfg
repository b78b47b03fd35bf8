CONSTANTS
    Workers = {w1, w2}
    Periods = {p1}
    Formats <- MCFormat
    Ids <- MCIds
    Versions <- MCVersions
    Inodes <- MCInodes
    Details = {FALSE, TRUE}
    Retention = 1
    MaxCrashes = 0
    None = None
    Starts <- MCStarts
    Span = 35
    Slots = 2
    Hits <- MCHits
    MaxAudits = 1
    NoReport = NoReport
SPECIFICATION Spec
SYMMETRY Symmetric
CHECK_DEADLOCK FALSE
INVARIANTS RecordsTrue CountedOnce

