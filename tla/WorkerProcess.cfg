\* Five requests at the gate; a queue of two places, batches of up to three, two kinds of payload.
CONSTANTS
    Requests = {r1, r2, r3, r4, r5}
    MaxInflight = 2
    MaxQueueSize = 2
    Audits = {a1, a2}
    Archives = {t1, t2}
    Rowless = {t2}
    MaxSize = 2
    BatchSize = 3
SPECIFICATION ProcessSpec
INVARIANTS
    CountersExact
    WorkConserving
    HeldOnce
    CountersHonest
    StopDrains
PROPERTIES
    AdmitsAsPromised
    EveryRequestSettles
    EverythingSettles
