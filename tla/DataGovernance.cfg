CONSTANTS
    g1 = g1
    g2 = g2
    Groups = {g1, g2}
    Messages <- MCMessages
    Payloads <- MCPayloads
    Jobs = {j1, j2}
    Configs <- MCConfigs
    MaxRows = 3
SPECIFICATION Spec
SYMMETRY JobsAlike
CHECK_DEADLOCK FALSE
INVARIANTS NothingLost NoneMissed
