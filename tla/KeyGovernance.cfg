SPECIFICATION Spec
CONSTANTS
    Calls = {c1, c2, c3}
    Names = {n1, n2}
    Pasted = {p}
    None = None
INVARIANTS
    RevokedTokenIsDead
    NoStrayToken
    ActiveTokenLives
PROPERTY
    RevocationIsFinal
