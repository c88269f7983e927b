CONSTANTS
    Players = {p1, p2}
    NoPlayer = NoPlayer
    Tokens = {k1, k2, k3}
    NoToken = NoToken
    Grace = 1
    MaxTime = 4
SPECIFICATION SessionSpec
INVARIANTS SessionTypeOK TokenIndexInSync
PROPERTIES GraceRespected
