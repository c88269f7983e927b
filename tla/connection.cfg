CONSTANTS
    Players = {p1, p2}
    NoPlayer = NoPlayer
    Tokens = {k1, k2, k3}
    NoToken = NoToken
    Grace = 1
    MaxTime = 1
    Conns = {c1, c2, c3}
    NoConn = NoConn
    Silent = {c3}
SPECIFICATION ConnSpec
INVARIANTS ConnTypeOK SessionMatchesHandler
PROPERTIES SessionIsReleased ClientsAreServed
