CONSTANTS
    Players = {p1, p2, p3}
    Admins = {a1}
    NoTask = NoTask
    Deaf = {p3}
SPECIFICATION LoopSpec
PROPERTIES DeafHoldUpThemselves SilentAreDropped
