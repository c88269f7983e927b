CONSTANTS
    Rooms = {r1, r2}
    Players = {p1, p2, p3}
    Admins = {a1}
    Tasks <- MCTasks
    Chans = {c1, c2, c3}
    NoChan = NoChan
    NoPlayer = NoPlayer
    NoRoom = NoRoom
    NoTask = NoTask
    MinPlayers = 3
    MaxPlayers = 2
    ChannelSize = 1
    Outboxes <- MCSilence
    MaxVersion = 1
    GameMayPanic = FALSE
SPECIFICATION ManagerSpec
SYMMETRY Symmetry
INVARIANTS SlotDiscipline ManagerTypeOK IndexAgrees OneRoom WiredToOwnRoom ProbeStaysValid
PROPERTIES CreatesOnlyIfNoPlace
