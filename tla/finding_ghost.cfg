CONSTANTS
    Rooms = {r1}
    Players = {p1, p2}
    Admins = {}
    Tasks <- MCTasks
    Chans = {c1, c2}
    NoChan = NoChan
    NoPlayer = NoPlayer
    NoRoom = NoRoom
    NoTask = NoTask
    MinPlayers = 2
    MaxPlayers = 2
    ChannelSize = 1
    Outboxes <- MCSilence
    MaxVersion = 1
    GameMayPanic = FALSE
SPECIFICATION ManagerSpec
PROPERTIES LostPlayersAreRemoved
