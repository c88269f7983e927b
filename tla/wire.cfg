CONSTANTS
    Rooms = {r1, r2}
    Players = {p1, p2}
    Admins = {}
    Tasks <- MCTasks
    Chans = {c1, c2}
    NoChan = NoChan
    NoPlayer = NoPlayer
    NoRoom = NoRoom
    NoTask = NoTask
    MinPlayers = 2
    MaxPlayers = 2
    ChannelSize = 1
    Outboxes <- MCOutboxes
    MaxVersion = 1
    GameMayPanic = TRUE
SPECIFICATION WireSpec
SYMMETRY Symmetry
INVARIANTS WireTypeOK ClientReadsItsRoom
PROPERTIES ImplementsLoop ImplementsDirectory
