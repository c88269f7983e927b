CONSTANTS
    Rooms = {r1, r2}
    Players = {p1}
    Admins = {a1}
    Tasks <- MCTasks
    Chans = {c1, c2}
    NoChan = NoChan
    NoPlayer = NoPlayer
    NoRoom = NoRoom
    NoTask = NoTask
    MinPlayers = 1
    MaxPlayers = 1
    ChannelSize = 1
    Outboxes <- MCOutboxes
    MaxVersion = 1
    GameMayPanic = TRUE
SPECIFICATION WireSpec
INVARIANTS ToldIsTrue
PROPERTIES MessagesReachClient HandlersReturn CallsReturn 
