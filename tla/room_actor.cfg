CONSTANTS
    Rooms = {r1}
    Players = {p1, p2}
    Tasks = {t1, t2}
    Chans = {c1, c2}
    NoChan = NoChan
    NoPlayer = NoPlayer
    MinPlayers = 2
    MaxPlayers = 3
    ChannelSize = 2
    Outboxes <- MCOutboxes
    MaxVersion = 3
    GameMayPanic = TRUE
SPECIFICATION ActorSpec
SYMMETRY Symmetry
INVARIANTS TypeOK SlotDiscipline DeliveryOrder MembersAgree
PROPERTIES MailOnlyToMembers Lifecycle
