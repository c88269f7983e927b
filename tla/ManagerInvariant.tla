-------------------------- MODULE ManagerInvariant --------------------------
(***************************************************************************)
(* The inductive invariant of RoomManager, and that the steps of the calls *)
(* keep it; RoomManagerProofs has the actors' steps and the theorems.      *)
(***************************************************************************)
EXTENDS RoomManager, RoomActorProofs

\* The mutex is with the task whose call needs it.
LockHeld == \A t \in Tasks : lock = t <=> Holds(t)

\* What each call knows of its room while it is under way.
CallShape(t) ==
    LET c == call[t]
    IN  /\ c.op = "none" <=> c = Idle
        /\ c.op = "list" => c.at \in {"scan", "probe"} /\ c.chan = NoChan
        /\ c.op \in {"join", "match"} =>
               /\ t \in Players /\ player_rooms[t] = NoRoom
               /\ c.chan \in Chans
               /\ c.at = "scan" \/ c.room \in rooms
        /\ c.op = "join" => c.at \in {"send", "wait"}
        /\ c.op = "match" => c.at # "idle" /\ c.todo \subseteq rooms
        /\ c.op \in {"leave", "message"} =>
               /\ t \in Players /\ c.at \in {"send", "wait"}
               /\ c.room = player_rooms[t] /\ c.room \in rooms
        /\ c.op = "destroy" =>
               /\ t \in Admins /\ c.at \in {"send", "wait"}
               /\ c.room \in Rooms \ rooms /\ phase[c.room] # "Absent"
        /\ c.at = "probe" => c.room \in Rooms

CallsShaped == \A t \in Tasks : CallShape(t)

\* Rooms of the map have been spawned.
RoomsSpawned == \A r \in rooms : phase[r] # "Absent"

\* The index names a room out of the map only while that is being destroyed.
IndexInMap ==
    \A p \in Players :
        \/ player_rooms[p] \in rooms \cup {NoRoom}
        \/ \E t \in Tasks : call[t].op = "destroy" /\ call[t].room = player_rooms[p]

\* A command in a room's channel is part of the call of the task that sent it.
PartOfCall(r, i) ==
    LET cmd == queue[r][i]
        c == call[cmd.task]
    IN  /\ cmd.op = "join" =>
               /\ c.op \in {"join", "match"} /\ c.at = "wait" /\ c.room = r
               /\ cmd.chan = c.chan /\ cmd.player = cmd.task
        /\ cmd.op = "leave" =>
               /\ c.op = "leave" /\ c.at = "wait" /\ c.room = r
               /\ cmd.player = cmd.task
        /\ cmd.op = "info" => c.at = "probe" /\ c.room = r
        /\ cmd.op = "shutdown" => r \notin rooms
        /\ cmd.op \in AskOps => reply[cmd.task] = "pending"

CommandsMatch == \A r \in Rooms : \A i \in DOMAIN queue[r] : PartOfCall(r, i)

\* A task has at most one request in a queue.
OneRequest ==
    \A r \in Rooms : \A i, j \in DOMAIN queue[r] :
        (/\ queue[r][i].op \in AskOps /\ queue[r][j].op \in AskOps
         /\ queue[r][i].task = queue[r][j].task) => i = j

Answered(t, op) == Returns(t, op) /\ reply[t] = "ok"

\* Where the index and p's own call say that p is a member.
Belongs(p, r) ==
    \/ Answered(p, {"join", "match"}) /\ call[p].room = r
    \/ player_rooms[p] = r /\ ~Answered(p, {"leave"})

\* In every running room of the map the members are those who belong there.
ActorsAgree ==
    \A r \in rooms : Live(r) => \A p \in Players : p \in players[r] <=> Belongs(p, r)

ShutdownSent(r) == \E i \in DOMAIN queue[r] : queue[r][i].op = "shutdown"

Condemns(t, r) == call[t].op = "destroy" /\ call[t].at = "send" /\ call[t].room = r

\* A running room out of the map has its Shutdown in its queue, or is about to
\* get it from a call that has not changed the index yet.
Condemned ==
    \A r \in Rooms \ rooms : Live(r) =>
        \/ ShutdownSent(r)
        \/ /\ \E t \in Tasks : Condemns(t, r)
           /\ \A p \in players[r] : player_rooms[p] = r

\* The receiver that belongs to the sender a room has of p.
ReceiverKnown ==
    \A r \in rooms : \A p \in players[r] :
        senders[r][p] = IF call[p].op \in {"join", "match"} THEN call[p].chan
                        ELSE IF room_rx[p] = NoChan THEN senders[r][p]
                        ELSE room_rx[p]

\* join_or_create has found a room with a place and has no answer yet.
HasFound(p) ==
    /\ call[p].op = "match"
    /\ \/ call[p].at = "probe" /\ reply[p] = "open"
       \/ call[p].at = "send"
       \/ call[p].at = "wait" /\ reply[p] = "pending"

\* While the search holds the lock, the room it has found keeps the place.
MatchStands ==
    \A p \in Players :
        /\ HasFound(p) /\ Live(call[p].room) => Info(call[p].room) = "open"
        /\ Returns(p, {"match"}) => reply[p] \in {"pending", "ok", "unavailable"}

\* What may become of the room join_or_create looks at now.
Hopes(p) ==
    \/ HasFound(p)
    \/ call[p].at = "probe" /\ reply[p] = "pending"
    \/ call[p].at = "wait" /\ reply[p] = "ok"

\* The rooms join_or_create has gone past have no place.
Scanned ==
    \A p \in Players : call[p].op = "match" =>
        \A s \in rooms : Live(s) /\ Info(s) = "open" =>
            s \in call[p].todo \/ (s = call[p].room /\ Hopes(p))

\* A room that does not run has no commands.
DeadQuiet == \A r \in Rooms : Live(r) \/ queue[r] = <<>>

\* The index, the calls, the queues and the actors fit together.
Coherent ==
    /\ LockHeld /\ CallsShaped /\ RoomsSpawned /\ IndexInMap
    /\ CommandsMatch /\ OneRequest /\ DeadQuiet
    /\ ActorsAgree /\ Condemned /\ ReceiverKnown /\ MatchStands /\ Scanned

\* The inductive invariant.
ManagerInv == ManagerTyped /\ Slotted /\ Coherent

-----------------------------------------------------------------------------
(* Every step of the manager is a step of RoomActor, or leaves it alone. *)

\* Taking an answer, whatever may be dropped with it: only receivers that
\* exist are.
LEMMA TakeReplyActs ==
    ASSUME TypeOK, NEW t \in Tasks, NEW dropped, TakeReply(t, dropped)
    PROVE  ActorNext
<1>1. rx \ dropped = rx \ (dropped \cap Chans)
    BY DEF TypeOK
<1>2. TakeReply(t, dropped \cap Chans)
    BY <1>1 DEF TakeReply
<1>3. QED
    BY <1>2 DEF ActorNext

\* A handler that drops its receiver.
LEMMA CloseActs ==
    ASSUME TypeOK, NEW ch, CloseChannels({ch} \cap rx)
    PROVE  ActorNext
BY DEF TypeOK, ActorNext

\* What a call sends is one of the calls of a room handle.
LEMMA SendActs ==
    ASSUME ManagerAssumption, CallsShaped, ManagerTyped, NEW t \in Tasks, Send(t)
    PROVE  ActorNext
<1> DEFINE c == call[t]
<1>1. CallShape(t) /\ rooms \subseteq Rooms /\ c.at = "send"
    BY DEF CallsShaped, Send, ManagerTyped
<1>2. CASE c.op \in {"join", "match"} /\ AskJoin(t, c.room, t, c.chan)
    <2>1. t \in Players /\ c.chan \in Chans /\ c.room \in Rooms
        BY <1>1, <1>2 DEF CallShape
    <2>2. HandleCall(t, c.room)
        BY <1>2, <2>1 DEF HandleCall
    <2>3. QED
        BY <2>1, <2>2 DEF ActorNext
<1>3. CASE c.op = "leave" /\ AskLeave(t, c.room, t)
    <2>1. t \in Players /\ c.room \in Rooms
        BY <1>1, <1>3 DEF CallShape
    <2>2. HandleCall(t, c.room)
        BY <1>3, <2>1 DEF HandleCall
    <2>3. QED
        BY <2>1, <2>2 DEF ActorNext
<1>4. CASE c.op = "message" /\ SendMessage(t, c.room, t)
    <2>1. t \in Players /\ c.room \in Rooms
        BY <1>1, <1>4 DEF CallShape
    <2>2. HandleCall(t, c.room)
        BY <1>4, <2>1 DEF HandleCall
    <2>3. QED
        BY <2>1, <2>2 DEF ActorNext
<1>5. CASE c.op = "destroy" /\ SendShutdown(t, c.room)
    <2>1. c.room \in Rooms
        BY <1>1, <1>5 DEF CallShape
    <2>2. HandleCall(t, c.room)
        BY <1>5 DEF HandleCall
    <2>3. QED
        BY <2>1, <2>2 DEF ActorNext
<1>6. QED
    BY <1>2, <1>3, <1>4, <1>5 DEF Send

\* So is everything a call goes on with.
LEMMA ProceedActs ==
    ASSUME ManagerAssumption, CallsShaped, ManagerTyped,
           NEW t \in Tasks, Proceed(t)
    PROVE  ActorNext \/ UNCHANGED actorVars
<1>1. TypeOK
    BY DEF ManagerTyped
<1>2. ASSUME NEW r \in Rooms, Probe(t, r) PROVE ActorNext
    BY <1>2 DEF Probe, HandleCall, ActorNext
<1>3. ASSUME NEW r \in Rooms, MatchCreates(t, r) PROVE ActorNext
    BY <1>3 DEF MatchCreates, ActorNext
<1>4. CASE ListReturns(t)
    BY <1>4 DEF ListReturns
<1>5. CASE \/ ProbeReturns(t) \/ DestroyReturns(t) \/ JoinSucceeds(t) \/ JoinFails(t)
           \/ MatchRetries(t) \/ LeaveReturns(t) \/ RouteReturns(t)
    <2>1. PICK dropped : TakeReply(t, dropped)
        BY <1>5 DEF ProbeReturns, DestroyReturns, JoinSucceeds, JoinFails,
                    MatchRetries, LeaveReturns, RouteReturns
    <2>2. QED
        BY <1>1, <2>1, TakeReplyActs
<1>6. QED
    BY <1>2, <1>3, <1>4, <1>5, SendActs DEF Proceed

\* The steps that begin a call, and what they have in common.
LEMMA PlayerCallActs ==
    ASSUME ManagerTyped, NEW p \in Players, PlayerCall(p)
    PROVE  ActorNext \/ UNCHANGED actorVars
<1>1. TypeOK
    BY DEF ManagerTyped
<1>2. CASE LeaveRefused(p) \/ HandlerExit(p)
    BY <1>1, <1>2, CloseActs DEF LeaveRefused, HandlerExit
<1>3. QED
    BY <1>2 DEF PlayerCall, PlayerRequest, JoinRoom, JoinOrCreate, LeaveRoom,
                RouteMessage, ListRooms

\* All steps of the manager, its callers and the actors.
LEMMA ManagerActs ==
    ASSUME ManagerAssumption, CallsShaped, ManagerTyped, [ManagerNext]_managerVars
    PROVE  [ActorNext]_actorVars
<1>1. ASSUME NEW t \in Admins, NEW r \in Rooms, CreateRoom(t, r)
      PROVE  ActorNext
    BY <1>1 DEF CreateRoom, ActorNext
<1>2. ASSUME NEW t \in Admins, NEW r \in Rooms, DestroyRoom(t, r)
      PROVE  UNCHANGED actorVars
    BY <1>2 DEF DestroyRoom
<1>3. ASSUME NEW r \in Rooms, RunActor(r) PROVE ActorNext
    BY <1>3 DEF RunActor, ActorNext
<1>4. CASE UNCHANGED managerVars
    BY <1>4 DEF managerVars, actorVars
<1>5. QED
    BY <1>1, <1>2, <1>3, <1>4, ProceedActs, PlayerCallActs DEF ManagerNext

-----------------------------------------------------------------------------
(* Types are preserved. *)

\* A call begins within its type.
LEMMA BeginTyped ==
    ASSUME call \in [Tasks -> Calls], NEW t \in Tasks,
           NEW op \in {"join", "match", "leave", "message", "list", "destroy"},
           NEW at \in {"scan", "send"}, NEW r \in Rooms \cup {NoRoom},
           NEW ch \in Chans \cup {NoChan}, NEW todo \in SUBSET Rooms,
           Begin(t, op, at, r, ch, todo)
    PROVE  call' \in [Tasks -> Calls]
BY DEF Begin, Calls

\* What the manager itself keeps, without the actors.
IndexTyped ==
    /\ lock \in Tasks \cup {NoTask}
    /\ rooms \in SUBSET Rooms
    /\ player_rooms \in [Players -> Rooms \cup {NoRoom}]
    /\ room_rx \in [Players -> Chans \cup {NoChan}]
    /\ call \in [Tasks -> Calls]

\* What a player's handler begins is typed.
LEMMA PlayerCallTyped ==
    ASSUME ManagerAssumption, IndexTyped, NEW p \in Players, PlayerCall(p)
    PROVE  IndexTyped'
<1>1. p \in Tasks
    BY DEF ManagerAssumption
<1>2. ASSUME NEW ch \in Chans, NEW r \in Rooms, JoinRoom(p, r, ch)
      PROVE  IndexTyped'
    BY <1>1, <1>2, BeginTyped DEF JoinRoom, Locks, IndexTyped
<1>3. ASSUME NEW ch \in Chans, JoinOrCreate(p, ch) PROVE IndexTyped'
    BY <1>1, <1>3, BeginTyped DEF JoinOrCreate, Locks, IndexTyped
<1>4. CASE LeaveRoom(p)
    BY <1>1, <1>4, BeginTyped DEF LeaveRoom, Locks, IndexTyped
<1>5. CASE RouteMessage(p)
    BY <1>1, <1>5, BeginTyped DEF RouteMessage, Locks, IndexTyped
<1>6. CASE ListRooms(p)
    BY <1>1, <1>6, BeginTyped DEF ListRooms, IndexTyped
<1>7. CASE LeaveRefused(p) \/ HandlerExit(p)
    BY <1>7 DEF LeaveRefused, HandlerExit, IndexTyped
<1>8. QED
    BY <1>2, <1>3, <1>4, <1>5, <1>6, <1>7 DEF PlayerCall, PlayerRequest

\* No call is a call as well.
LEMMA IdleTyped == Idle \in Calls
BY DEF Idle, Calls

\* What a call goes on with is typed.
LEMMA ProceedTyped ==
    ASSUME ManagerAssumption, IndexTyped, CallsShaped, NEW t \in Tasks, Proceed(t)
    PROVE  IndexTyped'
<1>1. CallShape(t) /\ call[t] \in Calls
    BY DEF CallsShaped, IndexTyped
<1>2. CASE Send(t)
    BY <1>2 DEF Send, IndexTyped, Calls
<1>3. ASSUME NEW r \in Rooms, Probe(t, r) PROVE IndexTyped'
    BY <1>3 DEF Probe, IndexTyped, Calls
<1>4. ASSUME NEW r \in Rooms, MatchCreates(t, r) PROVE IndexTyped'
    BY <1>4 DEF MatchCreates, IndexTyped, Calls
<1>5. CASE ProbeReturns(t)
    BY <1>5 DEF ProbeReturns, IndexTyped, Calls
<1>6. CASE ListReturns(t)
    BY <1>6, IdleTyped DEF ListReturns, IndexTyped
<1>7. CASE DestroyReturns(t)
    BY <1>7, IdleTyped DEF DestroyReturns, Finish, IndexTyped
<1>8. CASE t \in Players /\ JoinSucceeds(t)
    BY <1>1, <1>8, IdleTyped DEF JoinSucceeds, Finish, IndexTyped, Calls
<1>9. CASE JoinFails(t)
    BY <1>9, IdleTyped DEF JoinFails, Finish, IndexTyped
<1>10. CASE MatchRetries(t)
    BY <1>10 DEF MatchRetries, IndexTyped, Calls
<1>11. CASE LeaveReturns(t)
    BY <1>11, IdleTyped DEF LeaveReturns, Finish, IndexTyped
<1>12. CASE RouteReturns(t)
    BY <1>12, IdleTyped DEF RouteReturns, Finish, IndexTyped
<1>13. QED
    BY <1>2, <1>3, <1>4, <1>5, <1>6, <1>7, <1>8, <1>9, <1>10, <1>11, <1>12 DEF Proceed

\* Every step keeps the types and, being a step of RoomActor, the slots.
LEMMA ManagerTypedStep ==
    ASSUME ActorAssumption, ManagerAssumption, ManagerTyped, Slotted, CallsShaped,
           [ManagerNext]_managerVars
    PROVE  ManagerTyped' /\ Slotted'
<1>1. [ActorNext]_actorVars
    BY ManagerActs
<1>2. Slotted'
    BY <1>1, TypedStep, SlotsStep DEF Slotted
<1>3. IndexTyped
    BY DEF ManagerTyped, IndexTyped
<1>4. IndexTyped'
    <2>1. ASSUME NEW t \in Admins, NEW r \in Rooms, CreateRoom(t, r)
          PROVE  IndexTyped'
        BY <1>3, <2>1 DEF CreateRoom, IndexTyped
    <2>2. ASSUME NEW t \in Admins, NEW r \in Rooms, DestroyRoom(t, r)
          PROVE  IndexTyped'
        <3>1. t \in Tasks
            BY DEF ManagerAssumption
        <3>2. QED
            BY <1>3, <2>2, <3>1, BeginTyped DEF DestroyRoom, Locks, IndexTyped
    <2>3. CASE (\E r \in Rooms : RunActor(r)) \/ UNCHANGED managerVars
        BY <1>3, <2>3 DEF RunActor, mgrVars, managerVars, IndexTyped
    <2>4. QED
        BY <1>3, <2>1, <2>2, <2>3, PlayerCallTyped, ProceedTyped DEF ManagerNext
<1>5. QED
    BY <1>2, <1>4 DEF Slotted, Typed, ManagerTyped, IndexTyped

-----------------------------------------------------------------------------
(* Frames: what a step of the manager leaves as it was. *)

\* A queued command is a command.
LEMMA QueuedTyped ==
    ASSUME TypeOK, NEW r \in Rooms, NEW i \in DOMAIN queue[r]
    PROVE  queue[r][i] \in Commands /\ queue[r][i].task \in Tasks
<1>1. queue[r] \in Seq(Commands)
    BY DEF TypeOK
<1>2. queue[r][i] \in Commands
    BY <1>1
<1>3. QED
    BY <1>2 DEF Commands

\* t has no request in any queue.
Quiet(t) ==
    \A r \in Rooms : \A i \in DOMAIN queue[r] :
        queue[r][i].op \in AskOps => queue[r][i].task # t

\* Who waits for no answer has no request in a queue.
LEMMA NotWaitingQuiet ==
    ASSUME CommandsMatch, NEW t \in Tasks, reply[t] # "pending"
    PROVE  Quiet(t)
BY DEF CommandsMatch, PartOfCall, Quiet

\* Nobody but t is in another call or has another answer than before.
OnlyCallOf(t) ==
    \A u \in Tasks \ {t} : call'[u] = call[u] /\ reply'[u] = reply[u]

\* Commands still belong to the calls that sent them when a task that has no
\* request in a queue goes on, and only rooms without commands are added.
LEMMA CommandsFrame ==
    ASSUME TypeOK, CommandsMatch, OneRequest, NEW t \in Tasks, Quiet(t), OnlyCallOf(t),
           queue' = queue, \A r \in rooms' \ rooms : queue[r] = <<>>
    PROVE  CommandsMatch' /\ OneRequest'
<1>1. OneRequest'
    BY DEF OneRequest
<1>2. SUFFICES ASSUME NEW r \in Rooms, NEW i \in DOMAIN queue'[r]
               PROVE  PartOfCall(r, i)'
    BY <1>1 DEF CommandsMatch
<1> DEFINE cmd == queue[r][i]
<1>3. PartOfCall(r, i) /\ cmd.task \in Tasks /\ r \notin rooms' \ rooms
    BY QueuedTyped DEF CommandsMatch
<1>4. cmd.op \in AskOps => call'[cmd.task] = call[cmd.task] /\ reply'[cmd.task] = reply[cmd.task]
    BY <1>3 DEF Quiet, OnlyCallOf
<1>5. QED
    BY <1>3, <1>4 DEF PartOfCall, AskOps

\* While t holds the lock, or nobody does, others are in no call or list.
LEMMA OthersHoldNothing ==
    ASSUME LockHeld, CallsShaped, NEW t, lock \in {t, NoTask},
           ManagerAssumption, NEW u \in Tasks \ {t}
    PROVE  /\ ~Holds(u)
           /\ call[u].op \in {"none", "list"}
BY DEF LockHeld, Holds, ManagerAssumption

\* A call that holds nothing keeps its shape whatever happens to the rooms.
LEMMA ShapeFrame ==
    ASSUME NEW t \in Tasks, CallShape(t), ~Holds(t), call'[t] = call[t]
    PROVE  CallShape(t)' /\ ~Holds(t)'
BY DEF CallShape, Holds, Idle

-----------------------------------------------------------------------------
(* Calls begin. *)

\* What is common to the calls that begin: the room of a destroy leaves the
\* map, nothing else changes but the call and the lock.
LEMMA BeginCoherent ==
    ASSUME ActorAssumption, ManagerAssumption, ManagerInv,
           NEW t \in Tasks, NEW op \in {"join", "match", "leave", "message", "list", "destroy"},
           NEW at \in {"scan", "send"}, NEW r, NEW ch, NEW todo,
           Begin(t, op, at, r, ch, todo), call'[t] = [op |-> op, at |-> at, room |-> r,
                                                      chan |-> ch, todo |-> todo],
           lock' = IF op = "list" THEN NoTask ELSE t,
           rooms' = IF op = "destroy" THEN rooms \ {r} ELSE rooms,
           op = "match" => at = "scan" /\ todo = rooms,
           op = "destroy" => at = "send" /\ r \in rooms,
           op \in {"join", "match"} => player_rooms[t] = NoRoom,
           CallShape(t)',
           UNCHANGED actorVars, UNCHANGED <<player_rooms, room_rx>>
    PROVE  Coherent'
<1> USE DEF ManagerInv, Coherent
<1>1. /\ call[t] = Idle /\ lock = NoTask
      /\ \A u \in Tasks \ {t} : call'[u] = call[u]
      /\ UNCHANGED <<phase, players, senders, game, queue, reply, rx, sent>>
      /\ UNCHANGED <<player_rooms, room_rx>>
    BY DEF Begin, actorVars, ManagerTyped
<1>2. TypeOK /\ OnlyCallOf(t) /\ Quiet(t)
    <2>1. TypeOK
        BY DEF ManagerTyped
    <2>2. Quiet(t)
        BY <1>1, <2>1, QueuedTyped DEF CommandsMatch, PartOfCall, Quiet, Idle, AskOps
    <2>3. QED
        BY <1>1, <2>1, <2>2 DEF OnlyCallOf
<1>3. CommandsMatch' /\ OneRequest'
    <2>1. rooms' \ rooms = {}
        OBVIOUS
    <2>2. QED
        BY <1>1, <1>2, <2>1, CommandsFrame
<1>4. \A u \in Tasks : ~Holds(u) /\ CallShape(u)
    BY <1>1 DEF LockHeld, CallsShaped, ManagerAssumption
<1>5. CallsShaped'
    BY <1>1, <1>4, ShapeFrame DEF CallsShaped
<1>6. LockHeld'
    BY <1>1, <1>4 DEF LockHeld, Holds, ManagerAssumption
<1>7. RoomsSpawned' /\ DeadQuiet'
    BY <1>1 DEF RoomsSpawned, DeadQuiet, Live
<1>8. IndexInMap'
    <2>1. \A p \in Players : player_rooms[p] \in rooms \cup {NoRoom}
        BY <1>4 DEF IndexInMap, Holds
    <2>2. QED
        BY <1>1, <2>1 DEF IndexInMap
<1>9. /\ \A p \in Players, s \in Rooms : Belongs(p, s) <=> player_rooms[p] = s
      /\ \A p \in Players, s \in Rooms : Belongs(p, s)' <=> player_rooms[p] = s
    <2>1. ASSUME NEW p \in Players
          PROVE  ~Returns(p, {"join", "match", "leave"}) /\ ~Returns(p, {"join", "match", "leave"})'
        <3>1. p \in Tasks
            BY DEF ManagerAssumption
        <3>2. QED
            BY <1>1, <1>4, <3>1 DEF Returns, Holds
    <2>2. QED
        BY <1>1, <2>1 DEF Belongs, Answered, Returns
<1>10. ActorsAgree'
    BY <1>1, <1>9 DEF ActorsAgree, Live, ManagerTyped
<1>11. Condemned'
    <2>1. SUFFICES ASSUME NEW s \in Rooms \ rooms', Live(s)'
                   PROVE  \/ ShutdownSent(s)'
                          \/ /\ \E u \in Tasks : Condemns(u, s)'
                             /\ \A p \in players'[s] : player_rooms'[p] = s
        BY DEF Condemned
    <2>2. Live(s)
        BY <1>1, <2>1 DEF Live
    <2>3. CASE s \in rooms
        <3>1. op = "destroy" /\ s = r
            BY <2>1, <2>3
        <3>2. Condemns(t, s)'
            BY <3>1 DEF Condemns
        <3>3. \A p \in players[s] : player_rooms[p] = s
            BY <1>9, <2>2, <2>3 DEF ActorsAgree, ManagerTyped, TypeOK
        <3>4. QED
            BY <1>1, <3>2, <3>3
    <2>4. CASE s \notin rooms
        <3>1. ShutdownSent(s)
            BY <1>4, <2>1, <2>2, <2>4 DEF Condemned, Condemns, Holds
        <3>2. QED
            BY <1>1, <3>1 DEF ShutdownSent
    <2>5. QED
        BY <2>3, <2>4
<1>12. ReceiverKnown'
    <2>1. SUFFICES ASSUME NEW s \in rooms, NEW p \in players[s]
                   PROVE  senders[s][p] = IF call'[p].op \in {"join", "match"} THEN call'[p].chan
                                          ELSE IF room_rx[p] = NoChan THEN senders[s][p]
                                          ELSE room_rx[p]
        BY <1>1 DEF ReceiverKnown
    <2>2. s \in Rooms /\ p \in Players /\ p \in Tasks
        BY DEF ManagerTyped, TypeOK, ManagerAssumption
    <2>3. player_rooms[p] = s
        BY <1>9, <2>2 DEF ActorsAgree, Slotted, SlotDiscipline, SlotsOf
    <2>4. call'[p].op \notin {"join", "match"}
        BY <1>1, <1>4, <2>2, <2>3 DEF Holds, ManagerTyped, ManagerAssumption
    <2>5. call[p].op \notin {"join", "match"}
        BY <1>4, <2>2 DEF Holds
    <2>6. QED
        BY <2>4, <2>5 DEF ReceiverKnown
<1>13. MatchStands' /\ Scanned'
    BY <1>1, <1>4 DEF MatchStands, Scanned, HasFound, Returns, Holds, ManagerAssumption
<1>14. QED
    BY <1>3, <1>5, <1>6, <1>7, <1>8, <1>10, <1>11, <1>12, <1>13

\* A player's call begins.
LEMMA PlayerBegins ==
    ASSUME ActorAssumption, ManagerAssumption, ManagerInv, NEW p \in Players,
           \/ \E ch \in Chans : \/ \E r \in Rooms : JoinRoom(p, r, ch)
                                \/ JoinOrCreate(p, ch)
           \/ LeaveRoom(p) \/ RouteMessage(p) \/ ListRooms(p)
    PROVE  Coherent'
<1>1. p \in Tasks /\ call \in [Tasks -> Calls]
    BY DEF ManagerAssumption, ManagerInv, ManagerTyped
<1>2. lock = NoTask
    BY DEF JoinRoom, JoinOrCreate, LeaveRoom, RouteMessage, ListRooms, Begin
<1>3. ASSUME NEW ch \in Chans, NEW r \in Rooms, JoinRoom(p, r, ch)
      PROVE  Coherent'
    <2>1. call'[p] = [op |-> "join", at |-> "send", room |-> r, chan |-> ch, todo |-> {}]
        BY <1>1, <1>3 DEF JoinRoom, Begin
    <2>2. CallShape(p)'
        BY <1>3, <2>1 DEF JoinRoom, CallShape, Idle
    <2>3. QED
        BY <1>1, <1>3, <2>1, <2>2, BeginCoherent DEF JoinRoom, Locks
<1>4. ASSUME NEW ch \in Chans, JoinOrCreate(p, ch)
      PROVE  Coherent'
    <2>1. call'[p] = [op |-> "match", at |-> "scan", room |-> NoRoom, chan |-> ch,
                      todo |-> rooms]
        BY <1>1, <1>4 DEF JoinOrCreate, Begin
    <2>2. CallShape(p)'
        BY <1>4, <2>1 DEF JoinOrCreate, CallShape, Idle
    <2>3. QED
        BY <1>1, <1>4, <2>1, <2>2, BeginCoherent DEF JoinOrCreate, Locks
<1>5. CASE LeaveRoom(p)
    <2>1. call'[p] = [op |-> "leave", at |-> "send", room |-> player_rooms[p],
                      chan |-> NoChan, todo |-> {}]
        BY <1>1, <1>5 DEF LeaveRoom, Begin
    <2>2. CallShape(p)'
        BY <1>5, <2>1 DEF LeaveRoom, CallShape, Idle
    <2>3. QED
        BY <1>1, <1>5, <2>1, <2>2, BeginCoherent DEF LeaveRoom, Locks
<1>6. CASE RouteMessage(p)
    <2>1. call'[p] = [op |-> "message", at |-> "send", room |-> player_rooms[p],
                      chan |-> NoChan, todo |-> {}]
        BY <1>1, <1>6 DEF RouteMessage, Begin
    <2>2. CallShape(p)'
        BY <1>6, <2>1 DEF RouteMessage, CallShape, Idle
    <2>3. QED
        BY <1>1, <1>6, <2>1, <2>2, BeginCoherent DEF RouteMessage, Locks
<1>7. CASE ListRooms(p)
    <2>1. call'[p] = [op |-> "list", at |-> "scan", room |-> NoRoom, chan |-> NoChan,
                      todo |-> rooms]
        BY <1>1, <1>7 DEF ListRooms, Begin
    <2>2. CallShape(p)'
        BY <1>7, <2>1 DEF ListRooms, CallShape, Idle
    <2>3. QED
        BY <1>1, <1>2, <1>7, <2>1, <2>2, BeginCoherent DEF ListRooms
<1>8. QED
    BY <1>3, <1>4, <1>5, <1>6, <1>7

\* destroy_room takes the room out of the map before its actor knows.
LEMMA DestroyBegins ==
    ASSUME ActorAssumption, ManagerAssumption, ManagerInv,
           NEW t \in Admins, NEW r \in Rooms, DestroyRoom(t, r)
    PROVE  Coherent'
<1>1. t \in Tasks /\ call \in [Tasks -> Calls] /\ r \in rooms
    BY DEF ManagerAssumption, ManagerInv, ManagerTyped, DestroyRoom
<1>2. call'[t] = [op |-> "destroy", at |-> "send", room |-> r, chan |-> NoChan,
                  todo |-> {}]
    BY <1>1 DEF DestroyRoom, Begin
<1>3. phase[r] # "Absent"
    BY <1>1 DEF ManagerInv, Coherent, RoomsSpawned
<1>4. CallShape(t)'
    BY <1>2, <1>3 DEF DestroyRoom, CallShape, Idle, actorVars
<1>5. QED
    BY <1>1, <1>2, <1>4, BeginCoherent DEF DestroyRoom, Locks

-----------------------------------------------------------------------------
(* Calls return. *)

\* A handler drops its receiver: nothing is said of a receiver that is gone.
LEMMA DropsReceiver ==
    ASSUME ManagerInv, NEW p \in Players, LeaveRefused(p) \/ HandlerExit(p)
    PROVE  Coherent'
<1> USE DEF ManagerInv, Coherent
<1>1. /\ UNCHANGED <<phase, players, senders, game, queue, reply, sent,
                     lock, rooms, player_rooms, call>>
      /\ room_rx' = [room_rx EXCEPT ![p] = NoChan]
    BY DEF LeaveRefused, HandlerExit, CloseChannels
<1>2. LockHeld' /\ CallsShaped'
    BY <1>1 DEF LockHeld, CallsShaped, CallShape, Holds
<1>3. RoomsSpawned' /\ IndexInMap' /\ DeadQuiet'
    BY <1>1 DEF RoomsSpawned, IndexInMap, DeadQuiet, Live
<1>4. CommandsMatch' /\ OneRequest'
    BY <1>1 DEF CommandsMatch, OneRequest, PartOfCall
<1>5. ActorsAgree' /\ Condemned'
    BY <1>1 DEF ActorsAgree, Condemned, Condemns, ShutdownSent, Live, Belongs,
                Answered, Returns
<1>6. ReceiverKnown'
    <2>1. room_rx \in [Players -> Chans \cup {NoChan}]
        BY DEF ManagerTyped
    <2>2. \A s \in rooms : players[s] \subseteq Players
        BY DEF ManagerTyped, TypeOK
    <2>3. QED
        BY <1>1, <2>1, <2>2 DEF ReceiverKnown
<1>7. MatchStands' /\ Scanned'
    BY <1>1 DEF MatchStands, Scanned, HasFound, Hopes, Returns, Live, Info, IsJoinable
<1>8. QED
    BY <1>2, <1>3, <1>4, <1>5, <1>6, <1>7

\* list_rooms has asked every room: it holds nothing and leaves nothing behind.
LEMMA ListEnds ==
    ASSUME ActorAssumption, ManagerAssumption, ManagerInv, NEW t \in Tasks, ListReturns(t)
    PROVE  Coherent'
<1> USE DEF ManagerInv, Coherent
<1>1. /\ UNCHANGED <<phase, players, senders, game, queue, reply, rx, sent>>
      /\ UNCHANGED <<lock, rooms, player_rooms, room_rx>>
      /\ call'[t] = Idle /\ \A u \in Tasks \ {t} : call'[u] = call[u]
      /\ call[t].op = "list" /\ call[t].at = "scan"
    BY DEF ListReturns, actorVars, ManagerTyped
<1>2. LockHeld' /\ CallsShaped'
    <2>1. LockHeld'
        BY <1>1 DEF LockHeld, Holds, Idle
    <2>2. CallShape(t)'
        BY <1>1 DEF CallShape, Idle
    <2>3. ASSUME NEW u \in Tasks \ {t} PROVE CallShape(u)'
        BY <1>1, <2>3 DEF CallsShaped, CallShape
    <2>4. QED
        BY <2>1, <2>2, <2>3 DEF CallsShaped
<1>3. RoomsSpawned' /\ IndexInMap' /\ DeadQuiet'
    BY <1>1 DEF RoomsSpawned, IndexInMap, DeadQuiet, Live
<1>4. CommandsMatch' /\ OneRequest'
    <2>1. TypeOK
        BY DEF ManagerTyped
    <2>2. Quiet(t)
        BY <1>1, <2>1, QueuedTyped DEF CommandsMatch, PartOfCall, Quiet, AskOps
    <2>3. QED
        BY <1>1, <2>1, <2>2, CommandsFrame DEF OnlyCallOf
<1>5. \A p \in Players, r \in Rooms : Belongs(p, r) <=> Belongs(p, r)'
    BY <1>1 DEF Belongs, Answered, Returns, Idle, ManagerAssumption
<1>6. ActorsAgree' /\ Condemned'
    BY <1>1, <1>5 DEF ActorsAgree, Condemned, Condemns, ShutdownSent, Live, ManagerTyped
<1>7. ReceiverKnown'
    <2>1. \A s \in rooms : players[s] \subseteq Tasks
        BY DEF ManagerTyped, TypeOK, ManagerAssumption
    <2>2. QED
        BY <1>1, <2>1 DEF ReceiverKnown, Idle
<1>8. MatchStands' /\ Scanned'
    <2>1. Players \subseteq Tasks
        BY DEF ManagerAssumption
    <2>2. QED
        BY <1>1, <2>1 DEF MatchStands, Scanned, HasFound, Hopes, Returns, Live, Info,
                          IsJoinable, Idle
<1>9. QED
    BY <1>2, <1>3, <1>4, <1>6, <1>7, <1>8

\* A call that holds the lock returns: what it leaves in the index must be
\* where the actors have the players, and what a handler reads must be what
\* the actors send to.
LEMMA ReturnCoherent ==
    ASSUME ActorAssumption, ManagerAssumption, ManagerInv,
           NEW t \in Tasks, Holds(t), call[t].at = "wait",
           NEW dropped, TakeReply(t, dropped), Finish(t),
           rooms' = rooms,
           \A p \in Players : player_rooms'[p] \in rooms \cup {NoRoom},
           \A r \in rooms : Live(r) =>
               \A p \in Players : Belongs(p, r) <=> player_rooms'[p] = r,
           \A p \in Players \ {t} : room_rx'[p] = room_rx[p],
           t \in Players => \A r \in rooms :
               t \in players[r] => room_rx'[t] \in {NoChan, senders[r][t]}
    PROVE  Coherent'
<1> USE DEF ManagerInv, Coherent
<1>1. /\ UNCHANGED <<phase, players, senders, game, queue, rooms>>
      /\ reply[t] # "pending"
      /\ call'[t] = Idle /\ lock' = NoTask
      /\ \A u \in Tasks \ {t} : call'[u] = call[u] /\ reply'[u] = reply[u]
    BY DEF TakeReply, Finish, ManagerTyped, TypeOK
<1>2. \A u \in Tasks \ {t} : call[u].op \in {"none", "list"} /\ ~Holds(u) /\ CallShape(u)
    BY DEF LockHeld, CallsShaped, Holds, ManagerAssumption
<1>3. Players \subseteq Tasks /\ NoTask \notin Tasks /\ Idle.op = "none"
    BY DEF ManagerAssumption, Idle
<1>4. LockHeld'
    BY <1>1, <1>2, <1>3 DEF LockHeld, Holds
<1>5. CallsShaped'
    <2>1. CallShape(t)'
        BY <1>1 DEF CallShape, Idle
    <2>2. ASSUME NEW u \in Tasks \ {t} PROVE CallShape(u)'
        BY <1>1, <1>2, ShapeFrame
    <2>3. QED
        BY <2>1, <2>2 DEF CallsShaped
<1>6. RoomsSpawned' /\ IndexInMap' /\ DeadQuiet'
    BY <1>1 DEF RoomsSpawned, IndexInMap, DeadQuiet, Live
<1>7. CommandsMatch' /\ OneRequest'
    <2>1. Quiet(t) /\ TypeOK
        BY <1>1, NotWaitingQuiet DEF ManagerTyped
    <2>2. QED
        BY <1>1, <2>1, CommandsFrame DEF OnlyCallOf
<1>8. \A p \in Players, r \in Rooms : Belongs(p, r)' <=> player_rooms'[p] = r
    BY <1>1, <1>2, <1>3 DEF Belongs, Answered, Returns
<1>9. ActorsAgree'
    BY <1>1, <1>8 DEF ActorsAgree, Live, ManagerTyped
<1>10. Condemned'
    <2>1. SUFFICES ASSUME NEW s \in Rooms \ rooms, Live(s), ~ShutdownSent(s)
                   PROVE  FALSE
        BY <1>1 DEF Condemned, ShutdownSent, Live
    <2>2. PICK u \in Tasks : Condemns(u, s)
        BY <2>1 DEF Condemned
    <2>3. u = t
        BY <1>2, <2>2 DEF Condemns
    <2>4. call[t].at = "send"
        BY <2>2, <2>3 DEF Condemns
    <2>5. QED
        BY <2>4
<1>11. ReceiverKnown'
    <2>1. SUFFICES ASSUME NEW s \in rooms, NEW p \in players[s]
                   PROVE  room_rx'[p] \in {NoChan, senders[s][p]} /\ call'[p].op \notin {"join", "match"}
        BY <1>1 DEF ReceiverKnown
    <2>2. p \in Players
        BY DEF ManagerTyped, TypeOK
    <2>3. CASE p = t
        BY <1>1, <1>3, <2>1, <2>2, <2>3
    <2>4. CASE p # t
        BY <1>1, <1>2, <1>3, <2>2, <2>4 DEF ReceiverKnown
    <2>5. QED
        BY <2>3, <2>4
<1>12. MatchStands' /\ Scanned'
    BY <1>1, <1>2, <1>3 DEF MatchStands, Scanned, HasFound, Returns
<1>13. QED
    BY <1>4, <1>5, <1>6, <1>7, <1>9, <1>10, <1>11, <1>12

\* While t holds the lock, everybody else is where the index says, nobody
\* else destroys a room, and the index names a room out of the map only if t
\* is destroying it.
LEMMA OthersSettled ==
    ASSUME ActorAssumption, ManagerAssumption, ManagerInv, NEW t \in Tasks, Holds(t)
    PROVE  /\ \A q \in Players \ {t} : \A r : Belongs(q, r) <=> player_rooms[q] = r
           /\ call[t].op # "destroy" =>
                  \A q \in Players : player_rooms[q] \in rooms \cup {NoRoom}
           /\ \A q \in Players : \/ player_rooms[q] \in rooms \cup {NoRoom}
                                 \/ player_rooms[q] = call[t].room
<1> USE DEF ManagerInv, Coherent
<1>1. \A u \in Tasks \ {t} : call[u].op \in {"none", "list"}
    BY DEF LockHeld, Holds, ManagerAssumption
<1>2. Players \subseteq Tasks
    BY DEF ManagerAssumption
<1>3. \A q \in Players \ {t} : \A r : Belongs(q, r) <=> player_rooms[q] = r
    BY <1>1, <1>2 DEF Belongs, Answered, Returns
<1>4. \A u \in Tasks : call[u].op = "destroy" => u = t
    BY <1>1
<1>5. QED
    BY <1>3, <1>4 DEF IndexInMap

\* Who is a member in a room of the map is one as the room runs.
LEMMA MembersRun ==
    ASSUME Slotted, rooms \subseteq Rooms, ActorsAgree,
           NEW r \in rooms, NEW p \in players[r]
    PROVE  Live(r) /\ p \in Players /\ Belongs(p, r)
<1>1. Live(r) /\ p \in Players
    BY DEF Slotted, SlotDiscipline, SlotsOf, Typed, TypeOK
<1>2. QED
    BY <1>1 DEF ActorsAgree

\* After a join the index and the receiver follow the answer.
LEMMA JoinReturns ==
    ASSUME ActorAssumption, ManagerAssumption, ManagerInv,
           NEW p \in Players, JoinSucceeds(p) \/ JoinFails(p)
    PROVE  Coherent'
<1> USE DEF ManagerInv, Coherent
<1>1. /\ p \in Tasks /\ CallShape(p)
      /\ call[p].at = "wait" /\ call[p].op \in {"join", "match"} /\ Holds(p)
    BY DEF JoinSucceeds, JoinFails, Returns, Holds, ManagerAssumption, CallsShaped
<1>2. /\ player_rooms[p] = NoRoom /\ call[p].room \in rooms
      /\ rooms \subseteq Rooms /\ NoRoom \notin rooms
      /\ player_rooms \in [Players -> Rooms \cup {NoRoom}]
      /\ room_rx \in [Players -> Chans \cup {NoChan}]
    BY <1>1 DEF CallShape, ManagerTyped, ManagerAssumption
<1>3. /\ \A q \in Players \ {p} : \A r : Belongs(q, r) <=> player_rooms[q] = r
      /\ \A q \in Players : player_rooms[q] \in rooms \cup {NoRoom}
    BY <1>1, OthersSettled
<1>4. \A r \in rooms : p \in players[r] => senders[r][p] = call[p].chan
    BY <1>1 DEF ReceiverKnown
<1>5. CASE JoinSucceeds(p)
    <2>1. /\ player_rooms' = [player_rooms EXCEPT ![p] = call[p].room]
          /\ room_rx' = [room_rx EXCEPT ![p] = call[p].chan]
          /\ TakeReply(p, {room_rx[p]}) /\ Finish(p) /\ rooms' = rooms
          /\ reply[p] = "ok"
        BY <1>5 DEF JoinSucceeds
    <2>2. \A q \in Players : player_rooms'[q] \in rooms \cup {NoRoom}
        BY <1>2, <1>3, <2>1
    <2>3. \A r \in rooms, q \in Players : Belongs(q, r) <=> player_rooms'[q] = r
        BY <1>1, <1>2, <1>3, <2>1 DEF Belongs, Answered, Returns
    <2>4. \A r \in rooms : p \in players[r] => room_rx'[p] \in {NoChan, senders[r][p]}
        BY <1>2, <1>4, <2>1
    <2>5. \A q \in Players \ {p} : room_rx'[q] = room_rx[q]
        BY <1>2, <2>1
    <2>6. QED
        BY <1>1, <2>1, <2>2, <2>3, <2>4, <2>5, ReturnCoherent
<1>6. CASE JoinFails(p)
    <2>1. /\ UNCHANGED <<rooms, player_rooms, room_rx>>
          /\ TakeReply(p, {call[p].chan}) /\ Finish(p) /\ reply[p] # "ok"
        BY <1>6 DEF JoinFails
    <2>2. \A r \in rooms, q \in Players : Belongs(q, r) <=> player_rooms'[q] = r
        BY <1>1, <1>2, <1>3, <2>1 DEF Belongs, Answered
    <2>3. \A r \in rooms : p \notin players[r]
        BY <1>2, <2>1, <2>2, MembersRun
    <2>4. QED
        BY <1>1, <1>3, <2>1, <2>2, <2>3, ReturnCoherent
<1>7. QED
    BY <1>5, <1>6

\* After a leave the receiver is gone, and the index entry if the actor said so.
LEMMA LeaveOrRouteReturns ==
    ASSUME ActorAssumption, ManagerAssumption, ManagerInv,
           NEW p \in Players, LeaveReturns(p) \/ RouteReturns(p)
    PROVE  Coherent'
<1> USE DEF ManagerInv, Coherent
<1>1. /\ p \in Tasks /\ CallShape(p)
      /\ call[p].at = "wait" /\ call[p].op \in {"leave", "message"} /\ Holds(p)
    BY DEF LeaveReturns, RouteReturns, Returns, Holds, ManagerAssumption, CallsShaped
<1>2. /\ rooms \subseteq Rooms /\ NoRoom \notin rooms
      /\ player_rooms \in [Players -> Rooms \cup {NoRoom}]
      /\ room_rx \in [Players -> Chans \cup {NoChan}]
    BY DEF ManagerTyped, ManagerAssumption
<1>3. /\ \A q \in Players \ {p} : \A r : Belongs(q, r) <=> player_rooms[q] = r
      /\ \A q \in Players : player_rooms[q] \in rooms \cup {NoRoom}
    BY <1>1, OthersSettled
<1>4. CASE LeaveReturns(p)
    <2>1. /\ room_rx' = [room_rx EXCEPT ![p] = NoChan]
          /\ TakeReply(p, {room_rx[p]}) /\ Finish(p) /\ rooms' = rooms
          /\ call[p].op = "leave"
          /\ \/ reply[p] = "ok" /\ player_rooms' = [player_rooms EXCEPT ![p] = NoRoom]
             \/ reply[p] # "ok" /\ player_rooms' = player_rooms
        BY <1>4 DEF LeaveReturns, Returns
    <2>2. \A q \in Players : player_rooms'[q] \in rooms \cup {NoRoom}
        BY <1>2, <1>3, <2>1
    <2>3. \A r \in rooms, q \in Players : Belongs(q, r) <=> player_rooms'[q] = r
        BY <1>1, <1>2, <1>3, <2>1 DEF Belongs, Answered, Returns
    <2>4. room_rx'[p] = NoChan /\ \A q \in Players \ {p} : room_rx'[q] = room_rx[q]
        BY <1>2, <2>1
    <2>5. QED
        BY <1>1, <2>1, <2>2, <2>3, <2>4, ReturnCoherent
<1>5. CASE RouteReturns(p)
    <2>1. /\ UNCHANGED <<rooms, player_rooms, room_rx>>
          /\ TakeReply(p, {}) /\ Finish(p) /\ call[p].op = "message"
        BY <1>5 DEF RouteReturns, Returns
    <2>2. \A r \in rooms, q \in Players : Belongs(q, r) <=> player_rooms'[q] = r
        BY <1>1, <1>2, <1>3, <2>1 DEF Belongs, Answered, Returns
    <2>3. \A r \in rooms : p \in players[r] => room_rx[p] \in {NoChan, senders[r][p]}
        BY <2>1 DEF ReceiverKnown
    <2>4. QED
        BY <1>1, <1>3, <2>1, <2>2, <2>3, ReturnCoherent
<1>6. QED
    BY <1>4, <1>5

\* destroy_room forgets the players of a room that is out of the map already.
LEMMA DestroyEnds ==
    ASSUME ActorAssumption, ManagerAssumption, ManagerInv,
           NEW t \in Tasks, DestroyReturns(t)
    PROVE  Coherent'
<1> USE DEF ManagerInv, Coherent
<1>1. /\ CallShape(t) /\ Holds(t)
      /\ call[t].at = "wait" /\ call[t].op = "destroy"
      /\ UNCHANGED <<rooms, room_rx>> /\ TakeReply(t, {}) /\ Finish(t)
    BY DEF DestroyReturns, Returns, Holds, CallsShaped
<1>2. /\ t \in Admins /\ t \notin Players /\ call[t].room \notin rooms
      /\ rooms \subseteq Rooms /\ NoRoom \notin rooms
    BY <1>1 DEF CallShape, ManagerTyped, ManagerAssumption
<1>3. \A q \in Players : player_rooms'[q] = IF player_rooms[q] = call[t].room THEN NoRoom
                                            ELSE player_rooms[q]
    BY DEF DestroyReturns
<1>4. /\ \A q \in Players : \A r : Belongs(q, r) <=> player_rooms[q] = r
      /\ \A q \in Players : player_rooms[q] \in rooms \cup {NoRoom, call[t].room}
    BY <1>1, <1>2, OthersSettled
<1>5. \A r \in rooms, q \in Players : Belongs(q, r) <=> player_rooms'[q] = r
    BY <1>2, <1>3, <1>4
<1>6. \A q \in Players : player_rooms'[q] \in rooms \cup {NoRoom}
    BY <1>3, <1>4
<1>7. QED
    BY <1>1, <1>2, <1>5, <1>6, ReturnCoherent

-----------------------------------------------------------------------------
(* Calls go on. *)

\* An answer takes join_or_create or list_rooms on: to the next room, or to
\* the join of the one that was open.
LEMMA SearchGoesOn ==
    ASSUME ActorAssumption, ManagerAssumption, ManagerInv, NEW t \in Tasks,
           ProbeReturns(t) \/ (t \in Players /\ MatchRetries(t))
    PROVE  Coherent'
<1> USE DEF ManagerInv, Coherent
<1>1. /\ UNCHANGED <<phase, players, senders, game, queue>>
      /\ UNCHANGED <<lock, rooms, player_rooms, room_rx>>
      /\ reply[t] \notin {"none", "pending"} /\ reply'[t] = "none"
      /\ \A u \in Tasks \ {t} : call'[u] = call[u] /\ reply'[u] = reply[u]
    BY DEF ProbeReturns, MatchRetries, TakeReply, ManagerTyped, TypeOK
<1>2. /\ call'[t].op = call[t].op /\ call'[t].room = call[t].room
      /\ call'[t].chan = call[t].chan /\ call'[t].todo = call[t].todo
      /\ call[t].at \in {"probe", "wait"} /\ call'[t].at \in {"scan", "send"}
      /\ call'[t].at = "send" <=>
             call[t].op = "match" /\ reply[t] = "open" /\ call[t].at = "probe"
      /\ call[t].at = "wait" => call[t].op = "match" /\ reply[t] # "ok"
    BY DEF ProbeReturns, MatchRetries, Returns, ManagerTyped, Calls
<1>3. CallShape(t) /\ call[t] \in Calls /\ Idle.at = "idle"
    BY DEF CallsShaped, ManagerTyped, Idle
<1>4. call[t].op \in {"match", "list"}
    BY <1>2, <1>3 DEF CallShape, Calls
<1>5. Players \subseteq Tasks
    BY DEF ManagerAssumption
<1>6. LockHeld' /\ CallsShaped'
    <2>1. LockHeld'
        BY <1>1, <1>2 DEF LockHeld, Holds
    <2>2. CallShape(t)'
        <3>1. call[t].op = "match" /\ call[t].at = "probe" => call[t].room \in rooms
            BY <1>3 DEF CallShape
        <3>2. call'[t] # Idle
            BY <1>2, <1>3
        <3>3. QED
            BY <1>1, <1>2, <1>3, <1>4, <3>1, <3>2 DEF CallShape
    <2>3. ASSUME NEW u \in Tasks \ {t} PROVE CallShape(u)'
        BY <1>1, <2>3 DEF CallsShaped, CallShape
    <2>4. QED
        BY <2>1, <2>2, <2>3 DEF CallsShaped
<1>7. RoomsSpawned' /\ IndexInMap' /\ DeadQuiet'
    <2>1. \A u \in Tasks : call'[u].op = call[u].op /\ call'[u].room = call[u].room
        BY <1>1, <1>2
    <2>2. QED
        BY <1>1, <2>1 DEF RoomsSpawned, IndexInMap, DeadQuiet, Live
<1>8. CommandsMatch' /\ OneRequest'
    <2>1. Quiet(t) /\ TypeOK
        BY <1>1, NotWaitingQuiet DEF ManagerTyped
    <2>2. QED
        BY <1>1, <2>1, CommandsFrame DEF OnlyCallOf
<1>9. \A p \in Players, r \in Rooms : Belongs(p, r) <=> Belongs(p, r)'
    BY <1>1, <1>2, <1>4, <1>5 DEF Belongs, Answered, Returns
<1>10. ActorsAgree' /\ Condemned'
    BY <1>1, <1>4, <1>9 DEF ActorsAgree, Condemned, Condemns, ShutdownSent, Live, ManagerTyped
<1>11. ReceiverKnown'
    <2>1. \A s \in rooms : players[s] \subseteq Tasks
        BY <1>5 DEF ManagerTyped, TypeOK
    <2>2. \A u \in Tasks : call'[u].op = call[u].op /\ call'[u].chan = call[u].chan
        BY <1>1, <1>2
    <2>3. QED
        BY <1>1, <2>1, <2>2 DEF ReceiverKnown
<1>12. \A r \in Rooms : Info(r)' = Info(r) /\ Live(r)' = Live(r)
    BY <1>1 DEF Info, IsJoinable, Live
<1>13. MatchStands'
    <2>1. SUFFICES ASSUME NEW p \in Players
                   PROVE  /\ HasFound(p)' => HasFound(p) /\ call'[p].room = call[p].room
                          /\ Returns(p, {"match"})'
                                => Returns(p, {"match"}) /\ reply'[p] = reply[p]
        BY <1>1 DEF MatchStands, Live, Info, IsJoinable
    <2>2. QED
        BY <1>1, <1>2, <1>5 DEF HasFound, Returns
<1>14. Scanned'
    <2>1. SUFFICES ASSUME NEW p \in Players, call'[p].op = "match"
                   PROVE  /\ call[p].op = "match" /\ call'[p].todo = call[p].todo
                          /\ call'[p].room = call[p].room
                          /\ Hopes(p) => Hopes(p)'
        BY <1>1 DEF Scanned, Live, Info, IsJoinable
    <2>2. QED
        BY <1>1, <1>2, <1>5, <2>1 DEF Hopes, HasFound
<1>15. QED
    BY <1>6, <1>7, <1>8, <1>10, <1>11, <1>13, <1>14

\* A room is made while no other call can see it half made.
LEMMA RoomAppears ==
    ASSUME ActorAssumption, ManagerAssumption, ManagerInv, NEW t \in Tasks, NEW r \in Rooms,
           (t \in Admins /\ CreateRoom(t, r)) \/ (t \in Players /\ MatchCreates(t, r))
    PROVE  Coherent'
<1> USE DEF ManagerInv, Coherent
<1>1. /\ phase[r] = "Absent" /\ phase'[r] = "WaitingForPlayers"
      /\ \A s \in Rooms \ {r} : phase'[s] = phase[s]
      /\ UNCHANGED <<players, senders, game, queue, reply, lock, player_rooms, room_rx>>
      /\ rooms' = rooms \cup {r}
    BY DEF CreateRoom, MatchCreates, Spawn, ManagerTyped, TypeOK
<1>2. /\ \A u \in Tasks \ {t} : call'[u] = call[u]
      /\ \/ call'[t] = call[t] /\ lock = NoTask
         \/ /\ t \in Players /\ call[t].op = "match" /\ call[t].at = "scan"
            /\ call'[t].op = "join" /\ call'[t].at = "send" /\ call'[t].room = r
            /\ call'[t].chan = call[t].chan
    BY DEF CreateRoom, MatchCreates, ManagerTyped, Calls
<1>3. /\ Players \subseteq Tasks /\ rooms \subseteq Rooms /\ r \notin rooms
      /\ ~Live(r) /\ queue[r] = <<>> /\ players[r] = {}
    BY <1>1 DEF ManagerAssumption, ManagerTyped, RoomsSpawned, DeadQuiet, Live,
                Slotted, SlotDiscipline, SlotsOf
<1>4. \A u \in Tasks : CallShape(u)
    BY DEF CallsShaped
<1>5. \A u \in Tasks \ {t} : lock \in {NoTask, t} => ~Holds(u)
    BY DEF LockHeld, ManagerAssumption
<1>6. lock \in {NoTask, t} /\ \A u \in Tasks \ {t} : ~Holds(u)
    BY <1>2, <1>5 DEF LockHeld, Holds
<1>7. LockHeld'
    BY <1>1, <1>2 DEF LockHeld, Holds
<1>8. CallsShaped'
    <2>1. ASSUME NEW u \in Tasks \ {t} PROVE CallShape(u)'
        BY <1>2, <1>4, <1>6, <2>1, ShapeFrame
    <2>2. ASSUME call'[t] = call[t], lock = NoTask PROVE CallShape(t)'
        BY <1>4, <2>2, ShapeFrame DEF LockHeld, ManagerAssumption
    <2>3. ASSUME call'[t] # call[t] \/ lock # NoTask PROVE CallShape(t)'
        BY <1>1, <1>2, <1>4, <2>3 DEF CallShape, Idle
    <2>4. CallShape(t)'
        BY <2>2, <2>3
    <2>5. QED
        BY <2>1, <2>4 DEF CallsShaped
<1>9. RoomsSpawned' /\ DeadQuiet'
    BY <1>1, <1>3 DEF RoomsSpawned, DeadQuiet, Live
<1>10. \A u \in Tasks : call[u].op # "destroy" /\ call'[u].op # "destroy"
    BY <1>2, <1>6 DEF Holds, LockHeld, ManagerAssumption
<1>11. \A p \in Players : player_rooms[p] \in rooms \cup {NoRoom}
    BY <1>10 DEF IndexInMap
<1>12. IndexInMap'
    BY <1>1, <1>11 DEF IndexInMap
<1>13. CommandsMatch' /\ OneRequest'
    <2>1. TypeOK /\ OnlyCallOf(t)
        BY <1>1, <1>2 DEF ManagerTyped, OnlyCallOf
    <2>2. CASE call'[t] = call[t]
        <3>1. OneRequest'
            BY <1>1 DEF OneRequest
        <3>2. SUFFICES ASSUME NEW s \in Rooms, NEW i \in DOMAIN queue'[s]
                       PROVE  PartOfCall(s, i)'
            BY <3>1 DEF CommandsMatch
        <3>3. i \in DOMAIN queue[s] /\ s # r /\ queue'[s] = queue[s]
            BY <1>1, <1>3, <3>2
        <3>4. PartOfCall(s, i) /\ queue[s][i].task \in Tasks
            BY <2>1, <3>3, QueuedTyped DEF CommandsMatch
        <3>5. call'[queue[s][i].task] = call[queue[s][i].task]
            BY <1>2, <2>2, <3>4
        <3>6. QED
            BY <1>1, <3>3, <3>4, <3>5 DEF PartOfCall
    <2>3. CASE call'[t] # call[t]
        <3>1. call[t].op = "match" /\ call[t].at = "scan"
            BY <1>2, <2>3
        <3>2. Quiet(t)
            BY <2>1, <3>1, QueuedTyped DEF Quiet, CommandsMatch, PartOfCall, AskOps
        <3>3. QED
            BY <1>1, <1>3, <2>1, <3>2, CommandsFrame
    <2>4. QED
        BY <2>2, <2>3
<1>14. \A p \in Players, s \in Rooms : Belongs(p, s) <=> Belongs(p, s)'
    BY <1>1, <1>2, <1>3 DEF Belongs, Answered, Returns
<1>15. \A p \in Players : ~Belongs(p, r)
    BY <1>3, <1>4, <1>11 DEF Belongs, Answered, Returns, CallShape, ManagerAssumption
<1>16. ActorsAgree'
    BY <1>1, <1>3, <1>14, <1>15 DEF ActorsAgree, Live
<1>17. Condemned'
    BY <1>1, <1>10 DEF Condemned, Condemns, ShutdownSent, Live
<1>18. ReceiverKnown'
    <2>1. SUFFICES ASSUME NEW s \in rooms, NEW p \in players[s]
                   PROVE  senders[s][p] = IF call'[p].op \in {"join", "match"} THEN call'[p].chan
                                          ELSE IF room_rx[p] = NoChan THEN senders[s][p]
                                          ELSE room_rx[p]
        BY <1>1, <1>3 DEF ReceiverKnown
    <2>2. p \in Tasks
        BY <1>3 DEF ManagerTyped, TypeOK
    <2>3. QED
        BY <1>2, <2>2 DEF ReceiverKnown
<1>19. MatchStands' /\ Scanned'
    BY <1>2, <1>3, <1>6 DEF MatchStands, Scanned, HasFound, Returns, Holds, LockHeld,
                            ManagerAssumption
<1>20. QED
    BY <1>7, <1>8, <1>9, <1>12, <1>13, <1>16, <1>17, <1>18, <1>19

\* What sending a command does to the queues.
LEMMA EnqueueEffect ==
    ASSUME TypeOK, NEW r \in Rooms, NEW cmd \in Commands, Enqueue(r, cmd)
    PROVE  /\ \A s \in Rooms : \A i \in DOMAIN queue[s] :
                  i \in DOMAIN queue'[s] /\ queue'[s][i] = queue[s][i]
           /\ \A s \in Rooms : \A i \in DOMAIN queue'[s] :
                  \/ i \in DOMAIN queue[s]
                  \/ /\ s = r /\ i = Len(queue[r]) + 1 /\ queue'[s][i] = cmd
                     /\ Live(r)
           /\ Live(r) => \E i \in DOMAIN queue'[r] : queue'[r][i] = cmd
           /\ Live(r) => reply'[cmd.task] = IF cmd.op \in AskOps THEN "pending" ELSE "ok"
           /\ ~Live(r) => reply'[cmd.task] = "unavailable"
           /\ reply[cmd.task] = "none"
           /\ \A u \in Tasks \ {cmd.task} : reply'[u] = reply[u]
<1>1. queue \in [Rooms -> Seq(Commands)] /\ reply \in [Tasks -> Results] /\ cmd.task \in Tasks
    BY DEF TypeOK, Commands
<1>2. CASE /\ Live(r)
           /\ queue' = [queue EXCEPT ![r] = Append(@, cmd)]
           /\ reply' = [reply EXCEPT ![cmd.task] =
                           IF cmd.op \in AskOps THEN "pending" ELSE "ok"]
    <2>1. queue'[r] = Append(queue[r], cmd) /\ \A s \in Rooms \ {r} : queue'[s] = queue[s]
        BY <1>1, <1>2
    <2>2. queue[r] \in Seq(Commands)
        BY <1>1
    <2> DEFINE n == Len(queue[r])
    <2>3. /\ n \in Nat /\ DOMAIN queue[r] = 1..n /\ DOMAIN queue'[r] = 1..(n + 1)
          /\ queue'[r][n + 1] = cmd /\ \A i \in 1..n : queue'[r][i] = queue[r][i]
        BY <2>1, <2>2
    <2>4. \A i \in DOMAIN queue[r] : i \in DOMAIN queue'[r] /\ queue'[r][i] = queue[r][i]
        BY <2>3
    <2>5. \A i \in DOMAIN queue'[r] : i \in DOMAIN queue[r] \/ i = n + 1
        BY <2>3
    <2>6. n + 1 \in DOMAIN queue'[r]
        BY <2>3
    <2>7. reply'[cmd.task] = IF cmd.op \in AskOps THEN "pending" ELSE "ok"
        BY <1>1, <1>2
    <2>8. reply[cmd.task] = "none" /\ \A u \in Tasks \ {cmd.task} : reply'[u] = reply[u]
        BY <1>1, <1>2 DEF Enqueue
    <2>9. QED
        BY <1>2, <2>1, <2>3, <2>4, <2>5, <2>6, <2>7, <2>8
<1>3. CASE /\ ~Live(r) /\ queue' = queue
           /\ reply' = [reply EXCEPT ![cmd.task] = "unavailable"]
    BY <1>1, <1>3 DEF Enqueue
<1>4. QED
    BY <1>2, <1>3 DEF Enqueue, Live

\* A call puts its command into the channel of its room, or learns that the
\* actor is gone.
LEMMA CommandSent ==
    ASSUME ActorAssumption, ManagerAssumption, ManagerInv, NEW t \in Tasks, NEW r \in Rooms,
           NEW cmd \in Commands, cmd.task = t, Enqueue(r, cmd),
           UNCHANGED <<phase, players, senders, lock, rooms, player_rooms, room_rx>>,
           \A u \in Tasks \ {t} : call'[u] = call[u],
           call'[t].op = call[t].op, call'[t].chan = call[t].chan, call'[t].room = r,
           \/ /\ call[t].at = "scan" /\ call'[t].at = "probe" /\ r \in call[t].todo
              /\ call'[t].todo = call[t].todo \ {r} /\ cmd.op = "info"
           \/ /\ call[t].at = "send" /\ call'[t].at = "wait" /\ call[t].room = r
              /\ call'[t].todo = call[t].todo
              /\ \/ /\ call[t].op \in {"join", "match"} /\ cmd.op = "join"
                    /\ cmd.player = t /\ cmd.chan = call[t].chan
                 \/ call[t].op = "leave" /\ cmd.op = "leave" /\ cmd.player = t
                 \/ call[t].op = "message" /\ cmd.op = "message"
                 \/ call[t].op = "destroy" /\ cmd.op = "shutdown"
    PROVE  Coherent'
<1> USE DEF ManagerInv, Coherent
<1>1. TypeOK /\ CallShape(t) /\ call[t] \in Calls /\ Players \subseteq Tasks
    BY DEF ManagerTyped, CallsShaped, ManagerAssumption
<1>2. /\ \A s \in Rooms : \A i \in DOMAIN queue[s] :
             i \in DOMAIN queue'[s] /\ queue'[s][i] = queue[s][i]
      /\ \A s \in Rooms : \A i \in DOMAIN queue'[s] :
             \/ i \in DOMAIN queue[s]
             \/ /\ s = r /\ i = Len(queue[r]) + 1 /\ queue'[s][i] = cmd
                /\ Live(r)
      /\ Live(r) => \E i \in DOMAIN queue'[r] : queue'[r][i] = cmd
      /\ Live(r) => reply'[t] = IF cmd.op \in AskOps THEN "pending" ELSE "ok"
      /\ ~Live(r) => reply'[t] = "unavailable"
      /\ reply[t] = "none"
      /\ \A u \in Tasks \ {t} : reply'[u] = reply[u]
    BY <1>1, EnqueueEffect
<1>3. \A s \in Rooms : Live(s)' <=> Live(s)
    BY DEF Live
<1>4. LockHeld' /\ CallsShaped'
    <2>1. LockHeld'
        BY DEF LockHeld, Holds
    <2>2. CallShape(t)'
        BY <1>1 DEF CallShape, Idle, Calls
    <2>3. ASSUME NEW u \in Tasks \ {t} PROVE CallShape(u)'
        BY <2>3 DEF CallsShaped, CallShape
    <2>4. QED
        BY <2>1, <2>2, <2>3 DEF CallsShaped
<1>5. RoomsSpawned' /\ IndexInMap'
    <2>1. \A u \in Tasks : call[u].op = "destroy" =>
              call'[u].op = "destroy" /\ call'[u].room = call[u].room
        BY <1>1 DEF CallShape
    <2>2. QED
        BY <2>1 DEF RoomsSpawned, IndexInMap
<1>6. Quiet(t)
    BY <1>2, NotWaitingQuiet
<1>7. CommandsMatch'
    <2>1. SUFFICES ASSUME NEW s \in Rooms, NEW i \in DOMAIN queue'[s]
                   PROVE  PartOfCall(s, i)'
        BY DEF CommandsMatch
    <2>2. CASE i \in DOMAIN queue[s]
        <3>1. PartOfCall(s, i) /\ queue'[s][i] = queue[s][i] /\ queue[s][i].task \in Tasks
            BY <1>1, <1>2, <2>2, QueuedTyped DEF CommandsMatch
        <3>2. queue[s][i].op \in AskOps => queue[s][i].task # t
            BY <1>6, <2>2 DEF Quiet
        <3>3. QED
            BY <1>2, <3>1, <3>2 DEF PartOfCall, AskOps
    <2>3. CASE s = r /\ queue'[s][i] = cmd /\ Live(r)
        BY <1>1, <1>2, <2>3 DEF PartOfCall, CallShape, AskOps
    <2>4. QED
        BY <1>2, <2>2, <2>3
<1>8. OneRequest'
    <2>1. SUFFICES ASSUME NEW s \in Rooms, NEW i \in DOMAIN queue'[s], NEW j \in DOMAIN queue'[s],
                          queue'[s][i].op \in AskOps, queue'[s][j].op \in AskOps,
                          queue'[s][i].task = queue'[s][j].task
                   PROVE  i = j
        BY DEF OneRequest
    <2>2. CASE i \in DOMAIN queue[s] /\ j \in DOMAIN queue[s]
        BY <1>2, <2>1, <2>2 DEF OneRequest
    <2>3. CASE i \in DOMAIN queue[s] /\ j \notin DOMAIN queue[s]
        BY <1>2, <1>6, <2>1, <2>3 DEF Quiet
    <2>4. CASE i \notin DOMAIN queue[s] /\ j \in DOMAIN queue[s]
        BY <1>2, <1>6, <2>1, <2>4 DEF Quiet
    <2>5. CASE i \notin DOMAIN queue[s] /\ j \notin DOMAIN queue[s]
        BY <1>2, <2>1, <2>5
    <2>6. QED
        BY <2>2, <2>3, <2>4, <2>5
<1>9. DeadQuiet'
    <2>1. SUFFICES ASSUME NEW s \in Rooms, ~Live(s)
                   PROVE  queue'[s] = queue[s]
        BY <1>3 DEF DeadQuiet
    <2>2. QED
        BY <1>1, <2>1 DEF Enqueue, TypeOK
<1>10. \A p \in Players, s \in Rooms : Belongs(p, s) <=> Belongs(p, s)'
    <2>1. ~Answered(t, {"join", "match"}) /\ ~Answered(t, {"leave"})
        BY DEF Answered, Returns
    <2>2. ~Answered(t, {"join", "match"})' /\ ~Answered(t, {"leave"})'
        BY <1>1, <1>2 DEF Answered, Returns, AskOps
    <2>3. ASSUME NEW p \in Players, NEW s \in Rooms PROVE Belongs(p, s) <=> Belongs(p, s)'
        <3>1. CASE p = t
            BY <2>1, <2>2, <3>1 DEF Belongs
        <3>2. CASE p # t
            BY <1>1, <1>2, <3>2 DEF Belongs, Answered, Returns
        <3>3. QED
            BY <3>1, <3>2
    <2>4. QED
        BY <2>3
<1>11. ActorsAgree'
    BY <1>3, <1>10 DEF ActorsAgree, ManagerTyped
<1>12. Condemned'
    <2>1. SUFFICES ASSUME NEW s \in Rooms \ rooms, Live(s)
                   PROVE  \/ ShutdownSent(s)'
                          \/ /\ \E u \in Tasks : Condemns(u, s)'
                             /\ \A p \in players[s] : player_rooms[p] = s
        BY <1>3 DEF Condemned
    <2>2. ShutdownSent(s) => ShutdownSent(s)'
        BY <1>2 DEF ShutdownSent
    <2>3. ASSUME NEW u \in Tasks, Condemns(u, s) PROVE Condemns(u, s)' \/ ShutdownSent(s)'
        <3>1. CASE u # t
            BY <2>3, <3>1 DEF Condemns
        <3>2. CASE u = t
            <4>1. s = r /\ cmd.op = "shutdown"
                BY <1>1, <2>3, <3>2 DEF Condemns
            <4>2. QED
                BY <1>2, <2>1, <4>1 DEF ShutdownSent
        <3>3. QED
            BY <3>1, <3>2
    <2>4. QED
        BY <2>1, <2>2, <2>3 DEF Condemned
<1>13. ReceiverKnown'
    <2>1. \A s \in rooms : players[s] \subseteq Tasks
        BY <1>1 DEF ManagerTyped, TypeOK
    <2>2. \A u \in Tasks : call'[u].op = call[u].op /\ call'[u].chan = call[u].chan
        OBVIOUS
    <2>3. QED
        BY <2>1, <2>2 DEF ReceiverKnown
<1>14. MatchStands'
    <2>1. SUFFICES ASSUME NEW p \in Players
                   PROVE  /\ HasFound(p)' /\ Live(call'[p].room) => Info(call'[p].room) = "open"
                          /\ Returns(p, {"match"})' => reply'[p] \in {"pending", "ok", "unavailable"}
        BY DEF MatchStands, Live, Info, IsJoinable
    <2>2. CASE p # t
        BY <1>1, <1>2, <2>2 DEF MatchStands, HasFound, Returns
    <2>3. CASE p = t
        BY <1>1, <1>2, <2>3 DEF MatchStands, HasFound, Returns, AskOps
    <2>4. QED
        BY <2>2, <2>3
<1>15. Scanned'
    <2>1. SUFFICES ASSUME NEW p \in Players, call'[p].op = "match",
                          NEW s \in rooms, Live(s), Info(s) = "open"
                   PROVE  s \in call'[p].todo \/ (s = call'[p].room /\ Hopes(p)')
        BY DEF Scanned, Live, Info, IsJoinable
    <2>2. CASE p # t
        BY <1>1, <1>2, <2>1, <2>2 DEF Scanned, Hopes, HasFound
    <2>3. CASE p = t
        BY <1>1, <1>2, <2>1, <2>3 DEF Scanned, Hopes, HasFound, AskOps
    <2>4. QED
        BY <2>2, <2>3
<1>16. QED
    BY <1>4, <1>5, <1>7, <1>8, <1>9, <1>11, <1>12, <1>13, <1>14, <1>15

\* The commands of join, leave, message and destroy.
LEMMA SendCoherent ==
    ASSUME ActorAssumption, ManagerAssumption, ManagerInv, NEW t \in Tasks, Send(t)
    PROVE  Coherent'
<1> DEFINE c == call[t]
<1>1. /\ CallShape(t) /\ c.at = "send" /\ rooms \subseteq Rooms
      /\ NoPlayer \notin Players
    BY DEF ManagerInv, Coherent, CallsShaped, Send, ManagerTyped, ActorAssumption
<1>2. /\ \A u \in Tasks \ {t} : call'[u] = call[u]
      /\ call'[t].op = c.op /\ call'[t].chan = c.chan /\ call'[t].room = c.room
      /\ call'[t].todo = c.todo /\ call'[t].at = "wait"
      /\ UNCHANGED <<lock, rooms, player_rooms, room_rx>>
    BY DEF Send, ManagerInv, ManagerTyped, Calls
<1>3. CASE c.op \in {"join", "match"} /\ AskJoin(t, c.room, t, c.chan)
    <2> DEFINE cmd == [op |-> "join", task |-> t, player |-> t, chan |-> c.chan]
    <2>1. cmd \in Commands /\ c.room \in Rooms
        BY <1>1, <1>3 DEF CallShape, Commands, Ops
    <2>2. Enqueue(c.room, cmd) /\ UNCHANGED <<phase, players, senders>>
        BY <1>3 DEF AskJoin
    <2>3. QED
        BY <1>1, <1>2, <1>3, <2>1, <2>2, CommandSent
<1>4. CASE c.op = "leave" /\ AskLeave(t, c.room, t)
    <2> DEFINE cmd == [op |-> "leave", task |-> t, player |-> t, chan |-> NoChan]
    <2>1. cmd \in Commands /\ c.room \in Rooms
        BY <1>1, <1>4 DEF CallShape, Commands, Ops
    <2>2. Enqueue(c.room, cmd) /\ UNCHANGED <<phase, players, senders>>
        BY <1>4 DEF AskLeave, Ask
    <2>3. QED
        BY <1>1, <1>2, <1>4, <2>1, <2>2, CommandSent
<1>5. CASE c.op = "message" /\ SendMessage(t, c.room, t)
    <2> DEFINE cmd == [op |-> "message", task |-> t, player |-> t, chan |-> NoChan]
    <2>1. cmd \in Commands /\ c.room \in Rooms
        BY <1>1, <1>5 DEF CallShape, Commands, Ops
    <2>2. Enqueue(c.room, cmd) /\ UNCHANGED <<phase, players, senders>>
        BY <1>5 DEF SendMessage, Ask
    <2>3. QED
        BY <1>1, <1>2, <1>5, <2>1, <2>2, CommandSent
<1>6. CASE c.op = "destroy" /\ SendShutdown(t, c.room)
    <2> DEFINE cmd == [op |-> "shutdown", task |-> t, player |-> NoPlayer, chan |-> NoChan]
    <2>1. cmd \in Commands /\ c.room \in Rooms
        BY <1>1, <1>6 DEF CallShape, Commands, Ops
    <2>2. Enqueue(c.room, cmd) /\ UNCHANGED <<phase, players, senders>>
        BY <1>6 DEF SendShutdown, Ask
    <2>3. QED
        BY <1>1, <1>2, <1>6, <2>1, <2>2, CommandSent
<1>7. QED
    BY <1>3, <1>4, <1>5, <1>6 DEF Send

\* A request for the info of the next room of the search.
LEMMA ProbeCoherent ==
    ASSUME ActorAssumption, ManagerAssumption, ManagerInv,
           NEW t \in Tasks, NEW r \in Rooms, Probe(t, r)
    PROVE  Coherent'
<1> DEFINE cmd == [op |-> "info", task |-> t, player |-> NoPlayer, chan |-> NoChan]
<1>1. cmd \in Commands
    BY DEF Commands, Ops
<1>2. Enqueue(r, cmd) /\ UNCHANGED <<phase, players, senders>>
    BY DEF Probe, GetInfo, Ask
<1>3. /\ \A u \in Tasks \ {t} : call'[u] = call[u]
      /\ call'[t].op = call[t].op /\ call'[t].chan = call[t].chan /\ call'[t].room = r
      /\ call[t].at = "scan" /\ call'[t].at = "probe" /\ r \in call[t].todo
      /\ call'[t].todo = call[t].todo \ {r}
      /\ UNCHANGED <<lock, rooms, player_rooms, room_rx>>
    BY DEF Probe, ManagerInv, ManagerTyped, Calls
<1>4. QED
    BY <1>1, <1>2, <1>3, CommandSent
=============================================================================
