---------------------------- MODULE RoomManager ----------------------------
(***************************************************************************)
(* The room manager (arcforge-room/src/manager.rs) as the connection       *)
(* handlers use it (arcforge/src/handler.rs): one Mutex<RoomManager> that  *)
(* is held across every await of a call, a room actor per room behind it,  *)
(* and one handler task per connected player.                              *)
(*                                                                         *)
(* A call is a sequence of steps: Begin acquires the lock and makes the    *)
(* checks that need no actor, Send puts a command into the room's channel  *)
(* (and waits while it is full), and a return step takes the answer,       *)
(* updates the index and releases the lock.  Between any two of them the   *)
(* actors and the tasks that do not need the lock go on.  A call refused   *)
(* before it reaches an actor changes nothing and is no step.              *)
(*                                                                         *)
(* Every step of this module is a step of RoomActor or leaves its          *)
(* variables alone.  That a player has one handler task at a time is what  *)
(* SessionManager is about.                                                *)
(***************************************************************************)
EXTENDS RoomActor

CONSTANTS
    Admins,     \* tasks that create and destroy rooms on their own account
    NoRoom, NoTask

ASSUME ManagerAssumption ==
    /\ Tasks = Players \cup Admins
    /\ Players \cap Admins = {}
    /\ NoRoom \notin Rooms
    /\ NoTask \notin Tasks

VARIABLES
    lock,         \* who holds the Mutex<RoomManager>
    rooms,        \* keys of RoomManager::rooms
    player_rooms, \* player |-> room, or NoRoom if not in the map
    room_rx,      \* player |-> channel its handler reads, NoChan for None
    call          \* task |-> the call it is in

mgrVars == <<lock, rooms, player_rooms, room_rx, call>>
managerVars == <<phase, players, senders, game, queue, reply, rx, sent,
                 lock, rooms, player_rooms, room_rx, call>>

\* at: before picking the next room of todo ("scan"), waiting for the info of
\* one ("probe"), about to send the command ("send"), waiting for its answer.
Idle == [op |-> "none", at |-> "idle", room |-> NoRoom, chan |-> NoChan,
         todo |-> {}]

Calls == [op : {"none", "join", "match", "leave", "message", "list", "destroy"},
          at : {"idle", "scan", "probe", "send", "wait"},
          room : Rooms \cup {NoRoom}, chan : Chans \cup {NoChan},
          todo : SUBSET Rooms]

ManagerInit ==
    /\ ActorInit
    /\ lock = NoTask
    /\ rooms = {}
    /\ player_rooms = [p \in Players |-> NoRoom]
    /\ room_rx = [p \in Players |-> NoChan]
    /\ call = [t \in Tasks |-> Idle]

-----------------------------------------------------------------------------
(* How calls begin. *)

Begin(t, op, at, r, ch, todo) ==
    /\ call[t] = Idle
    /\ lock = NoTask
    /\ call' = [call EXCEPT ![t] = [op |-> op, at |-> at, room |-> r,
                                    chan |-> ch, todo |-> todo]]

Locks(t) == lock' = t

\* mpsc::unbounded_channel() in the handler.
Unused(ch) ==
    /\ Fresh(ch)
    /\ \A p \in Players : room_rx[p] # ch
    /\ \A t \in Tasks : call[t].chan # ch

MutJoinRoomUnchecked(p, r, ch) ==
    /\ Unused(ch)
    /\ r \in rooms
    /\ Begin(p, "join", "send", r, ch, {})
    /\ Locks(p)
    /\ UNCHANGED actorVars
    /\ UNCHANGED <<rooms, player_rooms, room_rx>>

JoinRoom(p, r, ch) ==
    /\ Unused(ch)
    /\ player_rooms[p] = NoRoom
    /\ r \in rooms
    /\ Begin(p, "join", "send", r, ch, {})
    /\ Locks(p)
    /\ UNCHANGED actorVars
    /\ UNCHANGED <<rooms, player_rooms, room_rx>>

MutMatchUnlocked(p, ch) ==
    /\ Unused(ch)
    /\ player_rooms[p] = NoRoom
    /\ Begin(p, "match", "scan", NoRoom, ch, rooms)
    /\ UNCHANGED lock
    /\ UNCHANGED actorVars
    /\ UNCHANGED <<rooms, player_rooms, room_rx>>

JoinOrCreate(p, ch) ==
    /\ Unused(ch)
    /\ player_rooms[p] = NoRoom
    /\ Begin(p, "match", "scan", NoRoom, ch, rooms)
    /\ Locks(p)
    /\ UNCHANGED actorVars
    /\ UNCHANGED <<rooms, player_rooms, room_rx>>

\* The index only names rooms of the map while the lock is free (IndexAgrees),
\* so leave_room and route_message always find the handle.
LeaveRoom(p) ==
    /\ player_rooms[p] \in rooms
    /\ Begin(p, "leave", "send", player_rooms[p], NoChan, {})
    /\ Locks(p)
    /\ UNCHANGED actorVars
    /\ UNCHANGED <<rooms, player_rooms, room_rx>>

\* leave_room refuses a player in no room; the handler drops its receiver
\* all the same.
LeaveRefused(p) ==
    /\ call[p] = Idle
    /\ lock = NoTask
    /\ player_rooms[p] = NoRoom
    /\ CloseChannels({room_rx[p]} \cap rx)
    /\ room_rx' = [room_rx EXCEPT ![p] = NoChan]
    /\ UNCHANGED <<lock, rooms, player_rooms, call>>

MutRouteUnlocked(p) ==
    /\ player_rooms[p] \in rooms
    /\ Begin(p, "message", "send", player_rooms[p], NoChan, {})
    /\ UNCHANGED lock
    /\ UNCHANGED actorVars
    /\ UNCHANGED <<rooms, player_rooms, room_rx>>

RouteMessage(p) ==
    /\ player_rooms[p] \in rooms
    /\ Begin(p, "message", "send", player_rooms[p], NoChan, {})
    /\ Locks(p)
    /\ UNCHANGED actorVars
    /\ UNCHANGED <<rooms, player_rooms, room_rx>>

\* room_handles() under the lock; the rooms are then asked without it.
ListRooms(p) ==
    /\ Begin(p, "list", "scan", NoRoom, NoChan, rooms)
    /\ UNCHANGED actorVars
    /\ UNCHANGED <<lock, rooms, player_rooms, room_rx>>

CreateRoom(t, r) ==
    /\ call[t] = Idle
    /\ lock = NoTask
    /\ Spawn(r)
    /\ rooms' = rooms \cup {r}
    /\ UNCHANGED <<lock, player_rooms, room_rx, call>>

MutDestroyKeepsRoom(t, r) ==
    /\ r \in rooms
    /\ Begin(t, "destroy", "send", r, NoChan, {})
    /\ Locks(t)
    /\ UNCHANGED actorVars
    /\ UNCHANGED <<rooms, player_rooms, room_rx>>

DestroyRoom(t, r) ==
    /\ r \in rooms
    /\ Begin(t, "destroy", "send", r, NoChan, {})
    /\ Locks(t)
    /\ rooms' = rooms \ {r}
    /\ UNCHANGED actorVars
    /\ UNCHANGED <<player_rooms, room_rx>>

\* The connection of p is lost, closed or idle for too long: the handler
\* returns and drops room_rx.  It does not leave the room.
HandlerExit(p) ==
    /\ call[p] = Idle
    /\ room_rx[p] # NoChan
    /\ CloseChannels({room_rx[p]} \cap rx)
    /\ room_rx' = [room_rx EXCEPT ![p] = NoChan]
    /\ UNCHANGED <<lock, rooms, player_rooms, call>>

-----------------------------------------------------------------------------
(* How calls go on. *)

Send(t) ==
    LET c == call[t]
    IN  /\ c.at = "send"
        /\ \/ c.op \in {"join", "match"} /\ AskJoin(t, c.room, t, c.chan)
           \/ c.op = "leave" /\ AskLeave(t, c.room, t)
           \/ c.op = "message" /\ SendMessage(t, c.room, t)
           \/ c.op = "destroy" /\ SendShutdown(t, c.room)
        /\ call' = [call EXCEPT ![t].at = "wait"]
        /\ UNCHANGED <<lock, rooms, player_rooms, room_rx>>

\* list_rooms and join_or_create ask the rooms in any order of the HashMap.
MutProbeAgain(t, r) ==
    /\ call[t].at = "scan"
    /\ r \in call[t].todo
    /\ GetInfo(t, r)
    /\ call' = [call EXCEPT ![t].at = "probe", ![t].room = r]
    /\ UNCHANGED <<lock, rooms, player_rooms, room_rx>>

Probe(t, r) ==
    /\ call[t].at = "scan"
    /\ r \in call[t].todo
    /\ GetInfo(t, r)
    /\ call' = [call EXCEPT ![t].at = "probe", ![t].room = r,
                            ![t].todo = @ \ {r}]
    /\ UNCHANGED <<lock, rooms, player_rooms, room_rx>>

MutProbeIgnoresDead(t) ==
    /\ call[t].at = "probe"
    /\ reply[t] # "unavailable"
    /\ TakeReply(t, {})
    /\ call' = [call EXCEPT ![t].at = IF call[t].op = "match" /\ reply[t] = "open"
                                      THEN "send" ELSE "scan"]
    /\ UNCHANGED <<lock, rooms, player_rooms, room_rx>>

ProbeReturns(t) ==
    /\ call[t].at = "probe"
    /\ TakeReply(t, {})
    /\ call' = [call EXCEPT ![t].at = IF call[t].op = "match" /\ reply[t] = "open"
                                      THEN "send" ELSE "scan"]
    /\ UNCHANGED <<lock, rooms, player_rooms, room_rx>>

ListReturns(t) ==
    /\ call[t].at = "scan"
    /\ call[t].op = "list"
    /\ call[t].todo = {}
    /\ call' = [call EXCEPT ![t] = Idle]
    /\ UNCHANGED actorVars
    /\ UNCHANGED <<lock, rooms, player_rooms, room_rx>>

\* create_room inside join_or_create; what follows is a join that is final.
MutMatchCreatesEarly(p, r) ==
    /\ call[p].at = "scan"
    /\ call[p].op = "match"
    /\ Spawn(r)
    /\ rooms' = rooms \cup {r}
    /\ call' = [call EXCEPT ![p].at = "send", ![p].op = "join", ![p].room = r]
    /\ UNCHANGED <<lock, player_rooms, room_rx>>

MatchCreates(p, r) ==
    /\ call[p].at = "scan"
    /\ call[p].op = "match"
    /\ call[p].todo = {}
    /\ Spawn(r)
    /\ rooms' = rooms \cup {r}
    /\ call' = [call EXCEPT ![p].at = "send", ![p].op = "join", ![p].room = r]
    /\ UNCHANGED <<lock, player_rooms, room_rx>>

Returns(t, op) == call[t].at = "wait" /\ call[t].op \in op

Finish(t) ==
    /\ call' = [call EXCEPT ![t] = Idle]
    /\ lock' = NoTask

MutJoinKeepsReceiver(p) ==
    /\ Returns(p, {"join", "match"})
    /\ reply[p] = "ok"
    /\ TakeReply(p, {})
    /\ player_rooms' = [player_rooms EXCEPT ![p] = call[p].room]
    /\ room_rx' = [room_rx EXCEPT ![p] = IF @ = NoChan THEN call[p].chan ELSE @]
    /\ Finish(p)
    /\ UNCHANGED rooms

\* The index and the handler's receiver follow the actor's answer.
JoinSucceeds(p) ==
    /\ Returns(p, {"join", "match"})
    /\ reply[p] = "ok"
    /\ TakeReply(p, {room_rx[p]})
    /\ player_rooms' = [player_rooms EXCEPT ![p] = call[p].room]
    /\ room_rx' = [room_rx EXCEPT ![p] = call[p].chan]
    /\ Finish(p)
    /\ UNCHANGED rooms

JoinFails(p) ==
    /\ Returns(p, {"join"})
    /\ reply[p] # "ok"
    /\ TakeReply(p, {call[p].chan})
    /\ Finish(p)
    /\ UNCHANGED <<rooms, player_rooms, room_rx>>

\* join_or_create keeps searching, with the same sender.
MatchRetries(p) ==
    /\ Returns(p, {"match"})
    /\ reply[p] # "ok"
    /\ TakeReply(p, {})
    /\ call' = [call EXCEPT ![p].at = "scan"]
    /\ UNCHANGED <<lock, rooms, player_rooms, room_rx>>

MutLeaveForgetsIndex(p) ==
    /\ Returns(p, {"leave"})
    /\ TakeReply(p, {room_rx[p]})
    /\ UNCHANGED player_rooms
    /\ room_rx' = [room_rx EXCEPT ![p] = NoChan]
    /\ Finish(p)
    /\ UNCHANGED rooms

MutLeaveKeepsReceiver(p) ==
    /\ Returns(p, {"leave"})
    /\ TakeReply(p, {})
    /\ player_rooms' = [player_rooms EXCEPT ![p] = NoRoom]
    /\ Finish(p)
    /\ UNCHANGED <<rooms, room_rx>>

LeaveReturns(p) ==
    /\ Returns(p, {"leave"})
    /\ TakeReply(p, {room_rx[p]})
    /\ \/ /\ reply[p] = "ok"
          /\ player_rooms' = [player_rooms EXCEPT ![p] = NoRoom]
       \/ /\ reply[p] # "ok"
          /\ UNCHANGED player_rooms
    /\ room_rx' = [room_rx EXCEPT ![p] = NoChan]
    /\ Finish(p)
    /\ UNCHANGED rooms

RouteReturns(p) ==
    /\ Returns(p, {"message"})
    /\ TakeReply(p, {})
    /\ Finish(p)
    /\ UNCHANGED <<rooms, player_rooms, room_rx>>

DestroyReturns(t) ==
    /\ Returns(t, {"destroy"})
    /\ TakeReply(t, {})
    /\ player_rooms' = [p \in Players |->
                           IF player_rooms[p] = call[t].room THEN NoRoom
                           ELSE player_rooms[p]]
    /\ Finish(t)
    /\ UNCHANGED <<rooms, room_rx>>

Proceed(t) ==
    \/ Send(t)
    \/ \E r \in Rooms : Probe(t, r) \/ (t \in Players /\ MatchCreates(t, r))
    \/ ProbeReturns(t) \/ ListReturns(t) \/ DestroyReturns(t)
    \/ /\ t \in Players
       /\ \/ JoinSucceeds(t) \/ JoinFails(t) \/ MatchRetries(t)
          \/ LeaveReturns(t) \/ RouteReturns(t)

\* Bound: join_or_create is only called while an identifier is left for the
\* room it may have to create.
SpareRoom == \E r \in Rooms : phase[r] = "Absent"

PlayerRequest(p) ==
    \/ \E ch \in Chans : \/ \E r \in Rooms : JoinRoom(p, r, ch)
                         \/ SpareRoom /\ JoinOrCreate(p, ch)
    \/ LeaveRoom(p) \/ LeaveRefused(p) \/ RouteMessage(p) \/ ListRooms(p)

PlayerCall(p) == PlayerRequest(p) \/ HandlerExit(p)

RunActor(r) == ActorStep(r) /\ UNCHANGED mgrVars

ManagerNext ==
    \/ \E p \in Players : PlayerCall(p)
    \/ \E t \in Admins, r \in Rooms : CreateRoom(t, r) \/ DestroyRoom(t, r)
    \/ \E t \in Tasks : Proceed(t)
    \/ \E r \in Rooms : RunActor(r)

\* Actors and tasks are polled; a task waiting for a slot of a full channel
\* gets one in turn (the mpsc semaphore is a FIFO queue), hence strong.
ManagerFairness ==
    /\ \A r \in Rooms : WF_managerVars(RunActor(r))
    /\ \A t \in Tasks : SF_managerVars(Proceed(t))

ManagerSpec == ManagerInit /\ [][ManagerNext]_managerVars /\ ManagerFairness

-----------------------------------------------------------------------------
(* Properties. *)

ManagerTyped ==
    /\ TypeOK
    /\ lock \in Tasks \cup {NoTask}
    /\ rooms \in SUBSET Rooms
    /\ player_rooms \in [Players -> Rooms \cup {NoRoom}]
    /\ room_rx \in [Players -> Chans \cup {NoChan}]
    /\ call \in [Tasks -> Calls]

\* t is in a call that holds the mutex: any but list_rooms.
Holds(t) == call[t].op \notin {"none", "list"}

\* Every variable of the manager has its type, and the mutex is with the task
\* whose call needs it, from the first check to the last update of the index.
ManagerTypeOK ==
    /\ ManagerTyped
    /\ \A t \in Tasks : lock = t <=> Holds(t)

\* The index and the actors agree on who is where, except about the player
\* whose own call is under way: in a room of the map that runs, exactly the
\* players the index puts there are members; and while nobody holds the lock
\* the index names no room that is not in the map.
IndexAgrees ==
    /\ \A p \in Players, r \in rooms :
          Live(r) /\ lock # p => (p \in players[r] <=> player_rooms[p] = r)
    /\ lock = NoTask => \A p \in Players : player_rooms[p] \in rooms \cup {NoRoom}

\* "A player can be in at most ONE room at a time": even counting actors, a
\* player is in two running rooms only if one of them is out of the map and
\* about to receive its Shutdown.
OneRoom ==
    \A p \in Players : \A r, s \in Rooms :
        r # s /\ p \in players[r] /\ p \in players[s] =>
            \E d \in {r, s} \ rooms :
                \E i \in DOMAIN queue[d] : queue[d][i].op = "shutdown"

\* A handler that has a receiver reads the room its player is in: a running
\* room the index puts p in sends to the channel p's handler holds, and no
\* other room of the map does.
WiredToOwnRoom ==
    \A p \in Players, r \in rooms :
        Live(r) /\ lock # p /\ room_rx[p] # NoChan =>
            (player_rooms[p] = r <=> senders[r][p] = room_rx[p])

\* The race join_or_create is prepared for cannot happen under the lock: a
\* room that was open when probed takes the player, unless it dies.
ProbeStaysValid ==
    \A p \in Players :
        Returns(p, {"match"}) => reply[p] \in {"pending", "ok", "unavailable"}

\* join_or_create makes a room only when no room of the map has a place for
\* the player, not even one that got a place since it was scanned.
CreatesOnlyIfNoPlace ==
    [][\A p \in Players, r \in Rooms :
          call[p].op = "match" /\ call'[p].op = "join" =>
             \A s \in rooms : Live(s) => Info(s) # "open"]_managerVars

\* Every call returns: handlers wait for the lock, for slots in channels and
\* for actors, never in a circle, even when rooms panic or are destroyed.
CallsReturn == \A t \in Tasks : call[t] # Idle ~> call[t] = Idle

\* What the directory knows: a room counts while it is in the map and its
\* actor runs; a player is where an actor of the map has it as a member.
DirectoryRoom(r) ==
    CASE phase[r] = "Absent"                    -> "unused"
      [] r \in rooms /\ IsJoinable(r)           -> "waiting"
      [] r \in rooms /\ Live(r) /\ ~IsJoinable(r) -> "started"
      [] OTHER                                  -> "closed"

DirectoryWhere(p) ==
    LET in == {r \in rooms : p \in players[r]}
    IN  IF in = {} THEN NoRoom ELSE CHOOSE r \in in : TRUE

Directory == INSTANCE RoomDirectory WITH
    room <- [r \in Rooms |-> DirectoryRoom(r)],
    where <- [p \in Players |-> DirectoryWhere(p)]

\* Seen from outside, joins, leaves, creation and destruction are atomic: a
\* player moves from nowhere into one room with a place and back, however the
\* calls, the actors and the players' comings and goings interleave.
ImplementsDirectory == Directory!DirSpec

-----------------------------------------------------------------------------
(* What documentation says and the code does otherwise. *)

\* manager.rs, leave_room: "Removes a player from their current room."  After
\* the call the index must not hold the player any more.
LeaveFrees ==
    [][\A p \in Players :
          Returns(p, {"leave"}) /\ call'[p] = Idle
             => player_rooms'[p] = NoRoom]_managerVars

\* config.rs, reconnect_grace: "How long to wait for a disconnected player
\* before removing them."  A member nobody listens for must be back or out
\* at some time.
LostPlayersAreRemoved ==
    \A p \in Players :
        (\E r \in rooms : p \in players[r] /\ senders[r][p] \notin rx)
        ~> (\A r \in rooms : p \in players[r] => senders[r][p] \in rx)
=============================================================================
