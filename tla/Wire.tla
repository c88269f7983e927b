-------------------------------- MODULE Wire --------------------------------
(***************************************************************************)
(* The message loop of a connection handler and what its client reads      *)
(* (arcforge/src/handler.rs, arcforge-transport/src/websocket.rs).         *)
(*                                                                         *)
(* A handler is one task.  Its select! waits for data from the client, for *)
(* a message from the player's room and for the idle deadline, and picks   *)
(* any branch that is ready.  A branch runs to its end before the next     *)
(* select!: it may wait for the manager's lock, for a call of the manager, *)
(* and for conn.send; meanwhile nothing else is sent, read from the room   *)
(* or timed out.                                                           *)
(*                                                                         *)
(* The calls are RoomManager's; this module adds where in the loop each    *)
(* handler is, the envelope it is sending, the idle timer, and what the    *)
(* client has read since it was last told that it is in a room.  A player  *)
(* has one handler at a time, which is Connection's concern, as is what    *)
(* happens before the loop.                                                *)
(***************************************************************************)
EXTENDS RoomManager

VARIABLES
    stage,   \* player |-> where its handler is
    owed,    \* player |-> the envelope the handler is sending
    taken,   \* player |-> messages taken out of room_rx
    stream,  \* player |-> what its client has read about its room
    due,     \* player |-> 15 s have passed without data
    source   \* channel |-> the room that has sent to it (history)

wireVars == <<phase, players, senders, game, queue, reply, rx, sent,
              lock, rooms, player_rooms, room_rx, call,
              stage, owed, taken, stream, due, source>>
clientVars == <<stream, due>>

\* off: no handler.  select: waiting in select!.  lock: has a request and
\* waits for the Mutex<RoomManager>.  call: in a call.  send: in conn.send.
Stages == {"off", "select", "lock", "call", "send"}

\* The payloads of the handler's envelopes; "Room" stands for RoomState and
\* Payload::Game, of which RoomActor knows more.
Payloads == {"Nothing", "HeartbeatAck", "Error", "RoomList", "RoomJoined", "Room"}

Nothing == [payload |-> "Nothing", room |-> NoRoom]
Owes(payload, r) == [payload |-> payload, room |-> r]

\* A room's message as the client gets it: which room has sent it, what it is.
Items == [room : Rooms \cup {NoRoom}, message : Messages]

Unjoined == [room |-> NoRoom, log |-> <<>>]

WireInit ==
    /\ ManagerInit
    /\ stage = [p \in Players |-> "off"]
    /\ owed = [p \in Players |-> Nothing]
    /\ taken = [p \in Players |-> 0]
    /\ stream = [p \in Players |-> Unjoined]
    /\ due = [p \in Players |-> FALSE]
    /\ source = [ch \in Chans |-> NoRoom]

Moves(p, from, to) == stage[p] = from /\ stage' = [stage EXCEPT ![p] = to]

Sends(p, envelope) == owed' = [owed EXCEPT ![p] = envelope]

-----------------------------------------------------------------------------
(* The inbound branch: a request is read and served. *)

\* Handshake and session are done; the loop starts with a new deadline.
Connect(p) ==
    /\ Moves(p, "off", "select")
    /\ UNCHANGED managerVars
    /\ UNCHANGED <<owed, taken, stream, due>>

\* recv returns data, whatever it is: the deadline moves.
Reads(p, to) ==
    /\ Moves(p, "select", to)
    /\ due' = [due EXCEPT ![p] = FALSE]
    /\ UNCHANGED managerVars
    /\ UNCHANGED <<taken, stream>>

Heartbeat(p) == Reads(p, "send") /\ Sends(p, Owes("HeartbeatAck", NoRoom))

\* A game message the codec cannot decode.
GarbledGame(p) == Reads(p, "send") /\ Sends(p, Owes("Error", NoRoom))

\* An envelope the codec cannot decode, a message only servers send, or a
\* second Handshake: dropped without an answer.
Ignored(p) == Reads(p, "select") /\ UNCHANGED owed

\* A request that needs the manager.  Which one it is, is chosen when the
\* lock is granted: nobody can tell before.
Request(p) == Reads(p, "lock") /\ UNCHANGED owed

MutRefusedUnlocked(p) ==
    /\ Moves(p, "lock", "send")
    /\ Sends(p, Owes("Error", NoRoom))
    /\ UNCHANGED managerVars
    /\ UNCHANGED <<taken, stream, due>>

\* The manager refuses without asking an actor, and some request it always
\* refuses: JoinRoom and JoinOrCreate in a room, a game message in none.
Refused(p) ==
    /\ Moves(p, "lock", "send")
    /\ lock = NoTask
    /\ Sends(p, Owes("Error", NoRoom))
    /\ UNCHANGED managerVars
    /\ UNCHANGED <<taken, stream, due>>

\* A new receiver is read from its first message.
FollowsReceiver(p) ==
    taken' = [taken EXCEPT ![p] = IF room_rx'[p] = room_rx[p] THEN @ ELSE 0]

\* LeaveRoom in no room drops the receiver and is over.
Granted(p) ==
    /\ stage[p] = "lock"
    /\ PlayerRequest(p)
    /\ \/ /\ call'[p] # Idle
          /\ Moves(p, "lock", "call")
          /\ UNCHANGED stream
       \/ /\ call'[p] = Idle
          /\ Moves(p, "lock", "select")
          /\ stream' = [stream EXCEPT ![p] = Unjoined]
    /\ FollowsReceiver(p)
    /\ UNCHANGED <<owed, due>>

\* The answer the client gets once its call has returned.
Outcome(p) ==
    CASE call[p].op \in {"join", "match"} ->
             IF reply[p] = "ok" THEN Owes("RoomJoined", call[p].room)
             ELSE Owes("Error", NoRoom)
      [] call[p].op = "message" ->
             IF reply[p] = "ok" THEN Nothing ELSE Owes("Error", NoRoom)
      [] call[p].op = "list" -> Owes("RoomList", NoRoom)
      [] OTHER -> Nothing

\* The lock has been released when the answer, if there is one, is sent.
CallOver(p) ==
    /\ call'[p] = Idle
    /\ Sends(p, Outcome(p))
    /\ Moves(p, "call", IF owed'[p] = Nothing THEN "select" ELSE "send")

\* The call goes on, or it returns.  LeaveRoom has no answer: from its return
\* on, the client knows it has left.
Continue(p) ==
    /\ stage[p] = "call"
    /\ Proceed(p)
    /\ CallOver(p) \/ (call'[p] # Idle /\ UNCHANGED <<stage, owed>>)
    /\ stream' = IF Returns(p, {"leave"})
                 THEN [stream EXCEPT ![p] = Unjoined] ELSE stream
    /\ FollowsReceiver(p)
    /\ UNCHANGED due

-----------------------------------------------------------------------------
(* The outbound branch, conn.send, and the ends of the loop. *)

Unread(p) == room_rx[p] # NoChan /\ taken[p] < Len(sent[room_rx[p]])

MutDeliverKeepsLast(p) ==
    /\ room_rx[p] # NoChan
    /\ taken[p] + 1 < Len(sent[room_rx[p]])
    /\ Moves(p, "select", "send")
    /\ Sends(p, Owes("Room", source[room_rx[p]]))
    /\ taken' = [taken EXCEPT ![p] = @ + 1]
    /\ UNCHANGED managerVars
    /\ UNCHANGED clientVars

Deliver(p) ==
    /\ Unread(p)
    /\ Moves(p, "select", "send")
    /\ Sends(p, Owes("Room", source[room_rx[p]]))
    /\ taken' = [taken EXCEPT ![p] = @ + 1]
    /\ UNCHANGED managerVars
    /\ UNCHANGED clientVars

\* What the client makes of the envelope.
Read(p) ==
    CASE owed[p].payload = "RoomJoined" -> [room |-> owed[p].room, log |-> <<>>]
      [] owed[p].payload = "Room" ->
             [stream[p] EXCEPT !.log =
                 Append(@, [room |-> owed[p].room,
                            message |-> sent[room_rx[p]][taken[p]]])]
      [] OTHER -> stream[p]

Sent(p) ==
    /\ Moves(p, "send", "select")
    /\ Sends(p, Nothing)
    /\ stream' = [stream EXCEPT ![p] = Read(p)]
    /\ UNCHANGED managerVars
    /\ UNCHANGED <<taken, due>>

\* The handler returns and drops its receiver, if it has one.
Ends(p, from) ==
    /\ Moves(p, from, "off")
    /\ Sends(p, Nothing)
    /\ taken' = [taken EXCEPT ![p] = 0]
    /\ stream' = [stream EXCEPT ![p] = Unjoined]
    /\ due' = [due EXCEPT ![p] = FALSE]
    /\ HandlerExit(p) \/ (room_rx[p] = NoChan /\ UNCHANGED managerVars)

\* Closed by the client, Disconnect, or an error of recv or of the codec.
Closed(p) == Ends(p, "select")

SendFails(p) == Ends(p, "send")

MutTimeoutCancels(p) == due[p] /\ stage[p] # "off" /\ Ends(p, stage[p])

Timeout(p) == due[p] /\ Ends(p, "select")

IdleElapses(p) ==
    /\ stage[p] # "off"
    /\ ~due[p]
    /\ due' = [due EXCEPT ![p] = TRUE]
    /\ UNCHANGED managerVars
    /\ UNCHANGED <<stage, owed, taken, stream>>

-----------------------------------------------------------------------------

\* A branch that has been taken goes on, up to its answer.
Busy(p) == Granted(p) \/ Refused(p) \/ Continue(p)

Answers(p) == Sent(p) \/ SendFails(p)

HandlerStep(p) ==
    \/ Connect(p) \/ Heartbeat(p) \/ GarbledGame(p) \/ Ignored(p) \/ Request(p)
    \/ Busy(p) \/ Answers(p) \/ Deliver(p)
    \/ Closed(p) \/ Timeout(p) \/ IdleElapses(p)

\* A channel's room, from the moment a room has it for as long as it is read.
RecordsSource ==
    source' = [ch \in Chans |->
                  IF \E r \in Rooms, p \in Players : senders'[r][p] = ch
                  THEN CHOOSE r \in Rooms : \E p \in Players : senders'[r][p] = ch
                  ELSE IF ch \in rx' THEN source[ch] ELSE NoRoom]

\* Actors and application tasks, which hold no connection.
Elsewhere(A) == A /\ UNCHANGED <<stage, owed, taken, stream, due>> /\ RecordsSource

WireNext ==
    \/ \E p \in Players : HandlerStep(p) /\ RecordsSource
    \/ \E t \in Admins : Elsewhere(Proceed(t))
    \/ \E t \in Admins, r \in Rooms : Elsewhere(CreateRoom(t, r) \/ DestroyRoom(t, r))
    \/ \E r \in Rooms : Elsewhere(RunActor(r))

\* Tokio polls what is ready.  The lock and the slots of a channel are given
\* out in turn, and select! picks a ready branch at random: strong fairness
\* for what is ready again and again.  conn.send has no timeout: it returns
\* if the client reads, or if its connection breaks, which is assumed here and
\* not in HandlerLoop.
WireFairness ==
    /\ \A r \in Rooms : WF_wireVars(Elsewhere(RunActor(r)))
    /\ \A t \in Admins : SF_wireVars(Elsewhere(Proceed(t)))
    /\ \A p \in Players :
          /\ SF_wireVars(Busy(p) /\ RecordsSource)
          /\ SF_wireVars(Deliver(p) /\ RecordsSource)
          /\ WF_wireVars(Answers(p) /\ RecordsSource)

WireSpec == WireInit /\ [][WireNext]_wireVars /\ WireFairness

-----------------------------------------------------------------------------
(* Properties. *)

\* Every variable of the loop has its type, and a handler is in a call or
\* sends an envelope exactly where its stage says so.
WireTypeOK ==
    /\ stage \in [Players -> Stages]
    /\ owed \in [Players -> [payload : Payloads, room : Rooms \cup {NoRoom}]]
    /\ taken \in [Players -> Nat]
    /\ stream \in [Players -> [room : Rooms \cup {NoRoom}, log : Seq(Items)]]
    /\ due \in [Players -> BOOLEAN]
    /\ source \in [Chans -> Rooms \cup {NoRoom}]
    /\ \A p \in Players : /\ stage[p] = "call" <=> call[p] # Idle
                          /\ stage[p] = "send" <=> owed[p] # Nothing

\* Between RoomJoined and its leaving the room, a client reads messages of
\* the room RoomJoined named and of no other, the snapshot first and once, in
\* the order of the game's states; outside, it reads none.
ClientReadsItsRoom ==
    \A p \in Players :
        LET log == stream[p].log
        IN  \A i, j \in DOMAIN log :
               /\ log[i].room = stream[p].room
               /\ log[i].room # NoRoom
               /\ log[i].message.kind = "State" <=> i = 1
               /\ i < j => log[i].message.version <= log[j].message.version

\* What a client was told holds: until the room is destroyed, the index has
\* it in the room RoomJoined named, its own calls included.
ToldIsTrue ==
    \A p \in Players :
        stream[p].room \in rooms => player_rooms[p] = stream[p].room

\* Whatever a room sends to a client that reads reaches it, unless its handler
\* drops the receiver: requests, heartbeats and slow calls only delay it.
MessagesReachClient == \A p \in Players : Unread(p) ~> ~Unread(p)

\* The handler of a client that reads always comes back to its select!, or
\* ends, whatever it waited for.
HandlersReturn ==
    \A p \in Players :
        stage[p] \in {"lock", "call", "send"} ~> stage[p] \in {"select", "off"}

\* What the loops promise whatever rooms and calls do: each of the manager's
\* calls, the actors and the receivers does to the loops what HandlerLoop
\* says, or nothing.
Loop == INSTANCE HandlerLoop WITH
    unread <- {p \in Players : Unread(p)},
    Deaf <- {}

ImplementsLoop == Loop!LoopSafe
=============================================================================
