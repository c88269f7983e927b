----------------------------- MODULE WireProofs -----------------------------
(***************************************************************************)
(* What a client of a handler reads and is told, for every value of the    *)
(* constants of Wire.  The handlers' steps are steps of RoomManager, so    *)
(* its invariant and the channels' (Delivering) hold here too; to them     *)
(* comes who holds which receiver, whose channel it is, and how far the    *)
(* client has read it.                                                     *)
(***************************************************************************)
EXTENDS Wire, RoomManagerProofs, DeliveryProofs

-----------------------------------------------------------------------------
(* Every step of a handler is a step of RoomManager, or leaves it alone. *)

\* What a handler does to the manager.
LEMMA HandlerActs ==
    ASSUME ManagerAssumption, NEW p \in Players, HandlerStep(p)
    PROVE  \/ PlayerCall(p) \/ Proceed(p)
           \/ UNCHANGED managerVars
<1>1. CASE Granted(p)
    BY <1>1 DEF Granted, PlayerCall
<1>2. CASE Continue(p)
    BY <1>2 DEF Continue, CallOver
<1>3. CASE SendFails(p) \/ Closed(p) \/ Timeout(p)
    BY <1>3 DEF SendFails, Closed, Timeout, Ends, PlayerCall
<1>4. CASE \/ Connect(p) \/ Heartbeat(p) \/ GarbledGame(p) \/ Ignored(p) \/ Request(p)
           \/ Refused(p) \/ Sent(p) \/ Deliver(p) \/ IdleElapses(p)
    BY <1>4 DEF Connect, Heartbeat, GarbledGame, Ignored, Request, Reads, Refused, Sent,
                Deliver, IdleElapses
<1>5. QED
    BY <1>1, <1>2, <1>3, <1>4 DEF HandlerStep, Busy, Answers

\* All steps.
LEMMA WireActs ==
    ASSUME ManagerAssumption, [WireNext]_wireVars
    PROVE  [ManagerNext]_managerVars
<1>1. Players \subseteq Tasks /\ Admins \subseteq Tasks
    BY DEF ManagerAssumption
<1>2. ASSUME NEW p \in Players, HandlerStep(p) PROVE [ManagerNext]_managerVars
    BY <1>1, <1>2, HandlerActs DEF ManagerNext
<1>3. CASE UNCHANGED wireVars
    BY <1>3 DEF wireVars, managerVars
<1>4. QED
    BY <1>1, <1>2, <1>3 DEF WireNext, Elsewhere, ManagerNext

-----------------------------------------------------------------------------
(* What the steps of actors do to channels. *)

\* A room gets a channel by handling the Join that brings it.
LEMMA SenderComes ==
    ASSUME TypeOK, NEW r \in Rooms, ActorStep(r), NEW s \in Rooms, NEW p \in Players,
           senders'[s][p] # senders[s][p], senders'[s][p] # NoChan
    PROVE  /\ s = r /\ queue[r] # <<>> /\ Head(queue[r]).op = "join"
           /\ Head(queue[r]).player = p /\ Head(queue[r]).chan = senders'[s][p]
<1>1. senders \in [Rooms -> [Players -> Chans \cup {NoChan}]]
    BY DEF TypeOK
<1>2. CASE HandleLeave(r)
    <2>1. PICK q : senders' = senders
                   \/ senders' = [senders EXCEPT ![r] = [senders[r] EXCEPT ![q] = NoChan]]
        BY <1>2 DEF HandleLeave
    <2>2. QED
        BY <1>1, <2>1
<1>3. CASE HandleShutdown(r) \/ Panic(r)
    <2>1. senders' = [senders EXCEPT ![r] = NoSenders]
        BY <1>3 DEF HandleShutdown, Panic, Die
    <2>2. QED
        BY <1>1, <2>1 DEF NoSenders
<1>4. CASE HandleMessage(r) \/ HandleInfo(r)
    BY <1>4 DEF HandleMessage, HandleInfo
<1>5. CASE HandleJoin(r)
    <2>1. PICK cmd : cmd = Head(queue[r])
        OBVIOUS
    <2>2. senders' = [senders EXCEPT ![r] = [senders[r] EXCEPT ![cmd.player] = cmd.chan]]
        BY <1>5, <2>1 DEF HandleJoin
    <2>3. queue[r] # <<>> /\ cmd.op = "join"
        BY <1>5, <2>1 DEF HandleJoin, Receives
    <2>4. s = r /\ p = cmd.player
        BY <1>1, <2>2
    <2>5. senders'[s][p] = cmd.chan
        BY <1>1, <2>2, <2>4
    <2>6. QED
        BY <2>1, <2>3, <2>4, <2>5
<1>6. QED
    BY <1>2, <1>3, <1>4, <1>5 DEF ActorStep

\* What was in a log stays there.
Grows(before, after) ==
    /\ Len(before) <= Len(after)
    /\ \A i \in 1..Len(before) : after[i] = before[i]

\* Appending is growing.
LEMMA AppendsGrow ==
    ASSUME NEW a \in Seq(Messages), NEW b \in Seq(Messages)
    PROVE  Grows(a, a \o b)
BY DEF Grows

\* What the actors put into channels goes behind what is there.
LEMMA ActorGrows ==
    ASSUME ActorAssumption, TypeOK, NEW r \in Rooms, ActorStep(r), NEW ch \in Chans
    PROVE  Grows(sent[ch], sent'[ch])
<1>1. sent[ch] \in Seq(Messages) /\ game[r] + 1 \in Nat
    BY DEF TypeOK
<1>2. CASE sent' = sent
    BY <1>1, <1>2 DEF Grows
<1>3. ASSUME NEW sn, NEW members, RunGame(r, sn, members)
      PROVE  Grows(sent[ch], sent'[ch])
    <2>1. PICK out \in Outboxes : Dispatch(sn, members, out, game[r] + 1)
        BY <1>3 DEF RunGame
    <2>2. out[1] \in Recipients /\ out[2] \in Recipients
        BY DEF ActorAssumption
    <2>3. PICK a \in Seq(Messages), b \in Seq(Messages) : sent'[ch] = sent[ch] \o a \o b
        BY <1>1, <2>1, <2>2, CopyTyped DEF Dispatch
    <2>4. sent[ch] \o a \in Seq(Messages)
        BY <1>1
    <2>5. Grows(sent[ch], sent[ch] \o a) /\ Grows(sent[ch] \o a, sent'[ch])
        BY <1>1, <2>3, <2>4, AppendsGrow
    <2>6. sent'[ch] \in Seq(Messages)
        BY <2>3, <2>4
    <2>7. QED
        BY <1>1, <2>4, <2>5, <2>6 DEF Grows
<1>4. ASSUME NEW sn, NEW members, Snapshot(sn, members)
      PROVE  Grows(sent[ch], sent'[ch])
    <2>1. PICK a \in Seq(Messages) : sent'[ch] = sent[ch] \o a
        BY <1>4, CopyTyped DEF Snapshot
    <2>2. QED
        BY <1>1, <2>1, AppendsGrow
<1>5. CASE HandleJoin(r)
    <2>1. sent' = sent \/ \E sn, members : Snapshot(sn, members)
        BY <1>5 DEF HandleJoin
    <2>2. QED
        BY <1>2, <1>4, <2>1
<1>6. CASE HandleLeave(r)
    <2>1. sent' = sent \/ \E sn, members : RunGame(r, sn, members)
        BY <1>6 DEF HandleLeave
    <2>2. QED
        BY <1>2, <1>3, <2>1
<1>7. CASE HandleMessage(r)
    BY <1>2, <1>3, <1>7 DEF HandleMessage
<1>8. CASE HandleInfo(r) \/ HandleShutdown(r) \/ Panic(r)
    BY <1>2, <1>8 DEF HandleInfo, HandleShutdown, Panic, Die
<1>9. QED
    BY <1>5, <1>6, <1>7, <1>8 DEF ActorStep

-----------------------------------------------------------------------------
(* The invariant. *)

\* p waits to be let into a room.
Joining(p) == call[p].op \in {"join", "match"}

\* Where in the index and in the calls a receiver is held: every handler's is
\* open and its own, and a channel under way in a join is no handler's yet.
Receivers ==
    \A p \in Players :
        /\ room_rx[p] # NoChan => room_rx[p] \in rx
        /\ \A q \in Players : room_rx[p] = room_rx[q] /\ room_rx[p] # NoChan => p = q
        /\ Joining(p) => \A q \in Players : room_rx[q] # call[p].chan
        /\ Joining(p) /\ call[p].at = "wait" => call[p].chan \in rx

\* A channel that a room has is recorded as that room's.
SourcesRight ==
    \A r \in Rooms : \A p \in Players :
        senders[r][p] # NoChan => source[senders[r][p]] = r

\* So is the channel of a join that has been granted, even if the room has
\* lost it again.
GrantedRight ==
    \A p \in Players :
        Answered(p, {"join", "match"}) => source[call[p].chan] = call[p].room

\* The answer that tells p which room it is in is on its way.
Welcomed(p) == owed[p].payload = "RoomJoined"

\* A message of the room has been taken out, but not been sent.
InFlight(p) == owed[p].payload = "Room"

\* The client has read what was taken out of its receiver, all of it from the
\* room it is in.
Reader(p) ==
    LET ch == room_rx[p]
        read == stream[p].log
    IN  /\ Welcomed(p) => ch # NoChan /\ taken[p] = 0
        /\ InFlight(p) => ch # NoChan /\ taken[p] # 0 /\ owed[p].room = stream[p].room
        /\ ch # NoChan =>
               /\ source[ch] \in Rooms
               /\ source[ch] = IF Welcomed(p) THEN owed[p].room ELSE stream[p].room
        /\ ch # NoChan /\ ~Welcomed(p) =>
               /\ InFlight(p) => taken[p] = Len(read) + 1
               /\ ~InFlight(p) => taken[p] = Len(read)
               /\ taken[p] <= Len(sent[ch])
               /\ \A i \in DOMAIN read : read[i].message = sent[ch][i]

\* Rooms p's client has been told it is in, or is being told.
TellsRoom(p, r) == r = stream[p].room \/ (Welcomed(p) /\ r = owed[p].room)

\* They exist, and as long as the map has them the index says so too.
Told(p) ==
    \A r \in Rooms : TellsRoom(p, r) =>
        /\ phase[r] # "Absent"
        /\ r \in rooms => player_rooms[p] = r

\* The inductive invariant of the loop and what it rests on.
WireInv ==
    /\ ManagerInv /\ Delivering /\ WireTypeOK
    /\ Receivers /\ SourcesRight /\ GrantedRight
    /\ \A p \in Players : Reader(p) /\ Told(p)
    /\ ClientReadsItsRoom

-----------------------------------------------------------------------------
(* Receivers. *)

\* Joining needs the lock: one does at a time.
LEMMA OneJoins ==
    ASSUME ManagerAssumption, ManagerInv, NEW p \in Players, Joining(p)
    PROVE  /\ p \in Tasks /\ lock = p
           /\ \A t \in Tasks : Holds(t) => t = p
           /\ call[p].chan \in Chans
BY DEF ManagerAssumption, ManagerInv, Coherent, LockHeld, Holds, Joining, CallsShaped,
       CallShape

\* Nothing but the joins and who holds which receiver matters.
LEMMA ReceiversFrame ==
    ASSUME Receivers,
           \A q \in Players :
              /\ room_rx'[q] \in {room_rx[q], NoChan}
              /\ room_rx'[q] # NoChan => room_rx'[q] \in rx'
              /\ Joining(q)' => /\ Joining(q) /\ call'[q].chan = call[q].chan
                                /\ call'[q].chan # NoChan
                                /\ call'[q].at = "wait" => call'[q].chan \in rx'
    PROVE  Receivers'
BY DEF Receivers

\* A join or a search begins with a channel no handler has.
LEMMA JoinBegins ==
    ASSUME ManagerAssumption, ManagerInv, Receivers, NEW p \in Players, NEW ch \in Chans,
           (\E r \in Rooms : JoinRoom(p, r, ch)) \/ JoinOrCreate(p, ch)
    PROVE  Receivers'
<1>1. call \in [Tasks -> Calls] /\ p \in Tasks
    BY DEF ManagerInv, ManagerTyped, ManagerAssumption
<1>2. /\ Unused(ch) /\ UNCHANGED <<rx, room_rx>>
      /\ \A q \in Players \ {p} : call'[q] = call[q]
      /\ call'[p].chan = ch /\ call'[p].at # "wait"
    BY <1>1 DEF JoinRoom, JoinOrCreate, Begin, actorVars
<1>3. QED
    BY <1>2 DEF Receivers, Joining, Unused

\* What the other calls of players begin with.
LEMMA RequestReceives ==
    ASSUME ManagerAssumption, ManagerInv, Receivers, NEW p \in Players, PlayerCall(p)
    PROVE  Receivers'
<1>1. /\ call \in [Tasks -> Calls] /\ Players \subseteq Tasks /\ NoChan \notin Chans
      /\ room_rx \in [Players -> Chans \cup {NoChan}] /\ rx \subseteq Chans
    BY ActorAssumption DEF ManagerInv, ManagerTyped, ManagerAssumption, TypeOK, ActorAssumption
<1>2. CASE LeaveRefused(p) \/ HandlerExit(p)
    <2>1. /\ call' = call /\ room_rx' = [room_rx EXCEPT ![p] = NoChan]
          /\ rx' = rx \ ({room_rx[p]} \cap rx)
        BY <1>2 DEF LeaveRefused, HandlerExit, CloseChannels
    <2>2. ASSUME NEW q \in Players, Joining(q)'
          PROVE  /\ Joining(q) /\ call'[q].chan # NoChan
                 /\ call'[q].at = "wait" => call'[q].chan \in rx'
        <3>1. Joining(q) /\ call[q].chan \in Chans
            BY <2>1, <2>2, OneJoins DEF Joining
        <3>2. QED
            BY <1>1, <2>1, <3>1 DEF Receivers
    <2>3. ASSUME NEW q \in Players
          PROVE  /\ room_rx'[q] \in {room_rx[q], NoChan}
                 /\ room_rx'[q] # NoChan => room_rx'[q] \in rx'
        BY <1>1, <2>1 DEF Receivers
    <2>4. QED
        BY <2>1, <2>2, <2>3, ReceiversFrame
<1>3. CASE LeaveRoom(p) \/ RouteMessage(p) \/ ListRooms(p)
    <2>1. /\ UNCHANGED <<rx, room_rx>> /\ ~Joining(p)'
          /\ \A q \in Players \ {p} : call'[q] = call[q]
        BY <1>1, <1>3 DEF LeaveRoom, RouteMessage, ListRooms, Begin, actorVars, Joining
    <2>2. QED
        BY <2>1 DEF Receivers, Joining
<1>4. QED
    BY <1>2, <1>3, JoinBegins DEF PlayerCall, PlayerRequest

\* How calls go on and return.
LEMMA ProceedReceives ==
    ASSUME ActorAssumption, ManagerAssumption, ManagerInv, Receivers,
           NEW t \in Tasks, Proceed(t)
    PROVE  Receivers'
<1>1. /\ call \in [Tasks -> Calls] /\ Players \subseteq Tasks /\ NoChan \notin Chans
      /\ room_rx \in [Players -> Chans \cup {NoChan}] /\ rx \subseteq Chans
    BY DEF ManagerInv, ManagerTyped, ManagerAssumption, TypeOK, ActorAssumption
<1>2. ASSUME NEW q \in Players, Joining(q) PROVE call[q].chan \in Chans
    BY <1>2, OneJoins
<1>3. CASE Send(t)
    <2>1. call' = [call EXCEPT ![t].at = "wait"] /\ room_rx' = room_rx /\ CallShape(t)
        BY <1>3 DEF Send, ManagerInv, Coherent, CallsShaped
    <2>2. rx \subseteq rx' /\ (call[t].op \in {"join", "match"} => call[t].chan \in rx')
        BY <1>3 DEF Send, AskJoin, AskLeave, SendMessage, SendShutdown, Ask
    <2>3. ASSUME NEW q \in Players, Joining(q)'
          PROVE  Joining(q) /\ call'[q].chan = call[q].chan
                 /\ (call'[q].at = "wait" => call'[q].chan \in rx')
        BY <1>1, <2>1, <2>2, <2>3 DEF Receivers, Joining
    <2>4. QED
        BY <1>1, <1>2, <2>1, <2>2, <2>3, ReceiversFrame DEF Receivers
<1>4. ASSUME UNCHANGED <<rx, room_rx>>,
             \A q \in Players : call'[q] = call[q] \/ ~Joining(q)'
                \/ (Joining(q) /\ call'[q].chan = call[q].chan /\ call'[q].at # "wait")
      PROVE  Receivers'
    BY <1>1, <1>2, <1>4, ReceiversFrame DEF Receivers, Joining
<1>5. CASE ListReturns(t)
    BY <1>1, <1>4, <1>5 DEF ListReturns, actorVars, Joining, Idle
<1>6. ASSUME NEW r \in Rooms, Probe(t, r) PROVE Receivers'
    BY <1>1, <1>4, <1>6 DEF Probe, GetInfo, Ask, Joining
<1>7. ASSUME NEW r \in Rooms, MatchCreates(t, r) PROVE Receivers'
    BY <1>1, <1>4, <1>7 DEF MatchCreates, Spawn, Joining
<1>8. CASE ProbeReturns(t) \/ MatchRetries(t)
    <2>1. rx' = rx \ {} /\ room_rx' = room_rx
        BY <1>8 DEF ProbeReturns, MatchRetries, TakeReply
    <2>2. PICK at \in {"send", "scan"} : call' = [call EXCEPT ![t].at = at]
        BY <1>8 DEF ProbeReturns, MatchRetries
    <2>3. \A q \in Players : call'[q] = call[q] \/ ~Joining(q)'
             \/ (Joining(q) /\ call'[q].chan = call[q].chan /\ call'[q].at # "wait")
        BY <1>1, <2>2 DEF Joining
    <2>4. rx' = rx
        BY <2>1
    <2>5. QED
        BY <1>4, <2>1, <2>3, <2>4
<1>9. CASE DestroyReturns(t) \/ RouteReturns(t)
    <2>1. rx' = rx \ {} /\ room_rx' = room_rx
        BY <1>9 DEF DestroyReturns, RouteReturns, TakeReply
    <2>2. QED
        BY <1>1, <1>4, <1>9, <2>1 DEF DestroyReturns, RouteReturns, Finish, Joining, Idle
<1>10. ASSUME t \in Players, JoinSucceeds(t) PROVE Receivers'
    <2>1. /\ Joining(t) /\ call[t].at = "wait" /\ rx' = rx \ {room_rx[t]}
          /\ room_rx' = [room_rx EXCEPT ![t] = call[t].chan]
          /\ call' = [call EXCEPT ![t] = Idle]
        BY <1>10 DEF JoinSucceeds, Returns, TakeReply, Finish, Joining
    <2>2. ~Joining(t)' /\ \A q \in Players \ {t} : ~Joining(q)'
        BY <1>1, <1>10, <2>1, OneJoins DEF Joining, Idle, Holds
    <2>3. call[t].chan \in rx /\ \A q \in Players : room_rx[q] # call[t].chan
        BY <1>10, <2>1 DEF Receivers
    <2>4. room_rx'[t] = call[t].chan /\ \A q \in Players \ {t} : room_rx'[q] = room_rx[q]
        BY <1>1, <1>10, <2>1
    <2>5. ASSUME NEW p \in Players, room_rx'[p] # NoChan PROVE room_rx'[p] \in rx'
        <3>1. CASE p = t
            BY <1>10, <2>1, <2>3, <2>4, <3>1
        <3>2. CASE p # t
            <4>1. room_rx'[p] = room_rx[p]
                BY <2>4, <3>2
            <4>2. room_rx[p] \in rx /\ room_rx[p] # room_rx[t]
                BY <1>10, <2>5, <3>2, <4>1 DEF Receivers
            <4>3. QED
                BY <2>1, <4>1, <4>2
        <3>3. QED
            BY <3>1, <3>2
    <2>6. ASSUME NEW p \in Players, NEW q \in Players, room_rx'[p] = room_rx'[q],
                 room_rx'[p] # NoChan
          PROVE  p = q
        BY <1>10, <2>3, <2>4, <2>6 DEF Receivers
    <2>7. QED
        BY <2>2, <2>5, <2>6 DEF Receivers
<1>11. ASSUME t \in Players, JoinFails(t) PROVE Receivers'
    <2>1. /\ Joining(t) /\ rx' = rx \ {call[t].chan} /\ room_rx' = room_rx
          /\ call' = [call EXCEPT ![t] = Idle]
        BY <1>11 DEF JoinFails, Returns, TakeReply, Finish, Joining
    <2>2. \A q \in Players : ~Joining(q)'
        BY <1>1, <1>11, <2>1, OneJoins DEF Joining, Idle, Holds
    <2>3. QED
        BY <1>11, <2>1, <2>2 DEF Receivers
<1>12. ASSUME t \in Players, LeaveReturns(t) PROVE Receivers'
    <2>1. /\ rx' = rx \ {room_rx[t]} /\ room_rx' = [room_rx EXCEPT ![t] = NoChan]
          /\ call' = [call EXCEPT ![t] = Idle] /\ Holds(t) /\ ~Joining(t)
        BY <1>12 DEF LeaveReturns, Returns, TakeReply, Finish, Holds, Joining
    <2>2. \A q \in Players : ~Joining(q)'
        BY <1>1, <1>12, <2>1, OneJoins DEF Joining, Idle, Holds
    <2>3. QED
        BY <1>1, <1>12, <2>1, <2>2 DEF Receivers
<1>13. QED
    BY <1>3, <1>5, <1>6, <1>7, <1>8, <1>9, <1>10, <1>11, <1>12 DEF Proceed

\* Every step of the manager.
LEMMA ReceiversStep ==
    ASSUME ActorAssumption, ManagerAssumption, ManagerInv, Receivers,
           [ManagerNext]_managerVars
    PROVE  Receivers'
<1>1. /\ call \in [Tasks -> Calls] /\ Players \subseteq Tasks /\ Players \cap Admins = {}
      /\ Admins \subseteq Tasks
    BY DEF ManagerInv, ManagerTyped, ManagerAssumption
<1>2. CASE UNCHANGED managerVars \/ \E r \in Rooms : RunActor(r)
    <2>1. UNCHANGED <<rx, room_rx, call>>
        BY <1>2 DEF managerVars, RunActor, mgrVars, ActorStep, HandleJoin, HandleLeave,
                    HandleMessage, HandleInfo, HandleShutdown, Panic, Die
    <2>2. QED
        BY <2>1 DEF Receivers, Joining
<1>3. ASSUME NEW t \in Admins, NEW r \in Rooms, CreateRoom(t, r) \/ DestroyRoom(t, r)
      PROVE  Receivers'
    <2>1. UNCHANGED <<rx, room_rx>> /\ \A q \in Players : call'[q] = call[q]
        BY <1>1, <1>3 DEF CreateRoom, DestroyRoom, Spawn, Begin, actorVars
    <2>2. QED
        BY <2>1 DEF Receivers, Joining
<1>4. QED
    BY <1>2, <1>3, RequestReceives, ProceedReceives DEF ManagerNext

-----------------------------------------------------------------------------
(* Whose channel it is, and what is in it. *)

\* A call of the manager only empties the channel of the join it sends.
LEMMA LogsGrow ==
    ASSUME ActorAssumption, ManagerAssumption, ManagerInv, [ManagerNext]_managerVars,
           NEW ch \in Chans, \A p \in Players : Joining(p) => call[p].chan # ch
    PROVE  Grows(sent[ch], sent'[ch])
<1>1. /\ TypeOK /\ sent \in [Chans -> Seq(Messages)] /\ CallsShaped
      /\ Players \cup Admins = Tasks
    BY DEF ManagerInv, ManagerTyped, ManagerAssumption, TypeOK, Coherent
<1>2. CASE sent'[ch] = sent[ch]
    BY <1>1, <1>2 DEF Grows
<1>3. ASSUME NEW r \in Rooms, RunActor(r) PROVE Grows(sent[ch], sent'[ch])
    BY <1>1, <1>3, ActorGrows DEF RunActor
<1>4. ASSUME NEW t \in Tasks, Send(t) PROVE sent'[ch] = sent[ch]
    <2>1. CASE call[t].op \in {"join", "match"}
        <3>1. t \in Players /\ call[t].chan # ch
            BY <1>1, <2>1 DEF CallsShaped, CallShape, Joining
        <3>2. sent' = [sent EXCEPT ![call[t].chan] = <<>>]
            BY <1>4, <2>1 DEF Send, AskJoin
        <3>3. QED
            BY <1>1, <3>1, <3>2
    <2>2. CASE call[t].op \notin {"join", "match"}
        BY <1>4, <2>2 DEF Send, AskLeave, SendMessage, SendShutdown, Ask
    <2>3. QED
        BY <2>1, <2>2
<1>5. ASSUME NEW t \in Tasks, Proceed(t), ~Send(t) PROVE sent' = sent
    BY <1>5 DEF Proceed, Probe, GetInfo, Ask, MatchCreates, Spawn, ProbeReturns, ListReturns,
                DestroyReturns, JoinSucceeds, JoinFails, MatchRetries, LeaveReturns,
                RouteReturns, TakeReply, actorVars
<1>6. ASSUME NEW p \in Players, PlayerCall(p) PROVE sent' = sent
    BY <1>6 DEF PlayerCall, PlayerRequest, JoinRoom, JoinOrCreate, LeaveRoom, LeaveRefused,
                RouteMessage, ListRooms, HandlerExit, CloseChannels, actorVars
<1>7. ASSUME NEW t \in Admins, NEW r \in Rooms, CreateRoom(t, r) \/ DestroyRoom(t, r)
      PROVE  sent' = sent
    BY <1>7 DEF CreateRoom, DestroyRoom, Spawn, actorVars
<1>8. CASE UNCHANGED managerVars
    BY <1>2, <1>8 DEF managerVars
<1>9. QED
    BY <1>2, <1>3, <1>4, <1>5, <1>6, <1>7, <1>8 DEF ManagerNext

\* Rooms are given channels by actors only.
LEMMA SendersRest ==
    ASSUME [ManagerNext]_managerVars, \A r \in Rooms : ~RunActor(r)
    PROVE  senders' = senders
<1>1. ASSUME NEW t \in Tasks, Proceed(t) PROVE senders' = senders
    BY <1>1 DEF Proceed, Send, AskJoin, AskLeave, SendMessage, SendShutdown, Probe, GetInfo,
                Ask, MatchCreates, Spawn, ProbeReturns, ListReturns,
                DestroyReturns, JoinSucceeds, JoinFails, MatchRetries, LeaveReturns,
                RouteReturns, TakeReply, actorVars
<1>2. ASSUME NEW p \in Players, PlayerCall(p) PROVE senders' = senders
    BY <1>2 DEF PlayerCall, PlayerRequest, JoinRoom, JoinOrCreate, LeaveRoom, LeaveRefused,
                RouteMessage, ListRooms, HandlerExit, CloseChannels, actorVars
<1>3. ASSUME NEW t \in Admins, NEW r \in Rooms, CreateRoom(t, r) \/ DestroyRoom(t, r)
      PROVE  senders' = senders
    BY <1>3 DEF CreateRoom, DestroyRoom, Spawn, actorVars
<1>4. CASE UNCHANGED managerVars
    BY <1>4 DEF managerVars
<1>5. QED
    BY <1>1, <1>2, <1>3, <1>4 DEF ManagerNext

\* A room is given the channel of the player that waits to be let in.
LEMMA SenderOfJoin ==
    ASSUME ManagerAssumption, ManagerInv, [ManagerNext]_managerVars,
           NEW r \in Rooms, NEW p \in Players,
           senders'[r][p] # senders[r][p], senders'[r][p] # NoChan
    PROVE  /\ Joining(p) /\ call[p].at = "wait" /\ call[p].room = r
           /\ call[p].chan = senders'[r][p]
<1>1. PICK s \in Rooms : RunActor(s)
    BY SendersRest
<1>2. PICK cmd : cmd = Head(queue[s])
    OBVIOUS
<1>3. /\ r = s /\ queue[s] # <<>> /\ cmd.op = "join" /\ cmd.player = p
      /\ cmd.chan = senders'[r][p]
    BY <1>1, <1>2, SenderComes DEF RunActor, ManagerInv, ManagerTyped
<1>4. PartOfCall(s, 1) /\ queue[s][1] = cmd
    BY <1>2, <1>3, HandledCommand
<1>5. QED
    BY <1>3, <1>4 DEF PartOfCall, Joining

\* A channel that stays open stays the channel of its room, unless it is the
\* one of a join; and that becomes the channel of the room joined.
LEMMA SourceStays ==
    ASSUME ActorAssumption, ManagerAssumption, ManagerInv, [ManagerNext]_managerVars,
           SourcesRight, RecordsSource, NEW ch \in Chans, ch \in rx',
           \A p \in Players : Joining(p) /\ call[p].chan = ch => call[p].room = source[ch]
    PROVE  source'[ch] = source[ch]
<1>1. NoChan \notin Chans
    BY DEF ActorAssumption
<1>2. ASSUME NEW r \in Rooms, NEW p \in Players, senders'[r][p] = ch
      PROVE  r = source[ch]
    <2>1. CASE senders[r][p] = ch
        BY <1>1, <2>1 DEF SourcesRight
    <2>2. CASE senders[r][p] # ch
        BY <1>1, <1>2, <2>2, SenderOfJoin
    <2>3. QED
        BY <2>1, <2>2
<1>3. QED
    BY <1>2 DEF RecordsSource

\* What a room sends to is recorded as its.
LEMMA SourcesStep ==
    ASSUME ActorAssumption, Delivering', RecordsSource
    PROVE  SourcesRight'
<1>1. /\ senders' \in [Rooms -> [Players -> Chans \cup {NoChan}]]
      /\ OwnChannels'
    BY DEF Delivering, Slotted, Typed, TypeOK
<1>2. SUFFICES ASSUME NEW r \in Rooms, NEW p \in Players, senders'[r][p] # NoChan
               PROVE  source'[senders'[r][p]] = r
    BY DEF SourcesRight
<1>3. PICK ch \in Chans : ch = senders'[r][p]
    BY <1>1, <1>2
<1>4. \A s \in Rooms : (\E q \in Players : senders'[s][q] = ch) => s = r
    BY <1>1, <1>2, <1>3 DEF OwnChannels
<1>5. source'[ch] = CHOOSE s \in Rooms : \E q \in Players : senders'[s][q] = ch
    BY <1>3 DEF RecordsSource
<1>6. QED
    BY <1>3, <1>4, <1>5

\* Other tasks' calls leave p's call and its answer alone.
LEMMA CallsOfOthers ==
    ASSUME ActorAssumption, ManagerAssumption, ManagerInv, NEW t \in Tasks, Proceed(t),
           NEW p \in Tasks \ {t}
    PROVE  call'[p] = call[p] /\ reply'[p] = reply[p]
<1>1. call \in [Tasks -> Calls] /\ reply \in [Tasks -> Results]
    BY DEF ManagerInv, ManagerTyped, TypeOK
<1>2. call'[p] = call[p]
    BY <1>1 DEF Proceed, Send, Probe, MatchCreates, ProbeReturns, ListReturns,
                DestroyReturns, JoinSucceeds, JoinFails, MatchRetries, LeaveReturns,
                RouteReturns, Finish
<1>3. ASSUME NEW r, NEW cmd, Enqueue(r, cmd), cmd.task = t PROVE reply'[p] = reply[p]
    BY <1>1, <1>3 DEF Enqueue
<1>4. CASE Send(t) \/ \E r \in Rooms : Probe(t, r)
    <2>1. CASE Send(t)
        <3>1. \E r, cmd : Enqueue(r, cmd) /\ cmd.task = t
            BY <2>1 DEF Send, AskJoin, AskLeave, SendMessage, SendShutdown, Ask
        <3>2. QED
            BY <1>2, <1>3, <3>1
    <2>2. ASSUME NEW r \in Rooms, Probe(t, r) PROVE reply'[p] = reply[p]
        BY <1>3, <2>2 DEF Probe, GetInfo, Ask
    <2>3. QED
        BY <1>2, <1>4, <2>1, <2>2
<1>5. CASE \/ ProbeReturns(t) \/ DestroyReturns(t) \/ JoinSucceeds(t) \/ JoinFails(t)
           \/ MatchRetries(t) \/ LeaveReturns(t) \/ RouteReturns(t)
    BY <1>1, <1>2, <1>5 DEF ProbeReturns, DestroyReturns, JoinSucceeds, JoinFails, MatchRetries,
                      LeaveReturns, RouteReturns, TakeReply
<1>6. CASE ListReturns(t) \/ \E r \in Rooms : MatchCreates(t, r)
    BY <1>2, <1>6 DEF ListReturns, MatchCreates, Spawn, actorVars
<1>7. QED
    BY <1>2, <1>4, <1>5, <1>6 DEF Proceed

\* A player's own calls do not grant it anything: an actor does.
LEMMA OwnCallsAsk ==
    ASSUME ActorAssumption, ManagerAssumption, ManagerInv, NEW p \in Players, Proceed(p)
    PROVE  ~Answered(p, {"join", "match"})'
<1>1. /\ p \in Tasks /\ call \in [Tasks -> Calls] /\ reply \in [Tasks -> Results]
    BY DEF ManagerInv, ManagerTyped, TypeOK, ManagerAssumption
<1>2. CASE Send(p)
    <2>1. CASE call[p].op \in {"join", "match"}
        <3>1. reply'[p] \in {"pending", "unavailable"}
            BY <1>1, <1>2, <2>1 DEF Send, AskJoin, Enqueue, AskOps
        <3>2. QED
            BY <3>1 DEF Answered
    <2>2. CASE call[p].op \notin {"join", "match"}
        BY <1>1, <1>2, <2>2 DEF Send, Answered, Returns
    <2>3. QED
        BY <2>1, <2>2
<1>3. CASE ~Send(p)
    <2>1. ASSUME NEW at \in {"idle", "scan", "probe", "send"}, call'[p].at = at
          PROVE  ~Answered(p, {"join", "match"})'
        BY <2>1 DEF Answered, Returns
    <2>2. CASE ProbeReturns(p) \/ MatchRetries(p)
        <3>1. PICK at \in {"scan", "send"} : call' = [call EXCEPT ![p].at = at]
            BY <2>2 DEF ProbeReturns, MatchRetries
        <3>2. QED
            BY <1>1, <2>1, <3>1
    <2>3. CASE \/ ListReturns(p) \/ DestroyReturns(p) \/ JoinSucceeds(p) \/ JoinFails(p)
               \/ LeaveReturns(p) \/ RouteReturns(p)
        <3>1. call' = [call EXCEPT ![p] = Idle]
            BY <2>3 DEF ListReturns, DestroyReturns, JoinSucceeds, JoinFails, LeaveReturns,
                        RouteReturns, Finish
        <3>2. QED
            BY <1>1, <2>1, <3>1 DEF Idle
    <2>4. ASSUME NEW r \in Rooms, Probe(p, r) \/ MatchCreates(p, r)
          PROVE  ~Answered(p, {"join", "match"})'
        <3>1. call'[p].at = "probe" \/ call'[p].at = "send"
            BY <1>1, <2>4 DEF Probe, MatchCreates, Calls
        <3>2. QED
            BY <2>1, <3>1
    <2>5. QED
        BY <1>3, <2>2, <2>3, <2>4 DEF Proceed
<1>4. QED
    BY <1>2, <1>3

\* An actor that grants a join has taken the channel that came with it.
LEMMA GrantTakes ==
    ASSUME ActorAssumption, ManagerAssumption, ManagerInv, NEW r \in Rooms, RunActor(r),
           NEW p \in Players, Answered(p, {"join", "match"})'
    PROVE  \/ Answered(p, {"join", "match"})
           \/ call[p].room \in Rooms /\ senders'[call[p].room][p] = call[p].chan
<1>1. /\ p \in Tasks /\ call' = call /\ reply \in [Tasks -> Results]
      /\ senders \in [Rooms -> [Players -> Chans \cup {NoChan}]]
    BY DEF RunActor, mgrVars, ManagerInv, ManagerTyped, TypeOK, ManagerAssumption
<1>2. Returns(p, {"join", "match"}) /\ reply'[p] = "ok"
    BY <1>1 DEF Answered, Returns
<1>3. CASE reply[p] = "ok"
    BY <1>2, <1>3 DEF Answered
<1>4. CASE reply[p] # "ok"
    <2>1. PICK cmd : cmd = Head(queue[r])
        OBVIOUS
    <2>2. /\ queue[r] # <<>>
          /\ cmd.task = p
          /\ cmd.op \in {"join", "leave", "info"}
        BY <1>1, <1>2, <1>4, <2>1
        DEF RunActor, ActorStep, HandleJoin, HandleLeave, HandleMessage, HandleInfo,
            HandleShutdown, Panic, Die, Answer, Receives, RunsGame
    <2>3. PartOfCall(r, 1) /\ queue[r][1] = cmd
        BY <2>1, <2>2, HandledCommand
    <2>4. cmd.op = "join" /\ call[p].room = r /\ cmd.chan = call[p].chan /\ cmd.player = p
        BY <1>2, <2>2, <2>3 DEF PartOfCall, Returns
    <2>5. HandleJoin(r) \/ HandleShutdown(r) \/ Panic(r)
        BY <2>1, <2>4 DEF RunActor, ActorStep, HandleLeave, HandleMessage, HandleInfo, Receives
    <2>6. HandleJoin(r)
        BY <1>1, <1>2, <1>4, <2>5 DEF HandleShutdown, Panic, Die
    <2>7. JoinResult(r, p) = "ok"
        BY <1>1, <1>2, <2>1, <2>2, <2>4, <2>6 DEF HandleJoin, Answer
    <2>8. senders' = [senders EXCEPT ![r] = [senders[r] EXCEPT ![p] = cmd.chan]]
        BY <2>1, <2>4, <2>6, <2>7 DEF HandleJoin
    <2>9. QED
        BY <1>1, <2>4, <2>8
<1>5. QED
    BY <1>3, <1>4

\* Who is about to hear of its join was so before, unless an actor just let
\* it in.
LEMMA GrantStays ==
    ASSUME ActorAssumption, ManagerAssumption, ManagerInv, [ManagerNext]_managerVars,
           NEW p \in Players, Answered(p, {"join", "match"})'
    PROVE  \/ Answered(p, {"join", "match"}) /\ call'[p] = call[p]
           \/ /\ call'[p].room \in Rooms /\ call'[p].chan \in Chans
              /\ senders'[call'[p].room][p] = call'[p].chan
<1>1. /\ p \in Tasks /\ call \in [Tasks -> Calls] /\ Players \cap Admins = {}
      /\ Admins \subseteq Tasks
    BY DEF ManagerInv, ManagerTyped, ManagerAssumption
<1>2. ASSUME call'[p] = call[p], reply'[p] = reply[p]
      PROVE  Answered(p, {"join", "match"})
    BY <1>2 DEF Answered, Returns
<1>3. ASSUME NEW r \in Rooms, RunActor(r) PROVE call' = call
    BY <1>3 DEF RunActor, mgrVars
<1>4. CASE \E r \in Rooms : RunActor(r)
    <2>1. \/ Answered(p, {"join", "match"})
          \/ call[p].room \in Rooms /\ senders'[call[p].room][p] = call[p].chan
        BY <1>4, GrantTakes
    <2>2. Joining(p)
        BY <1>3, <1>4 DEF Answered, Returns, Joining
    <2>3. call[p].chan \in Chans
        BY <2>2, OneJoins
    <2>4. QED
        BY <1>3, <1>4, <2>1, <2>3
<1>5. ASSUME NEW q \in Players, PlayerCall(q) PROVE call'[p] = call[p] /\ reply'[p] = reply[p]
    <2>1. \A u \in Tasks \ {q} : call'[u] = call[u]
        BY <1>1, <1>5 DEF PlayerCall, PlayerRequest, JoinRoom, JoinOrCreate, LeaveRoom, LeaveRefused,
                RouteMessage, ListRooms, HandlerExit, Begin
    <2>2. call'[q].at # "wait" /\ reply' = reply
        BY <1>1, <1>5 DEF PlayerCall, PlayerRequest, JoinRoom, JoinOrCreate, LeaveRoom, LeaveRefused,
                RouteMessage, ListRooms, HandlerExit, Begin, CloseChannels, actorVars, Idle
    <2>3. QED
        BY <1>1, <2>1, <2>2 DEF Answered, Returns
<1>6. ASSUME NEW t \in Tasks, Proceed(t) PROVE call'[p] = call[p] /\ reply'[p] = reply[p]
    BY <1>1, <1>6, CallsOfOthers, OwnCallsAsk
<1>7. ASSUME NEW t \in Admins, NEW r \in Rooms, CreateRoom(t, r) \/ DestroyRoom(t, r)
      PROVE  call'[p] = call[p] /\ reply'[p] = reply[p]
    BY <1>1, <1>7 DEF CreateRoom, DestroyRoom, Spawn, Begin, actorVars
<1>8. CASE UNCHANGED managerVars
    BY <1>2, <1>8 DEF managerVars
<1>9. QED
    BY <1>2, <1>4, <1>5, <1>6, <1>7, <1>8 DEF ManagerNext

\* A granted join's channel is the room's.
LEMMA GrantedStep ==
    ASSUME ActorAssumption, ManagerAssumption, ManagerInv, [ManagerNext]_managerVars,
           Receivers', SourcesRight, SourcesRight', GrantedRight, RecordsSource
    PROVE  GrantedRight'
<1>1. SUFFICES ASSUME NEW p \in Players, Answered(p, {"join", "match"})'
               PROVE  source'[call'[p].chan] = call'[p].room
    BY DEF GrantedRight
<1>2. CASE Answered(p, {"join", "match"}) /\ call'[p] = call[p]
    <2>1. Joining(p) /\ call[p].at = "wait" /\ Joining(p)' /\ call'[p].at = "wait"
        BY <1>2 DEF Answered, Returns, Joining
    <2>2. call[p].chan \in Chans /\ call[p].chan \in rx'
        BY <1>2, <2>1, OneJoins DEF Receivers
    <2>3. source[call[p].chan] = call[p].room
        BY <1>2 DEF GrantedRight
    <2>4. \A q \in Players : Joining(q) /\ call[q].chan = call[p].chan
                             => call[q].room = call[p].room
        BY <2>1, OneJoins
    <2>5. source'[call[p].chan] = source[call[p].chan]
        BY <2>2, <2>3, <2>4, SourceStays
    <2>6. QED
        BY <1>2, <2>3, <2>5
<1>3. CASE /\ call'[p].room \in Rooms /\ call'[p].chan \in Chans
           /\ senders'[call'[p].room][p] = call'[p].chan
    BY <1>3, ActorAssumption DEF SourcesRight, ActorAssumption
<1>4. QED
    BY <1>1, <1>2, <1>3, GrantStays

-----------------------------------------------------------------------------
(* What a handler's client has read and been told. *)

\* All that a step of the manager keeps of the invariant.
LEMMA WireBase ==
    ASSUME ActorAssumption, ManagerAssumption, WireInv, [ManagerNext]_managerVars,
           RecordsSource
    PROVE  /\ ManagerInv' /\ Delivering'
           /\ Receivers' /\ SourcesRight' /\ GrantedRight'
<1>1. [ActorNext]_actorVars
    BY ManagerActs DEF WireInv, ManagerInv, Coherent
<1>2. ManagerInv' /\ Delivering'
    BY <1>1, ManagerInvStep, DeliveryStep DEF WireInv
<1>3. Receivers'
    BY ReceiversStep DEF WireInv
<1>4. SourcesRight'
    BY <1>2, SourcesStep
<1>5. GrantedRight'
    BY <1>3, <1>4, GrantedStep DEF WireInv
<1>6. QED
    BY <1>2, <1>3, <1>4, <1>5

\* What a handler goes on reading is still there and still the same room's.
LEMMA ReceiverStays ==
    ASSUME ActorAssumption, ManagerAssumption, WireInv, [ManagerNext]_managerVars,
           RecordsSource, NEW p \in Players, room_rx[p] # NoChan, room_rx'[p] = room_rx[p]
    PROVE  /\ source'[room_rx[p]] = source[room_rx[p]]
           /\ Grows(sent[room_rx[p]], sent'[room_rx[p]])
<1>1. room_rx[p] \in Chans
    BY DEF WireInv, ManagerInv, ManagerTyped
<1>2. \A q \in Players : Joining(q) => call[q].chan # room_rx[p]
    BY DEF WireInv, Receivers
<1>3. room_rx[p] \in rx'
    BY WireBase DEF Receivers
<1>4. QED
    BY <1>1, <1>2, <1>3, SourceStays, LogsGrow DEF WireInv

\* A handler that neither reads from the room nor tells its client of it.
LEMMA ReaderWaits ==
    ASSUME ActorAssumption, ManagerAssumption, WireInv, [ManagerNext]_managerVars,
           RecordsSource, NEW p \in Players, room_rx'[p] = room_rx[p],
           taken'[p] = taken[p], stream'[p] = stream[p],
           \/ owed'[p] = owed[p]
           \/ ~Welcomed(p) /\ ~InFlight(p) /\ ~Welcomed(p)' /\ ~InFlight(p)'
    PROVE  Reader(p)'
<1>1. Reader(p) /\ stream[p].log \in Seq(Items) /\ taken[p] \in Nat
    BY DEF WireInv, WireTypeOK
<1>2. CASE room_rx[p] = NoChan
    BY <1>1, <1>2 DEF Reader, Welcomed, InFlight
<1>3. CASE room_rx[p] # NoChan
    <2>1. PICK ch : ch = room_rx[p]
        OBVIOUS
    <2>2. source'[ch] = source[ch] /\ Grows(sent[ch], sent'[ch])
        BY <1>3, <2>1, ReceiverStays
    <2>3. sent[ch] \in Seq(Messages) /\ sent'[ch] \in Seq(Messages)
        BY <1>3, <2>1, WireBase DEF WireInv, ManagerInv, ManagerTyped, TypeOK
    <2>4. Len(sent[ch]) \in Nat /\ Len(sent'[ch]) \in Nat /\ Len(stream[p].log) \in Nat
          /\ DOMAIN stream[p].log = 1..Len(stream[p].log)
        BY <1>1, <2>3
    <2>5. /\ (Welcomed(p)' <=> Welcomed(p)) /\ (InFlight(p)' <=> InFlight(p))
          /\ Welcomed(p) \/ InFlight(p) => owed'[p] = owed[p]
        BY DEF Welcomed, InFlight
    <2>6. ~Welcomed(p) =>
              /\ InFlight(p) => taken[p] = Len(stream[p].log) + 1
              /\ ~InFlight(p) => taken[p] = Len(stream[p].log)
              /\ taken[p] <= Len(sent[ch])
              /\ \A i \in DOMAIN stream[p].log : stream[p].log[i].message = sent[ch][i]
        BY <1>1, <1>3, <2>1 DEF Reader
    <2>7. ASSUME ~Welcomed(p)
          PROVE  /\ taken[p] <= Len(sent'[ch])
                 /\ \A i \in DOMAIN stream[p].log : stream[p].log[i].message = sent'[ch][i]
        <3>1. taken[p] <= Len(sent[ch]) /\ Len(sent[ch]) <= Len(sent'[ch])
            BY <2>2, <2>6, <2>7 DEF Grows
        <3>2. Len(stream[p].log) <= taken[p]
            <4>1. PICK n \in Nat : n = Len(stream[p].log)
                BY <2>4
            <4>2. taken[p] = n + 1 \/ taken[p] = n
                BY <2>6, <2>7, <4>1
            <4>3. QED
                BY <4>1, <4>2
        <3>3. ASSUME NEW i \in DOMAIN stream[p].log
              PROVE  stream[p].log[i].message = sent'[ch][i]
            <4>1. i \in 1..Len(sent[ch])
                BY <1>1, <2>4, <3>1, <3>2
            <4>2. sent'[ch][i] = sent[ch][i]
                BY <2>2, <4>1 DEF Grows
            <4>3. QED
                BY <2>6, <2>7, <4>2
        <3>4. QED
            BY <1>1, <2>4, <3>1, <3>3
    <2>8. QED
        BY <1>1, <1>3, <2>1, <2>2, <2>5, <2>6, <2>7 DEF Reader
<1>4. QED
    BY <1>2, <1>3

\* A handler that holds no receiver any more.
LEMMA ReaderStops ==
    ASSUME NEW p \in Players, room_rx'[p] = NoChan,
           owed'[p].payload \notin {"RoomJoined", "Room"}
    PROVE  Reader(p)'
BY DEF Reader, Welcomed, InFlight

\* The map and the index keep what a client was told, unless it leaves.
LEMMA IndexStays ==
    ASSUME ActorAssumption, ManagerAssumption, ManagerInv, [ManagerNext]_managerVars,
           NEW p \in Players, ~(Returns(p, {"leave"}) /\ call'[p] = Idle),
           NEW r \in Rooms, phase[r] # "Absent", r \in rooms => player_rooms[p] = r
    PROVE  phase'[r] # "Absent" /\ (r \in rooms' => player_rooms'[p] = r)
<1>1. /\ p \in Tasks /\ player_rooms \in [Players -> Rooms \cup {NoRoom}]
      /\ NoRoom \notin Rooms /\ phase \in [Rooms -> Phases] /\ Slotted
      /\ call \in [Tasks -> Calls]
    BY DEF ManagerInv, ManagerTyped, TypeOK, ManagerAssumption
<1>2. phase'[r] # "Absent"
    <2>1. LifecycleStep
        BY ManagerActs, LifeStep DEF ManagerInv, Coherent
    <2>2. CASE phase'[r] = phase[r]
        BY <2>2
    <2>3. CASE phase'[r] # phase[r]
        BY <1>1, <2>1, <2>3 DEF LifecycleStep, Rank, Phases
    <2>4. QED
        BY <2>2, <2>3
<1>3. CASE UNCHANGED <<rooms, player_rooms>>
    BY <1>2, <1>3
<1>4. ASSUME NEW s \in Rooms, Spawn(s), rooms' = rooms \cup {s}, player_rooms' = player_rooms
      PROVE  r \in rooms' => player_rooms'[p] = r
    BY <1>4 DEF Spawn
<1>5. ASSUME NEW q \in Players, PlayerCall(q) PROVE UNCHANGED <<rooms, player_rooms>>
    BY <1>5 DEF PlayerCall, PlayerRequest, JoinRoom, JoinOrCreate, LeaveRoom, LeaveRefused,
                RouteMessage, ListRooms, HandlerExit
<1>6. ASSUME NEW t \in Admins, NEW s \in Rooms, CreateRoom(t, s) \/ DestroyRoom(t, s)
      PROVE  r \in rooms' => player_rooms'[p] = r
    BY <1>4, <1>6 DEF CreateRoom, DestroyRoom
<1>7. ASSUME NEW t \in Tasks, Proceed(t) PROVE r \in rooms' => player_rooms'[p] = r
    <2>1. CallShape(t)
        BY DEF ManagerInv, Coherent, CallsShaped
    <2>2. CASE DestroyReturns(t)
        BY <1>1, <2>1, <2>2 DEF DestroyReturns, CallShape, Returns
    <2>3. CASE t \in Players /\ JoinSucceeds(t)
        <3>1. /\ player_rooms[t] = NoRoom /\ rooms' = rooms
              /\ player_rooms' = [player_rooms EXCEPT ![t] = call[t].room]
            BY <2>1, <2>3 DEF JoinSucceeds, CallShape, Returns
        <3>2. QED
            BY <1>1, <2>3, <3>1
    <2>4. CASE t \in Players /\ LeaveReturns(t)
        <3>1. t # p /\ rooms' = rooms
            BY <1>1, <2>4 DEF LeaveReturns, Finish
        <3>2. player_rooms' = player_rooms
              \/ player_rooms' = [player_rooms EXCEPT ![t] = NoRoom]
            BY <2>4 DEF LeaveReturns
        <3>3. QED
            BY <1>1, <3>1, <3>2
    <2>5. CASE \E s \in Rooms : MatchCreates(t, s)
        BY <1>4, <2>5 DEF MatchCreates
    <2>6. CASE \/ Send(t) \/ ProbeReturns(t) \/ ListReturns(t)
               \/ (\E s \in Rooms : Probe(t, s))
               \/ JoinFails(t) \/ MatchRetries(t) \/ RouteReturns(t)
        BY <2>6 DEF Send, Probe, ProbeReturns, ListReturns, JoinFails, MatchRetries,
                    RouteReturns
    <2>7. QED
        BY <1>7, <2>2, <2>3, <2>4, <2>5, <2>6 DEF Proceed
<1>8. CASE (\E s \in Rooms : RunActor(s)) \/ UNCHANGED managerVars
    BY <1>2, <1>8 DEF RunActor, mgrVars, managerVars
<1>9. QED
    BY <1>2, <1>3, <1>5, <1>6, <1>7, <1>8 DEF ManagerNext

\* A client that hears of no other room.
LEMMA ToldStays ==
    ASSUME ActorAssumption, ManagerAssumption, WireInv, [ManagerNext]_managerVars,
           NEW p \in Players, ~(Returns(p, {"leave"}) /\ call'[p] = Idle),
           \A r \in Rooms : TellsRoom(p, r)' => TellsRoom(p, r)
    PROVE  Told(p)'
<1>1. SUFFICES ASSUME NEW r \in Rooms, TellsRoom(p, r)'
               PROVE  phase'[r] # "Absent" /\ (r \in rooms' => player_rooms'[p] = r)
    BY DEF Told
<1>2. phase[r] # "Absent" /\ (r \in rooms => player_rooms[p] = r)
    BY <1>1 DEF WireInv, Told
<1>3. QED
    BY <1>2, IndexStays DEF WireInv

\* What handlers and other tasks do leaves the receivers and calls of the
\* players alone whose handlers they are not.
LEMMA OthersWait ==
    ASSUME ActorAssumption, ManagerAssumption, WireInv, NEW p \in Players, HandlerStep(p),
           NEW q \in Players \ {p}
    PROVE  /\ stage'[q] = stage[q] /\ owed'[q] = owed[q] /\ taken'[q] = taken[q]
           /\ stream'[q] = stream[q] /\ due'[q] = due[q]
           /\ room_rx'[q] = room_rx[q] /\ call'[q] = call[q]
<1>1. /\ p \in Tasks /\ q \in Tasks /\ call \in [Tasks -> Calls]
      /\ room_rx \in [Players -> Chans \cup {NoChan}]
    BY DEF WireInv, ManagerInv, ManagerTyped, ManagerAssumption
<1>2. /\ stage \in [Players -> Stages]
      /\ owed \in [Players -> [payload : Payloads, room : Rooms \cup {NoRoom}]]
      /\ taken \in [Players -> Nat] /\ due \in [Players -> BOOLEAN]
      /\ stream \in [Players -> [room : Rooms \cup {NoRoom}, log : Seq(Items)]]
    BY DEF WireInv, WireTypeOK
<1>3. stage'[q] = stage[q]
    BY <1>2 DEF HandlerStep, Busy, Answers, Connect, Heartbeat, GarbledGame, Ignored, Request, Reads,
                Granted, Refused, Continue, CallOver, Sent, SendFails, Deliver, Closed, Timeout, Ends,
                IdleElapses, Moves
<1>4. owed'[q] = owed[q]
    BY <1>2 DEF HandlerStep, Busy, Answers, Connect, Heartbeat, GarbledGame, Ignored, Request, Reads,
                Granted, Refused, Continue, CallOver, Sent, SendFails, Deliver, Closed, Timeout, Ends,
                IdleElapses, Sends
<1>5. taken'[q] = taken[q]
    BY <1>2 DEF HandlerStep, Busy, Answers, Connect, Heartbeat, GarbledGame, Ignored, Request, Reads,
                Granted, Refused, Continue, CallOver, Sent, SendFails, Deliver, Closed, Timeout, Ends,
                IdleElapses, FollowsReceiver
<1>6. stream'[q] = stream[q]
    BY <1>2 DEF HandlerStep, Busy, Answers, Connect, Heartbeat, GarbledGame, Ignored, Request, Reads,
                Granted, Refused, Continue, CallOver, Sent, SendFails, Deliver, Closed, Timeout, Ends,
                IdleElapses, clientVars
<1>7. due'[q] = due[q]
    BY <1>2 DEF HandlerStep, Busy, Answers, Connect, Heartbeat, GarbledGame, Ignored, Request, Reads,
                Granted, Refused, Continue, CallOver, Sent, SendFails, Deliver, Closed, Timeout, Ends,
                IdleElapses, clientVars
<1>8. ASSUME PlayerCall(p) PROVE room_rx'[q] = room_rx[q] /\ call'[q] = call[q]
    BY <1>1, <1>8 DEF PlayerCall, PlayerRequest, JoinRoom, JoinOrCreate, LeaveRoom,
                LeaveRefused, RouteMessage, ListRooms, HandlerExit, Begin
<1>9. ASSUME Proceed(p) PROVE room_rx'[q] = room_rx[q] /\ call'[q] = call[q]
    <2>1. room_rx'[q] = room_rx[q]
        BY <1>1, <1>9 DEF Proceed, Send, Probe, MatchCreates, ProbeReturns, ListReturns,
                DestroyReturns, JoinSucceeds, JoinFails, MatchRetries, LeaveReturns,
                RouteReturns
    <2>2. QED
        BY <1>1, <1>9, <2>1, CallsOfOthers DEF WireInv
<1>10. CASE UNCHANGED managerVars
    BY <1>3, <1>4, <1>5, <1>6, <1>7, <1>10 DEF managerVars
<1>11. QED
    BY <1>3, <1>4, <1>5, <1>6, <1>7, <1>8, <1>9, <1>10, HandlerActs

\* So do actors and application tasks.
LEMMA ElsewhereRests ==
    ASSUME ActorAssumption, ManagerAssumption, WireInv, NEW q \in Players,
           \/ \E t \in Admins : Proceed(t)
           \/ \E t \in Admins, r \in Rooms : CreateRoom(t, r) \/ DestroyRoom(t, r)
           \/ \E r \in Rooms : RunActor(r)
    PROVE  room_rx'[q] = room_rx[q] /\ call'[q] = call[q]
<1>1. /\ q \in Tasks /\ call \in [Tasks -> Calls] /\ Players \cap Admins = {}
      /\ Admins \subseteq Tasks
    BY DEF WireInv, ManagerInv, ManagerTyped, ManagerAssumption
<1>2. ASSUME NEW t \in Admins, Proceed(t)
      PROVE  room_rx'[q] = room_rx[q] /\ call'[q] = call[q]
    <2>1. call'[q] = call[q]
        BY <1>1, <1>2, CallsOfOthers DEF WireInv
    <2>2. room_rx' = room_rx
        BY <1>1, <1>2 DEF Proceed, Send, Probe, ProbeReturns, ListReturns, DestroyReturns
    <2>3. QED
        BY <2>1, <2>2
<1>3. ASSUME NEW t \in Admins, NEW r \in Rooms, CreateRoom(t, r) \/ DestroyRoom(t, r)
      PROVE  room_rx'[q] = room_rx[q] /\ call'[q] = call[q]
    BY <1>1, <1>3 DEF CreateRoom, DestroyRoom, Begin
<1>4. QED
    BY <1>2, <1>3 DEF RunActor, mgrVars

\* A player whose handler does nothing.
LEMMA Bystander ==
    ASSUME ActorAssumption, ManagerAssumption, WireInv, [ManagerNext]_managerVars,
           RecordsSource, NEW q \in Players,
           owed'[q] = owed[q], taken'[q] = taken[q], stream'[q] = stream[q],
           room_rx'[q] = room_rx[q], call'[q] = call[q]
    PROVE  Reader(q)' /\ Told(q)'
<1>1. Reader(q)'
    BY ReaderWaits
<1>2. Returns(q, {"leave"}) => call'[q] # Idle
    BY DEF Returns, Idle
<1>3. \A r \in Rooms : TellsRoom(q, r)' => TellsRoom(q, r)
    BY DEF TellsRoom, Welcomed
<1>4. QED
    BY <1>1, <1>2, <1>3, ToldStays

\* The part of WireTypeOK that is about one handler.
HandlerTyped(p) ==
    /\ stage[p] \in Stages
    /\ owed[p] \in [payload : Payloads, room : Rooms \cup {NoRoom}]
    /\ taken[p] \in Nat
    /\ stream[p] \in [room : Rooms \cup {NoRoom}, log : Seq(Items)]
    /\ due[p] \in BOOLEAN
    /\ stage[p] = "call" <=> call[p] # Idle
    /\ stage[p] = "send" <=> owed[p] # Nothing

\* The part of ClientReadsItsRoom that is about one client.
ReadsItsRoom(p) ==
    LET log == stream[p].log
    IN  \A i, j \in DOMAIN log :
           /\ log[i].room = stream[p].room
           /\ log[i].room # NoRoom
           /\ log[i].message.kind = "State" <=> i = 1
           /\ i < j => log[i].message.version <= log[j].message.version

\* All that the invariant says of one handler and its client.
HandlerRight(p) == HandlerTyped(p) /\ ReadsItsRoom(p) /\ Reader(p) /\ Told(p)

\* A client that reads nothing new.
LEMMA StreamRests ==
    ASSUME WireInv, NEW p \in Players, stream'[p] = stream[p] \/ stream'[p] = Unjoined
    PROVE  ReadsItsRoom(p)' /\ stream'[p] \in [room : Rooms \cup {NoRoom}, log : Seq(Items)]
<1>1. /\ stream[p] \in [room : Rooms \cup {NoRoom}, log : Seq(Items)]
      /\ ReadsItsRoom(p)
    BY DEF WireInv, WireTypeOK, ClientReadsItsRoom, ReadsItsRoom
<1>2. CASE stream'[p] = stream[p]
    BY <1>1, <1>2 DEF ReadsItsRoom
<1>3. CASE stream'[p] = Unjoined
    BY <1>3 DEF ReadsItsRoom, Unjoined
<1>4. QED
    BY <1>2, <1>3

\* A step that keeps the handler's receiver and what its client has been
\* told: all that is left to see is where the handler is.
LEMMA HandlerWaits ==
    ASSUME ActorAssumption, ManagerAssumption, WireInv, [ManagerNext]_managerVars,
           RecordsSource, NEW p \in Players, room_rx'[p] = room_rx[p],
           taken'[p] = taken[p], stream'[p] = stream[p],
           ~Returns(p, {"leave"}) \/ call'[p] = call[p],
           \/ owed'[p] = owed[p]
           \/ /\ owed[p] = Nothing
              /\ owed'[p] \in {Owes("HeartbeatAck", NoRoom), Owes("Error", NoRoom),
                               Owes("RoomList", NoRoom)},
           stage'[p] \in Stages, due'[p] \in BOOLEAN,
           stage'[p] = "call" <=> call'[p] # Idle,
           stage'[p] = "send" <=> owed'[p] # Nothing
    PROVE  HandlerRight(p)'
<1>1. HandlerTyped(p)
    BY DEF WireInv, WireTypeOK, HandlerTyped
<1>2. owed'[p] \in [payload : Payloads, room : Rooms \cup {NoRoom}]
    BY <1>1 DEF HandlerTyped, Owes, Payloads
<1>3. \/ owed'[p] = owed[p]
      \/ ~Welcomed(p) /\ ~InFlight(p) /\ ~Welcomed(p)' /\ ~InFlight(p)'
    BY DEF Owes, Nothing, Welcomed, InFlight
<1>4. Reader(p)'
    BY <1>3, ReaderWaits
<1>5. \A r \in Rooms : TellsRoom(p, r)' => TellsRoom(p, r)
    BY <1>3 DEF TellsRoom, Welcomed
<1>6. ~(Returns(p, {"leave"}) /\ call'[p] = Idle)
    BY DEF Returns, Idle
<1>7. Told(p)'
    BY <1>5, <1>6, ToldStays
<1>8. ReadsItsRoom(p)' /\ stream'[p] \in [room : Rooms \cup {NoRoom}, log : Seq(Items)]
    BY StreamRests
<1>9. QED
    BY <1>1, <1>2, <1>4, <1>7, <1>8 DEF HandlerRight, HandlerTyped

\* A handler whose receiver is gone and whose client knows it.
LEMMA HandlerStops ==
    ASSUME ManagerAssumption, WireInv, NEW p \in Players, room_rx'[p] = NoChan,
           taken'[p] \in Nat, stream'[p] = Unjoined, owed'[p] = Nothing,
           stage'[p] \in Stages \ {"call", "send"}, due'[p] \in BOOLEAN, call'[p] = Idle
    PROVE  HandlerRight(p)'
<1>1. Reader(p)'
    BY ReaderStops DEF Nothing
<1>2. Told(p)'
    BY DEF Told, TellsRoom, Welcomed, Nothing, Unjoined, ManagerAssumption
<1>3. ReadsItsRoom(p)' /\ stream'[p] \in [room : Rooms \cup {NoRoom}, log : Seq(Items)]
    BY StreamRests
<1>4. Nothing \in [payload : Payloads, room : Rooms \cup {NoRoom}]
    BY DEF Nothing, Payloads
<1>5. QED
    BY <1>1, <1>2, <1>3, <1>4 DEF HandlerRight, HandlerTyped

\* The parts of a handler's step that do not touch the manager.
LEMMA QuietSteps ==
    ASSUME ActorAssumption, ManagerAssumption, WireInv, RecordsSource, NEW p \in Players,
           \/ Connect(p) \/ Heartbeat(p) \/ GarbledGame(p) \/ Ignored(p) \/ Request(p)
           \/ Refused(p) \/ IdleElapses(p)
    PROVE  HandlerRight(p)'
<1>1. /\ stage \in [Players -> Stages] /\ due \in [Players -> BOOLEAN]
      /\ owed \in [Players -> [payload : Payloads, room : Rooms \cup {NoRoom}]]
      /\ stage[p] = "call" <=> call[p] # Idle
      /\ stage[p] = "send" <=> owed[p] # Nothing
    BY DEF WireInv, WireTypeOK
<1>2. UNCHANGED <<room_rx, call, taken, stream>> /\ UNCHANGED managerVars
    BY DEF Connect, Heartbeat, GarbledGame, Ignored, Request, Reads, Refused, IdleElapses,
           managerVars
<1>3. PICK s \in Stages \ {"call"} : stage'[p] = s \/ (stage'[p] = stage[p] /\ owed' = owed)
    BY <1>1 DEF Connect, Heartbeat, GarbledGame, Ignored, Request, Reads, Refused,
           IdleElapses, Moves, Stages
<1>4. due'[p] \in BOOLEAN /\ stage'[p] \in Stages
    BY <1>1, <1>3 DEF Connect, Heartbeat, GarbledGame, Ignored, Request, Reads, Refused,
           IdleElapses
<1>5. Owes("HeartbeatAck", NoRoom) # Nothing /\ Owes("Error", NoRoom) # Nothing
    BY DEF Owes, Nothing
<1>6. CASE Heartbeat(p) \/ GarbledGame(p) \/ Refused(p)
    <2>1. /\ owed'[p] \in {Owes("HeartbeatAck", NoRoom), Owes("Error", NoRoom)}
          /\ stage[p] \notin {"call", "send"} /\ stage'[p] = "send"
        BY <1>1, <1>6 DEF Heartbeat, GarbledGame, Refused, Reads, Moves, Sends
    <2>2. QED
        BY <1>1, <1>2, <1>4, <1>5, <2>1, HandlerWaits
<1>7. CASE Connect(p) \/ Ignored(p) \/ Request(p) \/ IdleElapses(p)
    <2>1. /\ owed' = owed
          /\ stage[p] \in {"call", "send"} => stage'[p] = stage[p]
          /\ stage[p] \notin {"call", "send"} => stage'[p] \notin {"call", "send"}
        BY <1>1, <1>7 DEF Connect, Ignored, Request, Reads, Moves, IdleElapses
    <2>2. QED
        BY <1>1, <1>2, <1>4, <2>1, HandlerWaits
<1>8. QED
    BY <1>6, <1>7

\* The loop ends.
LEMMA EndsRight ==
    ASSUME ManagerAssumption, WireInv, NEW p \in Players, NEW from \in {"select", "send"},
           Ends(p, from)
    PROVE  HandlerRight(p)'
<1>1. /\ p \in Tasks /\ stage \in [Players -> Stages] /\ due \in [Players -> BOOLEAN]
      /\ owed \in [Players -> [payload : Payloads, room : Rooms \cup {NoRoom}]]
      /\ taken \in [Players -> Nat] /\ room_rx \in [Players -> Chans \cup {NoChan}]
      /\ stream \in [Players -> [room : Rooms \cup {NoRoom}, log : Seq(Items)]]
      /\ stage[p] = "call" <=> call[p] # Idle
    BY DEF WireInv, WireTypeOK, ManagerInv, ManagerTyped, ManagerAssumption
<1>2. /\ stage[p] = from /\ stage'[p] = "off" /\ owed'[p] = Nothing /\ taken'[p] = 0
      /\ stream'[p] = Unjoined /\ due'[p] = FALSE
    BY <1>1 DEF Ends, Moves, Sends
<1>3. room_rx'[p] = NoChan /\ call' = call
    BY <1>1 DEF Ends, HandlerExit, managerVars
<1>4. call'[p] = Idle /\ taken'[p] \in Nat /\ due'[p] \in BOOLEAN
    <2>1. call[p] = Idle
        BY <1>1, <1>2
    <2>2. taken'[p] \in Nat
        BY <1>2
    <2>3. due'[p] \in BOOLEAN
        BY <1>1 DEF Ends
    <2>4. QED
        BY <1>3, <2>1, <2>2, <2>3
<1>5. stage'[p] \in Stages \ {"call", "send"}
    BY <1>2 DEF Stages
<1>6. QED
    BY <1>2, <1>3, <1>4, <1>5, HandlerStops

\* The request is granted.
LEMMA GrantedRequest ==
    ASSUME ActorAssumption, ManagerAssumption, WireInv, RecordsSource,
           NEW p \in Players, Granted(p)
    PROVE  HandlerRight(p)'
<1>1. /\ p \in Tasks /\ stage \in [Players -> Stages] /\ due \in [Players -> BOOLEAN]
      /\ taken \in [Players -> Nat] /\ room_rx \in [Players -> Chans \cup {NoChan}]
      /\ stream \in [Players -> [room : Rooms \cup {NoRoom}, log : Seq(Items)]]
      /\ call \in [Tasks -> Calls] /\ stage[p] = "lock"
      /\ stage[p] = "call" <=> call[p] # Idle
      /\ stage[p] = "send" <=> owed[p] # Nothing
    BY DEF WireInv, WireTypeOK, ManagerInv, ManagerTyped, ManagerAssumption, Granted
<1>2. /\ PlayerRequest(p) /\ FollowsReceiver(p) /\ owed' = owed /\ due' = due
      /\ owed[p] = Nothing /\ call[p] = Idle
    BY <1>1 DEF Granted
<1>3. [ManagerNext]_managerVars
    BY <1>2 DEF ManagerNext, PlayerCall
<1>4. CASE LeaveRefused(p)
    <2>1. call' = call /\ room_rx'[p] = NoChan
        BY <1>1, <1>4 DEF LeaveRefused
    <2>2. stage'[p] = "select" /\ stream'[p] = Unjoined
        BY <1>1, <1>2, <2>1 DEF Granted, Moves
    <2>3. taken'[p] \in Nat
        BY <1>1, <1>2 DEF FollowsReceiver
    <2>4. stage'[p] \in Stages \ {"call", "send"}
        BY <2>2 DEF Stages
    <2>5. owed'[p] = Nothing /\ due'[p] \in BOOLEAN /\ call'[p] = Idle
        BY <1>1, <1>2, <2>1
    <2>6. QED
        BY <2>1, <2>2, <2>3, <2>4, <2>5, HandlerStops
<1>5. CASE ~LeaveRefused(p)
    <2>1. room_rx' = room_rx
        BY <1>2, <1>5 DEF PlayerRequest, JoinRoom, JoinOrCreate, LeaveRoom, RouteMessage,
                          ListRooms
    <2>2. call'[p].op # "none"
        BY <1>1, <1>2, <1>5 DEF PlayerRequest, JoinRoom, JoinOrCreate, LeaveRoom, RouteMessage,
                          ListRooms, Begin
    <2>3. call'[p] # Idle
        BY <2>2 DEF Idle
    <2>4. stage'[p] = "call" /\ stream'[p] = stream[p]
        BY <1>1, <2>3 DEF Granted, Moves
    <2>5. taken'[p] = taken[p] /\ room_rx'[p] = room_rx[p]
        BY <1>1, <1>2, <2>1 DEF FollowsReceiver
    <2>6. owed'[p] = owed[p] /\ due'[p] \in BOOLEAN /\ stage'[p] \in Stages
        BY <1>1, <1>2, <2>4 DEF Stages
    <2>7. ~Returns(p, {"leave"})
        BY <1>2 DEF Returns, Idle
    <2>8. stage'[p] # "send" /\ owed'[p] = Nothing
        BY <1>2, <2>4
    <2>9. QED
        BY <1>3, <2>3, <2>4, <2>5, <2>6, <2>7, <2>8, HandlerWaits
<1>6. QED
    BY <1>4, <1>5

\* A call that does not return yet changes neither the receiver nor what the
\* handler owes.
LEMMA CallGoesOn ==
    ASSUME ActorAssumption, ManagerAssumption, WireInv, RecordsSource,
           NEW p \in Players, Continue(p), call'[p] # Idle
    PROVE  HandlerRight(p)'
<1>1. /\ p \in Tasks /\ stage \in [Players -> Stages] /\ due \in [Players -> BOOLEAN]
      /\ taken \in [Players -> Nat] /\ call \in [Tasks -> Calls] /\ stage[p] = "call"
      /\ stage[p] = "call" <=> call[p] # Idle
      /\ stage[p] = "send" <=> owed[p] # Nothing
    BY DEF WireInv, WireTypeOK, ManagerInv, ManagerTyped, ManagerAssumption, Continue, CallOver, Moves
<1>2. /\ Proceed(p) /\ FollowsReceiver(p) /\ owed' = owed /\ stage' = stage /\ due' = due
      /\ owed[p] = Nothing
    BY <1>1 DEF Continue, CallOver
<1>3. [ManagerNext]_managerVars
    BY <1>1, <1>2 DEF ManagerNext
<1>4. \/ Send(p) \/ ProbeReturns(p) \/ MatchRetries(p)
      \/ \E r \in Rooms : Probe(p, r) \/ MatchCreates(p, r)
    BY <1>1, <1>2 DEF Proceed, ListReturns, DestroyReturns, JoinSucceeds, JoinFails,
                      LeaveReturns, RouteReturns, Finish
<1>5. room_rx' = room_rx /\ ~Returns(p, {"leave"})
    BY <1>4 DEF Send, ProbeReturns, MatchRetries, Probe, MatchCreates, Returns
<1>6. stream' = stream
    BY <1>5 DEF Continue, CallOver
<1>7. taken'[p] = taken[p]
    BY <1>1, <1>2, <1>5 DEF FollowsReceiver
<1>8. /\ room_rx'[p] = room_rx[p] /\ stream'[p] = stream[p] /\ owed'[p] = owed[p]
      /\ stage'[p] = "call" /\ stage'[p] \in Stages /\ due'[p] \in BOOLEAN
      /\ owed'[p] = Nothing
    BY <1>1, <1>2, <1>5, <1>6
<1>9. QED
    BY <1>3, <1>5, <1>7, <1>8, HandlerWaits

\* A join that returns points the handler to the room's channel, from its
\* first message, and the client is told of the room.
LEMMA JoinWelcomes ==
    ASSUME ActorAssumption, ManagerAssumption, WireInv, RecordsSource,
           NEW p \in Players, Continue(p), JoinSucceeds(p)
    PROVE  HandlerRight(p)'
<1> DEFINE r == call[p].room
           ch == call[p].chan
<1>1. /\ p \in Tasks /\ stage \in [Players -> Stages] /\ due \in [Players -> BOOLEAN]
      /\ owed \in [Players -> [payload : Payloads, room : Rooms \cup {NoRoom}]]
      /\ taken \in [Players -> Nat] /\ room_rx \in [Players -> Chans \cup {NoChan}]
      /\ player_rooms \in [Players -> Rooms \cup {NoRoom}] /\ rooms \subseteq Rooms
      /\ call \in [Tasks -> Calls] /\ NoChan \notin Chans /\ NoRoom \notin Rooms
      /\ HandlerTyped(p) /\ Told(p) /\ ManagerInv
    BY DEF WireInv, WireTypeOK, HandlerTyped, ManagerInv, ManagerTyped, ManagerAssumption,
           ActorAssumption
<1>2. /\ Proceed(p) /\ FollowsReceiver(p) /\ due' = due /\ stage[p] = "call"
      /\ owed[p] = Nothing /\ [ManagerNext]_managerVars
    BY <1>1 DEF Continue, CallOver, Moves, HandlerTyped, ManagerNext
<1>3. /\ Joining(p) /\ Answered(p, {"join", "match"}) /\ reply[p] = "ok"
      /\ call[p].at = "wait" /\ ~Returns(p, {"leave"})
      /\ rx' = rx \ {room_rx[p]} /\ UNCHANGED <<phase, rooms>>
      /\ player_rooms' = [player_rooms EXCEPT ![p] = r]
      /\ room_rx' = [room_rx EXCEPT ![p] = ch]
      /\ call' = [call EXCEPT ![p] = Idle]
    BY DEF JoinSucceeds, Returns, TakeReply, Finish, Joining, Answered
<1>4. /\ r \in rooms /\ r \in Rooms /\ phase[r] # "Absent" /\ player_rooms[p] = NoRoom
      /\ ch \in Chans
    BY <1>1, <1>3 DEF ManagerInv, Coherent, CallsShaped, CallShape, RoomsSpawned, Joining
<1>5. ch \in rx /\ room_rx[p] # ch /\ source[ch] = r
    BY <1>3 DEF WireInv, Receivers, GrantedRight
<1>6. source'[ch] = r
    <2>1. ch \in rx'
        BY <1>3, <1>5
    <2>2. \A q \in Players : Joining(q) /\ call[q].chan = ch => call[q].room = source[ch]
        BY <1>1, <1>3, <1>5, OneJoins
    <2>3. QED
        BY <1>2, <1>4, <1>5, <2>1, <2>2, SourceStays DEF WireInv
<1>7. owed'[p] = Owes("RoomJoined", r) /\ stage'[p] = "send" /\ stream' = stream
    <2>1. call'[p] = Idle
        BY <1>1, <1>3
    <2>2. owed'[p] = Outcome(p)
        BY <1>1, <2>1 DEF Continue, CallOver, Sends
    <2>3. Outcome(p) = Owes("RoomJoined", r)
        BY <1>3 DEF Outcome, Joining
    <2>4. owed'[p] # Nothing
        BY <2>2, <2>3 DEF Owes, Nothing
    <2>5. QED
        BY <1>1, <1>3, <2>1, <2>2, <2>3, <2>4 DEF Continue, CallOver, Moves
<1>8. room_rx'[p] = ch /\ taken'[p] = 0 /\ player_rooms'[p] = r /\ call'[p] = Idle
    BY <1>1, <1>2, <1>3, <1>5 DEF FollowsReceiver
<1>9. Welcomed(p)' /\ ~InFlight(p)' /\ owed'[p].room = r
    BY <1>7 DEF Welcomed, InFlight, Owes
<1>10. Reader(p)'
    BY <1>1, <1>4, <1>6, <1>8, <1>9 DEF Reader
<1>11. Told(p)'
    <2>1. SUFFICES ASSUME NEW s \in Rooms, TellsRoom(p, s)'
                   PROVE  phase'[s] # "Absent" /\ (s \in rooms' => player_rooms'[p] = s)
        BY DEF Told
    <2>2. CASE s = r
        BY <1>3, <1>4, <1>8, <2>2
    <2>3. CASE s # r
        <3>1. TellsRoom(p, s)
            BY <1>7, <1>9, <2>1, <2>3 DEF TellsRoom
        <3>2. phase[s] # "Absent" /\ s \notin rooms
            BY <1>1, <1>4, <3>1 DEF Told
        <3>3. QED
            BY <1>3, <3>2
    <2>4. QED
        BY <2>2, <2>3
<1>12. ReadsItsRoom(p)' /\ stream'[p] \in [room : Rooms \cup {NoRoom}, log : Seq(Items)]
    BY <1>7, StreamRests
<1>13. HandlerTyped(p)'
    BY <1>1, <1>2, <1>4, <1>7, <1>8, <1>12
    DEF HandlerTyped, Owes, Nothing, Payloads, Stages
<1>14. QED
    BY <1>10, <1>11, <1>12, <1>13 DEF HandlerRight


\* A call that returns without having let the player in or out.
LEMMA CallAnswers ==
    ASSUME ActorAssumption, ManagerAssumption, WireInv, RecordsSource,
           NEW p \in Players, Continue(p), JoinFails(p) \/ ListReturns(p) \/ RouteReturns(p)
    PROVE  HandlerRight(p)'
<1>1. /\ p \in Tasks /\ stage \in [Players -> Stages] /\ due \in [Players -> BOOLEAN]
      /\ owed \in [Players -> [payload : Payloads, room : Rooms \cup {NoRoom}]]
      /\ taken \in [Players -> Nat] /\ call \in [Tasks -> Calls] /\ stage[p] = "call"
      /\ owed[p] = Nothing
    BY DEF WireInv, WireTypeOK, ManagerInv, ManagerTyped, ManagerAssumption, Continue, CallOver, Moves
<1>2. Proceed(p) /\ FollowsReceiver(p) /\ due' = due
    BY DEF Continue, CallOver
<1>3. [ManagerNext]_managerVars
    BY <1>1, <1>2 DEF ManagerNext
<1>4. call'[p] = Idle /\ room_rx' = room_rx /\ ~Returns(p, {"leave"})
    BY <1>1 DEF JoinFails, ListReturns, RouteReturns, Finish, Returns
<1>5. stream'[p] = stream[p] /\ taken'[p] = taken[p] /\ room_rx'[p] = room_rx[p]
    BY <1>1, <1>2, <1>4 DEF Continue, CallOver, FollowsReceiver
<1>6. owed'[p] = Outcome(p)
    BY <1>1, <1>4 DEF Continue, CallOver, Sends
<1>7. Outcome(p) \in {Nothing, Owes("Error", NoRoom), Owes("RoomList", NoRoom)}
    BY DEF JoinFails, ListReturns, RouteReturns, Returns, Outcome
<1>8. stage'[p] = IF owed'[p] = Nothing THEN "select" ELSE "send"
    BY <1>1, <1>4 DEF Continue, CallOver, Moves
<1>9. /\ stage'[p] \in Stages /\ due'[p] \in BOOLEAN
      /\ stage'[p] = "call" <=> call'[p] # Idle
      /\ stage'[p] = "send" <=> owed'[p] # Nothing
    BY <1>1, <1>2, <1>4, <1>8 DEF Stages
<1>10. \/ owed'[p] = owed[p]
       \/ /\ owed[p] = Nothing
          /\ owed'[p] \in {Owes("HeartbeatAck", NoRoom), Owes("Error", NoRoom),
                           Owes("RoomList", NoRoom)}
    BY <1>1, <1>6, <1>7
<1>11. QED
    BY <1>3, <1>4, <1>5, <1>9, <1>10, HandlerWaits

\* LeaveRoom takes the receiver away and the client knows.
LEMMA LeaveParts ==
    ASSUME ActorAssumption, ManagerAssumption, WireInv,
           NEW p \in Players, Continue(p), LeaveReturns(p)
    PROVE  HandlerRight(p)'
<1>1. /\ p \in Tasks /\ stage \in [Players -> Stages] /\ due \in [Players -> BOOLEAN]
      /\ owed \in [Players -> [payload : Payloads, room : Rooms \cup {NoRoom}]]
      /\ stream \in [Players -> [room : Rooms \cup {NoRoom}, log : Seq(Items)]]
      /\ room_rx \in [Players -> Chans \cup {NoChan}]
      /\ taken \in [Players -> Nat] /\ call \in [Tasks -> Calls] /\ stage[p] = "call"
    BY DEF WireInv, WireTypeOK, ManagerInv, ManagerTyped, ManagerAssumption, Continue, CallOver, Moves
<1>2. Returns(p, {"leave"}) /\ call'[p] = Idle /\ room_rx'[p] = NoChan
    BY <1>1 DEF LeaveReturns, Finish
<1>3. stream'[p] = Unjoined
    BY <1>1, <1>2 DEF Continue, CallOver
<1>4. owed'[p] = Nothing
    <2>1. Outcome(p) = Nothing
        BY <1>2 DEF Outcome, Returns
    <2>2. QED
        BY <1>1, <1>2, <2>1 DEF Continue, CallOver, Sends
<1>5. stage'[p] = "select"
    BY <1>1, <1>2, <1>4 DEF Continue, CallOver, Moves
<1>6. stage'[p] \in Stages \ {"call", "send"}
    BY <1>5 DEF Stages
<1>7. taken'[p] \in Nat /\ due'[p] \in BOOLEAN
    BY <1>1 DEF Continue, CallOver, FollowsReceiver
<1>8. QED
    BY <1>2, <1>3, <1>4, <1>6, <1>7, HandlerStops

\* All ways a call goes on.
LEMMA CallProceeds ==
    ASSUME ActorAssumption, ManagerAssumption, WireInv, RecordsSource,
           NEW p \in Players, Continue(p)
    PROVE  HandlerRight(p)'
<1>1. p \in Tasks /\ Proceed(p) /\ call \in [Tasks -> Calls] /\ Players \cap Admins = {}
    BY DEF Continue, CallOver, WireInv, ManagerInv, ManagerTyped, ManagerAssumption
<1>2. CallShape(p) /\ (call[p].op = "none" <=> call[p] = Idle)
    BY <1>1 DEF WireInv, ManagerInv, Coherent, CallsShaped, CallShape
<1>3. ~DestroyReturns(p)
    BY <1>1, <1>2 DEF DestroyReturns, Returns, CallShape
<1>4. CASE call'[p] # Idle
    BY <1>4, CallGoesOn
<1>5. CASE call'[p] = Idle
    <2>1. ASSUME \/ Send(p) \/ ProbeReturns(p) \/ MatchRetries(p)
                 \/ \E r \in Rooms : Probe(p, r) \/ MatchCreates(p, r)
          PROVE  call'[p].op # "none"
        <3>1. call[p].at # "idle"
            BY <2>1 DEF Send, ProbeReturns, MatchRetries, Probe, MatchCreates, Returns
        <3>2. call[p].op # "none"
            BY <1>2, <3>1 DEF Idle
        <3>3. CASE Send(p) \/ ProbeReturns(p) \/ MatchRetries(p)
            BY <1>1, <3>2, <3>3 DEF Send, ProbeReturns, MatchRetries, Calls
        <3>4. ASSUME NEW r \in Rooms, Probe(p, r) PROVE call'[p].op = call[p].op
            BY <1>1, <3>4 DEF Probe, Calls
        <3>5. ASSUME NEW r \in Rooms, MatchCreates(p, r) PROVE call'[p].op = "join"
            BY <1>1, <3>5 DEF MatchCreates, Calls
        <3>6. QED
            BY <2>1, <3>2, <3>3, <3>4, <3>5
    <2>2. call'[p].op = "none"
        BY <1>5 DEF Idle
    <2>3. QED
        BY <1>1, <1>3, <2>1, <2>2, JoinWelcomes, CallAnswers, LeaveParts DEF Proceed
<1>6. QED
    BY <1>4, <1>5

-----------------------------------------------------------------------------
(* The outbound branch. *)

\* A message is taken out: it is the first the client has not read.
LEMMA DeliverRight ==
    ASSUME ActorAssumption, ManagerAssumption, WireInv, RecordsSource,
           NEW p \in Players, Deliver(p)
    PROVE  HandlerRight(p)'
<1>1. /\ HandlerTyped(p) /\ Reader(p) /\ Told(p)
      /\ stage \in [Players -> Stages] /\ taken \in [Players -> Nat]
      /\ owed \in [Players -> [payload : Payloads, room : Rooms \cup {NoRoom}]]
    BY DEF WireInv, WireTypeOK, HandlerTyped
<1>2. PICK ch : ch = room_rx[p]
    OBVIOUS
<1>3. /\ ch # NoChan /\ taken[p] < Len(sent[ch])
      /\ stage[p] = "select" /\ stage'[p] = "send"
      /\ owed'[p] = Owes("Room", source[ch]) /\ taken'[p] = taken[p] + 1
      /\ UNCHANGED <<stream, due, call, room_rx, phase, rooms, player_rooms, sent>>
      /\ UNCHANGED managerVars
    BY <1>1, <1>2 DEF Deliver, Unread, Moves, Sends, clientVars, managerVars
<1>4. owed[p] = Nothing /\ ~Welcomed(p) /\ ~InFlight(p) /\ call[p] = Idle
    BY <1>1, <1>3 DEF HandlerTyped, Nothing, Welcomed, InFlight
<1>5. source[ch] \in Rooms /\ source[ch] = stream[p].room /\ taken[p] = Len(stream[p].log)
    BY <1>1, <1>2, <1>3, <1>4 DEF Reader
<1>6. source'[ch] = source[ch]
    BY <1>2, <1>3, ReceiverStays
<1>7. InFlight(p)' /\ ~Welcomed(p)' /\ owed'[p].room = stream[p].room /\ owed'[p] # Nothing
    BY <1>3, <1>5 DEF InFlight, Welcomed, Owes, Nothing
<1>8. Reader(p)'
    <2>1. \A i \in DOMAIN stream[p].log : stream[p].log[i].message = sent[ch][i]
        BY <1>1, <1>2, <1>3, <1>4 DEF Reader
    <2>2. taken[p] \in Nat /\ Len(sent[ch]) \in Nat
        <3>1. ch \in Chans /\ sent \in [Chans -> Seq(Messages)]
            BY <1>2, <1>3 DEF WireInv, ManagerInv, ManagerTyped, TypeOK
        <3>2. QED
            BY <1>1, <3>1
    <2>3. taken'[p] <= Len(sent[ch]) /\ taken'[p] # 0 /\ taken'[p] = Len(stream[p].log) + 1
        BY <1>3, <1>5, <2>2
    <2>4. /\ room_rx'[p] = ch /\ source'[ch] \in Rooms /\ source'[ch] = stream'[p].room
          /\ stream'[p] = stream[p] /\ sent'[ch] = sent[ch]
        BY <1>2, <1>3, <1>5, <1>6
    <2>5. QED
        BY <1>3, <1>7, <2>1, <2>3, <2>4 DEF Reader
<1>9. Told(p)'
    <2>1. \A r \in Rooms : TellsRoom(p, r)' => TellsRoom(p, r)
        BY <1>3, <1>7 DEF TellsRoom
    <2>2. QED
        BY <1>1, <1>3, <2>1 DEF Told
<1>10. ReadsItsRoom(p)' /\ stream'[p] \in [room : Rooms \cup {NoRoom}, log : Seq(Items)]
    BY <1>3, StreamRests
<1>11. owed'[p] \in [payload : Payloads, room : Rooms \cup {NoRoom}]
    BY <1>3, <1>5 DEF Owes, Payloads
<1>12. HandlerTyped(p)'
    BY <1>1, <1>3, <1>4, <1>7, <1>10, <1>11 DEF HandlerTyped, Stages
<1>13. QED
    BY <1>8, <1>9, <1>10, <1>12 DEF HandlerRight

\* A client's log holds what m begins with, all of it from room r.
Follows(log, r, m) == \A i \in DOMAIN log : log[i].message = m[i] /\ log[i].room = r

\* The order ClientReadsItsRoom asks for.
InOrder(log) ==
    \A i, j \in DOMAIN log :
        /\ log[i].message.kind = "State" <=> i = 1
        /\ i < j => log[i].message.version <= log[j].message.version

\* One more message of the room, read after all that came before it.
LEMMA ReadsOn ==
    ASSUME NEW log \in Seq(Items), NEW r \in Rooms \cup {NoRoom}, NEW m \in Seq(Messages),
           Ordered(m), Follows(log, r, m), Len(log) + 1 <= Len(m), NEW new,
           new = Append(log, [room |-> r, message |-> m[Len(log) + 1]])
    PROVE  /\ new \in Seq(Items) /\ Len(new) = Len(log) + 1
           /\ Follows(new, r, m) /\ InOrder(new)
<1> DEFINE item == [room |-> r, message |-> m[Len(log) + 1]]
<1>1. Len(log) \in Nat /\ Len(m) \in Nat /\ Len(log) + 1 \in 1..Len(m)
    OBVIOUS
<1>2. m[Len(log) + 1] \in Messages
    BY <1>1
<1>3. item \in Items
    BY <1>2 DEF Items
<1>4. new \in Seq(Items) /\ Len(new) = Len(log) + 1
    BY <1>3
<1>5. ASSUME NEW i \in DOMAIN new PROVE new[i].message = m[i] /\ new[i].room = r
    <2>1. i \in 1..(Len(log) + 1)
        BY <1>4
    <2>2. CASE i = Len(log) + 1
        BY <1>3, <2>2
    <2>3. CASE i # Len(log) + 1
        <3>1. i \in DOMAIN log
            BY <1>1, <2>1, <2>3
        <3>2. new[i] = log[i]
            BY <1>3, <3>1
        <3>3. QED
            BY <3>1, <3>2 DEF Follows
    <2>4. QED
        BY <2>2, <2>3
<1>6. DOMAIN new \subseteq DOMAIN m
    <2>1. DOMAIN new = 1..(Len(log) + 1) /\ DOMAIN m = 1..Len(m)
        BY <1>4
    <2>2. QED
        BY <1>1, <2>1
<1>7. ASSUME NEW i \in DOMAIN new, NEW j \in DOMAIN new
      PROVE  /\ new[i].message.kind = "State" <=> i = 1
             /\ i < j => new[i].message.version <= new[j].message.version
    <2>1. i \in DOMAIN m /\ j \in DOMAIN m /\ new[i].message = m[i] /\ new[j].message = m[j]
        BY <1>5, <1>6
    <2>2. QED
        BY <2>1 DEF Ordered
<1>8. QED
    BY <1>4, <1>5, <1>7 DEF Follows, InOrder

\* A message of the room is sent: the client reads it.
LEMMA MessageReaches ==
    ASSUME ActorAssumption, ManagerAssumption, WireInv, RecordsSource,
           NEW p \in Players, Sent(p), InFlight(p)
    PROVE  HandlerRight(p)'
<1> DEFINE s == stream[p]
           item == [room |-> s.room, message |-> sent[room_rx[p]][Len(s.log) + 1]]
           new == Append(s.log, item)
<1>1. /\ HandlerTyped(p) /\ Reader(p) /\ Told(p) /\ ReadsItsRoom(p)
      /\ stage \in [Players -> Stages] /\ taken \in [Players -> Nat]
      /\ stream \in [Players -> [room : Rooms \cup {NoRoom}, log : Seq(Items)]]
      /\ owed \in [Players -> [payload : Payloads, room : Rooms \cup {NoRoom}]]
      /\ room_rx \in [Players -> Chans \cup {NoChan}] /\ sent \in [Chans -> Seq(Messages)]
      /\ DeliveryOrder /\ NoRoom \notin Rooms
    BY DEF WireInv, WireTypeOK, HandlerTyped, ClientReadsItsRoom, ReadsItsRoom, Delivering,
           ManagerInv, ManagerTyped, TypeOK, ManagerAssumption
<1>2. /\ stage[p] = "send" /\ stage'[p] = "select" /\ owed'[p] = Nothing
      /\ UNCHANGED <<taken, due, call, room_rx, phase, rooms, player_rooms, sent>>
      /\ UNCHANGED managerVars
    BY <1>1 DEF Sent, Moves, Sends, managerVars
<1>3. /\ ~Welcomed(p) /\ ~Welcomed(p)' /\ ~InFlight(p)' /\ call[p] = Idle
    BY <1>1, <1>2 DEF HandlerTyped, Nothing, Welcomed, InFlight
<1>4. PICK ch \in Chans : ch = room_rx[p]
    BY <1>1 DEF Reader
<1>5. /\ ch # NoChan /\ owed[p].room = s.room /\ source[ch] \in Rooms
      /\ source[ch] = s.room /\ taken[p] = Len(s.log) + 1 /\ taken[p] <= Len(sent[ch])
      /\ \A i \in DOMAIN s.log : s.log[i].message = sent[ch][i]
    BY <1>1, <1>3, <1>4 DEF Reader
<1>6. Ordered(sent[ch]) /\ sent[ch] \in Seq(Messages)
    BY <1>1, <1>4 DEF DeliveryOrder, Ordered
<1>7. s \in [room : Rooms \cup {NoRoom}, log : Seq(Items)] /\ s.room # NoRoom
    BY <1>1, <1>5
<1>8. \A i \in DOMAIN s.log : s.log[i].room = s.room
    BY <1>1 DEF ReadsItsRoom
<1>9. /\ new \in Seq(Items) /\ Len(new) = Len(s.log) + 1
      /\ Follows(new, s.room, sent[ch]) /\ InOrder(new)
    <2>1. s.log \in Seq(Items) /\ s.room \in Rooms \cup {NoRoom} /\ Len(s.log) + 1 <= Len(sent[ch])
        BY <1>5, <1>7
    <2>2. Follows(s.log, s.room, sent[ch])
        BY <1>5, <1>8 DEF Follows
    <2>3. new = Append(s.log, [room |-> s.room, message |-> sent[ch][Len(s.log) + 1]])
        BY <1>4
    <2>4. QED
        BY <1>6, <2>1, <2>2, <2>3, ReadsOn
<1>10. stream'[p].log = new /\ stream'[p].room = s.room
       /\ stream'[p] \in [room : Rooms \cup {NoRoom}, log : Seq(Items)]
    <2>1. stream'[p] = [s EXCEPT !.log = new]
        BY <1>1, <1>5 DEF Sent, Read, InFlight
    <2>2. QED
        BY <1>7, <1>9, <2>1
<1>11. ReadsItsRoom(p)'
    BY <1>7, <1>9, <1>10 DEF ReadsItsRoom, Follows, InOrder
<1>12. source'[ch] = source[ch]
    BY <1>2, <1>4, <1>5, ReceiverStays
<1>13. Reader(p)'
    <2>1. room_rx'[p] = ch /\ taken'[p] = taken[p] /\ sent'[ch] = sent[ch]
        BY <1>2, <1>4
    <2>2. QED
        BY <1>3, <1>5, <1>9, <1>10, <1>12, <2>1 DEF Reader, Follows
<1>14. Told(p)'
    <2>1. \A r \in Rooms : TellsRoom(p, r)' => TellsRoom(p, r)
        BY <1>3, <1>10 DEF TellsRoom
    <2>2. QED
        BY <1>1, <1>2, <2>1 DEF Told
<1>15. HandlerTyped(p)'
    <2>1. Nothing \in [payload : Payloads, room : Rooms \cup {NoRoom}]
        BY DEF Nothing, Payloads
    <2>2. call'[p] = Idle /\ taken'[p] \in Nat /\ stage'[p] \in Stages
        BY <1>1, <1>2, <1>3 DEF Stages
    <2>3. due'[p] \in BOOLEAN
        BY <1>1, <1>2 DEF HandlerTyped
    <2>4. QED
        BY <1>2, <1>10, <2>1, <2>2, <2>3 DEF HandlerTyped
<1>16. QED
    BY <1>11, <1>13, <1>14, <1>15 DEF HandlerRight

\* The client is told of the room it is in; it has read none of it yet.
LEMMA WelcomeReaches ==
    ASSUME ActorAssumption, ManagerAssumption, WireInv, RecordsSource,
           NEW p \in Players, Sent(p), Welcomed(p)
    PROVE  HandlerRight(p)'
<1>1. /\ HandlerTyped(p) /\ Reader(p) /\ Told(p)
      /\ stage \in [Players -> Stages] /\ taken \in [Players -> Nat]
      /\ stream \in [Players -> [room : Rooms \cup {NoRoom}, log : Seq(Items)]]
      /\ owed \in [Players -> [payload : Payloads, room : Rooms \cup {NoRoom}]]
      /\ room_rx \in [Players -> Chans \cup {NoChan}] /\ sent \in [Chans -> Seq(Messages)]
    BY DEF WireInv, WireTypeOK, HandlerTyped, ManagerInv, ManagerTyped, TypeOK
<1>2. /\ stage[p] = "send" /\ stage'[p] = "select" /\ owed'[p] = Nothing
      /\ UNCHANGED <<taken, due, call, room_rx, phase, rooms, player_rooms, sent>>
      /\ UNCHANGED managerVars
    BY <1>1 DEF Sent, Moves, Sends, managerVars
<1>3. /\ ~InFlight(p) /\ ~Welcomed(p)' /\ ~InFlight(p)' /\ call[p] = Idle
    BY <1>1, <1>2 DEF HandlerTyped, Nothing, Welcomed, InFlight
<1>4. PICK ch \in Chans : ch = room_rx[p]
    BY <1>1 DEF Reader
<1>5. /\ ch # NoChan /\ source[ch] \in Rooms /\ source[ch] = owed[p].room /\ taken[p] = 0
    BY <1>1, <1>4 DEF Reader
<1>6. stream'[p] = [room |-> owed[p].room, log |-> <<>>]
    BY <1>1 DEF Sent, Read, Welcomed
<1>7. source'[ch] = source[ch]
    BY <1>2, <1>4, <1>5, ReceiverStays
<1>8. Reader(p)'
    <2>1. /\ room_rx'[p] = ch /\ taken'[p] = 0 /\ stream'[p].log = <<>>
          /\ stream'[p].room = source'[ch] /\ source'[ch] \in Rooms
        BY <1>2, <1>4, <1>5, <1>6, <1>7
    <2>2. Len(sent'[ch]) \in Nat /\ DOMAIN <<>> = {} /\ Len(<<>>) = 0
        BY <1>1, <1>2
    <2>3. QED
        BY <1>3, <2>1, <2>2 DEF Reader
<1>9. Told(p)'
    <2>1. \A r \in Rooms : TellsRoom(p, r)' => TellsRoom(p, r)
        BY <1>3, <1>6 DEF TellsRoom
    <2>2. QED
        BY <1>1, <1>2, <2>1 DEF Told
<1>10. ReadsItsRoom(p)'
    BY <1>6 DEF ReadsItsRoom
<1>11. HandlerTyped(p)'
    <2>1. Nothing \in [payload : Payloads, room : Rooms \cup {NoRoom}]
        BY DEF Nothing, Payloads
    <2>2. call'[p] = Idle /\ taken'[p] \in Nat /\ stage'[p] \in Stages
        BY <1>1, <1>2, <1>3 DEF Stages
    <2>3. due'[p] \in BOOLEAN
        BY <1>1, <1>2 DEF HandlerTyped
    <2>4. stream'[p] \in [room : Rooms \cup {NoRoom}, log : Seq(Items)]
        <3>1. <<>> \in Seq(Items) /\ owed[p].room \in Rooms
            BY <1>5
        <3>2. QED
            BY <1>6, <3>1
    <2>5. QED
        BY <1>2, <2>1, <2>2, <2>3, <2>4 DEF HandlerTyped
<1>12. QED
    BY <1>8, <1>9, <1>10, <1>11 DEF HandlerRight

\* An envelope that is not about the room is sent.
LEMMA AnswerReaches ==
    ASSUME ActorAssumption, ManagerAssumption, WireInv, RecordsSource,
           NEW p \in Players, Sent(p), ~Welcomed(p), ~InFlight(p)
    PROVE  HandlerRight(p)'
<1>1. /\ HandlerTyped(p)
      /\ stage \in [Players -> Stages]
      /\ stream \in [Players -> [room : Rooms \cup {NoRoom}, log : Seq(Items)]]
      /\ owed \in [Players -> [payload : Payloads, room : Rooms \cup {NoRoom}]]
    BY DEF WireInv, WireTypeOK, HandlerTyped
<1>2. /\ stage[p] = "send" /\ stage'[p] = "select" /\ owed'[p] = Nothing
      /\ UNCHANGED <<taken, due, call, room_rx>> /\ UNCHANGED managerVars
    BY <1>1 DEF Sent, Moves, Sends, managerVars
<1>3. stream'[p] = stream[p]
    BY <1>1 DEF Sent, Read, Welcomed, InFlight
<1>4. ~Welcomed(p)' /\ ~InFlight(p)' /\ call'[p] = Idle
    BY <1>1, <1>2 DEF HandlerTyped, Nothing, Welcomed, InFlight
<1>5. Reader(p)'
    <2>1. room_rx'[p] = room_rx[p] /\ taken'[p] = taken[p]
        BY <1>2
    <2>2. QED
        BY <1>2, <1>3, <1>4, <2>1, ReaderWaits
<1>6. Told(p)'
    <2>1. \A r \in Rooms : TellsRoom(p, r)' => TellsRoom(p, r)
        BY <1>3, <1>4 DEF TellsRoom
    <2>2. ~Returns(p, {"leave"})
        BY <1>2, <1>4 DEF Returns, Idle
    <2>3. QED
        BY <1>2, <2>1, <2>2, ToldStays
<1>7. ReadsItsRoom(p)'
    BY <1>3, StreamRests
<1>8. HandlerTyped(p)'
    <2>1. Nothing \in [payload : Payloads, room : Rooms \cup {NoRoom}]
        BY DEF Nothing, Payloads
    <2>2. taken'[p] \in Nat /\ due'[p] \in BOOLEAN
        BY <1>1, <1>2 DEF HandlerTyped
    <2>3. stage'[p] \in Stages
        BY <1>2 DEF Stages
    <2>4. stream'[p] \in [room : Rooms \cup {NoRoom}, log : Seq(Items)]
        BY <1>1, <1>3
    <2>5. QED
        BY <1>2, <1>4, <2>1, <2>2, <2>3, <2>4 DEF HandlerTyped
<1>9. QED
    BY <1>5, <1>6, <1>7, <1>8 DEF HandlerRight

-----------------------------------------------------------------------------
(* All steps. *)

\* The handler that takes a step.
LEMMA ActsRight ==
    ASSUME ActorAssumption, ManagerAssumption, WireInv, RecordsSource,
           NEW p \in Players, HandlerStep(p)
    PROVE  HandlerRight(p)'
<1>1. CASE SendFails(p) \/ Closed(p) \/ Timeout(p)
    BY <1>1, EndsRight DEF SendFails, Closed, Timeout
<1>2. CASE Sent(p)
    BY <1>2, MessageReaches, WelcomeReaches, AnswerReaches
<1>3. CASE \/ Connect(p) \/ Heartbeat(p) \/ GarbledGame(p) \/ Ignored(p) \/ Request(p)
           \/ Refused(p) \/ IdleElapses(p)
    BY <1>3, QuietSteps
<1>4. QED
    BY <1>1, <1>2, <1>3, GrantedRequest, CallProceeds, DeliverRight DEF HandlerStep, Busy, Answers

\* The handler that takes none.
LEMMA WaitsRight ==
    ASSUME ActorAssumption, ManagerAssumption, WireInv, [ManagerNext]_managerVars,
           RecordsSource, NEW q \in Players,
           stage'[q] = stage[q], owed'[q] = owed[q], taken'[q] = taken[q],
           stream'[q] = stream[q], due'[q] = due[q],
           room_rx'[q] = room_rx[q], call'[q] = call[q]
    PROVE  HandlerRight(q)'
<1>1. HandlerTyped(q)
    BY DEF WireInv, WireTypeOK, HandlerTyped
<1>2. HandlerTyped(q)'
    BY <1>1 DEF HandlerTyped
<1>3. QED
    BY <1>2, Bystander, StreamRests DEF HandlerRight

\* Whoever takes a step, every handler and its client are right.
LEMMA AllRight ==
    ASSUME ActorAssumption, ManagerAssumption, WireInv, WireNext, NEW q \in Players
    PROVE  HandlerRight(q)'
<1>1. [ManagerNext]_managerVars
    BY WireActs
<1>2. CASE \E p \in Players : HandlerStep(p) /\ RecordsSource
    <2>1. PICK p \in Players : HandlerStep(p) /\ RecordsSource
        BY <1>2
    <2>2. CASE p = q
        BY <2>1, <2>2, ActsRight
    <2>3. CASE p # q
        BY <1>1, <2>1, <2>3, OthersWait, WaitsRight
    <2>4. QED
        BY <2>2, <2>3
<1>3. ASSUME NEW A, Elsewhere(A), room_rx'[q] = room_rx[q], call'[q] = call[q]
      PROVE  HandlerRight(q)'
    BY <1>1, <1>3, WaitsRight DEF Elsewhere
<1>4. QED
    BY <1>2, <1>3, ElsewhereRests DEF WireNext, Elsewhere

\* The parts of the invariant put together again.
LEMMA InvFromParts ==
    ASSUME ManagerInv', Delivering', Receivers', SourcesRight', GrantedRight',
           stage' \in [Players -> Stages],
           owed' \in [Players -> [payload : Payloads, room : Rooms \cup {NoRoom}]],
           taken' \in [Players -> Nat],
           stream' \in [Players -> [room : Rooms \cup {NoRoom}, log : Seq(Items)]],
           due' \in [Players -> BOOLEAN], source' \in [Chans -> Rooms \cup {NoRoom}],
           \A p \in Players : HandlerRight(p)'
    PROVE  WireInv'
<1>1. WireTypeOK'
    BY DEF HandlerRight, HandlerTyped, WireTypeOK
<1>2. ClientReadsItsRoom'
    BY DEF HandlerRight, ReadsItsRoom, ClientReadsItsRoom
<1>3. QED
    BY <1>1, <1>2 DEF WireInv, HandlerRight

\* The variables of the loops are functions of the player.
LEMMA LoopVariables ==
    ASSUME WireInv, WireNext
    PROVE  /\ DOMAIN stage' = Players /\ stage' = [p \in Players |-> stage'[p]]
           /\ DOMAIN owed' = Players /\ owed' = [p \in Players |-> owed'[p]]
           /\ DOMAIN taken' = Players /\ taken' = [p \in Players |-> taken'[p]]
           /\ DOMAIN stream' = Players /\ stream' = [p \in Players |-> stream'[p]]
           /\ DOMAIN due' = Players /\ due' = [p \in Players |-> due'[p]]
<1>1. /\ stage \in [Players -> Stages]
      /\ owed \in [Players -> [payload : Payloads, room : Rooms \cup {NoRoom}]]
      /\ taken \in [Players -> Nat]
      /\ stream \in [Players -> [room : Rooms \cup {NoRoom}, log : Seq(Items)]]
      /\ due \in [Players -> BOOLEAN]
    BY DEF WireInv, WireTypeOK
<1>2. CASE \E p \in Players : HandlerStep(p)
    <2>1. PICK p \in Players : HandlerStep(p)
        BY <1>2
    <2>2. \/ stage' = stage
          \/ \E s \in Stages : stage' = [stage EXCEPT ![p] = s]
        BY <2>1 DEF HandlerStep, Busy, Answers, Connect, Heartbeat, GarbledGame, Ignored, Request,
                    Reads, Granted, Refused, Continue, CallOver, Sent, SendFails, Deliver, Closed,
                    Timeout, Ends, IdleElapses, Moves, Stages
    <2>3. owed' = owed \/ \E e : owed' = [owed EXCEPT ![p] = e]
        BY <2>1 DEF HandlerStep, Busy, Answers, Connect, Heartbeat, GarbledGame, Ignored, Request,
                    Reads, Granted, Refused, Continue, CallOver, Sent, SendFails, Deliver, Closed,
                    Timeout, Ends, IdleElapses, Sends
    <2>4. taken' = taken \/ \E n : taken' = [taken EXCEPT ![p] = n]
        BY <2>1 DEF HandlerStep, Busy, Answers, Connect, Heartbeat, GarbledGame, Ignored, Request,
                    Reads, Granted, Refused, Continue, CallOver, Sent, SendFails, Deliver, Closed,
                    Timeout, Ends, IdleElapses, FollowsReceiver
    <2>5. stream' = stream \/ \E s : stream' = [stream EXCEPT ![p] = s]
        BY <2>1 DEF HandlerStep, Busy, Answers, Connect, Heartbeat, GarbledGame, Ignored, Request,
                    Reads, Granted, Refused, Continue, CallOver, Sent, SendFails, Deliver, Closed,
                    Timeout, Ends, IdleElapses, clientVars
    <2>6. due' = due \/ \E b : due' = [due EXCEPT ![p] = b]
        BY <2>1 DEF HandlerStep, Busy, Answers, Connect, Heartbeat, GarbledGame, Ignored, Request,
                    Reads, Granted, Refused, Continue, CallOver, Sent, SendFails, Deliver, Closed,
                    Timeout, Ends, IdleElapses, clientVars
    <2>7. QED
        BY <1>1, <2>2, <2>3, <2>4, <2>5, <2>6
<1>3. CASE UNCHANGED <<stage, owed, taken, stream, due>>
    BY <1>1, <1>3
<1>4. QED
    BY <1>2, <1>3 DEF WireNext, Elsewhere

\* The invariant is one.
LEMMA WireInvStep ==
    ASSUME ActorAssumption, ManagerAssumption, WireInv, [WireNext]_wireVars
    PROVE  WireInv'
<1>1. CASE UNCHANGED wireVars
    <2>1. UNCHANGED managerVars /\ UNCHANGED actorVars
        BY <1>1 DEF wireVars, managerVars, actorVars
    <2>2. ManagerInv' /\ Delivering'
        BY <2>1, ManagerInvStep, DeliveryStep DEF WireInv
    <2>3. WireTypeOK' /\ ClientReadsItsRoom'
        BY <1>1 DEF WireInv, WireTypeOK, ClientReadsItsRoom, wireVars
    <2>4. Receivers' /\ SourcesRight' /\ GrantedRight'
        BY <1>1 DEF WireInv, Receivers, SourcesRight, GrantedRight, Joining, Answered, Returns,
                    wireVars
    <2>5. ASSUME NEW p \in Players PROVE Reader(p)' /\ Told(p)'
        <3>1. Reader(p) /\ Told(p)
            BY DEF WireInv
        <3>2. QED
            BY <1>1, <3>1 DEF Reader, Told, TellsRoom, Welcomed, InFlight, wireVars
    <2>6. QED
        BY <2>2, <2>3, <2>4, <2>5 DEF WireInv
<1>2. CASE WireNext
    <2>1. [ManagerNext]_managerVars /\ RecordsSource
        BY <1>2, WireActs DEF WireNext, Elsewhere
    <2>2. \A p \in Players : HandlerRight(p)'
        BY <1>2, AllRight
    <2>3. /\ stage' \in [Players -> Stages]
          /\ owed' \in [Players -> [payload : Payloads, room : Rooms \cup {NoRoom}]]
          /\ taken' \in [Players -> Nat]
          /\ stream' \in [Players -> [room : Rooms \cup {NoRoom}, log : Seq(Items)]]
          /\ due' \in [Players -> BOOLEAN]
        BY <1>2, <2>2, LoopVariables DEF HandlerRight, HandlerTyped
    <2>4. source' \in [Chans -> Rooms \cup {NoRoom}]
        BY <2>1 DEF RecordsSource, WireInv, WireTypeOK
    <2>5. QED
        BY <2>1, <2>2, <2>3, <2>4, WireBase, InvFromParts
<1>3. QED
    BY <1>1, <1>2

\* Nobody is connected yet.
LEMMA WireInvInit ==
    ASSUME ActorAssumption, ManagerAssumption, WireInit
    PROVE  WireInv
<1>1. /\ ManagerInit /\ ActorInit /\ NoRoom \notin Rooms /\ NoChan \notin Chans
    BY DEF WireInit, ManagerInit, ManagerAssumption, ActorAssumption
<1>2. ManagerInv /\ Delivering
    BY <1>1, ManagerInvInit, DeliveryInit
<1>3. \A p \in Players : call[p] = Idle /\ room_rx[p] = NoChan
    BY DEF WireInit, ManagerInit, ManagerAssumption
<1>4. WireTypeOK
    BY <1>3 DEF WireInit, WireTypeOK, Stages, Nothing, Payloads, Unjoined
<1>5. Receivers /\ SourcesRight /\ GrantedRight
    <2>1. \A r \in Rooms : \A p \in Players : senders[r][p] = NoChan
        BY <1>1 DEF ActorInit, NoSenders
    <2>2. QED
        BY <1>3, <2>1 DEF Receivers, SourcesRight, GrantedRight, Joining, Answered, Returns,
                          Idle
<1>6. ASSUME NEW p \in Players PROVE Reader(p) /\ Told(p)
    BY <1>1, <1>3, <1>6 DEF WireInit, Reader, Told, TellsRoom, Welcomed, InFlight, Nothing,
                            Unjoined
<1>7. ClientReadsItsRoom
    BY DEF WireInit, ClientReadsItsRoom, Unjoined
<1>8. QED
    BY <1>2, <1>4, <1>5, <1>6, <1>7 DEF WireInv

\* Handlers, manager, actors and channels keep the invariant for ever.
THEOREM WireInvariant == WireSpec => []WireInv
<1>1. WireInit => WireInv
    BY ActorAssumption, ManagerAssumption, WireInvInit
<1>2. WireInv /\ [WireNext]_wireVars => WireInv'
    BY ActorAssumption, ManagerAssumption, WireInvStep
<1>3. QED
    BY <1>1, <1>2, PTL DEF WireSpec

\* Every variable of the loop has its type, and a handler is in a call or in
\* conn.send exactly where its stage says so.
THEOREM WireTypeCorrect == WireSpec => []WireTypeOK
<1>1. WireInv => WireTypeOK
    BY DEF WireInv
<1>2. QED
    BY <1>1, WireInvariant, PTL

\* Between RoomJoined and its leaving the room, a client reads messages of
\* that room alone, the snapshot first and once, in the order of the game's
\* states: whatever the manager, the actors and the other handlers do.
THEOREM ClientReadsCorrect == WireSpec => []ClientReadsItsRoom
<1>1. WireInv => ClientReadsItsRoom
    BY DEF WireInv
<1>2. QED
    BY <1>1, WireInvariant, PTL

\* A client that has been told it is in a room is there as far as the index
\* knows, even while a call of its own is under way, until the room is
\* destroyed.
THEOREM ToldCorrect == WireSpec => []ToldIsTrue
<1>1. WireInv => ToldIsTrue
    <2>1. ASSUME WireInv, NEW p \in Players, stream[p].room \in rooms
          PROVE  player_rooms[p] = stream[p].room
        BY <2>1 DEF WireInv, Told, TellsRoom, ManagerInv, ManagerTyped
    <2>2. QED
        BY <2>1 DEF ToldIsTrue
<1>2. QED
    BY <1>1, WireInvariant, PTL

\* The handlers' loops drive the manager as RoomManager has its callers drive
\* it: its safety properties hold behind every loop.
THEOREM LoopsDriveManager == WireSpec => ManagerInit /\ [][ManagerNext]_managerVars
<1>1. WireInit => ManagerInit
    BY DEF WireInit
<1>2. [WireNext]_wireVars => [ManagerNext]_managerVars
    BY ManagerAssumption, WireActs
<1>3. QED
    BY <1>1, <1>2, PTL DEF WireSpec

-----------------------------------------------------------------------------
(* The loops implement HandlerLoop. *)

\* A handler that is gone has no receiver.
OffReadsNothing == \A p \in Players : stage[p] = "off" => room_rx[p] = NoChan

\* HandlerLoop's unread.
Waiting == {p \in Players : Unread(p)}

\* A step of handlers that leaves the manager, and what they have taken, alone.
LEMMA WaitingRests ==
    ASSUME UNCHANGED managerVars, taken' = taken PROVE Waiting' = Waiting
BY DEF managerVars, Waiting, Unread

\* As long as p keeps its receiver and takes nothing, its messages wait, and
\* without a receiver none does.
LEMMA UnreadStays ==
    ASSUME ActorAssumption, ManagerAssumption, WireInv, [ManagerNext]_managerVars,
           RecordsSource, NEW p \in Players, room_rx'[p] = room_rx[p], taken'[p] = taken[p],
           Unread(p)
    PROVE  Unread(p)'
<1>1. room_rx[p] # NoChan /\ room_rx[p] \in Chans
    BY DEF WireInv, ManagerInv, ManagerTyped, Unread
<1>2. Grows(sent[room_rx[p]], sent'[room_rx[p]])
    BY <1>1, ReceiverStays
<1>3. /\ sent[room_rx[p]] \in Seq(Messages) /\ sent'[room_rx[p]] \in Seq(Messages)
      /\ taken[p] \in Nat
    BY <1>1, WireBase DEF WireInv, WireTypeOK, ManagerInv, ManagerTyped, TypeOK
<1>4. QED
    BY <1>1, <1>2, <1>3 DEF Unread, Grows

\* A step that changes nobody's receiver, and for which nobody takes anything,
\* can only add messages to those of handlers that are there.
LEMMA MessagesCome ==
    ASSUME ActorAssumption, ManagerAssumption, WireInv, OffReadsNothing,
           [ManagerNext]_managerVars, RecordsSource, taken' = taken,
           UNCHANGED <<stage, due, lock>>,
           \A p \in Players : room_rx'[p] = room_rx[p]
    PROVE  Loop!RoomsSend
<1>1. Waiting \subseteq Waiting'
    BY UnreadStays DEF Waiting
<1>2. \A p \in Players : p \in Waiting' => stage[p] # "off"
    BY DEF Waiting, Unread, OffReadsNothing
<1>3. Waiting' \in SUBSET {p \in Players : stage[p] # "off"}
    BY <1>2 DEF Waiting
<1>4. Waiting' = Waiting \cup Waiting'
    BY <1>1
<1>5. QED
    BY <1>3, <1>4 DEF Loop!RoomsSend, Waiting

\* A step of p's handler that changes only its own receiver, and no channel.
LEMMA OnlyOwnWaiting ==
    ASSUME ActorAssumption, ManagerAssumption, WireInv, NEW p \in Players, HandlerStep(p),
           sent' = sent
    PROVE  /\ Waiting' \in {Waiting, Waiting \cup {p}, Waiting \ {p}}
           /\ ~Unread(p)' => Waiting' = Waiting \ {p}
<1>1. \A q \in Players \ {p} : Unread(q)' <=> Unread(q)
    BY OthersWait DEF Unread
<1>2. QED
    BY <1>1 DEF Waiting

\* A request that is granted or refused.
LEMMA GrantLoops ==
    ASSUME ActorAssumption, ManagerAssumption, WireInv, NEW p \in Players, Granted(p)
    PROVE  Loop!Granted(p)
<1>1. HandlerStep(p) /\ p \in Tasks /\ call \in [Tasks -> Calls] /\ taken \in [Players -> Nat]
    BY DEF HandlerStep, Busy, WireInv, WireTypeOK, ManagerInv, ManagerTyped, ManagerAssumption
<1>2. PlayerRequest(p) /\ stage[p] = "lock" /\ due' = due
    BY DEF Granted
<1>3. CASE LeaveRefused(p)
    <2>1. /\ call' = call /\ call[p] = Idle /\ lock = NoTask /\ lock' = lock
          /\ sent' = sent /\ room_rx'[p] = NoChan
        BY <1>3 DEF LeaveRefused, CloseChannels, WireInv, ManagerInv, ManagerTyped
    <2>2. Moves(p, "lock", "select")
        BY <2>1 DEF Granted
    <2>3. Waiting' = Waiting \ {p}
        BY <1>1, <2>1, OnlyOwnWaiting DEF Unread
    <2>4. QED
        BY <1>2, <2>1, <2>2, <2>3 DEF Loop!Granted, Loop!Moves, Moves, Waiting
<1>4. CASE ~LeaveRefused(p)
    <2>1. /\ lock = NoTask /\ lock' \in {p, NoTask} /\ UNCHANGED <<room_rx, sent>>
          /\ call'[p] # Idle
        BY <1>1, <1>2, <1>4 DEF PlayerRequest, JoinRoom, JoinOrCreate, LeaveRoom, RouteMessage,
           ListRooms, Begin, Locks, Idle, actorVars
    <2>2. Moves(p, "lock", "call") /\ taken' = taken
        BY <1>1, <2>1 DEF Granted, FollowsReceiver
    <2>3. Waiting' = Waiting
        BY <2>1, <2>2 DEF Waiting, Unread
    <2>4. QED
        BY <1>2, <2>1, <2>2, <2>3 DEF Loop!Granted, Loop!Moves, Moves, Waiting
<1>5. QED
    BY <1>3, <1>4

\* A call that goes on keeps the lock; one that returns gives it back, if it
\* is one that has it.
LEMMA CallKeepsLock ==
    ASSUME ManagerAssumption, ManagerInv, NEW t \in Tasks, Proceed(t)
    PROVE  /\ call'[t] # Idle => UNCHANGED <<lock, room_rx>>
           /\ call'[t] = Idle => /\ lock' = IF lock = t THEN NoTask ELSE lock
                                 /\ sent' = sent
<1>1. call \in [Tasks -> Calls] /\ (lock = t <=> Holds(t))
    BY DEF ManagerInv, ManagerTyped, Coherent, LockHeld
<1>2. call[t] \in Calls
    BY <1>1
<1>3. CASE \/ Send(t) \/ \E r \in Rooms : Probe(t, r) \/ MatchCreates(t, r)
           \/ ProbeReturns(t) \/ (t \in Players /\ MatchRetries(t))
    <2>1. UNCHANGED <<lock, room_rx>>
        BY <1>3 DEF Send, Probe, MatchCreates, ProbeReturns, MatchRetries
    <2>2. Send(t) => call'[t].at = "wait"
        BY <1>1, <1>2 DEF Send, Calls
    <2>3. ASSUME NEW r \in Rooms, Probe(t, r) PROVE call'[t].at = "probe"
        BY <1>1, <1>2, <2>3 DEF Probe, Calls
    <2>4. ASSUME NEW r \in Rooms, MatchCreates(t, r) PROVE call'[t].at = "send"
        BY <1>1, <1>2, <2>4 DEF MatchCreates, Calls
    <2>5. ProbeReturns(t) => call'[t].at \in {"send", "scan"}
        BY <1>1, <1>2 DEF ProbeReturns, Calls
    <2>6. MatchRetries(t) => call'[t].at = "scan"
        BY <1>1, <1>2 DEF MatchRetries, Calls
    <2>7. call'[t] # Idle
        BY <1>3, <2>2, <2>3, <2>4, <2>5, <2>6 DEF Idle
    <2>8. QED
        BY <2>1, <2>7
<1>4. CASE ListReturns(t)
    <2>1. call'[t] = Idle /\ ~Holds(t)
        BY <1>1, <1>4 DEF ListReturns, Holds
    <2>2. QED
        BY <1>1, <1>4, <2>1 DEF ListReturns, actorVars
<1>5. CASE \/ DestroyReturns(t)
           \/ t \in Players /\ (JoinSucceeds(t) \/ JoinFails(t) \/ LeaveReturns(t)
                                \/ RouteReturns(t))
    <2>1. Finish(t) /\ sent' = sent /\ Holds(t)
        BY <1>5 DEF DestroyReturns, JoinSucceeds, JoinFails, LeaveReturns, RouteReturns,
           TakeReply, Returns, Holds
    <2>2. QED
        BY <1>1, <2>1 DEF Finish
<1>6. QED
    BY <1>3, <1>4, <1>5 DEF Proceed

\* A call that goes on does nothing to the loops but what its room does.
LEMMA ContinueLoops ==
    ASSUME ActorAssumption, ManagerAssumption, WireInv, OffReadsNothing, RecordsSource,
           NEW p \in Players, Continue(p)
    PROVE  Loop!CallReturns(p) \/ Loop!RoomsSend
<1>1. /\ HandlerStep(p) /\ p \in Tasks /\ [ManagerNext]_managerVars
      /\ taken \in [Players -> Nat] /\ ManagerInv
    BY DEF HandlerStep, Busy, WireInv, WireTypeOK, ManagerAssumption, ManagerNext, Continue
<1>2. Proceed(p) /\ stage[p] = "call" /\ due' = due
    BY DEF Continue
<1>3. CASE call'[p] # Idle
    <2>1. UNCHANGED <<lock, room_rx>>
        BY <1>1, <1>2, <1>3, CallKeepsLock
    <2>2. stage' = stage /\ taken' = taken
        BY <1>1, <1>3, <2>1 DEF Continue, CallOver, FollowsReceiver
    <2>3. QED
        BY <1>1, <1>2, <2>1, <2>2, MessagesCome
<1>4. CASE call'[p] = Idle
    <2>1. lock' = (IF lock = p THEN NoTask ELSE lock) /\ sent' = sent
        BY <1>1, <1>2, <1>4, CallKeepsLock
    <2>2. \E to \in {"select", "send"} : Moves(p, "call", to)
        BY <1>4 DEF Continue, CallOver
    <2>3. Waiting' \in {Waiting, Waiting \cup {p}, Waiting \ {p}}
        BY <1>1, <2>1, OnlyOwnWaiting
    <2>4. QED
        BY <1>2, <2>1, <2>2, <2>3
        DEF Loop!CallReturns, Loop!Moves, Loop!Releases, Moves, Waiting
<1>5. QED
    BY <1>3, <1>4

\* A handler that returns takes what waits for it along.
LEMMA EndsLoop ==
    ASSUME ActorAssumption, ManagerAssumption, WireInv, NEW p \in Players,
           NEW from \in {"select", "send"}, Ends(p, from), HandlerStep(p)
    PROVE  Loop!Ends(p, from)
<1>1. sent' = sent /\ lock' = lock /\ room_rx'[p] = NoChan
    BY DEF Ends, HandlerExit, CloseChannels, managerVars, WireInv, ManagerInv, ManagerTyped
<1>2. Waiting' = Waiting \ {p}
    BY <1>1, OnlyOwnWaiting DEF Unread
<1>3. QED
    BY <1>1, <1>2 DEF Ends, Loop!Ends, Loop!Moves, Moves, Waiting

\* Every step of a handler is one of its loop, or of a room that sends.
LEMMA HandlerLoops ==
    ASSUME ActorAssumption, ManagerAssumption, WireInv, OffReadsNothing, RecordsSource,
           NEW p \in Players, HandlerStep(p)
    PROVE  Loop!LoopNext
<1>1. CASE \/ Connect(p) \/ Heartbeat(p) \/ GarbledGame(p) \/ Ignored(p) \/ Request(p)
           \/ Refused(p) \/ Sent(p) \/ IdleElapses(p)
    <2>1. UNCHANGED managerVars /\ taken' = taken
        BY <1>1 DEF Connect, Heartbeat, GarbledGame, Ignored, Request, Reads, Refused, Sent,
           IdleElapses
    <2>2. Waiting' = Waiting /\ lock' = lock
        BY <2>1, WaitingRests DEF managerVars
    <2>3. Connect(p) => Loop!Connect(p)
        BY <2>2 DEF Connect, Moves, Loop!Connect, Loop!Moves, Waiting
    <2>4. Heartbeat(p) \/ GarbledGame(p) \/ Ignored(p) \/ Request(p) => Loop!Reads(p)
        BY <2>2 DEF Heartbeat, GarbledGame, Ignored, Request, Reads, Moves, Loop!Reads,
           Loop!Moves, Waiting
    <2>5. Refused(p) => Loop!Refused(p)
        BY <2>2 DEF Refused, Moves, Loop!Refused, Loop!Moves, Waiting
    <2>6. Sent(p) => Loop!Sent(p)
        BY <2>2 DEF Sent, Moves, Loop!Sent, Loop!Moves, Waiting
    <2>7. IdleElapses(p) => Loop!IdleElapses(p)
        BY <2>2 DEF IdleElapses, Loop!IdleElapses, Waiting
    <2>8. QED
        BY <1>1, <2>3, <2>4, <2>5, <2>6, <2>7 DEF Loop!LoopNext
<1>2. CASE Deliver(p)
    <2>1. lock' = lock /\ sent' = sent /\ Unread(p) /\ due' = due
        BY <1>2 DEF Deliver, managerVars, clientVars
    <2>2. Waiting' \in {Waiting, Waiting \ {p}}
        BY <2>1, OnlyOwnWaiting DEF Waiting
    <2>3. p \in Waiting
        BY <2>1 DEF Waiting
    <2>4. Loop!Deliver(p)
        BY <1>2, <2>1, <2>2, <2>3 DEF Deliver, Moves, Loop!Deliver, Loop!Moves, Waiting
    <2>5. QED
        BY <2>4 DEF Loop!LoopNext
<1>3. CASE Closed(p) \/ SendFails(p) \/ Timeout(p)
    <2>1. Loop!Closed(p) \/ Loop!SendFails(p) \/ Loop!Timeout(p)
        BY <1>3, EndsLoop DEF Closed, SendFails, Timeout, Loop!Closed, Loop!SendFails,
           Loop!Timeout
    <2>2. QED
        BY <2>1 DEF Loop!LoopNext
<1>4. CASE Granted(p) \/ Continue(p)
    BY <1>4, GrantLoops, ContinueLoops DEF Loop!LoopNext
<1>5. QED
    BY <1>1, <1>2, <1>3, <1>4 DEF HandlerStep, Busy, Answers

\* Actors and application tasks send to the loops or hold the lock.
LEMMA OthersLoop ==
    ASSUME ActorAssumption, ManagerAssumption, WireInv, OffReadsNothing,
           RecordsSource, UNCHANGED <<stage, owed, taken, stream, due>>,
           \/ \E t \in Admins : Proceed(t)
           \/ \E t \in Admins, r \in Rooms : CreateRoom(t, r) \/ DestroyRoom(t, r)
           \/ \E r \in Rooms : RunActor(r)
    PROVE  Loop!LoopNext
<1>1. /\ [ManagerNext]_managerVars /\ Admins \subseteq Tasks /\ ManagerInv
      /\ \A q \in Players : room_rx'[q] = room_rx[q]
    BY ElsewhereRests DEF ManagerNext, ManagerAssumption, WireInv
<1>2. ASSUME lock' = lock PROVE Loop!LoopNext
    BY <1>1, <1>2, MessagesCome DEF Loop!LoopNext
<1>3. ASSUME NEW t \in Admins, sent' = sent,
             \/ lock = NoTask /\ lock' = t
             \/ lock = t /\ lock' = NoTask
      PROVE  Loop!LoopNext
    <2>1. Waiting' = Waiting
        BY <1>1, <1>3 DEF Waiting, Unread
    <2>2. Loop!AdminTakes(t) \/ Loop!AdminReturns(t)
        BY <1>3, <2>1 DEF Loop!AdminTakes, Loop!AdminReturns, Waiting
    <2>3. QED
        BY <2>2 DEF Loop!LoopNext
<1>4. ASSUME NEW t \in Admins, Proceed(t) PROVE Loop!LoopNext
    BY <1>1, <1>2, <1>3, <1>4, CallKeepsLock
<1>5. ASSUME NEW t \in Admins, NEW r \in Rooms, CreateRoom(t, r) PROVE Loop!LoopNext
    BY <1>2, <1>5 DEF CreateRoom
<1>6. ASSUME NEW t \in Admins, NEW r \in Rooms, DestroyRoom(t, r) PROVE Loop!LoopNext
    BY <1>3, <1>6 DEF DestroyRoom, Begin, Locks, actorVars
<1>7. ASSUME NEW r \in Rooms, RunActor(r) PROVE Loop!LoopNext
    BY <1>2, <1>7 DEF RunActor, mgrVars
<1>8. QED
    BY <1>4, <1>5, <1>6, <1>7

\* A handler has a receiver only while it is there.
LEMMA OffStep ==
    ASSUME ActorAssumption, ManagerAssumption, WireInv, OffReadsNothing, [WireNext]_wireVars
    PROVE  OffReadsNothing'
<1>1. CASE UNCHANGED wireVars
    BY <1>1 DEF wireVars, OffReadsNothing
<1>2. ASSUME NEW p \in Players, HandlerStep(p), NEW q \in Players, stage'[q] = "off"
      PROVE  room_rx'[q] = NoChan
    <2>1. CASE q # p
        BY <1>2, <2>1, OthersWait DEF OffReadsNothing
    <2>2. stage \in [Players -> Stages]
        BY DEF WireInv, WireTypeOK
    <2>3. CASE q = p
        <3>1. \E from \in {"select", "send"} : Ends(p, from)
            BY <1>2, <2>2, <2>3 DEF HandlerStep, Busy, Answers, Connect, Heartbeat,
               GarbledGame, Ignored, Request, Reads, Granted, Refused, Continue, CallOver,
               Sent, SendFails, Deliver, Closed, Timeout, IdleElapses, Moves, Stages
        <3>2. QED
            BY <2>3, <3>1 DEF Ends, HandlerExit, managerVars, WireInv, ManagerInv,
               ManagerTyped
    <2>4. QED
        BY <2>1, <2>3
<1>3. ASSUME NEW A, Elsewhere(A), NEW q \in Players, room_rx'[q] = room_rx[q],
             stage'[q] = "off"
      PROVE  room_rx'[q] = NoChan
    BY <1>3 DEF Elsewhere, OffReadsNothing
<1>4. QED
    BY <1>1, <1>2, <1>3, ElsewhereRests DEF WireNext, Elsewhere, OffReadsNothing

\* Whatever rooms, calls and tasks do, the loops do what HandlerLoop says.
THEOREM LoopImplemented == WireSpec => ImplementsLoop
<1>1. WireInit => Loop!LoopInit /\ OffReadsNothing
    BY DEF WireInit, ManagerInit, Loop!LoopInit, Unread, OffReadsNothing
<1>2. WireInv /\ OffReadsNothing /\ [WireNext]_wireVars => OffReadsNothing'
    BY OffStep, ActorAssumption, ManagerAssumption
<1>3. WireInv /\ OffReadsNothing /\ [WireNext]_wireVars => [Loop!LoopNext]_Loop!loopVars
    <2>1. ASSUME WireInv, OffReadsNothing, WireNext PROVE Loop!LoopNext
        BY <2>1, HandlerLoops, OthersLoop, ActorAssumption, ManagerAssumption
        DEF WireNext, Elsewhere
    <2>2. UNCHANGED wireVars => UNCHANGED Loop!loopVars
        BY DEF wireVars, Loop!loopVars, Unread
    <2>3. QED
        BY <2>1, <2>2
<1>4. QED
    BY <1>1, <1>2, <1>3, WireInvariant, PTL DEF WireSpec, ImplementsLoop, Loop!LoopSafe
=============================================================================
