-------------------------- MODULE RoomManagerProofs --------------------------
(* Theorems about RoomManager, for every value of its constants. *)
EXTENDS ManagerInvariant

-----------------------------------------------------------------------------
(* Actors run. *)

\* The command an actor handles, and what the invariant says of it.
LEMMA HandledCommand ==
    ASSUME ManagerInv, NEW r \in Rooms, queue[r] # <<>>
    PROVE  /\ 1 \in DOMAIN queue[r] /\ queue[r][1] = Head(queue[r])
           /\ Head(queue[r]) \in Commands /\ Head(queue[r]).task \in Tasks
           /\ PartOfCall(r, 1)
<1>1. TypeOK /\ CommandsMatch
    BY DEF ManagerInv, ManagerTyped, Coherent
<1>2. queue[r] \in Seq(Commands)
    BY <1>1 DEF TypeOK
<1>3. 1 \in DOMAIN queue[r] /\ queue[r][1] = Head(queue[r])
    BY <1>2
<1>4. Head(queue[r]) \in Commands /\ Head(queue[r]).task \in Tasks
    BY <1>1, <1>3, QueuedTyped
<1>5. PartOfCall(r, 1)
    BY <1>1, <1>3 DEF CommandsMatch
<1>6. QED
    BY <1>3, <1>4, <1>5

\* An actor takes the head of its queue and answers its sender: what is left
\* in the queues still belongs to the calls that sent it.
Consumes(r) ==
    /\ Live(r) /\ Live(r)' /\ queue[r] # <<>> /\ Head(queue[r]).op # "shutdown"
    /\ queue' = [queue EXCEPT ![r] = Tail(@)]
    /\ \A s \in Rooms \ {r} : phase'[s] = phase[s]
    /\ \A u \in Tasks : reply'[u] # reply[u] =>
           u = Head(queue[r]).task /\ Head(queue[r]).op \in AskOps
    /\ UNCHANGED mgrVars

\* The parts of the invariant a handled command cannot touch.
LEMMA ConsumesCoherent ==
    ASSUME ManagerInv, NEW r \in Rooms, Consumes(r)
    PROVE  /\ LockHeld' /\ CallsShaped' /\ RoomsSpawned' /\ IndexInMap'
           /\ CommandsMatch' /\ OneRequest' /\ DeadQuiet'
           /\ \A s \in Rooms : ShutdownSent(s) => ShutdownSent(s)'
<1> USE DEF ManagerInv, Coherent
<1> DEFINE cmd == Head(queue[r])
<1>1. /\ TypeOK /\ queue[r] \in Seq(Commands) /\ queue[r] # <<>>
      /\ queue'[r] = Tail(queue[r]) /\ \A s \in Rooms \ {r} : queue'[s] = queue[s]
    BY DEF Consumes, ManagerTyped, TypeOK
<1>2. UNCHANGED <<lock, rooms, player_rooms, room_rx, call>>
    BY DEF Consumes, mgrVars
<1>3. \A s \in Rooms : /\ Live(s)' <=> Live(s)
                       /\ phase'[s] = "Absent" <=> phase[s] = "Absent"
    BY DEF Consumes, Live
<1>4. \A s \in Rooms \ {r} : \A i \in DOMAIN queue'[s] :
          i \in DOMAIN queue[s] /\ queue'[s][i] = queue[s][i]
    BY <1>1
<1>5. \A i \in DOMAIN queue'[r] : i + 1 \in DOMAIN queue[r] /\ queue'[r][i] = queue[r][i + 1]
    BY <1>1, TailElement
<1>6. \A i \in DOMAIN queue'[r] : i + 1 # 1 /\ i \in Nat
    <2>1. Tail(queue[r]) \in Seq(Commands)
        BY <1>1
    <2>2. QED
        BY <1>1, <2>1
<1>7. LockHeld' /\ CallsShaped' /\ RoomsSpawned' /\ IndexInMap'
    <2>1. rooms \subseteq Rooms
        BY DEF ManagerTyped
    <2>2. CallsShaped'
        BY <1>2, <1>3 DEF CallsShaped, CallShape
    <2>3. QED
        BY <1>2, <1>3, <2>1, <2>2 DEF LockHeld, Holds, RoomsSpawned, IndexInMap
<1>8. CommandsMatch'
    <2>1. SUFFICES ASSUME NEW s \in Rooms, NEW i \in DOMAIN queue'[s]
                   PROVE  PartOfCall(s, i)'
        BY DEF CommandsMatch
    <2>2. PICK j \in DOMAIN queue[s] : queue'[s][i] = queue[s][j] /\ (s = r => j # 1)
        BY <1>4, <1>5, <1>6, <2>1
    <2>3. PartOfCall(s, j) /\ queue[s][j].task \in Tasks
        BY <1>1, QueuedTyped DEF CommandsMatch
    <2>4. PartOfCall(r, 1) /\ 1 \in DOMAIN queue[r] /\ queue[r][1] = cmd
        BY <1>1, HandledCommand
    <2>5. queue[s][j].op \in AskOps => reply'[queue[s][j].task] = reply[queue[s][j].task]
        <3>1. SUFFICES ASSUME queue[s][j].op \in AskOps, cmd.op \in AskOps,
                              cmd.task = queue[s][j].task
                       PROVE  FALSE
            BY <2>3 DEF Consumes
        <3>2. call[cmd.task].room = s /\ call[cmd.task].room = r
            BY <2>3, <2>4, <3>1 DEF PartOfCall, AskOps
        <3>3. QED
            BY <2>2, <2>4, <3>1, <3>2 DEF OneRequest
    <2>6. QED
        BY <1>2, <2>2, <2>3, <2>5 DEF PartOfCall
<1>9. OneRequest'
    <2>1. SUFFICES ASSUME NEW s \in Rooms, NEW i \in DOMAIN queue'[s], NEW j \in DOMAIN queue'[s],
                          queue'[s][i].op \in AskOps, queue'[s][j].op \in AskOps,
                          queue'[s][i].task = queue'[s][j].task
                   PROVE  i = j
        BY DEF OneRequest
    <2>2. CASE s = r
        <3>1. i + 1 = j + 1
            BY <1>5, <2>1, <2>2 DEF OneRequest
        <3>2. QED
            BY <1>6, <2>2, <3>1
    <2>3. CASE s # r
        BY <1>4, <2>1, <2>3 DEF OneRequest
    <2>4. QED
        BY <2>2, <2>3
<1>10. DeadQuiet'
    BY <1>1, <1>3 DEF DeadQuiet, Consumes
<1>11. ASSUME NEW s \in Rooms, ShutdownSent(s) PROVE ShutdownSent(s)'
    <2>1. CASE s # r
        BY <1>1, <1>11, <2>1 DEF ShutdownSent
    <2>2. CASE s = r
        <3>1. PICK i \in DOMAIN queue[r] : queue[r][i].op = "shutdown"
            BY <1>11, <2>2 DEF ShutdownSent
        <3>2. i # 1 /\ i \in 1..Len(queue[r]) /\ Len(queue[r]) \in Nat
            BY <1>1, <3>1, HandledCommand DEF Consumes
        <3>3. /\ i - 1 \in 1..(Len(queue[r]) - 1) /\ (i - 1) + 1 = i
              /\ DOMAIN queue'[r] = 1..(Len(queue[r]) - 1)
            BY <1>1, <3>2
        <3>4. queue'[r][i - 1] = queue[r][i]
            BY <1>5, <3>3
        <3>5. QED
            BY <2>2, <3>1, <3>3, <3>4 DEF ShutdownSent
    <2>3. QED
        BY <2>1, <2>2
<1>12. QED
    BY <1>7, <1>8, <1>9, <1>10, <1>11

\* handle_join: the player whose call is under way, and nobody else, becomes a
\* member, and the answer says whether it did.
LEMMA JoinHandled ==
    ASSUME ActorAssumption, ManagerAssumption, ManagerInv, NEW r \in Rooms,
           HandleJoin(r), UNCHANGED mgrVars
    PROVE  Coherent'
<1> USE DEF ManagerInv, Coherent
<1> DEFINE cmd == Head(queue[r])
<1>0. PICK p : p = cmd.player
    OBVIOUS
<1> DEFINE members == players[r] \cup {p}
           sn == [senders[r] EXCEPT ![p] = cmd.chan]
<1>1. /\ TypeOK /\ Receives(r, "join") /\ queue[r] # <<>> /\ cmd.op = "join"
      /\ phase \in [Rooms -> Phases] /\ players \in [Rooms -> SUBSET Players]
      /\ senders \in [Rooms -> [Players -> Chans \cup {NoChan}]]
      /\ reply \in [Tasks -> Results]
    BY DEF HandleJoin, Receives, ManagerTyped, TypeOK
<1>2. UNCHANGED <<lock, rooms, player_rooms, room_rx, call>>
    BY DEF mgrVars
<1>3. /\ p = cmd.task /\ p \in Tasks /\ cmd.chan = call[p].chan
      /\ call[p].op \in {"join", "match"} /\ call[p].at = "wait" /\ call[p].room = r
      /\ reply[p] = "pending"
    BY <1>0, <1>1, HandledCommand DEF PartOfCall, AskOps
<1>4. /\ p \in Players /\ r \in rooms /\ player_rooms[p] = NoRoom /\ NoRoom \notin Rooms
      /\ Players \subseteq Tasks /\ rooms \subseteq Rooms
    BY <1>3 DEF CallsShaped, CallShape, ManagerAssumption, ManagerTyped
<1>5. \A u \in Tasks \ {p} : call[u].op \in {"none", "list"}
    BY <1>3 DEF LockHeld, Holds, ManagerAssumption
<1>6. /\ reply'[p] = JoinResult(r, p) /\ \A u \in Tasks \ {p} : reply'[u] = reply[u]
      /\ phase'[r] \in {phase[r], "InProgress"}
      /\ \A s \in Rooms \ {r} : /\ phase'[s] = phase[s] /\ players'[s] = players[s]
                                /\ senders'[s] = senders[s]
      /\ \/ /\ JoinResult(r, p) # "ok"
            /\ phase' = phase /\ players'[r] = players[r] /\ senders'[r] = senders[r]
         \/ JoinResult(r, p) = "ok" /\ players'[r] = members /\ senders'[r] = sn
    <2>1. reply' = [reply EXCEPT ![p] = JoinResult(r, p)]
        BY <1>0, <1>3 DEF HandleJoin, Answer
    <2>2. \/ /\ JoinResult(r, p) # "ok"
             /\ UNCHANGED <<phase, players, senders>>
          \/ /\ JoinResult(r, p) = "ok"
             /\ players' = [players EXCEPT ![r] = members]
             /\ senders' = [senders EXCEPT ![r] = sn]
             /\ phase' \in {phase, [phase EXCEPT ![r] = "InProgress"]}
        BY <1>0 DEF HandleJoin
    <2>3. reply'[p] = JoinResult(r, p) /\ \A u \in Tasks \ {p} : reply'[u] = reply[u]
        BY <1>1, <1>3, <2>1
    <2>4. CASE JoinResult(r, p) # "ok" /\ UNCHANGED <<phase, players, senders>>
        BY <2>3, <2>4
    <2>5. CASE /\ JoinResult(r, p) = "ok"
               /\ players' = [players EXCEPT ![r] = members]
               /\ senders' = [senders EXCEPT ![r] = sn]
               /\ phase' \in {phase, [phase EXCEPT ![r] = "InProgress"]}
        BY <1>1, <2>3, <2>5
    <2>6. QED
        BY <2>2, <2>4, <2>5
<1>7. Consumes(r)
    BY <1>1, <1>3, <1>6 DEF Consumes, HandleJoin, Receives, Live, AskOps
<1>8. \A s \in Rooms : Live(s)' <=> Live(s)
    BY <1>6, <1>7 DEF Consumes, Live
<1>9. /\ \A q \in Players \ {p} : \A s \in Rooms : Belongs(q, s)' <=> Belongs(q, s)
      /\ \A s \in Rooms : ~Belongs(p, s)
      /\ \A s \in Rooms : Belongs(p, s)' <=> reply'[p] = "ok" /\ s = r
    <2>1. \A q \in Players \ {p} : \A s \in Rooms : Belongs(q, s)' <=> Belongs(q, s)
        BY <1>2, <1>4, <1>6 DEF Belongs, Answered, Returns
    <2>2. \A s \in Rooms : ~Belongs(p, s)
        BY <1>3, <1>4 DEF Belongs, Answered, Returns
    <2>3. \A s \in Rooms : Belongs(p, s)' <=> reply'[p] = "ok" /\ s = r
        BY <1>2, <1>3, <1>4 DEF Belongs, Answered, Returns
    <2>4. QED
        BY <2>1, <2>2, <2>3
<1>10. p \notin players[r]
    BY <1>1, <1>4, <1>9 DEF ActorsAgree, Receives
<1>11. ActorsAgree'
    <2>1. SUFFICES ASSUME NEW s \in rooms, Live(s), NEW q \in Players
                   PROVE  q \in players'[s] <=> Belongs(q, s)'
        BY <1>2, <1>4, <1>8 DEF ActorsAgree
    <2>2. q \in players[s] <=> Belongs(q, s)
        BY <2>1 DEF ActorsAgree
    <2>3. CASE s = r
        BY <1>4, <1>6, <1>9, <2>2, <2>3
    <2>4. CASE s # r
        BY <1>4, <1>6, <1>9, <2>2, <2>4
    <2>5. QED
        BY <2>3, <2>4
<1>12. Condemned'
    <2>1. \A s \in Rooms : ShutdownSent(s) => ShutdownSent(s)'
        BY <1>7, ConsumesCoherent
    <2>2. \A s \in Rooms \ rooms : players'[s] = players[s]
        BY <1>4, <1>6
    <2>3. QED
        BY <1>2, <1>8, <2>1, <2>2 DEF Condemned, Condemns
<1>13. ReceiverKnown'
    <2>1. SUFFICES ASSUME NEW s \in rooms, NEW q \in players'[s]
                   PROVE  senders'[s][q] = IF call[q].op \in {"join", "match"} THEN call[q].chan
                                           ELSE IF room_rx[q] = NoChan THEN senders'[s][q]
                                           ELSE room_rx[q]
        BY <1>2 DEF ReceiverKnown
    <2>2. CASE q \in players[s]
        <3>1. senders'[s][q] = senders[s][q]
            BY <1>1, <1>4, <1>6, <1>10, <2>2
        <3>2. QED
            BY <2>2, <3>1 DEF ReceiverKnown
    <2>3. CASE q \notin players[s]
        <3>1. s = r /\ q = p /\ senders'[r] = sn
            BY <1>4, <1>6, <2>1, <2>3
        <3>2. senders'[r][p] = call[p].chan
            BY <1>1, <1>3, <1>4, <3>1
        <3>3. QED
            BY <1>3, <3>1, <3>2
    <2>4. QED
        BY <2>2, <2>3
<1>14. call[p].op = "match" => JoinResult(r, p) = "ok"
    <2>1. SUFFICES ASSUME call[p].op = "match" PROVE JoinResult(r, p) = "ok"
        OBVIOUS
    <2>2. HasFound(p) /\ Live(call[p].room)
        BY <1>1, <1>3, <2>1 DEF HasFound, Receives
    <2>3. Info(r) = "open"
        BY <1>3, <1>4, <2>2 DEF MatchStands
    <2>4. IsJoinable(r) /\ Cardinality(players[r]) < MaxPlayers
        BY <2>3 DEF Info
    <2>5. ~(Cardinality(players[r]) >= MaxPlayers)
        BY <1>4, <2>4, MembersFinite DEF ActorAssumption, Slotted
    <2>6. QED
        BY <1>10, <2>4, <2>5 DEF JoinResult
<1>15. MatchStands'
    <2>1. JoinResult(r, p) # "pending"
        BY DEF JoinResult
    <2>2. \A q \in Players : ~HasFound(q)'
        BY <1>2, <1>3, <1>4, <1>5, <1>6, <2>1 DEF HasFound
    <2>3. \A q \in Players : Returns(q, {"match"})' => q = p
        BY <1>2, <1>4, <1>5 DEF Returns
    <2>4. QED
        BY <1>2, <1>6, <1>14, <2>2, <2>3 DEF MatchStands, Returns
<1>16. Scanned'
    <2>1. SUFFICES ASSUME NEW q \in Players, call[q].op = "match",
                          NEW s \in rooms, Live(s)', Info(s)' = "open"
                   PROVE  s \in call[q].todo \/ (s = call[q].room /\ Hopes(q)')
        BY <1>2 DEF Scanned
    <2>2. q = p
        BY <1>4, <1>5, <2>1
    <2>3. CASE s = r
        BY <1>2, <1>3, <1>6, <1>14, <2>1, <2>2, <2>3 DEF Hopes
    <2>4. CASE s # r
        <3>1. Live(s) /\ Info(s) = "open"
            BY <1>4, <1>6, <2>1, <2>4 DEF Live, Info, IsJoinable
        <3>2. QED
            BY <1>3, <2>1, <2>2, <2>4, <3>1 DEF Scanned
    <2>5. QED
        BY <2>3, <2>4
<1>17. QED
    BY <1>7, <1>11, <1>12, <1>13, <1>15, <1>16, ConsumesCoherent

\* handle_leave: the player whose call is under way is in the room and goes.
LEMMA LeaveHandled ==
    ASSUME ActorAssumption, ManagerAssumption, ManagerInv, NEW r \in Rooms,
           HandleLeave(r), UNCHANGED mgrVars
    PROVE  Coherent'
<1> USE DEF ManagerInv, Coherent
<1> DEFINE cmd == Head(queue[r])
<1>0. PICK p : p = cmd.player
    OBVIOUS
<1> DEFINE members == players[r] \ {p}
           sn == [senders[r] EXCEPT ![p] = NoChan]
<1>1. /\ TypeOK /\ Receives(r, "leave") /\ queue[r] # <<>> /\ cmd.op = "leave"
      /\ phase \in [Rooms -> Phases] /\ players \in [Rooms -> SUBSET Players]
      /\ senders \in [Rooms -> [Players -> Chans \cup {NoChan}]]
      /\ reply \in [Tasks -> Results]
    BY DEF HandleLeave, Receives, ManagerTyped, TypeOK
<1>2. UNCHANGED <<lock, rooms, player_rooms, room_rx, call>>
    BY DEF mgrVars
<1>3. /\ p = cmd.task /\ p \in Tasks
      /\ call[p].op = "leave" /\ call[p].at = "wait" /\ call[p].room = r
      /\ reply[p] = "pending"
    BY <1>0, <1>1, HandledCommand DEF PartOfCall, AskOps
<1>4. /\ p \in Players /\ r \in rooms /\ player_rooms[p] = r
      /\ Players \subseteq Tasks /\ rooms \subseteq Rooms
    BY <1>3 DEF CallsShaped, CallShape, ManagerAssumption, ManagerTyped
<1>5. \A u \in Tasks \ {p} : call[u].op \in {"none", "list"}
    BY <1>3 DEF LockHeld, Holds, ManagerAssumption
<1>6. Belongs(p, r) /\ p \in players[r]
    BY <1>1, <1>3, <1>4 DEF Belongs, Answered, ActorsAgree, Receives
<1>7. /\ reply'[p] = "ok" /\ \A u \in Tasks \ {p} : reply'[u] = reply[u]
      /\ players' = [players EXCEPT ![r] = members]
      /\ senders' = [senders EXCEPT ![r] = sn]
      /\ \/ IsActive(r) /\ RunGame(r, sn, members)
         \/ phase' = phase
    BY <1>0, <1>1, <1>3, <1>6 DEF HandleLeave, Answer
<1>8. phase'[r] \in {phase[r], "Finished"} /\ \A s \in Rooms \ {r} : phase'[s] = phase[s]
    BY <1>7, RunGameEffect DEF Slotted
<1>9. Consumes(r)
    BY <1>1, <1>3, <1>7, <1>8 DEF Consumes, HandleLeave, Receives, Live, AskOps
<1>10. \A s \in Rooms : Live(s)' <=> Live(s)
    BY <1>8, <1>9 DEF Consumes, Live
<1>11. /\ \A q \in Players \ {p} : \A s \in Rooms : Belongs(q, s)' <=> Belongs(q, s)
       /\ \A s \in Rooms : Belongs(p, s) <=> s = r
       /\ \A s \in Rooms : ~Belongs(p, s)'
    <2>1. \A q \in Players \ {p} : \A s \in Rooms : Belongs(q, s)' <=> Belongs(q, s)
        BY <1>2, <1>4, <1>7 DEF Belongs, Answered, Returns
    <2>2. \A s \in Rooms : Belongs(p, s) <=> s = r
        BY <1>3, <1>4 DEF Belongs, Answered, Returns
    <2>3. \A s \in Rooms : ~Belongs(p, s)'
        BY <1>2, <1>3, <1>4, <1>7 DEF Belongs, Answered, Returns
    <2>4. QED
        BY <2>1, <2>2, <2>3
<1>12. ActorsAgree'
    <2>1. SUFFICES ASSUME NEW s \in rooms, Live(s), NEW q \in Players
                   PROVE  q \in players'[s] <=> Belongs(q, s)'
        BY <1>2, <1>4, <1>10 DEF ActorsAgree
    <2>2. q \in players[s] <=> Belongs(q, s)
        BY <2>1 DEF ActorsAgree
    <2>3. players'[r] = members /\ (s # r => players'[s] = players[s])
        BY <1>1, <1>4, <1>7
    <2>4. QED
        BY <1>4, <1>11, <2>2, <2>3
<1>13. Condemned'
    <2>1. \A s \in Rooms : ShutdownSent(s) => ShutdownSent(s)'
        BY <1>9, ConsumesCoherent
    <2>2. \A s \in Rooms \ rooms : players'[s] = players[s]
        BY <1>1, <1>4, <1>7
    <2>3. QED
        BY <1>2, <1>10, <2>1, <2>2 DEF Condemned, Condemns
<1>14. ReceiverKnown'
    <2>1. SUFFICES ASSUME NEW s \in rooms, NEW q \in players'[s]
                   PROVE  q \in players[s] /\ senders'[s][q] = senders[s][q]
        BY <1>2 DEF ReceiverKnown
    <2>2. QED
        BY <1>1, <1>4, <1>7, <2>1
<1>15. \A q \in Players : call[q].op # "match"
    BY <1>3, <1>4, <1>5
<1>16. MatchStands' /\ Scanned'
    BY <1>2, <1>15 DEF MatchStands, Scanned, HasFound, Returns
<1>17. QED
    BY <1>9, <1>12, <1>13, <1>14, <1>16, ConsumesCoherent

\* handle_message and a request for the room's info change no membership; a
\* room that was not open does not open, and the answer is what it is now.
LEMMA MessageHandled ==
    ASSUME ActorAssumption, ManagerAssumption, ManagerInv, NEW r \in Rooms,
           HandleMessage(r), UNCHANGED mgrVars
    PROVE  Coherent'
<1> USE DEF ManagerInv, Coherent
<1>1. /\ TypeOK /\ Receives(r, "message") /\ queue[r] # <<>>
      /\ Head(queue[r]).op = "message" /\ phase \in [Rooms -> Phases]
    BY DEF HandleMessage, Receives, ManagerTyped, TypeOK
<1>2. UNCHANGED <<lock, rooms, player_rooms, room_rx, call, players, senders, reply>>
    BY DEF mgrVars, HandleMessage
<1>3. \/ phase' = phase
      \/ /\ phase[r] \in {"InProgress", "Finished"}
         /\ phase'[r] \in {phase[r], "Finished"}
         /\ \A s \in Rooms \ {r} : phase'[s] = phase[s]
    BY RunGameEffect DEF HandleMessage, MessageReachesGame, Slotted, SlotDiscipline, SlotsOf
<1>4. Consumes(r)
    BY <1>1, <1>2, <1>3 DEF Consumes, HandleMessage, Receives, Live
<1>5. \A s \in Rooms : /\ Live(s)' <=> Live(s)
                       /\ Info(s)' = Info(s)
    BY <1>2, <1>3 DEF Live, Info, IsJoinable
<1>6. ActorsAgree' /\ ReceiverKnown'
    BY <1>2, <1>5 DEF ActorsAgree, ReceiverKnown, Belongs, Answered, Returns, ManagerTyped
<1>7. Condemned'
    <2>1. \A s \in Rooms : ShutdownSent(s) => ShutdownSent(s)'
        BY <1>4, ConsumesCoherent
    <2>2. QED
        BY <1>2, <1>5, <2>1 DEF Condemned, Condemns
<1>8. MatchStands'
    <2>1. SUFFICES ASSUME NEW p \in Players, NEW s, s = call[p].room, HasFound(p), Live(s)'
                   PROVE  Info(s)' = "open"
        BY <1>2 DEF MatchStands, HasFound, Returns, Live, Info, IsJoinable
    <2>2. s \in Rooms
        BY <2>1 DEF HasFound, CallsShaped, CallShape, ManagerTyped, ManagerAssumption
    <2>3. QED
        BY <1>5, <2>1, <2>2 DEF MatchStands
<1>9. Scanned'
    BY <1>2, <1>5 DEF Scanned, Hopes, HasFound, ManagerTyped
<1>10. QED
    BY <1>4, <1>6, <1>7, <1>8, <1>9, ConsumesCoherent

\* A request for the room's info is answered with what is true of it.
LEMMA InfoHandled ==
    ASSUME ActorAssumption, ManagerAssumption, ManagerInv, NEW r \in Rooms,
           HandleInfo(r), UNCHANGED mgrVars
    PROVE  Coherent'
<1> USE DEF ManagerInv, Coherent
<1> DEFINE t == Head(queue[r]).task
<1>1. /\ TypeOK /\ Receives(r, "info") /\ queue[r] # <<>>
      /\ Head(queue[r]).op = "info" /\ reply \in [Tasks -> Results]
    BY DEF HandleInfo, Receives, ManagerTyped, TypeOK
<1>2. UNCHANGED <<lock, rooms, player_rooms, room_rx, call, phase, players, senders>>
    BY DEF mgrVars, HandleInfo
<1>3. t \in Tasks /\ call[t].at = "probe" /\ call[t].room = r /\ reply[t] = "pending"
    BY <1>1, HandledCommand DEF PartOfCall, AskOps
<1>4. reply'[t] = Info(r) /\ \A u \in Tasks \ {t} : reply'[u] = reply[u]
    BY <1>1, <1>3 DEF HandleInfo, Answer
<1>5. Consumes(r)
    BY <1>1, <1>2, <1>4 DEF Consumes, HandleInfo, Receives, Live, AskOps
<1>6. Players \subseteq Tasks
    BY DEF ManagerAssumption
<1>7. \A s \in Rooms : (Live(s)' <=> Live(s)) /\ Info(s)' = Info(s)
    BY <1>2 DEF Live, Info, IsJoinable
<1>8. \A p \in Players, s \in Rooms : Belongs(p, s)' <=> Belongs(p, s)
    BY <1>2, <1>3, <1>4, <1>6 DEF Belongs, Answered, Returns
<1>9. ActorsAgree' /\ ReceiverKnown'
    BY <1>2, <1>7, <1>8 DEF ActorsAgree, ReceiverKnown, ManagerTyped
<1>10. Condemned'
    <2>1. \A s \in Rooms : ShutdownSent(s) => ShutdownSent(s)'
        BY <1>5, ConsumesCoherent
    <2>2. QED
        BY <1>2, <1>7, <2>1 DEF Condemned, Condemns
<1>11. MatchStands'
    <2>1. SUFFICES ASSUME NEW p \in Players
                   PROVE  /\ HasFound(p)' /\ Live(call[p].room) => Info(call[p].room) = "open"
                          /\ Returns(p, {"match"}) => reply'[p] \in {"pending", "ok", "unavailable"}
        BY <1>2 DEF MatchStands, Returns, Live, Info, IsJoinable
    <2>2. CASE p = t
        BY <1>2, <1>3, <1>4, <2>2 DEF HasFound, Returns
    <2>3. CASE p # t
        BY <1>2, <1>4, <1>6, <2>3 DEF MatchStands, HasFound, Returns
    <2>4. QED
        BY <2>2, <2>3
<1>12. Scanned'
    <2>1. SUFFICES ASSUME NEW p \in Players, call[p].op = "match",
                          NEW s \in rooms, Live(s), Info(s) = "open"
                   PROVE  s \in call[p].todo \/ (s = call[p].room /\ Hopes(p)')
        BY <1>2 DEF Scanned, Live, Info, IsJoinable
    <2>2. s \in call[p].todo \/ (s = call[p].room /\ Hopes(p))
        BY <2>1 DEF Scanned
    <2>3. CASE p = t /\ s = call[p].room
        BY <1>2, <1>3, <1>4, <2>1, <2>3 DEF Hopes, HasFound
    <2>4. CASE p # t
        BY <1>2, <1>4, <1>6, <2>2, <2>4 DEF Hopes, HasFound
    <2>5. QED
        BY <2>2, <2>3, <2>4
<1>13. QED
    BY <1>5, <1>9, <1>10, <1>11, <1>12, ConsumesCoherent

\* An actor dies, and with it the members and the commands of its room; those
\* who waited for it are told.
LEMMA DeathCoherent ==
    ASSUME ActorAssumption, ManagerAssumption, ManagerInv, NEW r \in Rooms,
           NEW how \in {"Destroying", "Panicked"}, Live(r), Die(r, how),
           UNCHANGED mgrVars
    PROVE  Coherent'
<1> USE DEF ManagerInv, Coherent
<1> DEFINE Asked(u) == \E i \in DOMAIN queue[r] :
                           queue[r][i].task = u /\ queue[r][i].op \in AskOps
<1>1. /\ TypeOK /\ Players \subseteq Tasks /\ rooms \subseteq Rooms
      /\ UNCHANGED <<lock, rooms, player_rooms, room_rx, call>>
    BY DEF ManagerTyped, ManagerAssumption, mgrVars
<1>2. /\ phase'[r] = how /\ players'[r] = {} /\ queue'[r] = <<>>
      /\ \A s \in Rooms \ {r} : /\ phase'[s] = phase[s] /\ players'[s] = players[s]
                                /\ senders'[s] = senders[s] /\ queue'[s] = queue[s]
      /\ \A u \in Tasks : reply'[u] = IF Asked(u) THEN "unavailable" ELSE reply[u]
    BY <1>1 DEF Die, TypeOK
<1>3. \A u \in Tasks : Asked(u) =>
          /\ reply[u] = "pending" /\ call[u].room = r
          /\ call[u].at \in {"wait", "probe"}
    BY <1>1 DEF CommandsMatch, PartOfCall, AskOps
<1> HIDE DEF Asked
<1>4. ~Live(r)' /\ \A s \in Rooms \ {r} : (Live(s)' <=> Live(s)) /\ Info(s)' = Info(s)
    BY <1>2 DEF Live, Info, IsJoinable
<1>5. LockHeld' /\ CallsShaped' /\ RoomsSpawned' /\ IndexInMap'
    <2>1. CallsShaped'
        BY <1>1, <1>2 DEF CallsShaped, CallShape
    <2>2. QED
        BY <1>1, <1>2, <2>1 DEF LockHeld, Holds, RoomsSpawned, IndexInMap
<1>6. CommandsMatch'
    <2>1. SUFFICES ASSUME NEW s \in Rooms \ {r}, NEW i \in DOMAIN queue[s]
                   PROVE  PartOfCall(s, i)'
        BY <1>2 DEF CommandsMatch
    <2>2. PartOfCall(s, i) /\ queue[s][i].task \in Tasks /\ queue'[s] = queue[s]
        BY <1>1, <1>2, QueuedTyped DEF CommandsMatch
    <2>3. queue[s][i].op \in AskOps => ~Asked(queue[s][i].task)
        BY <1>3, <2>2 DEF PartOfCall, AskOps
    <2>4. QED
        BY <1>1, <1>2, <2>2, <2>3 DEF PartOfCall
<1>7. OneRequest' /\ DeadQuiet'
    BY <1>2, <1>4 DEF OneRequest, DeadQuiet
<1>8. \A p \in Players, s \in Rooms : Belongs(p, s)' <=> Belongs(p, s)
    BY <1>1, <1>2, <1>3 DEF Belongs, Answered, Returns
<1>9. ActorsAgree'
    BY <1>1, <1>2, <1>4, <1>8 DEF ActorsAgree
<1>10. Condemned'
    BY <1>1, <1>2, <1>4 DEF Condemned, Condemns, ShutdownSent
<1>11. ReceiverKnown'
    BY <1>1, <1>2 DEF ReceiverKnown
<1>12. \A p \in Players : HasFound(p)' => HasFound(p)
    BY <1>1, <1>2, <1>3 DEF HasFound
<1>13. MatchStands'
    <2>1. SUFFICES ASSUME NEW p \in Players, NEW s, s = call[p].room
                   PROVE  /\ HasFound(p) /\ Live(s)' => Info(s)' = "open"
                          /\ Returns(p, {"match"}) => reply'[p] \in {"pending", "ok", "unavailable"}
        BY <1>1, <1>12 DEF MatchStands, Returns, Live, Info, IsJoinable
    <2>2. HasFound(p) => s \in Rooms
        BY <1>1, <2>1 DEF HasFound, CallsShaped, CallShape
    <2>3. HasFound(p) /\ Live(s)' => Info(s)' = "open"
        BY <1>4, <2>1, <2>2 DEF MatchStands
    <2>4. QED
        BY <1>1, <1>2, <2>3 DEF MatchStands
<1>14. Scanned'
    <2>1. SUFFICES ASSUME NEW p \in Players, call[p].op = "match",
                          NEW s \in rooms, Live(s)', Info(s)' = "open"
                   PROVE  s \in call[p].todo \/ (s = call[p].room /\ Hopes(p)')
        BY <1>1 DEF Scanned
    <2>2. s # r /\ Live(s) /\ Info(s) = "open"
        BY <1>1, <1>4, <2>1
    <2>3. s \in call[p].todo \/ (s = call[p].room /\ Hopes(p))
        BY <2>1, <2>2 DEF Scanned
    <2>4. CASE Asked(p)
        BY <1>1, <1>3, <2>2, <2>3, <2>4
    <2>5. CASE ~Asked(p)
        BY <1>1, <1>2, <2>3, <2>5 DEF Hopes, HasFound
    <2>6. QED
        BY <2>4, <2>5
<1>15. QED
    BY <1>5, <1>6, <1>7, <1>9, <1>10, <1>11, <1>13, <1>14

-----------------------------------------------------------------------------
(* The invariant holds, and what follows from it. *)

\* Nobody calls, no room is spawned: the invariant holds.
LEMMA ManagerInvInit ==
    ASSUME ActorAssumption, ManagerAssumption, ManagerInit PROVE ManagerInv
<1>1. /\ call = [t \in Tasks |-> Idle] /\ rooms = {} /\ lock = NoTask
      /\ \A r \in Rooms : phase[r] = "Absent" /\ queue[r] = <<>> /\ players[r] = {}
      /\ \A p \in Players : player_rooms[p] = NoRoom
      /\ Players \subseteq Tasks
    BY DEF ManagerInit, ActorInit, ManagerAssumption
<1>2. Slotted
    BY TypedInit, SlotsInit DEF ManagerInit, Slotted
<1>3. ManagerTyped
    BY <1>2, IdleTyped DEF ManagerInit, ManagerTyped, Slotted, Typed
<1>4. LockHeld /\ CallsShaped
    BY <1>1 DEF LockHeld, Holds, CallsShaped, CallShape, Idle, ManagerAssumption
<1>5. RoomsSpawned /\ IndexInMap /\ CommandsMatch /\ OneRequest /\ DeadQuiet
    BY <1>1 DEF RoomsSpawned, IndexInMap, CommandsMatch, OneRequest, DeadQuiet
<1>6. ActorsAgree /\ Condemned /\ ReceiverKnown
    BY <1>1 DEF ActorsAgree, Condemned, ReceiverKnown, Live
<1>7. MatchStands /\ Scanned
    BY <1>1 DEF MatchStands, Scanned, HasFound, Returns, Idle
<1>8. QED
    BY <1>2, <1>3, <1>4, <1>5, <1>6, <1>7 DEF ManagerInv, Coherent

\* Every step keeps the invariant.
LEMMA ManagerInvStep ==
    ASSUME ActorAssumption, ManagerAssumption, ManagerInv, [ManagerNext]_managerVars
    PROVE  ManagerInv'
<1>1. ManagerTyped' /\ Slotted'
    BY ManagerTypedStep DEF ManagerInv, Coherent
<1>2. ASSUME NEW p \in Players, PlayerCall(p) PROVE Coherent'
    BY <1>2, PlayerBegins, DropsReceiver DEF PlayerCall, PlayerRequest
<1>3. ASSUME NEW t \in Admins, NEW r \in Rooms, CreateRoom(t, r) \/ DestroyRoom(t, r)
      PROVE  Coherent'
    BY <1>3, RoomAppears, DestroyBegins DEF ManagerAssumption
<1>4. ASSUME NEW t \in Tasks, Proceed(t) PROVE Coherent'
    <2>1. ASSUME NEW r \in Rooms, Probe(t, r) \/ (t \in Players /\ MatchCreates(t, r))
          PROVE  Coherent'
        BY <2>1, ProbeCoherent, RoomAppears
    <2>2. CASE Send(t) \/ ListReturns(t) \/ DestroyReturns(t)
        BY <2>2, SendCoherent, ListEnds, DestroyEnds
    <2>3. CASE ProbeReturns(t) \/ (t \in Players /\ MatchRetries(t))
        BY <2>3, SearchGoesOn
    <2>4. CASE /\ t \in Players
               /\ JoinSucceeds(t) \/ JoinFails(t) \/ LeaveReturns(t) \/ RouteReturns(t)
        BY <2>4, JoinReturns, LeaveOrRouteReturns
    <2>5. QED
        BY <1>4, <2>1, <2>2, <2>3, <2>4 DEF Proceed
<1>5. ASSUME NEW r \in Rooms, RunActor(r) PROVE Coherent'
    <2>1. UNCHANGED mgrVars
        BY <1>5 DEF RunActor
    <2>2. CASE HandleShutdown(r)
        BY <2>1, <2>2, DeathCoherent DEF HandleShutdown, Receives
    <2>3. CASE Panic(r)
        BY <2>1, <2>3, DeathCoherent DEF Panic, RunsGame, Receives
    <2>4. QED
        BY <1>5, <2>1, <2>2, <2>3, JoinHandled, LeaveHandled, MessageHandled, InfoHandled
        DEF RunActor, ActorStep
<1>6. ASSUME UNCHANGED managerVars PROVE Coherent'
    <2> USE DEF ManagerInv, Coherent
    <2>1. UNCHANGED <<phase, players, senders, queue, reply,
                      lock, rooms, player_rooms, room_rx, call>>
        BY <1>6 DEF managerVars
    <2>2. LockHeld' /\ CallsShaped' /\ RoomsSpawned' /\ IndexInMap'
        BY <2>1 DEF LockHeld, CallsShaped, RoomsSpawned, IndexInMap, CallShape, Holds
    <2>3. CommandsMatch'
        BY <2>1 DEF CommandsMatch, PartOfCall
    <2>4. OneRequest' /\ DeadQuiet'
        BY <2>1 DEF OneRequest, DeadQuiet, Live
    <2>5. ActorsAgree' /\ Condemned' /\ ReceiverKnown'
        BY <2>1 DEF ActorsAgree, Condemned, ReceiverKnown, Belongs, Answered, Returns,
                    Live, ShutdownSent, Condemns
    <2>6. MatchStands' /\ Scanned'
        BY <2>1 DEF MatchStands, Scanned, HasFound, Hopes, Returns, Live, Info, IsJoinable
    <2>7. QED
        BY <2>2, <2>3, <2>4, <2>5, <2>6
<1>7. Coherent'
    BY <1>2, <1>3, <1>4, <1>5, <1>6 DEF ManagerNext
<1>8. QED
    BY <1>1, <1>7 DEF ManagerInv

\* The inductive invariant of the manager, its callers and the actors.
THEOREM ManagerInvariant == ManagerSpec => []ManagerInv
<1>1. ManagerInit => ManagerInv
    BY ActorAssumption, ManagerAssumption, ManagerInvInit
<1>2. ManagerInv /\ [ManagerNext]_managerVars => ManagerInv'
    BY ActorAssumption, ManagerAssumption, ManagerInvStep
<1>3. QED
    BY <1>1, <1>2, PTL DEF ManagerSpec

\* Every variable of the manager and the actors it uses keeps its type.
THEOREM ManagerTypeCorrect == ManagerSpec => []ManagerTypeOK
<1>1. ManagerInv => ManagerTypeOK
    BY DEF ManagerInv, ManagerTypeOK, Coherent, LockHeld
<1>2. QED
    BY <1>1, ManagerInvariant, PTL

\* The rooms the manager's callers drive are the rooms RoomActor is about: its
\* safety properties are theirs.
THEOREM ManagerDrivesActors == ManagerSpec => ActorInit /\ [][ActorNext]_actorVars
<1>1. ManagerInv /\ [ManagerNext]_managerVars => [ActorNext]_actorVars
    BY ManagerAssumption, ManagerActs DEF ManagerInv, Coherent
<1>2. ManagerInit => ActorInit
    BY DEF ManagerInit
<1>3. QED
    BY <1>1, <1>2, ManagerInvariant, PTL DEF ManagerSpec

\* While p does not hold the lock, it belongs where the index says.
LEMMA SettledBelongs ==
    ASSUME ManagerAssumption, ManagerInv, NEW p \in Players, lock # p
    PROVE  /\ call[p].op \in {"none", "list"}
           /\ \A r : Belongs(p, r) <=> player_rooms[p] = r
<1>1. p \in Tasks
    BY DEF ManagerAssumption
<1>2. call[p].op \in {"none", "list"}
    BY <1>1 DEF ManagerInv, Coherent, LockHeld, Holds
<1>3. QED
    BY <1>2 DEF Belongs, Answered, Returns

\* What IndexAgrees says is ActorsAgree and IndexInMap outside a call.
LEMMA InvImpliesIndex ==
    ASSUME ManagerAssumption, ManagerInv PROVE IndexAgrees
<1>1. ASSUME NEW p \in Players, NEW r \in rooms, Live(r), lock # p
      PROVE  p \in players[r] <=> player_rooms[p] = r
    BY <1>1, SettledBelongs DEF ManagerInv, Coherent, ActorsAgree
<1>2. ASSUME lock = NoTask, NEW p \in Players
      PROVE  player_rooms[p] \in rooms \cup {NoRoom}
    BY <1>2 DEF ManagerInv, Coherent, IndexInMap, LockHeld, Holds, ManagerAssumption
<1>3. QED
    BY <1>1, <1>2 DEF IndexAgrees

\* The index and the actors agree, for any number of rooms, players and tasks
\* and any capacity of the rooms' channels: outside the lock always, and about
\* everybody but the holder's own player even while a call is under way.
THEOREM IndexCorrect == ManagerSpec => []IndexAgrees
<1>1. ManagerInv => IndexAgrees
    BY ManagerAssumption, InvImpliesIndex
<1>2. QED
    BY <1>1, ManagerInvariant, PTL

\* Two rooms that have p cannot both be in the map, and of those out of it only
\* the one whose destruction has just begun has not got its Shutdown.
LEMMA InvImpliesOneRoom ==
    ASSUME ManagerAssumption, ManagerInv PROVE OneRoom
<1> USE DEF ManagerInv, Coherent
<1>1. SUFFICES ASSUME NEW p \in Players, NEW r \in Rooms, NEW s \in Rooms,
                      r # s, p \in players[r], p \in players[s]
               PROVE  \E d \in {r, s} \ rooms : ShutdownSent(d)
    BY DEF OneRoom, ShutdownSent
<1>2. /\ Live(r) /\ Live(s) /\ rooms \subseteq Rooms /\ p \in Tasks
      /\ Players \cap Admins = {} /\ NoRoom \notin Rooms
    BY <1>1 DEF Slotted, SlotDiscipline, SlotsOf, ManagerTyped, ManagerAssumption
<1>3. ASSUME NEW a \in {r, s} \ rooms, ~ShutdownSent(a)
      PROVE  \E t \in Admins : /\ Condemns(t, a) /\ lock = t
                               /\ player_rooms[p] = a
    <2>1. PICK t \in Tasks : Condemns(t, a) /\ player_rooms[p] = a
        BY <1>1, <1>2, <1>3 DEF Condemned
    <2>2. CallShape(t) /\ Holds(t)
        BY <2>1 DEF Condemns, Holds, CallsShaped
    <2>3. QED
        BY <2>1, <2>2 DEF CallShape, Condemns, LockHeld
<1>4. ASSUME NEW a \in {r, s} \cap rooms PROVE Belongs(p, a)
    BY <1>1, <1>2, <1>4 DEF ActorsAgree
<1>5. CASE r \in rooms /\ s \in rooms
    <2>1. Belongs(p, r) /\ Belongs(p, s)
        BY <1>4, <1>5
    <2>2. CallShape(p)
        BY <1>2 DEF CallsShaped
    <2>3. QED
        BY <1>1, <1>2, <2>1, <2>2 DEF Belongs, Answered, Returns, CallShape
<1>6. ASSUME NEW a \in {r, s} \ rooms, NEW b \in {r, s} \cap rooms, ~ShutdownSent(a)
      PROVE  FALSE
    <2>1. PICK t \in Admins : lock = t /\ player_rooms[p] = a
        BY <1>3, <1>6
    <2>2. player_rooms[p] = b
        BY <1>2, <1>4, <1>6, <2>1, SettledBelongs
    <2>3. QED
        BY <1>6, <2>1, <2>2
<1>7. CASE r \notin rooms /\ s \notin rooms
    BY <1>1, <1>3, <1>7
<1>8. QED
    BY <1>5, <1>6, <1>7

\* A player is in at most one running room, counting even actors that are out
\* of the map, but for a room that is about to get its Shutdown.
THEOREM OneRoomCorrect == ManagerSpec => []OneRoom
<1>1. ManagerInv => OneRoom
    BY ManagerAssumption, InvImpliesOneRoom
<1>2. QED
    BY <1>1, ManagerInvariant, PTL

\* Senders and members go together, and the receiver is the sender's.
LEMMA InvImpliesWired ==
    ASSUME ManagerAssumption, ManagerInv PROVE WiredToOwnRoom
<1> USE DEF ManagerInv, Coherent
<1>1. SUFFICES ASSUME NEW p \in Players, NEW r \in rooms, Live(r), lock # p,
                      room_rx[p] # NoChan
               PROVE  player_rooms[p] = r <=> senders[r][p] = room_rx[p]
    BY DEF WiredToOwnRoom
<1>2. p \in players[r] <=> player_rooms[p] = r
    BY <1>1, SettledBelongs DEF ActorsAgree
<1>3. p \in players[r] <=> senders[r][p] # NoChan
    BY <1>1 DEF ManagerTyped, Slotted, SlotDiscipline, SlotsOf
<1>4. p \in players[r] => senders[r][p] = room_rx[p]
    BY <1>1, SettledBelongs DEF ReceiverKnown
<1>5. QED
    BY <1>1, <1>2, <1>3, <1>4

\* A handler with a receiver reads the room its player is in and no other: a
\* sender that is left behind in an actor never leads to it.
THEOREM WiringCorrect == ManagerSpec => []WiredToOwnRoom
<1>1. ManagerInv => WiredToOwnRoom
    BY ManagerAssumption, InvImpliesWired
<1>2. QED
    BY <1>1, ManagerInvariant, PTL

\* Under the lock, a room that was open when join_or_create asked it takes the
\* player or is dead: the retry is for dead rooms only.
THEOREM ProbeCorrect == ManagerSpec => []ProbeStaysValid
<1>1. ManagerInv => ProbeStaysValid
    BY DEF ManagerInv, Coherent, MatchStands, ProbeStaysValid
<1>2. QED
    BY <1>1, ManagerInvariant, PTL

\* A match turns into a join only where join_or_create makes a room.
LEMMA OnlyCreationEndsSearch ==
    ASSUME ManagerAssumption, ManagerInv, ManagerNext,
           NEW p \in Players, call[p].op = "match", call'[p].op = "join"
    PROVE  \E r \in Rooms : MatchCreates(p, r)
<1>1. call \in [Tasks -> Calls] /\ p \in Tasks /\ Idle.op = "none"
    BY DEF ManagerInv, ManagerTyped, ManagerAssumption, Idle
<1>2. ASSUME NEW t \in Tasks, Proceed(t) PROVE \E r \in Rooms : MatchCreates(p, r)
    <2>1. CASE t = p
        <3>1. CASE \/ Send(p) \/ (\E r \in Rooms : Probe(p, r)) \/ ProbeReturns(p)
                   \/ MatchRetries(p)
            <4>1. CASE Send(p)
                BY <1>1, <4>1 DEF Send, Calls
            <4>2. ASSUME NEW r \in Rooms, Probe(p, r) PROVE call'[p].op = call[p].op
                BY <1>1, <4>2 DEF Probe, Calls
            <4>3. ASSUME ProbeReturns(p) \/ MatchRetries(p) PROVE call'[p].op = call[p].op
                BY <1>1, <4>3 DEF ProbeReturns, MatchRetries, Calls
            <4>4. QED
                BY <3>1, <4>1, <4>2, <4>3
        <3>2. CASE \/ ListReturns(p) \/ DestroyReturns(p) \/ JoinSucceeds(p)
                   \/ JoinFails(p) \/ LeaveReturns(p) \/ RouteReturns(p)
            BY <1>1, <3>2 DEF ListReturns, DestroyReturns, JoinSucceeds, JoinFails,
                              LeaveReturns, RouteReturns, Finish
        <3>3. QED
            BY <1>2, <2>1, <3>1, <3>2 DEF Proceed
    <2>2. CASE t # p
        <3>1. call'[p] = call[p]
            BY <1>1, <1>2, <2>2
            DEF Proceed, Send, Probe, ProbeReturns, MatchRetries, MatchCreates, ListReturns,
                DestroyReturns, JoinSucceeds, JoinFails, LeaveReturns, RouteReturns, Finish
        <3>2. QED
            BY <3>1
    <2>3. QED
        BY <2>1, <2>2
<1>3. ASSUME NEW q \in Players, PlayerCall(q) PROVE FALSE
    <2>1. q \in Tasks
        BY DEF ManagerAssumption
    <2>2. CASE LeaveRefused(q) \/ HandlerExit(q)
        BY <2>2 DEF LeaveRefused, HandlerExit
    <2>3. PICK op, at, r, ch, todo : op # "none" /\ Begin(q, op, at, r, ch, todo)
        BY <1>3, <2>2 DEF PlayerCall, PlayerRequest, JoinRoom, JoinOrCreate, LeaveRoom,
                          RouteMessage, ListRooms
    <2>4. call[q] = Idle /\ call' = [call EXCEPT ![q] = [op |-> op, at |-> at, room |-> r,
                                                       chan |-> ch, todo |-> todo]]
        BY <2>3 DEF Begin
    <2>5. QED
        BY <1>1, <2>1, <2>4
<1>4. ASSUME NEW t \in Admins, NEW r \in Rooms, CreateRoom(t, r) \/ DestroyRoom(t, r)
      PROVE  FALSE
    <2>1. t # p /\ t \in Tasks
        BY DEF ManagerAssumption
    <2>2. QED
        BY <1>1, <1>4, <2>1 DEF CreateRoom, DestroyRoom, Begin
<1>5. ASSUME NEW r \in Rooms, RunActor(r) PROVE FALSE
    BY <1>5 DEF RunActor, mgrVars
<1>6. QED
    BY <1>2, <1>3, <1>4, <1>5 DEF ManagerNext

\* join_or_create makes a room only when no running room of the map has a
\* place: none of those it asked has got one since, for as long as it holds
\* the lock nobody leaves.
THEOREM CreatesCorrect == ManagerSpec => CreatesOnlyIfNoPlace
<1> DEFINE NoPlace == \A p \in Players, r \in Rooms :
                          call[p].op = "match" /\ call'[p].op = "join" =>
                              \A s \in rooms : Live(s) => Info(s) # "open"
<1>1. ASSUME ManagerInv, ManagerNext PROVE NoPlace
    <2>1. SUFFICES ASSUME NEW p \in Players, call[p].op = "match", call'[p].op = "join",
                          NEW s \in rooms, Live(s), Info(s) = "open"
                   PROVE  FALSE
        OBVIOUS
    <2>2. PICK r \in Rooms : MatchCreates(p, r)
        BY <1>1, <2>1, ManagerAssumption, OnlyCreationEndsSearch
    <2>3. s \in call[p].todo \/ Hopes(p)
        BY <1>1, <2>1 DEF ManagerInv, Coherent, Scanned
    <2>4. QED
        BY <2>2, <2>3 DEF MatchCreates, Hopes, HasFound
<1>2. ManagerInv /\ [ManagerNext]_managerVars => [NoPlace]_managerVars
    BY <1>1
<1>3. QED
    BY <1>2, ManagerInvariant, PTL DEF ManagerSpec, CreatesOnlyIfNoPlace

-----------------------------------------------------------------------------
(* The manager implements RoomDirectory. *)

\* p is a member of an actor of the map.
In(p, r) == r \in rooms /\ p \in players[r]

\* DirectoryWhere is what its definition, a choice, is meant to say.
Located ==
    \A p \in Players :
        /\ DirectoryWhere(p) \in Rooms \cup {NoRoom}
        /\ \A r \in Rooms : DirectoryWhere(p) = r <=> In(p, r)

\* Two rooms of the map have no player in common.
LEMMA OneRoomOfMap ==
    ASSUME ManagerAssumption, ManagerInv, NEW p \in Players,
           NEW r \in rooms, NEW s \in rooms, p \in players[r], p \in players[s]
    PROVE  r = s
<1> USE DEF ManagerInv, Coherent
<1>1. rooms \subseteq Rooms /\ NoRoom \notin Rooms /\ p \in Tasks
    BY DEF ManagerTyped, ManagerAssumption
<1>2. Belongs(p, r) /\ Belongs(p, s)
    BY <1>1, MembersRun
<1>3. CallShape(p)
    BY <1>1 DEF CallsShaped
<1>4. QED
    BY <1>1, <1>2, <1>3 DEF Belongs, Answered, Returns, CallShape

\* The choice in DirectoryWhere is among at most one.
LEMMA InvLocates == ManagerInv => Located
<1>1. SUFFICES ASSUME ManagerInv, NEW p \in Players
               PROVE  /\ DirectoryWhere(p) \in Rooms \cup {NoRoom}
                      /\ \A r \in Rooms : DirectoryWhere(p) = r <=> In(p, r)
    BY DEF Located
<1>2. rooms \subseteq Rooms /\ NoRoom \notin Rooms
    BY <1>1, ManagerAssumption DEF ManagerInv, ManagerTyped, ManagerAssumption
<1> DEFINE in == {r \in rooms : p \in players[r]}
<1>3. CASE in = {}
    <2>1. DirectoryWhere(p) = NoRoom
        BY <1>3 DEF DirectoryWhere
    <2>2. \A r \in Rooms : ~In(p, r)
        BY <1>3 DEF In
    <2>3. QED
        BY <1>2, <2>1, <2>2
<1>4. ASSUME NEW s \in in PROVE DirectoryWhere(p) = s /\ In(p, s)
    <2>1. \A r \in in : r = s
        BY <1>1, <1>4, ManagerAssumption, OneRoomOfMap
    <2>2. in # {} /\ (CHOOSE r \in in : TRUE) = s
        BY <1>4, <2>1
    <2>3. QED
        BY <1>4, <2>2 DEF DirectoryWhere, In
<1>5. CASE in # {}
    <2>1. PICK s \in in : TRUE
        BY <1>5
    <2>2. DirectoryWhere(p) = s /\ s \in Rooms
        BY <1>2, <1>4
    <2>3. ASSUME NEW r \in Rooms, In(p, r) PROVE r = s
        BY <1>4, <2>2, <2>3 DEF In
    <2>4. QED
        BY <1>4, <2>2, <2>3
<1>6. QED
    BY <1>3, <1>5

\* The same of the next state.
LEMMA InvLocatesNext == ManagerInv' => Located'
BY InvLocates, PTL

\* Who is in the same rooms is in the same place.
LEMMA WhereFrame ==
    ASSUME ManagerAssumption, Located, Located', NEW p \in Players,
           \A r \in Rooms : In(p, r)' <=> In(p, r)
    PROVE  DirectoryWhere(p)' = DirectoryWhere(p)
BY DEF Located, ManagerAssumption

\* Where nothing the directory shows has changed, it has not moved.
LEMMA DirectoryRests ==
    ASSUME ManagerAssumption, Located, Located',
           \A r \in Rooms : DirectoryRoom(r)' = DirectoryRoom(r),
           \A p \in Players : \A r \in Rooms : In(p, r)' <=> In(p, r)
    PROVE  UNCHANGED Directory!dirVars
<1>1. \A p \in Players : DirectoryWhere(p)' = DirectoryWhere(p)
    BY WhereFrame
<1>2. QED
    BY <1>1 DEF Directory!dirVars

-----------------------------------------------------------------------------
(* What a step has to do to be one of the directory's. *)

\* A room that was unused takes players from now on.
LEMMA DirectoryOpens ==
    ASSUME ManagerAssumption, Located, Located', NEW r \in Rooms,
           DirectoryRoom(r) = "unused", DirectoryRoom(r)' = "waiting",
           \A s \in Rooms \ {r} : DirectoryRoom(s)' = DirectoryRoom(s),
           \A p \in Players : \A s \in Rooms : In(p, s)' <=> In(p, s)
    PROVE  Directory!Open(r)
<1>1. \A p \in Players : DirectoryWhere(p)' = DirectoryWhere(p)
    BY WhereFrame
<1>2. QED
    BY <1>1 DEF Directory!Open

\* A room ends, and nobody is in it any more.
LEMMA DirectoryCloses ==
    ASSUME ManagerAssumption, Located, Located', NEW r \in Rooms,
           DirectoryRoom(r) \in {"waiting", "started"}, DirectoryRoom(r)' = "closed",
           \A s \in Rooms \ {r} : DirectoryRoom(s)' = DirectoryRoom(s),
           \A p \in Players : \A s \in Rooms \ {r} : In(p, s)' <=> In(p, s),
           \A p \in Players : ~In(p, r)'
    PROVE  Directory!Close(r)
<1>1. ASSUME NEW p \in Players
      PROVE  DirectoryWhere(p)' = IF DirectoryWhere(p) = r THEN NoRoom
                                  ELSE DirectoryWhere(p)
    BY DEF Located, ManagerAssumption
<1>2. QED
    BY <1>1 DEF Directory!Close

\* The directory counts as the manager does.
LEMMA SameCardinality == \A S : Directory!Cardinality(S) = Cardinality(S)
BY DEF Cardinality, Directory!Cardinality

\* One player comes in where there is a place, and starts the room if it is
\* the last one the room waits for.
LEMMA DirectoryJoins ==
    ASSUME ManagerAssumption, ManagerTyped, Located, Located',
           NEW p \in Players, NEW r \in rooms, r \in Rooms,
           DirectoryRoom(r) = "waiting", Cardinality(players[r]) < MaxPlayers,
           DirectoryRoom(r)' = IF Cardinality(players[r]) + 1 >= MinPlayers
                               THEN "started" ELSE "waiting",
           \A s \in Rooms \ {r} : DirectoryRoom(s)' = DirectoryRoom(s),
           \A s \in Rooms : ~In(p, s),
           In(p, r)',
           \A q \in Players \ {p} : \A s \in Rooms : In(q, s)' <=> In(q, s)
    PROVE  Directory!Join(p, r)
<1>1. \A q \in Players \ {p} : DirectoryWhere(q)' = DirectoryWhere(q)
    BY DEF Located, ManagerAssumption
<1>2. DirectoryWhere(p) = NoRoom /\ DirectoryWhere(p)' = r
    BY DEF Located, ManagerAssumption
<1>3. Directory!Occupants(r) = players[r]
    <2>1. players[r] \subseteq Players
        BY DEF ManagerTyped, TypeOK
    <2>2. \A q \in Players : DirectoryWhere(q) = r <=> q \in players[r]
        BY DEF Located, In
    <2>3. QED
        BY <2>1, <2>2 DEF Directory!Occupants
<1>4. [q \in Players |-> DirectoryWhere(q)]'
          = [[q \in Players |-> DirectoryWhere(q)] EXCEPT ![p] = r]
    BY <1>1, <1>2
<1>5. [s \in Rooms |-> DirectoryRoom(s)]'
          = [[s \in Rooms |-> DirectoryRoom(s)] EXCEPT
                ![r] = IF Cardinality(players[r]) + 1 >= MinPlayers
                       THEN "started" ELSE "waiting"]
    OBVIOUS
<1>6. QED
    BY <1>2, <1>3, <1>4, <1>5, SameCardinality DEF Directory!Join

\* One player goes.
LEMMA DirectoryLeaves ==
    ASSUME ManagerAssumption, Located, Located', NEW p \in Players, NEW r \in Rooms,
           In(p, r), \A s \in Rooms : ~In(p, s)',
           \A q \in Players \ {p} : \A s \in Rooms : In(q, s)' <=> In(q, s),
           \A s \in Rooms : DirectoryRoom(s)' = DirectoryRoom(s)
    PROVE  Directory!Leave(p)
<1>1. \A q \in Players : DirectoryWhere(q)' = IF q = p THEN NoRoom ELSE DirectoryWhere(q)
    BY DEF Located, ManagerAssumption
<1>2. DirectoryWhere(p) # NoRoom
    BY DEF Located, ManagerAssumption
<1>3. [q \in Players |-> DirectoryWhere(q)]'
          = [[q \in Players |-> DirectoryWhere(q)] EXCEPT ![p] = NoRoom]
    BY <1>1
<1>4. [s \in Rooms |-> DirectoryRoom(s)]' = [s \in Rooms |-> DirectoryRoom(s)]
    OBVIOUS
<1>5. QED
    BY <1>2, <1>3, <1>4 DEF Directory!Leave

-----------------------------------------------------------------------------
(* Every step of the manager. *)

\* A room whose phase and place in the map stay shows the directory the same.
LEMMA RoomRests ==
    ASSUME NEW r, phase'[r] = phase[r], r \in rooms' <=> r \in rooms
    PROVE  DirectoryRoom(r)' = DirectoryRoom(r)
BY DEF DirectoryRoom, IsJoinable, Live

\* The calls, with what they ask, take and drop, do not show.
LEMMA CallsRest ==
    ASSUME ManagerAssumption, Located, Located', UNCHANGED <<phase, players, rooms>>
    PROVE  UNCHANGED Directory!dirVars
<1>1. \A r \in Rooms : DirectoryRoom(r)' = DirectoryRoom(r)
    BY RoomRests
<1>2. \A p \in Players : \A r \in Rooms : In(p, r)' <=> In(p, r)
    BY DEF In
<1>3. QED
    BY <1>1, <1>2, DirectoryRests

\* A new room is empty and open.
LEMMA CreationOpens ==
    ASSUME ManagerAssumption, ManagerInv, Located, Located', NEW r \in Rooms,
           Spawn(r), rooms' = rooms \cup {r}
    PROVE  Directory!Open(r)
<1> USE DEF ManagerInv, Coherent
<1>1. r \notin rooms /\ players[r] = {}
    BY DEF Spawn, RoomsSpawned, Slotted, SlotDiscipline, SlotsOf, Live
<1>2. DirectoryRoom(r) = "unused"
    BY <1>1 DEF Spawn, DirectoryRoom, IsJoinable, Live
<1>3. phase'[r] = "WaitingForPlayers" /\ \A s \in Rooms \ {r} : phase'[s] = phase[s]
    BY DEF Spawn, ManagerTyped, TypeOK
<1>4. DirectoryRoom(r)' = "waiting"
    BY <1>3 DEF DirectoryRoom, IsJoinable
<1>5. \A s \in Rooms \ {r} : DirectoryRoom(s)' = DirectoryRoom(s)
    BY <1>3, RoomRests
<1>6. \A p \in Players : \A s \in Rooms : In(p, s)' <=> In(p, s)
    BY <1>1 DEF In, Spawn
<1>7. QED
    BY <1>2, <1>4, <1>5, <1>6, DirectoryOpens

\* A room that leaves the map closes, unless it had ended before.
LEMMA DestructionCloses ==
    ASSUME ManagerAssumption, ManagerInv, Located, Located', NEW r \in rooms,
           UNCHANGED <<phase, players>>, rooms' = rooms \ {r}
    PROVE  Directory!Close(r) \/ UNCHANGED Directory!dirVars
<1> USE DEF ManagerInv, Coherent
<1>1. r \in Rooms /\ phase[r] # "Absent"
    BY DEF ManagerTyped, RoomsSpawned
<1>2. \A s \in Rooms \ {r} : DirectoryRoom(s)' = DirectoryRoom(s)
    BY RoomRests
<1>3. \A p \in Players : \A s \in Rooms \ {r} : In(p, s)' <=> In(p, s)
    BY DEF In
<1>4. DirectoryRoom(r)' = "closed" /\ \A p \in Players : ~In(p, r)'
    BY <1>1 DEF DirectoryRoom, In
<1>5. CASE Live(r)
    <2>1. DirectoryRoom(r) \in {"waiting", "started"}
        BY <1>1, <1>5 DEF DirectoryRoom
    <2>2. QED
        BY <1>1, <1>2, <1>3, <1>4, <2>1, DirectoryCloses
<1>6. CASE ~Live(r)
    <2>1. DirectoryRoom(r) = "closed"
        BY <1>1, <1>6 DEF DirectoryRoom, IsJoinable, Live
    <2>2. players[r] = {}
        BY <1>1, <1>6 DEF Slotted, SlotDiscipline, SlotsOf
    <2>3. \A p \in Players : ~In(p, r)
        BY <2>2 DEF In
    <2>4. QED
        BY <1>2, <1>3, <1>4, <2>1, <2>3, DirectoryRests
<1>7. QED
    BY <1>5, <1>6

\* An actor that ends closes its room, unless it was out of the map already.
LEMMA DeathCloses ==
    ASSUME ManagerAssumption, ManagerInv, Located, Located', NEW r \in Rooms, Live(r),
           NEW how \in {"Destroying", "Panicked"}, Die(r, how), rooms' = rooms
    PROVE  Directory!Close(r) \/ UNCHANGED Directory!dirVars
<1> USE DEF ManagerInv, Coherent
<1>1. /\ phase'[r] = how /\ \A s \in Rooms \ {r} : phase'[s] = phase[s]
      /\ players'[r] = {} /\ \A s \in Rooms \ {r} : players'[s] = players[s]
    BY DEF Die, ManagerTyped, TypeOK
<1>2. \A s \in Rooms \ {r} : DirectoryRoom(s)' = DirectoryRoom(s)
    BY <1>1, RoomRests
<1>3. \A p \in Players : \A s \in Rooms \ {r} : In(p, s)' <=> In(p, s)
    BY <1>1 DEF In
<1>4. DirectoryRoom(r)' = "closed" /\ \A p \in Players : ~In(p, r)'
    BY <1>1 DEF DirectoryRoom, In, IsJoinable, Live
<1>5. CASE r \in rooms
    <2>1. DirectoryRoom(r) \in {"waiting", "started"}
        BY <1>5 DEF DirectoryRoom, Live
    <2>2. QED
        BY <1>2, <1>3, <1>4, <2>1, DirectoryCloses
<1>6. CASE r \notin rooms
    <2>1. DirectoryRoom(r) = "closed" /\ \A p \in Players : ~In(p, r)
        BY <1>6 DEF DirectoryRoom, In, Live
    <2>2. QED
        BY <1>2, <1>3, <1>4, <2>1, DirectoryRests
<1>7. QED
    BY <1>5, <1>6

\* Nobody is in two places: who is in r is in no other room of the map.
LEMMA OnlyThere ==
    ASSUME ManagerAssumption, Located, NEW p \in Players, NEW r \in Rooms, In(p, r),
           NEW s \in Rooms \ {r}
    PROVE  ~In(p, s)
BY DEF Located

\* A player whose join is under way is in no room of the map.
LEMMA JoinerIsNowhere ==
    ASSUME ManagerAssumption, ManagerInv, NEW p \in Players,
           call[p].op \in {"join", "match"}, reply[p] = "pending", NEW r \in Rooms
    PROVE  ~In(p, r)
<1> USE DEF ManagerInv, Coherent
<1>1. p \in Tasks /\ rooms \subseteq Rooms /\ NoRoom \notin Rooms
    BY DEF ManagerAssumption, ManagerTyped
<1>2. player_rooms[p] = NoRoom
    BY <1>1 DEF CallsShaped, CallShape
<1>3. ~Belongs(p, r)
    BY <1>1, <1>2 DEF Belongs, Answered
<1>4. QED
    BY <1>1, <1>3, MembersRun DEF In

\* A join that the actor accepts is the directory's.
LEMMA JoinJoins ==
    ASSUME ActorAssumption, ManagerAssumption, ManagerInv, Located, Located',
           NEW r \in Rooms, HandleJoin(r), UNCHANGED mgrVars
    PROVE  Directory!DirNext \/ UNCHANGED Directory!dirVars
<1> USE DEF ManagerInv, Coherent
<1>1. queue[r] # <<>> /\ Head(queue[r]).op = "join" /\ rooms' = rooms
    BY DEF HandleJoin, Receives, mgrVars
<1>2. PICK p : p = Head(queue[r]).player
    OBVIOUS
<1>3. /\ call[p].op \in {"join", "match"} /\ call[p].at = "wait" /\ call[p].room = r
      /\ reply[p] = "pending" /\ p \in Tasks
    BY <1>1, <1>2, HandledCommand DEF PartOfCall, AskOps
<1>4. p \in Players /\ r \in rooms
    BY <1>3 DEF CallsShaped, CallShape
<1>5. CASE JoinResult(r, p) # "ok"
    BY <1>1, <1>2, <1>5, CallsRest DEF HandleJoin
<1>6. CASE JoinResult(r, p) = "ok"
    <2> DEFINE members == players[r] \cup {p}
    <2>1. /\ phase \in [Rooms -> Phases] /\ players \in [Rooms -> SUBSET Players]
          /\ IsFiniteSet(players[r]) /\ Cardinality(players[r]) \in Nat
          /\ MaxPlayers \in Nat
        BY MembersFinite DEF ManagerTyped, TypeOK, Slotted, ActorAssumption
    <2>2. p \notin players[r] /\ IsJoinable(r) /\ Cardinality(players[r]) < MaxPlayers
        BY <1>6, <2>1 DEF JoinResult
    <2>3. players'[r] = members /\ \A s \in Rooms \ {r} : players'[s] = players[s]
        BY <1>2, <1>6, <2>1 DEF HandleJoin
    <2>4. /\ phase'[r] = IF StartsWith(members) THEN "InProgress" ELSE "WaitingForPlayers"
          /\ \A s \in Rooms \ {r} : phase'[s] = phase[s]
        BY <1>2, <1>6, <2>1, <2>2 DEF HandleJoin, IsJoinable
    <2>5. StartsWith(members) <=> Cardinality(players[r]) + 1 >= MinPlayers
        <3>1. Cardinality(members) = Cardinality(players[r]) + 1
            BY <2>1, <2>2, FS_AddElement
        <3>2. QED
            BY <3>1 DEF StartsWith
    <2>6. DirectoryRoom(r) = "waiting"
        BY <1>4, <2>2 DEF DirectoryRoom, IsJoinable, Live
    <2>7. DirectoryRoom(r)' = IF Cardinality(players[r]) + 1 >= MinPlayers
                              THEN "started" ELSE "waiting"
        BY <1>1, <1>4, <2>4, <2>5 DEF DirectoryRoom, IsJoinable, Live
    <2>8. \A s \in Rooms \ {r} : DirectoryRoom(s)' = DirectoryRoom(s)
        BY <1>1, <2>4, RoomRests
    <2>9. \A s \in Rooms : ~In(p, s)
        BY <1>3, <1>4, JoinerIsNowhere
    <2>10. In(p, r)' /\ \A q \in Players \ {p} : \A s \in Rooms : In(q, s)' <=> In(q, s)
        BY <1>1, <1>4, <2>3 DEF In
    <2>11. Directory!Join(p, r)
        BY <1>4, <2>2, <2>6, <2>7, <2>8, <2>9, <2>10, DirectoryJoins
    <2>12. QED
        BY <1>4, <2>11 DEF Directory!DirNext
<1>7. QED
    BY <1>5, <1>6

\* So is a leave; the directory does not tell InProgress from Finished.
LEMMA LeaveLeaves ==
    ASSUME ManagerAssumption, ManagerInv, Located, Located',
           NEW r \in Rooms, HandleLeave(r), UNCHANGED mgrVars
    PROVE  Directory!DirNext \/ UNCHANGED Directory!dirVars
<1> USE DEF ManagerInv, Coherent
<1>1. queue[r] # <<>> /\ Head(queue[r]).op = "leave" /\ rooms' = rooms
    BY DEF HandleLeave, Receives, mgrVars
<1>2. PICK p : p = Head(queue[r]).player
    OBVIOUS
<1>3. call[p].op = "leave" /\ call[p].room = r /\ p \in Tasks
    BY <1>1, <1>2, HandledCommand DEF PartOfCall
<1>4. p \in Players /\ r \in rooms
    BY <1>3 DEF CallsShaped, CallShape
<1>5. CASE p \notin players[r]
    BY <1>1, <1>2, <1>5, CallsRest DEF HandleLeave
<1>6. CASE p \in players[r]
    <2>1. /\ players \in [Rooms -> SUBSET Players] /\ phase \in [Rooms -> Phases]
        BY DEF ManagerTyped, TypeOK
    <2>2. /\ players'[r] = players[r] \ {p}
          /\ \A s \in Rooms \ {r} : players'[s] = players[s]
        BY <1>2, <1>6, <2>1 DEF HandleLeave
    <2>3. /\ \A s \in Rooms \ {r} : phase'[s] = phase[s]
          /\ phase'[r] = phase[r] \/ (phase[r] = "InProgress" /\ phase'[r] = "Finished")
        <3>1. CASE IsActive(r) /\ RunGame(r, [senders[r] EXCEPT ![p] = NoChan], players[r] \ {p})
            BY <2>1, <3>1 DEF RunGame, IsActive
        <3>2. CASE UNCHANGED phase
            BY <3>2
        <3>3. QED
            BY <1>2, <1>6, <3>1, <3>2 DEF HandleLeave
    <2>4. In(p, r)
        BY <1>4, <1>6 DEF In
    <2>5. \A s \in Rooms : ~In(p, s)'
        <3>1. \A s \in Rooms \ {r} : ~In(p, s)
            BY <1>4, <2>4, OnlyThere
        <3>2. QED
            BY <1>1, <2>2, <3>1 DEF In
    <2>6. \A q \in Players \ {p} : \A s \in Rooms : In(q, s)' <=> In(q, s)
        BY <1>1, <2>2 DEF In
    <2>7. \A s \in Rooms : DirectoryRoom(s)' = DirectoryRoom(s)
        BY <1>1, <2>3, RoomRests DEF DirectoryRoom, IsJoinable, Live
    <2>8. Directory!Leave(p)
        BY <1>4, <2>4, <2>5, <2>6, <2>7, DirectoryLeaves
    <2>9. QED
        BY <1>4, <2>8 DEF Directory!DirNext
<1>7. QED
    BY <1>5, <1>6

\* Messages do not show.
LEMMA MessageRests ==
    ASSUME ManagerAssumption, ManagerInv, Located, Located',
           NEW r \in Rooms, HandleMessage(r), UNCHANGED mgrVars
    PROVE  UNCHANGED Directory!dirVars
<1> USE DEF ManagerInv, Coherent
<1>1. players' = players /\ rooms' = rooms
    BY DEF HandleMessage, mgrVars
<1>2. \A s \in Rooms \ {r} : phase'[s] = phase[s]
    BY DEF HandleMessage, RunGame, ManagerTyped, TypeOK
<1>3. phase'[r] = phase[r] \/ (phase[r] = "InProgress" /\ phase'[r] = "Finished")
    <2>1. CASE phase' = phase
        BY <2>1
    <2>2. CASE MessageReachesGame(r) /\ RunGame(r, senders[r], players[r])
        <3>1. phase[r] \in {"InProgress", "Finished"}
            BY <2>2 DEF MessageReachesGame, Slotted, SlotDiscipline, SlotsOf
        <3>2. QED
            <4>1. phase \in [Rooms -> Phases]
                BY DEF ManagerTyped, TypeOK
            <4>2. phase'[r] \in {phase[r], "Finished"}
                BY <2>2, <4>1 DEF RunGame
            <4>3. QED
                BY <3>1, <4>2
    <2>3. QED
        BY <2>1, <2>2 DEF HandleMessage
<1>4. \A s \in Rooms : DirectoryRoom(s)' = DirectoryRoom(s)
    BY <1>1, <1>2, <1>3, RoomRests DEF DirectoryRoom, IsJoinable, Live
<1>5. \A p \in Players : \A s \in Rooms : In(p, s)' <=> In(p, s)
    BY <1>1 DEF In
<1>6. QED
    BY <1>4, <1>5, DirectoryRests

\* What an actor does is a step of the directory or none.
LEMMA ActorMaps ==
    ASSUME ActorAssumption, ManagerAssumption, ManagerInv, Located, Located',
           NEW r \in Rooms, RunActor(r)
    PROVE  Directory!DirNext \/ UNCHANGED Directory!dirVars
<1>1. UNCHANGED mgrVars /\ rooms' = rooms
    BY DEF RunActor, mgrVars
<1>2. CASE HandleInfo(r)
    BY <1>1, <1>2, CallsRest DEF HandleInfo
<1>3. CASE HandleShutdown(r)
    BY <1>1, <1>3, DeathCloses DEF HandleShutdown, Receives, Directory!DirNext
<1>4. CASE Panic(r)
    <2>1. Live(r) /\ Die(r, "Panicked")
        BY <1>4 DEF Panic, RunsGame, Receives
    <2>2. QED
        BY <1>1, <2>1, DeathCloses DEF Directory!DirNext
<1>5. QED
    BY <1>1, <1>2, <1>3, <1>4, JoinJoins, LeaveLeaves, MessageRests DEF RunActor, ActorStep

\* What a call goes on with: only the room join_or_create makes shows.
LEMMA ProceedMaps ==
    ASSUME ManagerAssumption, ManagerInv, Located, Located', NEW t \in Tasks, Proceed(t)
    PROVE  Directory!DirNext \/ UNCHANGED Directory!dirVars
<1>1. ASSUME NEW r \in Rooms, MatchCreates(t, r) PROVE Directory!DirNext
    BY <1>1, CreationOpens DEF MatchCreates, Directory!DirNext
<1>2. CASE Send(t)
    <2>1. UNCHANGED <<phase, players, rooms>>
        BY <1>2 DEF Send, AskJoin, AskLeave, SendMessage, SendShutdown, Ask
    <2>2. QED
        BY <2>1, CallsRest
<1>3. ASSUME NEW r \in Rooms, Probe(t, r) PROVE UNCHANGED Directory!dirVars
    BY <1>3, CallsRest DEF Probe, GetInfo, Ask
<1>4. CASE \/ ProbeReturns(t) \/ ListReturns(t) \/ DestroyReturns(t) \/ JoinSucceeds(t)
           \/ JoinFails(t) \/ MatchRetries(t) \/ LeaveReturns(t) \/ RouteReturns(t)
    <2>1. UNCHANGED <<phase, players, rooms>>
        BY <1>4 DEF ProbeReturns, ListReturns, DestroyReturns, JoinSucceeds, JoinFails,
                    MatchRetries, LeaveReturns, RouteReturns, TakeReply, actorVars
    <2>2. QED
        BY <2>1, CallsRest
<1>5. QED
    BY <1>1, <1>2, <1>3, <1>4 DEF Proceed

\* Every step of the manager is one of the directory, or none.
LEMMA DirectoryStep ==
    ASSUME ActorAssumption, ManagerAssumption, ManagerInv, Located, Located',
           [ManagerNext]_managerVars
    PROVE  [Directory!DirNext]_(Directory!dirVars)
<1>1. ASSUME NEW p \in Players, PlayerCall(p) PROVE UNCHANGED Directory!dirVars
    <2>1. UNCHANGED <<phase, players, rooms>>
        BY <1>1 DEF PlayerCall, PlayerRequest, JoinRoom, JoinOrCreate, LeaveRoom,
                    LeaveRefused, RouteMessage, ListRooms, HandlerExit, CloseChannels,
                    actorVars
    <2>2. QED
        BY <2>1, CallsRest
<1>2. ASSUME NEW t \in Admins, NEW r \in Rooms, CreateRoom(t, r)
      PROVE  Directory!DirNext
    BY <1>2, CreationOpens DEF CreateRoom, Directory!DirNext
<1>3. ASSUME NEW t \in Admins, NEW r \in Rooms, DestroyRoom(t, r)
      PROVE  Directory!DirNext \/ UNCHANGED Directory!dirVars
    BY <1>3, DestructionCloses DEF DestroyRoom, Directory!DirNext, actorVars
<1>4. CASE UNCHANGED managerVars
    BY <1>4, CallsRest DEF managerVars
<1>5. QED
    BY <1>1, <1>2, <1>3, <1>4, ProceedMaps, ActorMaps DEF ManagerNext

\* The directory starts with nobody anywhere.
LEMMA DirectoryStarts ==
    ASSUME ManagerInit PROVE Directory!DirInit
<1>1. \A r \in Rooms : DirectoryRoom(r) = "unused"
    BY DEF ManagerInit, ActorInit, DirectoryRoom, IsJoinable, Live
<1>2. \A p \in Players : DirectoryWhere(p) = NoRoom
    BY DEF ManagerInit, DirectoryWhere
<1>3. QED
    BY <1>1, <1>2 DEF Directory!DirInit

\* The manager, its actors and its callers implement the directory, in which
\* joins, leaves, creation and destruction are one step each.
THEOREM DirectoryImplemented == ManagerSpec => ImplementsDirectory
<1>1. ManagerInit => Directory!DirInit
    BY DirectoryStarts
<1>2. ManagerInv /\ ManagerInv' /\ [ManagerNext]_managerVars
          => [Directory!DirNext]_(Directory!dirVars)
    BY ActorAssumption, ManagerAssumption, InvLocates, InvLocatesNext, DirectoryStep
<1>3. QED
    BY <1>1, <1>2, ManagerInvariant, PTL
    DEF ManagerSpec, ImplementsDirectory, Directory!DirSpec
=============================================================================
