--------------------------- MODULE RoomActorProofs ---------------------------
(* Theorems about RoomActor, for every value of its constants. *)
EXTENDS RoomActor, FiniteSetTheorems, SequenceTheorems, TLAPS

\* The elements of a sequence's tail.
LEMMA TailElement ==
    ASSUME NEW S, NEW q \in Seq(S), q # <<>>, NEW i \in DOMAIN Tail(q)
    PROVE  i + 1 \in DOMAIN q /\ Tail(q)[i] = q[i + 1]
<1>1. Len(q) \in Nat /\ DOMAIN q = 1..Len(q)
    OBVIOUS
<1>2. /\ Len(Tail(q)) = Len(q) - 1
      /\ \A j \in 1..Len(Tail(q)) : Tail(q)[j] = q[j + 1]
    BY HeadTailProperties
<1>3. Tail(q) \in Seq(S)
    OBVIOUS
<1>4. i \in 1..Len(Tail(q))
    BY <1>3
<1>5. QED
    BY <1>1, <1>2, <1>4

\* What the head of a queue is.
LEMMA HeadTyped ==
    ASSUME TypeOK, NEW r \in Rooms, queue[r] # <<>>
    PROVE  /\ Head(queue[r]) \in Commands
           /\ Tail(queue[r]) \in Seq(Commands)
BY DEF TypeOK

\* What Copy appends is nothing or one message, and a message only if the
\* recipient is someone.
LEMMA CopyTyped ==
    ASSUME NEW sn, NEW members, NEW ch,
           NEW m \in Recipients \cup [kind : {"State"}, player : {NoPlayer}],
           NEW v \in Nat
    PROVE  Copy(sn, members, ch, m, v) \in Seq(Messages)
<1>1. CASE ch \in rx /\ \E p \in members : sn[p] = ch /\ Addresses(m, p)
    <2>1. m.kind \in {"State", "All", "Player", "AllExcept"}
        BY <1>1 DEF Addresses, Recipients
    <2>2. [kind |-> m.kind, version |-> v] \in Messages
        BY <2>1 DEF Messages
    <2>3. QED
        BY <1>1, <2>2 DEF Copy
<1>2. CASE ~(ch \in rx /\ \E p \in members : sn[p] = ch /\ Addresses(m, p))
    BY <1>2 DEF Copy
<1>3. QED
    BY <1>1, <1>2

\* Dispatch and Snapshot leave a log of messages in every channel.
LEMMA DispatchTyped ==
    ASSUME ActorAssumption, sent \in [Chans -> Seq(Messages)],
           NEW sn, NEW members, NEW out \in Outboxes, NEW v \in Nat,
           Dispatch(sn, members, out, v)
    PROVE  sent' \in [Chans -> Seq(Messages)]
<1>1. out[1] \in Recipients /\ out[2] \in Recipients
    BY DEF ActorAssumption
<1>2. SUFFICES ASSUME NEW ch \in Chans
               PROVE  sent[ch] \o Copy(sn, members, ch, out[1], v)
                               \o Copy(sn, members, ch, out[2], v) \in Seq(Messages)
    BY DEF Dispatch
<1>3. /\ Copy(sn, members, ch, out[1], v) \in Seq(Messages)
      /\ Copy(sn, members, ch, out[2], v) \in Seq(Messages)
    BY <1>1, CopyTyped
<1>4. QED
    BY <1>3

\* Snapshot too leaves a log of messages in every channel.
LEMMA SnapshotTyped ==
    ASSUME sent \in [Chans -> Seq(Messages)],
           NEW sn, NEW members, Snapshot(sn, members)
    PROVE  sent' \in [Chans -> Seq(Messages)]
<1> DEFINE m == [kind |-> "State", player |-> NoPlayer]
<1>1. SUFFICES ASSUME NEW ch \in Chans
               PROVE  sent[ch] \o Copy(sn, members, ch, m, 1) \in Seq(Messages)
    BY DEF Snapshot
<1>2. Copy(sn, members, ch, m, 1) \in Seq(Messages)
    BY CopyTyped
<1>3. QED
    BY <1>2

\* What RunGame leaves of the phase, the game and the logs.
LEMMA RunGameTyped ==
    ASSUME ActorAssumption, TypeOK, NEW r \in Rooms, NEW sn, NEW members,
           RunGame(r, sn, members)
    PROVE  /\ phase' \in [Rooms -> Phases]
           /\ game' \in [Rooms -> Nat]
           /\ sent' \in [Chans -> Seq(Messages)]
<1>1. PICK out \in Outboxes, finished \in BOOLEAN :
          /\ game' = [game EXCEPT ![r] = @ + 1]
          /\ Dispatch(sn, members, out, game[r] + 1)
          /\ phase' = [phase EXCEPT ![r] = IF finished THEN "Finished" ELSE @]
    BY DEF RunGame
<1>2. game[r] + 1 \in Nat
    BY DEF TypeOK
<1>3. sent' \in [Chans -> Seq(Messages)]
    BY <1>1, <1>2, DispatchTyped DEF TypeOK
<1>4. QED
    BY <1>1, <1>2, <1>3 DEF TypeOK, Phases

\* Sending a command keeps the queues and the replies typed.
LEMMA EnqueueTyped ==
    ASSUME TypeOK, NEW r \in Rooms, NEW cmd \in Commands, Enqueue(r, cmd)
    PROVE  /\ queue' \in [Rooms -> Seq(Commands)]
           /\ reply' \in [Tasks -> Results]
<1>1. cmd.task \in Tasks
    BY DEF Commands
<1>2. {"ok", "pending", "unavailable"} \subseteq Results
    BY DEF Results, Refusals
<1>3. reply' \in [Tasks -> Results]
    BY <1>1, <1>2 DEF TypeOK, Enqueue
<1>4. \/ queue' = queue
      \/ queue' = [queue EXCEPT ![r] = Append(@, cmd)]
    BY DEF Enqueue
<1>5. queue' \in [Rooms -> Seq(Commands)]
    <2>1. Append(queue[r], cmd) \in Seq(Commands)
        BY DEF TypeOK
    <2>2. QED
        BY <1>4, <2>1 DEF TypeOK
<1>6. QED
    BY <1>3, <1>5

\* A room that dies leaves a well-typed state behind.
LEMMA DieTyped ==
    ASSUME TypeOK, NEW r \in Rooms, NEW how \in Phases, Die(r, how),
           ActorAssumption
    PROVE  TypeOK'
<1>1. NoSenders \in [Players -> Chans \cup {NoChan}]
    BY DEF NoSenders
<1>2. reply' \in [Tasks -> Results]
    BY DEF Die, TypeOK, Results, Refusals
<1>3. QED
    BY <1>1, <1>2 DEF Die, TypeOK

\* Every answer a handler gives is one of Results.
LEMMA ResultsTyped ==
    ASSUME NEW r, NEW p
    PROVE  JoinResult(r, p) \in Results /\ Info(r) \in Results
BY DEF JoinResult, Info, Results, Refusals, Infos

\* A join or leave in the queue names a player, a join an open channel: the
\* part of the inductive invariant that is about commands under way.
CommandsWellFormed ==
    \A r \in Rooms : \A i \in DOMAIN queue[r] :
        LET cmd == queue[r][i]
        IN  /\ cmd.op \in {"join", "leave", "message"} => cmd.player \in Players
            /\ cmd.op = "join" => cmd.chan \in Chans

Typed == TypeOK /\ CommandsWellFormed

\* The initial state is well typed.
LEMMA TypedInit ==
    ASSUME ActorInit, ActorAssumption PROVE Typed
BY DEF ActorInit, ActorAssumption, Typed, TypeOK, CommandsWellFormed, Phases,
       NoSenders, Results

\* Consuming the head of a queue, or adding a well-formed command.
LEMMA TailWellFormed ==
    ASSUME Typed, NEW r \in Rooms, queue[r] # <<>>,
           queue' = [queue EXCEPT ![r] = Tail(@)]
    PROVE  CommandsWellFormed'
<1>1. SUFFICES ASSUME NEW s \in Rooms, NEW i \in DOMAIN queue'[s]
               PROVE  \E j \in DOMAIN queue[s] : queue'[s][i] = queue[s][j]
    BY DEF CommandsWellFormed, Typed
<1>2. CASE s # r
    BY <1>2 DEF Typed, TypeOK
<1>3. CASE s = r
    <2>1. queue'[r] = Tail(queue[r]) /\ queue[r] \in Seq(Commands)
        BY DEF Typed, TypeOK
    <2>2. i + 1 \in DOMAIN queue[r] /\ Tail(queue[r])[i] = queue[r][i + 1]
        BY <1>3, <2>1, TailElement
    <2>3. QED
        BY <1>3, <2>1, <2>2
<1>4. QED
    BY <1>2, <1>3

\* The other way a queue changes: one more well-formed command.
LEMMA AppendWellFormed ==
    ASSUME Typed, NEW r \in Rooms, NEW cmd \in Commands, Enqueue(r, cmd),
           cmd.op \in {"join", "leave", "message"} => cmd.player \in Players,
           cmd.op = "join" => cmd.chan \in Chans
    PROVE  CommandsWellFormed'
<1>1. CASE queue' = queue
    BY <1>1 DEF Typed, CommandsWellFormed
<1>2. CASE queue' = [queue EXCEPT ![r] = Append(@, cmd)]
    <2>1. SUFFICES ASSUME NEW s \in Rooms, NEW i \in DOMAIN queue'[s]
                   PROVE  \/ queue'[s][i] = cmd
                          \/ \E j \in DOMAIN queue[s] : queue'[s][i] = queue[s][j]
        BY DEF CommandsWellFormed, Typed
    <2>2. CASE s # r
        BY <1>2, <2>2 DEF Typed, TypeOK
    <2>3. CASE s = r
        <3>1. queue'[r] = Append(queue[r], cmd) /\ queue[r] \in Seq(Commands)
            BY <1>2 DEF Typed, TypeOK
        <3>2. CASE i = Len(queue[r]) + 1
            BY <2>3, <3>1, <3>2
        <3>3. CASE i # Len(queue[r]) + 1
            <4>1. i \in DOMAIN queue[r] /\ queue'[r][i] = queue[r][i]
                BY <2>3, <3>1, <3>3
            <4>2. QED
                BY <2>3, <4>1
        <3>4. QED
            BY <3>2, <3>3
    <2>4. QED
        BY <2>2, <2>3
<1>3. QED
    BY <1>1, <1>2 DEF Enqueue

-----------------------------------------------------------------------------
(* Types are preserved by every step. *)

\* What RunGame is given by its two callers.
LEMMA TypedHandlers ==
    ASSUME ActorAssumption, Typed, NEW r \in Rooms, ActorStep(r)
    PROVE  Typed'
<1> DEFINE cmd == Head(queue[r])
<1> USE DEF Typed
<1>0. queue[r] # <<>>
    BY DEF ActorStep, HandleJoin, HandleLeave, HandleMessage, HandleInfo,
           HandleShutdown, Panic, RunsGame, Receives
<1>a. cmd \in Commands /\ Tail(queue[r]) \in Seq(Commands)
    BY <1>0, HeadTyped
<1>b. cmd = queue[r][1] /\ 1 \in DOMAIN queue[r]
    BY <1>0 DEF TypeOK
<1>c. /\ cmd.op \in {"join", "leave", "message"} => cmd.player \in Players
      /\ cmd.op = "join" => cmd.chan \in Chans
      /\ cmd.task \in Tasks
    BY <1>a, <1>b DEF CommandsWellFormed, Commands
<1>d. ASSUME queue' = [queue EXCEPT ![r] = Tail(@)]
      PROVE  queue' \in [Rooms -> Seq(Commands)] /\ CommandsWellFormed'
    BY <1>0, <1>a, <1>d, TailWellFormed DEF TypeOK
<1>e. ASSUME NEW how \in Phases, Die(r, how)
      PROVE  Typed'
    <2>1. TypeOK'
        BY <1>e, DieTyped
    <2>2. CommandsWellFormed'
        BY <1>e DEF Die, CommandsWellFormed, TypeOK
    <2>3. QED
        BY <2>1, <2>2
<1>1. CASE HandleJoin(r)
    <2> DEFINE members == players[r] \cup {cmd.player}
               sn == [senders[r] EXCEPT ![cmd.player] = cmd.chan]
    <2>1. cmd.op = "join"
        BY <1>1 DEF HandleJoin, Receives
    <2>2. queue' \in [Rooms -> Seq(Commands)] /\ CommandsWellFormed'
        BY <1>1, <1>d DEF HandleJoin
    <2>3. reply' \in [Tasks -> Results]
        BY <1>1, <1>c, ResultsTyped DEF HandleJoin, Answer, TypeOK
    <2>4. players' \in [Rooms -> SUBSET Players]
        <3>1. players' = players \/ players' = [players EXCEPT ![r] = members]
            BY <1>1 DEF HandleJoin
        <3>2. members \in SUBSET Players
            BY <1>c, <2>1 DEF TypeOK
        <3>3. QED
            BY <3>1, <3>2 DEF TypeOK
    <2>5. senders' \in [Rooms -> [Players -> Chans \cup {NoChan}]]
        <3>1. senders' = senders \/ senders' = [senders EXCEPT ![r] = sn]
            BY <1>1 DEF HandleJoin
        <3>2. sn \in [Players -> Chans \cup {NoChan}]
            BY <1>c, <2>1 DEF TypeOK
        <3>3. QED
            BY <3>1, <3>2 DEF TypeOK
    <2>6. phase' \in [Rooms -> Phases] /\ game' \in [Rooms -> Nat]
        <3>1. /\ phase' = phase \/ phase' = [phase EXCEPT ![r] = "InProgress"]
              /\ game' = game \/ game' = [game EXCEPT ![r] = 1]
            BY <1>1 DEF HandleJoin
        <3>2. phase \in [Rooms -> Phases] /\ game \in [Rooms -> Nat]
            BY DEF TypeOK
        <3>3. "InProgress" \in Phases
            BY DEF Phases
        <3>4. QED
            BY <3>1, <3>2, <3>3
    <2>7. sent' \in [Chans -> Seq(Messages)]
        <3>1. sent' = sent \/ Snapshot(sn, members)
            BY <1>1 DEF HandleJoin
        <3>2. QED
            BY <3>1, SnapshotTyped DEF TypeOK
    <2>8. rx' = rx
        BY <1>1 DEF HandleJoin
    <2>9. QED
        BY <2>2, <2>3, <2>4, <2>5, <2>6, <2>7, <2>8 DEF TypeOK
<1>2. CASE HandleLeave(r)
    <2> DEFINE members == players[r] \ {cmd.player}
               sn == [senders[r] EXCEPT ![cmd.player] = NoChan]
    <2>1. cmd.op = "leave"
        BY <1>2 DEF HandleLeave, Receives
    <2>2. queue' \in [Rooms -> Seq(Commands)] /\ CommandsWellFormed'
        BY <1>2, <1>d DEF HandleLeave
    <2>3. reply' \in [Tasks -> Results]
        BY <1>2, <1>c DEF HandleLeave, Answer, TypeOK, Results, Refusals
    <2>4. players' \in [Rooms -> SUBSET Players]
        <3>1. players' = players \/ players' = [players EXCEPT ![r] = members]
            BY <1>2 DEF HandleLeave
        <3>2. players \in [Rooms -> SUBSET Players] /\ members \in SUBSET Players
            BY DEF TypeOK
        <3>3. QED
            BY <3>1, <3>2
    <2>5. senders' \in [Rooms -> [Players -> Chans \cup {NoChan}]]
        <3>1. senders' = senders \/ senders' = [senders EXCEPT ![r] = sn]
            BY <1>2 DEF HandleLeave
        <3>2. sn \in [Players -> Chans \cup {NoChan}]
            BY <1>c, <2>1 DEF TypeOK
        <3>3. QED
            BY <3>1, <3>2 DEF TypeOK
    <2>6. /\ phase' \in [Rooms -> Phases] /\ game' \in [Rooms -> Nat]
          /\ sent' \in [Chans -> Seq(Messages)]
        <3>1. RunGame(r, sn, members) \/ UNCHANGED <<phase, game, sent>>
            BY <1>2 DEF HandleLeave
        <3>2. QED
            BY <3>1, RunGameTyped DEF TypeOK
    <2>7. rx' = rx
        BY <1>2 DEF HandleLeave
    <2>8. QED
        BY <2>2, <2>3, <2>4, <2>5, <2>6, <2>7 DEF TypeOK
<1>3. CASE HandleMessage(r)
    <2>1. queue' \in [Rooms -> Seq(Commands)] /\ CommandsWellFormed'
        BY <1>3, <1>d DEF HandleMessage
    <2>2. /\ phase' \in [Rooms -> Phases] /\ game' \in [Rooms -> Nat]
          /\ sent' \in [Chans -> Seq(Messages)]
        <3>1. RunGame(r, senders[r], players[r]) \/ UNCHANGED <<phase, game, sent>>
            BY <1>3 DEF HandleMessage
        <3>2. QED
            BY <3>1, RunGameTyped DEF TypeOK
    <2>3. UNCHANGED <<players, senders, reply, rx>>
        BY <1>3 DEF HandleMessage
    <2>4. QED
        BY <2>1, <2>2, <2>3 DEF TypeOK
<1>4. CASE HandleInfo(r)
    <2>1. queue' \in [Rooms -> Seq(Commands)] /\ CommandsWellFormed'
        BY <1>4, <1>d DEF HandleInfo
    <2>2. reply' \in [Tasks -> Results]
        BY <1>4, <1>c, ResultsTyped DEF HandleInfo, Answer, TypeOK
    <2>3. UNCHANGED <<phase, players, senders, game, rx, sent>>
        BY <1>4 DEF HandleInfo
    <2>4. QED
        BY <2>1, <2>2, <2>3 DEF TypeOK
<1>5. CASE HandleShutdown(r)
    BY <1>5, <1>e DEF HandleShutdown, Phases
<1>6. CASE Panic(r)
    BY <1>6, <1>e DEF Panic, Phases
<1>7. QED
    BY <1>1, <1>2, <1>3, <1>4, <1>5, <1>6 DEF ActorStep

\* Calls through a handle keep the state well typed.
LEMMA TypedCalls ==
    ASSUME Typed, NEW t \in Tasks, NEW r \in Rooms, HandleCall(t, r)
    PROVE  Typed'
<1> USE DEF Typed
<1>1. CASE \E p \in Players, ch \in Chans : AskJoin(t, r, p, ch)
    <2>1. PICK p \in Players, ch \in Chans : AskJoin(t, r, p, ch)
        BY <1>1
    <2> DEFINE cmd == [op |-> "join", task |-> t, player |-> p, chan |-> ch]
    <2>2. cmd \in Commands /\ Enqueue(r, cmd)
        BY <2>1 DEF AskJoin, Commands, Ops
    <2>3. queue' \in [Rooms -> Seq(Commands)] /\ reply' \in [Tasks -> Results]
        BY <2>2, EnqueueTyped
    <2>4. CommandsWellFormed'
        BY <2>2, AppendWellFormed
    <2>5. rx' \in SUBSET Chans /\ sent' \in [Chans -> Seq(Messages)]
        BY <2>1 DEF AskJoin, TypeOK
    <2>6. UNCHANGED <<phase, players, senders, game>>
        BY <2>1 DEF AskJoin
    <2>7. QED
        BY <2>3, <2>4, <2>5, <2>6 DEF TypeOK
<1>2. ASSUME NEW op \in {"leave", "message", "info", "shutdown"},
             NEW p \in Players \cup {NoPlayer},
             op \in {"leave", "message"} => p \in Players,
             Ask(t, r, op, p)
      PROVE  Typed'
    <2> DEFINE cmd == [op |-> op, task |-> t, player |-> p, chan |-> NoChan]
    <2>1. cmd \in Commands /\ Enqueue(r, cmd)
        BY <1>2 DEF Ask, Commands, Ops
    <2>2. queue' \in [Rooms -> Seq(Commands)] /\ reply' \in [Tasks -> Results]
        BY <2>1, EnqueueTyped
    <2>3. CommandsWellFormed'
        BY <1>2, <2>1, AppendWellFormed
    <2>4. UNCHANGED <<phase, players, senders, game, rx, sent>>
        BY <1>2 DEF Ask
    <2>5. QED
        BY <2>2, <2>3, <2>4 DEF TypeOK
<1>3. QED
    BY <1>1, <1>2 DEF HandleCall, AskLeave, SendMessage, GetInfo, SendShutdown

\* Every step keeps the state well typed.
LEMMA TypedStep ==
    ASSUME ActorAssumption, Typed, [ActorNext]_actorVars
    PROVE  Typed'
<1>1. CASE \E r \in Rooms : Spawn(r)
    BY <1>1 DEF Spawn, Typed, TypeOK, Phases, CommandsWellFormed
<1>2. CASE \E r \in Rooms : ActorStep(r)
    BY <1>2, TypedHandlers
<1>3. CASE \E t \in Tasks, r \in Rooms : HandleCall(t, r)
    BY <1>3, TypedCalls
<1>4. CASE \E t \in Tasks, dropped \in SUBSET Chans : TakeReply(t, dropped)
    BY <1>4 DEF TakeReply, Typed, TypeOK, CommandsWellFormed, Results
<1>5. CASE \E dropped \in SUBSET Chans : CloseChannels(dropped)
    BY <1>5 DEF CloseChannels, Typed, TypeOK, CommandsWellFormed
<1>6. CASE UNCHANGED actorVars
    BY <1>6 DEF actorVars, Typed, TypeOK, CommandsWellFormed
<1>7. QED
    BY <1>1, <1>2, <1>3, <1>4, <1>5, <1>6 DEF ActorNext

\* Every behaviour of the actors and their callers is well typed.
THEOREM TypeCorrect == ActorSpec => []TypeOK
<1>1. ActorInit => Typed
    BY ActorAssumption, TypedInit
<1>2. Typed /\ [ActorNext]_actorVars => Typed'
    BY ActorAssumption, TypedStep
<1>3. Typed => TypeOK
    BY DEF Typed
<1>4. QED
    BY <1>1, <1>2, <1>3, PTL DEF ActorSpec

-----------------------------------------------------------------------------
(* Membership, slots and the game agree (SlotDiscipline).                  *)

Slotted == Typed /\ SlotDiscipline

\* A room not spawned yet has no members, no senders and no game.
LEMMA SlotsInit ==
    ASSUME ActorAssumption, ActorInit PROVE SlotDiscipline
BY FS_EmptySet DEF ActorInit, ActorAssumption, SlotDiscipline, SlotsOf,
   AtLeastOne, NoSenders, IsJoinable, Live

\* A room whose own state a step leaves alone keeps its slots.
LEMMA SlotsFrame ==
    ASSUME NEW r \in Rooms, SlotsOf(r), phase'[r] = phase[r],
           players'[r] = players[r], senders'[r] = senders[r], game'[r] = game[r]
    PROVE  SlotsOf(r)'
BY DEF SlotsOf, IsJoinable, Live

\* A set of members is finite, so that it has a size.
LEMMA MembersFinite ==
    ASSUME ActorAssumption, Typed, NEW r \in Rooms
    PROVE  IsFiniteSet(players[r]) /\ Cardinality(players[r]) \in Nat
BY FS_Subset, FS_CardinalityType DEF ActorAssumption, Typed, TypeOK

\* A room that dies is empty.
LEMMA SlotsDie ==
    ASSUME ActorAssumption, Typed, SlotDiscipline, NEW r \in Rooms,
           NEW how \in {"Destroying", "Panicked"}, Die(r, how)
    PROVE  SlotDiscipline'
<1>1. SUFFICES ASSUME NEW s \in Rooms PROVE SlotsOf(s)'
    BY DEF SlotDiscipline
<1>2. CASE s # r
    <2>1. /\ phase'[s] = phase[s] /\ players'[s] = players[s]
          /\ senders'[s] = senders[s] /\ game'[s] = game[s]
        BY <1>2 DEF Die, Typed, TypeOK
    <2>2. QED
        BY <2>1, SlotsFrame DEF SlotDiscipline
<1>3. CASE s = r
    <2>1. /\ phase'[r] = how /\ players'[r] = {}
          /\ senders'[r] = NoSenders /\ game'[r] = 0
        BY DEF Die, Typed, TypeOK
    <2>2. QED
        BY <1>3, <2>1, FS_EmptySet
        DEF SlotsOf, NoSenders, AtLeastOne, IsJoinable, Live, ActorAssumption
<1>4. QED
    BY <1>2, <1>3

\* The game's callbacks touch neither members nor senders, and the room stays
\* where there is a game.
LEMMA RunGameEffect ==
    ASSUME Typed, NEW r \in Rooms, NEW sn, NEW members, RunGame(r, sn, members)
    PROVE  /\ phase'[r] \in {phase[r], "Finished"}
           /\ game'[r] = game[r] + 1
           /\ \A s \in Rooms \ {r} : phase'[s] = phase[s] /\ game'[s] = game[s]
<1>1. PICK out \in Outboxes, finished \in BOOLEAN :
          /\ game' = [game EXCEPT ![r] = @ + 1]
          /\ phase' = [phase EXCEPT ![r] = IF finished THEN "Finished" ELSE @]
    BY DEF RunGame
<1>2. phase \in [Rooms -> Phases] /\ game \in [Rooms -> Nat]
    BY DEF Typed, TypeOK
<1>3. QED
    BY <1>1, <1>2

\* handle_join: the member and its sender are added together, below the
\* maximum, and the game starts in the step that reaches the minimum.
LEMMA SlotsJoin ==
    ASSUME ActorAssumption, Typed, SlotDiscipline, NEW r \in Rooms, HandleJoin(r)
    PROVE  SlotDiscipline'
<1> DEFINE cmd == Head(queue[r])
           members == players[r] \cup {cmd.player}
           sn == [senders[r] EXCEPT ![cmd.player] = cmd.chan]
<1>1. /\ cmd.player \in Players /\ cmd.chan \in Chans /\ cmd.chan # NoChan
    <2>1. queue[r] # <<>> /\ cmd.op = "join"
        BY DEF HandleJoin, Receives
    <2>2. cmd = queue[r][1] /\ 1 \in DOMAIN queue[r]
        BY <2>1 DEF Typed, TypeOK
    <2>3. QED
        BY <2>1, <2>2 DEF Typed, CommandsWellFormed, ActorAssumption
<1>2. SUFFICES ASSUME NEW s \in Rooms PROVE SlotsOf(s)'
    BY DEF SlotDiscipline
<1>3. /\ phase \in [Rooms -> Phases] /\ game \in [Rooms -> Nat]
      /\ players \in [Rooms -> SUBSET Players]
      /\ senders \in [Rooms -> [Players -> Chans \cup {NoChan}]]
    BY DEF Typed, TypeOK
<1>4. SlotsOf(s) /\ SlotsOf(r)
    BY DEF SlotDiscipline
<1>5. CASE s # r
    <2>1. /\ phase'[s] = phase[s] /\ players'[s] = players[s]
          /\ senders'[s] = senders[s] /\ game'[s] = game[s]
        BY <1>3, <1>5 DEF HandleJoin
    <2>2. QED
        BY <1>4, <2>1, SlotsFrame
<1>6. CASE s = r /\ JoinResult(r, cmd.player) # "ok"
    <2>1. UNCHANGED <<phase, players, senders, game>>
        BY <1>6 DEF HandleJoin
    <2>2. QED
        BY <1>4, <2>1, SlotsFrame
<1>7. CASE s = r /\ JoinResult(r, cmd.player) = "ok"
    <2>1. /\ phase[r] = "WaitingForPlayers"
          /\ cmd.player \notin players[r]
          /\ ~(Cardinality(players[r]) >= MaxPlayers)
        BY <1>7 DEF JoinResult, IsJoinable
    <2>2. players'[r] = members /\ senders'[r] = sn
        BY <1>3, <1>7 DEF HandleJoin
    <2>3. /\ Cardinality(members) = Cardinality(players[r]) + 1
          /\ Cardinality(players[r]) \in Nat
        BY <2>1, MembersFinite, FS_AddElement
    <2>4. members = {p \in Players : sn[p] # NoChan}
        BY <1>1, <1>3, <1>4 DEF SlotsOf
    <2>5. Cardinality(members) <= MaxPlayers
        BY <2>1, <2>3 DEF ActorAssumption
    <2>6. Cardinality(members) <= AtLeastOne(MinPlayers)
        <3>1. players[r] = {} \/ Cardinality(players[r]) < MinPlayers
            BY <1>4, <2>1 DEF SlotsOf, IsJoinable
        <3>2. players[r] = {} => Cardinality(players[r]) = 0
            BY FS_EmptySet
        <3>3. QED
            BY <2>3, <3>1, <3>2 DEF AtLeastOne, ActorAssumption
    <2>7. CASE StartsWith(members)
        <3>1. phase'[r] = "InProgress" /\ game'[r] = 1
            BY <1>3, <1>7, <2>7 DEF HandleJoin
        <3>2. QED
            BY <1>7, <2>2, <2>4, <2>5, <2>6, <3>1 DEF SlotsOf, IsJoinable, Live
    <2>8. CASE ~StartsWith(members)
        <3>1. phase'[r] = "WaitingForPlayers" /\ game'[r] = game[r]
            BY <1>3, <1>7, <2>1, <2>8 DEF HandleJoin
        <3>2. Cardinality(members) < MinPlayers
            BY <2>3, <2>8 DEF StartsWith, ActorAssumption
        <3>3. game[r] = 0
            BY <1>4, <2>1 DEF SlotsOf
        <3>4. QED
            BY <1>7, <2>2, <2>4, <2>5, <2>6, <3>1, <3>2, <3>3
            DEF SlotsOf, IsJoinable, Live
    <2>9. QED
        BY <2>7, <2>8
<1>8. QED
    BY <1>5, <1>6, <1>7

\* handle_leave: the member and its sender go together.
LEMMA SlotsLeave ==
    ASSUME ActorAssumption, Typed, SlotDiscipline, NEW r \in Rooms, HandleLeave(r)
    PROVE  SlotDiscipline'
<1> DEFINE cmd == Head(queue[r])
           members == players[r] \ {cmd.player}
           sn == [senders[r] EXCEPT ![cmd.player] = NoChan]
<1>1. SUFFICES ASSUME NEW s \in Rooms PROVE SlotsOf(s)'
    BY DEF SlotDiscipline
<1>2. /\ phase \in [Rooms -> Phases] /\ game \in [Rooms -> Nat]
      /\ players \in [Rooms -> SUBSET Players]
      /\ senders \in [Rooms -> [Players -> Chans \cup {NoChan}]]
    BY DEF Typed, TypeOK
<1>3. SlotsOf(s) /\ SlotsOf(r)
    BY DEF SlotDiscipline
<1>4. CASE UNCHANGED <<phase, players, senders, game>>
    BY <1>3, <1>4, SlotsFrame
<1>5. CASE /\ cmd.player \in players[r]
           /\ players' = [players EXCEPT ![r] = members]
           /\ senders' = [senders EXCEPT ![r] = sn]
           /\ \/ IsActive(r) /\ RunGame(r, sn, members)
              \/ ~IsActive(r) /\ UNCHANGED <<phase, game, sent>>
    <2>1. CASE s # r
        <3>1. phase'[s] = phase[s] /\ game'[s] = game[s]
            BY <1>5, <2>1, RunGameEffect
        <3>2. players'[s] = players[s] /\ senders'[s] = senders[s]
            BY <1>2, <1>5, <2>1
        <3>3. QED
            BY <1>3, <3>1, <3>2, SlotsFrame
    <2>2. CASE s = r
        <3>1. players'[r] = members /\ senders'[r] = sn
            BY <1>2, <1>5
        <3>2. /\ Cardinality(members) = Cardinality(players[r]) - 1
              /\ Cardinality(players[r]) \in Nat /\ Cardinality(members) \in Nat
            BY <1>5, MembersFinite, FS_RemoveElement, FS_CardinalityType
        <3>3. members = {p \in Players : sn[p] # NoChan}
            BY <1>2, <1>3 DEF SlotsOf
        <3>4. /\ Cardinality(members) <= MaxPlayers
              /\ Cardinality(members) <= AtLeastOne(MinPlayers)
            BY <1>3, <3>2 DEF SlotsOf, AtLeastOne, ActorAssumption
        <3>5. players[r] # {}
            BY <1>5
        <3>6. CASE IsActive(r) /\ RunGame(r, sn, members)
            <4>1. phase[r] = "InProgress"
                BY <3>6 DEF IsActive
            <4>2. phase'[r] \in {"InProgress", "Finished"} /\ game'[r] = game[r] + 1
                BY <3>6, <4>1, RunGameEffect
            <4>3. game'[r] # 0
                BY <1>2, <4>2
            <4>4. QED
                BY <2>2, <3>1, <3>3, <3>4, <4>2, <4>3 DEF SlotsOf, IsJoinable, Live
        <3>7. CASE UNCHANGED <<phase, game>>
            <4>1. IsJoinable(r) => Cardinality(members) < MinPlayers
                BY <1>3, <3>2, <3>5 DEF SlotsOf, ActorAssumption
            <4>2. QED
                BY <1>3, <2>2, <3>1, <3>3, <3>4, <3>5, <3>7, <4>1
                DEF SlotsOf, IsJoinable, Live
        <3>8. QED
            BY <1>5, <3>6, <3>7
    <2>3. QED
        BY <2>1, <2>2
<1>6. QED
    BY <1>4, <1>5 DEF HandleLeave

\* handle_message changes no member; the game goes on existing.
LEMMA SlotsMessage ==
    ASSUME Typed, SlotDiscipline, NEW r \in Rooms, HandleMessage(r)
    PROVE  SlotDiscipline'
<1>1. SUFFICES ASSUME NEW s \in Rooms PROVE SlotsOf(s)'
    BY DEF SlotDiscipline
<1>2. players' = players /\ senders' = senders
    BY DEF HandleMessage
<1>3. SlotsOf(s) /\ SlotsOf(r) /\ game[r] \in Nat
    BY DEF SlotDiscipline, Typed, TypeOK
<1>4. CASE UNCHANGED <<phase, game>>
    BY <1>2, <1>3, <1>4, SlotsFrame
<1>5. CASE MessageReachesGame(r) /\ RunGame(r, senders[r], players[r])
    <2>1. CASE s # r
        <3>1. phase'[s] = phase[s] /\ game'[s] = game[s]
            BY <1>5, <2>1, RunGameEffect
        <3>2. QED
            BY <1>2, <1>3, <3>1, SlotsFrame
    <2>2. CASE s = r
        <3>1. phase[r] \in {"InProgress", "Finished"}
            BY <1>3, <1>5 DEF SlotsOf, MessageReachesGame
        <3>2. phase'[r] \in {"InProgress", "Finished"} /\ game'[r] # 0
            BY <1>3, <1>5, <3>1, RunGameEffect
        <3>3. QED
            BY <1>2, <1>3, <2>2, <3>2 DEF SlotsOf, IsJoinable, Live
    <2>3. QED
        BY <2>1, <2>2
<1>6. QED
    BY <1>4, <1>5 DEF HandleMessage

\* Every step keeps the slots in order, one step per action.
LEMMA SlotsStep ==
    ASSUME ActorAssumption, Slotted, [ActorNext]_actorVars
    PROVE  SlotDiscipline'
<1> USE DEF Slotted
<1>1. ASSUME NEW r \in Rooms, Spawn(r) PROVE SlotDiscipline'
    <2>1. SUFFICES ASSUME NEW s \in Rooms PROVE SlotsOf(s)'
        BY DEF SlotDiscipline
    <2>2. UNCHANGED <<players, senders, game>> /\ phase \in [Rooms -> Phases]
        BY <1>1 DEF Spawn, Typed, TypeOK
    <2>3. CASE s # r
        BY <1>1, <2>2, <2>3, SlotsFrame DEF Spawn, SlotDiscipline
    <2>4. CASE s = r
        <3>1. phase[r] = "Absent" /\ phase'[r] = "WaitingForPlayers"
            BY <1>1, <2>2 DEF Spawn
        <3>2. SlotsOf(r)
            BY DEF SlotDiscipline
        <3>3. QED
            BY <2>2, <2>4, <3>1, <3>2 DEF SlotsOf, IsJoinable, Live
    <2>5. QED
        BY <2>3, <2>4
<1>2. ASSUME NEW r \in Rooms, ActorStep(r) PROVE SlotDiscipline'
    <2>1. CASE HandleInfo(r)
        BY <2>1, SlotsFrame DEF HandleInfo, SlotDiscipline
    <2>2. CASE HandleShutdown(r)
        BY <2>2, SlotsDie DEF HandleShutdown
    <2>3. CASE Panic(r)
        BY <2>3, SlotsDie DEF Panic
    <2>4. QED
        BY <1>2, <2>1, <2>2, <2>3, SlotsJoin, SlotsLeave, SlotsMessage DEF ActorStep
<1>3. ASSUME UNCHANGED <<phase, players, senders, game>> PROVE SlotDiscipline'
    BY <1>3, SlotsFrame DEF SlotDiscipline
<1>4. ASSUME NEW t \in Tasks, NEW r \in Rooms, HandleCall(t, r)
      PROVE  UNCHANGED <<phase, players, senders, game>>
    BY <1>4 DEF HandleCall, AskJoin, AskLeave, SendMessage, GetInfo, SendShutdown, Ask
<1>5. QED
    BY <1>1, <1>2, <1>3, <1>4 DEF ActorNext, TakeReply, CloseChannels, actorVars

\* In every room, for every min_players and max_players, even contradictory
\* ones, membership, slots, lifecycle and the game state agree.
THEOREM SlotsCorrect == ActorSpec => []SlotDiscipline
<1>1. ActorInit => Slotted
    BY ActorAssumption, TypedInit, SlotsInit DEF Slotted
<1>2. Slotted /\ [ActorNext]_actorVars => Slotted'
    BY ActorAssumption, TypedStep, SlotsStep DEF Slotted
<1>3. Slotted => SlotDiscipline
    BY DEF Slotted
<1>4. QED
    BY <1>1, <1>2, <1>3, PTL DEF ActorSpec

-----------------------------------------------------------------------------
(* The life of a room, and who is sent what: properties of steps.          *)

\* A step of one room's actor satisfies LifecycleStep in that room.
LEMMA LifeOfRoom ==
    ASSUME ActorAssumption, Slotted, NEW r \in Rooms, ActorStep(r)
    PROVE  LifecycleStep
<1> DEFINE cmd == Head(queue[r])
<1>1. SUFFICES ASSUME NEW s \in Rooms
               PROVE  /\ phase'[s] # phase[s] => Rank[phase'[s]] > Rank[phase[s]]
                      /\ Rank[phase[s]] >= 2 => players'[s] \subseteq players[s]
    BY DEF LifecycleStep
<1>2. /\ phase \in [Rooms -> Phases] /\ game \in [Rooms -> Nat]
      /\ players \in [Rooms -> SUBSET Players]
      /\ SlotsOf(r)
    BY DEF Slotted, SlotDiscipline, Typed, TypeOK
<1>3. CASE HandleJoin(r)
    <2>1. CASE JoinResult(r, cmd.player) # "ok"
        BY <1>3, <2>1 DEF HandleJoin
    <2>2. CASE JoinResult(r, cmd.player) = "ok"
        <3>1. phase[r] = "WaitingForPlayers"
            BY <2>2 DEF JoinResult, IsJoinable
        <3>2. /\ phase' \in {phase, [phase EXCEPT ![r] = "InProgress"]}
              /\ players' = [players EXCEPT ![r] = @ \cup {cmd.player}]
            BY <1>3, <2>2 DEF HandleJoin
        <3>3. QED
            BY <1>2, <3>1, <3>2 DEF Rank
    <2>3. QED
        BY <2>1, <2>2
<1>4. CASE HandleLeave(r)
    <2> DEFINE members == players[r] \ {cmd.player}
               sn == [senders[r] EXCEPT ![cmd.player] = NoChan]
    <2>1. players' \in {players, [players EXCEPT ![r] = members]}
        BY <1>4 DEF HandleLeave
    <2>2. players'[s] \subseteq players[s]
        BY <1>2, <2>1
    <2>3. phase' = phase \/ (IsActive(r) /\ RunGame(r, sn, members))
        BY <1>4 DEF HandleLeave
    <2>4. phase'[s] # phase[s] => phase[s] = "InProgress" /\ phase'[s] = "Finished"
        BY <2>3, RunGameEffect DEF Slotted, IsActive
    <2>5. QED
        BY <2>2, <2>4 DEF Rank
<1>5. CASE HandleMessage(r)
    <2>1. players' = players
        BY <1>5 DEF HandleMessage
    <2>2. \/ phase' = phase
          \/ MessageReachesGame(r) /\ RunGame(r, senders[r], players[r])
        BY <1>5 DEF HandleMessage
    <2>3. MessageReachesGame(r) => phase[r] \in {"InProgress", "Finished"}
        BY <1>2 DEF MessageReachesGame, SlotsOf
    <2>4. phase'[s] # phase[s] => phase[s] = "InProgress" /\ phase'[s] = "Finished"
        BY <2>2, <2>3, RunGameEffect DEF Slotted
    <2>5. QED
        BY <2>1, <2>4 DEF Rank
<1>6. CASE HandleInfo(r)
    BY <1>6 DEF HandleInfo
<1>7. ASSUME NEW how \in {"Destroying", "Panicked"}, Die(r, how), Live(r)
      PROVE  /\ phase'[s] # phase[s] => Rank[phase'[s]] > Rank[phase[s]]
             /\ players'[s] \subseteq players[s]
    <2>1. /\ phase' = [phase EXCEPT ![r] = how]
          /\ players' = [players EXCEPT ![r] = {}]
        BY <1>7 DEF Die
    <2>2. QED
        BY <1>2, <1>7, <2>1 DEF Live, Rank
<1>8. CASE HandleShutdown(r)
    BY <1>7, <1>8 DEF HandleShutdown, Receives
<1>9. CASE Panic(r)
    BY <1>7, <1>9 DEF Panic, RunsGame, Receives
<1>10. QED
    BY <1>3, <1>4, <1>5, <1>6, <1>8, <1>9 DEF ActorStep

\* Every step of the system satisfies LifecycleStep.
LEMMA LifeStep ==
    ASSUME ActorAssumption, Slotted, [ActorNext]_actorVars
    PROVE  LifecycleStep
<1>1. ASSUME NEW r \in Rooms, Spawn(r) PROVE LifecycleStep
    BY <1>1 DEF Spawn, LifecycleStep, Rank, Slotted, Typed, TypeOK
<1>2. ASSUME UNCHANGED <<phase, players>> PROVE LifecycleStep
    BY <1>2 DEF LifecycleStep
<1>3. ASSUME NEW t \in Tasks, NEW r \in Rooms, HandleCall(t, r)
      PROVE  UNCHANGED <<phase, players>>
    BY <1>3 DEF HandleCall, AskJoin, AskLeave, SendMessage, GetInfo, SendShutdown, Ask
<1>4. QED
    BY <1>1, <1>2, <1>3, LifeOfRoom DEF ActorNext, TakeReply, CloseChannels, actorVars

\* A room only moves forward, and from the start of its game on it only loses
\* members: the check of the state in handle_join is all that stands between
\* a running game and a player who missed its beginning.
THEOREM LifecycleCorrect == ActorSpec => Lifecycle
<1>1. ActorInit => Slotted
    BY ActorAssumption, TypedInit, SlotsInit DEF Slotted
<1>2. Slotted /\ [ActorNext]_actorVars => Slotted'
    BY ActorAssumption, TypedStep, SlotsStep DEF Slotted
<1>3. Slotted /\ [ActorNext]_actorVars => [LifecycleStep]_actorVars
    BY ActorAssumption, LifeStep
<1>4. QED
    BY <1>1, <1>2, <1>3, PTL DEF ActorSpec, Lifecycle

\* A copy goes only where an addressed member's sender leads.
LEMMA CopyToMember ==
    ASSUME NEW sn, NEW members, NEW ch, NEW m, NEW v,
           \A p \in members : sn[p] # ch
    PROVE  Copy(sn, members, ch, m, v) = <<>>
BY DEF Copy

\* What RunGame sends goes to members it was given.
LEMMA RunGameMail ==
    ASSUME Typed, NEW r \in Rooms, NEW sn, NEW members, NEW ch \in Chans,
           RunGame(r, sn, members), \A p \in members : sn[p] # ch
    PROVE  sent'[ch] = sent[ch]
<1>1. PICK out \in Outboxes : Dispatch(sn, members, out, game[r] + 1)
    BY DEF RunGame
<1>2. sent'[ch] = (sent[ch] \o <<>>) \o <<>>
    BY <1>1, CopyToMember DEF Dispatch
<1>3. sent[ch] \in Seq(Messages)
    BY DEF Typed, TypeOK
<1>4. QED
    BY <1>2, <1>3

\* A step of a room's actor only sends to those who are members after it.
LEMMA MailOfRoom ==
    ASSUME Slotted, NEW r \in Rooms, ActorStep(r), NEW ch \in Chans,
           \A p \in players'[r] : senders'[r][p] # ch
    PROVE  sent'[ch] = sent[ch]
<1> DEFINE cmd == Head(queue[r])
<1>0. /\ Typed /\ sent[ch] \in Seq(Messages)
      /\ players \in [Rooms -> SUBSET Players]
      /\ senders \in [Rooms -> [Players -> Chans \cup {NoChan}]]
    BY DEF Slotted, Typed, TypeOK
<1>1. CASE HandleJoin(r)
    <2> DEFINE members == players[r] \cup {cmd.player}
               sn == [senders[r] EXCEPT ![cmd.player] = cmd.chan]
    <2>1. CASE sent' = sent
        BY <2>1
    <2>2. CASE /\ players' = [players EXCEPT ![r] = members]
               /\ senders' = [senders EXCEPT ![r] = sn]
               /\ Snapshot(sn, members)
        <3>1. \A p \in members : sn[p] # ch
            BY <1>0, <2>2
        <3>2. sent'[ch] = sent[ch] \o <<>>
            BY <2>2, <3>1, CopyToMember DEF Snapshot
        <3>3. QED
            BY <1>0, <3>2
    <2>3. QED
        BY <1>1, <2>1, <2>2 DEF HandleJoin
<1>2. CASE HandleLeave(r)
    <2> DEFINE members == players[r] \ {cmd.player}
               sn == [senders[r] EXCEPT ![cmd.player] = NoChan]
    <2>1. CASE sent' = sent
        BY <2>1
    <2>2. CASE /\ players' = [players EXCEPT ![r] = members]
               /\ senders' = [senders EXCEPT ![r] = sn]
               /\ RunGame(r, sn, members)
        <3>1. \A p \in members : sn[p] # ch
            BY <1>0, <2>2
        <3> HIDE DEF members, sn
        <3>2. QED
            BY <1>0, <2>2, <3>1, RunGameMail
    <2>3. QED
        BY <1>2, <2>1, <2>2 DEF HandleLeave
<1>3. CASE HandleMessage(r)
    <2>1. players' = players /\ senders' = senders
        BY <1>3 DEF HandleMessage
    <2>2. sent' = sent \/ RunGame(r, senders[r], players[r])
        BY <1>3 DEF HandleMessage
    <2>3. CASE sent' = sent
        BY <2>3
    <2>4. CASE RunGame(r, senders[r], players[r])
        <3>1. \A p \in players[r] : senders[r][p] # ch
            BY <2>1
        <3>2. QED
            BY <1>0, <2>4, <3>1, RunGameMail
    <2>5. QED
        BY <2>2, <2>3, <2>4
<1>4. CASE HandleInfo(r) \/ HandleShutdown(r) \/ Panic(r)
    BY <1>4 DEF HandleInfo, HandleShutdown, Panic, Die
<1>5. QED
    BY <1>1, <1>2, <1>3, <1>4 DEF ActorStep

\* Every step of the system satisfies MailStep.
LEMMA MailOfStep ==
    ASSUME Slotted, [ActorNext]_actorVars
    PROVE  MailStep
<1>1. SUFFICES ASSUME NEW ch \in Chans, Len(sent'[ch]) > Len(sent[ch])
               PROVE  \E r \in Rooms : \E p \in players'[r] : senders'[r][p] = ch
    BY DEF MailStep
<1>2. Len(sent[ch]) \in Nat /\ sent \in [Chans -> Seq(Messages)]
    BY DEF Slotted, Typed, TypeOK
<1>3. sent'[ch] # sent[ch]
    BY <1>1, <1>2
<1>4. ASSUME NEW t \in Tasks, NEW r \in Rooms, HandleCall(t, r)
      PROVE  FALSE
    <2>1. CASE sent' = sent
        BY <1>3, <2>1
    <2>2. CASE \E p \in Players, c \in Chans : AskJoin(t, r, p, c)
        <3>1. PICK c \in Chans : sent' = [sent EXCEPT ![c] = <<>>]
            BY <2>2 DEF AskJoin
        <3>2. sent'[ch] = <<>>
            BY <1>2, <1>3, <3>1
        <3>3. QED
            BY <1>1, <1>2, <3>2
    <2>3. QED
        BY <1>4, <2>1, <2>2
        DEF HandleCall, AskLeave, SendMessage, GetInfo, SendShutdown, Ask
<1>5. PICK r \in Rooms : ActorStep(r)
    BY <1>3, <1>4 DEF ActorNext, Spawn, TakeReply, CloseChannels, actorVars
<1>6. QED
    BY <1>3, <1>5, MailOfRoom

\* Whatever the game addresses, only players who are members once the command
\* is handled are sent anything by it.
THEOREM MailCorrect == ActorSpec => MailOnlyToMembers
<1>1. ActorInit => Slotted
    BY ActorAssumption, TypedInit, SlotsInit DEF Slotted
<1>2. Slotted /\ [ActorNext]_actorVars => Slotted'
    BY ActorAssumption, TypedStep, SlotsStep DEF Slotted
<1>3. Slotted /\ [ActorNext]_actorVars => [MailStep]_actorVars
    BY MailOfStep
<1>4. QED
    BY <1>1, <1>2, <1>3, PTL DEF ActorSpec, MailOnlyToMembers
=============================================================================
