----------------------------- MODULE RoomActor -----------------------------
(***************************************************************************)
(* Room actors and the handles through which tasks talk to them            *)
(* (arcforge-room/src/room.rs).                                            *)
(*                                                                         *)
(* A room is a Tokio task that owns its state and consumes one command at  *)
(* a time from a bounded channel.  A handler never awaits, so one command  *)
(* is one atomic step.  Tasks send commands through a RoomHandle: Join,    *)
(* Leave and GetState carry a oneshot sender and the caller awaits the     *)
(* answer, Message and Shutdown are fire-and-forget.                       *)
(*                                                                         *)
(* The game (trait GameLogic) is arbitrary: it may accept or refuse any    *)
(* message, address its output to anyone, declare the game finished at any *)
(* call, and panic.  Its state is a version number that every callback     *)
(* which may mutate it increments.                                         *)
(***************************************************************************)
EXTENDS Naturals, Sequences, FiniteSets

CONSTANTS
    Rooms,        \* identifiers NEXT_ROOM_ID hands out
    Players,
    Tasks,        \* Tokio tasks that call handles
    Chans,        \* unbounded channels made for players' outbound messages
    NoChan, NoPlayer,
    MinPlayers, MaxPlayers, \* RoomConfig: two unrelated usize
    ChannelSize,  \* DEFAULT_CHANNEL_SIZE
    Outboxes,     \* what one game callback may return: pairs of Recipients
    MaxVersion,   \* bound: the game refuses messages from this version on
    GameMayPanic

\* Recipient, plus "Nobody" for a shorter Vec than two entries (bound).
Recipients == [kind : {"Nobody", "All"}, player : {NoPlayer}]
              \cup [kind : {"Player", "AllExcept"}, player : Players]

ASSUME ActorAssumption ==
    /\ IsFiniteSet(Players)
    /\ NoPlayer \notin Players
    /\ NoChan \notin Chans
    /\ MinPlayers \in Nat /\ MaxPlayers \in Nat
    /\ ChannelSize \in Nat \ {0}
    /\ Outboxes \subseteq Recipients \X Recipients
    /\ MaxVersion \in Nat
    /\ GameMayPanic \in BOOLEAN

VARIABLES
    phase,    \* room |-> lifecycle state, as far as others can see it
    players,  \* room |-> members
    senders,  \* room |-> player |-> outbound channel
    game,     \* room |-> version of the game state, 0 for None
    queue,    \* room |-> commands sent and not yet received
    reply,    \* task |-> what its current handle call is waiting for or got
    rx,       \* channels whose receiving half still exists
    sent      \* channel |-> everything ever put into it

actorVars == <<phase, players, senders, game, queue, reply, rx, sent>>

(***************************************************************************)
(* Starting is never visible from outside a handler: the same synchronous  *)
(* call enters it and leaves it.  "Absent" is a room not spawned yet,      *)
(* "Panicked" a room whose task a panic of the game has ended.             *)
(***************************************************************************)
Phases == {"Absent", "WaitingForPlayers", "InProgress", "Finished",
           "Destroying", "Panicked"}

Ops == {"join", "leave", "message", "info", "shutdown"}
AskOps == {"join", "leave", "info"}          \* commands that carry a oneshot

Commands == [op : Ops, task : Tasks, player : Players \cup {NoPlayer},
             chan : Chans \cup {NoChan}]

\* RoomInfo is abstracted to what its two readers look at: a joinable room
\* with a free slot, a joinable room without, a room that is not joinable.
Infos == {"open", "filled", "closed"}
Refusals == {"not_joinable", "already_in", "full", "not_in", "unavailable"}
Results == {"none", "pending", "ok"} \cup Infos \cup Refusals

Messages == [kind : {"State", "All", "Player", "AllExcept"}, version : Nat]

NoSenders == [p \in Players |-> NoChan]

Live(r) == phase[r] \in {"WaitingForPlayers", "InProgress", "Finished"}
IsJoinable(r) == phase[r] = "WaitingForPlayers"
IsActive(r) == phase[r] = "InProgress"

ActorInit ==
    /\ phase = [r \in Rooms |-> "Absent"]
    /\ players = [r \in Rooms |-> {}]
    /\ senders = [r \in Rooms |-> NoSenders]
    /\ game = [r \in Rooms |-> 0]
    /\ queue = [r \in Rooms |-> <<>>]
    /\ reply = [t \in Tasks |-> "none"]
    /\ rx = {}
    /\ sent = [ch \in Chans |-> <<>>]

-----------------------------------------------------------------------------
(* spawn_room and the RoomHandle methods, as any task may call them. *)

Spawn(r) ==
    /\ phase[r] = "Absent"
    /\ phase' = [phase EXCEPT ![r] = "WaitingForPlayers"]
    /\ UNCHANGED <<players, senders, game, queue, reply, rx, sent>>

\* A channel nobody else holds an end of, or one that is still empty: what
\* mpsc::unbounded_channel() returns (identifiers are recycled).
Fresh(ch) ==
    /\ \A r \in Rooms : /\ \A p \in Players : senders[r][p] # ch
                        /\ \A i \in DOMAIN queue[r] : queue[r][i].chan # ch
    /\ ch \in rx => sent[ch] = <<>>

\* mpsc::Sender::send: waits for a slot, fails once the actor is gone.
Enqueue(r, cmd) ==
    /\ reply[cmd.task] = "none"
    /\ \/ /\ Live(r)
          /\ Len(queue[r]) < ChannelSize
          /\ queue' = [queue EXCEPT ![r] = Append(@, cmd)]
          /\ reply' = [reply EXCEPT ![cmd.task] =
                           IF cmd.op \in AskOps THEN "pending" ELSE "ok"]
       \/ /\ phase[r] \in {"Destroying", "Panicked"}
          /\ reply' = [reply EXCEPT ![cmd.task] = "unavailable"]
          /\ UNCHANGED queue

AskJoin(t, r, p, ch) ==
    /\ Fresh(ch)
    /\ Enqueue(r, [op |-> "join", task |-> t, player |-> p, chan |-> ch])
    /\ rx' = rx \cup {ch}
    /\ sent' = [sent EXCEPT ![ch] = <<>>]
    /\ UNCHANGED <<phase, players, senders, game>>

Ask(t, r, op, p) ==
    /\ Enqueue(r, [op |-> op, task |-> t, player |-> p, chan |-> NoChan])
    /\ UNCHANGED <<phase, players, senders, game, rx, sent>>

AskLeave(t, r, p) == Ask(t, r, "leave", p)
SendMessage(t, r, p) == Ask(t, r, "message", p)
GetInfo(t, r) == Ask(t, r, "info", NoPlayer)
SendShutdown(t, r) == Ask(t, r, "shutdown", NoPlayer)

\* The awaited call returns; the caller may drop receivers with it.
TakeReply(t, dropped) ==
    /\ reply[t] \notin {"none", "pending"}
    /\ reply' = [reply EXCEPT ![t] = "none"]
    /\ rx' = rx \ dropped
    /\ UNCHANGED <<phase, players, senders, game, queue, sent>>

\* A connection ends, or is pointed at another room: its receiver goes away.
CloseChannels(dropped) ==
    /\ dropped \subseteq rx
    /\ rx' = rx \ dropped
    /\ UNCHANGED <<phase, players, senders, game, queue, reply, sent>>

-----------------------------------------------------------------------------
(* The actor loop: one command, handled to completion, per step. *)

Receives(r, op) ==
    /\ Live(r)
    /\ queue[r] # <<>>
    /\ Head(queue[r]).op = op

Answer(cmd, result) == reply' = [reply EXCEPT ![cmd.task] = result]

Addresses(m, p) ==
    \/ m.kind \in {"State", "All"}
    \/ m.kind = "Player" /\ p = m.player
    \/ m.kind = "AllExcept" /\ p # m.player

\* send_to: a channel gets a copy if a member it belongs to is addressed and
\* its receiver is still there; otherwise the message is silently dropped.
Copy(sn, members, ch, m, v) ==
    IF ch \in rx /\ \E p \in members : sn[p] = ch /\ Addresses(m, p)
    THEN <<[kind |-> m.kind, version |-> v]>>
    ELSE <<>>

Dispatch(sn, members, out, v) ==
    sent' = [ch \in Chans |-> sent[ch] \o Copy(sn, members, ch, out[1], v)
                                       \o Copy(sn, members, ch, out[2], v)]

MutSnapshotToOne(sn, members) ==
    \E p \in members :
        sent' = [ch \in Chans |->
                    sent[ch] \o Copy(sn, {p}, ch,
                                     [kind |-> "State", player |-> NoPlayer], 1)]

\* The initial RoomOutbound::State, to every member.
Snapshot(sn, members) ==
    sent' = [ch \in Chans |->
                sent[ch] \o Copy(sn, members, ch,
                                 [kind |-> "State", player |-> NoPlayer], 1)]

MutJoinAnyState(r, p) ==
    CASE p \in players[r]                        -> "already_in"
      [] /\ p \notin players[r]
         /\ Cardinality(players[r]) >= MaxPlayers -> "full"
      [] OTHER                                   -> "ok"

MutJoinIgnoresMax(r, p) ==
    CASE ~IsJoinable(r)                          -> "not_joinable"
      [] IsJoinable(r) /\ p \in players[r]       -> "already_in"
      [] OTHER                                   -> "ok"

JoinResult(r, p) ==
    CASE ~IsJoinable(r)                          -> "not_joinable"
      [] IsJoinable(r) /\ p \in players[r]       -> "already_in"
      [] /\ IsJoinable(r) /\ p \notin players[r]
         /\ Cardinality(players[r]) >= MaxPlayers -> "full"
      [] OTHER                                   -> "ok"

MutStartsAbove(members) == Cardinality(members) > MinPlayers

StartsWith(members) == Cardinality(members) >= MinPlayers

HandleJoin(r) ==
    LET cmd == Head(queue[r])
        result == JoinResult(r, cmd.player)
        members == players[r] \cup {cmd.player}
        sn == [senders[r] EXCEPT ![cmd.player] = cmd.chan]
    IN  /\ Receives(r, "join")
        /\ queue' = [queue EXCEPT ![r] = Tail(@)]
        /\ Answer(cmd, result)
        /\ \/ /\ result # "ok"
              /\ UNCHANGED <<phase, players, senders, game, sent>>
           \/ /\ result = "ok"
              /\ players' = [players EXCEPT ![r] = members]
              /\ senders' = [senders EXCEPT ![r] = sn]
              /\ \/ /\ StartsWith(members)
                    /\ phase' = [phase EXCEPT ![r] = "InProgress"]
                    /\ game' = [game EXCEPT ![r] = 1]
                    /\ Snapshot(sn, members)
                 \/ /\ ~StartsWith(members)
                    /\ UNCHANGED <<phase, game, sent>>
        /\ UNCHANGED rx

MutRunGameResumes(r, sn, members) ==
    \E out \in Outboxes, finished \in BOOLEAN :
        /\ game' = [game EXCEPT ![r] = @ + 1]
        /\ Dispatch(sn, members, out, game[r] + 1)
        /\ phase' = [phase EXCEPT ![r] = IF finished THEN "Finished" ELSE "InProgress"]

\* A callback that may mutate the game state, and what follows it: dispatch
\* to the members, then Finished if is_finished said so.
RunGame(r, sn, members) ==
    \E out \in Outboxes, finished \in BOOLEAN :
        /\ game' = [game EXCEPT ![r] = @ + 1]
        /\ Dispatch(sn, members, out, game[r] + 1)
        /\ phase' = [phase EXCEPT ![r] = IF finished THEN "Finished" ELSE @]

MutLeaveNotifiesLeaver(r) ==
    LET cmd == Head(queue[r])
    IN  /\ Receives(r, "leave")
        /\ queue' = [queue EXCEPT ![r] = Tail(@)]
        /\ cmd.player \in players[r]
        /\ Answer(cmd, "ok")
        /\ players' = [players EXCEPT ![r] = @ \ {cmd.player}]
        /\ senders' = [senders EXCEPT ![r][cmd.player] = NoChan]
        /\ \/ IsActive(r) /\ RunGame(r, senders[r], players[r])
           \/ ~IsActive(r) /\ UNCHANGED <<phase, game, sent>>
        /\ UNCHANGED rx

HandleLeave(r) ==
    LET cmd == Head(queue[r])
        members == players[r] \ {cmd.player}
        sn == [senders[r] EXCEPT ![cmd.player] = NoChan]
    IN  /\ Receives(r, "leave")
        /\ queue' = [queue EXCEPT ![r] = Tail(@)]
        /\ \/ /\ cmd.player \notin players[r]
              /\ Answer(cmd, "not_in")
              /\ UNCHANGED <<phase, players, senders, game, sent>>
           \/ /\ cmd.player \in players[r]
              /\ Answer(cmd, "ok")
              /\ players' = [players EXCEPT ![r] = members]
              /\ senders' = [senders EXCEPT ![r] = sn]
              /\ \/ IsActive(r) /\ RunGame(r, sn, members)
                 \/ ~IsActive(r) /\ UNCHANGED <<phase, game, sent>>
        /\ UNCHANGED rx

\* A message of a non-member, or before the game exists, is dropped; so is,
\* without any answer, one that validate_message refuses.
MessageReachesGame(r) ==
    Head(queue[r]).player \in players[r] /\ game[r] # 0

HandleMessage(r) ==
    /\ Receives(r, "message")
    /\ queue' = [queue EXCEPT ![r] = Tail(@)]
    /\ \/ UNCHANGED <<phase, game, sent>>
       \/ /\ MessageReachesGame(r)
          /\ game[r] < MaxVersion
          /\ RunGame(r, senders[r], players[r])
    /\ UNCHANGED <<players, senders, reply, rx>>

MutInfoIsState(r) == phase[r]

Info(r) ==
    CASE ~IsJoinable(r) -> "closed"
      [] IsJoinable(r) /\ Cardinality(players[r]) < MaxPlayers -> "open"
      [] OTHER -> "filled"

HandleInfo(r) ==
    /\ Receives(r, "info")
    /\ queue' = [queue EXCEPT ![r] = Tail(@)]
    /\ Answer(Head(queue[r]), Info(r))
    /\ UNCHANGED <<phase, players, senders, game, rx, sent>>


\* The actor's task ends: its state and every queued command are dropped,
\* and with a command the oneshot its caller waits on.
Die(r, how) ==
    /\ phase' = [phase EXCEPT ![r] = how]
    /\ players' = [players EXCEPT ![r] = {}]
    /\ senders' = [senders EXCEPT ![r] = NoSenders]
    /\ game' = [game EXCEPT ![r] = 0]
    /\ queue' = [queue EXCEPT ![r] = <<>>]
    /\ reply' = [t \in Tasks |->
                    IF \E i \in DOMAIN queue[r] :
                          queue[r][i].task = t /\ queue[r][i].op \in AskOps
                    THEN "unavailable" ELSE reply[t]]
    /\ UNCHANGED <<rx, sent>>

HandleShutdown(r) ==
    /\ Receives(r, "shutdown")
    /\ Die(r, "Destroying")

\* The command being handled runs code of the game, and it panics.
RunsGame(r) ==
    LET p == Head(queue[r]).player
    IN  \/ /\ Receives(r, "join") /\ JoinResult(r, p) = "ok"
           /\ StartsWith(players[r] \cup {p})
        \/ Receives(r, "leave") /\ p \in players[r] /\ IsActive(r)
        \/ Receives(r, "message") /\ MessageReachesGame(r)

Panic(r) ==
    /\ GameMayPanic
    /\ RunsGame(r)
    /\ Die(r, "Panicked")

ActorStep(r) ==
    \/ HandleJoin(r) \/ HandleLeave(r) \/ HandleMessage(r)
    \/ HandleInfo(r) \/ HandleShutdown(r) \/ Panic(r)

HandleCall(t, r) ==
    \/ \E p \in Players, ch \in Chans : AskJoin(t, r, p, ch)
    \/ \E p \in Players : AskLeave(t, r, p) \/ SendMessage(t, r, p)
    \/ GetInfo(t, r)
    \/ SendShutdown(t, r)

ActorNext ==
    \/ \E r \in Rooms : Spawn(r) \/ ActorStep(r)
    \/ \E t \in Tasks, r \in Rooms : HandleCall(t, r)
    \/ \E t \in Tasks, dropped \in SUBSET Chans : TakeReply(t, dropped)
    \/ \E dropped \in SUBSET Chans : CloseChannels(dropped)

\* Tokio polls a task whose channel is not empty.
ActorFairness == \A r \in Rooms : WF_actorVars(ActorStep(r))

ActorSpec == ActorInit /\ [][ActorNext]_actorVars /\ ActorFairness

-----------------------------------------------------------------------------
(* Properties. *)

\* Every variable has its type.
TypeOK ==
    /\ phase \in [Rooms -> Phases]
    /\ players \in [Rooms -> SUBSET Players]
    /\ senders \in [Rooms -> [Players -> Chans \cup {NoChan}]]
    /\ game \in [Rooms -> Nat]
    /\ queue \in [Rooms -> Seq(Commands)]
    /\ reply \in [Tasks -> Results]
    /\ rx \in SUBSET Chans
    /\ sent \in [Chans -> Seq(Messages)]

AtLeastOne(n) == IF n = 0 THEN 1 ELSE n

\* Membership, slots and the game agree, whatever min_players and max_players
\* are: exactly the members have an outbound channel; a waiting room is below
\* its minimum; max_players is respected; since the game starts the moment the
\* minimum is reached, no room ever has more than min_players members (one,
\* if the minimum is 0); a game state exists exactly from the start on.
SlotsOf(r) ==
    /\ players[r] = {p \in Players : senders[r][p] # NoChan}
    /\ Cardinality(players[r]) <= MaxPlayers
    /\ Cardinality(players[r]) <= AtLeastOne(MinPlayers)
    /\ IsJoinable(r) => players[r] = {} \/ Cardinality(players[r]) < MinPlayers
    /\ ~Live(r) => players[r] = {}
    /\ game[r] # 0 <=> phase[r] \in {"InProgress", "Finished"}

SlotDiscipline == \A r \in Rooms : SlotsOf(r)

\* What a client reads from its room starts with the one State snapshot, and
\* no message it reads describes an older game state than one before it.
DeliveryOrder ==
    \A ch \in Chans : \A i, j \in DOMAIN sent[ch] :
        /\ sent[ch][i].kind = "State" <=> i = 1
        /\ i < j => sent[ch][i].version <= sent[ch][j].version

ToEveryone(m) == m.kind \in {"State", "All"}

\* The snapshots and broadcasts among the first n messages of a log.
Broadcasts(log, n) == {i \in 1..n : ToEveryone(log[i])}

\* Whatever is the n-th of them in a is the n-th of them in b.
HasBroadcastsOf(b, a) ==
    \A i \in Broadcasts(a, Len(a)) : \E j \in Broadcasts(b, Len(b)) :
        /\ b[j] = a[i]
        /\ Cardinality(Broadcasts(b, j)) = Cardinality(Broadcasts(a, i))

\* All members of a room that still listen have been sent the same snapshot
\* and the same broadcasts in the same order.
MembersAgree ==
    \A r \in Rooms : \A p, q \in players[r] :
        LET cp == senders[r][p]
            cq == senders[r][q]
        IN  cp \in rx /\ cq \in rx => HasBroadcastsOf(sent[cq], sent[cp])

\* Only a player who is a member after the command has been handled is sent
\* anything by it: who leaves does not hear of it, or of anything later.
MailStep ==
    \A ch \in Chans :
        Len(sent'[ch]) > Len(sent[ch]) =>
           \E r \in Rooms : \E p \in players'[r] : senders'[r][p] = ch

MailOnlyToMembers == [][MailStep]_actorVars

Rank == [Absent |-> 0, WaitingForPlayers |-> 1, InProgress |-> 2,
         Finished |-> 3, Destroying |-> 4, Panicked |-> 4]

\* A room's life goes one way, the dead stay dead, and from the start of the
\* game on nobody joins: members can only be lost.
LifecycleStep ==
    \A r \in Rooms :
        /\ phase'[r] # phase[r] => Rank[phase'[r]] > Rank[phase[r]]
        /\ Rank[phase[r]] >= 2 => players'[r] \subseteq players[r]

Lifecycle == [][LifecycleStep]_actorVars

=============================================================================
