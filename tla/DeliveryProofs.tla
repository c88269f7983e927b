--------------------------- MODULE DeliveryProofs ---------------------------
(***************************************************************************)
(* What RoomActor promises about the messages its members read: their      *)
(* order (DeliveryOrder) and that all get the same broadcasts              *)
(* (MembersAgree).  Both rest on who holds which channel: every channel    *)
(* belongs to one member or one queued Join, an empty one until the game   *)
(* starts, never ahead of the game afterwards (Delivering).                *)
(***************************************************************************)
EXTENDS RoomActorProofs

-----------------------------------------------------------------------------
(* What a channel carries. *)

\* One channel's part of DeliveryOrder.
Ordered(log) ==
    \A i, j \in DOMAIN log :
        /\ log[i].kind = "State" <=> i = 1
        /\ i < j => log[i].version <= log[j].version

UpTo(log, v) == \A i \in DOMAIN log : log[i].version <= v

\* No two members, of one room or of two, share a channel.
OwnChannels ==
    \A r, s \in Rooms : \A p, q \in Players :
        senders[r][p] # NoChan /\ senders[r][p] = senders[s][q] => r = s /\ p = q

\* A channel that waits in a queue with a Join is empty and nobody else's.
Untouched(r, i) ==
    LET ch == queue[r][i].chan
    IN  /\ sent[ch] = <<>>
        /\ \A s \in Rooms : \A p \in Players : senders[s][p] # ch
        /\ \A s \in Rooms : \A j \in DOMAIN queue[s] :
              queue[s][j].op = "join" /\ queue[s][j].chan = ch => s = r /\ j = i

JoinsUntouched ==
    \A r \in Rooms : \A i \in DOMAIN queue[r] :
        queue[r][i].op = "join" => Untouched(r, i)

\* A member's channel is empty until the game starts and, if anybody reads it,
\* not from then on; it is never ahead of the game.
MemberMail(r, p) ==
    LET log == sent[senders[r][p]]
    IN  /\ IsJoinable(r) => log = <<>>
        /\ ~IsJoinable(r) /\ senders[r][p] \in rx => log # <<>>
        /\ UpTo(log, game[r])

MembersMail == \A r \in Rooms : \A p \in players[r] : MemberMail(r, p)

Delivering ==
    Slotted /\ OwnChannels /\ JoinsUntouched /\ MembersMail /\ DeliveryOrder

\* A message of the present state goes on what is up to it.
LEMMA OrderedAppend ==
    ASSUME NEW log \in Seq(Messages), NEW m \in Messages, Ordered(log),
           UpTo(log, m.version), m.kind = "State" <=> log = <<>>
    PROVE  /\ Ordered(log \o <<m>>) /\ UpTo(log \o <<m>>, m.version)
           /\ log \o <<m>> \in Seq(Messages) /\ log \o <<m>> # <<>>
<1> DEFINE new == log \o <<m>>
<1>1. /\ new \in Seq(Messages) /\ Len(new) = Len(log) + 1
      /\ \A i \in 1..Len(log) : new[i] = log[i]
      /\ new[Len(log) + 1] = m
    OBVIOUS
<1>2. log = <<>> <=> Len(log) = 0
    OBVIOUS
<1>3. DOMAIN new = 1..(Len(log) + 1) /\ DOMAIN log = 1..Len(log) /\ Len(log) \in Nat
    BY <1>1
<1>4. m.version \in Nat /\ \A i \in DOMAIN log : log[i].version \in Nat
    <2>1. \A i \in DOMAIN log : log[i] \in Messages
        OBVIOUS
    <2>2. QED
        BY <2>1 DEF Messages
<1> HIDE DEF new
<1>5. UpTo(new, m.version)
    BY <1>1, <1>3, <1>4 DEF UpTo
<1>6. \A i \in DOMAIN new : new[i].kind = "State" <=> i = 1
    <2>1. SUFFICES ASSUME NEW i \in DOMAIN new
                   PROVE  new[i].kind = "State" <=> i = 1
        OBVIOUS
    <2>2. CASE i \in DOMAIN log
        BY <1>1, <1>3, <2>2 DEF Ordered
    <2>3. CASE i = Len(log) + 1
        BY <1>1, <1>2, <1>3, <2>3
    <2>4. QED
        BY <1>3, <2>2, <2>3
<1>7. \A i, j \in DOMAIN new : i < j => new[i].version <= new[j].version
    <2>1. SUFFICES ASSUME NEW i \in DOMAIN new, NEW j \in DOMAIN new, i < j
                   PROVE  new[i].version <= new[j].version
        OBVIOUS
    <2>2. CASE j \in DOMAIN log
        BY <1>1, <1>3, <2>1, <2>2 DEF Ordered
    <2>3. CASE j = Len(log) + 1
        BY <1>1, <1>3, <2>1, <2>3 DEF UpTo
    <2>4. QED
        BY <1>3, <2>2, <2>3
<1>8. new # <<>>
    BY <1>1, <1>3
<1>9. QED
    BY <1>1, <1>5, <1>6, <1>7, <1>8 DEF Ordered, new

\* A copy is one message of the version named, or none.
LEMMA CopyIs ==
    ASSUME NEW sn, NEW members, NEW ch, NEW v \in Nat,
           NEW m \in Recipients \cup [kind : {"State"}, player : {NoPlayer}]
    PROVE  \/ Copy(sn, members, ch, m, v) = <<>>
           \/ \E c \in Messages : /\ Copy(sn, members, ch, m, v) = <<c>>
                                  /\ c.version = v /\ c.kind = m.kind
<1>1. CASE Copy(sn, members, ch, m, v) = <<>>
    BY <1>1
<1>2. CASE Copy(sn, members, ch, m, v) # <<>>
    <2>1. /\ \E p \in members : Addresses(m, p)
          /\ Copy(sn, members, ch, m, v) = <<[kind |-> m.kind, version |-> v]>>
        BY <1>2 DEF Copy
    <2>2. [kind |-> m.kind, version |-> v] \in Messages
        BY <2>1 DEF Addresses, Recipients, Messages
    <2>3. QED
        BY <2>1, <2>2
<1>3. QED
    BY <1>1, <1>2

\* What a callback's output adds to a channel that is not empty, or nothing.
LEMMA DispatchOrdered ==
    ASSUME ActorAssumption, sent \in [Chans -> Seq(Messages)],
           NEW sn, NEW members, NEW out \in Outboxes, NEW v \in Nat,
           Dispatch(sn, members, out, v), NEW ch \in Chans,
           Ordered(sent[ch]), UpTo(sent[ch], v),
           ch \in rx /\ (\E p \in members : sn[p] = ch) => sent[ch] # <<>>
    PROVE  /\ Ordered(sent'[ch]) /\ UpTo(sent'[ch], v)
           /\ sent[ch] # <<>> => sent'[ch] # <<>>
<1> DEFINE c1 == Copy(sn, members, ch, out[1], v)
           c2 == Copy(sn, members, ch, out[2], v)
<1>1. sent'[ch] = sent[ch] \o c1 \o c2
    BY DEF Dispatch
<1>2. out[1] \in Recipients /\ out[2] \in Recipients
    BY DEF ActorAssumption
<1>3. sent[ch] \in Seq(Messages)
    OBVIOUS
<1>4. CASE sent[ch] = <<>>
    <2>1. c1 = <<>> /\ c2 = <<>>
        BY <1>4 DEF Copy
    <2>2. QED
        BY <1>1, <1>3, <1>4, <2>1
<1>5. CASE sent[ch] # <<>>
    <2>1. ASSUME NEW log \in Seq(Messages), Ordered(log), UpTo(log, v), log # <<>>,
                 NEW m \in Recipients
          PROVE  LET new == log \o Copy(sn, members, ch, m, v)
                 IN  new \in Seq(Messages) /\ Ordered(new) /\ UpTo(new, v) /\ new # <<>>
        <3>1. CASE Copy(sn, members, ch, m, v) = <<>>
            BY <2>1, <3>1
        <3>2. ASSUME NEW c \in Messages, Copy(sn, members, ch, m, v) = <<c>>,
                     c.version = v, c.kind = m.kind
              PROVE  LET new == log \o Copy(sn, members, ch, m, v)
                     IN  new \in Seq(Messages) /\ Ordered(new) /\ UpTo(new, v) /\ new # <<>>
            <4>1. c.kind # "State"
                BY <3>2 DEF Recipients
            <4>2. QED
                BY <2>1, <3>2, <4>1, OrderedAppend
        <3>3. QED
            BY <3>1, <3>2, CopyIs
    <2>2. /\ sent[ch] \o c1 \in Seq(Messages) /\ Ordered(sent[ch] \o c1)
          /\ UpTo(sent[ch] \o c1, v) /\ sent[ch] \o c1 # <<>>
        BY <1>2, <1>3, <1>5, <2>1
    <2>3. /\ Ordered((sent[ch] \o c1) \o c2) /\ UpTo((sent[ch] \o c1) \o c2, v)
          /\ (sent[ch] \o c1) \o c2 # <<>>
        BY <1>2, <2>1, <2>2
    <2>4. QED
        BY <1>1, <2>3
<1>6. QED
    BY <1>4, <1>5

\* The snapshot is the first message of everybody who reads.
LEMMA SnapshotOrdered ==
    ASSUME sent \in [Chans -> Seq(Messages)], NEW sn, NEW members,
           Snapshot(sn, members), NEW p \in members, sn[p] \in Chans,
           sent[sn[p]] = <<>>
    PROVE  /\ Ordered(sent'[sn[p]]) /\ UpTo(sent'[sn[p]], 1)
           /\ sn[p] \in rx => sent'[sn[p]] # <<>>
<1> DEFINE ch == sn[p]
           m == [kind |-> "State", player |-> NoPlayer]
           c == [kind |-> "State", version |-> 1]
<1>1. sent'[ch] = <<>> \o Copy(sn, members, ch, m, 1)
    BY DEF Snapshot
<1>2. CASE ch \in rx
    <2>1. Addresses(m, p)
        BY DEF Addresses
    <2>2. Copy(sn, members, ch, m, 1) = <<c>>
        BY <1>2, <2>1 DEF Copy
    <2>3. c \in Messages /\ Ordered(<<>>) /\ UpTo(<<>>, 1)
        BY DEF Messages, Ordered, UpTo
    <2>4. QED
        BY <1>1, <2>2, <2>3, OrderedAppend
<1>3. CASE ch \notin rx
    <2>1. sent'[ch] = <<>>
        BY <1>1, <1>3 DEF Copy
    <2>2. QED
        BY <1>3, <2>1 DEF Ordered, UpTo
<1>4. QED
    BY <1>2, <1>3

\* A callback's output keeps the order in every member's channel.
LEMMA RunGameDelivers ==
    ASSUME ActorAssumption, Delivering, NEW r \in Rooms,
           NEW sn, NEW members, RunGame(r, sn, members),
           IsActive(r) \/ phase[r] = "Finished",
           NEW p \in members, p \in players[r], sn[p] = senders[r][p],
           \A q \in members : sn[q] = senders[r][q] /\ q \in players[r]
    PROVE  /\ Ordered(sent'[sn[p]]) /\ UpTo(sent'[sn[p]], game'[r])
           /\ sn[p] \in rx => sent'[sn[p]] # <<>>
           /\ phase'[r] \in {"InProgress", "Finished"}
<1> DEFINE ch == sn[p]
<1>1. /\ sent \in [Chans -> Seq(Messages)] /\ game[r] \in Nat
      /\ game \in [Rooms -> Nat] /\ phase \in [Rooms -> Phases]
    BY DEF Delivering, Slotted, Typed, TypeOK
<1>2. ch \in Chans
    BY DEF Delivering, Slotted, SlotDiscipline, SlotsOf, Typed, TypeOK
<1>3. Ordered(sent[ch])
    BY <1>2 DEF Delivering, DeliveryOrder, Ordered
<1>4. MemberMail(r, p) /\ ~IsJoinable(r)
    BY DEF Delivering, MembersMail, IsActive, IsJoinable
<1>5. UpTo(sent[ch], game[r] + 1) /\ (ch \in rx => sent[ch] # <<>>)
    <2>1. \A i \in DOMAIN sent[ch] : sent[ch][i] \in Messages
        BY <1>1, <1>2
    <2>2. QED
        BY <1>1, <1>4, <2>1 DEF MemberMail, UpTo, Messages
<1>6. PICK out \in Outboxes, finished \in BOOLEAN :
         /\ game'[r] = game[r] + 1
         /\ Dispatch(sn, members, out, game[r] + 1)
         /\ phase'[r] = IF finished THEN "Finished" ELSE phase[r]
    BY <1>1 DEF RunGame
<1>7. /\ Ordered(sent'[ch]) /\ UpTo(sent'[ch], game[r] + 1)
      /\ sent[ch] # <<>> => sent'[ch] # <<>>
    BY <1>1, <1>2, <1>3, <1>5, <1>6, DispatchOrdered
<1>8. QED
    BY <1>5, <1>6, <1>7 DEF IsActive

\* A handler keeps what concerns the other rooms and the queues if it keeps
\* what concerns its own members.
LEMMA RoomDelivers ==
    ASSUME ActorAssumption, Delivering, Slotted', NEW r \in Rooms, ActorStep(r),
           \A p \in players'[r] : MemberMail(r, p)' /\ Ordered(sent'[senders'[r][p]])
    PROVE  Delivering'
<1> USE DEF Delivering, Slotted, Typed
<1>1. /\ queue \in [Rooms -> Seq(Commands)] /\ sent \in [Chans -> Seq(Messages)]
      /\ senders \in [Rooms -> [Players -> Chans \cup {NoChan}]]
      /\ players \in [Rooms -> SUBSET Players] /\ NoChan \notin Chans
    BY DEF TypeOK, ActorAssumption
<1>2. \A ch \in Chans : (\A p \in players'[r] : senders'[r][p] # ch) => sent'[ch] = sent[ch]
    BY MailOfRoom
<1>3. /\ rx' = rx
      /\ \A s \in Rooms \ {r} : /\ senders'[s] = senders[s] /\ players'[s] = players[s]
                                /\ queue'[s] = queue[s] /\ phase'[s] = phase[s]
                                /\ game'[s] = game[s]
    BY DEF ActorStep, HandleJoin, HandleLeave, HandleMessage, HandleInfo, HandleShutdown,
           Panic, Die, RunGame, TypeOK
<1>4. \/ queue'[r] = <<>> /\ senders'[r] = NoSenders
      \/ /\ queue[r] # <<>> /\ queue'[r] = Tail(queue[r])
         /\ \/ \A p \in Players : senders'[r][p] \in {senders[r][p], NoChan}
            \/ /\ Head(queue[r]).op = "join"
               /\ senders'[r] = [senders[r] EXCEPT ![Head(queue[r]).player] = Head(queue[r]).chan]
    <2>1. CASE HandleShutdown(r) \/ Panic(r)
        BY <1>1, <2>1 DEF HandleShutdown, Panic, Die
    <2>2. CASE HandleJoin(r)
        BY <1>1, <2>2 DEF HandleJoin, Receives
    <2>3. CASE HandleLeave(r)
        BY <1>1, <2>3 DEF HandleLeave, Receives
    <2>4. CASE HandleMessage(r) \/ HandleInfo(r)
        BY <1>1, <2>4 DEF HandleMessage, HandleInfo, Receives
    <2>5. QED
        BY <2>1, <2>2, <2>3, <2>4 DEF ActorStep
<1>5. \A i \in DOMAIN queue'[r] : i + 1 \in DOMAIN queue[r] /\ queue'[r][i] = queue[r][i + 1]
    <2>1. CASE queue'[r] = <<>>
        BY <2>1
    <2>2. CASE queue[r] # <<>> /\ queue'[r] = Tail(queue[r])
        BY <1>1, <2>2, TailElement
    <2>3. QED
        BY <1>4, <2>1, <2>2
<1>6. queue[r] # <<>> => 1 \in DOMAIN queue[r] /\ queue[r][1] = Head(queue[r])
    BY <1>1
<1>7. ASSUME NEW s \in Rooms, NEW q \in Players, senders'[s][q] # NoChan
      PROVE  \/ senders'[s][q] = senders[s][q]
             \/ /\ s = r /\ q = Head(queue[r]).player /\ senders'[s][q] = queue[r][1].chan
                /\ 1 \in DOMAIN queue[r] /\ queue[r][1].op = "join"
    BY <1>1, <1>3, <1>4, <1>6, <1>7 DEF NoSenders
<1>8. OwnChannels'
    <2>1. SUFFICES ASSUME NEW s \in Rooms, NEW u \in Rooms, NEW p \in Players,
                          NEW q \in Players, senders'[s][p] # NoChan,
                          senders'[s][p] = senders'[u][q]
                   PROVE  s = u /\ p = q
        BY DEF OwnChannels
    <2>2. CASE senders'[s][p] = senders[s][p] /\ senders'[u][q] = senders[u][q]
        <3>1. senders[s][p] # NoChan /\ senders[s][p] = senders[u][q]
            BY <2>1, <2>2
        <3>2. OwnChannels
            OBVIOUS
        <3>3. QED
            BY <3>1, <3>2 DEF OwnChannels
    <2>3. ASSUME NEW a \in Rooms, NEW b \in Players, senders'[a][b] = senders[a][b],
                 senders'[a][b] = queue[r][1].chan, 1 \in DOMAIN queue[r],
                 queue[r][1].op = "join"
          PROVE  FALSE
        <3>1. Untouched(r, 1)
            BY <2>3 DEF JoinsUntouched
        <3>2. QED
            BY <2>3, <3>1 DEF Untouched
    <2>4. QED
        BY <1>7, <2>1, <2>2, <2>3
<1>9. ASSUME NEW s \in Rooms, NEW i \in DOMAIN queue'[s]
      PROVE  LET j == IF s = r THEN i + 1 ELSE i
             IN  j \in DOMAIN queue[s] /\ queue'[s][i] = queue[s][j] /\ i \in Nat \ {0}
    <2>1. queue' \in [Rooms -> Seq(Commands)]
        BY DEF TypeOK
    <2>2. i \in Nat \ {0}
        BY <2>1
    <2>3. QED
        BY <1>3, <1>5, <2>2
<1>10. JoinsUntouched'
    <2>1. SUFFICES ASSUME NEW s \in Rooms, NEW i \in DOMAIN queue'[s],
                          queue'[s][i].op = "join"
                   PROVE  Untouched(s, i)'
        BY DEF JoinsUntouched
    <2>2. PICK j : /\ j = IF s = r THEN i + 1 ELSE i
                   /\ j \in DOMAIN queue[s] /\ queue'[s][i] = queue[s][j] /\ i \in Nat \ {0}
        BY <1>9
    <2>3. PICK ch : ch = queue[s][j].chan
        OBVIOUS
    <2>4. queue[s][j].op = "join" /\ Untouched(s, j) /\ ch \in Chans
        BY <2>1, <2>2, <2>3 DEF JoinsUntouched, CommandsWellFormed
    <2>5. ASSUME NEW u \in Rooms, NEW q \in Players PROVE senders'[u][q] # ch
        <3>1. senders[u][q] # ch /\ NoChan # ch
            BY <1>1, <2>3, <2>4 DEF Untouched
        <3>2. ASSUME u = r, ch = queue[r][1].chan, 1 \in DOMAIN queue[r],
                     queue[r][1].op = "join"
              PROVE  FALSE
            <4>1. r = s /\ 1 = j
                BY <2>3, <2>4, <3>2 DEF Untouched
            <4>2. QED
                BY <2>2, <4>1
        <3>3. QED
            BY <1>7, <3>1, <3>2
    <2>6. sent'[ch] = <<>>
        <3>1. players'[r] \subseteq Players
            BY DEF TypeOK
        <3>2. sent'[ch] = sent[ch]
            BY <1>2, <2>4, <2>5, <3>1
        <3>3. QED
            BY <2>3, <2>4, <3>2 DEF Untouched
    <2>7. ASSUME NEW u \in Rooms, NEW k \in DOMAIN queue'[u],
                 queue'[u][k].op = "join", queue'[u][k].chan = ch
          PROVE  u = s /\ k = i
        <3>1. PICK l : /\ l = IF u = r THEN k + 1 ELSE k
                       /\ l \in DOMAIN queue[u] /\ queue'[u][k] = queue[u][l]
                       /\ k \in Nat \ {0}
            BY <1>9
        <3>2. u = s /\ l = j
            BY <2>3, <2>4, <2>7, <3>1 DEF Untouched
        <3>3. QED
            BY <2>2, <3>1, <3>2
    <2>8. QED
        BY <2>2, <2>3, <2>5, <2>6, <2>7 DEF Untouched
<1>11. ASSUME NEW s \in Rooms \ {r}, NEW p \in players'[s] PROVE MemberMail(s, p)'
    <2>1. p \in players[s] /\ p \in Players /\ senders'[s][p] = senders[s][p]
        BY <1>1, <1>3
    <2>2. senders[s][p] \in Chans
        BY <1>1, <2>1 DEF SlotDiscipline, SlotsOf
    <2>3. \A q \in players'[r] : senders'[r][q] # senders'[s][p]
        BY <1>1, <1>8, <2>1, <2>2 DEF OwnChannels, TypeOK
    <2>4. sent'[senders[s][p]] = sent[senders[s][p]]
        BY <1>2, <2>1, <2>2, <2>3
    <2>5. MemberMail(s, p)
        BY <2>1 DEF MembersMail
    <2>6. QED
        BY <1>3, <2>1, <2>4, <2>5 DEF MemberMail, IsJoinable
<1>12. ASSUME NEW ch \in Chans PROVE Ordered(sent'[ch])
    <2>1. CASE \E p \in players'[r] : senders'[r][p] = ch
        BY <2>1
    <2>2. CASE \A p \in players'[r] : senders'[r][p] # ch
        BY <1>2, <2>2 DEF DeliveryOrder, Ordered
    <2>3. QED
        BY <2>1, <2>2
<1>13. MembersMail' /\ DeliveryOrder'
    BY <1>11, <1>12 DEF MembersMail, DeliveryOrder, Ordered
<1>14. QED
    BY <1>8, <1>10, <1>13

\* Mail of a room that has neither a game callback nor new members.
LEMMA QuietDelivers ==
    ASSUME Delivering, NEW r \in Rooms, UNCHANGED <<sent, rx>>,
           phase'[r] = phase[r], game'[r] = game[r],
           NEW p \in players[r], senders'[r][p] = senders[r][p]
    PROVE  MemberMail(r, p)' /\ Ordered(sent'[senders'[r][p]])
<1>1. senders[r][p] \in Chans /\ MemberMail(r, p)
    BY DEF Delivering, Slotted, SlotDiscipline, SlotsOf, Typed, TypeOK, MembersMail
<1>2. QED
    BY <1>1 DEF MemberMail, IsJoinable, Delivering, DeliveryOrder, Ordered

\* An accepted join: the queued channel becomes a member's, and as long as the
\* room waits nothing has been sent to any of them.
LEMMA JoinMail ==
    ASSUME ActorAssumption, Delivering, NEW r \in Rooms, HandleJoin(r),
           NEW cmd, cmd = Head(queue[r]), JoinResult(r, cmd.player) = "ok"
    PROVE  \E members, sn :
              /\ players'[r] = members /\ senders'[r] = sn /\ IsJoinable(r)
              /\ \A p \in members : sn[p] \in Chans /\ sent[sn[p]] = <<>>
              /\ \/ phase'[r] = "InProgress" /\ game'[r] = 1 /\ Snapshot(sn, members)
                 \/ UNCHANGED <<phase, game, sent>>
<1> DEFINE members == players[r] \cup {cmd.player}
           sn == [senders[r] EXCEPT ![cmd.player] = cmd.chan]
<1> USE DEF Delivering, Slotted, Typed
<1>1. /\ queue[r] \in Seq(Commands) /\ senders \in [Rooms -> [Players -> Chans \cup {NoChan}]]
      /\ players \in [Rooms -> SUBSET Players] /\ NoChan \notin Chans
      /\ phase \in [Rooms -> Phases] /\ game \in [Rooms -> Nat]
    BY DEF TypeOK, ActorAssumption
<1>2. queue[r] # <<>>
    BY DEF HandleJoin, Receives
<1>3. 1 \in DOMAIN queue[r] /\ queue[r][1] = cmd
    BY <1>1, <1>2
<1>4. cmd.op = "join" /\ cmd.player \in Players /\ cmd.chan \in Chans
    BY <1>3 DEF CommandsWellFormed, HandleJoin, Receives
<1>5. sent[cmd.chan] = <<>>
    BY <1>3, <1>4 DEF JoinsUntouched, Untouched
<1>6. players'[r] = members /\ senders'[r] = sn /\ IsJoinable(r)
    BY <1>1 DEF HandleJoin, JoinResult
<1>7. ASSUME NEW p \in members PROVE sn[p] \in Chans /\ sent[sn[p]] = <<>>
    <2>1. p \in Players
        BY <1>1, <1>4
    <2>2. CASE p = cmd.player
        BY <1>1, <1>4, <1>5, <2>1, <2>2
    <2>3. CASE p # cmd.player
        <3>1. p \in players[r] /\ sn[p] = senders[r][p]
            BY <1>1, <2>1, <2>3
        <3>2. MemberMail(r, p) /\ senders[r][p] \in Chans
            BY <1>1, <2>1, <3>1 DEF MembersMail, SlotDiscipline, SlotsOf
        <3>3. QED
            BY <1>6, <3>1, <3>2 DEF MemberMail
    <2>4. QED
        BY <2>2, <2>3
<1>8. \/ phase'[r] = "InProgress" /\ game'[r] = 1 /\ Snapshot(sn, members)
      \/ UNCHANGED <<phase, game, sent>>
    BY <1>1 DEF HandleJoin
<1> HIDE DEF members, sn
<1>9. QED
    BY <1>6, <1>7, <1>8

\* The last player the room waits for has everybody sent the snapshot.
LEMMA JoinDelivers ==
    ASSUME ActorAssumption, Delivering, NEW r \in Rooms, HandleJoin(r),
           NEW p \in players'[r]
    PROVE  MemberMail(r, p)' /\ Ordered(sent'[senders'[r][p]])
<1>1. rx' = rx /\ sent \in [Chans -> Seq(Messages)]
    BY DEF HandleJoin, Delivering, Slotted, Typed, TypeOK
<1>2. PICK cmd : cmd = Head(queue[r])
    OBVIOUS
<1>3. CASE JoinResult(r, cmd.player) # "ok"
    BY <1>2, <1>3, QuietDelivers DEF HandleJoin
<1>4. CASE JoinResult(r, cmd.player) = "ok"
    <2>1. PICK members, sn :
             /\ players'[r] = members /\ senders'[r] = sn /\ IsJoinable(r)
             /\ \A q \in members : sn[q] \in Chans /\ sent[sn[q]] = <<>>
             /\ \/ phase'[r] = "InProgress" /\ game'[r] = 1 /\ Snapshot(sn, members)
                \/ UNCHANGED <<phase, game, sent>>
        BY <1>2, <1>4, JoinMail
    <2>2. p \in members /\ sn[p] \in Chans /\ sent[sn[p]] = <<>>
        BY <2>1
    <2>3. CASE phase'[r] = "InProgress" /\ game'[r] = 1 /\ Snapshot(sn, members)
        <3>1. /\ Ordered(sent'[sn[p]]) /\ UpTo(sent'[sn[p]], 1)
              /\ sn[p] \in rx => sent'[sn[p]] # <<>>
            BY <1>1, <2>2, <2>3, SnapshotOrdered
        <3>2. QED
            BY <1>1, <2>1, <2>3, <3>1 DEF MemberMail, IsJoinable
    <2>4. CASE UNCHANGED <<phase, game, sent>>
        BY <1>1, <2>1, <2>2, <2>4 DEF MemberMail, IsJoinable, UpTo, Ordered
    <2>5. QED
        BY <2>1, <2>3, <2>4
<1>5. QED
    BY <1>3, <1>4

\* Leaving: those who stay hear of it if the game runs.
LEMMA LeaveDelivers ==
    ASSUME ActorAssumption, Delivering, NEW r \in Rooms, HandleLeave(r),
           NEW p \in players'[r]
    PROVE  MemberMail(r, p)' /\ Ordered(sent'[senders'[r][p]])
<1>1. /\ senders \in [Rooms -> [Players -> Chans \cup {NoChan}]]
      /\ players \in [Rooms -> SUBSET Players]
    BY DEF TypeOK, Delivering, Slotted, Typed
<1>2. rx' = rx
    BY DEF HandleLeave
<1>3. PICK q : q = Head(queue[r]).player
    OBVIOUS
<1> DEFINE members == players[r] \ {q}
           sn == [senders[r] EXCEPT ![q] = NoChan]
<1>4. CASE q \notin players[r]
    BY <1>3, <1>4, QuietDelivers DEF HandleLeave
<1>5. CASE q \in players[r]
    <2>1. players'[r] = members /\ senders'[r] = sn
        BY <1>1, <1>3, <1>5 DEF HandleLeave
    <2>2. \A u \in members : sn[u] = senders[r][u] /\ u \in players[r]
        BY <1>1
    <2>3. p \in members
        BY <2>1
    <2>4. CASE IsActive(r) /\ RunGame(r, sn, members)
        <3>1. /\ Ordered(sent'[sn[p]]) /\ UpTo(sent'[sn[p]], game'[r])
              /\ sn[p] \in rx => sent'[sn[p]] # <<>>
              /\ phase'[r] \in {"InProgress", "Finished"}
            <4>1. IsActive(r) /\ RunGame(r, sn, members)
                BY <2>4
            <4>2. sn[p] = senders[r][p] /\ p \in players[r]
                BY <2>2, <2>3
            <4> HIDE DEF members, sn
            <4>3. QED
                BY <2>2, <2>3, <4>1, <4>2, RunGameDelivers
        <3>2. QED
            BY <1>2, <2>1, <3>1 DEF MemberMail, IsJoinable
    <2>5. CASE UNCHANGED <<phase, game, sent>>
        BY <1>2, <2>1, <2>2, <2>3, <2>5, QuietDelivers
    <2>6. QED
        BY <1>3, <1>5, <2>4, <2>5 DEF HandleLeave
<1>6. QED
    BY <1>4, <1>5

\* A message the game takes: what comes of it goes to the members.
LEMMA MessageDelivers ==
    ASSUME ActorAssumption, Delivering, NEW r \in Rooms, HandleMessage(r),
           NEW p \in players'[r]
    PROVE  MemberMail(r, p)' /\ Ordered(sent'[senders'[r][p]])
<1>1. players' = players /\ senders' = senders /\ rx' = rx
    BY DEF HandleMessage
<1>2. CASE UNCHANGED <<phase, game, sent>>
    BY <1>1, <1>2, QuietDelivers
<1>3. CASE MessageReachesGame(r) /\ RunGame(r, senders[r], players[r])
    <2>1. IsActive(r) \/ phase[r] = "Finished"
        BY <1>3 DEF MessageReachesGame, Delivering, Slotted, SlotDiscipline, SlotsOf, IsActive
    <2>2. /\ Ordered(sent'[senders[r][p]]) /\ UpTo(sent'[senders[r][p]], game'[r])
          /\ senders[r][p] \in rx => sent'[senders[r][p]] # <<>>
          /\ phase'[r] \in {"InProgress", "Finished"}
        BY <1>1, <1>3, <2>1, RunGameDelivers
    <2>3. QED
        BY <1>1, <2>2 DEF MemberMail, IsJoinable
<1>4. QED
    BY <1>2, <1>3 DEF HandleMessage

\* What an actor does keeps the order.
LEMMA HandlersDeliver ==
    ASSUME ActorAssumption, Delivering, Slotted', NEW r \in Rooms, ActorStep(r)
    PROVE  Delivering'
<1>1. SUFFICES ASSUME NEW p \in players'[r]
               PROVE  MemberMail(r, p)' /\ Ordered(sent'[senders'[r][p]])
    BY RoomDelivers
<1>2. CASE HandleInfo(r)
    BY <1>2, QuietDelivers DEF HandleInfo
<1>3. CASE HandleShutdown(r) \/ Panic(r)
    <2>1. players'[r] = {}
        BY <1>3 DEF HandleShutdown, Panic, Die, Delivering, Slotted, Typed, TypeOK
    <2>2. QED
        BY <1>1, <2>1
<1>4. QED
    BY <1>2, <1>3, JoinDelivers, LeaveDelivers, MessageDelivers DEF ActorStep

\* A Join in a queue has a channel nobody else has.
LEMMA CallsDeliver ==
    ASSUME ActorAssumption, Delivering, Slotted',
           NEW t \in Tasks, NEW r \in Rooms, HandleCall(t, r)
    PROVE  Delivering'
<1> USE DEF Delivering, Slotted, Typed
<1>1. /\ queue \in [Rooms -> Seq(Commands)] /\ sent \in [Chans -> Seq(Messages)]
      /\ senders \in [Rooms -> [Players -> Chans \cup {NoChan}]]
      /\ NoChan \notin Chans
    BY DEF TypeOK, ActorAssumption
<1>2. UNCHANGED <<phase, players, senders, game>>
    BY DEF HandleCall, AskJoin, AskLeave, SendMessage, GetInfo, SendShutdown, Ask
<1>3. ASSUME NEW cmd \in Commands, Enqueue(r, cmd), NEW s \in Rooms,
             NEW i \in DOMAIN queue'[s]
      PROVE  \/ i \in DOMAIN queue[s] /\ queue'[s][i] = queue[s][i]
             \/ s = r /\ i = Len(queue[r]) + 1 /\ queue'[s][i] = cmd
    <2>1. CASE queue' = queue
        BY <2>1
    <2>2. CASE queue' = [queue EXCEPT ![r] = Append(@, cmd)]
        BY <1>1, <2>2
    <2>3. QED
        BY <1>3, <2>1, <2>2 DEF Enqueue
<1>4. ASSUME NEW cmd \in Commands, Enqueue(r, cmd), cmd.op # "join",
             UNCHANGED <<rx, sent>>
      PROVE  Delivering'
    <2>1. ASSUME NEW s \in Rooms, NEW i \in DOMAIN queue'[s], queue'[s][i].op = "join"
          PROVE  i \in DOMAIN queue[s] /\ queue'[s][i] = queue[s][i]
        BY <1>3, <1>4, <2>1
    <2>2. JoinsUntouched'
        BY <1>2, <1>4, <2>1 DEF JoinsUntouched, Untouched
    <2>3. QED
        BY <1>2, <1>4, <2>2 DEF OwnChannels, MembersMail, MemberMail, IsJoinable, UpTo,
                                DeliveryOrder
<1>5. ASSUME NEW p \in Players, NEW ch \in Chans, AskJoin(t, r, p, ch)
      PROVE  Delivering'
    <2> DEFINE cmd == [op |-> "join", task |-> t, player |-> p, chan |-> ch]
    <2>1. /\ cmd \in Commands /\ Enqueue(r, cmd) /\ Fresh(ch)
          /\ rx' = rx \cup {ch} /\ sent'[ch] = <<>>
          /\ \A c \in Chans \ {ch} : sent'[c] = sent[c]
        BY <1>1, <1>5 DEF AskJoin, Commands, Ops
    <2>2. \A s \in Rooms : \A q \in Players : senders[s][q] # ch
        BY <2>1 DEF Fresh
    <2>3. \A s \in Rooms : \A i \in DOMAIN queue[s] : queue[s][i].chan # ch
        BY <2>1 DEF Fresh
    <2>4. JoinsUntouched'
        <3>1. SUFFICES ASSUME NEW s \in Rooms, NEW i \in DOMAIN queue'[s],
                              queue'[s][i].op = "join"
                       PROVE  Untouched(s, i)'
            BY DEF JoinsUntouched
        <3>2. CASE i \in DOMAIN queue[s] /\ queue'[s][i] = queue[s][i]
            <4>1. PICK c : c = queue[s][i].chan
                OBVIOUS
            <4>2. Untouched(s, i) /\ c \in Chans \ {ch}
                BY <2>3, <3>1, <3>2, <4>1 DEF JoinsUntouched, CommandsWellFormed
            <4>3. sent'[c] = <<>> /\ \A u \in Rooms : \A q \in Players : senders'[u][q] # c
                BY <1>2, <2>1, <4>1, <4>2 DEF Untouched
            <4>4. ASSUME NEW u \in Rooms, NEW k \in DOMAIN queue'[u],
                         queue'[u][k].op = "join", queue'[u][k].chan = c
                  PROVE  u = s /\ k = i
                <5>1. k \in DOMAIN queue[u] /\ queue'[u][k] = queue[u][k]
                    BY <1>3, <2>1, <4>2, <4>4
                <5>2. QED
                    BY <4>1, <4>2, <4>4, <5>1 DEF Untouched
            <4>5. QED
                BY <3>2, <4>1, <4>3, <4>4 DEF Untouched
        <3>3. CASE s = r /\ i = Len(queue[r]) + 1 /\ queue'[s][i] = cmd
            <4>1. ASSUME NEW u \in Rooms, NEW k \in DOMAIN queue'[u],
                         queue'[u][k].chan = ch
                  PROVE  u = s /\ k = i
                BY <1>3, <2>1, <2>3, <3>3, <4>1
            <4>2. QED
                BY <1>2, <2>1, <2>2, <3>3, <4>1 DEF Untouched
        <3>4. QED
            BY <1>3, <2>1, <3>2, <3>3
    <2>5. ASSUME NEW s \in Rooms, NEW q \in players'[s] PROVE MemberMail(s, q)'
        <3>1. q \in players[s] /\ q \in Players /\ senders[s][q] \in Chans \ {ch}
            BY <1>1, <1>2, <2>2 DEF SlotDiscipline, SlotsOf, TypeOK
        <3>2. MemberMail(s, q)
            BY <3>1 DEF MembersMail
        <3>3. QED
            BY <1>2, <2>1, <3>1, <3>2 DEF MemberMail, IsJoinable, UpTo
    <2>6. \A c \in Chans : Ordered(sent'[c])
        BY <2>1 DEF DeliveryOrder, Ordered
    <2>7. OwnChannels'
        BY <1>2 DEF OwnChannels
    <2>8. QED
        BY <2>4, <2>5, <2>6, <2>7 DEF MembersMail, DeliveryOrder, Ordered
<1>6. ASSUME NEW op \in {"leave", "message", "info", "shutdown"},
             NEW p \in Players \cup {NoPlayer}, Ask(t, r, op, p)
      PROVE  Delivering'
    <2>1. [op |-> op, task |-> t, player |-> p, chan |-> NoChan] \in Commands
        BY DEF Commands, Ops
    <2>2. QED
        BY <1>4, <1>6, <2>1 DEF Ask
<1>7. QED
    BY <1>5, <1>6 DEF HandleCall, AskLeave, SendMessage, GetInfo, SendShutdown

\* Every step keeps the order in the channels.
LEMMA DeliveryStep ==
    ASSUME ActorAssumption, Delivering, [ActorNext]_actorVars
    PROVE  Delivering'
<1>1. Slotted'
    BY TypedStep, SlotsStep DEF Delivering, Slotted
<1>2. ASSUME NEW r \in Rooms, Spawn(r) PROVE Delivering'
    <2>1. UNCHANGED <<players, senders, game, queue, rx, sent>>
        BY <1>2 DEF Spawn
    <2>2. ASSUME NEW s \in Rooms, players[s] # {} PROVE phase'[s] = phase[s]
        BY <1>2, <2>2 DEF Spawn, Delivering, Slotted, Typed, TypeOK, SlotDiscipline, SlotsOf,
                          Live
    <2>3. MembersMail'
        BY <2>1, <2>2 DEF Delivering, MembersMail, MemberMail, IsJoinable, UpTo
    <2>4. QED
        BY <1>1, <2>1, <2>3 DEF Delivering, OwnChannels, JoinsUntouched, Untouched,
                                DeliveryOrder
<1>3. ASSUME UNCHANGED <<phase, players, senders, game, queue, sent>>, rx' \subseteq rx
      PROVE  Delivering'
    BY <1>1, <1>3 DEF Delivering, OwnChannels, JoinsUntouched, Untouched, MembersMail,
                      MemberMail, IsJoinable, UpTo, DeliveryOrder
<1>4. ASSUME NEW t \in Tasks, NEW dropped, TakeReply(t, dropped) PROVE Delivering'
    BY <1>3, <1>4 DEF TakeReply
<1>5. ASSUME NEW dropped, CloseChannels(dropped) PROVE Delivering'
    BY <1>3, <1>5 DEF CloseChannels
<1>6. CASE UNCHANGED actorVars
    BY <1>3, <1>6 DEF actorVars
<1>7. QED
    BY <1>1, <1>2, <1>4, <1>5, <1>6, HandlersDeliver, CallsDeliver DEF ActorNext

\* Nothing has been sent at the start.
LEMMA DeliveryInit ==
    ASSUME ActorAssumption, ActorInit PROVE Delivering
<1>1. Slotted
    BY TypedInit, SlotsInit DEF Slotted
<1>2. QED
    BY <1>1 DEF ActorInit, NoSenders, Delivering, OwnChannels, JoinsUntouched, MembersMail,
                DeliveryOrder

\* The channels and the game go together in every reachable state.
THEOREM DeliveryInvariant == ActorInit /\ [][ActorNext]_actorVars => []Delivering
<1>1. ActorInit => Delivering
    BY ActorAssumption, DeliveryInit
<1>2. Delivering /\ [ActorNext]_actorVars => Delivering'
    BY ActorAssumption, DeliveryStep
<1>3. QED
    BY <1>1, <1>2, PTL

\* What a client reads from its room starts with the snapshot and never goes
\* back to an older state of the game.
THEOREM DeliveryCorrect == ActorSpec => []DeliveryOrder
<1>1. Delivering => DeliveryOrder
    BY DEF Delivering
<1>2. QED
    BY <1>1, DeliveryInvariant, PTL DEF ActorSpec

-----------------------------------------------------------------------------
(* What all members are sent. *)

\* Two logs have the same broadcasts so far.
Alike(a, b) ==
    /\ HasBroadcastsOf(b, a)
    /\ Cardinality(Broadcasts(a, Len(a))) = Cardinality(Broadcasts(b, Len(b)))

MembersAlike ==
    \A r \in Rooms : \A p, q \in players[r] :
        senders[r][p] \in rx /\ senders[r][q] \in rx
            => Alike(sent[senders[r][p]], sent[senders[r][q]])

\* There are only finitely many broadcasts.
LEMMA BroadcastsFinite ==
    ASSUME NEW log, NEW n \in Nat
    PROVE  IsFiniteSet(Broadcasts(log, n)) /\ Cardinality(Broadcasts(log, n)) \in Nat
<1>1. IsFiniteSet(1..n)
    BY FS_Interval
<1>2. Broadcasts(log, n) \subseteq 1..n
    BY DEF Broadcasts
<1>3. QED
    BY <1>1, <1>2, FS_Subset, FS_CardinalityType

\* How one more message changes them.
LEMMA BroadcastsAppend ==
    ASSUME NEW log \in Seq(Messages), NEW m \in Messages
    PROVE  /\ log \o <<m>> \in Seq(Messages) /\ Len(log \o <<m>>) = Len(log) + 1
           /\ \A i \in 1..Len(log) : /\ (log \o <<m>>)[i] = log[i]
                                     /\ Broadcasts(log \o <<m>>, i) = Broadcasts(log, i)
           /\ (log \o <<m>>)[Len(log) + 1] = m
           /\ Broadcasts(log \o <<m>>, Len(log) + 1)
                 = Broadcasts(log, Len(log)) \cup
                      (IF ToEveryone(m) THEN {Len(log) + 1} ELSE {})
<1> DEFINE new == log \o <<m>>
<1>1. /\ new \in Seq(Messages) /\ Len(new) = Len(log) + 1 /\ Len(log) \in Nat
      /\ \A i \in 1..Len(log) : new[i] = log[i]
      /\ new[Len(log) + 1] = m
    OBVIOUS
<1> HIDE DEF new
<1>2. \A i \in 1..Len(log) : Broadcasts(new, i) = Broadcasts(log, i)
    BY <1>1 DEF Broadcasts
<1>3. Broadcasts(new, Len(log) + 1)
          = Broadcasts(log, Len(log)) \cup (IF ToEveryone(m) THEN {Len(log) + 1} ELSE {})
    <2>1. \A i : i \in 1..(Len(log) + 1) <=> i \in 1..Len(log) \/ i = Len(log) + 1
        BY <1>1
    <2>2. QED
        BY <1>1, <2>1 DEF Broadcasts
<1>4. QED
    BY <1>1, <1>2, <1>3 DEF new

\* And how many there are.
LEMMA BroadcastsCount ==
    ASSUME NEW log \in Seq(Messages), NEW m \in Messages
    PROVE  Cardinality(Broadcasts(log \o <<m>>, Len(log \o <<m>>)))
              = Cardinality(Broadcasts(log, Len(log))) + (IF ToEveryone(m) THEN 1 ELSE 0)
<1> DEFINE old == Broadcasts(log, Len(log))
<1>1. Len(log) \in Nat /\ Len(log \o <<m>>) = Len(log) + 1
    OBVIOUS
<1>2. IsFiniteSet(old) /\ Cardinality(old) \in Nat
    BY <1>1, BroadcastsFinite
<1>3. Len(log) + 1 \notin old
    BY <1>1 DEF Broadcasts
<1>4. Cardinality(old \cup {Len(log) + 1}) = Cardinality(old) + 1
    BY <1>2, <1>3, FS_AddElement
<1>5. CASE ToEveryone(m)
    <2>1. Broadcasts(log \o <<m>>, Len(log) + 1) = old \cup {Len(log) + 1}
        BY <1>5, BroadcastsAppend
    <2>2. QED
        BY <1>1, <1>4, <1>5, <2>1
<1>6. CASE ~ToEveryone(m)
    <2>1. Broadcasts(log \o <<m>>, Len(log) + 1) = old
        BY <1>6, BroadcastsAppend
    <2>2. QED
        BY <1>1, <1>2, <1>6, <2>1
<1>7. QED
    BY <1>5, <1>6

\* A private message changes nothing, for whoever gets it.
LEMMA PrivateAlike ==
    ASSUME NEW a \in Seq(Messages), NEW b \in Seq(Messages), NEW m \in Messages,
           Alike(a, b), ~ToEveryone(m)
    PROVE  Alike(a \o <<m>>, b) /\ Alike(a, b \o <<m>>)
<1>1. ASSUME NEW log \in Seq(Messages)
      PROVE  /\ Broadcasts(log \o <<m>>, Len(log \o <<m>>)) = Broadcasts(log, Len(log))
             /\ \A i \in Broadcasts(log, Len(log)) :
                   /\ (log \o <<m>>)[i] = log[i]
                   /\ Broadcasts(log \o <<m>>, i) = Broadcasts(log, i)
    <2>1. \A i \in Broadcasts(log, Len(log)) : i \in 1..Len(log)
        BY DEF Broadcasts
    <2>2. QED
        BY <2>1, BroadcastsAppend
<1>2. HasBroadcastsOf(b, a \o <<m>>)
    BY <1>1 DEF Alike, HasBroadcastsOf
<1>3. HasBroadcastsOf(b \o <<m>>, a)
    BY <1>1 DEF Alike, HasBroadcastsOf
<1>4. QED
    BY <1>1, <1>2, <1>3 DEF Alike

\* A broadcast to both is the next broadcast of both.
LEMMA BroadcastAlike ==
    ASSUME NEW a \in Seq(Messages), NEW b \in Seq(Messages), NEW m \in Messages,
           Alike(a, b), ToEveryone(m)
    PROVE  Alike(a \o <<m>>, b \o <<m>>)
<1> DEFINE x == a \o <<m>>
           y == b \o <<m>>
<1>1. Cardinality(Broadcasts(x, Len(x))) = Cardinality(Broadcasts(y, Len(y)))
    BY BroadcastsCount DEF Alike
<1>2. ASSUME NEW i \in Broadcasts(x, Len(x))
      PROVE  \E j \in Broadcasts(y, Len(y)) :
                /\ y[j] = x[i]
                /\ Cardinality(Broadcasts(y, j)) = Cardinality(Broadcasts(x, i))
    <2>1. CASE i \in Broadcasts(a, Len(a))
        <3>1. PICK j \in Broadcasts(b, Len(b)) :
                  /\ b[j] = a[i]
                  /\ Cardinality(Broadcasts(b, j)) = Cardinality(Broadcasts(a, i))
            BY <2>1 DEF Alike, HasBroadcastsOf
        <3>2. i \in 1..Len(a) /\ j \in 1..Len(b)
            BY <2>1 DEF Broadcasts
        <3>3. y[j] = b[j] /\ Broadcasts(y, j) = Broadcasts(b, j)
            BY <3>2, BroadcastsAppend
        <3>4. x[i] = a[i] /\ Broadcasts(x, i) = Broadcasts(a, i)
            BY <3>2, BroadcastsAppend
        <3>5. j \in Broadcasts(y, Len(y))
            BY BroadcastsAppend
        <3>6. QED
            BY <3>1, <3>3, <3>4, <3>5
    <2>2. CASE i = Len(a) + 1
        <3>1. /\ Len(y) \in Broadcasts(y, Len(y)) /\ y[Len(y)] = m
              /\ i = Len(x) /\ x[i] = m
            BY <2>2, BroadcastsAppend
        <3>2. QED
            BY <1>1, <3>1
    <2>3. Broadcasts(x, Len(x)) = Broadcasts(a, Len(a)) \cup {Len(a) + 1}
        BY BroadcastsAppend
    <2>4. QED
        BY <1>2, <2>1, <2>2, <2>3
<1>3. HasBroadcastsOf(y, x)
    BY <1>2 DEF HasBroadcastsOf
<1>4. QED
    BY <1>1, <1>3 DEF Alike

\* Nothing else could be said of one log twice.
LEMMA AlikeItself == \A log : Alike(log, log)
BY DEF Alike, HasBroadcastsOf

\* What one callback puts into two members' channels leaves them alike: a
\* broadcast goes to both, anything else to either.
LEMMA DispatchAlike ==
    ASSUME ActorAssumption, sent \in [Chans -> Seq(Messages)],
           NEW sn, NEW members, NEW out \in Outboxes, NEW v \in Nat,
           Dispatch(sn, members, out, v),
           NEW p \in members, NEW q \in members,
           sn[p] \in Chans \cap rx, sn[q] \in Chans \cap rx,
           Alike(sent[sn[p]], sent[sn[q]])
    PROVE  Alike(sent'[sn[p]], sent'[sn[q]])
<1> DEFINE cp == sn[p]
           cq == sn[q]
<1>1. ASSUME NEW a \in Seq(Messages), NEW b \in Seq(Messages), Alike(a, b),
             NEW m \in Recipients
      PROVE  LET ca == Copy(sn, members, cp, m, v)
                 cb == Copy(sn, members, cq, m, v)
             IN  /\ a \o ca \in Seq(Messages) /\ b \o cb \in Seq(Messages)
                 /\ Alike(a \o ca, b \o cb)
    <2> DEFINE ca == Copy(sn, members, cp, m, v)
               cb == Copy(sn, members, cq, m, v)
               c == [kind |-> m.kind, version |-> v]
    <2>1. ca \in {<<>>, <<c>>} /\ cb \in {<<>>, <<c>>}
        BY DEF Copy
    <2>2. a \o <<>> = a /\ b \o <<>> = b
        OBVIOUS
    <2>3. CASE m.kind = "Nobody"
        <3>1. ca = <<>> /\ cb = <<>>
            BY <2>3 DEF Copy, Addresses
        <3>2. QED
            BY <1>1, <2>2, <3>1
    <2>4. CASE m.kind = "All"
        <3>1. ca = <<c>> /\ cb = <<c>>
            BY <2>4 DEF Copy, Addresses
        <3>2. c \in Messages /\ ToEveryone(c)
            BY <2>4 DEF Messages, ToEveryone
        <3>3. QED
            BY <1>1, <3>1, <3>2, BroadcastAlike, BroadcastsAppend
    <2>5. CASE m.kind \in {"Player", "AllExcept"}
        <3>1. c \in Messages /\ ~ToEveryone(c)
            BY <2>5 DEF Messages, ToEveryone
        <3>2. a \o ca \in Seq(Messages) /\ Alike(a \o ca, b)
            BY <1>1, <2>1, <2>2, <3>1, PrivateAlike, BroadcastsAppend
        <3>3. b \o cb \in Seq(Messages) /\ Alike(a \o ca, b \o cb)
            <4>1. PICK x : x = a \o ca
                OBVIOUS
            <4>2. x \in Seq(Messages) /\ Alike(x, b)
                BY <3>2, <4>1
            <4>3. b \o cb \in Seq(Messages) /\ Alike(x, b \o cb)
                <5>1. CASE cb = <<>>
                    BY <2>2, <4>2, <5>1
                <5>2. CASE cb = <<c>>
                    BY <3>1, <4>2, <5>2, PrivateAlike, BroadcastsAppend
                <5>3. QED
                    BY <2>1, <5>1, <5>2
            <4>4. QED
                BY <4>1, <4>3
        <3>4. QED
            BY <3>2, <3>3
    <2>6. QED
        BY <2>3, <2>4, <2>5 DEF Recipients
<1>2. out[1] \in Recipients /\ out[2] \in Recipients
    BY DEF ActorAssumption
<1> DEFINE a1 == sent[cp] \o Copy(sn, members, cp, out[1], v)
           b1 == sent[cq] \o Copy(sn, members, cq, out[1], v)
<1>3. a1 \in Seq(Messages) /\ b1 \in Seq(Messages) /\ Alike(a1, b1)
    BY <1>1, <1>2
<1>4. /\ sent'[cp] = a1 \o Copy(sn, members, cp, out[2], v)
      /\ sent'[cq] = b1 \o Copy(sn, members, cq, out[2], v)
    BY DEF Dispatch
<1> HIDE DEF a1, b1
<1>5. Alike(a1 \o Copy(sn, members, cp, out[2], v), b1 \o Copy(sn, members, cq, out[2], v))
    BY <1>1, <1>2, <1>3
<1>6. QED
    BY <1>4, <1>5

\* What a room's step puts into channels does not concern the other rooms.
LEMMA OthersKeepMail ==
    ASSUME Delivering, Delivering', NEW r \in Rooms, ActorStep(r),
           NEW s \in Rooms \ {r}, NEW p \in players'[s]
    PROVE  /\ p \in players[s] /\ senders'[s][p] = senders[s][p]
           /\ sent'[senders[s][p]] = sent[senders[s][p]]
<1> USE DEF Delivering, Slotted, Typed
<1>1. players'[s] = players[s] /\ senders'[s] = senders[s]
    BY DEF ActorStep, HandleJoin, HandleLeave, HandleMessage, HandleInfo, HandleShutdown,
           Panic, Die, TypeOK
<1>2. p \in Players /\ senders[s][p] \in Chans
    BY <1>1 DEF TypeOK, SlotDiscipline, SlotsOf
<1>3. players'[r] \subseteq Players /\ senders'[s][p] # NoChan
    BY <1>1, <1>2 DEF TypeOK, SlotDiscipline, SlotsOf
<1>4. \A q \in players'[r] : senders'[r][q] # senders[s][p]
    BY <1>1, <1>2, <1>3 DEF OwnChannels
<1>5. QED
    BY <1>1, <1>2, <1>4, MailOfRoom

\* Members that listen are alike after each callback.
LEMMA RunGameAlike ==
    ASSUME ActorAssumption, Delivering, MembersAlike, NEW r \in Rooms,
           NEW sn, NEW members, RunGame(r, sn, members),
           \A u \in members : u \in players[r] /\ sn[u] = senders[r][u],
           NEW p \in members, NEW q \in members, sn[p] \in rx, sn[q] \in rx
    PROVE  Alike(sent'[sn[p]], sent'[sn[q]])
<1>1. sent \in [Chans -> Seq(Messages)] /\ game[r] + 1 \in Nat /\ rx \subseteq Chans
    BY DEF Delivering, Slotted, Typed, TypeOK
<1>2. PICK out \in Outboxes : Dispatch(sn, members, out, game[r] + 1)
    BY DEF RunGame
<1>3. Alike(sent[sn[p]], sent[sn[q]])
    BY DEF MembersAlike
<1>4. QED
    BY <1>1, <1>2, <1>3, DispatchAlike

\* What an actor does keeps its members alike.
LEMMA HandlersAlike ==
    ASSUME ActorAssumption, Delivering, Delivering', MembersAlike,
           NEW r \in Rooms, ActorStep(r)
    PROVE  MembersAlike'
<1>1. rx' = rx
    BY DEF ActorStep, HandleJoin, HandleLeave, HandleMessage, HandleInfo, HandleShutdown,
           Panic, Die
<1>2. ASSUME NEW s \in Rooms \ {r}, NEW p \in players'[s], NEW q \in players'[s],
             senders'[s][p] \in rx', senders'[s][q] \in rx'
      PROVE  Alike(sent'[senders'[s][p]], sent'[senders'[s][q]])
    BY <1>1, <1>2, OthersKeepMail DEF MembersAlike
<1>3. SUFFICES ASSUME NEW p \in players'[r], NEW q \in players'[r],
                      senders'[r][p] \in rx, senders'[r][q] \in rx
               PROVE  Alike(sent'[senders'[r][p]], sent'[senders'[r][q]])
    BY <1>1, <1>2 DEF MembersAlike
<1>4. /\ senders \in [Rooms -> [Players -> Chans \cup {NoChan}]]
      /\ players \in [Rooms -> SUBSET Players]
      /\ players' \in [Rooms -> SUBSET Players]
      /\ phase \in [Rooms -> Phases]
    BY DEF TypeOK, Delivering, Slotted, Typed
<1>5. ASSUME sent' = sent, senders'[r] = senders[r], players'[r] = players[r]
      PROVE  Alike(sent'[senders'[r][p]], sent'[senders'[r][q]])
    BY <1>3, <1>5 DEF MembersAlike
<1>6. CASE HandleJoin(r)
    <2>1. PICK cmd : cmd = Head(queue[r])
        OBVIOUS
    <2>2. CASE JoinResult(r, cmd.player) # "ok"
        BY <1>5, <1>6, <2>1, <2>2 DEF HandleJoin
    <2>3. CASE JoinResult(r, cmd.player) = "ok"
        <3>1. PICK members, sn :
                 /\ players'[r] = members /\ senders'[r] = sn
                 /\ \A u \in members : sn[u] \in Chans /\ sent[sn[u]] = <<>>
                 /\ Snapshot(sn, members) \/ UNCHANGED <<phase, game, sent>>
            BY <1>6, <2>1, <2>3, JoinMail
        <3> DEFINE m == [kind |-> "State", player |-> NoPlayer]
        <3>2. \A u \in members : Addresses(m, u)
            BY DEF Addresses
        <3>3. \A u \in members : sn[u] \in rx =>
                  Copy(sn, members, sn[u], m, 1) = <<[kind |-> m.kind, version |-> 1]>>
            BY <3>2 DEF Copy
        <3>4. sent'[sn[p]] = sent'[sn[q]]
            <4>1. p \in members /\ q \in members /\ sn[p] \in rx /\ sn[q] \in rx
                BY <1>3, <3>1
            <4>2. CASE Snapshot(sn, members)
                <5>1. ASSUME NEW u \in members, sn[u] \in rx
                      PROVE  sent'[sn[u]]
                                = <<>> \o <<[kind |-> m.kind, version |-> 1]>>
                    BY <3>1, <3>3, <4>2, <5>1 DEF Snapshot
                <5>2. QED
                    BY <4>1, <5>1
            <4>3. QED
                BY <3>1, <4>1, <4>2
        <3>5. QED
            BY <3>1, <3>4, AlikeItself
    <2>4. QED
        BY <2>2, <2>3
<1>7. CASE HandleLeave(r)
    <2>1. PICK u : u = Head(queue[r]).player
        OBVIOUS
    <2> DEFINE members == players[r] \ {u}
               sn == [senders[r] EXCEPT ![u] = NoChan]
    <2>2. CASE u \notin players[r]
        BY <1>5, <1>7, <2>1, <2>2 DEF HandleLeave
    <2>3. CASE u \in players[r]
        <3>1. players'[r] = members /\ senders'[r] = sn
            BY <1>4, <1>7, <2>1, <2>3 DEF HandleLeave
        <3>2. \A w \in members : w \in players[r] /\ sn[w] = senders[r][w]
            BY <1>4
        <3>3. p \in members /\ q \in members /\ sn[p] \in rx /\ sn[q] \in rx
            BY <1>3, <3>1
        <3>4. CASE RunGame(r, sn, members)
            <4> HIDE DEF members, sn
            <4>1. QED
                BY <3>1, <3>2, <3>3, <3>4, RunGameAlike
        <3>5. CASE sent' = sent
            BY <3>1, <3>2, <3>3, <3>5 DEF MembersAlike
        <3>6. QED
            BY <1>7, <2>1, <2>3, <3>4, <3>5 DEF HandleLeave
    <2>4. QED
        BY <2>2, <2>3
<1>8. CASE HandleMessage(r)
    <2>1. players' = players /\ senders' = senders
        BY <1>8 DEF HandleMessage
    <2>2. CASE sent' = sent
        BY <1>5, <2>1, <2>2
    <2>3. CASE RunGame(r, senders[r], players[r])
        BY <1>3, <2>1, <2>3, RunGameAlike
    <2>4. QED
        BY <1>8, <2>2, <2>3 DEF HandleMessage
<1>9. CASE HandleInfo(r)
    BY <1>5, <1>9 DEF HandleInfo
<1>10. CASE HandleShutdown(r) \/ Panic(r)
    BY <1>3, <1>4, <1>10 DEF HandleShutdown, Panic, Die
<1>11. QED
    BY <1>6, <1>7, <1>8, <1>9, <1>10 DEF ActorStep

\* Members stay alike in every step: a channel that is made anew is nobody's.
LEMMA AlikeStep ==
    ASSUME ActorAssumption, Delivering, MembersAlike, [ActorNext]_actorVars
    PROVE  MembersAlike'
<1>1. Delivering'
    BY DeliveryStep
<1>2. /\ sent \in [Chans -> Seq(Messages)] /\ players \in [Rooms -> SUBSET Players]
      /\ rx \subseteq Chans
    BY DEF Delivering, Slotted, Typed, TypeOK
<1>3. ASSUME UNCHANGED <<players, senders>>, NEW fresh,
             rx' \subseteq rx \cup {fresh},
             \A ch \in Chans \ {fresh} : sent'[ch] = sent[ch],
             \A r \in Rooms : \A p \in Players : senders[r][p] # fresh
      PROVE  MembersAlike'
    <2>1. SUFFICES ASSUME NEW r \in Rooms, NEW p \in players[r], NEW q \in players[r],
                          senders[r][p] \in rx', senders[r][q] \in rx'
                   PROVE  Alike(sent'[senders[r][p]], sent'[senders[r][q]])
        BY <1>3 DEF MembersAlike
    <2>2. ASSUME NEW u \in {p, q}
          PROVE  senders[r][u] \in rx /\ sent'[senders[r][u]] = sent[senders[r][u]]
        BY <1>2, <1>3, <2>1
    <2>3. QED
        BY <2>2 DEF MembersAlike
<1>4. ASSUME NEW t \in Tasks, NEW r \in Rooms, NEW p \in Players, NEW ch \in Chans,
             AskJoin(t, r, p, ch)
      PROVE  MembersAlike'
    BY <1>2, <1>3, <1>4 DEF AskJoin, Fresh
<1>5. ASSUME UNCHANGED <<players, senders, sent>>, rx' \subseteq rx
      PROVE  MembersAlike'
    BY <1>5 DEF MembersAlike
<1>6. ASSUME NEW t \in Tasks, NEW r \in Rooms, HandleCall(t, r) PROVE MembersAlike'
    BY <1>4, <1>5, <1>6 DEF HandleCall, AskLeave, SendMessage, GetInfo, SendShutdown, Ask
<1>7. ASSUME NEW r \in Rooms, Spawn(r) PROVE MembersAlike'
    BY <1>5, <1>7 DEF Spawn
<1>8. ASSUME NEW t \in Tasks, NEW dropped, TakeReply(t, dropped) PROVE MembersAlike'
    BY <1>5, <1>8 DEF TakeReply
<1>9. ASSUME NEW dropped, CloseChannels(dropped) PROVE MembersAlike'
    BY <1>5, <1>9 DEF CloseChannels
<1>10. CASE UNCHANGED actorVars
    BY <1>5, <1>10 DEF actorVars
<1>11. QED
    BY <1>1, <1>6, <1>7, <1>8, <1>9, <1>10, HandlersAlike DEF ActorNext

\* All members of a room that listen are sent the same snapshot and the same
\* broadcasts in the same order.
THEOREM MembersCorrect == ActorSpec => []MembersAgree
<1>1. ActorInit => MembersAlike
    BY DEF ActorInit, MembersAlike
<1>2. Delivering /\ MembersAlike /\ [ActorNext]_actorVars => MembersAlike'
    BY ActorAssumption, AlikeStep
<1>3. MembersAlike => MembersAgree
    BY DEF MembersAlike, MembersAgree, Alike
<1>4. QED
    BY <1>1, <1>2, <1>3, DeliveryInvariant, PTL DEF ActorSpec
=============================================================================
