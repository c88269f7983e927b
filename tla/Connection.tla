----------------------------- MODULE Connection -----------------------------
(***************************************************************************)
(* The accept loop, and connection handlers and their sessions: upgrade,   *)
(* handshake, session creation, and the guard that disconnects the session *)
(* when the handler exits (arcforge/src/handler.rs, server.rs,             *)
(* arcforge-transport/src/websocket.rs).  What a handler does in its loop  *)
(* is the concern of RoomManager and Wire.                                 *)
(*                                                                         *)
(* The session mutex is held for one synchronous call at a time, so a step *)
(* is one such call.  The guard's Drop cannot wait for the mutex and       *)
(* spawns a task: between a handler's exit and that task the session still *)
(* is Connected.  The server calls create and disconnect only: nothing     *)
(* reconnects, expires or cleans up sessions.                              *)
(***************************************************************************)
EXTENDS SessionManager, FiniteSets, Sequences

CONSTANTS
    Conns,            \* connections; a closed one is used again for a new one
    NoConn,           \* accept() waits for the listener, not for an upgrade
    Silent            \* those whose client may leave an upgrade unfinished

ASSUME ConnAssumption ==
    /\ NoConn \notin Conns
    /\ Silent \subseteq Conns

VARIABLES
    backlog,          \* TCP connections nobody has taken, oldest first
    upgrading,        \* the one whose WebSocket upgrade accept() awaits
    stage,            \* connection |-> how far its handler is
    who               \* connection |-> authenticated player

listenVars == <<backlog, upgrading>>
connVars == <<sessions, tokens, now, issued, backlog, upgrading, stage, who>>

\* connecting: TCP only.  accepted: accept loop has spawned the handler.
\* acked: HandshakeAck sent.  loop: session created, guard armed.
\* dropping: the handler is gone, the guard's task has not run.
Stages == {"closed", "connecting", "accepted", "acked", "loop", "dropping"}

ConnInit ==
    /\ SessionInit
    /\ backlog = <<>> /\ upgrading = NoConn
    /\ stage = [c \in Conns |-> "closed"]
    /\ who = [c \in Conns |-> NoPlayer]

Moves(c, from, to) == stage[c] = from /\ stage' = [stage EXCEPT ![c] = to]

\* A client connects; the kernel queues it.
Connect(c) ==
    /\ Moves(c, "closed", "connecting")
    /\ backlog' = Append(backlog, c)
    /\ UNCHANGED <<sessionVars, upgrading, who>>

\* accept() upgrades one connection after the other.
TakeNext ==
    /\ upgrading = NoConn /\ backlog # <<>>
    /\ upgrading' = Head(backlog)
    /\ backlog' = Tail(backlog)
    /\ UNCHANGED <<sessionVars, stage, who>>

EndsUpgrade(c, to) ==
    /\ upgrading = c
    /\ Moves(c, "connecting", to)
    /\ UNCHANGED <<sessionVars, backlog, who>>

Accept(c) == EndsUpgrade(c, "accepted") /\ upgrading' = NoConn

MutRunReturns(c) == EndsUpgrade(c, "closed") /\ UNCHANGED upgrading

\* Not a WebSocket client, or gone: run() logs it and goes on.
UpgradeFails(c) == EndsUpgrade(c, "closed") /\ upgrading' = NoConn

\* Bound: a handshake succeeds only while a token is left for its session.
SpareToken ==
    Cardinality(issued) + Cardinality({c \in Conns : stage[c] = "acked"})
        < Cardinality(Tokens)

\* Version, token and authenticator agree on p; the ack goes out.  One player
\* may authenticate on several connections.
HandshakeSucceeds(c, p) ==
    /\ Moves(c, "accepted", "acked")
    /\ SpareToken
    /\ who' = [who EXCEPT ![c] = p]
    /\ UNCHANGED <<sessionVars, listenVars>>

\* Timeout, closed, undecodable, not a Handshake, wrong version, unauthorized,
\* or the ack cannot be sent.
HandshakeFails(c) == Moves(c, "accepted", "closed") /\ UNCHANGED <<sessionVars, listenVars, who>>

OpenSession(c, tok) ==
    /\ Moves(c, "acked", "loop")
    /\ Create(who[c], tok)
    /\ UNCHANGED <<listenVars, who>>

\* AlreadyConnected: the handler returns before there is a guard.
MutGuardBeforeCreate(c) ==
    /\ Moves(c, "acked", "dropping")
    /\ IsConnected(who[c])
    /\ UNCHANGED <<sessionVars, listenVars, who>>

SessionRefused(c) ==
    /\ Moves(c, "acked", "closed")
    /\ IsConnected(who[c])
    /\ who' = [who EXCEPT ![c] = NoPlayer]
    /\ UNCHANGED <<sessionVars, listenVars>>

\* Clean close, transport or codec error, Disconnect message, 15 s without
\* data, or a panic: in every case the guard is dropped.
HandlerEnds(c) ==
    Moves(c, "loop", "dropping") /\ UNCHANGED <<sessionVars, listenVars, who>>

MutGuardTaskForgets(c) ==
    /\ Moves(c, "dropping", "closed")
    /\ who' = [who EXCEPT ![c] = NoPlayer]
    /\ UNCHANGED <<sessionVars, listenVars>>

GuardTask(c) ==
    /\ Moves(c, "dropping", "closed")
    /\ Disconnect(who[c])
    /\ who' = [who EXCEPT ![c] = NoPlayer]
    /\ UNCHANGED listenVars

HandshakeEnds(c) == HandshakeFails(c) \/ \E p \in Players : HandshakeSucceeds(c, p)

AsksForSession(c) == SessionRefused(c) \/ \E tok \in Tokens : OpenSession(c, tok)

Handler(c) ==
    \/ HandshakeEnds(c) \/ AsksForSession(c) \/ HandlerEnds(c) \/ GuardTask(c)

ConnNext ==
    \/ TakeNext
    \/ \E c \in Conns : Connect(c) \/ Accept(c) \/ UpgradeFails(c) \/ Handler(c)
    \/ Tick /\ UNCHANGED <<listenVars, stage, who>>

\* Tokio runs every task that can go on.  A handshake ends: a client that
\* sends nothing runs into the timeout of 5 s.  Nothing in the code bounds an
\* upgrade: it ends if the client is not Silent.
ConnFairness ==
    /\ WF_connVars(TakeNext)
    /\ \A c \in Conns \ Silent : WF_connVars(Accept(c) \/ UpgradeFails(c))
    /\ \A c \in Conns : /\ WF_connVars(HandshakeEnds(c))
                        /\ WF_connVars(AsksForSession(c))
                        /\ WF_connVars(GuardTask(c))

ConnSpec == ConnInit /\ [][ConnNext]_connVars /\ ConnFairness

-----------------------------------------------------------------------------
(* Properties. *)

\* What accept() awaits or has before it is connecting, each of them once.
InLine ==
    /\ upgrading # NoConn => stage[upgrading] = "connecting"
    /\ \A i \in DOMAIN backlog :
          /\ stage[backlog[i]] = "connecting" /\ backlog[i] # upgrading
          /\ \A j \in DOMAIN backlog : backlog[i] = backlog[j] => i = j

\* Every variable has its type, and whoever waits for accept() is connecting.
ConnTypeOK ==
    /\ SessionTypeOK
    /\ backlog \in Seq(Conns)
    /\ upgrading \in Conns \cup {NoConn}
    /\ stage \in [Conns -> Stages]
    /\ who \in [Conns -> Players \cup {NoPlayer}]
    /\ InLine

Owns(c, p) == who[c] = p /\ stage[c] \in {"loop", "dropping"}

\* A session is Connected exactly while one handler, or the task its guard
\* has left behind, stands for it, and there never are two: a player has one
\* handler in its loop, and no late guard disconnects a newer connection.
SessionMatchesHandler ==
    \A p \in Players :
        /\ IsConnected(p) <=> \E c \in Conns : Owns(c, p)
        /\ \A c, d \in Conns : Owns(c, p) /\ Owns(d, p) => c = d

\* "This ensures cleanup happens even if the handler panics": when a handler
\* is gone its session will not stay Connected, so the player can come back.
SessionIsReleased ==
    \A c \in Conns : \A p \in Players :
        (who[c] = p /\ stage[c] = "dropping") ~> ~IsConnected(p)

\* A client that connects gets a session or is let go, unless accept() stays
\* with a Silent client for ever: run() outlives failed upgrades, and no
\* handshake, session or guard of another connection is in the way.
ClientsAreServed ==
    \A c \in Conns :
        []<>(upgrading \notin Silent)
            => (stage[c] = "connecting" ~> stage[c] \in {"loop", "closed"})
=============================================================================
