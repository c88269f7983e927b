-------------------------- MODULE ConnectionProofs --------------------------
(* Theorems about SessionManager and Connection, for every value of their    *)
(* constants.                                                                *)
EXTENDS Connection, TLAPS

-----------------------------------------------------------------------------
(* Sessions. *)

\* The index alone does not tell that a token about to be generated is in no
\* session: that is what the history says.
TokensIssued ==
    /\ \A tok \in Tokens : tokens[tok] # NoPlayer => tok \in issued
    /\ \A p \in Players : sessions[p].token # NoToken => sessions[p].token \in issued

SessionInv == SessionTypeOK /\ TokenIndexInSync /\ TokensIssued

\* Nothing is issued and no map has an entry at the start.
LEMMA SessionInitInv ==
    ASSUME SessionAssumption, SessionInit PROVE SessionInv
BY DEF SessionAssumption, SessionInit, SessionInv, SessionTypeOK, Sessions,
       NoSession, TokenIndexInSync, TokensIssued

\* A change of state and time that leaves every session its token.
LEMMA StateChange ==
    ASSUME SessionAssumption, SessionInv,
           UNCHANGED <<tokens, issued>>, now' \in Nat,
           sessions' \in [Players -> Sessions],
           \A p \in Players : /\ sessions'[p].token = sessions[p].token
                              /\ sessions'[p].state = "None" <=>
                                    sessions[p].state = "None"
    PROVE  SessionInv'
BY DEF SessionInv, SessionTypeOK, TokenIndexInSync, TokensIssued

\* create: the new token was never issued, and the replaced session's token
\* is out of the index.
LEMMA CreateInv ==
    ASSUME SessionAssumption, SessionInv, NEW p \in Players, NEW tok \in Tokens,
           Create(p, tok)
    PROVE  SessionInv'
<1> DEFINE new == [state |-> "Connected", since |-> 0, token |-> tok]
<1>1. /\ sessions \in [Players -> Sessions]
      /\ tokens \in [Tokens -> Players \cup {NoPlayer}]
      /\ now \in Nat /\ issued \in SUBSET Tokens
    BY DEF SessionInv, SessionTypeOK
<1>2. new \in Sessions
    BY DEF Sessions
<1>3. /\ tok \notin issued
      /\ sessions' = [sessions EXCEPT ![p] = new]
      /\ issued' = issued \cup {tok}
      /\ now' = now
      /\ tokens' = [u \in Tokens |->
                       CASE u = tok -> p
                         [] u # tok /\ u = sessions[p].token -> NoPlayer
                         [] OTHER -> tokens[u]]
    BY DEF Create, NewToken
<1>4. SessionTypeOK'
    <2>1. ASSUME NEW q \in Players
          PROVE  sessions'[q].state = "None" <=> sessions'[q].token = NoToken
        BY <1>1, <1>3 DEF SessionInv, SessionTypeOK, SessionAssumption
    <2>2. QED
        BY <1>1, <1>2, <1>3, <2>1 DEF SessionTypeOK
<1>5. TokenIndexInSync'
    <2>1. SUFFICES ASSUME NEW q \in Players, NEW u \in Tokens
                   PROVE  tokens'[u] = q <=> sessions'[q].token = u
        BY DEF TokenIndexInSync
    <2>2. tokens[u] = q <=> sessions[q].token = u
        BY DEF SessionInv, TokenIndexInSync
    <2>3. sessions[q].token # tok
        BY <1>3 DEF SessionInv, TokensIssued, SessionAssumption
    <2>4. tokens[u] = p <=> sessions[p].token = u
        BY DEF SessionInv, TokenIndexInSync
    <2>5. CASE q = p
        BY <1>1, <1>3, <2>2, <2>3, <2>5 DEF SessionAssumption
    <2>6. CASE q # p
        BY <1>1, <1>3, <2>2, <2>3, <2>4, <2>6 DEF SessionAssumption
    <2>7. QED
        BY <2>5, <2>6
<1>6. TokensIssued'
    <2>1. \A u \in Tokens : tokens'[u] # NoPlayer => u \in issued'
        BY <1>1, <1>3 DEF SessionInv, TokensIssued
    <2>2. ASSUME NEW q \in Players
          PROVE  sessions'[q].token # NoToken => sessions'[q].token \in issued'
        BY <1>1, <1>3 DEF SessionInv, TokensIssued, SessionAssumption
    <2>3. QED
        BY <2>1, <2>2 DEF TokensIssued
<1>7. QED
    BY <1>4, <1>5, <1>6 DEF SessionInv

\* disconnect changes the state and the time of one session.
LEMMA DisconnectInv ==
    ASSUME SessionAssumption, SessionInv, NEW p \in Players, Disconnect(p)
    PROVE  SessionInv'
<1>1. sessions \in [Players -> Sessions] /\ now \in Nat
    BY DEF SessionInv, SessionTypeOK
<1>2. sessions' \in [Players -> Sessions]
    BY <1>1 DEF Disconnect, Sessions
<1>3. \A q \in Players : /\ sessions'[q].token = sessions[q].token
                         /\ sessions'[q].state = "None" <=> sessions[q].state = "None"
    BY <1>1 DEF Disconnect, Sessions
<1>4. QED
    BY <1>1, <1>2, <1>3, StateChange DEF Disconnect

\* reconnect changes the state and the time of one session.
LEMMA ReconnectInv ==
    ASSUME SessionAssumption, SessionInv, NEW tok \in Tokens, Reconnect(tok)
    PROVE  SessionInv'
<1> DEFINE p == tokens[tok]
<1>1. /\ sessions \in [Players -> Sessions] /\ now \in Nat
      /\ p \in Players
    BY DEF SessionInv, SessionTypeOK, Reconnect
<1>2. PICK state \in {"Connected", "Expired"} :
          sessions' = [sessions EXCEPT ![p].state = state, ![p].since = 0]
    BY DEF Reconnect, Becomes
<1>3. sessions' \in [Players -> Sessions]
    BY <1>1, <1>2 DEF Sessions
<1>4. \A q \in Players : /\ sessions'[q].token = sessions[q].token
                         /\ sessions'[q].state = "None" <=> sessions[q].state = "None"
    BY <1>1, <1>2 DEF Sessions, Reconnect
<1>5. QED
    BY <1>1, <1>3, <1>4, StateChange DEF Reconnect

\* expire_stale changes the state and the time of any number of sessions.
LEMMA ExpireInv ==
    ASSUME SessionAssumption, SessionInv, ExpireStale
    PROVE  SessionInv'
<1>1. sessions \in [Players -> Sessions] /\ now \in Nat
    BY DEF SessionInv, SessionTypeOK
<1>2. ASSUME NEW q \in Players
      PROVE  /\ sessions'[q] \in Sessions
             /\ sessions'[q].token = sessions[q].token
             /\ sessions'[q].state = "None" <=> sessions[q].state = "None"
    BY <1>1 DEF ExpireStale, Sessions, GraceElapsed
<1>3. sessions' \in [Players -> Sessions]
    BY <1>2 DEF ExpireStale
<1>4. QED
    BY <1>1, <1>2, <1>3, StateChange DEF ExpireStale

\* cleanup_expired removes exactly the tokens of the sessions it removes.
LEMMA CleanupInv ==
    ASSUME SessionAssumption, SessionInv, CleanupExpired
    PROVE  SessionInv'
<1>1. /\ sessions \in [Players -> Sessions]
      /\ tokens \in [Tokens -> Players \cup {NoPlayer}]
      /\ now \in Nat /\ issued \in SUBSET Tokens
      /\ now' = now /\ issued' = issued
    BY DEF SessionInv, SessionTypeOK, CleanupExpired
<1>2. \A q \in Players :
          sessions'[q] = IF IsExpired(q) THEN NoSession ELSE sessions[q]
    BY DEF CleanupExpired
<1>3. \A u \in Tokens :
          tokens'[u] = IF \E q \in Players : IsExpired(q) /\ sessions[q].token = u
                       THEN NoPlayer ELSE tokens[u]
    BY DEF CleanupExpired
<1>4. SessionTypeOK'
    <2>1. NoSession \in Sessions
        BY DEF NoSession, Sessions
    <2>2. sessions' \in [Players -> Sessions]
        BY <1>1, <2>1 DEF CleanupExpired
    <2>3. tokens' \in [Tokens -> Players \cup {NoPlayer}]
        BY <1>1 DEF CleanupExpired
    <2>4. \A q \in Players :
              sessions'[q].state = "None" <=> sessions'[q].token = NoToken
        BY <1>2 DEF SessionInv, SessionTypeOK, NoSession
    <2>5. QED
        BY <1>1, <2>2, <2>3, <2>4 DEF SessionTypeOK
<1>5. TokenIndexInSync'
    <2>1. SUFFICES ASSUME NEW q \in Players, NEW u \in Tokens
                   PROVE  tokens'[u] = q <=> sessions'[q].token = u
        BY DEF TokenIndexInSync
    <2>2. \A s \in Players : tokens[u] = s <=> sessions[s].token = u
        BY DEF SessionInv, TokenIndexInSync
    <2>3. CASE IsExpired(q)
        BY <1>2, <1>3, <2>2, <2>3 DEF NoSession, SessionAssumption
    <2>4. CASE ~IsExpired(q)
        BY <1>2, <1>3, <2>2, <2>4 DEF SessionAssumption
    <2>5. QED
        BY <2>3, <2>4
<1>6. TokensIssued'
    BY <1>1, <1>2, <1>3 DEF SessionInv, TokensIssued, NoSession
<1>7. QED
    BY <1>4, <1>5, <1>6 DEF SessionInv

\* Every method keeps the strengthened invariant, one step per method.
LEMMA SessionStep ==
    ASSUME SessionAssumption, SessionInv, [SessionNext]_sessionVars
    PROVE  SessionInv'
<1>1. CASE Tick
    BY <1>1 DEF Tick, SessionInv, SessionTypeOK, TokenIndexInSync, TokensIssued
<1>2. CASE UNCHANGED sessionVars
    BY <1>2 DEF sessionVars, SessionInv, SessionTypeOK, TokenIndexInSync, TokensIssued
<1>3. QED
    BY <1>1, <1>2, CreateInv, DisconnectInv, ReconnectInv, ExpireInv, CleanupInv
    DEF SessionNext

\* The strengthened invariant holds in every behaviour.
LEMMA SessionInvariant == SessionSpec => []SessionInv
<1>1. SessionInit => SessionInv
    BY SessionAssumption, SessionInitInv
<1>2. SessionInv /\ [SessionNext]_sessionVars => SessionInv'
    BY SessionAssumption, SessionStep
<1>3. QED
    BY <1>1, <1>2, PTL DEF SessionSpec

\* Every variable of the sessions keeps its type.
THEOREM SessionTypeCorrect == SessionSpec => []SessionTypeOK
<1>1. SessionInv => SessionTypeOK
    BY DEF SessionInv
<1>2. QED
    BY <1>1, SessionInvariant, PTL

\* The two maps stay in sync under every sequence of calls.
THEOREM TokensCorrect == SessionSpec => []TokenIndexInSync
<1>1. SessionInv => TokenIndexInSync
    BY DEF SessionInv
<1>2. QED
    BY <1>1, SessionInvariant, PTL

\* The grace period is respected by every sequence of calls, whatever its
\* length is.
THEOREM GraceCorrect == SessionSpec => GraceRespected
<1>1. SessionInv /\ [SessionNext]_sessionVars => [GraceStep]_sessionVars
    <2>1. SUFFICES ASSUME SessionInv, SessionNext PROVE GraceStep
        OBVIOUS
    <2>2. /\ sessions \in [Players -> Sessions]
          /\ tokens \in [Tokens -> Players \cup {NoPlayer}]
          /\ now \in Nat
        BY <2>1 DEF SessionInv, SessionTypeOK
    <2>3. ASSUME NEW p \in Players, NEW tok \in Tokens, Create(p, tok)
          PROVE  GraceStep
        <3>1. tok \notin issued /\ sessions[p].token # tok
            BY <2>1, <2>3, SessionAssumption
            DEF Create, NewToken, SessionInv, TokensIssued, SessionAssumption
        <3>2. sessions' = [sessions EXCEPT ![p] = [state |-> "Connected", since |-> 0,
                                                   token |-> tok]]
            BY <2>3 DEF Create
        <3>3. QED
            BY <2>2, <3>1, <3>2 DEF GraceStep, SameToken, Sessions
    <2>4. ASSUME NEW p \in Players, Disconnect(p) PROVE GraceStep
        BY <2>2, <2>4 DEF Disconnect, GraceStep, Sessions
    <2>5. ASSUME NEW tok \in Tokens, Reconnect(tok) PROVE GraceStep
        <3> DEFINE p == tokens[tok]
        <3>1. p \in Players /\ sessions[p].state = "Disconnected"
            BY <2>2, <2>5 DEF Reconnect
        <3>2. \/ GraceElapsed(p) /\ Becomes(p, "Expired")
              \/ ~GraceElapsed(p) /\ Becomes(p, "Connected")
            BY <2>5 DEF Reconnect
        <3>3. sessions[p].since \in Nat /\ Grace \in Nat
            BY <2>2, <3>1, SessionAssumption DEF Sessions, SessionAssumption
        <3>4. QED
            BY <2>2, <3>1, <3>2, <3>3 DEF GraceStep, GraceElapsed, Becomes, Sessions
    <2>6. CASE ExpireStale
        BY <2>2, <2>6 DEF ExpireStale, GraceStep, GraceElapsed, Sessions
    <2>7. CASE CleanupExpired
        BY <2>2, <2>7 DEF CleanupExpired, GraceStep, IsExpired, NoSession, Sessions
    <2>8. CASE Tick
        BY <2>2, <2>8 DEF Tick, GraceStep, Sessions
    <2>9. QED
        BY <2>1, <2>3, <2>4, <2>5, <2>6, <2>7, <2>8 DEF SessionNext
<1>2. QED
    BY <1>1, SessionInvariant, PTL DEF SessionSpec, GraceRespected

-----------------------------------------------------------------------------
(* Handlers and sessions.                                                  *)

\* A handler past the handshake knows its player.
WhoKnown ==
    \A c \in Conns : stage[c] \in {"acked", "loop", "dropping"} => who[c] \in Players

ConnInv == SessionInv /\ ConnTypeOK /\ WhoKnown /\ SessionMatchesHandler

\* No connection stands for anybody at the start.
LEMMA ConnInitInv ==
    ASSUME SessionAssumption, ConnAssumption, ConnInit PROVE ConnInv
<1>1. SessionInv
    BY SessionInitInv DEF ConnInit
<1>2. QED
    BY <1>1 DEF ConnInit, SessionInit, ConnInv, ConnTypeOK, Stages, WhoKnown,
       SessionMatchesHandler, Owns, IsConnected, NoSession, SessionInv, InLine

\* A step of one connection that is not connecting leaves the line alone.
LEMMA LineFrame ==
    ASSUME InLine, UNCHANGED listenVars, backlog \in Seq(Conns),
           upgrading \in Conns \cup {NoConn},
           \A c \in Conns : stage[c] = "connecting" => stage'[c] = "connecting"
    PROVE  InLine'
<1>1. \A i \in DOMAIN backlog : backlog[i] \in Conns
    OBVIOUS
<1>2. QED
    BY <1>1 DEF InLine, listenVars

\* A step that neither touches a session nor gives or takes an owner.
LEMMA OwnersFrame ==
    ASSUME SessionMatchesHandler, sessions' = sessions,
           \A c \in Conns, p \in Players : Owns(c, p)' <=> Owns(c, p)
    PROVE  SessionMatchesHandler'
BY DEF SessionMatchesHandler, IsConnected

\* create refuses a player with a Connected session, so a handler that gets
\* one is the only one.
LEMMA OpenSessionInv ==
    ASSUME SessionAssumption, ConnAssumption, ConnInv, NEW c \in Conns, NEW tok \in Tokens,
           OpenSession(c, tok)
    PROVE  ConnInv'
<1>1. /\ stage \in [Conns -> Stages] /\ who \in [Conns -> Players \cup {NoPlayer}]
      /\ backlog \in Seq(Conns) /\ upgrading \in Conns \cup {NoConn}
      /\ sessions \in [Players -> Sessions]
      /\ SessionInv /\ SessionMatchesHandler /\ WhoKnown
    BY DEF ConnInv, ConnTypeOK, SessionTypeOK
<1>2. PICK p \in Players : p = who[c]
    BY <1>1 DEF OpenSession, Moves, WhoKnown
<1>3. /\ stage[c] = "acked" /\ stage' = [stage EXCEPT ![c] = "loop"]
      /\ who' = who /\ Create(p, tok) /\ UNCHANGED listenVars
    BY <1>2 DEF OpenSession, Moves
<1>4. SessionInv'
    BY <1>1, <1>2, <1>3, CreateInv
<1>5. /\ ~IsConnected(p) /\ IsConnected(p)'
      /\ \A q \in Players : q # p => (IsConnected(q)' <=> IsConnected(q))
    BY <1>1, <1>2, <1>3 DEF Create, IsConnected
<1>6. SessionMatchesHandler'
    <2>1. \A d \in Conns : ~Owns(d, p)
        BY <1>1, <1>3, <1>5 DEF SessionMatchesHandler
    <2>2. \A d \in Conns, q \in Players :
              Owns(d, q)' <=> Owns(d, q) \/ (d = c /\ q = p)
        BY <1>1, <1>2, <1>3 DEF Owns
    <2>3. ASSUME NEW q \in Players
          PROVE  /\ IsConnected(q)' <=> \E d \in Conns : Owns(d, q)'
                 /\ \A d, e \in Conns : Owns(d, q)' /\ Owns(e, q)' => d = e
        <3>1. CASE q = p
            BY <1>5, <2>1, <2>2, <3>1
        <3>2. CASE q # p
            BY <1>1, <1>5, <2>2, <3>2 DEF SessionMatchesHandler
        <3>3. QED
            BY <3>1, <3>2
    <2>4. QED
        BY <2>3 DEF SessionMatchesHandler
<1>7. ConnTypeOK'
    <2>1. SessionTypeOK'
        BY <1>4 DEF SessionInv
    <2>2. stage' \in [Conns -> Stages]
        BY <1>1, <1>2, <1>3 DEF Stages
    <2>3. InLine'
        BY <1>1, <1>2, <1>3, LineFrame DEF ConnInv, ConnTypeOK
    <2>4. QED
        BY <1>1, <1>2, <1>3, <2>1, <2>2, <2>3 DEF ConnTypeOK, listenVars
<1>8. WhoKnown'
    BY <1>1, <1>2, <1>3 DEF WhoKnown
<1>9. QED
    BY <1>4, <1>6, <1>7, <1>8 DEF ConnInv

\* The guard's task releases the session of the only connection that owns it.
LEMMA GuardTaskInv ==
    ASSUME SessionAssumption, ConnAssumption, ConnInv, NEW c \in Conns, GuardTask(c)
    PROVE  ConnInv'
<1>1. /\ stage \in [Conns -> Stages] /\ who \in [Conns -> Players \cup {NoPlayer}]
      /\ backlog \in Seq(Conns) /\ upgrading \in Conns \cup {NoConn}
      /\ sessions \in [Players -> Sessions]
      /\ SessionInv /\ SessionMatchesHandler /\ WhoKnown
    BY DEF ConnInv, ConnTypeOK, SessionTypeOK
<1>2. PICK p \in Players : p = who[c]
    BY <1>1 DEF GuardTask, Moves, WhoKnown
<1>3. /\ stage[c] = "dropping" /\ stage' = [stage EXCEPT ![c] = "closed"]
      /\ who' = [who EXCEPT ![c] = NoPlayer] /\ Disconnect(p)
      /\ UNCHANGED listenVars
    BY <1>2 DEF GuardTask, Moves
<1>4. SessionInv'
    BY <1>1, <1>2, <1>3, DisconnectInv
<1>5. /\ ~IsConnected(p)'
      /\ \A q \in Players : q # p => (IsConnected(q)' <=> IsConnected(q))
    <2>1. /\ sessions'[p] = [sessions[p] EXCEPT !.state = "Disconnected", !.since = now]
          /\ \A q \in Players : q # p => sessions'[q] = sessions[q]
        BY <1>1, <1>2, <1>3 DEF Disconnect
    <2>2. sessions'[p].state = "Disconnected"
        BY <1>1, <1>3, <2>1 DEF Sessions
    <2>3. QED
        BY <2>1, <2>2 DEF IsConnected
<1>6. SessionMatchesHandler'
    <2>1. Owns(c, p)
        BY <1>2, <1>3 DEF Owns
    <2>2. \A d \in Conns : Owns(d, p) => d = c
        BY <1>1, <1>3, <2>1 DEF SessionMatchesHandler
    <2>3. \A d \in Conns, q \in Players :
              Owns(d, q)' <=> (Owns(d, q) /\ d # c)
        BY <1>1, <1>2, <1>3 DEF Owns
    <2>4. \A q \in Players : q # p => ~Owns(c, q)
        BY <1>2 DEF Owns
    <2>5. ASSUME NEW q \in Players
          PROVE  /\ IsConnected(q)' <=> \E d \in Conns : Owns(d, q)'
                 /\ \A d, e \in Conns : Owns(d, q)' /\ Owns(e, q)' => d = e
        <3>1. CASE q = p
            BY <1>5, <2>2, <2>3, <3>1
        <3>2. CASE q # p
            BY <1>1, <1>5, <2>3, <2>4, <3>2 DEF SessionMatchesHandler
        <3>3. QED
            BY <3>1, <3>2
    <2>6. QED
        BY <2>5 DEF SessionMatchesHandler
<1>7. ConnTypeOK'
    <2>1. SessionTypeOK'
        BY <1>4 DEF SessionInv
    <2>2. stage' \in [Conns -> Stages]
        BY <1>1, <1>2, <1>3 DEF Stages
    <2>3. InLine'
        BY <1>1, <1>2, <1>3, LineFrame DEF ConnInv, ConnTypeOK
    <2>4. QED
        BY <1>1, <1>2, <1>3, <2>1, <2>2, <2>3 DEF ConnTypeOK, listenVars
<1>8. WhoKnown'
    BY <1>1, <1>2, <1>3 DEF WhoKnown
<1>9. QED
    BY <1>4, <1>6, <1>7, <1>8 DEF ConnInv

\* The steps of a handler that touch no session.
LEMMA QuietInv ==
    ASSUME SessionAssumption, ConnAssumption, ConnInv, UNCHANGED sessionVars, NEW c \in Conns,
           NEW from \in Stages, NEW to \in Stages, Moves(c, from, to),
           backlog' \in Seq(Conns), upgrading' \in Conns \cup {NoConn},
           who' \in [Conns -> Players \cup {NoPlayer}],
           \A d \in Conns : d # c => who'[d] = who[d],
           from \in {"loop", "dropping"} <=> to \in {"loop", "dropping"},
           to \in {"loop", "dropping"} => who' = who,
           to = "acked" => who'[c] \in Players,
           InLine'
    PROVE  ConnInv'
<1>1. /\ stage \in [Conns -> Stages] /\ who \in [Conns -> Players \cup {NoPlayer}]
      /\ SessionInv /\ SessionTypeOK /\ SessionMatchesHandler /\ WhoKnown
    BY DEF ConnInv, ConnTypeOK
<1>2. stage[c] = from /\ stage' = [stage EXCEPT ![c] = to]
    BY DEF Moves
<1>3. SessionInv' /\ SessionTypeOK' /\ sessions' = sessions
    BY <1>1 DEF sessionVars, SessionInv, SessionTypeOK, TokenIndexInSync, TokensIssued
<1>4. \A d \in Conns, p \in Players : Owns(d, p)' <=> Owns(d, p)
    BY <1>1, <1>2 DEF Owns
<1>5. SessionMatchesHandler'
    BY <1>1, <1>3, <1>4, OwnersFrame
<1>6. stage' \in [Conns -> Stages]
    BY <1>1, <1>2
<1>7. WhoKnown'
    BY <1>1, <1>2 DEF WhoKnown
<1>8. QED
    BY <1>3, <1>5, <1>6, <1>7 DEF ConnInv, ConnTypeOK

\* Every step of a connection keeps the invariant, one step per action.
LEMMA ConnStep ==
    ASSUME SessionAssumption, ConnAssumption, ConnInv, [ConnNext]_connVars
    PROVE  ConnInv'
<1>1. /\ who \in [Conns -> Players \cup {NoPlayer}]
      /\ backlog \in Seq(Conns) /\ upgrading \in Conns \cup {NoConn}
      /\ stage \in [Conns -> Stages] /\ InLine
    BY DEF ConnInv, ConnTypeOK
<1>0. ASSUME NEW c \in Conns, NEW from, NEW to, Moves(c, from, to),
             from # "connecting", UNCHANGED listenVars
      PROVE  InLine'
    BY <1>1, <1>0, LineFrame DEF Moves
<1>2. ASSUME NEW c \in Conns, HandshakeFails(c) \/ HandlerEnds(c)
      PROVE  ConnInv'
    <2>1. UNCHANGED listenVars
        BY <1>2 DEF HandshakeFails, HandlerEnds
    <2>2. CASE HandshakeFails(c)
        <3>1. Moves(c, "accepted", "closed")
            BY <2>2 DEF HandshakeFails
        <3>2. InLine'
            BY <1>0, <2>1, <3>1
        <3>3. QED
            BY <1>1, <2>1, <2>2, <3>2, QuietInv DEF HandshakeFails, Stages, listenVars
    <2>3. CASE HandlerEnds(c)
        <3>1. Moves(c, "loop", "dropping")
            BY <2>3 DEF HandlerEnds
        <3>2. InLine'
            BY <1>0, <2>1, <3>1
        <3>3. QED
            BY <1>1, <2>1, <2>3, <3>2, QuietInv DEF HandlerEnds, Stages, listenVars
    <2>4. QED
        BY <1>2, <2>2, <2>3
<1>3. ASSUME NEW c \in Conns, NEW p \in Players, HandshakeSucceeds(c, p)
      PROVE  ConnInv'
    <2>1. /\ who' \in [Conns -> Players \cup {NoPlayer}]
          /\ who'[c] = p /\ \A d \in Conns : d # c => who'[d] = who[d]
        BY <1>1, <1>3 DEF HandshakeSucceeds
    <2>2. /\ Moves(c, "accepted", "acked") /\ UNCHANGED sessionVars
          /\ UNCHANGED listenVars
        BY <1>3 DEF HandshakeSucceeds
    <2>3. InLine'
        BY <1>0, <2>2
    <2>4. QED
        BY <1>1, <2>1, <2>2, <2>3, QuietInv DEF Stages, listenVars
<1>4. ASSUME NEW c \in Conns, SessionRefused(c)
      PROVE  ConnInv'
    <2>1. /\ who' \in [Conns -> Players \cup {NoPlayer}]
          /\ \A d \in Conns : d # c => who'[d] = who[d]
        BY <1>1, <1>4 DEF SessionRefused
    <2>2. /\ Moves(c, "acked", "closed") /\ UNCHANGED sessionVars
          /\ UNCHANGED listenVars
        BY <1>4 DEF SessionRefused
    <2>3. InLine'
        BY <1>0, <2>2
    <2>4. QED
        BY <1>1, <2>1, <2>2, <2>3, QuietInv DEF Stages, listenVars
<1>5. ASSUME UNCHANGED <<sessions, tokens, issued, stage, who>>, now' \in Nat,
             backlog' \in Seq(Conns), upgrading' \in Conns \cup {NoConn}, InLine'
      PROVE  ConnInv'
    BY <1>5 DEF ConnInv, ConnTypeOK, SessionInv, SessionTypeOK, TokenIndexInSync,
       TokensIssued, WhoKnown, SessionMatchesHandler, IsConnected, Owns
<1>6. now \in Nat
    BY DEF ConnInv, ConnTypeOK, SessionTypeOK
<1>7. CASE Tick /\ UNCHANGED <<listenVars, stage, who>>
    <2>1. InLine'
        BY <1>1, <1>7 DEF InLine, listenVars
    <2>2. QED
        BY <1>1, <1>5, <1>6, <1>7, <2>1 DEF Tick, listenVars
<1>8. CASE UNCHANGED connVars
    <2>1. InLine'
        BY <1>1, <1>8 DEF InLine, connVars
    <2>2. QED
        BY <1>1, <1>5, <1>6, <1>8, <2>1 DEF connVars
<1>9. CASE TakeNext
    <2>1. /\ Head(backlog) \in Conns /\ Tail(backlog) \in Seq(Conns)
          /\ Len(backlog) \in Nat /\ Len(backlog) > 0
          /\ Len(Tail(backlog)) = Len(backlog) - 1
          /\ \A i \in 1..Len(Tail(backlog)) : Tail(backlog)[i] = backlog[i + 1]
          /\ Head(backlog) = backlog[1]
        BY <1>1, <1>9 DEF TakeNext
    <2>2. InLine'
        <3>1. \A i \in 1..Len(backlog) :
                 /\ stage[backlog[i]] = "connecting"
                 /\ \A j \in 1..Len(backlog) : backlog[i] = backlog[j] => i = j
            BY <1>1 DEF InLine
        <3>2. upgrading' = backlog[1] /\ backlog' = Tail(backlog) /\ stage' = stage
            BY <1>9, <2>1 DEF TakeNext
        <3>3. stage[backlog[1]] = "connecting"
            BY <2>1, <3>1
        <3>4. ASSUME NEW i \in 1..Len(backlog')
              PROVE  /\ stage[backlog'[i]] = "connecting"
                     /\ backlog'[i] # backlog[1]
                     /\ \A j \in 1..Len(backlog') : backlog'[i] = backlog'[j] => i = j
            BY <2>1, <3>1, <3>2
        <3>5. DOMAIN backlog' = 1..Len(backlog')
            BY <2>1, <3>2
        <3>6. QED
            BY <3>2, <3>3, <3>4, <3>5 DEF InLine
    <2>3. QED
        BY <1>5, <1>6, <1>9, <2>1, <2>2 DEF TakeNext, sessionVars
<1>10. ASSUME NEW c \in Conns, Connect(c) \/ Accept(c) \/ UpgradeFails(c)
       PROVE  ConnInv'
    <2>1. /\ backlog' \in Seq(Conns) /\ upgrading' \in Conns \cup {NoConn}
          /\ UNCHANGED sessionVars /\ who' = who
        BY <1>1, <1>10 DEF Connect, Accept, UpgradeFails, EndsUpgrade
    <2>2. \A i \in 1..Len(backlog) :
             /\ backlog[i] \in Conns
             /\ stage[backlog[i]] = "connecting" /\ backlog[i] # upgrading
             /\ \A j \in 1..Len(backlog) : backlog[i] = backlog[j] => i = j
        BY <1>1 DEF InLine
    <2>3. CASE Connect(c)
        <3>1. /\ stage[c] = "closed" /\ stage' = [stage EXCEPT ![c] = "connecting"]
              /\ backlog' = Append(backlog, c) /\ upgrading' = upgrading
            BY <2>3 DEF Connect, Moves
        <3>2. \A d \in Conns : stage[d] = "connecting" => stage'[d] = "connecting"
            BY <1>1, <3>1
        <3>3. upgrading' # NoConn => stage'[upgrading'] = "connecting" /\ upgrading' # c
            BY <1>1, <3>1, <3>2 DEF InLine
        <3>4. stage'[c] = "connecting" /\ c # upgrading'
            BY <1>1, <3>1, <3>3, ConnAssumption DEF ConnAssumption
        <3>5. /\ Len(backlog) \in Nat /\ DOMAIN backlog' = 1..(Len(backlog) + 1)
              /\ backlog'[Len(backlog) + 1] = c
              /\ \A i \in 1..Len(backlog) : backlog'[i] = backlog[i]
            BY <1>1, <3>1
        <3>6. \A i \in 1..Len(backlog) : backlog[i] # c
            BY <2>2, <3>1
        <3>7. ASSUME NEW i \in 1..(Len(backlog) + 1)
              PROVE  /\ stage'[backlog'[i]] = "connecting" /\ backlog'[i] # upgrading'
                     /\ \A j \in 1..(Len(backlog) + 1) :
                           backlog'[i] = backlog'[j] => i = j
            <4>1. CASE i = Len(backlog) + 1
                BY <3>4, <3>5, <3>6, <4>1
            <4>2. CASE i \in 1..Len(backlog)
                BY <2>2, <3>1, <3>2, <3>5, <3>6, <4>2
            <4>3. QED
                BY <3>5, <4>1, <4>2
        <3>8. InLine'
            BY <3>3, <3>5, <3>7 DEF InLine
        <3>9. QED
            BY <1>1, <2>1, <2>3, <3>8, QuietInv DEF Connect, Stages
    <2>4. CASE Accept(c) \/ UpgradeFails(c)
        <3>1. PICK to \in {"accepted", "closed"} : EndsUpgrade(c, to) /\ upgrading' = NoConn
            BY <2>4 DEF Accept, UpgradeFails
        <3>2. /\ Moves(c, "connecting", to) /\ upgrading = c /\ backlog' = backlog
            BY <3>1 DEF EndsUpgrade
        <3>3. \A d \in Conns : d # c => stage'[d] = stage[d]
            BY <1>1, <3>2 DEF Moves
        <3>4. \A i \in 1..Len(backlog) :
                 stage'[backlog[i]] = "connecting" /\ backlog[i] # NoConn
            BY <2>2, <3>2, <3>3, ConnAssumption DEF ConnAssumption
        <3>5. InLine'
            BY <1>1, <2>2, <3>1, <3>2, <3>4 DEF InLine
        <3>6. QED
            BY <1>1, <2>1, <3>2, <3>5, QuietInv DEF Stages
    <2>5. QED
        BY <1>10, <2>3, <2>4
<1>11. QED
    BY <1>2, <1>3, <1>4, <1>7, <1>8, <1>9, <1>10, OpenSessionInv, GuardTaskInv
    DEF ConnNext, Handler, HandshakeEnds, AsksForSession

\* The strengthened invariant holds in every behaviour.
LEMMA ConnInvariant == ConnSpec => []ConnInv
<1>1. ConnInit => ConnInv
    BY SessionAssumption, ConnAssumption, ConnInitInv
<1>2. ConnInv /\ [ConnNext]_connVars => ConnInv'
    BY SessionAssumption, ConnAssumption, ConnStep
<1>3. QED
    BY <1>1, <1>2, PTL DEF ConnSpec

\* Every variable of the connections keeps its type.
THEOREM ConnTypeCorrect == ConnSpec => []ConnTypeOK
<1>1. ConnInv => ConnTypeOK
    BY DEF ConnInv
<1>2. QED
    BY <1>1, ConnInvariant, PTL

\* For any number of connections and players: a player's session is Connected
\* exactly while one handler, or the task of its guard, stands for it.
THEOREM HandlersCorrect == ConnSpec => []SessionMatchesHandler
<1>1. ConnInv => SessionMatchesHandler
    BY DEF ConnInv
<1>2. QED
    BY <1>1, ConnInvariant, PTL
=============================================================================
