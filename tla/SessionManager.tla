--------------------------- MODULE SessionManager ---------------------------
(***************************************************************************)
(* Sessions and reconnection tokens (arcforge-session/src/manager.rs,      *)
(* session.rs).  Every method takes &mut self, so each is one step, in any *)
(* order callers choose, including an order no handler would choose.       *)
(* A clock stands for Instant::now(); one unit is the resolution of the    *)
(* clock, so that two calls may read the same instant.                     *)
(***************************************************************************)
EXTENDS Naturals

CONSTANTS
    Players, NoPlayer,
    Tokens,       \* what generate_token can return, assumed never to repeat
    NoToken,
    Grace,        \* reconnect_grace_secs, in units of the clock
    MaxTime       \* bound: the clock stops there

ASSUME SessionAssumption ==
    /\ NoPlayer \notin Players
    /\ NoToken \notin Tokens
    /\ Grace \in Nat /\ MaxTime \in Nat

VARIABLES
    sessions,     \* player |-> session, NoSession if not in the map
    tokens,       \* token |-> player it is mapped to, or NoPlayer
    now,
    issued        \* history: tokens generate_token has returned

sessionVars == <<sessions, tokens, now, issued>>

\* since is meaningful in Disconnected only and 0 otherwise.
Sessions == [state : {"None", "Connected", "Disconnected", "Expired"},
             since : Nat, token : Tokens \cup {NoToken}]

NoSession == [state |-> "None", since |-> 0, token |-> NoToken]

IsConnected(p) == sessions[p].state = "Connected"

MutGraceElapsed(p) == sessions[p].state = "Disconnected"

\* since.elapsed() > grace
GraceElapsed(p) ==
    /\ sessions[p].state = "Disconnected"
    /\ now - sessions[p].since > Grace

SessionInit ==
    /\ sessions = [p \in Players |-> NoSession]
    /\ tokens = [tok \in Tokens |-> NoPlayer]
    /\ now = 0
    /\ issued = {}

NewToken(tok) == tok \notin issued

MutCreateKeepsOldToken(p, tok) ==
    /\ ~IsConnected(p)
    /\ NewToken(tok)
    /\ tokens' = [tokens EXCEPT ![tok] = p]
    /\ sessions' = [sessions EXCEPT ![p] = [state |-> "Connected", since |-> 0,
                                            token |-> tok]]
    /\ issued' = issued \cup {tok}
    /\ UNCHANGED now

\* A Connected session refuses; any other is replaced, its token revoked.
Create(p, tok) ==
    /\ ~IsConnected(p)
    /\ NewToken(tok)
    /\ tokens' = [u \in Tokens |->
                    CASE u = tok -> p
                      [] u # tok /\ u = sessions[p].token -> NoPlayer
                      [] OTHER -> tokens[u]]
    /\ sessions' = [sessions EXCEPT ![p] = [state |-> "Connected", since |-> 0,
                                            token |-> tok]]
    /\ issued' = issued \cup {tok}
    /\ UNCHANGED now

MutDisconnectAnyone(p) ==
    /\ sessions' = [sessions EXCEPT ![p].state = "Disconnected", ![p].since = now]
    /\ UNCHANGED <<tokens, now, issued>>

\* From any state: a session that is Disconnected or Expired already becomes
\* Disconnected as of now.
Disconnect(p) ==
    /\ sessions[p].state # "None"
    /\ sessions' = [sessions EXCEPT ![p].state = "Disconnected", ![p].since = now]
    /\ UNCHANGED <<tokens, now, issued>>

Becomes(p, state) ==
    sessions' = [sessions EXCEPT ![p].state = state, ![p].since = 0]

Reconnect(tok) ==
    LET p == tokens[tok]
    IN  /\ p # NoPlayer
        /\ sessions[p].state = "Disconnected"
        /\ \/ GraceElapsed(p) /\ Becomes(p, "Expired")
           \/ ~GraceElapsed(p) /\ Becomes(p, "Connected")
        /\ UNCHANGED <<tokens, now, issued>>

ExpireStale ==
    /\ sessions' = [p \in Players |->
                       IF GraceElapsed(p)
                       THEN [sessions[p] EXCEPT !.state = "Expired", !.since = 0]
                       ELSE sessions[p]]
    /\ UNCHANGED <<tokens, now, issued>>

IsExpired(p) == sessions[p].state = "Expired"

CleanupExpired ==
    /\ sessions' = [p \in Players |-> IF IsExpired(p) THEN NoSession ELSE sessions[p]]
    /\ tokens' = [tok \in Tokens |->
                     IF \E p \in Players : IsExpired(p) /\ sessions[p].token = tok
                     THEN NoPlayer ELSE tokens[tok]]
    /\ UNCHANGED <<now, issued>>

Tick == now < MaxTime /\ now' = now + 1 /\ UNCHANGED <<sessions, tokens, issued>>

SessionNext ==
    \/ \E p \in Players : Disconnect(p) \/ \E tok \in Tokens : Create(p, tok)
    \/ \E tok \in Tokens : Reconnect(tok)
    \/ ExpireStale
    \/ CleanupExpired
    \/ Tick

SessionSpec == SessionInit /\ [][SessionNext]_sessionVars

-----------------------------------------------------------------------------
(* Properties. *)

\* Every variable has its type, and whoever has a session has a token for it.
SessionTypeOK ==
    /\ sessions \in [Players -> Sessions]
    /\ \A p \in Players : sessions[p].state = "None" <=> sessions[p].token = NoToken
    /\ tokens \in [Tokens -> Players \cup {NoPlayer}]
    /\ now \in Nat
    /\ issued \in SUBSET Tokens

\* "It's kept in sync with sessions": the index maps a token to a player
\* exactly if it is the token of that player's session.  So a player has one
\* token that works at most, and a token works for one player.
TokenIndexInSync ==
    \A p \in Players, tok \in Tokens :
        tokens[tok] = p <=> sessions[p].token = tok

SameToken(p) == sessions'[p].token = sessions[p].token

\* The grace period cuts both ways: only a session within it is reconnected,
\* only one beyond it expires, and only an expired one is forgotten (another
\* way to lose it is a new authentication, which changes the token).
GraceStep ==
    \A p \in Players :
        LET before == sessions[p]
            after == sessions'[p]
        IN  /\ before.state = "Disconnected" /\ after.state = "Connected"
               /\ SameToken(p) => now - before.since <= Grace
            /\ after.state = "Expired" /\ before.state # "Expired" =>
               before.state = "Disconnected" /\ now - before.since > Grace
            /\ after.state = "None" => before.state \in {"None", "Expired"}

GraceRespected == [][GraceStep]_sessionVars
=============================================================================
