---------------------------- MODULE MCRoomActor ----------------------------
(* Small instances of RoomActor for TLC. *)
EXTENDS RoomActor, TLC

Nobody == [kind |-> "Nobody", player |-> NoPlayer]
Everyone == [kind |-> "All", player |-> NoPlayer]

\* One callback returns nothing, a private message and a broadcast, or a
\* message for all but one: every way dispatch has of choosing receivers.
MCOutboxes ==
    {<<Nobody, Nobody>>}
    \cup {<<[kind |-> "Player", player |-> p], Everyone>> : p \in Players}
    \cup {<<Nobody, [kind |-> "AllExcept", player |-> p]>> : p \in Players}

Symmetry == Permutations(Players) \cup Permutations(Tasks)
            \cup Permutations(Chans)
=============================================================================
