--------------------------- MODULE MCRoomManager ---------------------------
(* Small instances of RoomManager for TLC. *)
EXTENDS RoomManager, TLC

Nobody == [kind |-> "Nobody", player |-> NoPlayer]

\* Messages are the business of RoomActor's runs.
MCSilence == {<<Nobody, Nobody>>}

MCTasks == Players \cup Admins

Symmetry == Permutations(Players) \cup Permutations(Rooms)
            \cup Permutations(Chans)
=============================================================================
