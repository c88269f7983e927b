------------------------------- MODULE MCWire -------------------------------
(* Small instances of Wire for TLC. *)
EXTENDS Wire, TLC

Nobody == [kind |-> "Nobody", player |-> NoPlayer]
All == [kind |-> "All", player |-> NoPlayer]

MCOutboxes == {<<Nobody, Nobody>>, <<All, Nobody>>}

MCTasks == Players \cup Admins

Symmetry == Permutations(Players) \cup Permutations(Rooms)
            \cup Permutations(Chans)
=============================================================================
