--------------------------- MODULE RoomDirectory ---------------------------
(***************************************************************************)
(* What the room manager promises to its callers, without actors, channels *)
(* and locks: a directory that says of every player in which room it is.   *)
(* Joining, leaving, opening and closing a room are each one atomic step.  *)
(* RoomManager implements this specification.                              *)
(***************************************************************************)
EXTENDS Naturals, FiniteSets

CONSTANTS Rooms, Players, NoRoom, MinPlayers, MaxPlayers

VARIABLES
    room,     \* room |-> unused, waiting, started or closed
    where     \* player |-> the room it is in, or NoRoom

dirVars == <<room, where>>

Occupants(r) == {p \in Players : where[p] = r}

DirInit ==
    /\ room = [r \in Rooms |-> "unused"]
    /\ where = [p \in Players |-> NoRoom]

Open(r) ==
    /\ room[r] = "unused"
    /\ room' = [room EXCEPT ![r] = "waiting"]
    /\ UNCHANGED where

\* From nowhere into a waiting room with a place, which starts as soon as it
\* has the players it needs.
Join(p, r) ==
    /\ where[p] = NoRoom
    /\ room[r] = "waiting"
    /\ Cardinality(Occupants(r)) < MaxPlayers
    /\ where' = [where EXCEPT ![p] = r]
    /\ room' = [room EXCEPT ![r] =
                   IF Cardinality(Occupants(r)) + 1 >= MinPlayers
                   THEN "started" ELSE "waiting"]

Leave(p) ==
    /\ where[p] # NoRoom
    /\ where' = [where EXCEPT ![p] = NoRoom]
    /\ UNCHANGED room

\* Destroyed, or its actor has panicked: everybody is out at once.
Close(r) ==
    /\ room[r] \in {"waiting", "started"}
    /\ room' = [room EXCEPT ![r] = "closed"]
    /\ where' = [p \in Players |-> IF where[p] = r THEN NoRoom ELSE where[p]]

DirNext ==
    \/ \E r \in Rooms : Open(r) \/ Close(r) \/ \E p \in Players : Join(p, r)
    \/ \E p \in Players : Leave(p)

DirSpec == DirInit /\ [][DirNext]_dirVars
=============================================================================
