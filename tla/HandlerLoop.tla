----------------------------- MODULE HandlerLoop -----------------------------
(***************************************************************************)
(* What the message loops of all connection handlers promise, whatever     *)
(* rooms and calls do (arcforge/src/handler.rs): the branches of the       *)
(* select!, the Mutex<RoomManager> they share with the application's       *)
(* tasks, conn.send, and the idle deadline.  Wire implements it.           *)
(*                                                                         *)
(* Rooms are only their messages here, and these never end: a room with a  *)
(* tick or busy members sends for as long as it lives.  A client that is   *)
(* Deaf may stop reading for ever, and conn.send, which waits until the    *)
(* socket takes the envelope, has no timeout.                              *)
(***************************************************************************)
CONSTANTS
    Players,
    Admins,       \* tasks of the application that call the manager
    NoTask,
    Deaf          \* players whose client may stop reading

ASSUME LoopAssumption ==
    /\ Players \cap Admins = {}
    /\ NoTask \notin Players \cup Admins
    /\ Deaf \subseteq Players

VARIABLES
    stage,        \* player |-> where its handler is, as in Wire
    due,          \* player |-> 15 s have passed without data
    unread,       \* players whose handler has a message of a room to take
    lock          \* who holds the Mutex<RoomManager>

loopVars == <<stage, due, unread, lock>>

LoopInit ==
    /\ stage = [p \in Players |-> "off"]
    /\ due = [p \in Players |-> FALSE]
    /\ unread = {}
    /\ lock = NoTask

Moves(p, from, to) == stage[p] = from /\ stage' = [stage EXCEPT ![p] = to]

Connect(p) == Moves(p, "off", "select") /\ UNCHANGED <<due, unread, lock>>

\* recv returns data: it is dropped, answered at once, or needs the manager.
Reads(p) ==
    /\ \E to \in {"select", "send", "lock"} : Moves(p, "select", to)
    /\ due' = [due EXCEPT ![p] = FALSE]
    /\ UNCHANGED <<unread, lock>>

Refused(p) ==
    /\ lock = NoTask
    /\ Moves(p, "lock", "send")
    /\ UNCHANGED <<due, unread, lock>>

\* ListRooms lets go of the lock before it asks the rooms; LeaveRoom in no
\* room drops the receiver and is over.
Granted(p) ==
    /\ lock = NoTask
    /\ \/ Moves(p, "lock", "call") /\ lock' \in {p, NoTask} /\ UNCHANGED unread
       \/ Moves(p, "lock", "select") /\ unread' = unread \ {p} /\ UNCHANGED lock
    /\ UNCHANGED due

Releases(p) == lock' = IF lock = p THEN NoTask ELSE lock

MutAnswersUnderLock(p) ==
    /\ p \notin Deaf
    /\ \E to \in {"select", "send"} : Moves(p, "call", to)
    /\ unread' \in {unread, unread \cup {p}, unread \ {p}}
    /\ Releases(p)
    /\ UNCHANGED due

\* The guard of the lock is gone before the answer is sent.  The call may
\* have changed the receiver.
CallReturns(p) ==
    /\ \E to \in {"select", "send"} : Moves(p, "call", to)
    /\ unread' \in {unread, unread \cup {p}, unread \ {p}}
    /\ Releases(p)
    /\ UNCHANGED due

\* The message taken may or may not have been the only one.
Deliver(p) ==
    /\ p \in unread
    /\ Moves(p, "select", "send")
    /\ unread' \in {unread, unread \ {p}}
    /\ UNCHANGED <<due, lock>>

Sent(p) == Moves(p, "send", "select") /\ UNCHANGED <<due, unread, lock>>

Ends(p, from) ==
    /\ Moves(p, from, "off")
    /\ due' = [due EXCEPT ![p] = FALSE]
    /\ unread' = unread \ {p}
    /\ UNCHANGED lock

Closed(p) == Ends(p, "select")

SendFails(p) == Ends(p, "send")

MutTimeoutYields(p) == due[p] /\ p \notin unread /\ Ends(p, "select")

Timeout(p) == due[p] /\ Ends(p, "select")

IdleElapses(p) ==
    /\ stage[p] # "off"
    /\ ~due[p]
    /\ due' = [due EXCEPT ![p] = TRUE]
    /\ UNCHANGED <<stage, unread, lock>>

\* Actors send to any handlers that listen.
RoomsSend ==
    /\ \E S \in SUBSET {p \in Players : stage[p] # "off"} : unread' = unread \cup S
    /\ UNCHANGED <<stage, due, lock>>

AdminTakes(t) == lock = NoTask /\ lock' = t /\ UNCHANGED <<stage, due, unread>>

AdminReturns(t) == lock = t /\ lock' = NoTask /\ UNCHANGED <<stage, due, unread>>

LoopNext ==
    \/ \E p \in Players :
          \/ Connect(p) \/ Reads(p) \/ Refused(p) \/ Granted(p) \/ CallReturns(p)
          \/ Deliver(p) \/ Sent(p) \/ Closed(p) \/ SendFails(p) \/ Timeout(p)
          \/ IdleElapses(p)
    \/ RoomsSend
    \/ \E t \in Admins : AdminTakes(t) \/ AdminReturns(t)

\* What Wire implements.
LoopSafe == LoopInit /\ [][LoopNext]_loopVars

\* The lock is a FIFO queue, and select! picks a ready branch at random:
\* strong fairness.  Calls return (CallsReturn).  conn.send returns if the
\* client reads, or if its connection breaks.
LoopFairness ==
    /\ \A p \in Players : /\ SF_loopVars(Refused(p) \/ Granted(p))
                          /\ WF_loopVars(CallReturns(p))
                          /\ SF_loopVars(Timeout(p))
    /\ \A p \in Players \ Deaf : WF_loopVars(Sent(p) \/ SendFails(p))
    /\ \A t \in Admins : WF_loopVars(AdminReturns(t))

LoopSpec == LoopSafe /\ LoopFairness

-----------------------------------------------------------------------------
(* Properties. *)

\* A client that does not read holds up its own handler and no other: every
\* request gets the lock and returns, its own included, and whoever reads
\* gets its answer.
DeafHoldUpThemselves ==
    \A p \in Players :
        /\ stage[p] = "lock" ~> stage[p] # "lock"
        /\ stage[p] = "call" ~> stage[p] # "call"
        /\ p \notin Deaf => (stage[p] = "send" ~> stage[p] # "send")

\* A client that reads but is silent is dropped, or is heard of again, even
\* if its room never stops sending to it.
SilentAreDropped == \A p \in Players \ Deaf : due[p] ~> ~due[p]
=============================================================================
