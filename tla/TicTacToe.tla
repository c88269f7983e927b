----------------------------- MODULE TicTacToe -----------------------------
(***************************************************************************)
(* The one game of the repository (examples/tic-tac-toe/src/main.rs): the  *)
(* GameLogic callbacks, called as a room calls them.  A member's message   *)
(* is validated and then handled, the events go to the members, and after  *)
(* is_finished the room still passes messages on.  Members may leave at    *)
(* any time; the game has no on_player_disconnect and plays on.            *)
(*                                                                         *)
(* A member's view is the board and the result it can make out from the    *)
(* snapshot at the start and from the events since.                        *)
(***************************************************************************)
EXTENDS Integers, FiniteSets, FiniteSetsExt

CONSTANTS
    Ids,    \* the numbers of the two players
    None

ASSUME GameAssumption ==
    /\ Ids \subseteq Nat
    /\ IsFiniteSet(Ids) /\ Cardinality(Ids) = 2
    /\ None \notin Nat

VARIABLES board, players, turn, winner,  \* State
          members,                       \* players still in the room
          view                           \* player |-> what it has made out

gameVars == <<board, players, turn, winner, members, view>>

Indices == 0..2
Cells == Indices \X Indices
Blank == [cell \in Cells |-> "Empty"]

Open == [result |-> "open", player |-> None]
Draw == [result |-> "draw", player |-> None]
Won(p) == [result |-> "won", player |-> p]

\* The room passes the players in order of their numbers.
GameInit ==
    /\ board = Blank
    /\ players = [seat \in {0, 1} |-> IF seat = 0 THEN Min(Ids) ELSE Max(Ids)]
    /\ turn = 0
    /\ winner = None
    /\ members = Ids
    /\ view = [p \in Ids |-> [board |-> Blank, over |-> Open]]

-----------------------------------------------------------------------------

\* validate_message: what it refuses changes nothing.
Accepts(sender, row, col) ==
    /\ winner = None
    /\ players[turn] = sender
    /\ row < 3 /\ col < 3
    /\ board[<<row, col>>] = "Empty"

Mark == IF turn = 0 THEN "X" ELSE "O"

MutCheckWinner(b, m) ==
    \/ \E i \in Indices : \A j \in Indices : b[<<i, j>>] = m
    \/ \E j \in Indices : \A i \in Indices : b[<<i, j>>] = m
    \/ \A i \in Indices : b[<<i, i>>] = m

CheckWinner(b, m) ==
    \/ \E i \in Indices : \A j \in Indices : b[<<i, j>>] = m
    \/ \E j \in Indices : \A i \in Indices : b[<<i, j>>] = m
    \/ \A i \in Indices : b[<<i, i>>] = m
    \/ \A i \in Indices : b[<<i, 2 - i>>] = m

BoardFull(b) == \A cell \in Cells : b[cell] # "Empty"

\* What handle_message makes of the game, once the mark is on the board.
Verdict(b, sender) ==
    CASE CheckWinner(b, Mark) -> Won(sender)
      [] ~CheckWinner(b, Mark) /\ BoardFull(b) -> Draw
      [] OTHER -> Open

MutTellsOthers(sender) == members \ {sender}

\* Recipient::All of both events.
Tells(sender) == members

MutNextTurn == turn + 1

NextTurn == 1 - turn

MutHandleMove(sender, row, col) ==
    LET b == [board EXCEPT ![<<row, col>>] = Mark]
        verdict == Verdict(b, sender)
    IN  /\ board' = b
        /\ winner' = IF verdict = Open THEN None ELSE sender
        /\ turn' = NextTurn
        /\ view' = [p \in Ids |->
                       IF p \in Tells(sender)
                       THEN [board |-> [view[p].board EXCEPT ![<<row, col>>] = Mark],
                             over |-> verdict]
                       ELSE view[p]]
        /\ UNCHANGED <<players, members>>

\* handle_message.  A draw is recorded as won by player 0, a number a player
\* may have: only the event tells the two apart.
HandleMove(sender, row, col) ==
    LET b == [board EXCEPT ![<<row, col>>] = Mark]
        verdict == Verdict(b, sender)
    IN  /\ board' = b
        /\ \/ verdict = Open /\ winner' = None /\ turn' = NextTurn
           \/ verdict = Draw /\ winner' = 0 /\ UNCHANGED turn
           \/ verdict = Won(sender) /\ winner' = sender /\ UNCHANGED turn
        /\ view' = [p \in Ids |->
                       IF p \in Tells(sender)
                       THEN [board |-> [view[p].board EXCEPT ![<<row, col>>] = Mark],
                             over |-> verdict]
                       ELSE view[p]]
        /\ UNCHANGED <<players, members>>

\* Bound: a client asks for the cells of the board and one beside it.
Move(sender) ==
    /\ sender \in members
    /\ \E row, col \in 0..3 :
          Accepts(sender, row, col) /\ HandleMove(sender, row, col)

\* The room removes the member; on_player_disconnect does nothing.
Leave(p) ==
    /\ p \in members
    /\ members' = members \ {p}
    /\ UNCHANGED <<board, players, turn, winner, view>>

GameNext == \E p \in Ids : Move(p) \/ Leave(p)

GameSpec == GameInit /\ [][GameNext]_gameVars

-----------------------------------------------------------------------------
(* Properties. *)

\* The state has its type.
GameTypeOK ==
    /\ board \in [Cells -> {"Empty", "X", "O"}]
    /\ players \in [{0, 1} -> Ids]
    /\ turn \in {0, 1}
    /\ winner \in Ids \cup {0, None}
    /\ members \subseteq Ids

Count(m) == Cardinality({cell \in Cells : board[cell] = m})

\* The players have moved in turn, X first, whoever has sent what when and
\* whoever has left: the counts of marks and the turn agree, and after the
\* last move the turn stays with who made it.
MarksAlternate ==
    LET lastMove == IF winner = None THEN 0 ELSE 1
    IN  Count("X") - Count("O") = IF lastMove = 0 THEN turn ELSE 1 - turn

\* Three cells are in line exactly if their numbers in the magic square, an
\* independent account of the lines, add up to 15.
Magic == <<2, 7, 6, 9, 5, 1, 4, 3, 8>>
Number(cell) == Magic[3 * cell[1] + cell[2] + 1]
HasLine(m) ==
    \E a, b, c \in {cell \in Cells : board[cell] = m} :
        /\ a # b /\ a # c /\ b # c
        /\ Number(a) + Number(b) + Number(c) = 15

\* What the members are told of the end is right: a player has won if and
\* only if its mark is in line, it is a draw if and only if the board is full
\* without a line, and the game is over for the room in just these cases.
\* This holds also for player 0, whose win the state cannot tell from a draw.
ResultIsRight ==
    \A p \in members :
        LET over == view[p].over
        IN  /\ over = Won(players[0]) <=> HasLine("X")
            /\ over = Won(players[1]) <=> HasLine("O")
            /\ over = Draw <=> BoardFull(board) /\ ~HasLine("X") /\ ~HasLine("O")
            /\ over = Open <=> winner = None

\* The events suffice: every member that reads them has the board as it is.
MembersSeeTheGame == \A p \in members : view[p].board = board
=============================================================================
