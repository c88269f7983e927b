--------------------------- MODULE TicTacToeProofs ---------------------------
(* Theorems about the game, for any two players. *)
EXTENDS TicTacToe, FiniteSetTheorems, TLAPS

\* The room has seated two different players.
LEMMA SeatsDiffer ==
    /\ Min(Ids) \in Ids /\ Max(Ids) \in Ids /\ Min(Ids) # Max(Ids)
    /\ Ids \subseteq Nat
<1> USE GameAssumption DEF GameAssumption
<1>0. Cardinality(Ids) # 0
    OBVIOUS
<1>1. PICK a \in Ids : TRUE
    BY <1>0, FS_EmptySet
<1>2. IsFiniteSet(Ids \ {a}) /\ Cardinality(Ids \ {a}) = 1
    BY FS_RemoveElement
<1>3. PICK b : Ids \ {a} = {b}
    BY <1>2, FS_Singleton
<1>4. Ids = {a, b} /\ a # b /\ a \in Nat /\ b \in Nat
    BY <1>3
<1>5. \E x \in Ids : \A y \in Ids : x =< y
    BY <1>4
<1>6. \E x \in Ids : \A y \in Ids : x >= y
    BY <1>4
<1>7. Min(Ids) \in Ids /\ \A y \in Ids : Min(Ids) =< y
    BY <1>5 DEF Min
<1>8. Max(Ids) \in Ids /\ \A y \in Ids : Max(Ids) >= y
    BY <1>6 DEF Max
<1>9. Min(Ids) # Max(Ids)
    BY <1>4, <1>7, <1>8
<1>10. QED
    BY <1>7, <1>8, <1>9

\* Who sits where never changes, and the players of both seats differ.
Seated == /\ players[0] # players[1] /\ players[0] \in Ids /\ players[1] \in Ids
          /\ view \in [Ids -> [board : [Cells -> {"Empty", "X", "O"}],
                               over : {Open, Draw} \cup {Won(p) : p \in Ids}]]

Typed == GameTypeOK /\ Seated

\* An accepted move goes to an empty cell of the board.
LEMMA AcceptedCell ==
    ASSUME GameTypeOK, NEW sender, NEW row \in 0..3, NEW col \in 0..3,
           Accepts(sender, row, col)
    PROVE  /\ <<row, col>> \in Cells /\ board[<<row, col>>] = "Empty"
           /\ sender = players[turn] /\ winner = None /\ Mark \in {"X", "O"}
BY DEF Accepts, Cells, Indices, Mark

\* Types at the start.
LEMMA TypedInit == ASSUME GameInit PROVE Typed
<1>1. players = [seat \in {0, 1} |-> IF seat = 0 THEN Min(Ids) ELSE Max(Ids)]
    BY DEF GameInit
<1>2. players[0] = Min(Ids) /\ players[1] = Max(Ids) /\ players \in [{0, 1} -> Ids]
    BY <1>1, SeatsDiffer
<1>3. Blank \in [Cells -> {"Empty", "X", "O"}]
    BY DEF Blank
<1>4. GameTypeOK
    BY <1>2, <1>3 DEF GameInit, GameTypeOK
<1>5. Seated
    BY <1>2, <1>3, SeatsDiffer DEF GameInit, Seated
<1>6. QED
    BY <1>4, <1>5 DEF Typed

\* The verdict on a move is one of three.
LEMMA VerdictIs ==
    ASSUME NEW b, NEW sender
    PROVE  \/ Verdict(b, sender) = Won(sender) /\ CheckWinner(b, Mark)
           \/ Verdict(b, sender) = Draw /\ ~CheckWinner(b, Mark) /\ BoardFull(b)
           \/ Verdict(b, sender) = Open /\ ~CheckWinner(b, Mark) /\ ~BoardFull(b)
BY DEF Verdict

\* Verdicts are told apart by what they say.
LEMMA VerdictsDiffer ==
    /\ Open # Draw /\ \A p : Won(p) # Open /\ Won(p) # Draw
    /\ \A p, q : Won(p) = Won(q) => p = q
BY DEF Open, Draw, Won

\* Types are kept.
LEMMA TypedStep == ASSUME Typed, [GameNext]_gameVars PROVE Typed'
<1> USE DEF Typed, GameTypeOK, Seated
<1>1. ASSUME NEW p \in Ids, Leave(p) PROVE Typed'
    BY <1>1 DEF Leave
<1>2. ASSUME NEW p \in Ids, Move(p) PROVE Typed'
    <2>1. PICK row \in 0..3, col \in 0..3 : Accepts(p, row, col) /\ HandleMove(p, row, col)
        BY <1>2 DEF Move
    <2>2. <<row, col>> \in Cells /\ Mark \in {"X", "O"}
        BY <2>1, AcceptedCell
    <2> DEFINE b == [board EXCEPT ![<<row, col>>] = Mark]
               verdict == Verdict(b, p)
    <2>3. board' = b /\ b \in [Cells -> {"Empty", "X", "O"}]
        BY <2>1, <2>2 DEF HandleMove
    <2>4. verdict \in {Open, Draw} \cup {Won(q) : q \in Ids}
        BY VerdictIs
    <2>5. turn' \in {0, 1} /\ winner' \in Ids \cup {0, None}
        BY <2>1 DEF HandleMove, NextTurn
    <2>6. \A q \in Ids : [view[q].board EXCEPT ![<<row, col>>] = Mark]
                             \in [Cells -> {"Empty", "X", "O"}]
        BY <2>2
    <2>7. view' \in [Ids -> [board : [Cells -> {"Empty", "X", "O"}],
                             over : {Open, Draw} \cup {Won(q) : q \in Ids}]]
        BY <2>1, <2>4, <2>6 DEF HandleMove
    <2>8. QED
        BY <2>1, <2>3, <2>5, <2>7 DEF HandleMove
<1>3. CASE UNCHANGED gameVars
    BY <1>3 DEF gameVars
<1>4. QED
    BY <1>1, <1>2, <1>3 DEF GameNext

\* Types are right.
LEMMA TypedAlways == GameSpec => []Typed
<1>1. GameInit => Typed
    BY TypedInit
<1>2. Typed /\ [GameNext]_gameVars => Typed'
    BY TypedStep
<1>3. QED
    BY <1>1, <1>2, PTL DEF GameSpec

\* The state of the game has its type.
THEOREM GameTypeCorrect == GameSpec => []GameTypeOK
<1>1. Typed => GameTypeOK
    BY DEF Typed
<1>2. QED
    BY <1>1, TypedAlways, PTL

-----------------------------------------------------------------------------
(* What the members see. *)

\* A member has made out the board as it is, after every step.
LEMMA SeenStep ==
    ASSUME Typed, MembersSeeTheGame, [GameNext]_gameVars
    PROVE  MembersSeeTheGame'
<1> USE DEF MembersSeeTheGame
<1>1. ASSUME NEW p \in Ids, Leave(p) PROVE MembersSeeTheGame'
    BY <1>1 DEF Leave
<1>2. ASSUME NEW p \in Ids, Move(p) PROVE MembersSeeTheGame'
    <2>1. PICK row \in 0..3, col \in 0..3 : HandleMove(p, row, col)
        BY <1>2 DEF Move
    <2>2. board' = [board EXCEPT ![<<row, col>>] = Mark] /\ members' = members
        BY <2>1 DEF HandleMove
    <2>3. members \subseteq Ids
        BY DEF Typed, GameTypeOK
    <2>4. \A q \in members :
             view'[q].board = [view[q].board EXCEPT ![<<row, col>>] = Mark]
        BY <2>1, <2>3 DEF HandleMove, Tells
    <2>5. QED
        BY <2>2, <2>4
<1>3. CASE UNCHANGED gameVars
    BY <1>3 DEF gameVars
<1>4. QED
    BY <1>1, <1>2, <1>3 DEF GameNext

\* The events suffice: every member that reads them has the board as it is.
THEOREM MembersSeeCorrect == GameSpec => []MembersSeeTheGame
<1>1. GameInit => MembersSeeTheGame
    BY DEF GameInit, MembersSeeTheGame
<1>2. Typed /\ MembersSeeTheGame /\ [GameNext]_gameVars => MembersSeeTheGame'
    BY SeenStep
<1>3. QED
    BY <1>1, <1>2, TypedAlways, PTL DEF GameSpec

-----------------------------------------------------------------------------
(* The counts of the marks. *)

\* The cells that bear m.
Marked(m) == {cell \in Cells : board[cell] = m}

\* A board has finitely many cells.
LEMMA MarkedFinite == ASSUME NEW m PROVE IsFiniteSet(Marked(m))
<1>1. IsFiniteSet(Indices)
    <2>1. IsFiniteSet(0..2)
        BY 0 \in Int, 2 \in Int, FS_Interval
    <2>2. QED
        BY <2>1 DEF Indices
<1>2. IsFiniteSet(Cells)
    BY <1>1, FS_Product DEF Cells
<1>3. QED
    BY <1>2, FS_Subset DEF Marked

\* A mark on an empty cell counts one for its player, none for the other.
LEMMA MarkCounts ==
    ASSUME GameTypeOK, NEW cell \in Cells, board[cell] = "Empty",
           NEW m \in {"X", "O"}, board' = [board EXCEPT ![cell] = m]
    PROVE  /\ Count(m)' = Count(m) + 1
           /\ \A n \in {"X", "O"} \ {m} : Count(n)' = Count(n)
           /\ \A n : Count(n) \in Nat
<1>1. Marked(m)' = Marked(m) \cup {cell} /\ cell \notin Marked(m)
    BY DEF Marked, GameTypeOK
<1>2. \A n \in {"X", "O"} \ {m} : Marked(n)' = Marked(n)
    BY DEF Marked, GameTypeOK
<1>3. Cardinality(Marked(m) \cup {cell}) = Cardinality(Marked(m)) + 1
    BY <1>1, MarkedFinite, FS_AddElement
<1>4. \A n : Cardinality(Marked(n)) \in Nat
    BY MarkedFinite, FS_CardinalityType
<1>5. \A n : Count(n) = Cardinality(Marked(n)) /\ Count(n)' = Cardinality(Marked(n)')
    BY DEF Count, Marked
<1>6. QED
    BY <1>1, <1>2, <1>3, <1>4, <1>5

\* The counts and the turn agree after every step.
LEMMA AlternateStep ==
    ASSUME Typed, MarksAlternate, [GameNext]_gameVars
    PROVE  MarksAlternate'
<1>1. ASSUME NEW p \in Ids, Leave(p) PROVE MarksAlternate'
    BY <1>1 DEF Leave, MarksAlternate, Count
<1>2. ASSUME NEW p \in Ids, Move(p) PROVE MarksAlternate'
    <2>1. PICK row \in 0..3, col \in 0..3 : Accepts(p, row, col) /\ HandleMove(p, row, col)
        BY <1>2 DEF Move
    <2>2. <<row, col>> \in Cells /\ board[<<row, col>>] = "Empty" /\ winner = None
        BY <2>1, AcceptedCell DEF Typed
    <2>3. board' = [board EXCEPT ![<<row, col>>] = Mark]
        BY <2>1 DEF HandleMove
    <2>4. turn \in {0, 1} /\ GameTypeOK
        BY DEF Typed, GameTypeOK
    <2>5. \A n : Count(n) \in Nat
        BY MarkedFinite, FS_CardinalityType DEF Count, Marked
    <2>6. Count("X") - Count("O") = turn
        BY <2>2 DEF MarksAlternate
    <2>7. None \notin Nat /\ p \in Nat
        BY GameAssumption DEF GameAssumption
    <2>8. \/ winner' = None /\ turn' = 1 - turn
          \/ winner' # None /\ turn' = turn
        BY <2>1, <2>7 DEF HandleMove, NextTurn
    <2>9. CASE turn = 0
        <3>0. board' = [board EXCEPT ![<<row, col>>] = "X"]
            BY <2>3, <2>9 DEF Mark
        <3>1. Count("X")' = Count("X") + 1 /\ Count("O")' = Count("O")
            BY <2>2, <3>0, <2>4, MarkCounts
        <3>2. Count("X")' - Count("O")' = 1
            BY <3>1, <2>5, <2>6, <2>9
        <3>3. QED
            BY <3>2, <2>8, <2>9 DEF MarksAlternate
    <2>10. CASE turn = 1
        <3>0. board' = [board EXCEPT ![<<row, col>>] = "O"]
            BY <2>3, <2>10 DEF Mark
        <3>1. Count("O")' = Count("O") + 1 /\ Count("X")' = Count("X")
            BY <2>2, <3>0, <2>4, MarkCounts
        <3>2. Count("X")' - Count("O")' = 0
            BY <3>1, <2>5, <2>6, <2>10
        <3>3. QED
            BY <3>2, <2>8, <2>10 DEF MarksAlternate
    <2>11. QED
        BY <2>4, <2>9, <2>10
<1>3. CASE UNCHANGED gameVars
    BY <1>3 DEF gameVars, MarksAlternate, Count
<1>4. QED
    BY <1>1, <1>2, <1>3 DEF GameNext

\* The players have moved in turn, X first, whoever has sent what when and
\* whoever has left.
THEOREM AlternationCorrect == GameSpec => []MarksAlternate
<1>1. ASSUME GameInit PROVE MarksAlternate
    <2>1. \A m \in {"X", "O"} : {cell \in Cells : board[cell] = m} = {}
        BY <1>1 DEF GameInit, Blank
    <2>2. Count("X") = 0 /\ Count("O") = 0
        BY <2>1, FS_EmptySet DEF Count
    <2>3. QED
        BY <1>1, <2>2 DEF GameInit, MarksAlternate
<1>2. Typed /\ MarksAlternate /\ [GameNext]_gameVars => MarksAlternate'
    BY AlternateStep
<1>3. QED
    BY <1>1, <1>2, TypedAlways, PTL DEF GameSpec

-----------------------------------------------------------------------------
(* The verdict. *)

\* The nine cells.
LEMMA NineCells ==
    Cells = {<<0, 0>>, <<0, 1>>, <<0, 2>>, <<1, 0>>, <<1, 1>>, <<1, 2>>,
             <<2, 0>>, <<2, 1>>, <<2, 2>>}
BY DEF Cells, Indices

\* Their numbers in the square.
LEMMA Numbers ==
    /\ Number(<<0, 0>>) = 2 /\ Number(<<0, 1>>) = 7 /\ Number(<<0, 2>>) = 6
    /\ Number(<<1, 0>>) = 9 /\ Number(<<1, 1>>) = 5 /\ Number(<<1, 2>>) = 1
    /\ Number(<<2, 0>>) = 4 /\ Number(<<2, 1>>) = 3 /\ Number(<<2, 2>>) = 8
BY DEF Number, Magic

\* The same line of a board, said row by row.
Lines(b, m) ==
    \/ b[<<0, 0>>] = m /\ b[<<0, 1>>] = m /\ b[<<0, 2>>] = m
    \/ b[<<1, 0>>] = m /\ b[<<1, 1>>] = m /\ b[<<1, 2>>] = m
    \/ b[<<2, 0>>] = m /\ b[<<2, 1>>] = m /\ b[<<2, 2>>] = m
    \/ b[<<0, 0>>] = m /\ b[<<1, 0>>] = m /\ b[<<2, 0>>] = m
    \/ b[<<0, 1>>] = m /\ b[<<1, 1>>] = m /\ b[<<2, 1>>] = m
    \/ b[<<0, 2>>] = m /\ b[<<1, 2>>] = m /\ b[<<2, 2>>] = m
    \/ b[<<0, 0>>] = m /\ b[<<1, 1>>] = m /\ b[<<2, 2>>] = m
    \/ b[<<0, 2>>] = m /\ b[<<1, 1>>] = m /\ b[<<2, 0>>] = m

\* check_winner looks at the eight lines.
LEMMA ChecksLines == ASSUME NEW b, NEW m PROVE CheckWinner(b, m) <=> Lines(b, m)
<1>1. Indices = {0, 1, 2}
    BY DEF Indices
<1>2. (\E i \in Indices : \A j \in Indices : b[<<i, j>>] = m)
         <=> \/ b[<<0, 0>>] = m /\ b[<<0, 1>>] = m /\ b[<<0, 2>>] = m
             \/ b[<<1, 0>>] = m /\ b[<<1, 1>>] = m /\ b[<<1, 2>>] = m
             \/ b[<<2, 0>>] = m /\ b[<<2, 1>>] = m /\ b[<<2, 2>>] = m
    BY <1>1
<1>3. (\E j \in Indices : \A i \in Indices : b[<<i, j>>] = m)
         <=> \/ b[<<0, 0>>] = m /\ b[<<1, 0>>] = m /\ b[<<2, 0>>] = m
             \/ b[<<0, 1>>] = m /\ b[<<1, 1>>] = m /\ b[<<2, 1>>] = m
             \/ b[<<0, 2>>] = m /\ b[<<1, 2>>] = m /\ b[<<2, 2>>] = m
    BY <1>1
<1>4. (\A i \in Indices : b[<<i, i>>] = m)
         <=> b[<<0, 0>>] = m /\ b[<<1, 1>>] = m /\ b[<<2, 2>>] = m
    BY <1>1
<1>5. (\A i \in Indices : b[<<i, 2 - i>>] = m)
         <=> b[<<0, 2>>] = m /\ b[<<1, 1>>] = m /\ b[<<2, 0>>] = m
    BY <1>1
<1>6. QED
    BY <1>2, <1>3, <1>4, <1>5 DEF CheckWinner, Lines

\* The cell with a number of the square.
CellOf(n) == CHOOSE cell \in Cells : Number(cell) = n

\* The square numbers the cells.
LEMMA CellsOfNumbers ==
    /\ \A cell \in Cells : Number(cell) \in 1..9 /\ CellOf(Number(cell)) = cell
    /\ CellOf(2) = <<0, 0>> /\ CellOf(7) = <<0, 1>> /\ CellOf(6) = <<0, 2>>
    /\ CellOf(9) = <<1, 0>> /\ CellOf(5) = <<1, 1>> /\ CellOf(1) = <<1, 2>>
    /\ CellOf(4) = <<2, 0>> /\ CellOf(3) = <<2, 1>> /\ CellOf(8) = <<2, 2>>
<1>1. \A cell \in Cells : Number(cell) \in 1..9
    BY NineCells, Numbers
<1>2. \A c, d \in Cells : Number(c) = Number(d) => c = d
    BY NineCells, Numbers
<1>3. \A cell \in Cells : CellOf(Number(cell)) = cell
    BY <1>2 DEF CellOf
<1>4. QED
    BY <1>1, <1>3, NineCells, Numbers

\* The triples that add up to 15.
LEMMA Fifteen ==
    ASSUME NEW x \in 1..9, NEW y \in 1..9, NEW z \in 1..9,
           x # y, x # z, y # z, x + y + z = 15
    PROVE  {x, y, z} \in {{2, 7, 6}, {9, 5, 1}, {4, 3, 8}, {2, 9, 4}, {7, 5, 3},
                          {6, 1, 8}, {2, 5, 8}, {6, 5, 4}}
OBVIOUS

\* The two accounts of a line agree.
LEMMA LineIsLine == ASSUME NEW m PROVE HasLine(m) <=> CheckWinner(board, m)
<1>1. ASSUME Lines(board, m) PROVE HasLine(m)
    BY <1>1, NineCells, Numbers DEF Lines, HasLine
<1>2. ASSUME HasLine(m) PROVE Lines(board, m)
    <2>1. PICK a \in Cells, b \in Cells, c \in Cells :
              /\ board[a] = m /\ board[b] = m /\ board[c] = m
              /\ a # b /\ a # c /\ b # c
              /\ Number(a) + Number(b) + Number(c) = 15
        BY <1>2 DEF HasLine
    <2>2. PICK x \in 1..9, y \in 1..9, z \in 1..9 :
              /\ x = Number(a) /\ y = Number(b) /\ z = Number(c)
              /\ a = CellOf(x) /\ b = CellOf(y) /\ c = CellOf(z)
        BY CellsOfNumbers
    <2>3. x # y /\ x # z /\ y # z /\ x + y + z = 15
        BY <2>1, <2>2
    <2>4. {x, y, z} \in {{2, 7, 6}, {9, 5, 1}, {4, 3, 8}, {2, 9, 4}, {7, 5, 3},
                         {6, 1, 8}, {2, 5, 8}, {6, 5, 4}}
        BY <2>3, Fifteen
    <2>5. \A n \in {x, y, z} : board[CellOf(n)] = m
        BY <2>1, <2>2
    <2>6. QED
        BY <2>4, <2>5, CellsOfNumbers DEF Lines
<1>3. QED
    BY <1>1, <1>2, ChecksLines

\* A mark makes no line of the other player's.
LEMMA OthersLine ==
    ASSUME GameTypeOK, NEW cell \in Cells, board[cell] = "Empty",
           NEW m \in {"X", "O"}, NEW n \in {"X", "O"} \ {m},
           board' = [board EXCEPT ![cell] = m]
    PROVE  HasLine(n)' <=> HasLine(n)
<1>1. {c \in Cells : board'[c] = n} = {c \in Cells : board[c] = n}
    BY DEF GameTypeOK
<1>2. QED
    BY <1>1 DEF HasLine

\* The game finds the line there is, for both marks.
VerdictSound == \A m \in {"X", "O"} : HasLine(m) <=> CheckWinner(board, m)

\* It does in every state, so also after a step.
LEMMA VerdictIsSound == VerdictSound /\ VerdictSound'
<1>1. VerdictSound
    BY LineIsLine DEF VerdictSound
<1>2. QED
    BY <1>1, PTL

\* An open game has no line and an empty cell; after a move the verdict is
\* that of the new board.
LEMMA ResultStep ==
    ASSUME Typed, ResultIsRight, [GameNext]_gameVars
    PROVE  ResultIsRight'
<1>1. ASSUME NEW p \in Ids, Leave(p) PROVE ResultIsRight'
    <2>1. members' \subseteq members /\ UNCHANGED <<board, players, winner, view>>
        BY <1>1 DEF Leave
    <2>2. (HasLine("X")' <=> HasLine("X")) /\ (HasLine("O")' <=> HasLine("O"))
          /\ (BoardFull(board)' <=> BoardFull(board))
        BY <2>1 DEF HasLine, BoardFull
    <2>3. QED
        BY <2>1, <2>2 DEF ResultIsRight
<1>2. ASSUME NEW p \in Ids, Move(p) PROVE ResultIsRight'
    <2>1. PICK row \in 0..3, col \in 0..3 : Accepts(p, row, col) /\ HandleMove(p, row, col)
        BY <1>2 DEF Move
    <2>2. PICK m \in {"X", "O"} : m = Mark
        BY DEF Mark
    <2>3. PICK n \in {"X", "O"} : n # m
        BY <2>2
    <2>4. /\ <<row, col>> \in Cells /\ board[<<row, col>>] = "Empty" /\ winner = None
          /\ p = players[turn] /\ GameTypeOK /\ turn \in {0, 1}
        BY <2>1, AcceptedCell DEF Typed, GameTypeOK
    <2>5. board' = [board EXCEPT ![<<row, col>>] = m]
        BY <2>1, <2>2 DEF HandleMove
    <2>6. view[p].over = Open /\ p \in members
        BY <2>4, <1>2 DEF ResultIsRight, Move
    <2>7. ~HasLine("X") /\ ~HasLine("O")
        BY <2>6, VerdictsDiffer DEF ResultIsRight
    <2>8. ~HasLine(n)' 
        BY <2>3, <2>4, <2>5, <2>7, OthersLine
    <2> DEFINE verdict == Verdict(board', p)
    <2>9. /\ \A q \in members' : view'[q].over = verdict
          /\ players' = players /\ members' = members
          /\ \/ verdict = Open /\ winner' = None
             \/ verdict = Draw /\ winner' = 0
             \/ verdict = Won(p) /\ winner' = p
        BY <2>1 DEF HandleMove, Tells, Typed, GameTypeOK
    <2> HIDE DEF verdict
    <2>10. \/ verdict = Won(p) /\ HasLine(m)'
           \/ verdict = Draw /\ ~HasLine(m)' /\ BoardFull(board)'
           \/ verdict = Open /\ ~HasLine(m)' /\ ~BoardFull(board)'
        <3>1. HasLine(m)' <=> CheckWinner(board', m)
            BY VerdictIsSound DEF VerdictSound
        <3>2. QED
            BY <3>1, <2>2, VerdictIs DEF verdict, BoardFull
    <2>11. (verdict = Open) <=> (winner' = None)
        BY <2>9, VerdictsDiffer, GameAssumption DEF GameAssumption
    <2>12. /\ m = "X" => p = players[0] /\ n = "O"
           /\ m = "O" => p = players[1] /\ n = "X"
        BY <2>2, <2>3, <2>4 DEF Mark
    <2>13. players[0] # players[1]
        BY DEF Typed, Seated
    <2>14. \A q \in members' :
              /\ (view'[q].over = Won(players[0])) <=> HasLine("X")'
              /\ (view'[q].over = Won(players[1])) <=> HasLine("O")'
              /\ (view'[q].over = Draw) <=> BoardFull(board)' /\ ~HasLine("X")' /\ ~HasLine("O")'
              /\ (view'[q].over = Open) <=> (winner' = None)
        BY <2>8, <2>9, <2>10, <2>11, <2>12, <2>13, VerdictsDiffer
    <2>15. QED
        BY <2>9, <2>14 DEF ResultIsRight
<1>3. CASE UNCHANGED gameVars
    BY <1>3 DEF gameVars, ResultIsRight, HasLine, BoardFull
<1>4. QED
    BY <1>1, <1>2, <1>3 DEF GameNext

\* What the members are told of the end is right: a player has won exactly if
\* its mark is in line, whatever the board was and whoever moved.
THEOREM ResultCorrect == GameSpec => []ResultIsRight
<1>1. ASSUME GameInit PROVE ResultIsRight
    <2>1. ~HasLine("X") /\ ~HasLine("O")
        BY <1>1 DEF GameInit, Blank, HasLine
    <2>2. ~BoardFull(board)
        BY <1>1, NineCells DEF GameInit, Blank, BoardFull
    <2>3. QED
        BY <1>1, <2>1, <2>2, VerdictsDiffer DEF GameInit, ResultIsRight
<1>2. Typed /\ ResultIsRight /\ [GameNext]_gameVars => ResultIsRight'
    BY ResultStep
<1>3. QED
    BY <1>1, <1>2, TypedAlways, PTL DEF GameSpec

=============================================================================
