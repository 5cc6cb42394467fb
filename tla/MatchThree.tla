----------------------------- MODULE MatchThree -----------------------------
(***************************************************************************)
(* The board of the game Power Match: a swap of two neighbours counts when *)
(* it makes a line of three; the lines are taken away, what is above falls *)
(* down and new symbols come in, until there is no line left.              *)
(***************************************************************************)
EXTENDS Integers, FiniteSets

CONSTANTS
    Width, Height,  \* 8 by 8 in the code
    Symbols,        \* MATCH3_SYMBOLS
    Hole,           \* null, in a cell while others fall
    CellPoints, WinPoints, \* 20 for a cell of a line, 1500 to win
    MaxScore        \* bound on how long a cascade is followed

ASSUME MatchAssumption ==
    /\ Width \in Nat \ {0, 1, 2} /\ Height \in Nat \ {0, 1, 2} /\ IsFiniteSet(Symbols) /\ Hole \notin Symbols
    /\ CellPoints \in Nat \ {0} /\ WinPoints \in Nat /\ MaxScore \in Nat

Columns == 0 .. Width - 1
Rows == 0 .. Height - 1
Cells == Columns \X Rows \* row 0 is on top

VARIABLES board, score, cascading
matchVars == <<board, score, cascading>>

LineOf(b, c, d, e) == b[c] = b[d] /\ b[c] = b[e]

\* The first cells of the lines of three.
Across(b) == {c \in (0 .. Width - 3) \X Rows : LineOf(b, c, <<c[1] + 1, c[2]>>, <<c[1] + 2, c[2]>>)}
Downwards(b) == {c \in Columns \X (0 .. Height - 3) : LineOf(b, c, <<c[1], c[2] + 1>>, <<c[1], c[2] + 2>>)}

\* Every cell of a line.
FindMatches(b) ==
    UNION ({{c, <<c[1] + 1, c[2]>>, <<c[1] + 2, c[2]>>} : c \in Across(b)}
           \cup {{c, <<c[1], c[2] + 1>>, <<c[1], c[2] + 2>>} : c \in Downwards(b)})

\* A column whose lines have been taken away, and the lowest row that may be empty.
Cleared(b, gone, x) == [cells |-> [y \in Rows |-> IF <<x, y>> \in gone THEN Hole ELSE b[<<x, y>>]],
                        emptyRow |-> Height - 1]

FallUncounted(s, y) ==
    IF s.cells[y] = Hole THEN s
    ELSE [s EXCEPT !.cells = IF s.emptyRow = y THEN @ ELSE [@ EXCEPT ![s.emptyRow] = s.cells[y], ![y] = Hole]]

\* The symbol of row y, if there is one, falls to the lowest empty row.
Fall(s, y) ==
    IF s.cells[y] = Hole THEN s
    ELSE [cells |-> IF s.emptyRow = y THEN s.cells
                    ELSE [s.cells EXCEPT ![s.emptyRow] = s.cells[y], ![y] = Hole],
          emptyRow |-> s.emptyRow - 1]

\* One pass over a column from the bottom row to the top, row by row.
Passing(b, gone, x) ==
    LET pass[n \in 0 .. Height] == IF n = 0 THEN Cleared(b, gone, x) ELSE Fall(pass[n - 1], Height - n)
    IN  pass

Settled(b, gone, x) == Passing(b, gone, x)[Height]

\* processCascades: what is above what has fallen takes new symbols.
Fallen(b, gone, fresh) ==
    LET column == [x \in Columns |-> Settled(b, gone, x)]
    IN  [c \in Cells |-> IF c[2] <= column[c[1]].emptyRow THEN fresh[c] ELSE column[c[1]].cells[c[2]]]

FreshCells(b, gone) == {c \in Cells : c[2] <= Settled(b, gone, c[1]).emptyRow}

\* generateStableBoard: symbols that would end a line are drawn again.
StableBoards == {b \in [Cells -> Symbols] : FindMatches(b) = {}}

MatchInit == board \in StableBoards /\ score = 0 /\ cascading = FALSE

Neighbours(c, d) ==
    LET dx == IF c[1] > d[1] THEN c[1] - d[1] ELSE d[1] - c[1]
        dy == IF c[2] > d[2] THEN c[2] - d[2] ELSE d[2] - c[2]
    IN  dx + dy = 1

Swapped(b, c, d) == [b EXCEPT ![c] = b[d], ![d] = b[c]]

\* handleMatch3Swap, up to its loop: without a line the swap is undone.
Swap(c, d) ==
    /\ ~cascading /\ score < WinPoints
    /\ Neighbours(c, d)
    /\ LET b == Swapped(board, c, d)
       IN  IF FindMatches(b) = {} THEN UNCHANGED matchVars
           ELSE board' = b /\ cascading' = TRUE /\ UNCHANGED score

\* One turn of the loop, with whatever symbols are drawn.
Cascade ==
    /\ cascading /\ score < MaxScore
    /\ \E fresh \in [FreshCells(board, FindMatches(board)) -> Symbols] :
          board' = Fallen(board, FindMatches(board), fresh)
    /\ score' = score + CellPoints * Cardinality(FindMatches(board))
    /\ cascading' = (FindMatches(board') # {})

MatchNext == Cascade \/ \E c, d \in Cells : Swap(c, d)
MatchSpec == MatchInit /\ [][MatchNext]_matchVars

-----------------------------------------------------------------------------
(* The board is full of symbols, and the score counts cells of lines.       *)
MatchTypeOK == board \in [Cells -> Symbols] /\ score % CellPoints = 0 /\ cascading \in BOOLEAN

(* A move begins and ends on a board without a line, also one of an odd     *)
(* shape: a cell has no two equal neighbours to one side of it, nor one on  *)
(* both sides.                                                              *)
Steady(b) ==
    /\ \A c \in Cells : ~(c[1] + 2 \in Columns /\ b[c] = b[<<c[1] + 1, c[2]>>] /\ b[c] = b[<<c[1] + 2, c[2]>>])
    /\ \A c \in Cells : ~(c[2] + 2 \in Rows /\ b[c] = b[<<c[1], c[2] + 1>>] /\ b[c] = b[<<c[1], c[2] + 2>>])
MovesEndSteady == ~cascading => Steady(board)

(* A cascade moves symbols straight down: the symbols of a column that are  *)
(* in no line are its lowest ones afterwards, in the order they had.        *)
SymbolsFall ==
    [][cascading => \A x \in Columns :
          LET gone == FindMatches(board)
              kept == {y \in Rows : <<x, y>> \notin gone}
          IN  \A y \in kept : board'[<<x, Height - Cardinality({z \in kept : z >= y})>>] = board[<<x, y>>]]_matchVars

(* Every move leaves a full board without three in line, whatever symbols   *)
(* fell.                                                                    *)
MatchSafe ==
    /\ MatchTypeOK
    /\ MovesEndSteady
=============================================================================
