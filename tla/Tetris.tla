------------------------------- MODULE Tetris -------------------------------
(***************************************************************************)
(* The tetris program (tetris.c).  One step is one round of its game loop: *)
(* the keys that arrived since the last one, and one case of update().     *)
(* The screen is the board's part of the VGA memory, a cell of the board   *)
(* being two characters wide.                                              *)
(***************************************************************************)
EXTENDS Integers, Sequences, FiniteSets, SequencesExt

CONSTANTS
    BOARD_X, BOARD_Y,
    Pieces,             \* what rand() may choose: a part of DOMAIN block_offsets
    P_E, WHITE,         \* the empty cell, and the colour of the border
    TICKS_PER_DROP, MIN_TICKS, SPEED_UP_LINES,  \* 62, 10 and 10 in the code
    NUM_FLASHES, TICKS_PER_FLASH,
    MaxLines,           \* bound: no piece is spawned after that many lines
    KeySets             \* bound: the sets of keys pressed in one round

ASSUME TetrisAssumption ==
    /\ {BOARD_X, BOARD_Y, MIN_TICKS, NUM_FLASHES} \subseteq Nat \ {0}
    /\ TICKS_PER_DROP \in Nat /\ TICKS_PER_DROP >= MIN_TICKS
    /\ BOARD_X % 2 = 0 /\ NUM_FLASHES % 2 = 0
    /\ Pieces \subseteq {"P_I", "P_J", "P_L", "P_O", "P_S", "P_T", "P_Z"} /\ P_E \notin Pieces

VARIABLES
    gameboard, screen,
    current_piece, next_piece, current_rotation, x, y,  \* the origin on the board
    state, state_pause_prev,
    ticks, flash_ticks, flash_count, full_lines,
    ticks_per_drop, lines_cleared,
    quit

piece == <<current_piece, current_rotation, x, y>>
flash == <<flash_ticks, flash_count>>
game_vars == <<gameboard, screen, piece, next_piece, state, state_pause_prev, ticks, flash,
               full_lines, ticks_per_drop, lines_cleared, quit>>

Columns == 0 .. BOARD_X - 1
Rows == 0 .. BOARD_Y - 1
Board == Columns \X Rows

\* The cells of a piece around its origin, by rotation
block_offsets ==
    LET Z2 == {<<-1, 0>>, <<0, 0>>, <<0, 1>>, <<1, 1>>}
        S2 == {<<-1, 1>>, <<0, 1>>, <<0, 0>>, <<1, 0>>}
        O == {<<0, 0>>, <<1, 0>>, <<0, 1>>, <<1, 1>>}
        Lying == {<<-1, 0>>, <<0, 0>>, <<1, 0>>, <<2, 0>>}
        Standing == {<<0, -1>>, <<0, 0>>, <<0, 1>>, <<0, 2>>}
        Row == {<<-1, 0>>, <<0, 0>>, <<1, 0>>}
        Column == {<<0, -1>>, <<0, 0>>, <<0, 1>>}
        SUp == {<<-1, -1>>, <<-1, 0>>, <<0, 0>>, <<0, 1>>}
        ZUp == {<<0, 1>>, <<0, 0>>, <<1, 0>>, <<1, -1>>}
    IN  [P_I |-> <<Lying, Standing, Lying, Standing>>,
         P_J |-> <<Row \cup {<<1, 1>>}, Column \cup {<<-1, 1>>},
                   Row \cup {<<-1, -1>>}, Column \cup {<<1, -1>>}>>,
         P_L |-> <<Row \cup {<<-1, 1>>}, Column \cup {<<-1, -1>>},
                   Row \cup {<<1, -1>>}, Column \cup {<<1, 1>>}>>,
         P_O |-> <<O, O, O, O>>,
         P_S |-> <<S2, SUp, S2, SUp>>,
         P_T |-> <<Row \cup {<<0, 1>>}, Column \cup {<<-1, 0>>},
                   Row \cup {<<0, -1>>}, Column \cup {<<1, 0>>}>>,
         P_Z |-> <<Z2, ZUp, Z2, ZUp>>]

Cells(ox, oy, rotation, p) ==
    {<<ox + d[1], oy + d[2]>> : d \in block_offsets[p][rotation + 1]}

\* Mutant: the cells of the board are not looked at.
check_collision_walls(ox, oy, rotation, p) == ~(Cells(ox, oy, rotation, p) \subseteq Board)
check_collision(ox, oy, rotation, p) ==
    \E c \in Cells(ox, oy, rotation, p) : c \notin Board \/ gameboard[c] # P_E

Painted(s, cells, colour) == [c \in DOMAIN s |-> IF c \in cells THEN colour ELSE s[c]]

\* reset_tetris, clear_screen and the start of tetris()
GameInit ==
    /\ gameboard = [c \in Board |-> P_E] /\ screen = [c \in Board |-> P_E]
    /\ next_piece \in Pieces
    /\ current_piece = "P_I" /\ current_rotation = 0 /\ x = 0 /\ y = 0
    /\ state = "SPAWN" /\ state_pause_prev = "SPAWN"
    /\ ticks = 0 /\ flash_ticks = 0 /\ flash_count = 0
    /\ ticks_per_drop = TICKS_PER_DROP /\ lines_cleared = 0
    /\ quit = FALSE /\ full_lines = {}

-----------------------------------------------------------------------------
\* The round with the keys: the state that the pause key leaves, for the switch
Entered(keys) ==
    IF "pause" \notin keys THEN state
    ELSE IF state = "PAUSE" THEN state_pause_prev ELSE "PAUSE"

\* What every round does before the switch, which is entered in state s and
\* leaves it in s2
Round(keys, s, s2) ==
    /\ ~quit /\ "quit" \notin keys
    /\ Entered(keys) = s
    /\ state' = s2
    /\ state_pause_prev' = IF "pause" \in keys /\ state # "PAUSE" THEN state ELSE state_pause_prev
    /\ UNCHANGED quit

Quit(keys) ==
    /\ ~quit /\ "quit" \in keys
    /\ quit' = TRUE
    /\ UNCHANGED <<gameboard, screen, piece, next_piece, state, state_pause_prev, ticks, flash,
                   full_lines, ticks_per_drop, lines_cleared>>

Spawn(keys) ==
    /\ lines_cleared < MaxLines
    /\ current_piece' = next_piece /\ next_piece' \in Pieces
    /\ x' = BOARD_X \div 2 /\ y' = 0 /\ current_rotation' = 0
    /\ IF check_collision(BOARD_X \div 2, 0, 0, next_piece)
       THEN Round(keys, "SPAWN", "GAME_OVER") /\ UNCHANGED <<screen, ticks>>
       ELSE /\ Round(keys, "SPAWN", "SHIFT_DOWN")
            /\ screen' = Painted(screen, Cells(BOARD_X \div 2, 0, 0, next_piece), next_piece)
            /\ ticks' = 0
    /\ UNCHANGED <<gameboard, flash, full_lines, ticks_per_drop, lines_cleared>>

\* handle_actions: the first key in the list whose move is possible, and last the
\* drop as far as there is no collision
Moves(keys) ==
    LET can(dx, dy, turn) ==
            ~check_collision(x + dx, y + dy, (current_rotation + turn) % 4, current_piece)
        stay == [x |-> x, y |-> y, rotation |-> current_rotation, dropped |-> FALSE]
        fall == CHOOSE d \in 0 .. BOARD_Y : ~can(0, d + 1, 0) /\ \A e \in 1 .. d : can(0, e, 0)
    IN  IF "left" \in keys /\ can(-1, 0, 0) THEN [stay EXCEPT !.x = x - 1]
        ELSE IF "right" \in keys /\ can(1, 0, 0) THEN [stay EXCEPT !.x = x + 1]
        ELSE IF "down" \in keys /\ can(0, 1, 0) THEN [stay EXCEPT !.y = y + 1]
        ELSE IF "rotate" \in keys /\ can(0, 0, 1)
        THEN [stay EXCEPT !.rotation = (current_rotation + 1) % 4]
        ELSE IF "drop" \in keys THEN [stay EXCEPT !.y = y + fall, !.dropped = TRUE]
        ELSE stay

Redrawn(old, new) == Painted(Painted(screen, old, P_E), new, current_piece)

\* Mutant: the place is the row in which it collided.
Landed_low(m, down) == Cells(m.x, m.y + down + 1, m.rotation, current_piece)
\* Where place_current_block_on_board puts the piece
Landed(m, down) == Cells(m.x, m.y + down, m.rotation, current_piece)

Falls == ticks + 1 >= ticks_per_drop

\* Mutant: a key starts the wait anew.
Ticked_by_keys(keys) == IF Falls \/ keys # {} THEN 0 ELSE ticks + 1
Ticked(keys) == IF Falls THEN 0 ELSE ticks + 1

\* A dropped piece is placed; when the tick has come as well, shift_down finds
\* it in its own way and it is placed again.
ShiftDown(keys) ==
    LET m == Moves(keys)
        held == \E c \in Cells(m.x, m.y + 1, m.rotation, current_piece) :
                    \/ c \notin Board
                    \/ gameboard[c] # P_E
                    \/ m.dropped /\ c \in Landed(m, 0)
        down == IF Falls /\ ~held THEN 1 ELSE 0
        placed == m.dropped \/ (Falls /\ held)
    IN  /\ Round(keys, "SHIFT_DOWN", IF placed THEN "LINE_CHECK" ELSE "SHIFT_DOWN")
        /\ x' = m.x /\ y' = m.y + down /\ current_rotation' = m.rotation
        /\ gameboard' = IF placed THEN Painted(gameboard, Landed(m, 0), current_piece) ELSE gameboard
        /\ ticks' = Ticked(keys)
        /\ screen' = Redrawn(Cells(x, y, current_rotation, current_piece),
                             Cells(m.x, m.y + down, m.rotation, current_piece))
        /\ UNCHANGED <<current_piece, next_piece, flash, full_lines, ticks_per_drop, lines_cleared>>

Full(board) == {r \in Rows : \A col \in Columns : board[<<col, r>>] # P_E}

check_for_lines == Full(gameboard)

LineCheck(keys) ==
    /\ full_lines' = check_for_lines
    /\ IF check_for_lines # {}
       THEN Round(keys, "LINE_CHECK", "FLASH") /\ flash_count' = 0 /\ flash_ticks' = 0
       ELSE Round(keys, "LINE_CHECK", "SPAWN") /\ UNCHANGED flash
    /\ UNCHANGED <<gameboard, screen, piece, next_piece, ticks, ticks_per_drop, lines_cleared>>

\* The row that clear_lines copies to a row: two indices run up the board, and
\* the second skips the full lines; it is below 0 when nothing is left.
source[row \in Rows] ==
    LET start == IF row = BOARD_Y - 1 THEN row ELSE source[row + 1] - 1
        left == {q \in 0 .. start : q \notin full_lines}
    IN  IF left = {} THEN -1 ELSE CHOOSE q \in left : \A p \in left : p <= q

cleared_board ==
    [c \in Board |-> IF source[c[2]] < 0 THEN P_E ELSE gameboard[<<c[1], source[c[2]]>>]]

\* The board as draw_gameboard_line draws it
screen_of(board) == board

Faster == IF ticks_per_drop - 1 < MIN_TICKS THEN MIN_TICKS ELSE ticks_per_drop - 1

Flash(keys) ==
    LET toggles == flash_ticks + 1 > TICKS_PER_FLASH
        count == IF toggles THEN flash_count + 1 ELSE flash_count
        flashed == {c \in Board : c[2] \in full_lines}
    IN  /\ flash_ticks' = IF toggles THEN 0 ELSE flash_ticks + 1
        /\ flash_count' = count
        /\ IF count >= NUM_FLASHES
           THEN /\ Round(keys, "FLASH", "SPAWN")
                /\ gameboard' = cleared_board
                /\ screen' = screen_of(cleared_board)
                /\ lines_cleared' = lines_cleared + Cardinality(full_lines)
                /\ ticks_per_drop' =
                       IF lines_cleared' >= SPEED_UP_LINES THEN Faster ELSE ticks_per_drop
           ELSE /\ Round(keys, "FLASH", "FLASH")
                /\ screen' = [c \in Board |->
                       IF c \in flashed /\ toggles
                       THEN IF count % 2 = 1 THEN WHITE ELSE gameboard[c]
                       ELSE screen[c]]
                /\ UNCHANGED <<gameboard, lines_cleared, ticks_per_drop>>
        /\ UNCHANGED <<piece, next_piece, ticks, full_lines>>

\* The cases PAUSE and GAME_OVER change nothing of the board.  (The words "Game
\* Over!" are left out.)
Rest(keys) ==
    /\ \E s \in {"PAUSE", "GAME_OVER"} : Round(keys, s, s)
    /\ UNCHANGED <<gameboard, screen, piece, next_piece, ticks, flash, full_lines,
                   ticks_per_drop, lines_cleared>>

\* tetris() is called again.
NewGame ==
    /\ quit /\ quit' = FALSE
    /\ gameboard' = [c \in Board |-> P_E] /\ screen' = [c \in Board |-> P_E]
    /\ next_piece' \in Pieces
    /\ current_piece' = "P_I" /\ current_rotation' = 0 /\ x' = 0 /\ y' = 0
    /\ flash_ticks' = 0 /\ flash_count' = 0
    /\ state' = "SPAWN" /\ state_pause_prev' = "SPAWN"
    /\ ticks' = 0 /\ ticks_per_drop' = TICKS_PER_DROP /\ lines_cleared' = 0
    /\ UNCHANGED full_lines

update ==
    \E keys \in KeySets :
        \/ Quit(keys) \/ Spawn(keys) \/ ShiftDown(keys)
        \/ LineCheck(keys) \/ Flash(keys) \/ Rest(keys)

GameNext == update \/ NewGame

\* The game loop is not left while the program runs.
GameSpec == GameInit /\ [][GameNext]_game_vars /\ WF_game_vars(update)
-----------------------------------------------------------------------------
Colours == Pieces \cup {P_E}

\* Every variable has its type, the rate has its limits, and what is paused is
\* not the pause.
GameTypeOK ==
    /\ gameboard \in [Board -> Colours]
    /\ screen \in [Board -> Colours \cup {WHITE}]
    /\ x \in Int /\ y \in Int /\ current_rotation \in 0 .. 3 /\ next_piece \in Pieces
    /\ state_pause_prev # "PAUSE"
    /\ ticks_per_drop \in MIN_TICKS .. TICKS_PER_DROP /\ ticks \in 0 .. TICKS_PER_DROP - 1
    /\ flash_count \in 0 .. NUM_FLASHES /\ full_lines \subseteq Rows

\* The state of the game behind a pause
Playing == IF state = "PAUSE" THEN state_pause_prev ELSE state

Occupied(board) == {c \in Board : board[c] # P_E}
Falling == Cells(x, y, current_rotation, current_piece)

\* The falling piece is on the board and over empty cells, whatever keys came.
PieceFits ==
    Playing = "SHIFT_DOWN" => Falling \subseteq Board \ Occupied(gameboard)

\* The screen shows the board and the falling piece, except while lines flash
\* and when the words "Game Over!" are on it.
ScreenShowsBoard ==
    Playing \notin {"FLASH", "GAME_OVER"} =>
        screen = IF Playing = "SHIFT_DOWN" THEN Painted(gameboard, Falling, current_piece)
                 ELSE gameboard

\* There is no full line when the next piece comes.
NoFullLine == Playing \in {"SPAWN", "SHIFT_DOWN"} => Full(gameboard) = {}

\* The board, the falling piece and the screen agree.
BoardConsistent == GameTypeOK /\ PieceFits /\ ScreenShowsBoard /\ NoFullLine

\* A piece lands on four empty cells of the board and gives them its colour, also
\* if it is placed twice; it could not have fallen further.  All other cells stay.
Lands ==
    LET free == Board \ Occupied(gameboard)
    IN  /\ current_piece' = current_piece
        /\ Falling' \subseteq free /\ Cardinality(Falling') = 4
        /\ ~(Cells(x', y' + 1, current_rotation', current_piece) \subseteq free)
        /\ gameboard' = Painted(gameboard, Falling', current_piece)

Line(board, r) == [col \in Columns |-> board[<<col, r>>]]
Empty == [col \in Columns |-> P_E]
\* How many lines below a line go
below(lines, r) == Cardinality({f \in lines : f > r})

\* Clearing removes the full lines: each of the others falls by as many lines as
\* go below it, and as many empty lines come at the top.
ClearsFullLines ==
    LET full == Full(gameboard)
    IN  /\ \A r \in Rows \ full :
               Line(gameboard', r + below(full, r)) = Line(gameboard, r)
        /\ \A r \in 0 .. Cardinality(full) - 1 : Line(gameboard', r) = Empty

\* The board changes by a piece that lands and by full lines that go, as they
\* should, and by nothing else: no key, pause or tick touches another cell.
BoardChange ==
    IF Playing = "SHIFT_DOWN" /\ Playing' = "LINE_CHECK" THEN Lands
    ELSE IF Playing = "FLASH" /\ Playing' = "SPAWN" THEN ClearsFullLines
    ELSE gameboard' = gameboard
BoardChanges == [][~quit => BoardChange]_game_vars

\* If the game is not paused or left any more, pieces keep landing until it is over.
KeepsLanding ==
    <>[](state # "PAUSE" /\ ~quit) => []<>(state \in {"SPAWN", "GAME_OVER"})
=============================================================================
