---------------------------- MODULE TetrisProofs ----------------------------
(* The board, the falling piece and the screen of tetris agree, for every size *)
(* of the board, every sequence of pieces and whatever keys are pressed.       *)
EXTENDS Tetris, FiniteSetTheorems, WellFoundedInduction, TLAPS

PieceNames == {"P_I", "P_J", "P_L", "P_O", "P_S", "P_T", "P_Z"}

\* A piece can be at a place.
Fits(ox, oy, rotation, p) ==
    \A c \in Cells(ox, oy, rotation, p) : c \in Board /\ gameboard[c] = P_E

\* What falls is one of the pieces.
PieceKnown == Playing = "SHIFT_DOWN" => current_piece \in Pieces

\* The lines that flash are those that are full.
FlashingFull ==
    Playing = "FLASH" => full_lines = Full(gameboard) /\ flash_count < NUM_FLASHES

\* The inductive invariant
IInv == BoardConsistent /\ PieceKnown /\ FlashingFull

-----------------------------------------------------------------------------
(* Pieces *)

\* The sets of four cells
Shapes == {S \in SUBSET (Int \X Int) : IsFiniteSet(S) /\ Cardinality(S) = 4}

LEMMA ThreeCells ==
    ASSUME NEW a, NEW b, NEW c, a # b, a # c, b # c
    PROVE  IsFiniteSet({a, b, c}) /\ Cardinality({a, b, c}) = 3
<1>1. IsFiniteSet({a}) /\ Cardinality({a}) = 1
  BY FS_Singleton
<1>2. {a, b} = {a} \cup {b} /\ b \notin {a}
  OBVIOUS
<1>3. IsFiniteSet({a} \cup {b}) /\ Cardinality({a} \cup {b}) = 2
  BY <1>1, <1>2, FS_AddElement
<1>4. {a, b, c} = {a, b} \cup {c} /\ c \notin {a, b}
  OBVIOUS
<1>5. IsFiniteSet({a, b} \cup {c}) /\ Cardinality({a, b} \cup {c}) = 3
  BY <1>2, <1>3, <1>4, FS_AddElement
<1> QED
  BY <1>4, <1>5

LEMMA OneMore ==
    ASSUME NEW S \in SUBSET (Int \X Int), IsFiniteSet(S), Cardinality(S) = 3,
           NEW a \in Int, NEW b \in Int, <<a, b>> \notin S
    PROVE  S \cup {<<a, b>>} \in Shapes
<1>1. IsFiniteSet(S \cup {<<a, b>>}) /\ Cardinality(S \cup {<<a, b>>}) = 4
  BY FS_AddElement
<1> QED
  BY <1>1 DEF Shapes

\* Four different cells
Different(a, b, c, d) ==
    /\ a \in Int \X Int /\ b \in Int \X Int /\ c \in Int \X Int /\ d \in Int \X Int
    /\ a # b /\ a # c /\ a # d /\ b # c /\ b # d /\ c # d

LEMMA FourAreShape ==
    ASSUME NEW a, NEW b, NEW c, NEW d, Different(a, b, c, d)
    PROVE  {a, b, c, d} \in Shapes
<1>1. IsFiniteSet({a, b, c}) /\ Cardinality({a, b, c}) = 3
  BY ThreeCells DEF Different
<1>2. {a, b, c, d} = {a, b, c} \cup {d} /\ d \notin {a, b, c}
  BY DEF Different
<1>3. IsFiniteSet({a, b, c, d}) /\ Cardinality({a, b, c, d}) = 4
  BY <1>1, <1>2, FS_AddElement
<1> QED
  BY <1>3 DEF Shapes, Different

\* Every rotation of a piece has four cells.
LEMMA HasShape == \A p \in PieceNames : \A k \in 1 .. 4 : block_offsets[p][k] \in Shapes
<1> DEFINE Z2 == {<<-1, 0>>, <<0, 0>>, <<0, 1>>, <<1, 1>>}
           S2 == {<<-1, 1>>, <<0, 1>>, <<0, 0>>, <<1, 0>>}
           O == {<<0, 0>>, <<1, 0>>, <<0, 1>>, <<1, 1>>}
           Lying == {<<-1, 0>>, <<0, 0>>, <<1, 0>>, <<2, 0>>}
           Standing == {<<0, -1>>, <<0, 0>>, <<0, 1>>, <<0, 2>>}
           Row == {<<-1, 0>>, <<0, 0>>, <<1, 0>>}
           Column == {<<0, -1>>, <<0, 0>>, <<0, 1>>}
           SUp == {<<-1, -1>>, <<-1, 0>>, <<0, 0>>, <<0, 1>>}
           ZUp == {<<0, 1>>, <<0, 0>>, <<1, 0>>, <<1, -1>>}
           With(S, a, b) == S \cup {<<a, b>>}
<1>1. block_offsets =
        [P_I |-> <<Lying, Standing, Lying, Standing>>,
         P_J |-> <<With(Row, 1, 1), With(Column, -1, 1), With(Row, -1, -1), With(Column, 1, -1)>>,
         P_L |-> <<With(Row, -1, 1), With(Column, -1, -1), With(Row, 1, -1), With(Column, 1, 1)>>,
         P_O |-> <<O, O, O, O>>,
         P_S |-> <<S2, SUp, S2, SUp>>,
         P_T |-> <<With(Row, 0, 1), With(Column, -1, 0), With(Row, 0, -1), With(Column, 1, 0)>>,
         P_Z |-> <<Z2, ZUp, Z2, ZUp>>]
  BY Zenon DEF block_offsets
<1>2. Z2 \in Shapes /\ S2 \in Shapes /\ O \in Shapes
  <2>1. Different(<<-1, 0>>, <<0, 0>>, <<0, 1>>, <<1, 1>>)
    BY DEF Different
  <2>2. Different(<<-1, 1>>, <<0, 1>>, <<0, 0>>, <<1, 0>>)
    BY DEF Different
  <2>3. Different(<<0, 0>>, <<1, 0>>, <<0, 1>>, <<1, 1>>)
    BY DEF Different
  <2> QED
    BY <2>1, <2>2, <2>3, FourAreShape, Zenon
<1>3. Lying \in Shapes /\ Standing \in Shapes
  <2>1. Different(<<-1, 0>>, <<0, 0>>, <<1, 0>>, <<2, 0>>)
    BY DEF Different
  <2>2. Different(<<0, -1>>, <<0, 0>>, <<0, 1>>, <<0, 2>>)
    BY DEF Different
  <2> QED
    BY <2>1, <2>2, FourAreShape, Zenon
<1>4. SUp \in Shapes /\ ZUp \in Shapes
  <2>1. Different(<<-1, -1>>, <<-1, 0>>, <<0, 0>>, <<0, 1>>)
    BY DEF Different
  <2>2. Different(<<0, 1>>, <<0, 0>>, <<1, 0>>, <<1, -1>>)
    BY DEF Different
  <2> QED
    BY <2>1, <2>2, FourAreShape, Zenon
<1>5. /\ Row \in SUBSET (Int \X Int) /\ IsFiniteSet(Row) /\ Cardinality(Row) = 3
      /\ Column \in SUBSET (Int \X Int) /\ IsFiniteSet(Column) /\ Cardinality(Column) = 3
  <2>1. <<-1, 0>> # <<0, 0>> /\ <<-1, 0>> # <<1, 0>> /\ <<0, 0>> # <<1, 0>>
    OBVIOUS
  <2>2. <<0, -1>> # <<0, 0>> /\ <<0, -1>> # <<0, 1>> /\ <<0, 0>> # <<0, 1>>
    OBVIOUS
  <2>3. Row \in SUBSET (Int \X Int) /\ Column \in SUBSET (Int \X Int)
    OBVIOUS
  <2> QED
    BY <2>1, <2>2, <2>3, ThreeCells, Zenon
<1>6. \A a, b \in Int : b # 0 => <<a, b>> \notin Row /\ <<b, a>> \notin Column
  OBVIOUS
<1> HIDE DEF Z2, S2, O, Lying, Standing, SUp, ZUp, Row, Column, With
<1>7. /\ block_offsets["P_I"] = <<Lying, Standing, Lying, Standing>>
      /\ block_offsets["P_J"] =
             <<With(Row, 1, 1), With(Column, -1, 1), With(Row, -1, -1), With(Column, 1, -1)>>
      /\ block_offsets["P_L"] =
             <<With(Row, -1, 1), With(Column, -1, -1), With(Row, 1, -1), With(Column, 1, 1)>>
      /\ block_offsets["P_O"] = <<O, O, O, O>>
      /\ block_offsets["P_S"] = <<S2, SUp, S2, SUp>>
      /\ block_offsets["P_T"] =
             <<With(Row, 0, 1), With(Column, -1, 0), With(Row, 0, -1), With(Column, 1, 0)>>
      /\ block_offsets["P_Z"] = <<Z2, ZUp, Z2, ZUp>>
  BY <1>1
<1>8. \A A, B, C, D \in Shapes : \A k \in 1 .. 4 : <<A, B, C, D>>[k] \in Shapes
  OBVIOUS
<1>9. /\ With(Row, 1, 1) \in Shapes /\ With(Row, -1, -1) \in Shapes /\ With(Row, -1, 1) \in Shapes
      /\ With(Row, 1, -1) \in Shapes /\ With(Row, 0, 1) \in Shapes /\ With(Row, 0, -1) \in Shapes
      /\ With(Column, 1, 1) \in Shapes /\ With(Column, -1, -1) \in Shapes
      /\ With(Column, -1, 1) \in Shapes /\ With(Column, 1, -1) \in Shapes
      /\ With(Column, -1, 0) \in Shapes /\ With(Column, 1, 0) \in Shapes
  <2>1. \A a, b \in Int : b # 0 => With(Row, a, b) \in Shapes /\ With(Column, b, a) \in Shapes
    BY <1>5, <1>6, OneMore, Zenon DEF With
  <2> QED
    BY <2>1
<1>10. ASSUME NEW p \in PieceNames PROVE \A k \in 1 .. 4 : block_offsets[p][k] \in Shapes
  <2>1. CASE p = "P_I"
    BY <1>3, <1>7, <1>8, <2>1, Zenon
  <2>2. CASE p = "P_J"
    BY <1>9, <1>7, <1>8, <2>2
  <2>3. CASE p = "P_L"
    BY <1>9, <1>7, <1>8, <2>3
  <2>4. CASE p = "P_O"
    BY <1>2, <1>7, <1>8, <2>4, Zenon
  <2>5. CASE p = "P_S"
    BY <1>2, <1>4, <1>7, <1>8, <2>5, Zenon
  <2>6. CASE p = "P_T"
    BY <1>9, <1>7, <1>8, <2>6
  <2>7. CASE p = "P_Z"
    BY <1>2, <1>4, <1>7, <1>8, <2>7, Zenon
  <2> QED
    BY <2>1, <2>2, <2>3, <2>4, <2>5, <2>6, <2>7 DEF PieceNames
<1> QED
  BY <1>10

LEMMA PieceCells ==
    ASSUME NEW p \in PieceNames, NEW rotation \in 0 .. 3, NEW ox \in Int, NEW oy \in Int
    PROVE  /\ Cells(ox, oy, rotation, p) # {}
           /\ \A c \in Cells(ox, oy, rotation, p) : c \in Int \X Int
           /\ \A c : c \in Cells(ox, oy, rotation, p) =>
                  \A dy \in Int : <<c[1], c[2] + dy>> \in Cells(ox, oy + dy, rotation, p)
<1>1. \A k \in 1 .. 4 : /\ block_offsets[p][k] # {}
                        /\ \A d \in block_offsets[p][k] : d[1] \in Int /\ d[2] \in Int
  <2>1. Cardinality({}) # 4
    BY FS_EmptySet
  <2> QED
    BY <2>1, HasShape DEF Shapes
<1>2. rotation + 1 \in 1 .. 4
  OBVIOUS
<1> DEFINE D == block_offsets[p][rotation + 1]
<1>3. D # {} /\ \A d \in D : d[1] \in Int /\ d[2] \in Int
  BY <1>1, <1>2
<1> HIDE DEF D
<1>4. \A oy2 : Cells(ox, oy2, rotation, p) = {<<ox + d[1], oy2 + d[2]>> : d \in D}
  BY DEF Cells, D
<1>5. ASSUME NEW c \in Cells(ox, oy, rotation, p), NEW dy \in Int
      PROVE  <<c[1], c[2] + dy>> \in Cells(ox, oy + dy, rotation, p)
  <2>1. PICK d \in D : c = <<ox + d[1], oy + d[2]>>
    BY <1>4
  <2>2. d[1] \in Int /\ d[2] \in Int
    BY <1>3
  <2>3. c[1] = ox + d[1] /\ c[2] + dy = oy + dy + d[2]
    BY <2>1, <2>2
  <2> QED
    BY <1>4, <2>3
<1>6. Cells(ox, oy, rotation, p) # {} /\ \A c \in Cells(ox, oy, rotation, p) : c \in Int \X Int
  <2>1. Cells(ox, oy, rotation, p) = {<<ox + d[1], oy + d[2]>> : d \in D}
    BY <1>4
  <2>2. \A d \in D : <<ox + d[1], oy + d[2]>> \in Int \X Int
    BY <1>3
  <2> QED
    BY <1>3, <2>1, <2>2
<1> QED
  BY <1>5, <1>6

LEMMA FitsIsFree ==
    \A ox, oy, rotation, p : check_collision(ox, oy, rotation, p) <=> ~Fits(ox, oy, rotation, p)
BY DEF check_collision, Fits

\* Some drop collides.
LEMMA Bottom ==
    ASSUME NEW p \in PieceNames, NEW rotation \in 0 .. 3, NEW ox \in Int, NEW oy \in Int,
           Fits(ox, oy, rotation, p)
    PROVE  ~Fits(ox, oy + (BOARD_Y + 1), rotation, p)
<1>1. PICK c : c \in Cells(ox, oy, rotation, p)
  BY PieceCells
<1>2. c \in Int \X Int /\ BOARD_Y \in Nat \ {0}
  BY <1>1, PieceCells, TetrisAssumption
<1>3. <<c[1], c[2] + (BOARD_Y + 1)>> \in Cells(ox, oy + (BOARD_Y + 1), rotation, p)
  <2>1. BOARD_Y + 1 \in Int
    BY <1>2
  <2> QED
    BY <1>1, <2>1, PieceCells, Zenon
<1>4. c[2] \in 0 .. BOARD_Y - 1
  BY <1>1 DEF Fits, Board, Rows
<1>5. <<c[1], c[2] + (BOARD_Y + 1)>> \notin Board
  BY <1>2, <1>4 DEF Board, Rows
<1> QED
  BY <1>3, <1>5 DEF Fits

LEMMA Least == ASSUME NEW T, T \subseteq Nat, T # {} PROVE \E m \in T : \A k \in T : m <= k
<1> DEFINE R == {ss \in Nat \X Nat : ss[1] < ss[2]}
<1>1. OpToRel(<, Nat) = R
  BY DEF OpToRel
<1>2. IsWellFoundedOn(R, Nat)
  BY <1>1, NatLessThanWellFounded, Zenon
<1> HIDE DEF R
<1>3. PICK m \in T : \A n \in T : ~(<<n, m>> \in R)
  BY <1>2, WFMin, Zenon
<1>4. ASSUME NEW n \in T PROVE m <= n
  <2>1. n \in Nat /\ m \in Nat /\ <<n, m>> \notin R
    BY <1>3
  <2> QED
    BY <2>1 DEF R
<1> QED
  BY <1>4

\* handle_actions moves the piece to a place where it fits, and drops it as far
\* as it can fall.
LEMMA MovesFit ==
    ASSUME NEW keys, current_piece \in PieceNames, current_rotation \in 0 .. 3, x \in Int, y \in Int,
           Fits(x, y, current_rotation, current_piece)
    PROVE  LET m == Moves(keys) IN
           /\ m.x \in Int /\ m.y \in Int /\ m.rotation \in 0 .. 3 /\ m.dropped \in BOOLEAN
           /\ Fits(m.x, m.y, m.rotation, current_piece)
           /\ m.dropped => ~Fits(m.x, m.y + 1, m.rotation, current_piece)
<1> DEFINE can(dx, dy, turn) ==
               ~check_collision(x + dx, y + dy, (current_rotation + turn) % 4, current_piece)
           stay == [x |-> x, y |-> y, rotation |-> current_rotation, dropped |-> FALSE]
           falls(d) == ~can(0, d + 1, 0) /\ \A e \in 1 .. d : can(0, e, 0)
           fall == CHOOSE d \in 0 .. BOARD_Y : falls(d)
           m == Moves(keys)
           Right == /\ m.x \in Int /\ m.y \in Int /\ m.rotation \in 0 .. 3 /\ m.dropped \in BOOLEAN
                    /\ Fits(m.x, m.y, m.rotation, current_piece)
                    /\ m.dropped => ~Fits(m.x, m.y + 1, m.rotation, current_piece)
<1>1. m = IF "left" \in keys /\ can(-1, 0, 0) THEN [stay EXCEPT !.x = x - 1]
          ELSE IF "right" \in keys /\ can(1, 0, 0) THEN [stay EXCEPT !.x = x + 1]
          ELSE IF "down" \in keys /\ can(0, 1, 0) THEN [stay EXCEPT !.y = y + 1]
          ELSE IF "rotate" \in keys /\ can(0, 0, 1)
          THEN [stay EXCEPT !.rotation = (current_rotation + 1) % 4]
          ELSE IF "drop" \in keys THEN [stay EXCEPT !.y = y + fall, !.dropped = TRUE]
          ELSE stay
  BY Zenon DEF Moves
<1>2. /\ (current_rotation + 0) % 4 = current_rotation /\ (current_rotation + 1) % 4 \in 0 .. 3
      /\ x + 0 = x /\ y + 0 = y /\ x + -1 = x - 1
  OBVIOUS
<1>3. /\ can(-1, 0, 0) <=> Fits(x - 1, y, current_rotation, current_piece)
      /\ can(1, 0, 0) <=> Fits(x + 1, y, current_rotation, current_piece)
      /\ can(0, 1, 0) <=> Fits(x, y + 1, current_rotation, current_piece)
      /\ can(0, 0, 1) <=> Fits(x, y, (current_rotation + 1) % 4, current_piece)
      /\ \A d : can(0, d, 0) <=> Fits(x, y + d, current_rotation, current_piece)
  BY <1>2, FitsIsFree, Zenon
<1>4. fall \in 0 .. BOARD_Y /\ falls(fall)
  <2> DEFINE T == {d \in 0 .. BOARD_Y : ~can(0, d + 1, 0)}
  <2>1. BOARD_Y \in Nat
    BY TetrisAssumption
  <2>2. ~can(0, BOARD_Y + 1, 0)
    BY <1>3, Bottom, Zenon
  <2> HIDE DEF can
  <2>3. T # {} /\ T \subseteq Nat
    BY <2>1, <2>2
  <2>4. PICK d \in T : \A e \in T : d <= e
    BY <2>3, Least, Zenon
  <2>5. ASSUME NEW e \in 1 .. d PROVE can(0, e, 0)
    <3>1. d \in 0 .. BOARD_Y
      BY <2>4
    <3>2. e - 1 \in 0 .. BOARD_Y /\ ~(d <= e - 1) /\ e - 1 + 1 = e
      BY <2>1, <3>1
    <3>3. e - 1 \notin T
      BY <2>4, <3>2, Zenon
    <3> QED
      BY <3>2, <3>3
  <2>6. d \in 0 .. BOARD_Y /\ falls(d)
    BY <2>4, <2>5
  <2> QED
    BY <2>6, Zenon
<1>5. Fits(x, y + fall, current_rotation, current_piece) /\ fall \in Int
  <2> HIDE DEF fall
  <2>1. CASE fall = 0
    <3>1. y + fall = y
      BY <2>1
    <3>2. fall \in Int
      BY <2>1
    <3> QED
      BY <3>1, <3>2, Zenon
  <2>2. CASE fall # 0
    <3>1. fall \in 1 .. fall /\ fall \in Int
      BY <1>4, <2>2, TetrisAssumption
    <3> QED
      BY <1>3, <1>4, <3>1, Zenon
  <2> QED
    BY <2>1, <2>2, <1>4
<1>6. ~Fits(x, y + (fall + 1), current_rotation, current_piece)
  BY <1>3, <1>4, Zenon
<1>7. y + fall + 1 = y + (fall + 1) /\ y + fall \in Int
  BY <1>5
<1> HIDE DEF fall, m
<1>8. ASSUME m = [x |-> x - 1, y |-> y, rotation |-> current_rotation, dropped |-> FALSE],
            Fits(x - 1, y, current_rotation, current_piece)
      PROVE  Right
  BY <1>8
<1>9. ASSUME m = [x |-> x + 1, y |-> y, rotation |-> current_rotation, dropped |-> FALSE],
            Fits(x + 1, y, current_rotation, current_piece)
      PROVE  Right
  BY <1>9
<1>10. ASSUME m = [x |-> x, y |-> y + 1, rotation |-> current_rotation, dropped |-> FALSE],
            Fits(x, y + 1, current_rotation, current_piece)
      PROVE  Right
  BY <1>10
<1>11. ASSUME m = [x |-> x, y |-> y, rotation |-> (current_rotation + 1) % 4, dropped |-> FALSE],
            Fits(x, y, (current_rotation + 1) % 4, current_piece)
      PROVE  Right
  BY <1>2, <1>11
<1>12. ASSUME m = [x |-> x, y |-> y + fall, rotation |-> current_rotation, dropped |-> TRUE] PROVE Right
  BY <1>5, <1>6, <1>7, <1>12
<1>13. ASSUME m = stay PROVE Right
  BY <1>13
<1>14. \/ m = [x |-> x - 1, y |-> y, rotation |-> current_rotation, dropped |-> FALSE]
          /\ Fits(x - 1, y, current_rotation, current_piece)
       \/ m = [x |-> x + 1, y |-> y, rotation |-> current_rotation, dropped |-> FALSE]
          /\ Fits(x + 1, y, current_rotation, current_piece)
       \/ m = [x |-> x, y |-> y + 1, rotation |-> current_rotation, dropped |-> FALSE]
          /\ Fits(x, y + 1, current_rotation, current_piece)
       \/ m = [x |-> x, y |-> y, rotation |-> (current_rotation + 1) % 4, dropped |-> FALSE]
          /\ Fits(x, y, (current_rotation + 1) % 4, current_piece)
       \/ m = [x |-> x, y |-> y + fall, rotation |-> current_rotation, dropped |-> TRUE]
       \/ m = stay
  <2> HIDE DEF can
  <2> QED
    BY <1>1, <1>3
<1> QED
  BY <1>8, <1>9, <1>10, <1>11, <1>12, <1>13, <1>14, Zenon DEF m

-----------------------------------------------------------------------------
(* The states of the game *)

\* The switch of update is entered in the state behind a pause, unless the game is
\* paused.
LEMMA RoundPlays ==
    ASSUME state_pause_prev # "PAUSE", NEW keys, NEW s, NEW s2, s # "PAUSE", s2 # "PAUSE",
           Round(keys, s, s2)
    PROVE  Playing = s /\ Playing' = s2 /\ state_pause_prev' # "PAUSE"
BY DEF Round, Entered, Playing

LEMMA RoundRests ==
    ASSUME state_pause_prev # "PAUSE", NEW keys, NEW s \in {"PAUSE", "GAME_OVER"}, Round(keys, s, s)
    PROVE  Playing' = Playing /\ state_pause_prev' # "PAUSE"
BY DEF Round, Entered, Playing

LEMMA PiecesFacts ==
    /\ Pieces \subseteq PieceNames /\ P_E \notin Pieces
    /\ \A p \in Pieces : p \in Colours
    /\ BOARD_X \in Nat \ {0} /\ BOARD_Y \in Nat \ {0} /\ NUM_FLASHES \in Nat \ {0}
    /\ MIN_TICKS \in Nat \ {0} /\ TICKS_PER_DROP \in Nat /\ TICKS_PER_DROP >= MIN_TICKS
BY TetrisAssumption DEF PieceNames, Colours

LEMMA PaintedType ==
    ASSUME NEW S, NEW f \in [Board -> S], NEW cells, NEW colour \in S
    PROVE  /\ Painted(f, cells, colour) \in [Board -> S]
           /\ \A c \in Board : Painted(f, cells, colour)[c] = IF c \in cells THEN colour ELSE f[c]
BY DEF Painted

\* Redrawing the piece leaves the board with the piece at its new place.
LEMMA RedrawnShows ==
    ASSUME NEW f \in [Board -> Colours], NEW old, NEW new, NEW colour,
           \A c \in old : c \in Board /\ f[c] = P_E
    PROVE  Painted(Painted(Painted(f, old, colour), old, P_E), new, colour) = Painted(f, new, colour)
BY DEF Painted

\* A piece that fits on the board is over empty cells.
LEMMA FitsIsOver ==
    ASSUME Fits(x, y, current_rotation, current_piece)
    PROVE  Falling \subseteq Board \ Occupied(gameboard)
BY DEF Fits, Falling, Occupied

LEMMA OverFits ==
    ASSUME Falling \subseteq Board \ Occupied(gameboard)
    PROVE  Fits(x, y, current_rotation, current_piece)
BY DEF Fits, Falling, Occupied

-----------------------------------------------------------------------------
(* The steps *)

LEMMA InitInv == GameInit => IInv
<1> SUFFICES ASSUME GameInit PROVE IInv
  OBVIOUS
<1>1. /\ gameboard = [c \in Board |-> P_E] /\ screen = [c \in Board |-> P_E]
      /\ next_piece \in Pieces /\ current_piece = "P_I" /\ current_rotation = 0 /\ x = 0 /\ y = 0
      /\ state = "SPAWN" /\ state_pause_prev = "SPAWN" /\ ticks = 0 /\ flash_count = 0
      /\ ticks_per_drop = TICKS_PER_DROP /\ full_lines = {}
  BY DEF GameInit
<1>2. Playing = "SPAWN"
  BY <1>1 DEF Playing
<1>3. GameTypeOK
  BY <1>1, PiecesFacts DEF GameTypeOK, Colours
<1>4. Full(gameboard) = {}
  <2>1. 0 \in Columns
    BY PiecesFacts DEF Columns
  <2> QED
    BY <1>1, <2>1 DEF Full, Board
<1> QED
  BY <1>1, <1>2, <1>3, <1>4
     DEF IInv, BoardConsistent, PieceFits, ScreenShowsBoard, NoFullLine, PieceKnown, FlashingFull

LEMMA NewGameInv == ASSUME IInv, NewGame PROVE IInv'
<1>1. /\ gameboard' = [c \in Board |-> P_E] /\ screen' = [c \in Board |-> P_E]
      /\ next_piece' \in Pieces /\ current_piece' = "P_I" /\ current_rotation' = 0 /\ x' = 0 /\ y' = 0
      /\ state' = "SPAWN" /\ state_pause_prev' = "SPAWN" /\ ticks' = 0 /\ flash_count' = 0
      /\ ticks_per_drop' = TICKS_PER_DROP /\ UNCHANGED full_lines
  BY DEF NewGame
<1>2. Playing' = "SPAWN"
  BY <1>1 DEF Playing
<1>3. full_lines \subseteq Rows
  BY DEF IInv, BoardConsistent, GameTypeOK
<1>4. GameTypeOK'
  BY <1>1, <1>3, PiecesFacts DEF GameTypeOK, Colours
<1>5. Full(gameboard') = {}
  <2>1. 0 \in Columns
    BY PiecesFacts DEF Columns
  <2> QED
    BY <1>1, <2>1 DEF Full, Board
<1> QED
  BY <1>1, <1>2, <1>4, <1>5
     DEF IInv, BoardConsistent, PieceFits, ScreenShowsBoard, NoFullLine, PieceKnown, FlashingFull

LEMMA QuitInv == ASSUME IInv, NEW keys, Quit(keys) PROVE IInv'
BY DEF Quit, IInv, BoardConsistent, GameTypeOK, PieceFits, ScreenShowsBoard, NoFullLine, PieceKnown,
       FlashingFull, Playing, Falling, Cells, Occupied, Full, Painted, piece, flash

LEMMA RestInv == ASSUME IInv, NEW keys, Rest(keys) PROVE IInv'
<1>1. state_pause_prev # "PAUSE"
  BY DEF IInv, BoardConsistent, GameTypeOK
<1>2. Playing' = Playing /\ state_pause_prev' # "PAUSE"
  BY <1>1, RoundRests DEF Rest
<1>3. UNCHANGED <<gameboard, screen, current_piece, current_rotation, x, y, next_piece, ticks,
                  flash_count, full_lines, ticks_per_drop>>
  BY DEF Rest, piece, flash
<1> QED
  BY <1>2, <1>3 DEF IInv, BoardConsistent, GameTypeOK, PieceFits, ScreenShowsBoard, NoFullLine,
       PieceKnown, FlashingFull, Falling, Cells, Occupied, Full, Painted

LEMMA SpawnInv == ASSUME IInv, NEW keys, Spawn(keys) PROVE IInv'
<1> DEFINE ox == BOARD_X \div 2
<1>1. /\ current_piece' = next_piece /\ next_piece' \in Pieces
      /\ x' = ox /\ y' = 0 /\ current_rotation' = 0
      /\ UNCHANGED <<gameboard, flash_count, full_lines, ticks_per_drop>>
  BY DEF Spawn, flash
<1>2. /\ state_pause_prev # "PAUSE" /\ GameTypeOK /\ next_piece \in Pieces
      /\ ScreenShowsBoard /\ NoFullLine
  BY DEF IInv, BoardConsistent, GameTypeOK
<1>3. ox \in Int
  BY PiecesFacts
<1> HIDE DEF ox
<1>4. CASE check_collision(ox, 0, 0, next_piece)
  <2>1. Round(keys, "SPAWN", "GAME_OVER") /\ UNCHANGED <<screen, ticks>>
    BY <1>4 DEF Spawn, ox
  <2>2. Playing' = "GAME_OVER" /\ state_pause_prev' # "PAUSE"
    BY <1>2, <2>1, RoundPlays
  <2>3. GameTypeOK'
    <3>1. 0 \in Int /\ 0 \in 0 .. 3
      OBVIOUS
    <3> QED
      BY <1>1, <1>2, <1>3, <2>1, <2>2, <3>1, Zenon DEF GameTypeOK
  <2> QED
    BY <1>1, <1>3, <2>2, <2>3
       DEF IInv, BoardConsistent, PieceFits, ScreenShowsBoard, NoFullLine, PieceKnown, FlashingFull
<1>5. CASE ~check_collision(ox, 0, 0, next_piece)
  <2>1. /\ Round(keys, "SPAWN", "SHIFT_DOWN") /\ ticks' = 0
        /\ screen' = Painted(screen, Cells(ox, 0, 0, next_piece), next_piece)
    BY <1>5 DEF Spawn, ox
  <2>2. Playing = "SPAWN" /\ Playing' = "SHIFT_DOWN" /\ state_pause_prev' # "PAUSE"
    BY <1>2, <2>1, RoundPlays
  <2>3. screen = gameboard /\ Full(gameboard) = {}
    BY <1>2, <2>2 DEF ScreenShowsBoard, NoFullLine
  <2>4. Falling' = Cells(ox, 0, 0, next_piece)
    BY <1>1 DEF Falling, Cells
  <2>5. Fits(ox, 0, 0, next_piece)
    BY <1>5, FitsIsFree
  <2>6. PieceFits'
    BY <1>1, <2>4, <2>5 DEF PieceFits, Fits, Occupied
  <2>7. ScreenShowsBoard'
    BY <1>1, <2>1, <2>2, <2>3, <2>4 DEF ScreenShowsBoard
  <2>8. GameTypeOK'
    <3>1. screen \in [Board -> Colours \cup {WHITE}] /\ next_piece \in Colours \cup {WHITE}
      BY <1>2, PiecesFacts DEF GameTypeOK
    <3>2. screen' \in [Board -> Colours \cup {WHITE}]
      BY <2>1, <3>1 DEF Painted
    <3>3. 0 \in Int /\ 0 \in 0 .. 3 /\ 0 \in 0 .. TICKS_PER_DROP - 1
      BY PiecesFacts
    <3> QED
      BY <1>1, <1>2, <1>3, <2>1, <2>2, <3>2, <3>3, Zenon DEF GameTypeOK
  <2>9. NoFullLine'
    BY <1>1, <2>3 DEF NoFullLine
  <2> QED
    BY <1>1, <1>2, <1>3, <2>2, <2>6, <2>7, <2>8, <2>9 DEF IInv, BoardConsistent, PieceKnown, FlashingFull
<1> QED
  BY <1>4, <1>5

LEMMA ShiftDownInv == ASSUME IInv, NEW keys, ShiftDown(keys) PROVE IInv'
<1> DEFINE m == Moves(keys)
           new == Cells(m.x, m.y + 1, m.rotation, current_piece)
           held == \E c \in new : \/ c \notin Board
                                  \/ gameboard[c] # P_E
                                  \/ m.dropped /\ c \in Landed(m, 0)
           down == IF Falls /\ ~held THEN 1 ELSE 0
           placed == m.dropped \/ (Falls /\ held)
<1>1. /\ Round(keys, "SHIFT_DOWN", IF placed THEN "LINE_CHECK" ELSE "SHIFT_DOWN")
      /\ x' = m.x /\ y' = m.y + down /\ current_rotation' = m.rotation
      /\ gameboard' = IF placed THEN Painted(gameboard, Landed(m, 0), current_piece) ELSE gameboard
      /\ ticks' = Ticked(keys)
      /\ screen' = Redrawn(Falling, Cells(m.x, m.y + down, m.rotation, current_piece))
      /\ UNCHANGED <<current_piece, next_piece, flash_count, full_lines, ticks_per_drop>>
  BY Zenon DEF ShiftDown, Falling, flash
<1>2. GameTypeOK /\ PieceFits /\ ScreenShowsBoard /\ NoFullLine /\ PieceKnown
  BY DEF IInv, BoardConsistent
<1>3. /\ Playing = "SHIFT_DOWN" /\ Playing' = IF placed THEN "LINE_CHECK" ELSE "SHIFT_DOWN"
      /\ state_pause_prev' # "PAUSE"
  <2>1. (IF placed THEN "LINE_CHECK" ELSE "SHIFT_DOWN") # "PAUSE" /\ state_pause_prev # "PAUSE"
    BY <1>2 DEF GameTypeOK
  <2> QED
    BY <1>1, <2>1, RoundPlays
<1>4. current_piece \in PieceNames /\ current_piece \in Colours
  BY <1>2, <1>3, PiecesFacts DEF PieceKnown
<1>5. /\ gameboard \in [Board -> Colours] /\ x \in Int /\ y \in Int /\ current_rotation \in 0 .. 3
      /\ screen = Painted(gameboard, Falling, current_piece) /\ Full(gameboard) = {}
  BY <1>2, <1>3 DEF GameTypeOK, ScreenShowsBoard, NoFullLine
<1>6. Fits(x, y, current_rotation, current_piece)
  BY <1>2, <1>3, OverFits DEF PieceFits
<1> HIDE DEF m
<1>7. /\ m.x \in Int /\ m.y \in Int /\ m.rotation \in 0 .. 3 /\ m.dropped \in BOOLEAN
      /\ Fits(m.x, m.y, m.rotation, current_piece)
      /\ m.dropped => ~Fits(m.x, m.y + 1, m.rotation, current_piece)
  BY <1>4, <1>5, <1>6, MovesFit, Zenon DEF m
<1>8. m.dropped => held
  BY <1>7 DEF Fits
<1>9. ~held => Fits(m.x, m.y + 1, m.rotation, current_piece)
  BY DEF Fits
<1> HIDE DEF held, new
<1>10. m.y + 0 = m.y
  BY <1>7
<1>11. Fits(m.x, m.y + down, m.rotation, current_piece) /\ m.y + down \in Int
  <2>1. CASE down = 1
    BY <1>7, <1>9, <2>1
  <2>2. CASE down = 0
    BY <1>7, <1>10, <2>2, Zenon
  <2> QED
    BY <2>1, <2>2
<1>12. placed => down = 0
  BY <1>8
<1> HIDE DEF down, placed
<1>13. Falling' = Cells(m.x, m.y + down, m.rotation, current_piece)
  BY <1>1 DEF Falling, Cells
<1>14. screen' = Painted(gameboard, Falling', current_piece)
  <2>1. \A c \in Falling : c \in Board /\ gameboard[c] = P_E
    BY <1>6 DEF Fits, Falling
  <2>2. screen' = Painted(Painted(Painted(gameboard, Falling, current_piece), Falling, P_E),
                          Falling', current_piece)
    BY <1>1, <1>5, <1>13, Zenon DEF Redrawn
  <2>3. Painted(Painted(Painted(gameboard, Falling, current_piece), Falling, P_E),
                Falling', current_piece)
          = Painted(gameboard, Falling', current_piece)
    <3> DEFINE new2 == Falling'
    <3> HIDE DEF new2
    <3>1. Painted(Painted(Painted(gameboard, Falling, current_piece), Falling, P_E), new2, current_piece)
          = Painted(gameboard, new2, current_piece)
      BY <1>5, <2>1, RedrawnShows, SMT
    <3> QED
      BY <3>1 DEF new2
  <2> QED
    BY <2>2, <2>3
<1>15. /\ Painted(gameboard, Falling', current_piece) \in [Board -> Colours]
       /\ screen' \in [Board -> Colours \cup {WHITE}]
  <2>1. Painted(gameboard, Falling', current_piece) \in [Board -> Colours]
    BY <1>4, <1>5, PaintedType, Zenon
  <2> QED
    BY <1>14, <2>1
<1>16. ticks' \in 0 .. TICKS_PER_DROP - 1
  <2>1. /\ ticks \in 0 .. TICKS_PER_DROP - 1 /\ ticks_per_drop \in MIN_TICKS .. TICKS_PER_DROP
        /\ TICKS_PER_DROP \in Nat \ {0} /\ MIN_TICKS \in Nat
    BY <1>2, PiecesFacts DEF GameTypeOK
  <2>2. ticks' = IF ticks + 1 >= ticks_per_drop THEN 0 ELSE ticks + 1
    BY <1>1 DEF Ticked, Falls
  <2> QED
    BY <2>1, <2>2
<1>17. CASE placed
  <2>1. /\ Playing' = "LINE_CHECK" /\ Landed(m, 0) = Cells(m.x, m.y + down, m.rotation, current_piece)
    BY <1>3, <1>12, <1>17 DEF Landed
  <2>2. gameboard' = screen'
    BY <1>1, <1>13, <1>14, <1>17, <2>1
  <2>3. GameTypeOK'
    BY <1>1, <1>2, <1>3, <1>7, <1>11, <1>14, <1>15, <1>16, <2>2 DEF GameTypeOK
  <2> QED
    BY <2>1, <2>2, <2>3
       DEF IInv, BoardConsistent, PieceFits, ScreenShowsBoard, NoFullLine, PieceKnown, FlashingFull
<1>18. CASE ~placed
  <2>1. Playing' = "SHIFT_DOWN" /\ gameboard' = gameboard
    BY <1>1, <1>3, <1>18
  <2>2. GameTypeOK'
    BY <1>1, <1>2, <1>3, <1>7, <1>11, <1>15, <1>16, <2>1 DEF GameTypeOK
  <2>3. PieceFits'
    BY <1>11, <1>13, <2>1 DEF PieceFits, Fits, Occupied
  <2>4. ScreenShowsBoard'
    BY <1>1, <1>14, <2>1 DEF ScreenShowsBoard
  <2>5. NoFullLine'
    BY <1>5, <2>1 DEF NoFullLine, Full
  <2>6. PieceKnown' /\ FlashingFull'
    BY <1>1, <1>2, <1>3, <2>1 DEF PieceKnown, FlashingFull
  <2> QED
    BY <2>2, <2>3, <2>4, <2>5, <2>6 DEF IInv, BoardConsistent
<1> QED
  BY <1>17, <1>18

LEMMA LineCheckInv == ASSUME IInv, NEW keys, LineCheck(keys) PROVE IInv'
<1>1. /\ full_lines' = Full(gameboard)
      /\ UNCHANGED <<gameboard, screen, current_piece, current_rotation, x, y, next_piece, ticks,
                     ticks_per_drop>>
  BY DEF LineCheck, check_for_lines, piece
<1>2. GameTypeOK /\ ScreenShowsBoard
  BY DEF IInv, BoardConsistent
<1>3. state_pause_prev # "PAUSE" /\ Full(gameboard) \subseteq Rows /\ Full(gameboard)' = Full(gameboard)
  BY <1>1, <1>2 DEF GameTypeOK, Full
<1>4. CASE Full(gameboard) # {}
  <2>1. Round(keys, "LINE_CHECK", "FLASH") /\ flash_count' = 0
    BY <1>4 DEF LineCheck, check_for_lines
  <2>2. Playing' = "FLASH" /\ state_pause_prev' # "PAUSE"
    BY <1>3, <2>1, RoundPlays
  <2>3. GameTypeOK'
    BY <1>1, <1>2, <1>3, <2>1, <2>2, PiecesFacts DEF GameTypeOK
  <2>4. FlashingFull'
    BY <1>1, <1>3, <2>1, PiecesFacts DEF FlashingFull
  <2> QED
    BY <2>2, <2>3, <2>4 DEF IInv, BoardConsistent, PieceFits, ScreenShowsBoard, NoFullLine, PieceKnown
<1>5. CASE Full(gameboard) = {}
  <2>1. Round(keys, "LINE_CHECK", "SPAWN") /\ flash_count' = flash_count
    BY <1>5 DEF LineCheck, check_for_lines, flash
  <2>2. Playing = "LINE_CHECK" /\ Playing' = "SPAWN" /\ state_pause_prev' # "PAUSE"
    BY <1>3, <2>1, RoundPlays
  <2>3. GameTypeOK'
    BY <1>1, <1>2, <1>3, <2>1, <2>2 DEF GameTypeOK
  <2>4. screen' = gameboard'
    BY <1>1, <1>2, <2>2 DEF ScreenShowsBoard
  <2> QED
    BY <1>3, <1>5, <2>2, <2>3, <2>4
       DEF IInv, BoardConsistent, PieceFits, ScreenShowsBoard, NoFullLine, PieceKnown, FlashingFull
<1> QED
  BY <1>4, <1>5

-----------------------------------------------------------------------------
(* The lines that go *)

\* The lines below a line, counted in two parts
LEMMA BelowSplit ==
    ASSUME NEW lines \in SUBSET Rows, NEW q \in Int, NEW r \in Int, q <= r
    PROVE  /\ below(lines, q) \in Nat /\ below(lines, r) \in Nat
           /\ \E m \in 0 .. r - q :
                  /\ below(lines, q) = below(lines, r) + m
                  /\ (\A k \in q + 1 .. r : k \in lines) => m = r - q
                  /\ (\E k \in q + 1 .. r : k \notin lines) => m < r - q
<1> DEFINE Q == {f \in lines : f > q}
           R == {f \in lines : f > r}
           M == {f \in lines : f > q /\ f <= r}
           I == q + 1 .. r
<1>1. lines \subseteq Int /\ IsFiniteSet(lines)
  <2>1. IsFiniteSet(Rows) /\ Rows \subseteq Int
    <3>1. 0 \in Int /\ BOARD_Y - 1 \in Int
      BY PiecesFacts
    <3> QED
      BY <3>1, FS_Interval DEF Rows
  <2> QED
    BY <2>1, FS_Subset
<1>2. IsFiniteSet(Q) /\ IsFiniteSet(R) /\ IsFiniteSet(M)
  BY <1>1, FS_Subset
<1>3. Cardinality(Q) \in Nat /\ Cardinality(R) \in Nat /\ Cardinality(M) \in Nat
  BY <1>2, FS_CardinalityType
<1>4. Q = R \cup M /\ R \cap M = {} /\ M \subseteq I
  <2>1. \A f \in lines : f \in Int
    BY <1>1
  <2>2. \A f : f \in Q <=> f \in R \/ f \in M
    BY <2>1
  <2>3. \A f \in M : f \in I
    BY <2>1
  <2>4. \A f : ~(f \in R /\ f \in M)
    BY <2>1
  <2> HIDE DEF Q, R, M, I
  <2> QED
    BY <2>2, <2>3, <2>4
<1>5. IsFiniteSet(I) /\ Cardinality(I) = r - q
  <2>1. q + 1 \in Int
    OBVIOUS
  <2>2. IsFiniteSet(I) /\ Cardinality(I) = IF q + 1 > r THEN 0 ELSE r - (q + 1) + 1
    BY <2>1, FS_Interval, Zenon
  <2>3. (IF q + 1 > r THEN 0 ELSE r - (q + 1) + 1) = r - q
    OBVIOUS
  <2> QED
    BY <2>2, <2>3
<1>6. (\A k \in I : k \in lines) => M = I
  <2> SUFFICES ASSUME \A k \in I : k \in lines PROVE M = I
    OBVIOUS
  <2>1. \A k \in I : k \in M
    OBVIOUS
  <2> QED
    BY <1>4, <2>1, Zenon
<1>7. (\E k \in I : k \notin lines) => M # I
  OBVIOUS
<1>8. below(lines, q) = Cardinality(Q) /\ below(lines, r) = Cardinality(R)
  BY DEF below
<1> HIDE DEF Q, R, M, I
<1>9. Cardinality(Q) = Cardinality(R) + Cardinality(M)
  <2>1. Cardinality(R \cup M) = Cardinality(R) + Cardinality(M) - Cardinality(R \cap M)
    BY <1>2, FS_Union, Zenon
  <2> QED
    BY <1>3, <1>4, <2>1, FS_EmptySet
<1>10. /\ Cardinality(M) <= Cardinality(I)
       /\ Cardinality(M) = Cardinality(I) => M = I
  BY <1>4, <1>5, FS_Subset
<1>11. Cardinality(M) \in 0 .. r - q /\ (M = I => Cardinality(M) = r - q)
       /\ (M # I => Cardinality(M) < r - q)
  BY <1>3, <1>5, <1>10
<1> QED
  BY <1>3, <1>6, <1>7, <1>8, <1>9, <1>11 DEF I

LEMMA BelowEnds ==
    ASSUME NEW lines \in SUBSET Rows
    PROVE  below(lines, -1) = Cardinality(lines) /\ below(lines, BOARD_Y - 1) = 0
<1>1. \A f \in lines : f > -1 /\ ~(f > BOARD_Y - 1)
  <2>1. \A f \in lines : f \in Rows
    OBVIOUS
  <2> QED
    BY <2>1, PiecesFacts DEF Rows
<1>2. {f \in lines : f > -1} = lines
  BY <1>1, Zenon
<1>3. {f \in lines : f > BOARD_Y - 1} = {}
  BY <1>1, Zenon
<1> QED
  BY <1>2, <1>3, FS_EmptySet, Zenon DEF below

\* The row that is left at or above a row.
LeftAbove(start) ==
    LET left == {q \in 0 .. start : q \notin full_lines}
    IN  IF left = {} THEN -1 ELSE CHOOSE q \in left : \A p \in left : p <= q

LEMMA LeftRow ==
    ASSUME NEW start \in Int, start < BOARD_Y, -1 <= start
    PROVE  /\ LeftAbove(start) \in -1 .. start
           /\ LeftAbove(start) = -1 \/ LeftAbove(start) \in Rows \ full_lines
           /\ \A r \in LeftAbove(start) + 1 .. start : r \in full_lines
<1> DEFINE left == {q \in 0 .. start : q \notin full_lines}
           depths == {d \in Nat : start - d \in left}
<1>1. left \subseteq Rows \ full_lines
  BY PiecesFacts DEF Rows
<1>2. CASE left = {}
  <2>1. LeftAbove(start) = -1
    BY <1>2 DEF LeftAbove
  <2> QED
    BY <1>2, <2>1
<1>3. CASE left # {}
  <2>1. PICK q \in left : TRUE
    BY <1>3
  <2>2. start - q \in Nat /\ start - (start - q) = q
    BY <2>1
  <2>3. depths # {} /\ depths \subseteq Nat
    BY <2>1, <2>2
  <2>4. PICK d \in depths : \A e \in depths : d <= e
    BY <2>3, Least, Zenon
  <2>5. ASSUME NEW p \in left PROVE p <= start - d
    <3>1. start - p \in depths
      OBVIOUS
    <3>2. d <= start - p
      BY <2>4, <3>1, Zenon
    <3>3. d \in Int /\ p \in Int
      OBVIOUS
    <3> HIDE DEF depths, left
    <3> QED
      BY <3>2, <3>3
  <2>6. \E q2 \in left : \A p \in left : p <= q2
    BY <2>4, <2>5
  <2> DEFINE last == LeftAbove(start)
  <2>7. last = CHOOSE q2 \in left : \A p \in left : p <= q2
    BY <1>3 DEF LeftAbove
  <2> HIDE DEF left, last
  <2>8. last \in left /\ \A p \in left : p <= last
    BY <2>6, <2>7
  <2>9. last \in 0 .. start /\ last \in Rows \ full_lines
    BY <1>1, <2>8 DEF left
  <2>10. ASSUME NEW r \in last + 1 .. start PROVE r \in full_lines
    <3>1. r \in 0 .. start /\ ~(r <= last)
      BY <2>9
    <3> QED
      BY <2>8, <3>1 DEF left
  <2> QED
    BY <2>9, <2>10 DEF last
<1> QED
  BY <1>2, <1>3

LEMMA NothingLeft == LeftAbove(-2) = -1
<1>1. {q \in 0 .. -2 : q \notin full_lines} = {}
  OBVIOUS
<1> QED
  BY <1>1 DEF LeftAbove

\* The row copied to a row lies as many rows above it as full lines are below it, or
\* there is none and the row is one of as many at the top as there are full lines.
Falls_to(q, row) ==
    \/ q \in Rows \ full_lines /\ q + below(full_lines, q) = row
    \/ q = -1 /\ row < Cardinality(full_lines)

\* One round of the loop of clear_lines
LEMMA NextSource ==
    ASSUME full_lines \subseteq Rows, NEW row \in Rows, NEW start,
           \/ row = BOARD_Y - 1 /\ start = row
           \/ \E q \in Int : start = q - 1 /\ Falls_to(q, row + 1)
    PROVE  Falls_to(LeftAbove(start), row)
<1> DEFINE q == LeftAbove(start)
<1>1. BOARD_Y \in Nat \ {0} /\ row \in 0 .. BOARD_Y - 1
  BY PiecesFacts DEF Rows
<1>2. below(full_lines, -1) = Cardinality(full_lines) /\ below(full_lines, BOARD_Y - 1) = 0
  BY BelowEnds
<1>3. ASSUME start \in Int, start < BOARD_Y, -1 <= start, start + below(full_lines, start) = row
      PROVE  Falls_to(q, row)
  <2>1. /\ q \in -1 .. start /\ (q = -1 \/ q \in Rows \ full_lines)
        /\ \A k \in q + 1 .. start : k \in full_lines
    BY <1>3, LeftRow
  <2> HIDE DEF q
  <2>2. q \in Int /\ q <= start
    BY <1>3, <2>1
  <2>3. below(full_lines, start) \in Nat /\ below(full_lines, q) = below(full_lines, start) + (start - q)
    BY <1>3, <2>1, <2>2, BelowSplit
  <2>4. q + below(full_lines, q) = row
    BY <1>3, <2>2, <2>3
  <2>5. CASE q = -1
    <3>1. below(full_lines, -1) = row + 1
      BY <1>1, <1>3, <2>3, <2>5
    <3>2. row < Cardinality(full_lines)
      BY <1>1, <1>2, <3>1
    <3> QED
      BY <2>5, <3>2 DEF Falls_to
  <2> QED
    BY <2>1, <2>4, <2>5 DEF Falls_to
<1>4. CASE row = BOARD_Y - 1 /\ start = row
  <2>1. start \in Int /\ start < BOARD_Y /\ -1 <= start /\ start + below(full_lines, start) = row
    BY <1>1, <1>2, <1>4
  <2> QED
    BY <1>3, <2>1
<1>5. ASSUME NEW p \in Int, start = p - 1, Falls_to(p, row + 1) PROVE Falls_to(q, row)
  <2>1. CASE p \in Rows \ full_lines /\ p + below(full_lines, p) = row + 1
    <3>1. p \in 0 .. BOARD_Y - 1 /\ start \in Int /\ start < BOARD_Y /\ -1 <= start /\ start <= p
      BY <1>1, <1>5, <2>1 DEF Rows
    <3>2. /\ below(full_lines, start) \in Nat /\ below(full_lines, p) \in Nat
          /\ \E m \in 0 .. p - start :
                 /\ below(full_lines, start) = below(full_lines, p) + m
                 /\ (\E k \in start + 1 .. p : k \notin full_lines) => m < p - start
      BY <3>1, BelowSplit
    <3>3. p \in start + 1 .. p /\ p \notin full_lines /\ p - start = 1
      BY <1>5, <2>1, <3>1
    <3>4. below(full_lines, start) = below(full_lines, p)
      BY <3>2, <3>3
    <3>5. start + below(full_lines, start) = row
      BY <1>1, <1>5, <2>1, <3>1, <3>2, <3>4
    <3> QED
      BY <1>3, <3>1, <3>5
  <2>2. CASE p = -1 /\ row + 1 < Cardinality(full_lines)
    <3>1. start = -2
      BY <1>5, <2>2
    <3>2. q = -1
      BY <3>1, NothingLeft
    <3>3. Cardinality(full_lines) \in Nat
      BY <1>2, BelowSplit
    <3>4. row < Cardinality(full_lines)
      BY <1>1, <2>2, <3>3
    <3> QED
      BY <3>2, <3>4 DEF Falls_to
  <2> QED
    BY <1>5, <2>1, <2>2 DEF Falls_to
<1> QED
  BY <1>4, <1>5

\* clear_lines copies to each row the right one.
LEMMA SourceRow ==
    ASSUME full_lines \subseteq Rows
    PROVE  \A row \in Rows : Falls_to(source[row], row)
<1> DEFINE Start(g, row) == IF row = BOARD_Y - 1 THEN row ELSE g[row + 1] - 1
           F(g) == [row \in Rows |-> LeftAbove(Start(g, row))]
           Solved(g, n) == \A row \in Rows : row >= BOARD_Y - n => g[row] = LeftAbove(Start(g, row))
<1>1. BOARD_Y \in Nat \ {0}
  BY PiecesFacts
<1>2. source = CHOOSE g : g = F(g)
  BY Zenon DEF source, LeftAbove
<1>3. ASSUME NEW n \in Nat, n < BOARD_Y, NEW g, Solved(g, n)
      PROVE  \E h : Solved(h, n + 1)
  <2> DEFINE new == BOARD_Y - (n + 1)
             h == [row \in Rows |-> IF row = new THEN LeftAbove(Start(g, row)) ELSE g[row]]
  <2>1. new \in Rows
    BY <1>1, <1>3 DEF Rows
  <2>2. ASSUME NEW row \in Rows, row >= BOARD_Y - (n + 1) PROVE h[row] = LeftAbove(Start(h, row))
    <3>1. row = BOARD_Y - 1 \/ (row + 1 \in Rows /\ row + 1 # new)
      BY <1>1, <1>3, <2>2 DEF Rows
    <3>2. Start(h, row) = Start(g, row)
      BY <3>1
    <3>3. row = new \/ row >= BOARD_Y - n
      BY <1>1, <1>3, <2>2 DEF Rows
    <3>4. CASE row = new
      BY <3>2, <3>4
    <3>5. CASE row # new
      BY <1>3, <3>2, <3>3, <3>5
    <3> QED
      BY <3>4, <3>5
  <2> HIDE DEF h, new
  <2> QED
    BY <2>2
<1>4. \E g : Solved(g, BOARD_Y)
  <2> DEFINE T == {n \in Nat : n <= BOARD_Y /\ ~\E g : Solved(g, n)}
  <2> SUFFICES ASSUME T # {} PROVE FALSE
    <3> HIDE DEF Solved
    <3> QED
      BY <1>1
  <2>1. PICK n \in T : \A k \in T : n <= k
    <3>1. T \subseteq Nat
      OBVIOUS
    <3> HIDE DEF T
    <3> QED
      BY <3>1, Least
  <2>2. n # 0
    <3>1. Solved(<<>>, 0)
      BY <1>1 DEF Rows
    <3> QED
      BY <2>1, <3>1
  <2>3. n - 1 \in Nat /\ n - 1 < BOARD_Y /\ n - 1 + 1 = n /\ ~(n <= n - 1)
    BY <1>1, <2>1, <2>2
  <2>4. \E g : Solved(g, n - 1)
    BY <1>1, <2>1, <2>3
  <2> HIDE DEF Solved
  <2> QED
    BY <1>3, <2>1, <2>3, <2>4
<1>5. \E g : g = F(g)
  <2>1. PICK g : Solved(g, BOARD_Y)
    BY <1>4
  <2> DEFINE h == [row \in Rows |-> g[row]]
  <2>2. ASSUME NEW row \in Rows PROVE h[row] = LeftAbove(Start(h, row))
    <3>1. row >= BOARD_Y - BOARD_Y /\ (row = BOARD_Y - 1 \/ row + 1 \in Rows)
      BY <1>1 DEF Rows
    <3>2. Start(h, row) = Start(g, row)
      BY <3>1
    <3> QED
      BY <2>1, <3>1, <3>2
  <2>3. h = [row \in Rows |-> h[row]]
    OBVIOUS
  <2> HIDE DEF h, Start
  <2>4. h = F(h)
    BY <2>2, <2>3
  <2> QED
    BY <2>4, Zenon
<1>6. source = F(source)
  BY <1>2, <1>5, Zenon
<1> HIDE DEF Start
<1>7. \A row \in Rows : source[row] = LeftAbove(Start(source, row))
  BY <1>6
<1> DEFINE T == {n \in 1 .. BOARD_Y : ~Falls_to(source[BOARD_Y - n], BOARD_Y - n)}
<1>8. T = {}
  <2> SUFFICES ASSUME T # {} PROVE FALSE
    OBVIOUS
  <2>1. PICK n \in T : \A k \in T : n <= k
    <3>1. T \subseteq Nat
      OBVIOUS
    <3> HIDE DEF T
    <3> QED
      BY <3>1, Least
  <2> DEFINE row == BOARD_Y - n
             start == Start(source, row)
  <2>2. row \in Rows /\ n \in 1 .. BOARD_Y
    BY <1>1, <2>1 DEF Rows
  <2>3. \/ row = BOARD_Y - 1 /\ start = row
        \/ \E q \in Int : start = q - 1 /\ Falls_to(q, row + 1)
    <3>1. CASE n = 1
      BY <3>1 DEF Start
    <3>2. CASE n # 1
      <4>1. n - 1 \in 1 .. BOARD_Y /\ BOARD_Y - (n - 1) = row + 1 /\ ~(n <= n - 1) /\ row # BOARD_Y - 1
        BY <1>1, <2>2, <3>2
      <4>2. n - 1 \notin T
        BY <2>1, <4>1, Zenon
      <4>3. Falls_to(source[row + 1], row + 1)
        BY <4>1, <4>2
      <4> HIDE DEF row
      <4>4. source[row + 1] \in Int
        BY <4>3, PiecesFacts DEF Rows, Falls_to
      <4> QED
        BY <4>1, <4>3, <4>4 DEF Start
    <3> QED
      BY <3>1, <3>2
  <2> HIDE DEF row, start
  <2>4. Falls_to(LeftAbove(start), row)
    BY <2>2, <2>3, NextSource
  <2>5. source[row] = LeftAbove(start)
    BY <1>7, <2>2 DEF start
  <2> QED
    BY <2>1, <2>4, <2>5 DEF row
<1>9. ASSUME NEW row \in Rows PROVE Falls_to(source[row], row)
  <2>1. BOARD_Y - row \in 1 .. BOARD_Y /\ BOARD_Y - (BOARD_Y - row) = row
    BY <1>1 DEF Rows
  <2>2. BOARD_Y - row \notin T
    BY <1>8
  <2>3. Falls_to(source[BOARD_Y - (BOARD_Y - row)], BOARD_Y - (BOARD_Y - row))
    BY <2>1, <2>2
  <2> QED
    BY <2>1, <2>3
<1> QED
  BY <1>9

-----------------------------------------------------------------------------
\* A board without the full lines has no full line.
LEMMA ClearedBoard ==
    ASSUME gameboard \in [Board -> Colours], full_lines = Full(gameboard)
    PROVE  cleared_board \in [Board -> Colours] /\ Full(cleared_board) = {}
<1>1. \A c \in Board : c = <<c[1], c[2]>> /\ c[1] \in Columns /\ c[2] \in Rows
  BY DEF Board
<1>2. \A row \in Rows : source[row] < 0 \/ source[row] \in Rows \ full_lines
  <2>1. full_lines \subseteq Rows
    BY DEF Full
  <2> QED
    BY <2>1, SourceRow DEF Falls_to
<1>3. cleared_board \in [Board -> Colours]
  <2>1. ASSUME NEW c \in Board
        PROVE  (IF source[c[2]] < 0 THEN P_E ELSE gameboard[<<c[1], source[c[2]]>>]) \in Colours
    <3>1. CASE source[c[2]] < 0
      BY <3>1 DEF Colours
    <3>2. CASE ~(source[c[2]] < 0)
      <4>1. <<c[1], source[c[2]]>> \in Board
        BY <1>1, <1>2, <3>2 DEF Board
      <4> QED
        BY <3>2, <4>1
    <3> QED
      BY <3>1, <3>2
  <2> QED
    BY <2>1 DEF cleared_board
<1>4. ASSUME NEW r \in Rows PROVE \E col \in Columns : cleared_board[<<col, r>>] = P_E
  <2>1. \A col \in Columns :
          cleared_board[<<col, r>>] =
              IF source[r] < 0 THEN P_E ELSE gameboard[<<col, source[r]>>]
    BY DEF cleared_board, Board
  <2>2. CASE source[r] < 0
    <3>1. 0 \in Columns
      BY PiecesFacts DEF Columns
    <3> QED
      BY <2>1, <2>2, <3>1
  <2>3. CASE ~(source[r] < 0)
    <3>1. source[r] \in Rows /\ source[r] \notin Full(gameboard)
      BY <1>2, <2>3
    <3>2. PICK col \in Columns : gameboard[<<col, source[r]>>] = P_E
      BY <3>1 DEF Full
    <3> QED
      BY <2>1, <2>3, <3>2
  <2> QED
    BY <2>2, <2>3
<1> QED
  BY <1>3, <1>4 DEF Full

LEMMA FlashInv == ASSUME IInv, NEW keys, Flash(keys) PROVE IInv'
<1> DEFINE toggles == flash_ticks + 1 > TICKS_PER_FLASH
           count == IF toggles THEN flash_count + 1 ELSE flash_count
           flashed == {c \in Board : c[2] \in full_lines}
<1>1. /\ flash_count' = count
      /\ UNCHANGED <<current_piece, current_rotation, x, y, next_piece, ticks, full_lines>>
  BY DEF Flash, piece
<1>2. GameTypeOK /\ FlashingFull /\ state_pause_prev # "PAUSE"
  BY DEF IInv, BoardConsistent, GameTypeOK
<1>3. CASE count >= NUM_FLASHES
  <2>1. /\ Round(keys, "FLASH", "SPAWN")
        /\ gameboard' = cleared_board /\ screen' = cleared_board
        /\ ticks_per_drop' = ticks_per_drop \/ ticks_per_drop' = Faster
    BY <1>3 DEF Flash, screen_of
  <2>2. Playing = "FLASH" /\ Playing' = "SPAWN" /\ state_pause_prev' # "PAUSE"
    BY <1>2, <2>1, RoundPlays
  <2>3. full_lines = Full(gameboard) /\ flash_count < NUM_FLASHES
    BY <1>2, <2>2 DEF FlashingFull
  <2>4. gameboard' \in [Board -> Colours] /\ screen' = gameboard' /\ Full(gameboard') = {}
    BY <1>2, <2>1, <2>3, ClearedBoard DEF GameTypeOK
  <2>5. ticks_per_drop' \in MIN_TICKS .. TICKS_PER_DROP
    BY <1>2, <2>1, PiecesFacts DEF GameTypeOK, Faster
  <2>6. flash_count' \in 0 .. NUM_FLASHES
    BY <1>1, <1>2, <2>3, PiecesFacts DEF GameTypeOK
  <2>7. screen' \in [Board -> Colours \cup {WHITE}]
    BY <2>4
  <2>8. GameTypeOK'
    BY <1>1, <1>2, <2>2, <2>4, <2>5, <2>6, <2>7 DEF GameTypeOK
  <2> QED
    BY <2>2, <2>4, <2>8
       DEF IInv, BoardConsistent, PieceFits, ScreenShowsBoard, NoFullLine, PieceKnown, FlashingFull
<1>4. CASE ~(count >= NUM_FLASHES)
  <2>1. /\ Round(keys, "FLASH", "FLASH")
        /\ screen' = [c \in Board |->
               IF c \in flashed /\ toggles
               THEN IF count % 2 = 1 THEN WHITE ELSE gameboard[c]
               ELSE screen[c]]
        /\ UNCHANGED <<gameboard, ticks_per_drop>>
    BY <1>4 DEF Flash
  <2>2. Playing = "FLASH" /\ Playing' = "FLASH" /\ state_pause_prev' # "PAUSE"
    BY <1>2, <2>1, RoundPlays
  <2>3. screen' \in [Board -> Colours \cup {WHITE}]
    <3> HIDE DEF count, toggles, flashed
    <3> QED
      BY <1>2, <2>1 DEF GameTypeOK
  <2>4. flash_count' \in 0 .. NUM_FLASHES /\ flash_count' < NUM_FLASHES
    BY <1>1, <1>2, <1>4, PiecesFacts DEF GameTypeOK
  <2>5. GameTypeOK'
    <3> HIDE DEF count, toggles, flashed
    <3> QED
      BY <1>1, <1>2, <2>1, <2>2, <2>3, <2>4 DEF GameTypeOK
  <2>6. FlashingFull'
    BY <1>1, <1>2, <2>1, <2>2, <2>4 DEF FlashingFull, Full
  <2> QED
    BY <2>2, <2>5, <2>6 DEF IInv, BoardConsistent, PieceFits, ScreenShowsBoard, NoFullLine, PieceKnown
<1> QED
  BY <1>3, <1>4

LEMMA NextInv == ASSUME IInv, [GameNext]_game_vars PROVE IInv'
<1>1. ASSUME UNCHANGED game_vars PROVE IInv'
  BY <1>1 DEF game_vars, IInv, BoardConsistent, GameTypeOK, PieceFits, ScreenShowsBoard, NoFullLine,
     PieceKnown, FlashingFull, Playing, Falling, Cells, Occupied, Full, Painted, piece, flash
<1>2. ASSUME update PROVE IInv'
  BY <1>2, QuitInv, SpawnInv, ShiftDownInv, LineCheckInv, FlashInv, RestInv DEF update
<1> QED
  BY <1>1, <1>2, NewGameInv DEF GameNext

\* The board of tetris and its screen agree in every round of the game loop.
THEOREM GameInvariance == GameSpec => []IInv
<1>1. GameInit => IInv
  BY InitInv
<1>2. IInv /\ [GameNext]_game_vars => IInv'
  BY NextInv
<1> QED
  BY <1>1, <1>2, PTL DEF GameSpec

\* Whatever piece rand() chooses and whatever keys handle_actions finds, the
\* falling piece is on the board and over empty cells, the screen shows the board
\* and the piece, no full line is left when a piece is spawned, and the rate at
\* which it falls stays within its limits.
THEOREM BoardHolds == GameSpec => []BoardConsistent
<1>1. IInv => BoardConsistent
  BY DEF IInv
<1> QED
  BY <1>1, GameInvariance, PTL

-----------------------------------------------------------------------------
(* How the board changes *)

\* clear_lines copies each line that stays to the row it falls to, and nothing to
\* as many rows at the top as there are full lines.
LEMMA CopiedLines ==
    ASSUME full_lines \subseteq Rows
    PROVE  /\ \A r \in Rows \ full_lines :
                  LET t == r + below(full_lines, r) IN t \in Rows /\ source[t] = r
           /\ \A r \in 0 .. Cardinality(full_lines) - 1 : r \in Rows /\ source[r] = -1
<1> DEFINE b(r) == below(full_lines, r)
           n == Cardinality(full_lines)
<1>1. BOARD_Y \in Nat \ {0} /\ \A r : r \in Rows <=> r \in 0 .. BOARD_Y - 1
  BY PiecesFacts DEF Rows
<1>2. b(-1) = n /\ b(BOARD_Y - 1) = 0
  BY BelowEnds
<1>3. \A q, r \in Int : q <= r =>
          /\ b(q) \in Nat /\ b(r) \in Nat
          /\ \E m \in 0 .. r - q :
                 b(q) = b(r) + m /\ ((\E k \in q + 1 .. r : k \notin full_lines) => m < r - q)
  BY BelowSplit
<1>4. \A row \in Rows :
          \/ source[row] \in Rows \ full_lines /\ source[row] + b(source[row]) = row
          \/ source[row] = -1 /\ row < n
  BY SourceRow DEF Falls_to
<1> HIDE DEF b, n
<1>5. \A q \in Int, r \in Rows \ full_lines :
          q < r => b(q) < b(r) + (r - q) /\ b(q) \in Nat /\ b(r) \in Nat
  <2> SUFFICES ASSUME NEW q \in Int, NEW r \in Rows \ full_lines, q < r
               PROVE  b(q) < b(r) + (r - q) /\ b(q) \in Nat /\ b(r) \in Nat
    OBVIOUS
  <2>1. r \in Int /\ r \in q + 1 .. r /\ r \notin full_lines /\ q <= r
    BY <1>1
  <2>2. b(q) \in Nat /\ b(r) \in Nat
    BY <1>3, <2>1, Zenon
  <2>3. PICK m \in 0 .. r - q : b(q) = b(r) + m /\ m < r - q
    BY <1>3, <2>1
  <2> QED
    BY <2>1, <2>2, <2>3
<1>6. n \in Nat
  BY <1>2, <1>3
<1>7. ASSUME NEW r \in Rows \ full_lines PROVE r + b(r) \in Rows /\ source[r + b(r)] = r
  <2> DEFINE t == r + b(r)
             q == source[t]
  <2>1. r \in 0 .. BOARD_Y - 1
    BY <1>1
  <2>2. b(r) \in 0 .. BOARD_Y - 1 - r
    <3>1. BOARD_Y - 1 \in Int /\ r \in Int /\ r <= BOARD_Y - 1
      BY <1>1, <2>1
    <3>2. PICK m \in 0 .. BOARD_Y - 1 - r : b(r) = b(BOARD_Y - 1) + m
      BY <1>3, <3>1
    <3> QED
      BY <1>2, <3>2
  <2>3. t \in 0 .. BOARD_Y - 1
    BY <1>1, <2>1, <2>2
  <2>4. t \in Rows
    BY <1>1, <2>3
  <2> HIDE DEF q
  <2>5. ~(q = -1 /\ t < n)
    <3>1. b(-1) < b(r) + (r - (-1))
      BY <1>5, <2>1
    <3> QED
      BY <1>2, <1>6, <2>1, <2>2, <3>1
  <2>6. q \in Rows \ full_lines /\ q + b(q) = t
    BY <1>4, <2>4, <2>5 DEF q
  <2>7. q \in Int /\ r \in Int
    BY <1>1, <2>1, <2>6
  <2>8. ~(q < r)
    <3> SUFFICES ASSUME q < r PROVE FALSE
      OBVIOUS
    <3>1. b(q) < b(r) + (r - q) /\ b(q) \in Nat /\ b(r) \in Nat
      BY <1>5, <2>7
    <3> QED
      BY <2>6, <2>7, <3>1
  <2>9. ~(r < q)
    <3> SUFFICES ASSUME r < q PROVE FALSE
      OBVIOUS
    <3>1. b(r) < b(q) + (q - r) /\ b(q) \in Nat /\ b(r) \in Nat
      BY <1>5, <2>6, <2>7
    <3> QED
      BY <2>6, <2>7, <3>1
  <2> QED
    BY <2>4, <2>7, <2>8, <2>9 DEF q
<1>8. ASSUME NEW r \in 0 .. n - 1 PROVE r \in Rows /\ source[r] = -1
  <2>1. n <= BOARD_Y
    <3>1. -1 \in Int /\ BOARD_Y - 1 \in Int /\ -1 <= BOARD_Y - 1
      BY <1>1
    <3>2. PICK m \in 0 .. BOARD_Y - 1 - (-1) : b(-1) = b(BOARD_Y - 1) + m
      BY <1>3, <3>1
    <3> QED
      BY <1>1, <1>2, <3>2
  <2>2. r \in Rows
    BY <1>1, <1>6, <2>1
  <2> DEFINE q == source[r]
  <2> HIDE DEF q
  <2>3. ~(q \in Rows \ full_lines /\ q + b(q) = r)
    <3> SUFFICES ASSUME q \in Rows \ full_lines, q + b(q) = r PROVE FALSE
      OBVIOUS
    <3>1. q \in Int /\ -1 < q
      BY <1>1
    <3>2. b(-1) < b(q) + (q - (-1)) /\ b(q) \in Nat
      BY <1>5, <3>1
    <3> QED
      BY <1>2, <1>6, <3>1, <3>2
  <2> QED
    BY <1>4, <2>2, <2>3 DEF q
<1> QED
  BY <1>7, <1>8 DEF b, n

\* So what is left of the board is what falls.
LEMMA ClearedLines ==
    ASSUME full_lines = Full(gameboard)
    PROVE  /\ \A r \in Rows \ Full(gameboard) :
                  Line(cleared_board, r + below(Full(gameboard), r)) = Line(gameboard, r)
           /\ \A r \in 0 .. Cardinality(Full(gameboard)) - 1 : Line(cleared_board, r) = Empty
<1>1. full_lines \subseteq Rows
  BY DEF Full
<1>2. \A row \in Rows : \A col \in Columns :
          cleared_board[<<col, row>>] =
              IF source[row] < 0 THEN P_E ELSE gameboard[<<col, source[row]>>]
  BY DEF cleared_board, Board
<1>3. ASSUME NEW r \in Rows \ full_lines
      PROVE  Line(cleared_board, r + below(full_lines, r)) = Line(gameboard, r)
  <2> DEFINE t == r + below(full_lines, r)
  <2>1. t \in Rows /\ source[t] = r
    BY <1>1, CopiedLines
  <2>2. ~(r < 0)
    BY PiecesFacts DEF Rows
  <2> HIDE DEF t
  <2>3. \A col \in Columns : cleared_board[<<col, t>>] = gameboard[<<col, r>>]
    BY <1>2, <2>1, <2>2
  <2> QED
    BY <2>3 DEF Line, t
<1>4. ASSUME NEW r \in 0 .. Cardinality(full_lines) - 1 PROVE Line(cleared_board, r) = Empty
  <2>1. r \in Rows /\ source[r] < 0
    <3>1. r \in Rows /\ source[r] = -1
      BY <1>1, CopiedLines
    <3> QED
      BY <3>1
  <2>2. \A col \in Columns : cleared_board[<<col, r>>] = P_E
    BY <1>2, <2>1
  <2> QED
    BY <2>2 DEF Line, Empty
<1> QED
  BY <1>3, <1>4

\* A piece has four cells, wherever it is.
LEMMA FourCells ==
    ASSUME NEW p \in PieceNames, NEW rotation \in 0 .. 3, NEW ox \in Int, NEW oy \in Int
    PROVE  /\ IsFiniteSet(Cells(ox, oy, rotation, p))
           /\ Cardinality(Cells(ox, oy, rotation, p)) = 4
<1> DEFINE D == block_offsets[p][rotation + 1]
           C == Cells(ox, oy, rotation, p)
           f == [d \in D |-> <<ox + d[1], oy + d[2]>>]
<1>1. rotation + 1 \in 1 .. 4
  OBVIOUS
<1>2. IsFiniteSet(D) /\ Cardinality(D) = 4 /\ D \subseteq Int \X Int
  BY <1>1, HasShape DEF Shapes
<1>3. C = {<<ox + d[1], oy + d[2]>> : d \in D}
  BY DEF Cells
<1> HIDE DEF D, C
<1>4. \A d \in D : d = <<d[1], d[2]>> /\ d[1] \in Int /\ d[2] \in Int
  BY <1>2
<1>5. \A c, d \in D : f[c] = f[d] => c = d
  <2> SUFFICES ASSUME NEW c \in D, NEW d \in D, f[c] = f[d] PROVE c = d
    OBVIOUS
  <2>1. ox + c[1] = ox + d[1] /\ oy + c[2] = oy + d[2]
    OBVIOUS
  <2>2. c[1] = d[1] /\ c[2] = d[2]
    BY <1>4, <2>1
  <2> QED
    BY <1>4, <2>2
<1>6. f \in [D -> C] /\ \A c \in C : \E d \in D : f[d] = c
  BY <1>3
<1> HIDE DEF f
<1>7. f \in Bijection(D, C)
  BY <1>5, <1>6 DEF Bijection, Injection, Surjection, IsInjective
<1>8. ExistsBijection(D, C)
  BY <1>7 DEF ExistsBijection
<1> QED
  BY <1>2, <1>8, FS_Bijection DEF C

\* A step that leaves the board alone
LEMMA BoardKept ==
    ASSUME UNCHANGED gameboard, Playing # "SHIFT_DOWN" \/ Playing' # "LINE_CHECK",
           Playing # "FLASH" \/ Playing' # "SPAWN"
    PROVE  BoardChange
BY Zenon DEF BoardChange

\* A piece fits where its cells are free.
LEMMA FitsFree ==
    \A ox, oy, rotation, p :
        Fits(ox, oy, rotation, p) <=> Cells(ox, oy, rotation, p) \subseteq Board \ Occupied(gameboard)
BY DEF Fits, Occupied

LEMMA ShiftDownBoard == ASSUME IInv, NEW keys, ShiftDown(keys) PROVE BoardChange
<1> DEFINE m == Moves(keys)
           held == \E c \in Cells(m.x, m.y + 1, m.rotation, current_piece) :
                       \/ c \notin Board
                       \/ gameboard[c] # P_E
                       \/ m.dropped /\ c \in Landed(m, 0)
           down == IF Falls /\ ~held THEN 1 ELSE 0
           placed == m.dropped \/ (Falls /\ held)
<1>1. /\ Round(keys, "SHIFT_DOWN", IF placed THEN "LINE_CHECK" ELSE "SHIFT_DOWN")
      /\ gameboard' = IF placed THEN Painted(gameboard, Landed(m, 0), current_piece) ELSE gameboard
      /\ x' = m.x /\ y' = m.y + down /\ current_rotation' = m.rotation
      /\ current_piece' = current_piece
  BY Zenon DEF ShiftDown
<1>2. GameTypeOK /\ PieceFits /\ PieceKnown /\ state_pause_prev # "PAUSE"
  BY DEF IInv, BoardConsistent, GameTypeOK
<1>3. Playing = "SHIFT_DOWN" /\ Playing' = IF placed THEN "LINE_CHECK" ELSE "SHIFT_DOWN"
  <2>1. (IF placed THEN "LINE_CHECK" ELSE "SHIFT_DOWN") # "PAUSE"
    OBVIOUS
  <2> HIDE DEF placed
  <2> QED
    BY <1>1, <1>2, <2>1, RoundPlays
<1>4. CASE ~placed
  <2>1. UNCHANGED gameboard /\ Playing = "SHIFT_DOWN" /\ Playing' = "SHIFT_DOWN"
    BY <1>1, <1>3, <1>4
  <2> QED
    BY <2>1, BoardKept
<1>5. CASE placed
  <2>1. current_piece \in Pieces /\ current_piece \in PieceNames
    BY <1>2, <1>3, PiecesFacts DEF PieceKnown
  <2>2. /\ x \in Int /\ y \in Int /\ current_rotation \in 0 .. 3
    BY <1>2 DEF GameTypeOK
  <2>3. Fits(x, y, current_rotation, current_piece)
    BY <1>2, <1>3, OverFits DEF PieceFits
  <2>4. /\ m.x \in Int /\ m.y \in Int /\ m.rotation \in 0 .. 3
        /\ Fits(m.x, m.y, m.rotation, current_piece)
        /\ m.dropped => ~Fits(m.x, m.y + 1, m.rotation, current_piece)
    BY <2>1, <2>2, <2>3, MovesFit, Zenon DEF m
  <2> HIDE DEF m
  <2>5. ~Fits(m.x, m.y + 1, m.rotation, current_piece) /\ held
    <3>1. CASE m.dropped
      <4>1. ~Fits(m.x, m.y + 1, m.rotation, current_piece)
        BY <2>4, <3>1
      <4> QED
        BY <4>1, Zenon DEF Fits
    <3>2. CASE ~m.dropped /\ held
      BY <3>2, Zenon DEF Fits
    <3> QED
      BY <1>5, <3>1, <3>2
  <2>6. m.y + 0 = m.y /\ y' = m.y
    BY <1>1, <2>4, <2>5
  <2>7. Landed(m, 0) = Cells(m.x, m.y, m.rotation, current_piece)
    BY <2>6, Zenon DEF Landed
  <2>8. Falling' = Cells(m.x, m.y, m.rotation, current_piece)
    BY <1>1, <2>6 DEF Falling, Cells
  <2>9. gameboard' = Painted(gameboard, Falling', current_piece)
    BY <1>1, <1>5, <2>7, <2>8, Zenon
  <2>10. Cardinality(Falling') = 4
    BY <2>1, <2>4, <2>8, FourCells, Zenon
  <2>11. /\ Falling' \subseteq Board \ Occupied(gameboard)
         /\ ~(Cells(x', y' + 1, current_rotation', current_piece) \subseteq Board \ Occupied(gameboard))
    <3>1. Cells(x', y' + 1, current_rotation', current_piece)
            = Cells(m.x, m.y + 1, m.rotation, current_piece)
      BY <1>1, <2>6, Zenon
    <3> QED
      BY <2>4, <2>5, <2>8, <3>1, FitsFree, Zenon
  <2>12. Lands
    BY <1>1, <2>9, <2>10, <2>11, Zenon DEF Lands
  <2> QED
    BY <1>3, <1>5, <2>12, Zenon DEF BoardChange
<1> QED
  BY <1>4, <1>5

LEMMA FlashBoard == ASSUME IInv, NEW keys, Flash(keys) PROVE BoardChange
<1> DEFINE count == IF flash_ticks + 1 > TICKS_PER_FLASH THEN flash_count + 1 ELSE flash_count
<1>1. FlashingFull /\ state_pause_prev # "PAUSE"
  BY DEF IInv, BoardConsistent, GameTypeOK
<1>2. CASE count >= NUM_FLASHES
  <2>1. Round(keys, "FLASH", "SPAWN") /\ gameboard' = cleared_board
    BY <1>2 DEF Flash
  <2>2. Playing = "FLASH" /\ Playing' = "SPAWN"
    BY <1>1, <2>1, RoundPlays
  <2>3. full_lines = Full(gameboard)
    BY <1>1, <2>2 DEF FlashingFull
  <2>4. ClearsFullLines
    BY <2>1, <2>3, ClearedLines, Zenon DEF ClearsFullLines
  <2> QED
    BY <2>2, <2>4, Zenon DEF BoardChange
<1>3. CASE ~(count >= NUM_FLASHES)
  <2>1. Round(keys, "FLASH", "FLASH") /\ UNCHANGED gameboard
    BY <1>3 DEF Flash
  <2>2. Playing' = "FLASH" /\ Playing = "FLASH"
    BY <1>1, <2>1, RoundPlays
  <2> QED
    BY <2>1, <2>2, BoardKept
<1> QED
  BY <1>2, <1>3

LEMMA BoardStep == ASSUME IInv, GameNext, ~quit PROVE BoardChange
<1>1. PICK keys \in KeySets : \/ Quit(keys) \/ Spawn(keys) \/ ShiftDown(keys)
                              \/ LineCheck(keys) \/ Flash(keys) \/ Rest(keys)
  BY DEF GameNext, update, NewGame
<1>2. state_pause_prev # "PAUSE"
  BY DEF IInv, BoardConsistent, GameTypeOK
<1>3. CASE Quit(keys)
  <2>1. UNCHANGED gameboard /\ Playing' = Playing
    BY <1>3 DEF Quit, Playing
  <2> QED
    BY <2>1, BoardKept
<1>4. CASE Spawn(keys)
  <2>1. UNCHANGED gameboard /\ (Round(keys, "SPAWN", "GAME_OVER") \/ Round(keys, "SPAWN", "SHIFT_DOWN"))
    BY <1>4 DEF Spawn
  <2>2. Playing = "SPAWN" /\ Playing' \in {"GAME_OVER", "SHIFT_DOWN"}
    BY <1>2, <2>1, RoundPlays
  <2> QED
    BY <2>1, <2>2, BoardKept
<1>5. CASE LineCheck(keys)
  <2>1. UNCHANGED gameboard /\ (Round(keys, "LINE_CHECK", "FLASH") \/ Round(keys, "LINE_CHECK", "SPAWN"))
    BY <1>5 DEF LineCheck
  <2>2. Playing = "LINE_CHECK"
    BY <1>2, <2>1, RoundPlays
  <2> QED
    BY <2>1, <2>2, BoardKept
<1>6. CASE Rest(keys)
  <2>1. UNCHANGED gameboard /\ Playing' = Playing
    BY <1>2, <1>6, RoundRests DEF Rest
  <2> QED
    BY <2>1, BoardKept
<1> QED
  BY <1>1, <1>3, <1>4, <1>5, <1>6, ShiftDownBoard, FlashBoard

\* A piece that lands changes four free cells of the board to its colour, where it
\* could fall no further, also when place_current_block_on_board is called twice
\* for it; clear_lines removes the full lines and lets each other line fall by as
\* many as went below it; no other step changes any cell of the board.
THEOREM BoardChangesRightly == GameSpec => BoardChanges
<1>1. IInv /\ [GameNext]_game_vars => [~quit => BoardChange]_game_vars
  BY BoardStep
<1> QED
  BY <1>1, GameInvariance, PTL DEF GameSpec, BoardChanges
=============================================================================
