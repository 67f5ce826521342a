--------------------------- MODULE SpriteLoopProofs ---------------------------
(***************************************************************************)
(* TLAPS proofs that the pixel loop of OP_DRAW computes the closed form that  *)
(* Interp, Jit and Recomp draw a sprite by, for every register value, sprite  *)
(* and screen.                                                             *)
(***************************************************************************)
EXTENDS SpriteLoop, Lemmas

-----------------------------------------------------------------------------
(* The positions of the closed form.                                        *)

LEMMA Modulo ==
  ASSUME NEW a \in Byte
  PROVE  a % FrameWidth \in 0..63
  BY DEF Byte, FrameWidth

LEMMA FirstColumn ==
  ASSUME NEW a \in 0..63
  PROVE  TargetColumn(a, 0, 0) = a
  BY DEF TargetColumn, FrameWidth

LEMMA NextColumn ==
  ASSUME NEW a \in 0..63, NEW r \in 0..15, NEW j \in 0..7
  PROVE  (TargetColumn(a, r, j) + 1) % FrameWidth = TargetColumn(a, r, j + 1)
  BY DEF TargetColumn, FrameWidth

LEMMA RewoundColumn ==
  ASSUME NEW a \in 0..63, NEW r \in 0..15
  PROVE  (TargetColumn(a, r, 8) - 8) % 256 = TargetColumn(a, r + 1, 0)
  BY DEF TargetColumn, FrameWidth

LEMMA NextLine ==
  ASSUME NEW b \in 0..63, NEW r \in 0..15
  PROVE  (TargetRow(b, r) + 1) % FrameHeight = TargetRow(b, r + 1)
  BY DEF TargetRow, FrameHeight

Start == 0..63
SpriteRow == 0..14
SpriteColumn == 0..7

\* The column and the line of a cell, once the columns behind the right edge are
\* counted as further lines.
CellColumn(a, j) == (a + j) % 64

CellLine(a, b, r, j) == TargetRow(b, r) + (IF r > 0 /\ j = 0 /\ a + 8 >= 64 THEN 3 ELSE 0)

LEMMA TargetIsCell ==
  ASSUME NEW a \in Start, NEW b \in Start, NEW r \in SpriteRow, NEW j \in SpriteColumn
  PROVE  /\ CellColumn(a, j) \in Start /\ CellLine(a, b, r, j) \in Nat
         /\ Target(a, b, r, j) = CellColumn(a, j) + CellLine(a, b, r, j) * 64
  <1> USE DEF Start, SpriteRow, SpriteColumn
  <1>1. TargetRow(b, r) \in Nat
    BY DEF TargetRow, FrameHeight
  <1>2. CellColumn(a, j) \in 0..63 /\ CellLine(a, b, r, j) \in Nat
    BY <1>1 DEF CellColumn, CellLine
  <1>3. CASE r > 0 /\ j = 0 /\ a + 8 >= 64
    <2>1. TargetColumn(a, r, j) = CellColumn(a, j) + 192
      BY <1>3 DEF TargetColumn, CellColumn, FrameWidth
    <2>2. CellLine(a, b, r, j) = TargetRow(b, r) + 3
      BY <1>3 DEF CellLine
    <2>3. QED
      BY <1>1, <1>2, <2>1, <2>2 DEF Target, FrameWidth
  <1>4. CASE ~(r > 0 /\ j = 0 /\ a + 8 >= 64)
    <2>1. TargetColumn(a, r, j) = CellColumn(a, j)
      BY <1>4 DEF TargetColumn, CellColumn, FrameWidth
    <2>2. CellLine(a, b, r, j) = TargetRow(b, r)
      BY <1>1, <1>4 DEF CellLine
    <2>3. QED
      BY <1>1, <1>2, <2>1, <2>2 DEF Target, FrameWidth
  <1>5. QED
    BY <1>2, <1>3, <1>4

LEMMA DistinctLines ==
  ASSUME NEW a \in Start, NEW b \in Start, NEW j \in SpriteColumn,
         NEW r \in SpriteRow, NEW s \in SpriteRow,
         CellLine(a, b, r, j) = CellLine(a, b, s, j)
  PROVE  r = s
  BY DEF CellLine, TargetRow, FrameHeight, Start, SpriteRow, SpriteColumn

\* The loop visits no pixel twice, whatever wraps around.
LEMMA DistinctTargets ==
  ASSUME NEW a \in Start, NEW b \in Start,
         NEW r \in SpriteRow, NEW j \in SpriteColumn,
         NEW s \in SpriteRow, NEW k \in SpriteColumn,
         Target(a, b, r, j) = Target(a, b, s, k)
  PROVE  r = s /\ j = k
  <1>1. ASSUME NEW p \in 0..63, NEW q \in 0..63, NEW m \in Nat, NEW n \in Nat,
               p + m * 64 = q + n * 64
        PROVE  p = q /\ m = n
    <2>1. ~(m + 1 <= n) /\ ~(n + 1 <= m)
      BY <1>1
    <2>2. m = n
      BY <2>1
    <2>3. QED
      BY <1>1, <2>2
  <1>2. CellColumn(a, j) = CellColumn(a, k) /\ CellLine(a, b, r, j) = CellLine(a, b, s, k)
    <2>1. /\ CellColumn(a, j) \in Start /\ CellLine(a, b, r, j) \in Nat
          /\ Target(a, b, r, j) = CellColumn(a, j) + CellLine(a, b, r, j) * 64
      BY TargetIsCell
    <2>2. /\ CellColumn(a, k) \in Start /\ CellLine(a, b, s, k) \in Nat
          /\ Target(a, b, s, k) = CellColumn(a, k) + CellLine(a, b, s, k) * 64
      BY TargetIsCell
    <2>3. CellColumn(a, j) + CellLine(a, b, r, j) * 64 = CellColumn(a, k) + CellLine(a, b, s, k) * 64
      BY <2>1, <2>2
    <2>4. PICK p \in 0..63, q \in 0..63, m \in Nat, n \in Nat :
             /\ p = CellColumn(a, j) /\ q = CellColumn(a, k)
             /\ m = CellLine(a, b, r, j) /\ n = CellLine(a, b, s, k)
      BY <2>1, <2>2 DEF Start
    <2>5. p + m * 64 = q + n * 64
      BY <2>3, <2>4
    <2>6. p = q /\ m = n
      BY <1>1, <2>5
    <2>7. QED
      BY <2>4, <2>6
  <1>3. j = k
    BY <1>2 DEF CellColumn, Start, SpriteColumn
  <1>4. QED
    BY <1>2, <1>3, DistinctLines

-----------------------------------------------------------------------------
(* The invariant of the loop.                                               *)

\* The cells that the loop has done, and the pixels that it flipped for them.
Visited == { c \in SpriteCells(Len(sprite)) : c[1] < row \/ (c[1] = row /\ c[2] < col) }

IsLit(c) == (7 - c[2]) \in Bits(sprite[c[1] + 1])

At(c) == Target(X0, Y0, c[1], c[2])

LitAt(C) == { At(c) : c \in { d \in C : IsLit(d) } }

GivenOK ==
    /\ X0 \in 0..63 /\ Y0 \in 0..63
    /\ sprite \in Seq(Byte) /\ Len(sprite) \in 0..15
    /\ screen \subseteq Pixels

PositionOK ==
    /\ row \in 0..Len(sprite) /\ col \in 0..8
    /\ row = Len(sprite) => col = 0
    /\ xPos = TargetColumn(X0, row, col)
    /\ yPos = TargetRow(Y0, row)

ScreenOK ==
    /\ \A c \in Visited : At(c) \in Pixels
    /\ fb = Flip(screen, LitAt(Visited))
    /\ vf = IF LitAt(Visited) \cap screen # {} THEN 1 ELSE 0

EndOK ==
    /\ status \in {"drawing", "done", "wild"}
    /\ status = "done" => row = Len(sprite)
    /\ status = "wild" => row < Len(sprite) /\ col < 8 /\ target \notin Pixels

LoopInv == GivenOK /\ PositionOK /\ ScreenOK /\ EndOK

LEMMA GivenFacts ==
  GivenOK => /\ Len(sprite) \in Nat
             /\ \A r \in 0..(Len(sprite) - 1) : r \in 0..14
             /\ \A r \in 0..Len(sprite) : r < Len(sprite) => r \in 0..14 /\ r \in 0..(Len(sprite) - 1)
  <1>1. \A n \in 0..15 :
          /\ n \in Nat
          /\ \A r \in 0..(n - 1) : r \in 0..14
          /\ \A r \in 0..n : r < n => r \in 0..14 /\ r \in 0..(n - 1)
    OBVIOUS
  <1>2. QED
    BY <1>1 DEF GivenOK

LEMMA VisitedCells ==
  ASSUME GivenOK, NEW c \in Visited
  PROVE  /\ c[1] \in 0..14 /\ c[2] \in 0..7
         /\ c[1] < row \/ (c[1] = row /\ c[2] < col)
         /\ c = <<c[1], c[2]>>
  <1>1. c \in (0..(Len(sprite) - 1)) \X (0..7)
    BY DEF Visited, SpriteCells
  <1>2. c[1] \in 0..(Len(sprite) - 1) /\ c[2] \in 0..7 /\ c = <<c[1], c[2]>>
    BY <1>1
  <1>3. QED
    BY <1>2, GivenFacts DEF Visited

LEMMA InitInv == Init => LoopInv
  <1> SUFFICES ASSUME Init PROVE LoopInv
    OBVIOUS
  <1>1. GivenOK
    <2>1. x \in Byte /\ y \in Byte /\ sprite \in Seq(Byte) /\ Len(sprite) \in 0..15
          /\ screen \subseteq Pixels
      BY LoopAssumption DEF Init
    <2>2. QED
      BY <2>1, Modulo DEF GivenOK, X0, Y0
  <1>2. PositionOK
    <2>1. row = 0 /\ col = 0 /\ xPos = X0 /\ yPos = Y0
      BY DEF Init, X0, Y0
    <2>2. TargetColumn(X0, 0, 0) = X0 /\ TargetRow(Y0, 0) = Y0
      BY <1>1, FirstColumn DEF GivenOK, TargetRow
    <2>3. QED
      BY <1>1, <2>1, <2>2 DEF PositionOK, GivenOK
  <1>3. Visited = {}
    BY <1>1, VisitedCells DEF Init
  <1>4. LitAt(Visited) = {}
    BY <1>3 DEF LitAt
  <1>5. ScreenOK
    BY <1>3, <1>4 DEF ScreenOK, Init, Flip
  <1>6. EndOK
    BY DEF Init, EndOK
  <1>7. QED
    BY <1>1, <1>2, <1>5, <1>6 DEF LoopInv

\* Where the loop stands, it is about to visit the next cell.
LEMMA Position ==
  ASSUME GivenOK, PositionOK, row < Len(sprite), col < 8
  PROVE  /\ row \in 0..14 /\ col \in 0..7 /\ <<row, col>> \in SpriteCells(Len(sprite))
         /\ target = At(<<row, col>>)
  <1>1. row \in 0..14 /\ col \in 0..7 /\ <<row, col>> \in SpriteCells(Len(sprite))
    <2>1. row \in 0..14 /\ row \in 0..(Len(sprite) - 1)
      BY GivenFacts DEF PositionOK
    <2>2. col \in 0..7
      BY DEF PositionOK
    <2>3. QED
      BY <2>1, <2>2 DEF SpriteCells
  <1>2. target = At(<<row, col>>)
    BY DEF target, At, Target, PositionOK
  <1>3. QED
    BY <1>1, <1>2

LEMMA PixelInv == LoopInv /\ DrawPixel => LoopInv'
  <1> SUFFICES ASSUME LoopInv, DrawPixel PROVE LoopInv'
    OBVIOUS
  <1> DEFINE here == <<row, col>>
  <1>1. /\ GivenOK /\ PositionOK /\ ScreenOK
        /\ row < Len(sprite) /\ col < 8 /\ target \in Pixels
        /\ row' = row /\ col' = col + 1 /\ yPos' = yPos /\ status' = "drawing"
        /\ xPos' = (xPos + 1) % FrameWidth
        /\ UNCHANGED <<x, y, sprite, screen>>
    BY DEF LoopInv, DrawPixel, given
  <1>2. /\ row \in 0..14 /\ col \in 0..7 /\ here \in SpriteCells(Len(sprite))
        /\ target = At(here)
    BY <1>1, Position
  <1>3. GivenOK'
    BY <1>1 DEF GivenOK, X0, Y0
  <1>4. PositionOK'
    <2>1. xPos' = TargetColumn(X0, row, col + 1)
      <3>1. X0 \in 0..63 /\ row \in 0..15 /\ xPos = TargetColumn(X0, row, col)
        BY <1>1, <1>2 DEF GivenOK, PositionOK
      <3>2. QED
        BY <1>1, <1>2, <3>1, NextColumn
    <2>2. QED
      BY <1>1, <1>2, <2>1 DEF GivenOK, PositionOK, X0, Y0
  <1>5. Visited' = Visited \cup {here}
    <2>1. Visited' = { c \in SpriteCells(Len(sprite)) :
                         c[1] < row \/ (c[1] = row /\ c[2] < col + 1) }
      BY <1>1 DEF Visited
    <2>2. ASSUME NEW c \in SpriteCells(Len(sprite))
          PROVE  (c[1] = row /\ c[2] < col + 1) <=> (c = here \/ (c[1] = row /\ c[2] < col))
      BY <1>2 DEF SpriteCells
    <2>3. QED
      BY <1>2, <2>1, <2>2 DEF Visited
  <1>6. \A c : At(c)' = At(c) /\ (IsLit(c)' <=> IsLit(c))
    BY <1>1 DEF At, IsLit, X0, Y0
  <1>7. At(here) \notin LitAt(Visited)
    <2>1. ASSUME NEW c \in Visited PROVE At(c) # At(here)
      <3>1. c[1] \in 0..14 /\ c[2] \in 0..7 /\ (c[1] < row \/ (c[1] = row /\ c[2] < col))
        BY <1>1, VisitedCells
      <3>2. here[1] = row /\ here[2] = col
        OBVIOUS
      <3>3. ~(c[1] = row /\ c[2] = col)
        BY <1>2, <3>1
      <3>4. X0 \in 0..63 /\ Y0 \in 0..63
        BY <1>1 DEF GivenOK
      <3>5. ASSUME At(c) = At(here) PROVE FALSE
        <4>1. Target(X0, Y0, c[1], c[2]) = Target(X0, Y0, row, col)
          BY <3>2, <3>5 DEF At
        <4>2. /\ X0 \in Start /\ Y0 \in Start
              /\ c[1] \in SpriteRow /\ c[2] \in SpriteColumn
              /\ row \in SpriteRow /\ col \in SpriteColumn
          BY <1>2, <3>1, <3>4 DEF Start, SpriteRow, SpriteColumn
        <4>3. c[1] = row /\ c[2] = col
          BY <4>1, <4>2, DistinctTargets
        <4>4. QED
          BY <3>3, <4>3
      <3>6. QED
        BY <3>5
    <2>2. QED
      BY <2>1 DEF LitAt
  <1> DEFINE lit == 7 - col \in Bits(sprite[row + 1])
  <1>8. lit <=> IsLit(here)
    BY DEF IsLit
  <1>9. /\ fb' = IF lit THEN Flip(fb, {target}) ELSE fb
        /\ vf' = IF target \in fb \ fb' THEN 1 ELSE vf
    BY DEF DrawPixel
  <1> HIDE DEF here, lit
  <1>10. LitAt(Visited)' = LitAt(Visited) \cup (IF lit THEN {At(here)} ELSE {})
    <2>1. LitAt(Visited)' = { At(c) : c \in { d \in Visited \cup {here} : IsLit(d) } }
      BY <1>5, <1>6 DEF LitAt
    <2>2. QED
      BY <1>8, <2>1 DEF LitAt
  <1>11. ScreenOK'
    <2>1. \A c \in Visited' : At(c)' \in Pixels
      BY <1>1, <1>2, <1>5, <1>6 DEF ScreenOK
    <2>2. fb = Flip(screen, LitAt(Visited))
          /\ vf = IF LitAt(Visited) \cap screen # {} THEN 1 ELSE 0
      BY <1>1 DEF ScreenOK
    <2>3. target \in fb <=> target \in screen
      BY <1>2, <1>7, <2>2 DEF Flip
    <2>4. CASE lit
      <3>1. LitAt(Visited)' = LitAt(Visited) \cup {target}
        BY <1>2, <1>10, <2>4
      <3>2. fb' = Flip(screen, LitAt(Visited)')
        BY <1>2, <1>7, <1>9, <2>2, <2>4, <3>1 DEF Flip
      <3>3. target \in fb \ fb' <=> target \in screen
        BY <1>9, <2>3, <2>4 DEF Flip
      <3>4. vf' = IF LitAt(Visited)' \cap screen # {} THEN 1 ELSE 0
        BY <1>9, <2>2, <3>1, <3>3
      <3>5. QED
        BY <1>1, <2>1, <3>2, <3>4 DEF ScreenOK
    <2>5. CASE ~lit
      <3>1. LitAt(Visited)' = LitAt(Visited) /\ fb' = fb /\ vf' = vf
        BY <1>9, <1>10, <2>5
      <3>2. QED
        BY <1>1, <2>1, <2>2, <3>1 DEF ScreenOK
    <2>6. QED
      BY <2>4, <2>5
  <1>12. EndOK'
    BY <1>1 DEF EndOK
  <1>13. QED
    BY <1>3, <1>4, <1>11, <1>12 DEF LoopInv

LEMMA RowInv == LoopInv /\ NextRow => LoopInv'
  <1> SUFFICES ASSUME LoopInv, NextRow PROVE LoopInv'
    OBVIOUS
  <1>1. /\ GivenOK /\ PositionOK /\ ScreenOK
        /\ row < Len(sprite) /\ col = 8 /\ row' = row + 1 /\ col' = 0
        /\ yPos' = (yPos + 1) % FrameHeight /\ xPos' = (xPos - 8) % 256
        /\ UNCHANGED <<x, y, sprite, screen, fb, vf>> /\ status' = "drawing"
    BY DEF LoopInv, NextRow, given
  <1>2. row \in 0..14
    BY <1>1, GivenFacts DEF PositionOK
  <1>3. GivenOK'
    BY <1>1 DEF GivenOK, X0, Y0
  <1>4. PositionOK'
    <2>1. xPos' = TargetColumn(X0, row + 1, 0) /\ yPos' = TargetRow(Y0, row + 1)
      <3>1. /\ X0 \in 0..63 /\ Y0 \in 0..63 /\ row \in 0..15
            /\ xPos = TargetColumn(X0, row, 8) /\ yPos = TargetRow(Y0, row)
        BY <1>1, <1>2 DEF GivenOK, PositionOK
      <3>2. QED
        BY <1>1, <3>1, RewoundColumn, NextLine
    <2>2. QED
      BY <1>1, <1>2, <2>1 DEF GivenOK, PositionOK, X0, Y0
  <1>5. Visited' = Visited
    <2>1. Visited' = { c \in SpriteCells(Len(sprite)) :
                         c[1] < row + 1 \/ (c[1] = row + 1 /\ c[2] < 0) }
      BY <1>1 DEF Visited
    <2>2. ASSUME NEW c \in SpriteCells(Len(sprite))
          PROVE  /\ ~(c[2] < 0)
                 /\ c[1] < row + 1 <=> (c[1] < row \/ (c[1] = row /\ c[2] < 8))
      BY <1>2 DEF SpriteCells
    <2>3. QED
      BY <1>1, <2>1, <2>2 DEF Visited
  <1>6. \A c : At(c)' = At(c) /\ (IsLit(c)' <=> IsLit(c))
    BY <1>1 DEF At, IsLit, X0, Y0
  <1>7. LitAt(Visited)' = LitAt(Visited)
    BY <1>5, <1>6 DEF LitAt
  <1>8. ScreenOK' /\ EndOK'
    BY <1>1, <1>5, <1>6, <1>7 DEF ScreenOK, EndOK
  <1>9. QED
    BY <1>3, <1>4, <1>8 DEF LoopInv

LEMMA NextInv == LoopInv /\ [Next]_vars => LoopInv'
  <1> SUFFICES ASSUME LoopInv, [Next]_vars PROVE LoopInv'
    OBVIOUS
  <1>1. CASE UNCHANGED <<given, row, col, xPos, yPos, fb, vf>>
    <2>1. GivenOK' /\ PositionOK' /\ ScreenOK'
      BY <1>1 DEF LoopInv, given, GivenOK, PositionOK, ScreenOK, Visited, LitAt, At, IsLit, X0, Y0
    <2>2. CASE Leave \/ GoWild
      BY <1>1, <2>1, <2>2 DEF Leave, GoWild, LoopInv, EndOK, target, given
    <2>3. CASE UNCHANGED vars
      BY <1>1, <2>1, <2>3 DEF vars, LoopInv, EndOK, target, given
    <2>4. CASE DrawPixel
      BY <2>4, PixelInv
    <2>5. CASE NextRow
      BY <2>5, RowInv
    <2>6. QED
      BY <2>2, <2>3, <2>4, <2>5 DEF Next
  <1>2. QED
    BY <1>1, PixelInv, RowInv DEF Next, Leave, GoWild, vars

LEMMA Invariance == Spec => []LoopInv
  BY InitInv, NextInv, PTL DEF Spec

\* For every register value, sprite and screen: the uint8_t xPos and yPos of the
\* loop always name the pixel of the closed form (PositionsAgree).
THEOREM PositionsCorrect == Spec => []PositionsAgree
  <1>1. LoopInv => PositionsAgree
    BY Position DEF LoopInv, PositionsAgree, At
  <1>2. QED
    BY <1>1, Invariance, PTL

LEMMA AllVisited ==
  ASSUME GivenOK, PositionOK, row = Len(sprite)
  PROVE  /\ Visited = SpriteCells(Len(sprite))
         /\ LitAt(Visited) = Toggled(SpriteMemory, 0, X0, Y0, Len(sprite))
  <1>1. \A c \in SpriteCells(Len(sprite)) : c[1] < row /\ c[1] \in 0..(Len(sprite) - 1)
    BY DEF SpriteCells, GivenOK
  <1>2. Visited = SpriteCells(Len(sprite))
    BY <1>1 DEF Visited
  <1>3. \A c \in SpriteCells(Len(sprite)) : Peek(SpriteMemory, 0 + c[1]) = sprite[c[1] + 1]
    BY <1>1, GivenFacts DEF Peek, SpriteMemory
  <1>4. { d \in Visited : IsLit(d) }
          = { d \in SpriteCells(Len(sprite)) : (7 - d[2]) \in Bits(Peek(SpriteMemory, 0 + d[1])) }
    BY <1>2, <1>3 DEF IsLit
  <1>5. QED
    BY <1>2, <1>4 DEF LitAt, Toggled, At

\* For every register value, sprite and screen: at its end the loop has flipped the
\* pixels of the closed form, each exactly once, and VF is the flag (DrawsClosedForm).
THEOREM ClosedFormCorrect == Spec => []DrawsClosedForm
  <1>1. LoopInv => DrawsClosedForm
    BY AllVisited DEF LoopInv, EndOK, ScreenOK, DrawsClosedForm
  <1>2. QED
    BY <1>1, Invariance, PTL

\* For every register value, sprite and screen: the loop leaves fbPixels exactly
\* when the closed form names a pixel outside (WildWhenOutside).
THEOREM WildnessCorrect == Spec => []WildWhenOutside
  <1>1. LoopInv => WildWhenOutside
    <2> SUFFICES ASSUME LoopInv PROVE WildWhenOutside
      OBVIOUS
    <2>1. GivenOK /\ PositionOK /\ ScreenOK /\ EndOK
      BY DEF LoopInv
    <2>2. Touched(X0, Y0, Len(sprite)) = { At(c) : c \in SpriteCells(Len(sprite)) }
      BY DEF Touched, At
    <2>3. status = "done" => Touched(X0, Y0, Len(sprite)) \subseteq Pixels
      BY <2>1, <2>2, AllVisited DEF EndOK, ScreenOK
    <2>4. status = "wild" => ~(Touched(X0, Y0, Len(sprite)) \subseteq Pixels)
      <3>1. status = "wild" => target \notin Pixels /\ \E c \in SpriteCells(Len(sprite)) : target = At(c)
        BY <2>1, Position DEF EndOK
      <3>2. QED
        BY <2>2, <3>1
    <2>5. QED
      BY <2>3, <2>4 DEF WildWhenOutside
  <1>2. QED
    BY <1>1, Invariance, PTL

=============================================================================
