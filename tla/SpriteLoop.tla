------------------------------ MODULE SpriteLoop ------------------------------
(***************************************************************************)
(* The pixel loop of OP_DRAW, src/emu/src/cpuInterp.c:121-139 (and again in *)
(* src/emu/src/cpuJit.c:433-451), one step per iteration, with the uint8_t  *)
(* arithmetic of xPos and yPos.  Interp and Jit draw a sprite in one step,  *)
(* by the closed form of Chip8 (Target, Touched, Toggled); the properties   *)
(* of this module say that the loop computes that closed form.             *)
(***************************************************************************)
EXTENDS Chip8

CONSTANTS
    Columns,     \* values of v[X]
    Lines,       \* values of v[Y]
    Sprites,     \* the sprites drawn: sequences of bytes, one per row
    Screens      \* the screens they are drawn on

ASSUME LoopAssumption ==
    /\ Columns \subseteq Byte /\ Lines \subseteq Byte
    /\ \A s \in Sprites : s \in Seq(Byte) /\ Len(s) \in 0..15
    /\ \A s \in Screens : s \subseteq Pixels

VARIABLES
    x, y,        \* v[X] and v[Y] when the loop starts
    sprite,      \* the bytes at source
    screen,      \* the lit pixels when the loop starts
    row, col,    \* the loop counters, i and j in the code
    xPos, yPos,  \* uint8_t
    fb, vf,      \* the lit pixels and v[0xF]
    status       \* "drawing", "done", or "wild" once *target is outside fbPixels

given == <<x, y, sprite, screen>>
vars == <<given, row, col, xPos, yPos, fb, vf, status>>

Init ==
    /\ x \in Columns /\ y \in Lines
    /\ sprite \in Sprites
    /\ screen \in Screens
    /\ row = 0 /\ col = 0
    /\ xPos = x % FrameWidth /\ yPos = y % FrameWidth
    /\ fb = screen
    /\ vf = 0
    /\ status = "drawing"

target == xPos + yPos * FrameWidth

\* Faulty variant of DrawPixel: VF tells of the last pixel only.
DrawPixelLastFlag ==
    LET lit == 7 - col \in Bits(sprite[row + 1]) IN
    /\ status = "drawing" /\ row < Len(sprite) /\ col < 8
    /\ target \in Pixels
    /\ fb' = IF lit THEN Flip(fb, {target}) ELSE fb
    /\ vf' = IF target \in fb \ fb' THEN 1 ELSE 0
    /\ xPos' = (xPos + 1) % FrameWidth
    /\ col' = col + 1
    /\ UNCHANGED <<given, row, yPos, status>>

\* One iteration of the inner loop, for a pixel inside the screen.
DrawPixel ==
    LET lit == 7 - col \in Bits(sprite[row + 1]) IN
    /\ status = "drawing" /\ row < Len(sprite) /\ col < 8
    /\ target \in Pixels
    /\ fb' = IF lit THEN Flip(fb, {target}) ELSE fb
    /\ vf' = IF target \in fb \ fb' THEN 1 ELSE vf
    /\ xPos' = (xPos + 1) % FrameWidth
    /\ col' = col + 1
    /\ UNCHANGED <<given, row, yPos, status>>

\* Faulty variants of NextRow: without `xPos -= 8`, and without the `% 32`.
NextRowUnrewound ==
    /\ status = "drawing" /\ row < Len(sprite) /\ col = 8
    /\ yPos' = (yPos + 1) % FrameHeight
    /\ row' = row + 1 /\ col' = 0
    /\ UNCHANGED <<given, xPos, fb, vf, status>>

NextRowUnwrapped ==
    /\ status = "drawing" /\ row < Len(sprite) /\ col = 8
    /\ yPos' = (yPos + 1) % 256
    /\ xPos' = (xPos - 8) % 256
    /\ row' = row + 1 /\ col' = 0
    /\ UNCHANGED <<given, fb, vf, status>>

\* The end of an iteration of the outer loop.
NextRow ==
    /\ status = "drawing" /\ row < Len(sprite) /\ col = 8
    /\ yPos' = (yPos + 1) % FrameHeight
    /\ xPos' = (xPos - 8) % 256
    /\ row' = row + 1 /\ col' = 0
    /\ UNCHANGED <<given, fb, vf, status>>

Leave ==
    /\ status = "drawing" /\ row = Len(sprite)
    /\ status' = "done"
    /\ UNCHANGED <<given, row, col, xPos, yPos, fb, vf>>

GoWild ==
    /\ status = "drawing" /\ row < Len(sprite) /\ col < 8
    /\ target \notin Pixels
    /\ status' = "wild"
    /\ UNCHANGED <<given, row, col, xPos, yPos, fb, vf>>

Next == DrawPixel \/ NextRow \/ Leave \/ GoWild

Spec == Init /\ [][Next]_vars

-----------------------------------------------------------------------------
(* Properties.                                                             *)

X0 == x % FrameWidth
Y0 == y % FrameWidth

\* The memory whose first bytes are the sprite's.
SpriteMemory == [a \in 0..(Len(sprite) - 1) |-> sprite[a + 1]]

\* Wherever it stands, the loop is about to write the pixel that the closed form
\* names, across both edges of the screen and through the wrap of xPos -= 8.
PositionsAgree ==
    (status = "drawing" /\ row < Len(sprite) /\ col < 8) => target = Target(X0, Y0, row, col)

\* When the loop ends, it has flipped each pixel under a one bit of the sprite
\* exactly once, and VF tells whether one of them was lit before: no pixel is
\* visited twice, so that drawing the same sprite again would undo it.
DrawsClosedForm ==
    status = "done" =>
        LET toggled == Toggled(SpriteMemory, 0, X0, Y0, Len(sprite)) IN
        /\ fb = Flip(screen, toggled)
        /\ vf = IF toggled \cap screen # {} THEN 1 ELSE 0

\* The loop leaves fbPixels exactly for the sprites that Interp and Jit call
\* out of bounds, even though it may have drawn some rows before.
WildWhenOutside ==
    /\ status = "done" => Touched(X0, Y0, Len(sprite)) \subseteq Pixels
    /\ status = "wild" => ~(Touched(X0, Y0, Len(sprite)) \subseteq Pixels)

=============================================================================
