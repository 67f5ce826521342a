-------------------------------- MODULE Chip8 --------------------------------
(***************************************************************************)
(* The CHIP-8 machine that both engines of the emulator drive: memory, the *)
(* decoding of an instruction, byte arithmetic, the screen and the sprite   *)
(* drawing loop.  Everything here is a pure operator; the state machines    *)
(* are in Interp (src/emu/src/cpuInterp.c) and Jit (src/emu/src/cpuJit.c). *)
(*                                                                         *)
(* A memory is a function from the addresses that were written since the    *)
(* program started to bytes; an absent address holds what it held before:   *)
(* the font below 80 and zero elsewhere.  A screen is the set of the lit    *)
(* pixels' indices in fbPixels.                                             *)
(***************************************************************************)
EXTENDS Integers, FiniteSets, Sequences

CONSTANT Roms        \* the ROM images the emulator may be started with

WordSize == 65536
Byte == 0..255
Word == 0..(WordSize - 1)

RamSize     == 4096  \* ram[0x1000]
Entry       == 512   \* 0x200, where a ROM is loaded and where the pc starts
StackSize   == 16    \* cpu.stack[16]
Reg         == 0..15 \* indices of cpu.v; VF is register 15
FrameWidth  == 64
FrameHeight == 32
Pixels == 0..(FrameWidth * FrameHeight - 1)

\* loadROM does not compare the file's size with the room above 0x200: that
\* the file fits is an assumption on the user, not a check of the program.
ASSUME RomsAssumption ==
    \A rom \in Roms : rom \in Seq(Byte) /\ Len(rom) <= RamSize - Entry

-----------------------------------------------------------------------------
(* Memory.                                                                 *)

Font == << \hF0, \h90, \h90, \h90, \hF0,   \h20, \h60, \h20, \h20, \h70,
           \hF0, \h10, \hF0, \h80, \hF0,   \hF0, \h10, \hF0, \h10, \hF0,
           \h90, \h90, \hF0, \h10, \h10,   \hF0, \h80, \hF0, \h10, \hF0,
           \hF0, \h80, \hF0, \h90, \hF0,   \hF0, \h10, \h20, \h40, \h40,
           \hF0, \h90, \hF0, \h90, \hF0,   \hF0, \h90, \hF0, \h10, \hF0,
           \hF0, \h90, \hF0, \h90, \h90,   \hE0, \h90, \hE0, \h90, \hE0,
           \hF0, \h80, \h80, \h80, \hF0,   \hE0, \h90, \h90, \h90, \hE0,
           \hF0, \h80, \hF0, \h80, \hF0,   \hF0, \h80, \hF0, \h80, \h80 >>

IsMemory(m) == DOMAIN m \subseteq 0..(RamSize - 1) /\ m \in [DOMAIN m -> Byte]

Peek(m, a) == IF a \in DOMAIN m THEN m[a]
              ELSE IF a < Len(Font) THEN Font[a + 1] ELSE 0

\* The image after loadROM and cpuInit.
Boot(rom) == [a \in Entry..(Entry + Len(rom) - 1) |-> rom[a - Entry + 1]]

BootImages == { Boot(rom) : rom \in Roms }

\* FX33: the three decimal digits of b, hundreds first, from address a on.
PokeDigits(m, a, b) ==
    [k \in DOMAIN m \cup {a, a + 1, a + 2} |->
        IF k = a          THEN b \div 100
        ELSE IF k = a + 1 THEN (b \div 10) % 10
        ELSE IF k = a + 2 THEN b % 10
        ELSE m[k]]

-----------------------------------------------------------------------------
(* Decoding: a big-endian opcode and the fields of it.                     *)

Fetch(m, a) == Peek(m, a) * 256 + Peek(m, a + 1)

Class(op) == op \div 4096
X(op)     == (op \div 256) % 16
Y(op)     == (op \div 16) % 16
Nib(op)   == op % 16
Imm(op)   == op % 256
Addr(op)  == op % 4096

OP_MISC      == \h0
OP_JMP       == \h1
OP_CALL      == \h2
OP_SKIP1     == \h3
OP_SKIP2     == \h4
OP_SKIP3     == \h5
OP_MOV_IMM   == \h6
OP_ADD_IMM   == \h7
OP_MATH      == \h8
OP_SKIP4     == \h9
OP_STORE     == \hA
OP_JMP_INDEX == \hB
OP_RAND      == \hC
OP_DRAW      == \hD
OP_IN        == \hE
OP_MISC2     == \hF

-----------------------------------------------------------------------------
(* Byte arithmetic.  A byte is taken apart into the set of its one bits.   *)

Bits(b) == {k \in 0..7 : (b \div 2^k) % 2 = 1}

ByteOf(S) ==
    LET bit(k, weight) == IF k \in S THEN weight ELSE 0
    IN  bit(0, 1) + bit(1, 2) + bit(2, 4) + bit(3, 8)
          + bit(4, 16) + bit(5, 32) + bit(6, 64) + bit(7, 128)

Flip(S, T) == (S \ T) \cup (T \ S)

Or8(a, b)  == ByteOf(Bits(a) \cup Bits(b))
And8(a, b) == ByteOf(Bits(a) \cap Bits(b))
Xor8(a, b) == ByteOf(Flip(Bits(a), Bits(b)))

-----------------------------------------------------------------------------
(* The sprite loop of OP_DRAW, for a sprite of n rows at column x and row y *)
(* of the screen (x = v[X] % 64, y = v[Y] % 64).  Row r and column j of the *)
(* sprite land on Target(x, y, r, j).                                      *)
(*                                                                         *)
(* The row is reduced modulo the screen's height only from the second row   *)
(* on.  xPos is a uint8_t: after a row that wrapped around the right edge   *)
(* `xPos -= 8` leaves x + 192, so the first pixel of each later row lands   *)
(* three lines further down, and the next `% 64` puts the rest in place.    *)

TargetRow(y, r) == IF r = 0 THEN y ELSE (y + r) % FrameHeight

TargetColumn(x, r, j) ==
    IF r > 0 /\ j = 0 /\ x + 8 >= FrameWidth THEN x + 192 ELSE (x + j) % FrameWidth

Target(x, y, r, j) == TargetColumn(x, r, j) + TargetRow(y, r) * FrameWidth

SpriteCells(n) == (0..(n - 1)) \X (0..7)

\* Every pixel that the loop reads and writes back, lit or not.
Touched(x, y, n) == { Target(x, y, c[1], c[2]) : c \in SpriteCells(n) }

\* The pixels under the one bits of the sprite stored at address a.
Toggled(m, a, x, y, n) ==
    { Target(x, y, c[1], c[2]) :
        c \in { d \in SpriteCells(n) : (7 - d[2]) \in Bits(Peek(m, a + d[1])) } }

=============================================================================
