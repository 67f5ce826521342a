----------------------------- MODULE ChunkString -----------------------------
(***************************************************************************)
(* The growing string that the disassembler keeps for each chunk,            *)
(* src/disasm/src/chunkStrings.c, and the length of the text that           *)
(* disasmOpcode adds for an opcode.  A string is its length and the size of  *)
(* the memory that was asked for.                                          *)
(***************************************************************************)
EXTENDS Chip8

InitialSize == 32

ChunkStringInit == [length |-> 0, size |-> InitialSize]

\* Faulty variant of ChunkStringAdd: the length of the new text is left out.
ChunkStringAddLate(s, n) ==
    [length |-> s.length + n,
     size   |-> IF s.length > s.size THEN s.size * 2 ELSE s.size]

\* chunkStringAdd of n characters: the terminating zero is left out of the
\* comparison, and the size is doubled at most once.
ChunkStringAdd(s, n) ==
    [length |-> s.length + n,
     size   |-> IF n + s.length > s.size THEN s.size * 2 ELSE s.size]

\* What malloc or realloc gives for a request of n bytes: with the 8 bytes of its
\* own that follow, a multiple of 16.
Usable(n) == ((n + 8 + 15) \div 16) * 16 - 8

\* The text and its terminating zero.
Fits(s) == s.length + 1 <= Usable(s.size)

-----------------------------------------------------------------------------
(* The characters of an instruction's text, its newline included.          *)

MathLength(nib) ==
    CASE nib \in {0, 2, 3, 4, 5, 6, 14} -> 11
      [] nib = 1 -> 10
      [] nib = 7 -> 12

Misc2Length(imm) ==
    CASE imm \in {\h07, \h15, \h18} -> 13
      [] imm = \h0A -> 11
      [] imm = \h1E -> 9
      [] imm = \h29 -> 14
      [] imm = \h33 -> 7
      [] imm \in {\h55, \h65} -> 12

\* Whether disasmOpcode has a text of its own for the opcode.
Named(opcode) ==
    /\ Class(opcode) = OP_MISC  => Imm(opcode) \in {\hE0, \hEE}
    /\ Class(opcode) = OP_MATH  => Nib(opcode) \in 0..7 \cup {14}
    /\ Class(opcode) = OP_IN    => Imm(opcode) \in {\h9E, \hA1}
    /\ Class(opcode) = OP_MISC2 =>
          Imm(opcode) \in {\h07, \h0A, \h15, \h18, \h1E, \h29, \h33, \h55, \h65}

TextLength(opcode) ==
    LET c == Class(opcode) IN
    CASE ~Named(opcode)  -> 38
      [] Named(opcode) /\ c = OP_MISC -> IF Imm(opcode) = \hE0 THEN 6 ELSE 4
      [] c \in {OP_JMP, OP_STORE} -> 9
      [] c = OP_CALL -> 10
      [] c \in {OP_SKIP1, OP_SKIP2, OP_DRAW} -> 16
      [] c \in {OP_SKIP3, OP_SKIP4} -> 15
      [] c \in {OP_MOV_IMM, OP_ADD_IMM, OP_JMP_INDEX} -> 12
      [] Named(opcode) /\ c = OP_MATH -> MathLength(Nib(opcode))
      [] c = OP_RAND -> 13
      [] Named(opcode) /\ c = OP_IN -> IF Imm(opcode) = \h9E THEN 17 ELSE 15
      [] Named(opcode) /\ c = OP_MISC2 -> Misc2Length(Imm(opcode))

\* disasmOpcode adds a tab and then the text.
AddOpcode(s, opcode) == ChunkStringAdd(ChunkStringAdd(s, 1), TextLength(opcode))

=============================================================================
