----------------------------- MODULE InterpProofs -----------------------------
(***************************************************************************)
(* TLAPS proofs about the interpreter, for every set of ROMs and every range *)
(* of the timer that the assumptions allow.                                *)
(***************************************************************************)
EXTENDS Interp, Lemmas

-----------------------------------------------------------------------------
(* What the register operators of Interp return.                           *)

LEMMA FlagType ==
  ASSUME NEW w \in [Reg -> Byte], NEW P
  PROVE  Flag(w, P) \in [Reg -> Byte]
  <1>1. 0 \in Byte /\ 1 \in Byte
    BY DEF Byte
  <1>2. QED
    BY <1>1 DEF Flag

LEMMA AssignType ==
  ASSUME NEW w \in [Reg -> Byte], NEW x \in Reg, NEW b \in Int
  PROVE  Assign(w, x, b) \in [Reg -> Byte]
  <1>1. b % 256 \in Byte
    BY DEF Byte
  <1>2. QED
    BY <1>1 DEF Assign

LEMMA ArithmeticTypes ==
  ASSUME NEW w \in [Reg -> Byte], NEW x \in Reg, NEW y \in Reg
  PROVE  /\ AddTo(w, x, y) \in [Reg -> Byte]
         /\ SubtractFrom(w, x, y) \in [Reg -> Byte]
         /\ SubtractInto(w, x, y) \in [Reg -> Byte]
         /\ ShiftRight(w, x) \in [Reg -> Byte]
         /\ ShiftLeft(w, x) \in [Reg -> Byte]
  <1>1. w[x] \in Byte /\ w[y] \in Byte
    OBVIOUS
  <1>2. AddTo(w, x, y) \in [Reg -> Byte]
    BY <1>1, ByteArithmetic, AssignType, FlagType DEF AddTo
  <1>3. SubtractFrom(w, x, y) \in [Reg -> Byte]
    BY <1>1, ByteArithmetic, AssignType, FlagType DEF SubtractFrom
  <1>4. SubtractInto(w, x, y) \in [Reg -> Byte]
    BY <1>1, ByteArithmetic, AssignType, FlagType DEF SubtractInto
  <1>5. ShiftRight(w, x) \in [Reg -> Byte]
    BY <1>1, ByteArithmetic, AssignType, FlagType DEF ShiftRight
  <1>6. ShiftLeft(w, x) \in [Reg -> Byte]
    BY <1>1, ByteArithmetic, AssignType, FlagType DEF ShiftLeft
  <1>7. QED
    BY <1>2, <1>3, <1>4, <1>5, <1>6

LEMMA BitwiseTypes ==
  ASSUME NEW w \in [Reg -> Byte], NEW x \in Reg, NEW y \in Reg
  PROVE  /\ Assign(w, x, Or8(w[x], w[y])) \in [Reg -> Byte]
         /\ Assign(w, x, And8(w[x], w[y])) \in [Reg -> Byte]
         /\ XorThenAdd(w, x, y) \in [Reg -> Byte]
  <1>0. Byte \subseteq Int
    BY DEF Byte
  <1>1. Or8(w[x], w[y]) \in Int /\ And8(w[x], w[y]) \in Int /\ Xor8(w[x], w[y]) \in Int
    BY <1>0, ByteOfType DEF Or8, And8, Xor8
  <1>2. Assign(w, x, Xor8(w[x], w[y])) \in [Reg -> Byte]
    BY <1>1, AssignType
  <1>3. XorThenAdd(w, x, y) \in [Reg -> Byte]
    BY <1>2, ArithmeticTypes DEF XorThenAdd
  <1>4. QED
    BY <1>1, <1>3, AssignType

LEMMA LoadType ==
  ASSUME NEW w \in [Reg -> Byte], NEW m, IsMemory(m), NEW a \in Nat, NEW last
  PROVE  LoadRegisters(w, m, a, last) \in [Reg -> Byte]
  <1>1. \A r \in Reg : a + r \in Nat
    BY DEF Reg
  <1>2. \A r \in Reg : Peek(m, a + r) \in Byte
    BY <1>1, PeekType
  <1>3. QED
    BY <1>2 DEF LoadRegisters

-----------------------------------------------------------------------------
(* Type correctness.                                                       *)

\* pc and the delay timer after any instruction, whatever the switch left in pc.
LEMMA FinishType ==
  ASSUME NEW p \in Int, Finish(p), delayTimer \in 0..(TimerRange - 1)
  PROVE  pc' \in Word /\ delayTimer' \in 0..(TimerRange - 1)
  <1>1. TimerRange \in Int /\ 0 < TimerRange
    BY TimerRangeAssumption
  <1>2. delayTimer' \in 0..(TimerRange - 1)
    BY <1>1 DEF Finish
  <1>3. pc' = (p + 2) % WordSize
    BY DEF Finish
  <1>4. (p + 2) % WordSize \in Int /\ 0 <= (p + 2) % WordSize /\ (p + 2) % WordSize < WordSize
    BY DEF WordSize
  <1>5. WordSize \in Int
    BY DEF WordSize
  <1>6. pc' \in Word
    BY <1>3, <1>4, <1>5 DEF Word
  <1>7. QED
    BY <1>2, <1>6

LEMMA DecodeTypes ==
  ASSUME TypeOK
  PROVE  /\ pc \in Nat
         /\ i \in Nat
         /\ X(op) \in Reg /\ Y(op) \in Reg
         /\ Nib(op) \in 0..15
         /\ Imm(op) \in Byte
         /\ Addr(op) \in 0..(RamSize - 1)
         /\ v[X(op)] \in Byte /\ v[Y(op)] \in Byte /\ v[0] \in Byte
  <1>0. Word \subseteq Nat /\ 0..(RamSize - 1) \subseteq Nat
    BY WordRange DEF WordSize, RamSize
  <1>1. pc \in Nat /\ i \in Nat
    BY <1>0 DEF TypeOK
  <1>2. op \in Word
    BY <1>1, FetchType DEF TypeOK, op
  <1>3. 0 \in Reg
    BY DEF Reg
  <1>4. X(op) \in Reg /\ Y(op) \in Reg
    BY <1>2, FieldTypes
  <1>5. v[X(op)] \in Byte /\ v[Y(op)] \in Byte /\ v[0] \in Byte
    BY <1>3, <1>4 DEF TypeOK
  <1>6. QED
    BY <1>1, <1>2, <1>4, <1>5, FieldTypes

LEMMA InitType == Init => TypeOK
  <1> SUFFICES ASSUME Init PROVE TypeOK
    OBVIOUS
  <1>1. 0 \in Byte /\ Entry \in Word /\ 0 \in 0..(RamSize - 1) /\ 0 \in 0..StackSize
    BY WordRange DEF Byte, Entry, WordSize, RamSize, StackSize
  <1>2. 0 \in 0..(TimerRange - 1)
    BY TimerRangeAssumption
  <1>3. IsMemory(ram)
    BY BootType DEF Init, BootImages
  <1>4. QED
    BY <1>1, <1>2, <1>3 DEF Init, TypeOK

\* The four shapes that most actions have.
LEMMA SetRegistersType ==
  ASSUME TypeOK, NEW w \in [Reg -> Byte], SetRegisters(w)
  PROVE  TypeOK'
  BY DecodeTypes, FinishType DEF TypeOK, SetRegisters

LEMMA SetIndexType ==
  ASSUME TypeOK, NEW a \in 0..(RamSize - 1), SetIndex(a)
  PROVE  TypeOK'
  BY DecodeTypes, FinishType DEF TypeOK, SetIndex

LEMMA SkipType ==
  ASSUME TypeOK, NEW c, NEW P, SkipIf(c, P)
  PROVE  TypeOK'
  <1>1. (IF P THEN pc + 2 ELSE pc) \in Int
    BY DecodeTypes
  <1>2. QED
    BY <1>1, FinishType DEF TypeOK, SkipIf, registers

LEMMA StopType ==
  ASSUME TypeOK, Unimplemented \/ GoWild
  PROVE  TypeOK'
  BY DEF TypeOK, Unimplemented, GoWild, registers

\* Every action of Next keeps the types.
LEMMA NextType == TypeOK /\ [Next]_vars => TypeOK'
  <1> SUFFICES ASSUME TypeOK, [Next]_vars PROVE TypeOK'
    OBVIOUS
  <1> USE DecodeTypes
  <1>0. 0 \in Byte /\ Byte \subseteq Int /\ 0..(RamSize - 1) \subseteq Int
    BY DEF Byte
  <1>1. CASE ClearScreen
    BY <1>1, FinishType DEF TypeOK, ClearScreen, registers
  <1>2. CASE Return
    <2>1. sp - 1 \in 0..(StackSize - 1) /\ sp - 1 \in 0..StackSize
      BY <1>2 DEF Return, Executing, InBounds, StackSize
    <2>2. stack[sp - 1] \in Int
      BY <1>0, <2>1 DEF TypeOK
    <2>3. QED
      BY <1>2, <2>1, <2>2, FinishType DEF TypeOK, Return
  <1>3. CASE Jump
    <2>1. Addr(op) - 2 \in Int
      BY AddressArithmetic
    <2>2. QED
      BY <1>3, <2>1, FinishType DEF TypeOK, Jump, registers
  <1>4. CASE JumpIndexed
    <2>1. v[0] + Addr(op) - 2 \in Int
      BY AddressArithmetic
    <2>2. QED
      BY <1>4, <2>1, FinishType DEF TypeOK, JumpIndexed, registers
  <1>5. CASE Call
    <2>1. pc \in 0..(RamSize - 1) /\ sp < StackSize
      BY <1>5, InsideRam DEF Call, Executing, InBounds, InRam
    <2>2. sp + 1 \in 0..StackSize
      BY <2>1 DEF TypeOK, StackSize
    <2>3. Addr(op) - 2 \in Int
      BY AddressArithmetic
    <2>4. stack' \in [0..(StackSize - 1) -> 0..(RamSize - 1)]
      BY <1>5, <2>1 DEF TypeOK, Call
    <2>5. QED
      BY <1>5, <2>2, <2>3, <2>4, FinishType DEF TypeOK, Call
  <1>6. CASE SkipEqualImm \/ SkipNotEqualImm \/ SkipEqual \/ SkipNotEqual
    BY <1>6, SkipType DEF SkipEqualImm, SkipNotEqualImm, SkipEqual, SkipNotEqual
  <1>7. CASE MoveImm \/ AddImm
    <2>1. Imm(op) \in Int /\ v[X(op)] + Imm(op) \in Int
      BY <1>0, ByteArithmetic
    <2>2. /\ Assign(v, X(op), Imm(op)) \in [Reg -> Byte]
          /\ Assign(v, X(op), v[X(op)] + Imm(op)) \in [Reg -> Byte]
      BY <2>1, AssignType DEF TypeOK
    <2>3. QED
      BY <1>7, <2>2, SetRegistersType DEF MoveImm, AddImm
  <1>8. CASE Rand
    <2>1. PICK S \in SUBSET Bits(Imm(op)) : SetRegisters(Assign(v, X(op), ByteOf(S)))
      BY <1>8 DEF Rand
    <2>2. Assign(v, X(op), ByteOf(S)) \in [Reg -> Byte]
      BY <1>0, ByteOfType, AssignType DEF TypeOK
    <2>3. QED
      BY <2>1, <2>2, SetRegistersType
  <1>9. CASE KeyInput
    BY <1>9, SetRegistersType DEF KeyInput, TypeOK
  <1>10. CASE ReadDelay \/ ReadSound
    <2>1. delayTimer \in Int /\ SoundTimer \in Int
      BY TimerRangeAssumption DEF TypeOK, SoundTimer
    <2>2. /\ Assign(v, X(op), delayTimer) \in [Reg -> Byte]
          /\ Assign(v, X(op), SoundTimer) \in [Reg -> Byte]
      BY <2>1, AssignType DEF TypeOK
    <2>3. QED
      BY <1>10, <2>2, SetRegistersType DEF ReadDelay, ReadSound
  <1>11. CASE MathMove
    <2>1. Assign(v, X(op), v[Y(op)]) \in [Reg -> Byte]
      BY <1>0, AssignType DEF TypeOK
    <2>2. QED
      BY <1>11, <2>1, SetRegistersType DEF MathMove, MathCase
  <1>12. CASE MathOr \/ MathAnd \/ MathXor
    <2>1. v \in [Reg -> Byte]
      BY DEF TypeOK
    <2>2. QED
      BY <1>12, <2>1, BitwiseTypes, SetRegistersType DEF MathOr, MathAnd, MathXor, MathCase
  <1>13. CASE \/ MathAdd \/ MathSubtract \/ MathSubtractInto
              \/ MathShiftRight \/ MathShiftLeft
    <2>1. v \in [Reg -> Byte]
      BY DEF TypeOK
    <2>2. QED
      BY <1>13, <2>1, ArithmeticTypes, SetRegistersType
         DEF MathAdd, MathSubtract, MathSubtractInto, MathShiftRight, MathShiftLeft, MathCase
  <1>14. CASE Store
    BY <1>14, SetIndexType DEF Store
  <1>15. CASE Glyph
    BY <1>15, ByteArithmetic, SetIndexType DEF Glyph
  <1>16. CASE Bcd
    <2>1. i + 2 < RamSize
      BY <1>16, InsideRam DEF Bcd, Executing, InBounds, InRam
    <2>2. IsMemory(ram')
      BY <1>16, <2>1, PokeDigitsType DEF Bcd, TypeOK
    <2>3. QED
      BY <1>16, <2>2, FinishType DEF TypeOK, Bcd, registers
  <1>17. CASE Load
    <2>1. LoadRegisters(v, ram, i, X(op)) \in [Reg -> Byte]
      BY LoadType DEF TypeOK
    <2>2. QED
      BY <1>17, <2>1, SetRegistersType DEF Load
  <1>18. CASE Draw
    <2> DEFINE toggled == Toggled(ram, i, DrawX, DrawY, Nib(op))
    <2>1. Nib(op) > 0 => Touched(DrawX, DrawY, Nib(op)) \subseteq Pixels
      BY <1>18 DEF Draw, Executing, InBounds
    <2>2. Flip(fb, toggled) \subseteq Pixels
      BY <2>1, DrawnPixels DEF TypeOK
    <2>3. Flag(v, toggled \cap fb # {}) \in [Reg -> Byte]
      BY FlagType DEF TypeOK
    <2>4. fb' \subseteq Pixels /\ v' \in [Reg -> Byte]
      BY <1>18, <2>2, <2>3 DEF Draw
    <2>5. QED
      BY <1>18, <2>4, FinishType DEF TypeOK, Draw
  <1>19. CASE Unimplemented \/ GoWild
    BY <1>19, StopType
  <1>20. CASE UNCHANGED vars
    BY <1>20 DEF TypeOK, vars
  <1>21. QED
    BY <1>1, <1>2, <1>3, <1>4, <1>5, <1>6, <1>7, <1>8, <1>9, <1>10, <1>11, <1>12, <1>13,
       <1>14, <1>15, <1>16, <1>17, <1>18, <1>19, <1>20 DEF Next

\* For every set of ROMs, every state of the interpreter is within the types of
\* cpu_t and the bounds of cpu.stack, ram and fbPixels (TypeOK).
THEOREM TypeCorrect == Spec => []TypeOK
  BY InitType, NextType, PTL DEF Spec

-----------------------------------------------------------------------------
(* The return stack.                                                       *)

\* FX33 leaves every cell what it was or makes it a decimal digit.
LEMMA PokeKeepsCalls ==
  ASSUME NEW m, IsMemory(m), NEW n \in Nat, NEW b \in Byte, NEW a, CallOrDigit(m, a)
  PROVE  CallOrDigit(PokeDigits(m, n, b), a)
  BY PokedByte DEF CallOrDigit

\* Every action of Next keeps the frames on the stack addresses of calls.
LEMMA NextStack == TypeOK /\ StackHoldsCallSites /\ [Next]_vars => StackHoldsCallSites'
  <1> SUFFICES ASSUME TypeOK, StackHoldsCallSites, [Next]_vars PROVE StackHoldsCallSites'
    OBVIOUS
  <1>1. CASE Return
    <2>1. sp' = sp - 1 /\ stack' = stack /\ ram' = ram
      BY <1>1 DEF Return
    <2>2. 0..(sp - 2) \subseteq 0..(sp - 1)
      BY DEF TypeOK, StackSize
    <2>3. sp' - 1 = sp - 2
      BY <2>1 DEF TypeOK, StackSize
    <2>4. QED
      BY <2>1, <2>2, <2>3 DEF StackHoldsCallSites
  <1>2. CASE Call
    <2>1. stack' = [stack EXCEPT ![sp] = pc] /\ sp' = sp + 1 /\ ram' = ram
      BY <1>2 DEF Call
    <2>2. sp \in 0..(StackSize - 1) /\ sp \in Int /\ sp' - 1 = sp
      BY <1>2, <2>1 DEF Call, Executing, InBounds, TypeOK, StackSize
    <2>3. CallOrDigit(ram, pc)
      BY <1>2, ClassOfFetch, DecodeTypes DEF Call, Executing, CallOrDigit, TypeOK, op
    <2>4. ASSUME NEW k \in 0..sp PROVE CallOrDigit(ram, stack'[k])
      <3>1. CASE k = sp
        <4>1. stack'[k] = pc
          BY <2>1, <2>2, <3>1 DEF TypeOK
        <4>2. QED
          BY <2>3, <4>1
      <3>2. CASE k # sp
        <4>1. k \in 0..(sp - 1)
          BY <2>2, <3>2
        <4>2. stack'[k] = stack[k]
          BY <2>1, <3>2, <2>2, <4>1 DEF TypeOK
        <4>3. QED
          BY <4>1, <4>2 DEF StackHoldsCallSites
      <3>3. QED
        BY <3>1, <3>2
    <2>5. QED
      BY <2>1, <2>2, <2>4 DEF StackHoldsCallSites
  <1>3. CASE Bcd
    <2>1. ram' = PokeDigits(ram, i, v[X(op)]) /\ sp' = sp /\ stack' = stack
      BY <1>3 DEF Bcd, registers
    <2>2. \A a : CallOrDigit(ram, a) => CallOrDigit(ram', a)
      BY <2>1, PokeKeepsCalls, DecodeTypes DEF TypeOK
    <2>3. QED
      BY <2>1, <2>2 DEF StackHoldsCallSites
  <1>4. CASE sp' = sp /\ stack' = stack /\ ram' = ram
    BY <1>4 DEF StackHoldsCallSites
  <1>5. CASE ClearScreen \/ Jump \/ JumpIndexed \/ Unimplemented \/ GoWild \/ UNCHANGED vars
    BY <1>4, <1>5 DEF ClearScreen, Jump, JumpIndexed, Unimplemented, GoWild, registers, vars
  <1>6. CASE SkipEqualImm \/ SkipNotEqualImm \/ SkipEqual \/ SkipNotEqual
    BY <1>4, <1>6
       DEF SkipEqualImm, SkipNotEqualImm, SkipEqual, SkipNotEqual, SkipIf, registers
  <1>7. ASSUME NEW w, SetRegisters(w) PROVE StackHoldsCallSites'
    BY <1>4, <1>7 DEF SetRegisters
  <1>8. CASE \/ MoveImm \/ AddImm \/ Rand \/ KeyInput \/ ReadDelay \/ ReadSound \/ Load
    BY <1>7, <1>8 DEF MoveImm, AddImm, Rand, KeyInput, ReadDelay, ReadSound, Load
  <1>9. CASE \/ MathMove \/ MathOr \/ MathAnd \/ MathXor \/ MathAdd \/ MathSubtract
             \/ MathShiftRight \/ MathSubtractInto \/ MathShiftLeft
    BY <1>7, <1>9 DEF MathMove, MathOr, MathAnd, MathXor, MathAdd, MathSubtract,
       MathShiftRight, MathSubtractInto, MathShiftLeft, MathCase
  <1>10. CASE Store \/ Glyph
    BY <1>4, <1>10 DEF Store, Glyph, SetIndex
  <1>11. CASE Draw
    BY <1>4, <1>11 DEF Draw
  <1>12. QED
    BY <1>1, <1>2, <1>3, <1>5, <1>6, <1>8, <1>9, <1>10, <1>11 DEF Next

\* For every set of ROMs, self-modifying ones included, each frame on cpu.stack
\* is the address of a CALL or of a byte that FX33 has overwritten with a digit
\* (StackHoldsCallSites); TypeOK is the strengthening that makes it inductive.
THEOREM StackCorrect == Spec => []StackHoldsCallSites
  <1>1. Init => StackHoldsCallSites
    BY DEF Init, StackHoldsCallSites
  <1>2. QED
    BY <1>1, NextStack, TypeCorrect, PTL DEF Spec

=============================================================================
