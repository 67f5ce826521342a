-------------------------------- MODULE Interp --------------------------------
(***************************************************************************)
(* The interpreter, src/emu/src/cpuInterp.c: one step of this module is one *)
(* call of cpuInterpStep, with one action for each opcode of its switch.   *)
(*                                                                         *)
(* status says whether the process is still stepping:                      *)
(*   "running"  cpuInterpStep returned                                     *)
(*   "exited"   unimplemented() called exit(1)                             *)
(*   "wild"     an access left ram, cpu.stack or fbPixels.  C leaves what   *)
(*              follows undefined, so nothing is said of a wild machine.   *)
(***************************************************************************)
EXTENDS Chip8

CONSTANT TimerRange  \* number of values of the delay timer: 256 in the code

ASSUME TimerRangeAssumption == TimerRange \in 1..256

VARIABLES
    v,           \* cpu.v
    i,           \* cpu.i
    pc,          \* cpu.pc
    stack,       \* cpu.stack
    sp,          \* cpu.sp
    delayTimer,  \* cpu.delayTimer
    ram,         \* the addresses written, see Chip8
    fb,          \* the lit pixels of fbPixels
    status       \* "running", "exited" or "wild"

registers == <<v, i, stack, sp>>
vars == <<v, i, pc, stack, sp, delayTimer, ram, fb, status>>

\* cpu.soundTimer starts at zero and no code ever assigns to it.
SoundTimer == 0

Init ==
    /\ v = [r \in Reg |-> 0]
    /\ i = 0
    /\ pc = Entry
    /\ stack = [k \in 0..(StackSize - 1) |-> 0]
    /\ sp = 0
    /\ delayTimer = 0
    /\ ram \in BootImages
    /\ fb = {}
    /\ status = "running"

-----------------------------------------------------------------------------
(* What the accesses of an instruction require.                            *)

op == Fetch(ram, pc)

InRam(a) == a \in 0..(RamSize - 1)

DrawX == v[X(op)] % FrameWidth
DrawY == v[Y(op)] % FrameWidth   \* 64 in the code, for the row as well

\* Every access of the instruction at pc stays inside the array it names.
\* A uint8_t sp of zero is decremented to 255.
InBounds ==
    /\ InRam(pc + 1)
    /\ Class(op) = OP_CALL => sp < StackSize
    /\ (Class(op) = OP_MISC /\ Imm(op) = \hEE) => sp \in 1..StackSize
    /\ (Class(op) = OP_MISC2 /\ Imm(op) = \h33) => InRam(i + 2)
    /\ (Class(op) = OP_MISC2 /\ Imm(op) = \h65) => InRam(i + X(op))
    /\ (Class(op) = OP_DRAW /\ Nib(op) > 0) =>
          /\ InRam(i + Nib(op) - 1)
          /\ Touched(DrawX, DrawY, Nib(op)) \subseteq Pixels

\* The instruction at pc is of class c and can be executed.
Executing(c) == status = "running" /\ InBounds /\ Class(op) = c

\* Faulty variant of Finish: the delay timer stops at zero.
FinishStopping(p) ==
    /\ pc' = (p + 2) % WordSize
    /\ delayTimer' = IF delayTimer = 0 THEN 0 ELSE delayTimer - 1

\* The two statements after the switch, for the value p that it left in pc.
Finish(p) ==
    /\ pc' = (p + 2) % WordSize
    /\ delayTimer' = IF delayTimer = 0 THEN TimerRange - 1 ELSE delayTimer - 1

-----------------------------------------------------------------------------
(* Control flow.                                                           *)

ClearScreen ==
    /\ Executing(OP_MISC) /\ Imm(op) = \hE0
    /\ fb' = {}
    /\ Finish(pc)
    /\ UNCHANGED <<registers, ram, status>>

Return ==
    /\ Executing(OP_MISC) /\ Imm(op) = \hEE
    /\ sp' = sp - 1
    /\ Finish(stack[sp - 1])
    /\ UNCHANGED <<v, i, stack, ram, fb, status>>

Jump ==
    /\ Executing(OP_JMP)
    /\ Finish(Addr(op) - 2)
    /\ UNCHANGED <<registers, ram, fb, status>>

JumpIndexed ==
    /\ Executing(OP_JMP_INDEX)
    /\ Finish(v[0] + Addr(op) - 2)
    /\ UNCHANGED <<registers, ram, fb, status>>

\* Faulty variant of Call: pushes the address behind the call.
CallPushingNext ==
    /\ Executing(OP_CALL)
    /\ stack' = [stack EXCEPT ![sp] = (pc + 2) % WordSize]
    /\ sp' = sp + 1
    /\ Finish(Addr(op) - 2)
    /\ UNCHANGED <<v, i, ram, fb, status>>

Call ==
    /\ Executing(OP_CALL)
    /\ stack' = [stack EXCEPT ![sp] = pc]
    /\ sp' = sp + 1
    /\ Finish(Addr(op) - 2)
    /\ UNCHANGED <<v, i, ram, fb, status>>

\* The four conditional skips: c is the class, P the condition.
SkipIf(c, P) ==
    /\ Executing(c)
    /\ Finish(IF P THEN pc + 2 ELSE pc)
    /\ UNCHANGED <<registers, ram, fb, status>>

SkipEqualImm    == SkipIf(OP_SKIP1, v[X(op)] = Imm(op))
SkipNotEqualImm == SkipIf(OP_SKIP2, v[X(op)] # Imm(op))
SkipEqual       == SkipIf(OP_SKIP3, v[X(op)] = v[Y(op)])
SkipNotEqual    == SkipIf(OP_SKIP4, v[X(op)] # v[Y(op)])

-----------------------------------------------------------------------------
(* Registers.  The flag of OP_MATH is computed after v[X] was assigned, from *)
(* the new v[X] and from v[Y], which is the new value too when X = Y; then  *)
(* it overwrites v[0xF], which may be the result itself.                   *)

Flag(w, P) == [w EXCEPT ![15] = IF P THEN 1 ELSE 0]

\* Faulty variant of Assign: a register wider than a byte.
AssignWide(w, x, b) == [w EXCEPT ![x] = b % WordSize]

Assign(w, x, b) == [w EXCEPT ![x] = b % 256]

AddTo(w, x, y) ==
    LET u == Assign(w, x, w[x] + w[y]) IN Flag(u, u[x] + u[y] > 255)

SubtractFrom(w, x, y) ==
    LET u == Assign(w, x, w[x] - w[y]) IN Flag(u, u[x] <= u[y])

SubtractInto(w, x, y) ==
    LET u == Assign(w, x, w[y] - w[x]) IN Flag(u, u[y] >= u[x])

ShiftRight(w, x) ==
    LET u == Assign(w, x, w[x] \div 2) IN Flag(u, u[x] % 2 = 1)

ShiftLeft(w, x) ==
    LET u == Assign(w, x, w[x] * 2) IN Flag(u, u[x] \div 128 = 1)

\* `case 3` has no break: the sum follows the exclusive or.
XorThenAdd(w, x, y) == AddTo(Assign(w, x, Xor8(w[x], w[y])), x, y)

\* An instruction that changes v alone, into w.
SetRegisters(w) ==
    /\ v' = w
    /\ Finish(pc)
    /\ UNCHANGED <<i, stack, sp, ram, fb, status>>

MoveImm == Executing(OP_MOV_IMM) /\ SetRegisters(Assign(v, X(op), Imm(op)))

AddImm == Executing(OP_ADD_IMM) /\ SetRegisters(Assign(v, X(op), v[X(op)] + Imm(op)))

MathCases == {0, 1, 2, 3, 4, 5, 6, 7, 14}

\* Case n of the switch on the last digit of OP_MATH, which leaves w in cpu.v.
MathCase(n, w) == Executing(OP_MATH) /\ Nib(op) = n /\ SetRegisters(w)

MathMove         == MathCase(0, Assign(v, X(op), v[Y(op)]))
MathOr           == MathCase(1, Assign(v, X(op), Or8(v[X(op)], v[Y(op)])))
MathAnd          == MathCase(2, Assign(v, X(op), And8(v[X(op)], v[Y(op)])))
MathXor          == MathCase(3, XorThenAdd(v, X(op), Y(op)))
MathAdd          == MathCase(4, AddTo(v, X(op), Y(op)))
MathSubtract     == MathCase(5, SubtractFrom(v, X(op), Y(op)))
MathShiftRight   == MathCase(6, ShiftRight(v, X(op)))
MathSubtractInto == MathCase(7, SubtractInto(v, X(op), Y(op)))
MathShiftLeft    == MathCase(14, ShiftLeft(v, X(op)))

\* rand() & IMM: any byte whose one bits are among the immediate's.
Rand ==
    /\ Executing(OP_RAND)
    /\ \E S \in SUBSET Bits(Imm(op)) : SetRegisters(Assign(v, X(op), ByteOf(S)))

\* The key instructions only print a message.
KeyInput == Executing(OP_IN) /\ SetRegisters(v)

ReadDelay ==
    /\ Executing(OP_MISC2) /\ Imm(op) = \h07
    /\ SetRegisters(Assign(v, X(op), delayTimer))

\* Reads the sound timer, which stays zero; the assembler calls FX15 set_delay.
ReadSound ==
    /\ Executing(OP_MISC2) /\ Imm(op) = \h15
    /\ SetRegisters(Assign(v, X(op), SoundTimer))

-----------------------------------------------------------------------------
(* Memory and screen.                                                      *)

SetIndex(a) ==
    /\ i' = a
    /\ Finish(pc)
    /\ UNCHANGED <<v, stack, sp, ram, fb, status>>

Store == Executing(OP_STORE) /\ SetIndex(Addr(op))

Glyph == Executing(OP_MISC2) /\ Imm(op) = \h29 /\ SetIndex(v[X(op)] * 5)

Bcd ==
    /\ Executing(OP_MISC2) /\ Imm(op) = \h33
    /\ ram' = PokeDigits(ram, i, v[X(op)])
    /\ Finish(pc)
    /\ UNCHANGED <<registers, fb, status>>

LoadRegisters(w, m, a, last) == [r \in Reg |-> IF r <= last THEN Peek(m, a + r) ELSE w[r]]

Load ==
    /\ Executing(OP_MISC2) /\ Imm(op) = \h65
    /\ SetRegisters(LoadRegisters(v, ram, i, X(op)))

Draw ==
    LET toggled == Toggled(ram, i, DrawX, DrawY, Nib(op)) IN
    /\ Executing(OP_DRAW)
    /\ fb' = Flip(fb, toggled)
    /\ v' = Flag(v, toggled \cap fb # {})
    /\ Finish(pc)
    /\ UNCHANGED <<i, stack, sp, ram, status>>

-----------------------------------------------------------------------------
(* The ends of a run.                                                      *)

Implemented ==
    /\ Class(op) = OP_MISC  => Imm(op) \in {\hE0, \hEE}
    /\ Class(op) = OP_MATH  => Nib(op) \in MathCases
    /\ Class(op) = OP_MISC2 => Imm(op) \in {\h07, \h15, \h29, \h33, \h65}

Unimplemented ==
    /\ status = "running" /\ InBounds /\ ~Implemented
    /\ status' = "exited"
    /\ UNCHANGED <<registers, pc, delayTimer, ram, fb>>

GoWild ==
    /\ status = "running" /\ ~InBounds
    /\ status' = "wild"
    /\ UNCHANGED <<registers, pc, delayTimer, ram, fb>>

Next ==
    \/ ClearScreen \/ Return \/ Jump \/ JumpIndexed \/ Call
    \/ SkipEqualImm \/ SkipNotEqualImm \/ SkipEqual \/ SkipNotEqual
    \/ MoveImm \/ AddImm \/ Rand \/ KeyInput \/ ReadDelay \/ ReadSound
    \/ MathMove \/ MathOr \/ MathAnd \/ MathXor \/ MathAdd \/ MathSubtract
    \/ MathShiftRight \/ MathSubtractInto \/ MathShiftLeft
    \/ Store \/ Glyph \/ Bcd \/ Load \/ Draw
    \/ Unimplemented \/ GoWild

Spec == Init /\ [][Next]_vars

-----------------------------------------------------------------------------
(* Properties.                                                             *)

\* Every variable keeps the range of its C type or array, sp stays within the
\* 16 slots of cpu.stack and i within ram, whatever program is run.
TypeOK ==
    /\ v \in [Reg -> Byte]
    /\ i \in 0..(RamSize - 1)
    /\ pc \in Word
    /\ stack \in [0..(StackSize - 1) -> 0..(RamSize - 1)]
    /\ sp \in 0..StackSize
    /\ delayTimer \in 0..(TimerRange - 1)
    /\ IsMemory(ram)
    /\ fb \subseteq Pixels
    /\ status \in {"running", "exited", "wild"}

\* The high byte of the opcode at a is a CALL's, or a digit that FX33 wrote.
CallOrDigit(m, a) == Peek(m, a) \div 16 = OP_CALL \/ Peek(m, a) \in 0..9

\* Each frame on cpu.stack is the address of the CALL that pushed it, so 00EE
\* resumes behind a call: no jump, return or store loses or shifts a frame.
\* Only a program that writes decimal digits over its own code escapes this.
StackHoldsCallSites == \A k \in 0..(sp - 1) : CallOrDigit(ram, stack[k])

=============================================================================
