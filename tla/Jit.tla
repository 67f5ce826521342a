--------------------------------- MODULE Jit ---------------------------------
(***************************************************************************)
(* The JIT engine, src/emu/src/cpuJit.c.  cpuJitRun translates instructions *)
(* into mainBuffer until it meets one whose outcome depends on registers: a *)
(* skip, an indexed jump or a sprite.  It then runs the buffer, empties it   *)
(* and interprets that last instruction.  Jumps, calls and returns take     *)
(* effect at once, while they are translated; everything else takes effect  *)
(* only when the buffer runs.                                              *)
(*                                                                         *)
(* The machine code of one instruction is abstracted to its opcode in buf;  *)
(* its length in bytes is counted in len, and Effect says what it does.    *)
(*                                                                         *)
(* status is "running", "exited", "wild" (see Interp), or "overflow" once   *)
(* code was written past the end of the executable buffer.                 *)
(***************************************************************************)
EXTENDS Chip8

CONSTANT ExecBufferSize    \* EXEC_BUFFER_SIZE, 4096 in the code

ASSUME ExecBufferAssumption == ExecBufferSize \in Nat \ {0}

VARIABLES
    v, i, pc, stack, sp,   \* cpu
    ram, fb,               \* memory and screen, see Chip8
    buf,                   \* the opcodes whose code is in mainBuffer
    rest,                  \* those of buf that the processor has yet to run
    len,                   \* mainBuffer.length
    op,                    \* the local `op` while the buffer runs, 0 otherwise
    phase,                 \* "main", "translate" or "execute"
    status

vars == <<v, i, pc, stack, sp, ram, fb, buf, rest, len, op, phase, status>>

Init ==
    /\ v = [r \in Reg |-> 0]
    /\ i = 0
    /\ pc = Entry
    /\ stack = [k \in 0..(StackSize - 1) |-> 0]
    /\ sp = 0
    /\ ram \in BootImages
    /\ fb = {}
    /\ buf = <<>> /\ rest = <<>> /\ len = 0
    /\ op = 0
    /\ phase = "main"
    /\ status = "running"

Running(p) == status = "running" /\ phase = p

\* main calls cpuJitRun.
Enter ==
    /\ Running("main")
    /\ phase' = "translate"
    /\ UNCHANGED <<v, i, pc, stack, sp, ram, fb, buf, rest, len, op, status>>

-----------------------------------------------------------------------------
(* Translation of the instruction at pc.                                   *)

code == Fetch(ram, pc)

InRam(a) == a \in 0..(RamSize - 1)

\* What the translation itself reads or writes stays inside its array.
TranslatesInBounds ==
    /\ InRam(pc + 1)
    /\ Class(code) = OP_CALL => sp < StackSize
    /\ (Class(code) = OP_MISC /\ Imm(code) = \hEE) => sp \in 1..StackSize

Translating(c) == Running("translate") /\ TranslatesInBounds /\ Class(code) = c

\* size bytes are added to mainBuffer.
AddCode(size) ==
    /\ len' = len + size
    /\ status' = IF len + size > ExecBufferSize THEN "overflow" ELSE status

Emit(size) ==
    /\ AddCode(size)
    /\ buf' = Append(buf, code)
    /\ pc' = (pc + 2) % WordSize
    /\ UNCHANGED <<v, i, stack, sp, ram, fb, rest, op, phase>>

EmitClear   == Translating(OP_MISC) /\ Imm(code) = \hE0 /\ Emit(12)
EmitMoveImm == Translating(OP_MOV_IMM) /\ Emit(13)
EmitAddImm  == Translating(OP_ADD_IMM) /\ Emit(20)
EmitStore   == Translating(OP_STORE) /\ Emit(15)
EmitMove    == Translating(OP_MATH) /\ Nib(code) = 0 /\ Emit(18)
EmitAnd     == Translating(OP_MATH) /\ Nib(code) = 2 /\ Emit(21)
EmitSubtract     == Translating(OP_MATH) /\ Nib(code) = 5 /\ Emit(54)
EmitSubtractInto == Translating(OP_MATH) /\ Nib(code) = 7 /\ Emit(54)
EmitShiftLeft    == Translating(OP_MATH) /\ Nib(code) = 14 /\ Emit(42)
EmitGlyph   == Translating(OP_MISC2) /\ Imm(code) = \h29 /\ Emit(36)
EmitBcd     == Translating(OP_MISC2) /\ Imm(code) = \h33 /\ Emit(82)
EmitLoad    == Translating(OP_MISC2) /\ Imm(code) = \h65 /\ Emit(52)

\* Control transfers are done by the translator, not by emitted code.
Transfer(p) ==
    /\ pc' = (p + 2) % WordSize
    /\ UNCHANGED <<v, i, ram, fb, buf, rest, len, op, phase, status>>

Return ==
    /\ Translating(OP_MISC) /\ Imm(code) = \hEE
    /\ sp' = sp - 1
    /\ Transfer(stack[sp - 1])
    /\ UNCHANGED stack

Jump ==
    /\ Translating(OP_JMP)
    /\ Transfer(Addr(code) - 2)
    /\ UNCHANGED <<stack, sp>>

\* Faulty variant of Call: pushes the address behind the call.
CallPushingNext ==
    /\ Translating(OP_CALL)
    /\ stack' = [stack EXCEPT ![sp] = (pc + 2) % WordSize]
    /\ sp' = sp + 1
    /\ Transfer(Addr(code) - 2)

Call ==
    /\ Translating(OP_CALL)
    /\ stack' = [stack EXCEPT ![sp] = pc]
    /\ sp' = sp + 1
    /\ Transfer(Addr(code) - 2)

BlockEnds == {OP_DRAW, OP_SKIP1, OP_SKIP2, OP_JMP_INDEX}

\* Faulty variant of EndBlock: the buffer is not called.
EndBlockUnrun ==
    /\ \E c \in BlockEnds : Translating(c)
    /\ AddCode(1)
    /\ op' = code
    /\ phase' = "execute"
    /\ UNCHANGED <<v, i, pc, stack, sp, ram, fb, buf, rest>>

\* A block ends: `ret` is added and execBufferRun calls the buffer.
EndBlock ==
    /\ \E c \in BlockEnds : Translating(c)
    /\ AddCode(1)
    /\ rest' = buf
    /\ op' = code
    /\ phase' = "execute"
    /\ UNCHANGED <<v, i, pc, stack, sp, ram, fb, buf>>

Implemented ==
    /\ Class(code) \notin {OP_SKIP3, OP_SKIP4, OP_RAND, OP_IN}
    /\ Class(code) = OP_MISC  => Imm(code) \in {\hE0, \hEE}
    /\ Class(code) = OP_MATH  => Nib(code) \in {0, 2, 5, 7, 14}
    /\ Class(code) = OP_MISC2 => Imm(code) \in {\h29, \h33, \h65}

\* unimplemented() exits with the buffer's code never run.
Unimplemented ==
    /\ Running("translate") /\ TranslatesInBounds /\ ~Implemented
    /\ status' = "exited"
    /\ UNCHANGED <<v, i, pc, stack, sp, ram, fb, buf, rest, len, op, phase>>

TranslateWild ==
    /\ Running("translate") /\ ~TranslatesInBounds
    /\ status' = "wild"
    /\ UNCHANGED <<v, i, pc, stack, sp, ram, fb, buf, rest, len, op, phase>>

-----------------------------------------------------------------------------
(* The emitted code.  s is a record of the variables that it changes, h the *)
(* opcode that it was emitted for.  The flag of the two subtractions comes   *)
(* from a 16-bit `sub ax, bx` whose high bytes are left over from earlier    *)
(* code, so that g, the flag it sets, may be either value.                 *)

Machine == [v |-> v, i |-> i, ram |-> ram, fb |-> fb]

StaleFlag == {0, 1}

\* Faulty variant of Put: ax is stored instead of al.
PutWord(w, x, b) == [w EXCEPT ![x] = b % WordSize]

Put(w, x, b) == [w EXCEPT ![x] = b % 256]

\* The AND is computed in al and never stored.
MathCode(n, w, x, y, g) ==
    IF n = 0       THEN Put(w, x, w[y])
    ELSE IF n = 5  THEN Put(Put(w, x, w[x] - w[y]), 15, g)
    ELSE IF n = 7  THEN Put(Put(w, x, w[y] - w[x]), 15, g)
    ELSE IF n = 14 THEN Put(Put(w, x, w[x] * 2), 15, w[x] \div 128)
    ELSE w

\* `movzx eax, byte [rdx]` takes only the low byte of cpu.i.  The `jnz` at the
\* end lands two bytes early, on the zero bytes of the address of cpu.v, which
\* run as `add [rax], al`: the next `mov` overwrites what they change.
LoadCode(h, s) == [r \in Reg |-> IF r <= X(h) THEN Peek(s.ram, (s.i % 256) + r) ELSE s.v[r]]

RegisterCode(h, s, g) ==
    IF Class(h) = OP_MOV_IMM      THEN Put(s.v, X(h), Imm(h))
    ELSE IF Class(h) = OP_ADD_IMM THEN Put(s.v, X(h), s.v[X(h)] + Imm(h))
    ELSE IF Class(h) = OP_MATH    THEN MathCode(Nib(h), s.v, X(h), Y(h), g)
    ELSE IF Class(h) = OP_MISC2 /\ Imm(h) = \h65 THEN LoadCode(h, s)
    ELSE s.v

IndexCode(h, s) ==
    IF Class(h) = OP_STORE THEN Addr(h)
    ELSE IF Class(h) = OP_MISC2 /\ Imm(h) = \h29 THEN s.v[X(h)] * 5
    ELSE s.i

IsBcd(h) == Class(h) = OP_MISC2 /\ Imm(h) = \h33

RamCode(h, s) == IF IsBcd(h) THEN PokeDigits(s.ram, s.i, s.v[X(h)]) ELSE s.ram

ScreenCode(h, s) == IF Class(h) = OP_MISC THEN {} ELSE s.fb

Effect(h, s, g) ==
    [v |-> RegisterCode(h, s, g), i |-> IndexCode(h, s),
     ram |-> RamCode(h, s), fb |-> ScreenCode(h, s)]

CodeInBounds(h) == IsBcd(h) => InRam(i + 2)

\* The processor runs the code of the next instruction in the buffer.
Execute ==
    /\ Running("execute") /\ rest # <<>> /\ CodeInBounds(Head(rest))
    /\ \E g \in StaleFlag :
          LET after == Effect(Head(rest), Machine, g) IN
          /\ v' = after.v /\ i' = after.i /\ ram' = after.ram /\ fb' = after.fb
    /\ rest' = Tail(rest)
    /\ UNCHANGED <<pc, stack, sp, buf, len, op, phase, status>>

ExecuteWild ==
    /\ Running("execute") /\ rest # <<>> /\ ~CodeInBounds(Head(rest))
    /\ status' = "wild"
    /\ UNCHANGED <<v, i, pc, stack, sp, ram, fb, buf, rest, len, op, phase>>

-----------------------------------------------------------------------------
(* After the buffer has run: `length = 0` empties it, the last instruction of *)
(* the block is interpreted from the `op` fetched before, cpuJitRun returns. *)

Ending(c) == Running("execute") /\ rest = <<>> /\ Class(op) = c

\* Faulty variants of Leave: without `length = 0`, and without the `return`.
LeaveUnemptied(p) ==
    /\ pc' = (p + 2) % WordSize
    /\ op' = 0
    /\ phase' = "main"
    /\ UNCHANGED <<i, stack, sp, ram, buf, rest, len, status>>

LeaveIntoTranslation(p) ==
    /\ pc' = (p + 2) % WordSize
    /\ buf' = <<>> /\ len' = 0
    /\ op' = 0
    /\ phase' = "translate"
    /\ UNCHANGED <<i, stack, sp, ram, rest, status>>

Leave(p) ==
    /\ pc' = (p + 2) % WordSize
    /\ buf' = <<>> /\ len' = 0
    /\ op' = 0
    /\ phase' = "main"
    /\ UNCHANGED <<i, stack, sp, ram, rest, status>>

SkipEqualImm ==
    /\ Ending(OP_SKIP1)
    /\ Leave(IF v[X(op)] = Imm(op) THEN pc + 2 ELSE pc)
    /\ UNCHANGED <<v, fb>>

SkipNotEqualImm ==
    /\ Ending(OP_SKIP2)
    /\ Leave(IF v[X(op)] # Imm(op) THEN pc + 2 ELSE pc)
    /\ UNCHANGED <<v, fb>>

JumpIndexed ==
    /\ Ending(OP_JMP_INDEX)
    /\ Leave(v[0] + Addr(op) - 2)
    /\ UNCHANGED <<v, fb>>

DrawX == v[X(op)] % FrameWidth
DrawY == v[Y(op)] % FrameWidth

DrawInBounds ==
    Nib(op) > 0 => /\ InRam(i + Nib(op) - 1)
                   /\ Touched(DrawX, DrawY, Nib(op)) \subseteq Pixels

Draw ==
    LET toggled == Toggled(ram, i, DrawX, DrawY, Nib(op)) IN
    /\ Ending(OP_DRAW) /\ DrawInBounds
    /\ fb' = Flip(fb, toggled)
    /\ v' = Put(v, 15, IF toggled \cap fb # {} THEN 1 ELSE 0)
    /\ Leave(pc)

DrawWild ==
    /\ Ending(OP_DRAW) /\ ~DrawInBounds
    /\ status' = "wild"
    /\ UNCHANGED <<v, i, pc, stack, sp, ram, fb, buf, rest, len, op, phase>>

EmitStep ==
    \/ EmitClear \/ EmitMoveImm \/ EmitAddImm \/ EmitStore \/ EmitMove \/ EmitAnd
    \/ EmitSubtract \/ EmitSubtractInto \/ EmitShiftLeft \/ EmitGlyph \/ EmitBcd \/ EmitLoad

TransferStep == Return \/ Jump \/ Call

LeaveStep == SkipEqualImm \/ SkipNotEqualImm \/ JumpIndexed \/ Draw

\* The steps of cpuJitRun, once main has entered it.
RunStep ==
    \/ EmitStep \/ TransferStep \/ EndBlock \/ Execute \/ LeaveStep
    \/ Unimplemented \/ TranslateWild \/ ExecuteWild \/ DrawWild

Next == Enter \/ RunStep

Spec == Init /\ [][Next]_vars

-----------------------------------------------------------------------------
(* Properties.                                                             *)

TypeOK ==
    /\ v \in [Reg -> Byte]
    /\ i \in 0..(RamSize - 1)
    /\ pc \in Word
    /\ stack \in [0..(StackSize - 1) -> 0..(RamSize - 1)]
    /\ sp \in 0..StackSize
    /\ IsMemory(ram)
    /\ fb \subseteq Pixels
    /\ buf \in Seq(Word) /\ rest \in Seq(Word)
    /\ len \in Nat /\ (status # "overflow" => len <= ExecBufferSize)
    /\ op \in Word
    /\ phase \in {"main", "translate", "execute"}
    /\ status \in {"running", "exited", "wild", "overflow"}

CallOrDigit(m, a) == Peek(m, a) \div 16 = OP_CALL \/ Peek(m, a) \in 0..9

\* Frames on cpu.stack are addresses of calls although they are pushed while
\* earlier stores of the same block are still waiting in the buffer.
StackHoldsCallSites == \A k \in 0..(sp - 1) : CallOrDigit(ram, stack[k])

=============================================================================
