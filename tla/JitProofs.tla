------------------------------ MODULE JitProofs ------------------------------
(***************************************************************************)
(* TLAPS proofs about the JIT engine, for every set of ROMs and every size of *)
(* the executable buffer.                                                  *)
(***************************************************************************)
EXTENDS JitRefines, Lemmas

-----------------------------------------------------------------------------
(* The emitted code.                                                       *)

MachineOK(s) ==
    /\ s.v \in [Reg -> Byte]
    /\ s.i \in 0..(RamSize - 1)
    /\ IsMemory(s.ram)
    /\ s.fb \subseteq Pixels

LEMMA PutType ==
  ASSUME NEW w \in [Reg -> Byte], NEW x \in Reg, NEW b \in Int
  PROVE  Put(w, x, b) \in [Reg -> Byte]
  <1>1. b % 256 \in Byte
    BY DEF Byte
  <1>2. QED
    BY <1>1 DEF Put

LEMMA MathCodeType ==
  ASSUME NEW w \in [Reg -> Byte], NEW x \in Reg, NEW y \in Reg, NEW n, NEW g \in StaleFlag
  PROVE  MathCode(n, w, x, y, g) \in [Reg -> Byte]
  <1>1. w[x] \in Byte /\ w[y] \in Byte /\ 15 \in Reg /\ g \in Int
    BY DEF Reg, StaleFlag
  <1>2. /\ w[x] - w[y] \in Int /\ w[y] - w[x] \in Int /\ w[x] * 2 \in Int
        /\ w[x] \div 128 \in Int /\ w[y] \in Int
    BY <1>1 DEF Byte
  <1>3. Put(w, x, w[y]) \in [Reg -> Byte]
    BY <1>2, PutType
  <1>4. \A b \in Int, f \in Int : Put(Put(w, x, b), 15, f) \in [Reg -> Byte]
    BY <1>1, PutType
  <1>5. QED
    BY <1>1, <1>2, <1>3, <1>4 DEF MathCode

LEMMA LoadCodeType ==
  ASSUME NEW h, NEW s, MachineOK(s)
  PROVE  LoadCode(h, s) \in [Reg -> Byte]
  <1>1. s.i \in Nat /\ s.i % 256 \in Nat
    BY Ranges DEF MachineOK
  <1>2. \A r \in Reg : (s.i % 256) + r \in Nat
    BY <1>1 DEF Reg
  <1>3. \A r \in Reg : Peek(s.ram, (s.i % 256) + r) \in Byte
    BY <1>2, PeekType DEF MachineOK
  <1>4. QED
    BY <1>3 DEF LoadCode, MachineOK

\* The code of an instruction keeps the types if FX33 stays inside ram.
LEMMA EffectType ==
  ASSUME NEW h \in Word, NEW s, MachineOK(s), NEW g \in StaleFlag,
         IsBcd(h) => InRam(s.i + 2)
  PROVE  MachineOK(Effect(h, s, g))
  <1>1. /\ X(h) \in Reg /\ Y(h) \in Reg /\ Imm(h) \in Byte /\ Addr(h) \in 0..(RamSize - 1)
        /\ s.v[X(h)] \in Byte /\ s.i \in Nat
    <2>1. /\ X(h) \in Reg /\ Y(h) \in Reg /\ Imm(h) \in Byte /\ Addr(h) \in 0..(RamSize - 1)
      BY FieldTypes
    <2>2. s.v[X(h)] \in Byte
      BY <2>1 DEF MachineOK
    <2>3. QED
      BY <2>1, <2>2, Ranges DEF MachineOK
  <1>2. RegisterCode(h, s, g) \in [Reg -> Byte]
    <2>1. s.v[X(h)] + Imm(h) \in Int /\ Imm(h) \in Int
      BY <1>1, ByteArithmetic, Ranges
    <2>2. Put(s.v, X(h), Imm(h)) \in [Reg -> Byte]
      BY <1>1, <2>1, PutType DEF MachineOK
    <2>3. Put(s.v, X(h), s.v[X(h)] + Imm(h)) \in [Reg -> Byte]
      BY <1>1, <2>1, PutType DEF MachineOK
    <2>4. MathCode(Nib(h), s.v, X(h), Y(h), g) \in [Reg -> Byte]
      BY <1>1, MathCodeType DEF MachineOK
    <2>5. LoadCode(h, s) \in [Reg -> Byte] /\ s.v \in [Reg -> Byte]
      BY LoadCodeType DEF MachineOK
    <2>6. QED
      BY <2>2, <2>3, <2>4, <2>5 DEF RegisterCode
  <1>3. IndexCode(h, s) \in 0..(RamSize - 1)
    BY <1>1, ByteArithmetic DEF IndexCode, MachineOK
  <1>4. IsMemory(RamCode(h, s))
    <2>1. CASE IsBcd(h)
      <3>1. s.i + 2 < RamSize
        BY <1>1, <2>1, InsideRam DEF InRam
      <3>2. QED
        BY <1>1, <2>1, <3>1, PokeDigitsType DEF RamCode, MachineOK
    <2>2. CASE ~IsBcd(h)
      BY <2>2 DEF RamCode, MachineOK
    <2>3. QED
      BY <2>1, <2>2
  <1>5. ScreenCode(h, s) \subseteq Pixels
    BY DEF ScreenCode, MachineOK
  <1>6. QED
    BY <1>2, <1>3, <1>4, <1>5 DEF Effect, MachineOK

-----------------------------------------------------------------------------
(* Type correctness.                                                       *)

LEMMA CodeTypes ==
  ASSUME TypeOK
  PROVE  /\ pc \in Nat /\ code \in Word
         /\ Addr(code) - 2 \in Int
  <1>1. pc \in Nat
    BY Ranges DEF TypeOK
  <1>2. code \in Word
    BY <1>1, FetchType DEF TypeOK, code
  <1>3. Addr(code) - 2 \in Int
    BY <1>2, FieldTypes, Ranges
  <1>4. QED
    BY <1>1, <1>2, <1>3

LEMMA OpTypes ==
  ASSUME TypeOK
  PROVE  /\ X(op) \in Reg /\ Y(op) \in Reg /\ Nib(op) \in 0..15
         /\ v[X(op)] \in Byte /\ v[Y(op)] \in Byte
         /\ v[0] + Addr(op) - 2 \in Int
         /\ pc \in Int /\ pc + 2 \in Int
  <1>1. /\ X(op) \in Reg /\ Y(op) \in Reg /\ Nib(op) \in 0..15 /\ Addr(op) \in 0..(RamSize - 1)
    BY FieldTypes DEF TypeOK
  <1>2. 0 \in Reg
    BY DEF Reg
  <1>3. v[X(op)] \in Byte /\ v[Y(op)] \in Byte /\ v[0] \in Byte
    BY <1>1, <1>2 DEF TypeOK
  <1>4. v[0] + Addr(op) - 2 \in Int
    BY <1>1, <1>3, AddressArithmetic
  <1>5. QED
    BY <1>1, <1>3, <1>4, CodeTypes

LEMMA InitType == Init => TypeOK
  <1> SUFFICES ASSUME Init PROVE TypeOK
    OBVIOUS
  <1>1. 0 \in Byte /\ Entry \in Word /\ 0 \in Word /\ 0 \in 0..(RamSize - 1) /\ 0 \in 0..StackSize
    BY WordRange DEF Byte, Entry, WordSize, RamSize, StackSize
  <1>2. IsMemory(ram)
    BY BootType DEF Init, BootImages
  <1>3. len \in Nat /\ len <= ExecBufferSize
    BY ExecBufferAssumption DEF Init
  <1>4. buf \in Seq(Word) /\ rest \in Seq(Word)
    BY DEF Init
  <1>5. QED
    BY <1>1, <1>2, <1>3, <1>4 DEF Init, TypeOK

LEMMA AddCodeType ==
  ASSUME TypeOK, NEW size \in Nat, AddCode(size)
  PROVE  /\ len' \in Nat /\ (status' # "overflow" => len' <= ExecBufferSize)
         /\ status' \in {"running", "exited", "wild", "overflow"}
  <1>1. len \in Nat /\ len' = len + size
        /\ status' = IF len + size > ExecBufferSize THEN "overflow" ELSE status
    BY DEF TypeOK, AddCode
  <1>2. QED
    BY <1>1, ExecBufferAssumption DEF TypeOK

LEMMA EmitType == TypeOK /\ EmitStep => TypeOK'
  <1> SUFFICES ASSUME TypeOK, EmitStep PROVE TypeOK'
    OBVIOUS
  <1>1. PICK size \in Nat : Emit(size)
    BY DEF EmitStep, EmitClear, EmitMoveImm, EmitAddImm, EmitStore, EmitMove, EmitAnd,
           EmitSubtract, EmitSubtractInto, EmitShiftLeft, EmitGlyph, EmitBcd, EmitLoad
  <1>2. buf' \in Seq(Word)
    BY <1>1, CodeTypes, AppendProperties DEF Emit, TypeOK
  <1>3. pc' \in Word
    BY <1>1, CodeTypes, NextPc DEF Emit
  <1>4. /\ len' \in Nat /\ (status' # "overflow" => len' <= ExecBufferSize)
        /\ status' \in {"running", "exited", "wild", "overflow"}
    BY <1>1, AddCodeType DEF Emit
  <1>5. QED
    BY <1>1, <1>2, <1>3, <1>4 DEF Emit, TypeOK

LEMMA TransferType == TypeOK /\ TransferStep => TypeOK'
  <1> SUFFICES ASSUME TypeOK, TransferStep PROVE TypeOK'
    OBVIOUS
  <1>1. CASE Return
    <2>1. sp - 1 \in 0..(StackSize - 1) /\ sp - 1 \in 0..StackSize
      BY <1>1 DEF Return, Translating, TranslatesInBounds, StackSize
    <2>2. stack[sp - 1] \in Int
      <3>1. 0..(RamSize - 1) \subseteq Int
        OBVIOUS
      <3>2. QED
        BY <2>1, <3>1 DEF TypeOK
    <2>3. pc' \in Word
      BY <1>1, <2>2, NextPc DEF Return, Transfer
    <2>4. QED
      BY <1>1, <2>1, <2>3 DEF Return, Transfer, TypeOK
  <1>2. CASE Jump
    <2>1. pc' \in Word
      BY <1>2, CodeTypes, NextPc DEF Jump, Transfer
    <2>2. QED
      BY <1>2, <2>1 DEF Jump, Transfer, TypeOK
  <1>3. CASE Call
    <2>1. pc \in 0..(RamSize - 1) /\ sp < StackSize
      BY <1>3, CodeTypes, InsideRam DEF Call, Translating, TranslatesInBounds, InRam
    <2>2. sp + 1 \in 0..StackSize
      BY <2>1 DEF TypeOK, StackSize
    <2>3. stack' \in [0..(StackSize - 1) -> 0..(RamSize - 1)]
      BY <1>3, <2>1 DEF TypeOK, Call
    <2>4. pc' \in Word
      BY <1>3, CodeTypes, NextPc DEF Call, Transfer
    <2>5. QED
      BY <1>3, <2>2, <2>3, <2>4 DEF Call, Transfer, TypeOK
  <1>4. QED
    BY <1>1, <1>2, <1>3 DEF TransferStep

LEMMA EndBlockType == TypeOK /\ EndBlock => TypeOK'
  <1> SUFFICES ASSUME TypeOK, EndBlock PROVE TypeOK'
    OBVIOUS
  <1>1. /\ len' \in Nat /\ (status' # "overflow" => len' <= ExecBufferSize)
        /\ status' \in {"running", "exited", "wild", "overflow"}
    BY AddCodeType DEF EndBlock
  <1>2. op' \in Word
    BY CodeTypes DEF EndBlock
  <1>3. QED
    BY <1>1, <1>2 DEF EndBlock, TypeOK

LEMMA ExecuteType == TypeOK /\ Execute => TypeOK'
  <1> SUFFICES ASSUME TypeOK, Execute PROVE TypeOK'
    OBVIOUS
  <1>1. Head(rest) \in Word /\ Tail(rest) \in Seq(Word)
    BY HeadTailProperties DEF Execute, TypeOK
  <1>2. PICK g \in StaleFlag :
          LET after == Effect(Head(rest), Machine, g) IN
          v' = after.v /\ i' = after.i /\ ram' = after.ram /\ fb' = after.fb
    BY DEF Execute
  <1>3. MachineOK(Machine) /\ Machine.i = i
    BY DEF MachineOK, Machine, TypeOK
  <1>4. MachineOK(Effect(Head(rest), Machine, g))
    BY <1>1, <1>3, EffectType DEF Execute, CodeInBounds
  <1>5. QED
    BY <1>1, <1>2, <1>4 DEF MachineOK, Execute, TypeOK

LEMMA LeaveType ==
  ASSUME TypeOK, NEW p \in Int, Leave(p), v' \in [Reg -> Byte], fb' \subseteq Pixels
  PROVE  TypeOK'
  <1>0. 0 \in Word /\ <<>> \in Seq(Word)
    BY WordRange DEF WordSize
  <1>1. pc' \in Word /\ op' \in Word /\ buf' \in Seq(Word)
    BY <1>0, NextPc DEF Leave
  <1>2. len' \in Nat /\ len' <= ExecBufferSize
    BY ExecBufferAssumption DEF Leave
  <1>3. QED
    BY <1>1, <1>2 DEF Leave, TypeOK

LEMMA LeaveStepType == TypeOK /\ LeaveStep => TypeOK'
  <1> SUFFICES ASSUME TypeOK, LeaveStep PROVE TypeOK'
    OBVIOUS
  <1>1. CASE SkipEqualImm
    BY <1>1, OpTypes, LeaveType DEF SkipEqualImm, TypeOK
  <1>2. CASE SkipNotEqualImm
    BY <1>2, OpTypes, LeaveType DEF SkipNotEqualImm, TypeOK
  <1>3. CASE JumpIndexed
    BY <1>3, OpTypes, LeaveType DEF JumpIndexed, TypeOK
  <1>4. CASE Draw
    <2> DEFINE toggled == Toggled(ram, i, DrawX, DrawY, Nib(op))
    <2>1. fb' \subseteq Pixels
      BY <1>4, OpTypes, DrawnPixels DEF Draw, DrawInBounds, TypeOK
    <2>2. 15 \in Reg
      BY DEF Reg
    <2>3. (IF toggled \cap fb # {} THEN 1 ELSE 0) \in Int
      OBVIOUS
    <2>4. v' \in [Reg -> Byte]
      BY <1>4, <2>2, <2>3, PutType DEF Draw, TypeOK
    <2>5. QED
      BY <1>4, <2>1, <2>4, OpTypes, LeaveType DEF Draw
  <1>5. QED
    BY <1>1, <1>2, <1>3, <1>4 DEF LeaveStep

LEMMA NextType == TypeOK /\ [Next]_vars => TypeOK'
  <1> SUFFICES ASSUME TypeOK, [Next]_vars PROVE TypeOK'
    OBVIOUS
  <1>1. CASE Enter
    BY <1>1 DEF Enter, TypeOK
  <1>2. CASE Unimplemented \/ TranslateWild \/ ExecuteWild \/ DrawWild
    BY <1>2 DEF Unimplemented, TranslateWild, ExecuteWild, DrawWild, Running, Ending, TypeOK
  <1>3. CASE UNCHANGED vars
    BY <1>3 DEF vars, TypeOK
  <1>4. QED
    BY <1>1, <1>2, <1>3, EmitType, TransferType, EndBlockType, ExecuteType, LeaveStepType
       DEF Next, RunStep

\* For every set of ROMs and every size of the buffer, whatever the emitted code
\* does to the registers: every state of the JIT is within the types of cpu_t and
\* the bounds of cpu.stack, ram, fbPixels and the executable buffer (TypeOK).
THEOREM TypeCorrect == Spec => []TypeOK
  BY InitType, NextType, PTL DEF Spec

-----------------------------------------------------------------------------
(* The return stack.                                                       *)

LEMMA EffectKeepsCalls ==
  ASSUME NEW h \in Word, NEW s, MachineOK(s), NEW g, NEW a, CallOrDigit(s.ram, a)
  PROVE  CallOrDigit(Effect(h, s, g).ram, a)
  <1>1. Effect(h, s, g).ram = RamCode(h, s)
    BY DEF Effect
  <1>2. CASE IsBcd(h)
    <2>1. X(h) \in Reg /\ s.i \in Nat
      BY FieldTypes, Ranges DEF MachineOK
    <2>2. s.v[X(h)] \in Byte /\ IsMemory(s.ram)
      BY <2>1 DEF MachineOK
    <2>3. QED
      BY <1>1, <1>2, <2>1, <2>2, PokedByte DEF RamCode, CallOrDigit
  <1>3. CASE ~IsBcd(h)
    BY <1>1, <1>3 DEF RamCode
  <1>4. QED
    BY <1>2, <1>3

\* A call is recognised in ram as it is while it is translated, whatever stores are
\* waiting in the buffer; running them later leaves calls or digits.
LEMMA NextStack == TypeOK /\ StackHoldsCallSites /\ [Next]_vars => StackHoldsCallSites'
  <1> SUFFICES ASSUME TypeOK, StackHoldsCallSites, [Next]_vars PROVE StackHoldsCallSites'
    OBVIOUS
  <1>1. CASE sp' = sp /\ stack' = stack /\ ram' = ram
    BY <1>1 DEF StackHoldsCallSites
  <1>2. CASE Return
    <2>1. sp' = sp - 1 /\ stack' = stack /\ ram' = ram
      BY <1>2 DEF Return, Transfer
    <2>2. 0..(sp' - 1) \subseteq 0..(sp - 1)
      BY <2>1 DEF TypeOK, StackSize
    <2>3. QED
      BY <2>1, <2>2 DEF StackHoldsCallSites
  <1>3. CASE Call
    <2>1. stack' = [stack EXCEPT ![sp] = pc] /\ sp' = sp + 1 /\ ram' = ram
      BY <1>3 DEF Call, Transfer
    <2>2. sp \in 0..(StackSize - 1) /\ sp \in Int /\ sp' - 1 = sp
      BY <1>3, <2>1 DEF Call, Translating, TranslatesInBounds, TypeOK, StackSize
    <2>3. CallOrDigit(ram, pc)
      BY <1>3, ClassOfFetch, CodeTypes DEF Call, Translating, CallOrDigit, TypeOK, code
    <2>4. ASSUME NEW k \in 0..sp PROVE CallOrDigit(ram, stack'[k])
      <3>1. CASE k = sp
        <4>1. stack'[k] = pc
          BY <2>1, <2>2, <3>1 DEF TypeOK
        <4>2. QED
          BY <2>3, <4>1
      <3>2. CASE k # sp
        <4>1. k \in 0..(sp - 1)
          BY <2>2, <3>2
        <4>2. stack'[k] = stack[k]
          BY <2>1, <2>2, <3>2, <4>1 DEF TypeOK
        <4>3. QED
          BY <4>1, <4>2 DEF StackHoldsCallSites
      <3>3. QED
        BY <3>1, <3>2
    <2>5. QED
      BY <2>1, <2>2, <2>4 DEF StackHoldsCallSites
  <1>4. CASE Execute
    <2>1. PICK g : ram' = Effect(Head(rest), Machine, g).ram
      BY <1>4 DEF Execute
    <2>2. Head(rest) \in Word /\ MachineOK(Machine) /\ Machine.ram = ram
      BY <1>4, HeadTailProperties DEF Execute, MachineOK, Machine, TypeOK
    <2>3. \A a : CallOrDigit(ram, a) => CallOrDigit(ram', a)
      BY <2>1, <2>2, EffectKeepsCalls
    <2>4. sp' = sp /\ stack' = stack
      BY <1>4 DEF Execute
    <2>5. QED
      BY <2>3, <2>4 DEF StackHoldsCallSites
  <1>5. CASE EmitStep
    <2>1. PICK size : Emit(size)
      BY <1>5 DEF EmitStep, EmitClear, EmitMoveImm, EmitAddImm, EmitStore, EmitMove, EmitAnd,
             EmitSubtract, EmitSubtractInto, EmitShiftLeft, EmitGlyph, EmitBcd, EmitLoad
    <2>2. QED
      BY <1>1, <2>1 DEF Emit
  <1>6. CASE LeaveStep
    BY <1>1, <1>6 DEF LeaveStep, SkipEqualImm, SkipNotEqualImm, JumpIndexed, Draw, Leave
  <1>7. CASE \/ Enter \/ Jump \/ EndBlock \/ UNCHANGED vars
             \/ Unimplemented \/ TranslateWild \/ ExecuteWild \/ DrawWild
    BY <1>1, <1>7 DEF Enter, Jump, Transfer, EndBlock, Unimplemented, TranslateWild, ExecuteWild,
       DrawWild, vars
  <1>8. QED
    BY <1>2, <1>3, <1>4, <1>5, <1>6, <1>7 DEF Next, RunStep, TransferStep

\* For every set of ROMs, self-modifying ones included, and although the stores of a
\* block run only after its calls were pushed: each frame on cpu.stack is the
\* address of a CALL or of a byte that FX33 has overwritten (StackHoldsCallSites).
THEOREM StackCorrect == Spec => []StackHoldsCallSites
  <1>1. Init => StackHoldsCallSites
    BY DEF Init, StackHoldsCallSites
  <1>2. QED
    BY <1>1, NextStack, TypeCorrect, PTL DEF Spec

-----------------------------------------------------------------------------
(* What waits in the buffer.  Running the instructions of p one after the     *)
(* other brings the machine from m to n, whatever the stale flags are and      *)
(* without leaving ram: t holds the machines in between.                    *)

Runs(p, t) ==
    /\ DOMAIN t = 1..(Len(p) + 1)
    /\ \A k \in 1..Len(p) : /\ IsBcd(p[k]) => InRam(t[k].i + 2)
                            /\ \A g \in StaleFlag : t[k + 1] = Effect(p[k], t[k], g)

Leads(p, m, n) == \E t : Runs(p, t) /\ t[1] = m /\ t[Len(p) + 1] = n

LEMMA NothingWaits ==
  ASSUME NEW m, NEW n
  PROVE  Leads(<<>>, m, n) <=> m = n
  <1>1. Len(<<>>) = 0
    BY EmptySeq
  <1>2. ASSUME m = n PROVE Leads(<<>>, m, n)
    <2> DEFINE t == [k \in 1..1 |-> m]
    <2>1. Runs(<<>>, t) /\ t[1] = m
      BY <1>1 DEF Runs
    <2>2. t[Len(<<>>) + 1] = n
      BY <1>1, <1>2
    <2> HIDE DEF t
    <2>3. QED
      BY <2>1, <2>2 DEF Leads
  <1>3. QED
    BY <1>1, <1>2 DEF Leads

LEMMA OneMoreWaits ==
  ASSUME NEW p \in Seq(Word), NEW h \in Word, NEW m, NEW n, Leads(p, m, n),
         IsBcd(h) => InRam(n.i + 2),
         \A g \in StaleFlag : Effect(h, n, g) = Effect(h, n, 0)
  PROVE  Leads(Append(p, h), m, Effect(h, n, 0))
  <1>1. PICK t : Runs(p, t) /\ t[1] = m /\ t[Len(p) + 1] = n
    BY DEF Leads
  <1> DEFINE q == Append(p, h)
             u == [k \in 1..(Len(p) + 2) |-> IF k = Len(p) + 2 THEN Effect(h, n, 0) ELSE t[k]]
  <1>2. /\ Len(p) \in Nat /\ Len(q) = Len(p) + 1
        /\ q[Len(p) + 1] = h /\ \A k \in 1..Len(p) : q[k] = p[k]
    BY AppendProperties, LenProperties
  <1>3. /\ DOMAIN u = 1..(Len(p) + 2) /\ u[Len(p) + 2] = Effect(h, n, 0)
        /\ \A k \in 1..(Len(p) + 1) : u[k] = t[k]
    BY <1>2
  <1> HIDE DEF q, u
  <1>4. ASSUME NEW k \in 1..Len(q)
        PROVE  /\ IsBcd(q[k]) => InRam(u[k].i + 2)
               /\ \A g \in StaleFlag : u[k + 1] = Effect(q[k], u[k], g)
    <2>1. CASE k = Len(p) + 1
      <3>1. q[k] = h /\ u[k] = n /\ u[k + 1] = Effect(h, n, 0)
        <4>1. k + 1 = Len(p) + 2 /\ k \in 1..(Len(p) + 1)
          BY <1>2, <2>1
        <4>2. u[k] = t[Len(p) + 1]
          BY <1>3, <2>1, <4>1
        <4>3. QED
          BY <1>1, <1>2, <1>3, <2>1, <4>1, <4>2
      <3>2. QED
        BY <3>1
    <2>2. CASE k # Len(p) + 1
      <3>1. k \in 1..Len(p) /\ k \in 1..(Len(p) + 1) /\ k + 1 \in 1..(Len(p) + 1)
        BY <1>2, <2>2
      <3>2. q[k] = p[k] /\ u[k] = t[k] /\ u[k + 1] = t[k + 1]
        BY <1>2, <1>3, <3>1
      <3>3. QED
        BY <1>1, <3>1, <3>2 DEF Runs
    <2>3. QED
      BY <2>1, <2>2
  <1>5. Runs(q, u)
    <2>1. DOMAIN u = 1..(Len(q) + 1)
      BY <1>2, <1>3
    <2>2. QED
      BY <1>4, <2>1 DEF Runs
  <1>6. u[1] = m /\ u[Len(q) + 1] = Effect(h, n, 0)
    <2>1. 1 \in 1..(Len(p) + 1) /\ Len(q) + 1 = Len(p) + 2
      BY <1>2
    <2>2. QED
      BY <1>1, <1>3, <2>1
  <1>7. QED
    BY <1>5, <1>6 DEF Leads, q

LEMMA OneLessWaits ==
  ASSUME NEW p \in Seq(Word), p # <<>>, NEW m, NEW n, Leads(p, m, n)
  PROVE  /\ IsBcd(Head(p)) => InRam(m.i + 2)
         /\ \A g \in StaleFlag : Leads(Tail(p), Effect(Head(p), m, g), n)
  <1>1. PICK t : Runs(p, t) /\ t[1] = m /\ t[Len(p) + 1] = n
    BY DEF Leads
  <1> DEFINE q == Tail(p)
             u == [k \in 1..Len(p) |-> t[k + 1]]
  <1>2. /\ Len(p) \in Nat /\ Len(p) > 0 /\ Head(p) = p[1]
        /\ Len(q) = Len(p) - 1 /\ \A k \in 1..Len(q) : q[k] = p[k + 1]
    BY HeadTailProperties, LenProperties, EmptySeq
  <1>3. /\ IsBcd(Head(p)) => InRam(m.i + 2)
        /\ \A g \in StaleFlag : t[2] = Effect(Head(p), m, g)
    <2>1. 1 \in 1..Len(p) /\ 1 + 1 = 2
      BY <1>2
    <2>2. QED
      BY <1>1, <1>2, <2>1 DEF Runs
  <1>4. Runs(q, u)
    <2>1. DOMAIN u = 1..(Len(q) + 1)
      BY <1>2
    <2>2. ASSUME NEW k \in 1..Len(q)
          PROVE  /\ IsBcd(q[k]) => InRam(u[k].i + 2)
                 /\ \A g \in StaleFlag : u[k + 1] = Effect(q[k], u[k], g)
      <3>1. k \in 1..Len(p) /\ k + 1 \in 1..Len(p)
        BY <1>2
      <3>2. q[k] = p[k + 1] /\ u[k] = t[k + 1] /\ u[k + 1] = t[k + 1 + 1]
        BY <1>2, <3>1
      <3>3. QED
        BY <1>1, <3>1, <3>2 DEF Runs
    <2>3. QED
      BY <2>1, <2>2 DEF Runs
  <1>5. u[1] = t[2] /\ u[Len(q) + 1] = n
    <2>1. 1 \in 1..Len(p) /\ Len(p) \in 1..Len(p) /\ Len(q) + 1 = Len(p)
      BY <1>2
    <2>2. QED
      BY <1>1, <2>1
  <1> HIDE DEF q, u
  <1>6. QED
    BY <1>3, <1>4, <1>5 DEF Leads, q

-----------------------------------------------------------------------------
(* The invariant of the refinement: what waits leads from the machine to ahead. *)

Waiting == IF phase = "execute" THEN rest ELSE buf

AheadOK == MachineOK(ahead) /\ Leads(Waiting, Machine, ahead)

\* Between two calls of cpuJitRun nothing waits, and the instruction that ends a
\* block is the one that the interpreter would fetch.
BlockOK ==
    /\ phase = "main" => buf = <<>>
    /\ phase = "execute" => /\ InRam(pc + 1) /\ Class(op) \in BlockEnds
                            /\ op = Fetch(ahead.ram, pc)

SimInv == TypeOK /\ (status = "running" => AheadOK /\ BlockOK)

\* Translation goes on only while the two engines agree.
Agreeing == Running("translate") => ~TranslatedEarly /\ ~MeansElse(code, ahead)

LEMMA FlagIndependent ==
  ASSUME NEW h, NEW s, ~MeansElse(h, s)
  PROVE  \A g \in StaleFlag : Effect(h, s, g) = Effect(h, s, 0)
  <1>1. Class(h) = OP_MATH => Nib(h) \notin {5, 7, 14}
    BY DEF MeansElse
  <1>2. \A g \in StaleFlag : RegisterCode(h, s, g) = RegisterCode(h, s, 0)
    BY <1>1 DEF RegisterCode, MathCode, OP_MATH, OP_MOV_IMM, OP_ADD_IMM
  <1>3. QED
    BY <1>2 DEF Effect

LEMMA BcdAgrees ==
  ASSUME NEW h, NEW s, ~MeansElse(h, s), IsBcd(h)
  PROVE  InRam(s.i + 2)
  BY DEF MeansElse

LEMMA MachineType == TypeOK => MachineOK(Machine)
  BY DEF TypeOK, MachineOK, Machine

LEMMA SimInit == HInit => SimInv
  <1> SUFFICES ASSUME HInit PROVE SimInv
    OBVIOUS
  <1>1. TypeOK /\ phase = "main" /\ buf = <<>> /\ ahead = Machine
    BY InitType DEF HInit, Init
  <1>2. AheadOK
    BY <1>1, MachineType, NothingWaits DEF AheadOK, Waiting
  <1>3. QED
    BY <1>1, <1>2 DEF SimInv, BlockOK

LEMMA SimEmit == SimInv /\ Agreeing /\ HEmit => SimInv'
  <1> SUFFICES ASSUME SimInv, Agreeing, HEmit PROVE SimInv'
    OBVIOUS
  <1>1. Running("translate") /\ \E size : Emit(size)
    BY DEF HEmit, EmitStep, EmitClear, EmitMoveImm, EmitAddImm, EmitStore, EmitMove, EmitAnd,
           EmitSubtract, EmitSubtractInto, EmitShiftLeft, EmitGlyph, EmitBcd, EmitLoad, Translating
  <1>2. /\ AheadOK /\ TypeOK /\ code \in Word /\ buf \in Seq(Word)
        /\ phase = "translate" /\ phase' = "translate" /\ Waiting = buf
    BY <1>1, CodeTypes DEF SimInv, Running, Emit, TypeOK, Waiting
  <1>3. /\ IsBcd(code) => InRam(ahead.i + 2)
        /\ \A g \in StaleFlag : Effect(code, ahead, g) = Effect(code, ahead, 0)
    BY <1>1, BcdAgrees, FlagIndependent DEF Agreeing
  <1>4. Leads(Append(buf, code), Machine, Effect(code, ahead, 0))
    BY <1>2, <1>3, OneMoreWaits DEF AheadOK
  <1>5. /\ ahead' = Effect(code, ahead, 0) /\ Waiting' = Append(buf, code) /\ Machine' = Machine
    BY <1>1, <1>2 DEF HEmit, Emit, Waiting, Machine
  <1>6. MachineOK(ahead')
    BY <1>2, <1>3, <1>5, EffectType DEF AheadOK, StaleFlag
  <1>7. AheadOK'
    BY <1>4, <1>5, <1>6 DEF AheadOK
  <1>8. TypeOK'
    BY <1>2, EmitType DEF HEmit
  <1>9. QED
    BY <1>2, <1>7, <1>8 DEF SimInv, BlockOK

LEMMA SimTransfer == SimInv /\ HTransfer => SimInv'
  <1> SUFFICES ASSUME SimInv, HTransfer PROVE SimInv'
    OBVIOUS
  <1>1. /\ Running("translate")
        /\ UNCHANGED <<v, i, ram, fb, buf, rest, op, phase, status, ahead>>
    BY DEF HTransfer, TransferStep, Return, Jump, Call, Transfer, Translating
  <1>2. AheadOK /\ BlockOK /\ TypeOK
    BY <1>1 DEF SimInv, Running
  <1>3. AheadOK'
    BY <1>1, <1>2 DEF AheadOK, Waiting, Machine
  <1>4. QED
    BY <1>1, <1>2, <1>3, TransferType DEF SimInv, BlockOK, HTransfer, Running

LEMMA SimLeave == SimInv /\ HLeave => SimInv'
  <1> SUFFICES ASSUME SimInv, HLeave PROVE SimInv'
    OBVIOUS
  <1>1. ahead' = Machine' /\ phase' = "main" /\ buf' = <<>>
    BY DEF HLeave, LeaveStep, SkipEqualImm, SkipNotEqualImm, JumpIndexed, Draw, Leave
  <1>2. TypeOK'
    BY LeaveStepType DEF HLeave, SimInv
  <1>3. MachineOK(Machine')
    BY <1>2 DEF TypeOK, MachineOK, Machine
  <1>4. Leads(Waiting', Machine', ahead')
    BY <1>1, NothingWaits DEF Waiting
  <1>5. AheadOK'
    BY <1>1, <1>3, <1>4 DEF AheadOK
  <1>6. QED
    BY <1>1, <1>2, <1>5 DEF SimInv, BlockOK

LEMMA SimExecute == SimInv /\ Execute /\ UNCHANGED history => SimInv'
  <1> SUFFICES ASSUME SimInv, Execute, UNCHANGED history PROVE SimInv'
    OBVIOUS
  <1>1. /\ AheadOK /\ BlockOK /\ TypeOK /\ phase = "execute" /\ rest # <<>>
        /\ rest \in Seq(Word) /\ Waiting = rest
    BY DEF SimInv, Execute, Running, TypeOK, Waiting
  <1>2. /\ rest' = Tail(rest) /\ Waiting' = Tail(rest)
        /\ ahead' = ahead /\ UNCHANGED <<pc, buf, op, phase, status>>
    BY <1>1 DEF Execute, Waiting, history
  <1>3. PICK g \in StaleFlag : Machine' = Effect(Head(rest), Machine, g)
    BY DEF Execute, Machine, Effect
  <1>4. Leads(Tail(rest), Effect(Head(rest), Machine, g), ahead)
    BY <1>1, OneLessWaits DEF AheadOK
  <1>5. AheadOK'
    BY <1>1, <1>2, <1>3, <1>4 DEF AheadOK
  <1>6. QED
    BY <1>1, <1>2, <1>5, ExecuteType DEF SimInv, BlockOK

LEMMA SimEndBlock == SimInv /\ Agreeing /\ EndBlock /\ UNCHANGED history => SimInv'
  <1> SUFFICES ASSUME SimInv, Agreeing, EndBlock, UNCHANGED history PROVE SimInv'
    OBVIOUS
  <1>1. /\ Running("translate") /\ InRam(pc + 1) /\ Class(code) \in BlockEnds
        /\ op' = code /\ phase' = "execute" /\ rest' = buf
        /\ UNCHANGED <<v, i, ram, fb, pc, ahead>>
    BY DEF EndBlock, Translating, TranslatesInBounds, history
  <1>2. AheadOK /\ TypeOK /\ Waiting = buf /\ Waiting' = buf /\ Machine' = Machine
    BY <1>1 DEF SimInv, Running, Waiting, Machine
  <1>3. code = Fetch(ahead.ram, pc)
    BY <1>1 DEF Agreeing, TranslatedEarly
  <1>4. AheadOK' /\ BlockOK'
    BY <1>1, <1>2, <1>3 DEF AheadOK, BlockOK
  <1>5. QED
    BY <1>2, <1>4, EndBlockType DEF SimInv

LEMMA SimEnter == SimInv /\ Enter /\ UNCHANGED history => SimInv'
  <1> SUFFICES ASSUME SimInv, Enter, UNCHANGED history PROVE SimInv'
    OBVIOUS
  <1>1. /\ status = "running" /\ phase = "main" /\ phase' = "translate"
        /\ UNCHANGED <<v, i, pc, ram, fb, buf, rest, op, status, ahead>>
    BY DEF Enter, Running, history
  <1>2. AheadOK /\ TypeOK
    BY <1>1 DEF SimInv
  <1>3. AheadOK' /\ BlockOK'
    BY <1>1, <1>2 DEF AheadOK, BlockOK, Waiting, Machine
  <1>4. QED
    BY <1>2, <1>3, NextType DEF SimInv, Next

LEMMA SimEnd ==
  SimInv /\ (Unimplemented \/ TranslateWild \/ ExecuteWild \/ DrawWild) => SimInv'
  <1> SUFFICES ASSUME SimInv, Unimplemented \/ TranslateWild \/ ExecuteWild \/ DrawWild
               PROVE  SimInv'
    OBVIOUS
  <1>1. status' # "running"
    BY DEF Unimplemented, TranslateWild, ExecuteWild, DrawWild
  <1>2. TypeOK'
    BY NextType DEF SimInv, Next, RunStep
  <1>3. QED
    BY <1>1, <1>2 DEF SimInv

LEMMA SimNext == SimInv /\ [HNext]_hvars => SimInv'
  <1> SUFFICES ASSUME SimInv, [HNext]_hvars PROVE SimInv'
    OBVIOUS
  <1>1. CASE HNext
    <2>1. Agreeing
      BY <1>1 DEF HNext, Departs, Agreeing
    <2>2. QED
      BY <1>1, <2>1, SimEmit, SimTransfer, SimLeave, SimExecute, SimEndBlock, SimEnter, SimEnd
         DEF HNext, HWait
  <1>2. CASE UNCHANGED hvars
    <2>1. UNCHANGED <<v, i, pc, ram, fb, buf, rest, op, phase, status, ahead>> /\ UNCHANGED vars
      BY <1>2 DEF hvars, vars, history
    <2>2. TypeOK'
      BY <2>1, NextType DEF SimInv
    <2>3. QED
      BY <2>1, <2>2 DEF SimInv, AheadOK, BlockOK, Waiting, Machine
  <1>3. QED
    BY <1>1, <1>2

\* For every set of ROMs and every size of the buffer: however long a block is, and
\* whatever transfers of control it contains, running its code brings the machine to
\* exactly the state that translation counted on (BufferDelivers).
THEOREM Delivery == HSpec => []BufferDelivers
  <1>1. SimInv => BufferDelivers
    <2> SUFFICES ASSUME SimInv, Delivered, status = "running" PROVE ahead = Machine
      BY DEF BufferDelivers
    <2>1. Leads(<<>>, Machine, ahead)
      BY DEF SimInv, AheadOK, Delivered, Waiting
    <2>2. QED
      BY <2>1, NothingWaits
  <1>2. QED
    BY <1>1, SimInit, SimNext, PTL DEF HSpec

-----------------------------------------------------------------------------
(* The interpreter implemented: every step of the JIT is one of I or a stutter. *)

\* Chip8 is the same module through I as it is here.
LEMMA SameDecoding ==
  /\ I!OP_MISC = OP_MISC /\ I!OP_JMP = OP_JMP /\ I!OP_CALL = OP_CALL
  /\ I!OP_SKIP1 = OP_SKIP1 /\ I!OP_SKIP2 = OP_SKIP2 /\ I!OP_SKIP3 = OP_SKIP3
  /\ I!OP_SKIP4 = OP_SKIP4 /\ I!OP_MOV_IMM = OP_MOV_IMM /\ I!OP_ADD_IMM = OP_ADD_IMM
  /\ I!OP_MATH = OP_MATH /\ I!OP_STORE = OP_STORE /\ I!OP_JMP_INDEX = OP_JMP_INDEX
  /\ I!OP_RAND = OP_RAND /\ I!OP_DRAW = OP_DRAW /\ I!OP_IN = OP_IN /\ I!OP_MISC2 = OP_MISC2
  /\ \A h : /\ I!Class(h) = Class(h) /\ I!X(h) = X(h) /\ I!Y(h) = Y(h)
            /\ I!Nib(h) = Nib(h) /\ I!Imm(h) = Imm(h) /\ I!Addr(h) = Addr(h)
  BY Zenon DEF OP_MISC, OP_JMP, OP_CALL, OP_SKIP1, OP_SKIP2, OP_SKIP3, OP_SKIP4, OP_MOV_IMM, OP_ADD_IMM,
         OP_MATH, OP_STORE, OP_JMP_INDEX, OP_RAND, OP_DRAW, OP_IN, OP_MISC2,
         I!OP_MISC, I!OP_JMP, I!OP_CALL, I!OP_SKIP1, I!OP_SKIP2, I!OP_SKIP3, I!OP_SKIP4,
         I!OP_MOV_IMM, I!OP_ADD_IMM, I!OP_MATH, I!OP_STORE, I!OP_JMP_INDEX, I!OP_RAND, I!OP_DRAW,
         I!OP_IN, I!OP_MISC2, Class, X, Y, Nib, Imm, Addr,
         I!Class, I!X, I!Y, I!Nib, I!Imm, I!Addr

LEMMA SameMemory ==
  /\ I!RamSize = RamSize /\ I!StackSize = StackSize /\ I!Entry = Entry /\ I!Reg = Reg
  /\ I!WordSize = WordSize /\ I!BootImages = BootImages
  /\ \A m, a : I!Peek(m, a) = Peek(m, a) /\ I!Fetch(m, a) = Fetch(m, a)
  /\ \A m, a, b : I!PokeDigits(m, a, b) = PokeDigits(m, a, b)
  <1>1. /\ I!RamSize = RamSize /\ I!StackSize = StackSize /\ I!Entry = Entry /\ I!Reg = Reg
        /\ I!WordSize = WordSize
    BY DEF RamSize, StackSize, Entry, Reg, WordSize, I!RamSize, I!StackSize, I!Entry, I!Reg,
       I!WordSize
  <1>2. I!BootImages = BootImages
    BY <1>1 DEF BootImages, Boot, I!BootImages, I!Boot
  <1>3. I!Font = Font
    BY DEF Font, I!Font
  <1>4. \A m, a : I!Peek(m, a) = Peek(m, a)
    BY <1>3, Zenon DEF Peek, I!Peek
  <1>5. \A m, a : I!Fetch(m, a) = Fetch(m, a)
    BY <1>4, Zenon DEF Fetch, I!Fetch
  <1>6. \A m, a, b : I!PokeDigits(m, a, b) = PokeDigits(m, a, b)
    BY Zenon DEF PokeDigits, I!PokeDigits
  <1>7. QED
    BY <1>1, <1>2, <1>4, <1>5, <1>6

LEMMA SameScreen ==
  /\ I!Pixels = Pixels /\ I!FrameWidth = FrameWidth
  /\ \A S, T : I!Flip(S, T) = Flip(S, T)
  /\ \A x, y, n : I!Touched(x, y, n) = Touched(x, y, n)
  /\ \A m, a, x, y, n : I!Toggled(m, a, x, y, n) = Toggled(m, a, x, y, n)
  <1>1. /\ I!FrameWidth = FrameWidth /\ I!FrameHeight = FrameHeight /\ I!Pixels = Pixels
    BY DEF FrameWidth, FrameHeight, Pixels, I!FrameWidth, I!FrameHeight, I!Pixels
  <1>2. \A S, T : I!Flip(S, T) = Flip(S, T)
    BY DEF Flip, I!Flip
  <1>3. \A n : I!SpriteCells(n) = SpriteCells(n)
    BY DEF SpriteCells, I!SpriteCells
  <1>4. \A b : I!Bits(b) = Bits(b)
    BY Zenon DEF Bits, I!Bits
  <1>5. \A x, y, r, j : I!Target(x, y, r, j) = Target(x, y, r, j)
    BY Zenon DEF Target, TargetColumn, TargetRow, I!Target, I!TargetColumn, I!TargetRow,
       FrameWidth, FrameHeight, I!FrameWidth, I!FrameHeight
  <1>6. \A x, y, n : I!Touched(x, y, n) = Touched(x, y, n)
    BY <1>3, <1>5 DEF Touched, I!Touched
  <1>7. \A m, a, x, y, n : I!Toggled(m, a, x, y, n) = Toggled(m, a, x, y, n)
    <2> SUFFICES ASSUME NEW m, NEW a, NEW x, NEW y, NEW n
                 PROVE  I!Toggled(m, a, x, y, n) = Toggled(m, a, x, y, n)
      OBVIOUS
    <2> DEFINE cells == { d \in SpriteCells(n) : (7 - d[2]) \in Bits(Peek(m, a + d[1])) }
               icells == { d \in I!SpriteCells(n) : (7 - d[2]) \in I!Bits(I!Peek(m, a + d[1])) }
    <2>1. icells = cells
      BY <1>3, <1>4, SameMemory
    <2>2. /\ I!Toggled(m, a, x, y, n) = { I!Target(x, y, c[1], c[2]) : c \in icells }
          /\ Toggled(m, a, x, y, n) = { Target(x, y, c[1], c[2]) : c \in cells }
      BY DEF Toggled, I!Toggled
    <2> HIDE DEF cells, icells
    <2>3. QED
      BY <1>5, <2>1, <2>2
  <1>8. QED
    BY <1>1, <1>2, <1>6, <1>7

\* What an emitted instruction does to the interpreter's view of the JIT.
LEMMA EmittedView ==
  ASSUME SimInv, Agreeing, NEW size \in Nat, Emit(size), NEW c, Translating(c),
         ahead' = Effect(code, ahead, 0), Tick
  PROVE  /\ I!op = code /\ Class(code) = c /\ InRam(pc + 1)
         /\ MachineOK(ahead) /\ code \in Word /\ ~MeansElse(code, ahead)
         /\ status = "running" /\ I!Finish(pc) /\ UNCHANGED <<stack, sp>>
         /\ status' \in {"running", "overflow"}
         /\ ahead'.v = RegisterCode(code, ahead, 0) /\ ahead'.i = IndexCode(code, ahead)
         /\ ahead'.ram = RamCode(code, ahead) /\ ahead'.fb = ScreenCode(code, ahead)
  <1> USE SameMemory
  <1>1. Running("translate") /\ Class(code) = c /\ InRam(pc + 1)
    BY DEF Translating, TranslatesInBounds
  <1>2. MachineOK(ahead) /\ TypeOK
    BY <1>1 DEF SimInv, AheadOK, Running
  <1>3. I!op = code /\ ~MeansElse(code, ahead)
    BY <1>1 DEF Agreeing, TranslatedEarly, I!op
  <1>4. I!Finish(pc) /\ UNCHANGED <<stack, sp>> /\ status' \in {"running", "overflow"}
    BY <1>1 DEF I!Finish, Tick, Emit, AddCode, Running
  <1>5. QED
    BY <1>1, <1>2, <1>3, <1>4, CodeTypes DEF Effect, Running

LEMMA LowAddress ==
  ASSUME NEW a \in 0..(RamSize - 1), ~(a > 255), NEW r \in Reg
  PROVE  InRam(a + r) /\ a % 256 = a
  BY DEF InRam, RamSize, Reg

LEMMA EmitImplements ==
  ASSUME SimInv, Agreeing, HEmit
  PROVE  I!Next
  <1> USE SameDecoding, SameMemory, SameScreen DEF OP_MISC, OP_JMP, OP_CALL, OP_SKIP1, OP_SKIP2, OP_SKIP3, OP_SKIP4, OP_MOV_IMM,
              OP_ADD_IMM, OP_MATH, OP_STORE, OP_JMP_INDEX, OP_RAND, OP_DRAW, OP_IN, OP_MISC2
  <1> DEFINE View(c) ==
         /\ I!op = code /\ Class(code) = c /\ InRam(pc + 1)
         /\ MachineOK(ahead) /\ code \in Word /\ ~MeansElse(code, ahead)
         /\ status = "running" /\ I!Finish(pc) /\ UNCHANGED <<stack, sp>>
         /\ status' \in {"running", "overflow"}
         /\ ahead'.v = RegisterCode(code, ahead, 0) /\ ahead'.i = IndexCode(code, ahead)
         /\ ahead'.ram = RamCode(code, ahead) /\ ahead'.fb = ScreenCode(code, ahead)
  <1>1. \A size \in Nat : \A c : Emit(size) /\ Translating(c) => View(c)
    BY EmittedView DEF HEmit
  <1> HIDE DEF View
  <1>2. CASE EmitClear
    <2>1. View(OP_MISC) /\ Imm(code) = \hE0
      BY <1>1, <1>2 DEF EmitClear
    <2>2. I!ClearScreen
      BY <2>1 DEF View, I!ClearScreen, I!Executing, I!InBounds, I!InRam, InRam, I!registers,
         RegisterCode, IndexCode, RamCode, ScreenCode, IsBcd
    <2>3. QED
      BY <2>2 DEF I!Next
  <1>3. CASE EmitMoveImm
    <2>1. View(OP_MOV_IMM)
      BY <1>1, <1>3 DEF EmitMoveImm
    <2>2. I!MoveImm
      BY <2>1 DEF View, I!MoveImm, I!Executing, I!InBounds, I!InRam, InRam, I!SetRegisters,
         I!Assign, Put, RegisterCode, IndexCode, RamCode, ScreenCode, IsBcd
    <2>3. QED
      BY <2>2 DEF I!Next
  <1>4. CASE EmitAddImm
    <2>1. View(OP_ADD_IMM)
      BY <1>1, <1>4 DEF EmitAddImm
    <2>2. I!AddImm
      BY <2>1 DEF View, I!AddImm, I!Executing, I!InBounds, I!InRam, InRam, I!SetRegisters,
         I!Assign, Put, RegisterCode, IndexCode, RamCode, ScreenCode, IsBcd
    <2>3. QED
      BY <2>2 DEF I!Next
  <1>5. CASE EmitStore
    <2>1. View(OP_STORE)
      BY <1>1, <1>5 DEF EmitStore
    <2>2. I!Store
      BY <2>1 DEF View, I!Store, I!Executing, I!InBounds, I!InRam, InRam, I!SetIndex,
         RegisterCode, IndexCode, RamCode, ScreenCode, IsBcd
    <2>3. QED
      BY <2>2 DEF I!Next
  <1>6. CASE EmitMove
    <2>1. View(OP_MATH) /\ Nib(code) = 0
      BY <1>1, <1>6 DEF EmitMove
    <2>2. I!MathMove
      BY <2>1 DEF View, I!MathMove, I!MathCase, I!Executing, I!InBounds, I!InRam, InRam,
         I!SetRegisters, I!Assign, Put, MathCode, RegisterCode, IndexCode, RamCode, ScreenCode, IsBcd
    <2>3. QED
      BY <2>2 DEF I!Next
  <1>7. CASE EmitAnd \/ EmitSubtract \/ EmitSubtractInto \/ EmitShiftLeft
    <2>1. View(OP_MATH) /\ Nib(code) \in {2, 5, 7, 14}
      BY <1>1, <1>7 DEF EmitAnd, EmitSubtract, EmitSubtractInto, EmitShiftLeft
    <2>2. QED
      BY <2>1 DEF View, MeansElse
  <1>8. CASE EmitGlyph
    <2>1. View(OP_MISC2) /\ Imm(code) = \h29
      BY <1>1, <1>8 DEF EmitGlyph
    <2>2. I!Glyph
      BY <2>1 DEF View, I!Glyph, I!Executing, I!InBounds, I!InRam, InRam, I!SetIndex,
         RegisterCode, IndexCode, RamCode, ScreenCode, IsBcd
    <2>3. QED
      BY <2>2 DEF I!Next
  <1>9. CASE EmitBcd
    <2>1. View(OP_MISC2) /\ Imm(code) = \h33
      BY <1>1, <1>9 DEF EmitBcd
    <2>2. InRam(ahead.i + 2)
      BY <2>1, BcdAgrees DEF View, IsBcd
    <2>3. I!Bcd
      BY <2>1, <2>2 DEF View, I!Bcd, I!Executing, I!InBounds, I!InRam, InRam, I!registers,
         RegisterCode, IndexCode, RamCode, ScreenCode, IsBcd
    <2>4. QED
      BY <2>3 DEF I!Next
  <1>10. CASE EmitLoad
    <2>1. View(OP_MISC2) /\ Imm(code) = \h65
      BY <1>1, <1>10 DEF EmitLoad
    <2>2. ~(ahead.i > 255) /\ ahead.i \in 0..(RamSize - 1) /\ X(code) \in Reg
      BY <2>1, FieldTypes DEF View, MeansElse, MachineOK
    <2>3. InRam(ahead.i + X(code)) /\ ahead.i % 256 = ahead.i
      BY <2>2, LowAddress
    <2>4. ahead'.v = I!LoadRegisters(ahead.v, ahead.ram, ahead.i, X(code))
      BY <2>1, <2>3 DEF View, RegisterCode, LoadCode, I!LoadRegisters
    <2>5. I!Load
      BY <2>1, <2>3, <2>4 DEF View, I!Load, I!Executing, I!InBounds, I!InRam, InRam,
         I!SetRegisters, IndexCode, RamCode, ScreenCode, IsBcd
    <2>6. QED
      BY <2>5 DEF I!Next
  <1>11. QED
    BY <1>2, <1>3, <1>4, <1>5, <1>6, <1>7, <1>8, <1>9, <1>10 DEF HEmit, EmitStep

LEMMA TransferImplements ==
  ASSUME SimInv, Agreeing, HTransfer
  PROVE  I!Next
  <1> USE SameDecoding, SameMemory, SameScreen DEF OP_MISC, OP_JMP, OP_CALL, OP_DRAW, OP_MISC2
  <1>1. /\ Running("translate") /\ TranslatesInBounds /\ Class(code) \in {OP_MISC, OP_JMP, OP_CALL}
        /\ UNCHANGED <<ahead, status>> /\ Tick
    BY DEF HTransfer, TransferStep, Return, Jump, Call, Transfer, Translating
  <1>2. I!op = code
    BY <1>1 DEF Agreeing, TranslatedEarly, I!op
  <1>3. I!Executing(Class(code))
    BY <1>1, <1>2 DEF I!Executing, I!InBounds, I!InRam, InRam, TranslatesInBounds, Running
  <1>4. CASE Return
    <2>1. I!Return
      BY <1>1, <1>2, <1>3, <1>4
         DEF I!Return, Return, I!Finish, Transfer, Tick, Translating
    <2>2. QED
      BY <2>1 DEF I!Next
  <1>5. CASE Jump
    <2>1. I!Jump
      BY <1>1, <1>2, <1>3, <1>5
         DEF I!Jump, Jump, I!Finish, Transfer, Tick, Translating, I!registers
    <2>2. QED
      BY <2>1 DEF I!Next
  <1>6. CASE Call
    <2>1. I!Call
      BY <1>1, <1>2, <1>3, <1>6
         DEF I!Call, Call, I!Finish, Transfer, Tick, Translating
    <2>2. QED
      BY <2>1 DEF I!Next
  <1>7. QED
    BY <1>4, <1>5, <1>6 DEF HTransfer, TransferStep

\* At the end of a block, what the interpreter has is what the JIT has.
LEMMA EndOfBlock ==
  ASSUME SimInv, Running("execute"), rest = <<>>
  PROVE  /\ ahead = Machine /\ I!op = op /\ I!InRam(pc + 1)
         /\ I!DrawX = DrawX /\ I!DrawY = DrawY
  <1> USE SameDecoding, SameMemory, SameScreen
  <1>1. Leads(<<>>, Machine, ahead) /\ BlockOK
    BY DEF SimInv, AheadOK, Waiting, Running
  <1>2. ahead = Machine
    BY <1>1, NothingWaits
  <1>3. I!op = op /\ I!InRam(pc + 1)
    BY <1>1 DEF BlockOK, I!op, I!InRam, InRam, Running
  <1>4. QED
    BY <1>2, <1>3 DEF I!DrawX, I!DrawY, DrawX, DrawY, Machine

LEMMA LeaveImplements ==
  ASSUME SimInv, HLeave
  PROVE  I!Next
  <1> USE SameDecoding, SameMemory, SameScreen DEF OP_MISC, OP_CALL, OP_SKIP1, OP_SKIP2, OP_JMP_INDEX, OP_DRAW, OP_MISC2
  <1>1. /\ Running("execute") /\ rest = <<>> /\ ahead' = Machine' /\ Tick
        /\ UNCHANGED <<i, ram, stack, sp, status>>
    BY DEF HLeave, LeaveStep, SkipEqualImm, SkipNotEqualImm, JumpIndexed, Draw, Leave, Ending
  <1>2. /\ ahead = Machine /\ I!op = op /\ I!InRam(pc + 1)
        /\ I!DrawX = DrawX /\ I!DrawY = DrawY
    BY <1>1, EndOfBlock
  <1>3. /\ ahead.v = v /\ ahead.i = i /\ ahead.ram = ram /\ ahead.fb = fb
        /\ ahead'.v = v' /\ ahead'.i = i' /\ ahead'.ram = ram' /\ ahead'.fb = fb'
    BY <1>1, <1>2 DEF Machine
  <1>4. \A c \in {OP_SKIP1, OP_SKIP2, OP_JMP_INDEX} : Class(op) = c => I!Executing(c)
    BY <1>1, <1>2 DEF I!Executing, I!InBounds, Running
  <1>5. \A p : Leave(p) => I!Finish(p)
    BY <1>1 DEF Leave, I!Finish, Tick
  <1>6. CASE SkipEqualImm
    <2>1. I!SkipEqualImm
      BY <1>1, <1>2, <1>3, <1>4, <1>5, <1>6
         DEF I!SkipEqualImm, I!SkipIf, SkipEqualImm, Ending, I!registers
    <2>2. QED
      BY <2>1 DEF I!Next
  <1>7. CASE SkipNotEqualImm
    <2>1. I!SkipNotEqualImm
      BY <1>1, <1>2, <1>3, <1>4, <1>5, <1>7
         DEF I!SkipNotEqualImm, I!SkipIf, SkipNotEqualImm, Ending, I!registers
    <2>2. QED
      BY <2>1 DEF I!Next
  <1>8. CASE JumpIndexed
    <2>1. I!JumpIndexed
      BY <1>1, <1>2, <1>3, <1>4, <1>5, <1>8
         DEF I!JumpIndexed, JumpIndexed, Ending, I!registers
    <2>2. QED
      BY <2>1 DEF I!Next
  <1>9. CASE Draw
    <2>1. I!Executing(OP_DRAW)
      BY <1>1, <1>2, <1>3, <1>9
         DEF I!Executing, I!InBounds, I!InRam, InRam, Running, Draw, DrawInBounds, Ending
    <2>2. I!Draw
      <3> DEFINE hit == Toggled(ram, i, DrawX, DrawY, Nib(op)) \cap fb # {}
      <3>1. I!Flag(v, hit) = Put(v, 15, IF hit THEN 1 ELSE 0)
        <4> HIDE DEF hit
        <4>1. CASE hit
          BY <4>1 DEF I!Flag, Put
        <4>2. CASE ~hit
          BY <4>2 DEF I!Flag, Put
        <4>3. QED
          BY <4>1, <4>2
      <3>2. QED
        BY <1>1, <1>2, <1>3, <1>5, <1>9, <2>1, <3>1 DEF I!Draw, Draw
    <2>3. QED
      BY <2>2 DEF I!Next
  <1>10. QED
    BY <1>6, <1>7, <1>8, <1>9 DEF HLeave, LeaveStep

LEMMA EndImplements ==
  ASSUME SimInv, Agreeing, UNCHANGED history,
         Unimplemented \/ TranslateWild \/ ExecuteWild \/ DrawWild
  PROVE  I!Next
  <1> USE SameDecoding, SameMemory, SameScreen DEF OP_MISC, OP_CALL, OP_MATH, OP_SKIP3, OP_SKIP4, OP_RAND, OP_DRAW, OP_IN, OP_MISC2
  <1>1. ASSUME Running("translate") PROVE I!op = code /\ ~MeansElse(code, ahead)
    BY <1>1 DEF Agreeing, TranslatedEarly, I!op
  <1>2. CASE Unimplemented
    <2>1. /\ status = "running" /\ I!op = code /\ ~MeansElse(code, ahead)
          /\ TranslatesInBounds /\ ~Implemented
      BY <1>1, <1>2 DEF Unimplemented, Running
    <2>2. I!InBounds /\ ~I!Implemented
      BY <2>1 DEF I!InBounds, I!InRam, InRam, TranslatesInBounds, Implemented, MeansElse,
         I!Implemented, I!MathCases
    <2>3. I!Unimplemented
      BY <1>2, <2>1, <2>2 DEF I!Unimplemented, I!registers, Unimplemented, history
    <2>4. QED
      BY <2>3 DEF I!Next
  <1>3. CASE TranslateWild
    <2>1. ~I!InBounds
      BY <1>1, <1>3 DEF TranslateWild, I!InBounds, I!InRam, InRam, TranslatesInBounds
    <2>2. I!GoWild
      BY <1>3, <2>1 DEF I!GoWild, I!registers, TranslateWild, Running, history
    <2>3. QED
      BY <2>2 DEF I!Next
  <1>4. CASE ExecuteWild
    <2>1. /\ Leads(rest, Machine, ahead) /\ rest \in Seq(Word) /\ rest # <<>>
      BY <1>4 DEF ExecuteWild, Running, SimInv, AheadOK, Waiting, TypeOK
    <2>2. IsBcd(Head(rest)) => InRam(Machine.i + 2)
      BY <2>1, OneLessWaits
    <2>3. QED
      BY <1>4, <2>2 DEF ExecuteWild, CodeInBounds, Machine
  <1>5. CASE DrawWild
    <2>1. Running("execute") /\ rest = <<>> /\ Class(op) = OP_DRAW /\ ~DrawInBounds
      BY <1>5 DEF DrawWild, Ending
    <2>2. ahead = Machine /\ I!op = op /\ I!DrawX = DrawX /\ I!DrawY = DrawY
      BY <2>1, EndOfBlock
    <2>3. ~I!InBounds
      BY <2>1, <2>2 DEF DrawInBounds, I!InBounds, I!InRam, InRam, Machine
    <2>4. I!GoWild
      BY <1>5, <2>1, <2>3 DEF I!GoWild, I!registers, DrawWild, Running, history
    <2>5. QED
      BY <2>4 DEF I!Next
  <1>6. QED
    BY <1>2, <1>3, <1>4, <1>5

LEMMA StepImplements == SimInv /\ [HNext]_hvars => [I!Next]_(I!vars)
  <1> SUFFICES ASSUME SimInv, [HNext]_hvars PROVE [I!Next]_(I!vars)
    OBVIOUS
  <1>1. HNext => Agreeing
    BY DEF HNext, Departs, Agreeing
  <1>2. CASE HNext /\ HEmit
    BY <1>1, <1>2, EmitImplements
  <1>3. CASE HNext /\ HTransfer
    BY <1>1, <1>3, TransferImplements
  <1>4. CASE HLeave
    BY <1>4, LeaveImplements
  <1>5. CASE /\ HNext /\ UNCHANGED history
             /\ Unimplemented \/ TranslateWild \/ ExecuteWild \/ DrawWild
    BY <1>1, <1>5, EndImplements
  <1>6. CASE (Enter \/ EndBlock \/ Execute) /\ UNCHANGED history
    <2>1. UNCHANGED <<ahead, pc, stack, sp, ticks>>
      BY <1>6 DEF Enter, EndBlock, Execute, history
    <2>2. UNCHANGED (IF status = "overflow" THEN "running" ELSE status)
      BY <1>6 DEF Enter, EndBlock, AddCode, Execute, Running, Translating
    <2>3. QED
      BY <2>1, <2>2 DEF I!vars
  <1>7. CASE UNCHANGED hvars
    BY <1>7 DEF hvars, vars, history, I!vars
  <1>8. QED
    BY <1>2, <1>3, <1>4, <1>5, <1>6, <1>7 DEF HNext, HWait

LEMMA InitImplements == HInit => I!Init
  BY SameMemory DEF HInit, Init, Machine, I!Init

\* For every set of ROMs and every size of the buffer: up to the first instruction
\* to which the two engines give different meanings, and as long as no store changes
\* code that is already translated, the JIT is the interpreter (ImplementsInterp).
THEOREM Implementation == HSpec => ImplementsInterp
  <1>1. HSpec => []SimInv
    BY SimInit, SimNext, PTL DEF HSpec
  <1>2. QED
    BY <1>1, InitImplements, StepImplements, PTL DEF HSpec, ImplementsInterp, I!Spec

=============================================================================
