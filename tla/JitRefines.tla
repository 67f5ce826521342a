------------------------------ MODULE JitRefines ------------------------------
(***************************************************************************)
(* The JIT implements the interpreter until it meets an instruction to which *)
(* the two give different meanings: translating an instruction is the        *)
(* interpreter's step, seen through the effects that wait in the buffer, and *)
(* running the buffer changes nothing that can be seen.                    *)
(*                                                                         *)
(* Two history variables carry what the interpreter has and the JIT has not  *)
(* yet: ahead, the machine as it will be once the buffer has run, and ticks, *)
(* the delay timer, which the JIT leaves out.                              *)
(***************************************************************************)
EXTENDS Jit

CONSTANT TimerRange

VARIABLES ahead, ticks

history == <<ahead, ticks>>
hvars == <<vars, history>>

HInit == Init /\ ahead = Machine /\ ticks = 0

Tick == ticks' = IF ticks = 0 THEN TimerRange - 1 ELSE ticks - 1

-----------------------------------------------------------------------------
(* Where the two part.                                                     *)

\* Opcodes that the interpreter executes and the JIT rejects, 8XY2 and the three
\* with a flag, which the JIT computes otherwise, FX65 from a higher address than a
\* byte can hold, and FX33 outside ram, which the JIT only finds out later.
MeansElse(opcode, s) ==
    \/ Class(opcode) \in {OP_SKIP3, OP_SKIP4, OP_RAND, OP_IN}
    \/ Class(opcode) = OP_MATH /\ Nib(opcode) \in (1..7) \cup {14}
    \/ Class(opcode) = OP_MISC2 /\ Imm(opcode) \in {\h07, \h15}
    \/ Class(opcode) = OP_MISC2 /\ Imm(opcode) = \h65 /\ s.i > 255
    \/ IsBcd(opcode) /\ ~InRam(s.i + 2)

\* The opcode is translated although a store that waits in the buffer changes it.
TranslatedEarly == Fetch(ahead.ram, pc) # code

Departs == Running("translate") /\ (TranslatedEarly \/ MeansElse(code, ahead))

-----------------------------------------------------------------------------
HEmit     == EmitStep /\ ahead' = Effect(code, ahead, 0) /\ Tick
HTransfer == TransferStep /\ UNCHANGED ahead /\ Tick
HLeave    == LeaveStep /\ ahead' = Machine' /\ Tick

HWait ==
    /\ \/ Enter \/ EndBlock \/ Execute \/ Unimplemented
       \/ TranslateWild \/ ExecuteWild \/ DrawWild
    /\ UNCHANGED history

HNext == ~Departs /\ (HEmit \/ HTransfer \/ HLeave \/ HWait)

HSpec == HInit /\ [][HNext]_hvars

-----------------------------------------------------------------------------
(* Properties.                                                             *)

\* No code is left to run: none is waiting in the buffer, or all of it has run.
Delivered == IF phase = "execute" THEN rest = <<>> ELSE buf = <<>>

\* Running the buffer brings the machine to the state that translation counted
\* on, block after block: no effect is lost, reordered, or carried over from a
\* block that has run before.
BufferDelivers == (Delivered /\ status = "running") => ahead = Machine

I == INSTANCE Interp WITH
        v <- ahead.v, i <- ahead.i, ram <- ahead.ram, fb <- ahead.fb,
        delayTimer <- ticks,
        status <- IF status = "overflow" THEN "running" ELSE status

\* Every behaviour of the JIT up to such a departure is a behaviour of the
\* interpreter on the same ROM: deferring the effects of a block, and transferring
\* control before they happen, cannot be observed.
ImplementsInterp == I!Spec

=============================================================================
