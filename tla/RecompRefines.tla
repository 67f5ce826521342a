---------------------------- MODULE RecompRefines ----------------------------
(***************************************************************************)
(* The compiled program implements the interpreter for as long as it meets  *)
(* nothing to which src/recomp/src/main.c gives another meaning: calls have  *)
(* become C calls, jumps gotos and skips nested ifs.                       *)
(*                                                                         *)
(* A history variable carries what C hides: slots is cpu.stack as the        *)
(* interpreter would have filled it.                                       *)
(***************************************************************************)
EXTENDS Recomp

\* The model follows as many nested calls as cpu.stack has slots, besides func_0000.
ASSUME CallsAssumption == MaxCalls = StackSize + 1

VARIABLE slots

hvars == <<rvars, slots>>

HInit == RInit /\ slots = [k \in 0..(StackSize - 1) |-> 0]

-----------------------------------------------------------------------------
(* Where the two part.                                                     *)

\* Statements that the interpreter executes differently, or not at all.
MeansElse(opcode) ==
    CASE Class(opcode) = OP_MISC  -> Imm(opcode) \notin {\hE0, \hEE}
      [] Class(opcode) = OP_MATH  -> Nib(opcode) \notin {0, 1, 2, 4, 6, 14}
      [] Class(opcode) = OP_MISC2 ->
            ~(Imm(opcode) \in {\h29, \h33} \/ (Imm(opcode) = \h65 /\ X(opcode) = 0))
      [] OTHER -> FALSE

\* Skips that the text does not render: on a key, in front of another skip, and over
\* an instruction that is not in the function.
SkipsElse(f, n) ==
    \/ Class(f.opcodes[n]) = OP_IN
    \/ n = Len(f.opcodes)
    \/ IsSkip(f.opcodes[n + 1])

\* The offset of the instruction that the innermost call is at.
At == IF InMacro THEN funcs[last.func].offset ELSE OffsetOf(last.func, last.line)

\* The instruction's index in its function; behind the last one when execution has
\* fallen off the function's end.
Index == (At - funcs[last.func].offset) \div 2 + 1

\* The instruction's bytes in ram are no longer, or never were, what was grabbed.
Overwritten == Fetch(ram, Entry + At) # funcs[last.func].opcodes[Index]

\* The instruction's second byte is behind ram, where the interpreter does not follow.
BehindRam == Entry + At + 1 >= RamSize

Departs ==
    status = "running" /\
    LET f == funcs[last.func] IN
        \/ Index > Len(f.opcodes)
        \/ Overwritten \/ BehindRam
        \/ AtLine /\ here.type = "if" /\ SkipsElse(f, Index)
        \/ AtLine /\ here.type = "do" /\ MeansElse(here.opcode)

-----------------------------------------------------------------------------
HCall ==
    /\ ~Departs /\ Call
    /\ slots' = [slots EXCEPT ![Len(calls) - 1] = Entry + here.at]

HElse ==
    /\ ~Departs
    /\ \/ Grabs \/ RejectIndexedJump \/ WriteWild \/ Write
       \/ Start \/ Expand \/ Statement \/ LeaveArrays \/ Goto \/ CallTooDeep
       \/ Return \/ ReturnToMain \/ EnterIf \/ PassIf
    /\ UNCHANGED slots

HNext == HCall \/ HElse

HSpec == HInit /\ [][HNext]_hvars

-----------------------------------------------------------------------------
(* Properties.                                                             *)

\* The registers of the interpreter that the compiled program does without.
Pc == Entry + (IF calls = <<>> THEN 0 ELSE At)
Sp == IF calls = <<>> THEN 0 ELSE Len(calls) - 1
Outcome == IF status \in {"returned", "deep", "outside"} THEN "wild" ELSE "running"

I == INSTANCE Interp WITH
        TimerRange <- 1, delayTimer <- 0,
        pc <- Pc, sp <- Sp, stack <- slots, status <- Outcome

\* Every behaviour of the compiled program up to such a departure is one of the
\* interpreter on the same ROM: each statement, goto, C call, return and if is the
\* step that the interpreter makes at that address, with the return stack that the
\* interpreter has, and it leaves its arrays or the stack exactly where it does.
ImplementsInterp == I!Spec

=============================================================================
