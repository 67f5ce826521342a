------------------------------- MODULE Recomp -------------------------------
(***************************************************************************)
(* The static recompiler, src/recomp/src/main.c, from the grabbed functions  *)
(* on: the C program that it prints, whether a compiler accepts that        *)
(* program, and what the compiled program does.                            *)
(*                                                                         *)
(* text[k] is what is printed between the braces of the k-th function, one   *)
(* entry a line: an `if(` and the `}` that ends it, or a statement.  Labels   *)
(* are left out: a goto finds its line by the offset of the instruction.    *)
(* calls is the C call stack of the compiled program, without its main.    *)
(*                                                                         *)
(* status goes on from "grabbed":                                          *)
(*   "wild"      the recompiler has left an array or followed a null pointer *)
(*   "exited"    it has met an indexed jump                                *)
(*   "rejected", "compiled"   by the C compiler and linker                  *)
(*   "running"   the compiled program is in one of its functions            *)
(*   "returned"  func_0000 has returned: the end of the compiled program    *)
(*   "closed"    its window was closed                                     *)
(*   "outside"   it has left ram or frameBuffer                            *)
(*   "deep"      it has made more nested calls than the model follows       *)
(***************************************************************************)
EXTENDS Grab

CONSTANTS
    MaxNodes,    \* nodes of the syntax tree that fit in the arena
    MaxCalls     \* nested calls of the compiled program that are followed

ASSUME RecompAssumption == MaxNodes \in Nat /\ MaxCalls \in Nat \ {0}

VARIABLES text, calls, v, i, ram, fb

machine == <<v, i, ram, fb>>
rvars == <<gvars, text, calls, machine>>

RInit ==
    /\ Init
    /\ text = <<>>
    /\ calls = <<>>
    /\ v = [r \in Reg |-> 0]
    /\ i = 0
    /\ ram = Boot(rom)
    /\ fb = {}

Grabs == GrabNext /\ UNCHANGED <<text, calls, machine>>

-----------------------------------------------------------------------------
(* parseFunction, parseInstruction and astWrite.                           *)

IsSkip(opcode) == Class(opcode) \in SkipClasses \cup {OP_IN}

\* Faulty variant of IsMacro: a function that starts with a call is a macro as well.
IsMacroAtCall(f) == Transfers(f.opcodes[1])

\* A function that starts with a jump is not printed: its name becomes a macro for
\* the name of the function at the jump's target.
IsMacro(f) == Class(f.opcodes[1]) = OP_JMP

\* Faulty variant of Behind: a jump ends the function, skipped or not.
BehindUnlessJump(f, n) ==
    IF n > Len(f.opcodes) \/ IsSkip(f.opcodes[n]) \/ Class(f.opcodes[n]) = OP_JMP
    THEN Len(f.opcodes) + 1 ELSE n + 1

\* Where the parse of the instruction that a skip may skip stops.  singular is set for
\* it, but a skip ignores that and takes the rest of the function.
Behind(f, n) ==
    IF n > Len(f.opcodes) \/ IsSkip(f.opcodes[n]) THEN Len(f.opcodes) + 1 ELSE n + 1

\* The lines of a function.  A parse with singular set is one line, or all of the rest.
Body(f) ==
    LET size == Len(f.opcodes)
        line(type, n) == [type |-> type, at |-> f.offset + 2 * (n - 1), opcode |-> f.opcodes[n]]
        single(n) == n <= size /\ ~IsSkip(f.opcodes[n])
        parse[n \in 1..(size + 1)] ==
            IF n > size THEN <<>>
            ELSE IF single(n) THEN << line("do", n) >> \o parse[n + 1]
            ELSE << line("if", n) >> \o (IF single(n + 1) THEN << line("do", n + 1) >> ELSE parse[n + 1])
                     \o << line("end", n) >> \o parse[Behind(f, n + 1)]
    IN  parse[1]

Printed == [k \in DOMAIN funcs |-> IF IsMacro(funcs[k]) THEN <<>> ELSE Body(funcs[k])]

\* One node for each function and for each of its instructions.
TreeNodes == UNION { { k } \X (0..Len(funcs[k].opcodes)) : k \in DOMAIN funcs }

HasIndexedJump ==
    \E k \in DOMAIN funcs : \E n \in DOMAIN funcs[k].opcodes :
        Class(funcs[k].opcodes[n]) = OP_JMP_INDEX

\* The tabs in front of line m, kept in a char[4] with the terminating zero.
Depth(body, m) ==
    1 + Cardinality({ n \in 1..(m - 1) : body[n].type = "if" })
      - Cardinality({ n \in 1..m : body[n].type = "end" })

TabsFit == \A k \in DOMAIN funcs : \A m \in DOMAIN Printed[k] : Depth(Printed[k], m) < 4

\* The loops over funcs look for an entry that is not allocated, the arena is not
\* checked, and the first instruction of each function is looked at.
WritesInBounds ==
    /\ Len(funcs) < MaxFuncs
    /\ Cardinality(TreeNodes) <= MaxNodes
    /\ \A k \in DOMAIN funcs : funcs[k].opcodes # <<>>
    /\ TabsFit

RejectIndexedJump ==
    /\ status = "grabbed" /\ HasIndexedJump
    /\ status' = "exited"
    /\ UNCHANGED <<rom, funcs, frames, text, calls, machine>>

\* When there is an indexed jump as well, the parse may meet either first.
WriteWild ==
    /\ status = "grabbed" /\ ~WritesInBounds
    /\ status' = "wild"
    /\ UNCHANGED <<rom, funcs, frames, text, calls, machine>>

-----------------------------------------------------------------------------
(* The C compiler and linker, for the text that is printed.                *)

Named(offset) == { k \in DOMAIN funcs : funcs[k].offset = offset }

\* The name of the function at an offset stands for one with a body, where the
\* macros of the first `before` functions are defined; a macro's name that meets
\* itself stays as it is.
Links(offset, before) ==
    LET names[n \in 0..Len(funcs)] ==
            { funcs[k].offset : k \in { j \in DOMAIN funcs :
                  \/ ~IsMacro(funcs[j])
                  \/ j <= before /\ n > 0 /\ TargetOf(funcs[j].opcodes[1]) \in names[n - 1] } }
    IN  offset \in names[Len(funcs)]

Offsets(body) == { body[m].at : m \in DOMAIN body }

\* A goto needs its label in the same function, a call a function that is printed,
\* under its own name or one that was defined further up.
LineCompiles(k, line) ==
    LET c == Class(line.opcode) IN
    /\ (line.type = "do" /\ c = OP_JMP)  => TargetOf(line.opcode) \in Offsets(Printed[k])
    /\ (line.type = "do" /\ c = OP_CALL) => Links(TargetOf(line.opcode), k - 1)
    /\ (line.type = "if" /\ c = OP_IN)   => Imm(line.opcode) \in {\h9E, \hA1}

Compiles ==
    /\ \A k \in DOMAIN funcs : \A m \in DOMAIN Printed[k] : LineCompiles(k, Printed[k][m])
    /\ Links(0, Len(funcs))

\* The program is printed and compiled.  parseFunction never sets the offset of an
\* AST_FUNCTION, so that astWrite may print any label in front of a function, which
\* no compiler accepts.
Write ==
    /\ status = "grabbed" /\ ~HasIndexedJump /\ WritesInBounds
    /\ text' = Printed
    /\ status' \in IF Compiles THEN {"compiled", "rejected"} ELSE {"rejected"}
    /\ UNCHANGED <<rom, funcs, frames, calls, machine>>

-----------------------------------------------------------------------------
(* What the printed statements do to cpu, ram and frameBuffer.             *)

Machine == [v |-> v, i |-> i, ram |-> ram, fb |-> fb]

\* Faulty variant of Assign: a register wider than a byte.
AssignWide(w, x, b) == [w EXCEPT ![x] = b % WordSize]

Assign(w, x, b) == [w EXCEPT ![x] = b % 256]

Flag(w, P)      == [w EXCEPT ![15] = IF P THEN 1 ELSE 0]

\* The flag is computed from the registers after the assignment.
MathText(n, w, x, y) ==
    CASE n = 0 -> Assign(w, x, w[y])
      [] n = 1 -> Assign(w, x, Or8(w[x], w[y]))
      [] n = 2 -> Assign(w, x, And8(w[x], w[y]))
      [] n = 3 -> Assign(w, x, Xor8(w[x], w[y]))
      [] n = 4 -> LET u == Assign(w, x, w[x] + w[y])  IN Flag(u, u[x] + u[y] > 255)
      [] n = 5 -> LET u == Assign(w, x, w[x] - w[y])  IN Flag(u, u[x] > u[y])
      [] n = 6 -> LET u == Assign(w, x, w[x] \div 2)  IN Flag(u, u[x] % 2 = 1)
      [] n = 7 -> LET u == Assign(w, x, w[y] - w[x])  IN Flag(u, u[y] > u[x])
      [] n = 14 -> LET u == Assign(w, x, w[x] * 2)    IN Flag(u, u[x] \div 128 = 1)
      [] OTHER -> w

Dump(m, a, w, last) ==
    [k \in DOMAIN m \cup a..(a + last) |-> IF k \in a..(a + last) THEN w[k - a] ELSE m[k]]

Fill(m, a, w, last) == [r \in Reg |-> IF r <= last THEN Peek(m, a + r) ELSE w[r]]

\* FX55 and FX65 advance cpu.i by X, not by X + 1.
MiscText(opcode) ==
    LET x == X(opcode)
        advanced(m) == [m EXCEPT !.i = (i + x) % WordSize]
    IN  CASE Imm(opcode) = \h07 -> [Machine EXCEPT !.v = Assign(v, x, 0)]
          [] Imm(opcode) = \h1E -> [Machine EXCEPT !.i = (i + v[x]) % WordSize]
          [] Imm(opcode) = \h29 -> [Machine EXCEPT !.i = v[x] * 5]
          [] Imm(opcode) = \h33 -> [Machine EXCEPT !.ram = PokeDigits(ram, i, v[x])]
          [] Imm(opcode) = \h55 -> advanced([Machine EXCEPT !.ram = Dump(ram, i, v, x)])
          [] Imm(opcode) = \h65 -> advanced([Machine EXCEPT !.v = Fill(ram, i, v, x)])
          [] OTHER              -> Machine    \* a comment

DrawText(opcode) ==
    LET toggled == Toggled(ram, i, v[X(opcode)] % 64, v[Y(opcode)] % 64, Nib(opcode)) IN
    [Machine EXCEPT !.fb = Flip(fb, toggled), !.v = Flag(v, toggled \cap fb # {})]

\* (rand()%255) & IMM.
RandText(opcode) ==
    { [Machine EXCEPT !.v = Assign(v, X(opcode), And8(r, Imm(opcode)))] : r \in 0..254 }

\* The states in which a statement may leave the machine.
Effects(opcode) ==
    LET x == X(opcode)
        c == Class(opcode)
    IN  CASE c = OP_MISC    -> {[Machine EXCEPT !.fb = {}]}
          [] c = OP_MOV_IMM -> {[Machine EXCEPT !.v = Assign(v, x, Imm(opcode))]}
          [] c = OP_ADD_IMM -> {[Machine EXCEPT !.v = Assign(v, x, v[x] + Imm(opcode))]}
          [] c = OP_MATH    -> {[Machine EXCEPT !.v = MathText(Nib(opcode), v, x, Y(opcode))]}
          [] c = OP_STORE   -> {[Machine EXCEPT !.i = Addr(opcode)]}
          [] c = OP_RAND    -> RandText(opcode)
          [] c = OP_DRAW    -> {DrawText(opcode)}
          [] c = OP_MISC2   -> {MiscText(opcode)}

\* The bytes of ram and of frameBuffer that a statement needs.
InBounds(opcode) ==
    LET inRam(a) == a < RamSize
        misc(imm) == Class(opcode) = OP_MISC2 /\ Imm(opcode) = imm
    IN  /\ misc(\h33) => inRam(i + 2)
        /\ misc(\h55) \/ misc(\h65) => inRam(i + X(opcode))
        /\ (Class(opcode) = OP_DRAW /\ Nib(opcode) > 0) =>
              /\ inRam(i + Nib(opcode) - 1)
              /\ Touched(v[X(opcode)] % 64, v[Y(opcode)] % 64, Nib(opcode)) \subseteq Pixels

-----------------------------------------------------------------------------
(* The compiled program.                                                   *)

\* The first statement or `if` from line m on; behind the last line, the function
\* returns.
From(k, m) == CHOOSE n \in m..(Len(text[k]) + 1) :
                  /\ n \in DOMAIN text[k] => text[k][n].type # "end"
                  /\ \A p \in m..(n - 1) : text[k][p].type = "end"

EndOf(k, m) == CHOOSE n \in DOMAIN text[k] :
                   text[k][n].type = "end" /\ text[k][n].at = text[k][m].at

Labelled(k, offset) == CHOOSE n \in DOMAIN text[k] :
                           text[k][n].type # "end" /\ text[k][n].at = offset

\* A call of a function by its name, which may be a macro.
Entered(offset) == [func |-> CHOOSE k \in Named(offset) : TRUE, line |-> 1]

last == calls[Len(calls)]

InMacro == IsMacro(funcs[last.func])
AtLine  == status = "running" /\ ~InMacro /\ last.line \in DOMAIN text[last.func]
here    == text[last.func][last.line]

Doing(P) == AtLine /\ here.type = "do" /\ P

GoTo(m) == calls' = [calls EXCEPT ![Len(calls)].line = m]

\* main of the compiled program calls func_0000.
Start ==
    /\ status = "compiled"
    /\ status' = "running"
    /\ calls' = << Entered(0) >>
    /\ UNCHANGED <<rom, funcs, frames, text, machine>>

\* A macro's name is replaced by the name it stands for.
Expand ==
    /\ status = "running" /\ InMacro
    /\ calls' = [calls EXCEPT ![Len(calls)] =
                    Entered(TargetOf(funcs[last.func].opcodes[1]))]
    /\ UNCHANGED <<gvars, text, machine>>

IsReturn(opcode) == Class(opcode) = OP_MISC /\ Nib(opcode) = 14
IsStatement(opcode) == ~Transfers(opcode) /\ ~IsReturn(opcode)

\* A sprite ends with a look at the window, which may have been closed.
Statement ==
    /\ Doing(IsStatement(here.opcode)) /\ InBounds(here.opcode)
    /\ \E m \in Effects(here.opcode) :
          v' = m.v /\ i' = m.i /\ ram' = m.ram /\ fb' = m.fb
    /\ GoTo(From(last.func, last.line + 1))
    /\ status' \in IF Class(here.opcode) = OP_DRAW THEN {"running", "closed"} ELSE {"running"}
    /\ UNCHANGED <<rom, funcs, frames, text>>

LeaveArrays ==
    /\ Doing(IsStatement(here.opcode)) /\ ~InBounds(here.opcode)
    /\ status' = "outside"
    /\ UNCHANGED <<rom, funcs, frames, text, calls, machine>>

Goto ==
    /\ Doing(Class(here.opcode) = OP_JMP)
    /\ GoTo(Labelled(last.func, TargetOf(here.opcode)))
    /\ UNCHANGED <<gvars, text, machine>>

Call ==
    /\ Doing(Class(here.opcode) = OP_CALL) /\ Len(calls) < MaxCalls
    /\ calls' = Append(calls, Entered(TargetOf(here.opcode)))
    /\ UNCHANGED <<gvars, text, machine>>

CallTooDeep ==
    /\ Doing(Class(here.opcode) = OP_CALL) /\ Len(calls) = MaxCalls
    /\ status' = "deep"
    /\ UNCHANGED <<rom, funcs, frames, text, calls, machine>>

\* A return statement, or the closing brace of a function.
AtReturn ==
    /\ status = "running" /\ ~InMacro
    /\ AtLine => here.type = "do" /\ IsReturn(here.opcode)

Return ==
    LET caller == calls[Len(calls) - 1] IN
    /\ AtReturn /\ Len(calls) > 1
    /\ calls' = Append(SubSeq(calls, 1, Len(calls) - 2),
                       [caller EXCEPT !.line = From(caller.func, caller.line + 1)])
    /\ UNCHANGED <<gvars, text, machine>>

ReturnToMain ==
    /\ AtReturn /\ Len(calls) = 1
    /\ status' = "returned"
    /\ UNCHANGED <<rom, funcs, frames, text, calls, machine>>

\* The values that the printed condition may have; a key is up or down.
Conditions(opcode) ==
    LET x == v[X(opcode)]
        y == v[Y(opcode)]
    IN  CASE Class(opcode) = OP_SKIP1 -> {x # Imm(opcode)}
          [] Class(opcode) = OP_SKIP2 -> {x = Imm(opcode)}
          [] Class(opcode) = OP_SKIP3 -> {x # y}
          [] Class(opcode) = OP_SKIP4 -> {x = y}
          [] Class(opcode) = OP_IN    -> BOOLEAN

EnterIf ==
    /\ AtLine /\ here.type = "if" /\ TRUE \in Conditions(here.opcode)
    /\ GoTo(From(last.func, last.line + 1))
    /\ UNCHANGED <<gvars, text, machine>>

PassIf ==
    /\ AtLine /\ here.type = "if" /\ FALSE \in Conditions(here.opcode)
    /\ GoTo(From(last.func, EndOf(last.func, last.line)))
    /\ UNCHANGED <<gvars, text, machine>>

Runs == Start \/ Expand \/ Statement \/ LeaveArrays \/ Goto \/ Call \/ CallTooDeep
        \/ Return \/ ReturnToMain \/ EnterIf \/ PassIf

RNext == Grabs \/ RejectIndexedJump \/ WriteWild \/ Write \/ Runs

RSpec == RInit /\ [][RNext]_rvars

-----------------------------------------------------------------------------
(* Properties.                                                             *)

\* The registers keep their C types, and every active call is at a line of its
\* function or behind the last one, the callers at calls.
MachineTypeOK ==
    /\ v \in [Reg -> Byte] /\ i \in Word /\ IsMemory(ram) /\ fb \subseteq Pixels
    /\ \A d \in DOMAIN calls :
          /\ calls[d].func \in DOMAIN text
          /\ ~IsMacro(funcs[calls[d].func]) =>
                calls[d].line \in 1..(Len(text[calls[d].func]) + 1)
          /\ d < Len(calls) => Class(text[calls[d].func][calls[d].line].opcode) = OP_CALL

\* The offset of the instruction at line m, or of the first one behind the function.
OffsetOf(k, m) == IF m \in DOMAIN text[k] THEN text[k][m].at
                  ELSE funcs[k].offset + 2 * Len(funcs[k].opcodes)

\* Nesting the instructions in ifs moves none of them: each is printed once, behind
\* its line comes the one at the next address, and a skip goes on behind the
\* instruction that it skips.  The exception is a skip in front of another one, which
\* passes over the rest of the function.
SkipsLandBehind ==
    \A k \in DOMAIN text : LET lines == { m \in DOMAIN text[k] : text[k][m].type # "end" } IN
        text[k] # <<>> =>
            /\ Cardinality(lines) = Len(funcs[k].opcodes)
            /\ \A m \in lines :
                  LET next == From(k, m + 1) IN
                      /\ OffsetOf(k, next) = text[k][m].at + 2
                      /\ text[k][m].type = "if" =>
                            LET behind == From(k, EndOf(k, m)) IN
                            IF next \in DOMAIN text[k] /\ text[k][next].type = "if"
                            THEN behind = Len(text[k]) + 1
                            ELSE next \in DOMAIN text[k] =>
                                     OffsetOf(k, behind) = text[k][m].at + 4

=============================================================================
