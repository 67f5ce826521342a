-------------------------------- MODULE Grab --------------------------------
(***************************************************************************)
(* The first half of the static recompiler, src/recomp/src/main.c: grabFunc  *)
(* copies instructions from an offset of the ROM on into an entry of funcs,  *)
(* and calls itself for the target of each jump and call.                  *)
(*                                                                         *)
(* Offsets count the bytes of the ROM, a function's size counts its words.   *)
(* frames is the C call stack: for each active grabFunc the index of its     *)
(* entry, its pc, the opcode it has read, and whether it is about to read    *)
(* ("read") or has stored one, its nested call included ("stored").         *)
(***************************************************************************)
EXTENDS Chip8

CONSTANTS
    MaxFuncs,    \* MAX_FUNC_COUNT
    MaxSize      \* MAX_FUNC_SIZE

ASSUME GrabAssumption == MaxFuncs \in Nat \ {0} /\ MaxSize \in Nat \ {0}

VARIABLES
    rom,         \* the file's bytes
    funcs,       \* the allocated entries, in the order of allocation
    frames,      \* the active calls, innermost last
    status       \* "grabbing", "grabbed", or "wild" when a table was left

gvars == <<rom, funcs, frames, status>>

romSize == Len(rom)

InRom(pc) == pc \in 0..(romSize - 1)

Word16(pc) == rom[pc + 1] * 256 + rom[pc + 2]

\* With an odd romSize the second byte of the last opcode is read behind the
\* buffer.
OpcodesAt(pc) ==
    IF InRom(pc + 1) THEN {Word16(pc)} ELSE { rom[pc + 1] * 256 + low : low \in Byte }

SkipClasses == {OP_SKIP1, OP_SKIP2, OP_SKIP3, OP_SKIP4}

\* Whether `lastOpcode` is a skip: it is zero at offset 0, and read in front of
\* the buffer at offset 1.
MaySkip(pc) ==
    IF pc = 1 THEN BOOLEAN
    ELSE {pc # 0 /\ Class(Word16(pc - 2)) \in SkipClasses}

\* Faulty variant of EndsFunction: a function ends at a call as well.
EndsFunctionAtCall(opcode) ==
    Class(opcode) \in {OP_JMP, OP_CALL, OP_JMP_INDEX} \/ opcode = \h00EE

EndsFunction(opcode) == Class(opcode) \in {OP_JMP, OP_JMP_INDEX} \/ opcode = \h00EE

Transfers(opcode) == Class(opcode) \in {OP_JMP, OP_CALL}

\* The argument of the nested call, a uint16_t.
TargetOf(opcode) == (Addr(opcode) - Entry) % WordSize

\* Faulty variant of IsGrabbed: every offset in front of a function's end.
IsGrabbedBefore(table, offset) ==
    \E k \in DOMAIN table : offset < table[k].offset + Len(table[k].opcodes)

\* Faulty variant of IsGrabbed: the first word of a function is left out.
IsGrabbedBehind(table, offset) ==
    \E k \in DOMAIN table :
        offset \in (table[k].offset + 1)..(table[k].offset + Len(table[k].opcodes) - 1)

\* checkIfAlreadyGrabbed: it compares an offset in bytes with a size in words, so
\* that it recognises the first half of a function only.
IsGrabbed(table, offset) ==
    \E k \in DOMAIN table :
        offset \in table[k].offset..(table[k].offset + Len(table[k].opcodes) - 1)

Func(offset)    == [offset |-> offset, opcodes |-> <<>>]
Frame(k, offset) == [func |-> k, pc |-> offset, opcode |-> 0, at |-> "read"]

Init ==
    /\ rom \in Roms
    /\ funcs = << Func(0) >>
    /\ frames = << Frame(1, 0) >>
    /\ status = "grabbing"

top == frames[Len(frames)]

Grabbing(at) == status = "grabbing" /\ top.at = at

SetTop(f) == [frames EXCEPT ![Len(frames)] = f]

Grown(opcode)  == [funcs EXCEPT ![top.func].opcodes = Append(@, opcode)]
Stored(opcode) == SetTop([top EXCEPT !.opcode = opcode, !.at = "stored"])

\* Faulty variant of HasRoom: one opcode more than there is room for.
HasRoomInclusive == Len(funcs[top.func].opcodes) <= MaxSize

\* The entry of the innermost call has room for an opcode.
HasRoom == Len(funcs[top.func].opcodes) < MaxSize

\* Faulty variant of Enters: the size grows after the nested call.
EntersUngrown(opcode) == Transfers(opcode) /\ ~IsGrabbed(funcs, TargetOf(opcode))

\* The nested grabFunc goes on past its early return.  The size of the function
\* that calls has grown already.
Enters(opcode) == Transfers(opcode) /\ ~IsGrabbed(Grown(opcode), TargetOf(opcode))

\* One opcode is stored, and no function is grabbed for it.
StoreOpcode ==
    /\ Grabbing("read") /\ InRom(top.pc) /\ HasRoom
    /\ \E opcode \in OpcodesAt(top.pc) :
          /\ ~Enters(opcode)
          /\ funcs' = Grown(opcode)
          /\ frames' = Stored(opcode)
    /\ UNCHANGED <<rom, status>>

\* One opcode is stored, and its target is grabbed before anything else happens to
\* this function.
GrabTarget ==
    /\ Grabbing("read") /\ InRom(top.pc) /\ HasRoom
    /\ \E opcode \in OpcodesAt(top.pc) :
          /\ Enters(opcode) /\ Len(funcs) < MaxFuncs
          /\ funcs' = Append(Grown(opcode), Func(TargetOf(opcode)))
          /\ frames' = Append(Stored(opcode), Frame(Len(funcs) + 1, TargetOf(opcode)))
    /\ UNCHANGED <<rom, status>>

\* Neither table's end is checked: an opcode is written behind the opcodes of its
\* function, or a free entry is looked for behind funcs.
LeaveTables ==
    /\ Grabbing("read") /\ InRom(top.pc)
    /\ \/ ~HasRoom
       \/ Len(funcs) = MaxFuncs /\ \E opcode \in OpcodesAt(top.pc) : Enters(opcode)
    /\ status' = "wild"
    /\ UNCHANGED <<rom, funcs, frames>>

\* grabFunc returns to its caller, or to main.
ReturnFromGrab ==
    /\ frames' = SubSeq(frames, 1, Len(frames) - 1)
    /\ status' = IF Len(frames) = 1 THEN "grabbed" ELSE status
    /\ UNCHANGED <<rom, funcs>>

EndAtJump ==
    /\ Grabbing("stored")
    /\ FALSE \in MaySkip(top.pc)
    /\ EndsFunction(top.opcode)
    /\ ReturnFromGrab

Advance ==
    /\ Grabbing("stored")
    /\ TRUE \in MaySkip(top.pc) \/ ~EndsFunction(top.opcode)
    /\ frames' = SetTop([top EXCEPT !.pc = top.pc + 2, !.at = "read"])
    /\ UNCHANGED <<rom, funcs, status>>

EndOfRom ==
    /\ Grabbing("read") /\ ~InRom(top.pc)
    /\ ReturnFromGrab

GrabNext == StoreOpcode \/ GrabTarget \/ LeaveTables \/ EndAtJump \/ Advance \/ EndOfRom

GrabSpec == Init /\ [][GrabNext]_gvars /\ WF_gvars(GrabNext)

-----------------------------------------------------------------------------
(* Properties.                                                             *)

\* Every active call fills an entry of its own, and no table is exceeded.
TypeOK ==
    /\ funcs \in Seq([offset : Word, opcodes : Seq(Word)])
    /\ Len(funcs) <= MaxFuncs
    /\ \A k \in DOMAIN funcs : Len(funcs[k].opcodes) <= MaxSize
    /\ frames \in Seq([func : DOMAIN funcs, pc : Word, opcode : Word, at : {"read", "stored"}])
    /\ \A a, b \in DOMAIN frames : a < b => frames[a].func < frames[b].func
    /\ status = "grabbing" => frames # <<>>
    /\ status \in {"grabbing", "grabbed", "wild"}

\* An offset inside the ROM is grabbed at most once, however many jumps and calls
\* name it and whoever is still being grabbed: the emitted C defines no function
\* twice, and the recursion ends.
GrabbedOnce ==
    \A j, k \in DOMAIN funcs :
        (j # k /\ InRom(funcs[j].offset)) => funcs[j].offset # funcs[k].offset

\* The offsets of a function's instructions.
Nodes(f) == { f.offset + 2 * (n - 1) : n \in DOMAIN f.opcodes }

AllNodes  == UNION { Nodes(funcs[k]) : k \in DOMAIN funcs }
AllTargets == UNION { { TargetOf(funcs[k].opcodes[n]) :
                           n \in { m \in DOMAIN funcs[k].opcodes : Transfers(funcs[k].opcodes[m]) } }
                      : k \in DOMAIN funcs }

Even(S) == \A n \in S : n % 2 = 0

\* Mixing bytes and words loses nothing: when grabbing is over, each target inside
\* the ROM is an instruction of some function, if all of them are even.
TargetsGrabbed ==
    (status = "grabbed" /\ Even(AllTargets)) =>
        \A t \in AllTargets : InRom(t) => t \in AllNodes

\* The skips on keys: astWrite prints each as an if of its own.
KeySkips == { c * 256 + k : c \in {OP_IN * 16 + x : x \in Reg}, k \in {\h9E, \hA1} }

Leaves(opcode) == Class(opcode) \in {OP_JMP, OP_JMP_INDEX} \/ opcode = \h00EE

\* Where execution may go from the instruction at pc, as in Disasm.
Successors(pc) ==
    LET opcode == Word16(pc)
    IN  (IF Transfers(opcode) THEN {TargetOf(opcode)} ELSE {})
        \cup (IF Leaves(opcode) THEN {} ELSE {pc + 2})
        \cup (IF Class(opcode) \in SkipClasses \/ opcode \in KeySkips THEN {pc + 4} ELSE {})

\* What grabFunc does not follow: the way over a jump or return that a key skip may
\* skip, at which it ends the function all the same.
Missed(pc) ==
    IF Word16(pc) \in KeySkips /\ InRom(pc + 3) /\ Leaves(Word16(pc + 2)) THEN {pc + 4} ELSE {}

Followed(pc) == Successors(pc) \ Missed(pc)

Inside(S) == { pc \in S : InRom(pc) /\ InRom(pc + 1) }

\* What is reached from the start of the ROM in n steps, none of them missed.
Reach[n \in 0..romSize] ==
    IF n = 0 THEN Inside({0})
    ELSE LET before == Reach[n - 1]
         IN  Inside(before \cup UNION { Followed(pc) : pc \in before })

Reached == Reach[romSize]

\* When grabbing is over and all targets are even, every instruction that execution
\* can reach belongs to some function, although functions end at the first jump that
\* cannot be skipped, unless the way there passes over a jump or return behind EX9E or
\* EXA1 (Missed).
ReachableIsGrabbed ==
    (status = "grabbed" /\ Even(AllTargets)) => Reached \subseteq AllNodes

\* All words of the ROM that may be read as jumps or calls have targets in it, and
\* the tables have room for each of them.
TablesSuffice ==
    LET targets == { TargetOf(opcode) : opcode \in { o \in UNION { OpcodesAt(pc) :
                                                       pc \in 0..(romSize - 1) } : Transfers(o) } }
    IN  /\ \A t \in targets : InRom(t)
        /\ Cardinality(targets \cup {0}) <= MaxFuncs
        /\ romSize <= 2 * MaxSize

\* Grabbing ends, and with all functions in the tables, for every ROM whose jumps
\* and calls name no more places than there are entries.
Terminates == TablesSuffice => <>(status = "grabbed")

-----------------------------------------------------------------------------
(* What a comment of grabFunc says.                                        *)

\* "if the current opcode is a jump and cant be skipped, end chunk": a function does
\* not end at a jump behind a skip, and the program printed for EX9E and EXA1 skips.
SkippedJumpGoesOn ==
    [][(Grabbing("stored") /\ top.pc > 1 /\ Len(frames') < Len(frames)) =>
         /\ Class(Word16(top.pc - 2)) \notin SkipClasses
         /\ Word16(top.pc - 2) \notin KeySkips]_gvars

=============================================================================
