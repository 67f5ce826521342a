-------------------------------- MODULE Disasm --------------------------------
(***************************************************************************)
(* The disassembler, src/disasm/src/main.c: disasmChunk prints instructions *)
(* from an address on until a jump that cannot be skipped, and calls itself  *)
(* for the target of each jump and call that it prints.                    *)
(*                                                                         *)
(* frames is the C call stack: one frame for each active disasmChunk, with   *)
(* the index of its chunk in the list, its pc, the opcode it has read, and   *)
(* whether it is about to read an instruction ("read") or has printed one,   *)
(* its nested call included ("printed").  The text of a chunk is the         *)
(* sequence of the addresses whose instructions it shows, str the string     *)
(* that holds it.                                                          *)
(***************************************************************************)
EXTENDS ChunkString

CONSTANTS
    Files,       \* the files that may be disassembled: any bytes, of any length
    SizeRange,   \* number of values of chunk_t's size: 256 in the code
    MaxDepth     \* active calls of disasmChunk that fit in the C stack

ASSUME FilesAssumption == Files \subseteq Seq(Byte)

ASSUME DisasmAssumption ==
    /\ SizeRange \in 2..256 /\ SizeRange % 2 = 0
    /\ MaxDepth \in Nat \ {0}

VARIABLES
    rom,         \* the file's bytes
    chunks,      \* the list, in the order of chunkCreate
    frames,      \* the active calls, innermost last
    status,      \* "running", "done", or "crashed" when the C stack is exhausted
    listed       \* the chunks that main has put out and freed

vars == <<rom, chunks, frames, status, listed>>

romSize == Len(rom)

Offset(pc) == pc - Entry
InRom(pc)  == Offset(pc) >= 0 /\ Offset(pc) < romSize

Word16(pc) == rom[Offset(pc) + 1] * 256 + rom[Offset(pc) + 2]

\* With an odd romSize the second byte of the last opcode is read behind the
\* buffer.
OpcodesAt(pc) ==
    IF InRom(pc + 1) THEN {Word16(pc)}
    ELSE { rom[Offset(pc) + 1] * 256 + low : low \in Byte }

\* disasmChunk's pc is a uint16_t: in a file of more than 65024 bytes it wraps
\* round to addresses in front of 0x200, where chunks end.
Ahead(pc, n) == (pc + n) % WordSize

SkipClasses == {OP_SKIP1, OP_SKIP2, OP_SKIP3, OP_SKIP4}

\* Whether `lastOpcode` is a skip.  At the start of the ROM, it is read in front
\* of the buffer: the guard compares pc with 0 and not with 0x200.
MaySkip(pc) ==
    IF pc \in {Entry, Entry + 1} THEN BOOLEAN
    ELSE {Class(Word16(pc - 2)) \in SkipClasses}

\* Faulty variant of EndsChunk: a chunk ends at a call as well.
EndsChunkAtCall(opcode) ==
    Class(opcode) \in {OP_JMP, OP_CALL, OP_JMP_INDEX} \/ opcode = \h00EE

EndsChunk(opcode) == Class(opcode) \in {OP_JMP, OP_JMP_INDEX} \/ opcode = \h00EE

\* Faulty variant of IsDisassembled: the chunk's first address is left out.
IsDisassembledBehind(pc) ==
    \E k \in 1..Len(chunks) :
        /\ chunks[k].size # 0
        /\ pc \in (chunks[k].offset + 1)..(chunks[k].offset + chunks[k].size)

\* checkIfDisassembled: the bound is inclusive, for a chunk that ends with a jump
\* does not count it in its size.
IsDisassembled(pc) ==
    \E k \in 1..Len(chunks) :
        /\ chunks[k].size # 0
        /\ pc \in chunks[k].offset..(chunks[k].offset + chunks[k].size)

Chunk(pc)    == [offset |-> pc, size |-> 0, text |-> <<>>, str |-> ChunkStringInit]
Frame(k, pc) == [chunk |-> k, pc |-> pc, opcode |-> 0, at |-> "read"]

Init ==
    /\ rom \in Files
    /\ chunks = << Chunk(Entry) >>
    /\ frames = << Frame(1, Entry) >>
    /\ status = "running"
    /\ listed = 0

top == frames[Len(frames)]

Running(at) == status = "running" /\ frames # <<>> /\ top.at = at

SetTop(f) == [frames EXCEPT ![Len(frames)] = f]

\* disasmChunk(pc) goes on past its two early returns.
Opens(pc) == Offset(pc) >= 0 /\ Offset(pc) <= romSize /\ ~IsDisassembled(pc)

\* One instruction is read and printed; for a jump or a call, disasmChunk is
\* called for the target before anything else happens to this frame.
Disassemble ==
    /\ Running("read") /\ InRom(top.pc)
    /\ \E opcode \in OpcodesAt(top.pc) :
          LET shown == [chunks EXCEPT ![top.chunk].text = Append(@, top.pc),
                                      ![top.chunk].str = AddOpcode(@, opcode)]
              here  == SetTop([top EXCEPT !.opcode = opcode, !.at = "printed"])
              target == Addr(opcode)
              calls == Class(opcode) \in {OP_JMP, OP_CALL} /\ Opens(target)
          IN  IF ~calls
              THEN chunks' = shown /\ frames' = here /\ status' = status
              ELSE IF Len(frames) = MaxDepth
              THEN chunks' = shown /\ frames' = here /\ status' = "crashed"
              ELSE /\ chunks' = Append(shown, Chunk(target))
                   /\ frames' = Append(here, Frame(Len(chunks) + 1, target))
                   /\ status' = status
    /\ UNCHANGED <<rom, listed>>

\* disasmChunk returns to its caller, or to main, which prints the list.
ReturnFromChunk ==
    /\ frames' = SubSeq(frames, 1, Len(frames) - 1)
    /\ status' = IF Len(frames) = 1 THEN "done" ELSE status
    /\ UNCHANGED <<rom, chunks, listed>>

EndAtJump ==
    /\ Running("printed")
    /\ FALSE \in MaySkip(top.pc)
    /\ EndsChunk(top.opcode)
    /\ ReturnFromChunk

\* Faulty variant of Advance: a size that is not a uint8_t.
AdvanceWide ==
    /\ Running("printed")
    /\ TRUE \in MaySkip(top.pc) \/ ~EndsChunk(top.opcode)
    /\ chunks' = [chunks EXCEPT ![top.chunk].size = (@ + 2) % WordSize]
    /\ frames' = SetTop([top EXCEPT !.pc = Ahead(top.pc, 2), !.at = "read"])
    /\ UNCHANGED <<rom, status, listed>>

Advance ==
    /\ Running("printed")
    /\ TRUE \in MaySkip(top.pc) \/ ~EndsChunk(top.opcode)
    /\ chunks' = [chunks EXCEPT ![top.chunk].size = (@ + 2) % SizeRange]
    /\ frames' = SetTop([top EXCEPT !.pc = Ahead(top.pc, 2), !.at = "read"])
    /\ UNCHANGED <<rom, status, listed>>

EndOfRom ==
    /\ Running("read") /\ ~InRom(top.pc)
    /\ ReturnFromChunk

\* main puts out the next chunk of the list and frees it.  It reads c->next after
\* free(c), which leaves that field alone: the allocator's own pointers overwrite the
\* first 16 bytes of a chunk_t, and next lies behind them.
PrintChunk ==
    /\ status = "done" /\ listed < Len(chunks)
    /\ listed' = listed + 1
    /\ UNCHANGED <<rom, chunks, frames, status>>

Next == Disassemble \/ EndAtJump \/ Advance \/ EndOfRom \/ PrintChunk

Spec == Init /\ [][Next]_vars

FairSpec == Spec /\ WF_vars(Next)

-----------------------------------------------------------------------------
(* Properties.                                                             *)

TypeOK ==
    /\ chunks \in Seq([offset : Word, size : 0..(SizeRange - 1), text : Seq(Word),
                       str : [length : Nat, size : Nat]])
    /\ listed \in 0..Len(chunks)
    /\ frames \in Seq([chunk : 1..Len(chunks), pc : Word, opcode : Word,
                       at : {"read", "printed"}])
    /\ Len(frames) \in 0..MaxDepth
    /\ (status = "running") => frames # <<>>
    /\ status \in {"running", "done", "crashed"}

\* disasmChunk is never active twice for the same address unless the outer call
\* has not advanced past its first instruction (or its size has wrapped round to
\* zero): a jump to an address that is being printed is recognised, and the
\* recursion that follows jumps around a loop ends.
NoReentry ==
    \A a, b \in 1..Len(frames) :
        (a < b /\ chunks[frames[a].chunk].offset = chunks[frames[b].chunk].offset) =>
            chunks[frames[a].chunk].size = 0

Printed == UNION { {c.text[k] : k \in 1..Len(c.text)} : c \in {chunks[k] : k \in 1..Len(chunks)} }

\* skip_key_down and skip_key_up.
KeySkips == { c * 256 + k : c \in {OP_IN * 16 + x : x \in Reg}, k \in {\h9E, \hA1} }

Leaves(opcode) == Class(opcode) \in {OP_JMP, OP_JMP_INDEX} \/ opcode = \h00EE

\* Where execution may go from the instruction at pc, by what disasm's own
\* mnemonics say; an indexed jump may go anywhere and is not followed.
Successors(pc) ==
    LET opcode == Word16(pc)
    IN  (IF Class(opcode) \in {OP_JMP, OP_CALL} THEN {Addr(opcode)} ELSE {})
        \cup (IF Leaves(opcode) THEN {} ELSE {Ahead(pc, 2)})
        \cup (IF Class(opcode) \in SkipClasses \/ opcode \in KeySkips
              THEN {Ahead(pc, 4)} ELSE {})

\* What disasmChunk does not follow: the way over a jump or return that a key skip
\* may skip, at which it ends the chunk all the same.
Missed(pc) ==
    IF Word16(pc) \in KeySkips /\ InRom(pc + 3) /\ Leaves(Word16(pc + 2))
    THEN {Ahead(pc, 4)} ELSE {}

Followed(pc) == Successors(pc) \ Missed(pc)

Inside(S) == { pc \in S : InRom(pc) /\ InRom(pc + 1) }

\* What is reached from 0x200 in n steps, none of them missed.
Reach[n \in 0..romSize] ==
    IF n = 0 THEN Inside({Entry})
    ELSE LET before == Reach[n - 1]
         IN  Inside(before \cup UNION { Followed(pc) : pc \in before })

Reached == Reach[romSize]

Even(S) == \A n \in S : n % 2 = 0

\* When the disassembly is done, every instruction that execution can reach from
\* 0x200 is printed in some chunk, unless the way there passes over a jump or
\* return behind skip_key_down or skip_key_up (Missed): treating an address as
\* disassembled because it lies inside a chunk that is still being printed loses
\* nothing.  It does lose an instruction that starts at an odd address between two
\* even ones.
ReachableIsPrinted ==
    (status = "done" /\ Even({ chunks[k].offset : k \in 1..Len(chunks) })) =>
        LET reached == Reached IN Even(reached) => reached \subseteq Printed

\* No chunk's text is longer than the memory it lives in.  The size that is kept is
\* exceeded, by up to 7 bytes when an unimplemented opcode follows 31 characters: the
\* single doubling is not enough, and it is malloc's rounding that makes up for it.
TextFits == \A k \in 1..Len(chunks) : Fits(chunks[k].str)

\* No jump or call stands at 0x200 or at the target of another one.
StartsPlainly ==
    LET transfers(pc) == InRom(pc + 1) /\ Class(Word16(pc)) \in {OP_JMP, OP_CALL} IN
    /\ ~transfers(Entry)
    /\ \A pc \in Entry..(Entry + romSize - 1) :
          transfers(pc) => ~transfers(Addr(Word16(pc)))

\* The recursion ends and the list is printed, for a program in which no chunk
\* starts with a jump or a call and no chunk is long enough for its size to wrap.
Terminates == (StartsPlainly /\ romSize < SizeRange) => 
    <>(status = "done" /\ listed = Len(chunks))

-----------------------------------------------------------------------------
(* What a comment of disasmChunk says.                                     *)

\* "if the current opcode is a jump and cant be skipped, end chunk": a chunk does
\* not end at a jump behind a skip, and EX9E and EXA1 are printed as skips.
SkippedJumpGoesOn ==
    [][(Running("printed") /\ top.pc > Entry + 1 /\ Len(frames') < Len(frames)) =>
         /\ Class(Word16(top.pc - 2)) \notin SkipClasses
         /\ Word16(top.pc - 2) \notin KeySkips]_vars

=============================================================================
