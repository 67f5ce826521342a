# A TLA+ model of chip8-projects

The repository holds a CHIP-8 emulator with two engines (an interpreter and a JIT
compiler for x86-64), a disassembler, an assembler and a static recompiler.  This
directory holds TLA+ modules translated from its C code, TLC configurations that
check them on small programs, and proofs for every program.

## 1. The system

### Components

| component | source | state it keeps | operations |
|---|---|---|---|
| machine | `emu/src/cpu.h`, `cpu.c`, `files.c`, `io.c` | `ram[0x1000]`, `cpu` (v, i, pc, stack, sp, delayTimer, soundTimer), `fbPixels` | `loadROM`, `cpuInit`, `screenClear`, decoding macros |
| interpreter | `emu/src/cpuInterp.c` | that of the machine | `cpuInterpStep`: one instruction |
| JIT | `emu/src/cpuJit.c` | the machine, `mainBuffer` (code bytes and length) | `cpuJitRun`: translate until a skip, indexed jump or sprite, run the buffer, interpret that instruction |
| main loop | `emu/src/main.c` | SDL's event queue, the uninitialised `SDL_Event` | poll one event, leave on `SDL_QUIT`, call the engine |
| disassembler | `disasm/src/main.c`, `chunk.c` | the file, the list `chunks`, the C call stack of `disasmChunk` | `disasmChunk`, `disasmOpcode`, `checkIfDisassembled`, `chunkCreate` |
| disassembler strings | `disasm/src/chunkStrings.c` | `length` and `size` of a growing buffer | `chunkStringInit`, `chunkStringAdd` |
| assembler | `asm/src/*` | lines, tokens, labels, back patches, output buffer, pc | `strToLines`, `tokenize`, `newLabel`, `processInstruction`, `backpatchHere`, `fillBackpatches`, `outputAddWord` |
| recompiler | `recomp/src/main.c` | `funcs[32]`, an arena with the syntax tree, `labelsUsed` | `grabFunc`, `parseInstruction`, `parseFunction`, `astFindUsedLabels`, `astWrite` |

### How they interact

`main` loads the ROM into `ram`, then alternates between SDL and one engine, chosen
when the emulator is built.  Engine and machine share `cpu`, `ram` and `fbPixels`;
there are no threads and no callbacks.  The JIT shares the machine with the code it
emits: what the translator reads (`ram`, `cpu.pc`, `cpu.stack`) and what the emitted
code writes later (`cpu.v`, `cpu.i`, `ram`, `fbPixels`) overlap in `ram`.  The other
tools are batch programs that share only the instruction set with the emulator, each
with its own table of it.

### What is hard

* **Deferred effects.**  The JIT changes control state while translating and all other
  state when the buffer runs.  Nothing in the code orders the two explicitly.
* **Self-modification.**  `FX33` writes into `ram`, which holds code.
* **Missing bounds.**  `cpu.sp`, `cpu.pc`, `cpu.i + X`, the sprite's target and the length
  of the executable buffer are used without a check.
* **Fixed-width arithmetic.**  `uint8_t` positions in the sprite loop, the timer that wraps
  below zero, a chunk size that wraps at 256, flags computed after the assignment.
* **Re-entrancy.**  `disasmChunk` and `grabFunc` call themselves in the middle of an
  instruction, while the list and the sizes that stop the recursion change under the outer calls.
* **Changing the form of control.**  The recompiler turns skips into nested `if`s, jumps into
  `goto`s and macros, and calls into C calls: the program's stack becomes the C stack.
* **Liveness.**  Who returns to the poll loop, and does the recursion end?

### What makes each component correct

* Interpreter: every access in its array or nothing further is said; the return stack
  holds call sites; a program that waits for the timer goes on.
* Sprite loop: it flips exactly the pixels under the sprite's one bits, once.
* JIT: it cannot be told from the interpreter on the instructions on which the two agree;
  nothing is left in the buffer between two runs.
* Main loop: a request to close the window is honoured.
* Disassembler: the recursion ends, and prints every instruction that can be reached, as long as jumps and
  calls reach even addresses and no jump that may be skipped stands behind a skip on a key.
* Assembler: a label has one address wherever it is used; nothing is written for a wrong source; its
  table of instructions agrees with the disassembler's.
* Strings: no chunk's text is longer than the memory it lives in.
* Recompiler: no function is grabbed twice; none that can be reached is left out, under the same two conditions; the tables
  hold what they are given; the program that is printed does what the interpreter does.

## 2. Modules

| module | models | composes |
|---|---|---|
| `Chip8` | memory, decoding, byte arithmetic, screen and the closed form of the sprite loop, as operators | |
| `Interp` | `cpuInterpStep`, one action per opcode | extends `Chip8` |
| `Lemmas` | lemmas that several proofs need: the ends of a sequence, recursion on a number, what the operators of `Chip8` return | extends `Chip8` |
| `InterpProofs` | theorems about `Interp` | extends `Interp`, `Lemmas` |
| `SpriteLoop` | the pixel loop of `OP_DRAW`, one action per iteration | extends `Chip8` |
| `SpriteLoopProofs` | theorems about `SpriteLoop` | extends `SpriteLoop`, `Lemmas` |
| `Jit` | `cpuJitRun`, `execBufferRun` and the code that is emitted | extends `Chip8` |
| `JitRefines` | history variables and the refinement of `Interp` by `Jit` | extends `Jit`, instantiates `Interp` |
| `JitProofs` | theorems about `Jit` and `JitRefines` | extends `JitRefines`, `Lemmas` |
| `MainLoop` | the loop of `main` and SDL's queue | |
| `MainInterp`, `MainJit` | the emulator as built in either mode | `MainLoop` with an engine |
| `ChunkString` | `chunkStringInit`, `chunkStringAdd` and the length of each text, as operators | extends `Chip8` |
| `Disasm` | `disasmChunk` with its call stack and the list of chunks; the print loop of `main` | extends `ChunkString` |
| `DisasmProofs` | theorems about `Disasm` | extends `Disasm`, `Lemmas` |
| `Mnemonics` | `processInstruction` of the assembler and `disasmOpcode`'s texts, as operators | extends `Chip8` |
| `TwoPass` | what the assembler promises: a pass over the labels and one over the instructions | — (the instruction table is a parameter) |
| `Asm` | `main`, `strToLines`, `newLabel`, `backpatchHere`, `fillBackpatches`, `outputAddWord` of the assembler | extends `Mnemonics`, instantiates `TwoPass` |
| `AsmProofs` | theorems about `Asm` | extends `Asm`, `Lemmas` |
| `Grab` | `grabFunc` of the recompiler with its call stack and the table of functions | extends `Chip8` |
| `GrabProofs` | theorems about `Grab` | extends `Grab`, `Lemmas` |
| `Recomp` | `parseFunction`, `astWrite`, what a C compiler says to the text, and the compiled program | extends `Grab` |
| `RecompRefines` | a history variable and the refinement of `Interp` by the compiled program | extends `Recomp`, instantiates `Interp` |
| `RecompProofs` | theorems about `Recomp` and `RecompRefines` | extends `RecompRefines`, `GrabProofs` |
| `MC*` | instances for TLC (`MCRoms`: programs as bytes) | |

### State and actions

**Chip8.**  A memory is a function from the addresses *written so far* to bytes; `Peek`
supplies the font and zeros elsewhere, as `memcpy` in `cpuInit` and C's static
initialisation do.  It keeps states small without leaving anything out.  A screen is the
set of lit pixels: the loop only ever writes `0xFF` or `0xFFFFFFFF` to a pixel.
`Target(x, y, r, j)` is the closed form of the position of a sprite's pixel, with the wrap
of the `uint8_t` `xPos`; `SpriteLoop` is the loop itself and is checked to compute it, so
that `Interp` and `Jit` may draw in one step.

**Interp.**  Each action is one `case` of the switch together with the two statements
behind it (`Finish`: `pc += 2` and `--delayTimer`).  `InBounds` collects the accesses of the
instruction at `pc`; when one leaves its array, `GoWild` ends the run in the state
`"wild"`, since C leaves open what follows.  `unimplemented()` is `"exited"`.  The two
key instructions print a message and go on, as the code does.  `rand()` is any value.

**Jit.**  `phase` says where the process is: in `main`, translating, or executing the
buffer.  The machine code of an instruction is abstracted to its opcode in `buf`, and `rest` is what the
processor has yet to run of it; `Effect` says
what the bytes do, read from the bytes where they differ from the comment (8XY2 never
stores, 8XY5 and 8XY7 compare `ax` with `bx`, FX65 loads the low byte of `cpu.i`).  `len` is the
length in bytes, with each instruction's true size.  A length above `EXEC_BUFFER_SIZE` is the
state `"overflow"`.

**JitRefines.**  `ahead` is the machine as it will be once the buffer has run, `ticks` the
delay timer that the JIT leaves out.  The mapping gives the interpreter `ahead`, and the
JIT's own `pc`, `stack` and `sp`.  Translating an instruction is the interpreter's step; running
the buffer stutters.  A step is taken only while translation has not met something that `Departs` lists; there the two
engines differ, and nothing is claimed:
* an instruction that a store still waiting in the buffer changes (`TranslatedEarly`);
* opcodes that only the interpreter executes, 8XY1 to 8XY7 and 8XYE, FX65 from a higher address than 255, and FX33 outside `ram`,
  which the JIT finds out later (`MeansElse`).

**MainLoop.**  `at` says whether `main` is about to poll, in the engine, or has left the loop.  When the queue
is empty `SDL_PollEvent` does not write `e`, so the type it is compared with is arbitrary.

**Disasm.**  `frames` is the C call stack.  A frame is between reading an opcode and
returning from the nested call (`"printed"`), or about to read (`"read"`).  A chunk's text is the
sequence of addresses that it shows, and `str` the length and the size of the string that holds it;
`size` is a `uint8_t`.  A recursion deeper than
`MaxDepth` is `"crashed"`.  `checkIfDisassembled` also recognises an odd address between two instructions of a chunk, where no
text starts; `ReachableIsPrinted` therefore speaks of files in which only even addresses are reached.  `Successors` says where
execution may go by the disassembler's own mnemonics: `skip_key_down` and `skip_key_up` (`KeySkips`) are skips in it, although
`disasmChunk`, whose test for a skip is `SkipClasses`, ends a chunk at a jump or return behind one of them.  The way over that
jump is `Missed`, and `ReachableIsPrinted` speaks of what is reached without it (`Followed`).  Files may have any length: the
`uint16_t` `pc` wraps in `Ahead`, round to addresses where chunks end.  `PrintChunk` is a turn of the loop in `main`, which reads `c->next` behind `free(c)`:
the model takes from the allocator that a freed block keeps what lies behind its first 16 bytes.

**ChunkString.**  The characters of a text are left out; `TextLength` is their number for each opcode, from
the formats of `disasmOpcode`.  `chunkStringAdd` compares without the terminating zero and doubles once,
so that 38 characters behind 27 to 32 leave a text of up to 71 bytes in 64 that were asked for.  `Usable` is
what `malloc` really gives (72 for 64), and only that makes `TextFits` hold.

**Mnemonics, Asm, TwoPass.**  A source is a sequence of tokens, newlines and semicolons; a word that is no
token is `Junk`.  A number is the sequence of its digits, of which `hexStrToInt` reads three and `getTokenNum` keeps
a byte; a letter that is no digit counts as 17 (`NoDigit`).  `StrToLines` scans the source as the loop
of `strToLines` does.  A comment that no newline ends makes it run past the text, and a line of exactly `MAX_LINE_LEN`
loses its terminating zero to the pointer behind it: both are `"wild"`.  Then `Asm` takes one token (with an
instruction, its operands too) per step: a wrong operand exits, a missing one is a null
pointer (`"crashed"`), and no file is written in either case.  `LabelAddr` gives 0 for a label that was not seen yet, as
`getTokenLabelAddr` does, and that 0 is what makes `ProcessInstruction` leave a back patch.  A label in the place of a
register-or-number operand is not an error in the code: the opcode is zero, and the label need not exist.
Behind 32512 words `pc` is 0 again: labels there have the address that stands for an unknown one, and back patches lie in front
of the buffer.  The model stops in `"wrapped"` when `pc` would get there (`WrapPc`).
`TwoPass` says the same without lines, back patches and an order of reading, in one step and in terms of positions in the
source.  A position is shown (`Shown`) if it is neither a newline nor in a comment.  A reading is the set of positions where a
word starts (`Reading`): each starts with an instruction, its operands are the shown tokens directly behind it, and what is
neither is a label.  A label's address is 0x200 and two bytes for each word in front of it (`AddressAt`), the first label of a name counts, and
the file is the list of the words (`Words`); a source with no correct reading gives no file.  Where a register or a number may stand, the
code takes any token (`asm/src/instructions.c:99-105`): in `ldv v1 a:` the label is swallowed and not defined, in `add v1 jmp ret`
the `jmp` is, and the word is zero.

**Grab.**  As in `Disasm`, `frames` is the C call stack, and `funcs` holds the entries that are allocated.  An
offset counts bytes and a size counts words, as in `checkIfAlreadyGrabbed`; the size has grown when the nested
`grabFunc` looks at it (`Grown`).  A write behind either table is the state `"wild"`.  `Successors`, `KeySkips`, `Missed` and
`Followed` are as in `Disasm`: the recompiler prints an `if` for EX9E and EXA1, so the program skips there, but `grabFunc` ends
a function at a jump behind them.  In E09E 1200 6005 the last instruction can be reached and is never grabbed.

**Recomp.**  `Write` is everything from the tree to the printed text: `text[k]` is the body of function `k` as a
sequence of lines, an `if(` and its `}` or a statement.  `Body` is `parseFunction`, `parseInstruction` and `astWrite` in one:
`singular` is as in the code.  A function that starts with a jump is printed as a `#define` (`IsMacro`).  Where the
recompiler itself leaves an array (32 functions, the arena, `tabs[4]`) the state is `"wild"`; where it meets an indexed
jump, `"exited"`.  `Compiles` is the C compiler, as far as the text depends on the program: a `goto` needs its
label in the function, a call the name of a function with a body.  `parseFunction` leaves the offset of an
`AST_FUNCTION` uninitialised, so that `astWrite` may print a label in front of a function: then the text is `"rejected"`
although nothing else is wrong with it.  A label in front of a closing brace is taken to be accepted, as newer
compilers do.  The rest of the module is the compiled program: `calls` is its C stack, and each action is one
statement, `goto`, call, return or `if`.

**RecompRefines.**  `slots` is `cpu.stack` as the interpreter would have filled it.  A step is taken only while the
compiled program has not met something that `Departs` lists; from there on, the two programs are known to differ:
* an instruction whose bytes in `ram` are not those that were grabbed;
* an instruction whose second byte is behind `ram`: a ROM of 3584 bytes can jump to its last byte, the recompiler reads on
  behind its own buffer, and the interpreter leaves `ram`;
* the end of a function's text, where C returns and the interpreter goes on;
* a skip on a key (the interpreter only prints a message), one in front of another skip, and one at a function's end;
* 8XY3 (falls through in the interpreter), 8XY5 and 8XY7 (other flags), FX07, FX0A, FX15, FX18, FX1E, FX55, and FX65 of more
  than one register (`cpu.i` advances by X), 0NNN other than 00E0 and 00EE.

Operators whose comment says *faulty variant* belong to no specification: each is an
action or operator with one bug, kept to see that the property named beside it in
`PROJECT.json` notices the bug.

## 3. What is checked

| run | properties | shows |
|---|---|---|
| `MCInterp` | `TypeOK`, `StackHoldsCallSites` | every program of four instructions over a control-flow alphabet with self-modification, and of three over a data alphabet |
| `MCSpriteLoop` | `PositionsAgree`, `DrawsClosedForm`, `WildWhenOutside` | the loop computes the closed form at every alignment with the edges |
| `MCJitRefines` | `TypeOK`, `StackHoldsCallSites`, `BufferDelivers`, `ImplementsInterp` | the JIT implements the interpreter up to the departures listed above; programs with one of each kind of departure, every program of four instructions over a control-flow alphabet with self-modification and of three over a data alphabet, overflow of the buffer included |
| `MCMainInterp` | `QuitServed`, `WaitEnds` | closing the window works; loops of three and five instructions that poll the timer for one value end |
| `MCMainJit` | `QuitServed` | closing the window works for programs whose endless loops end a block |
| `MCDisasm` | `TypeOK`, `NoReentry`, `ReachableIsPrinted`, `TextFits`, `Terminates` | every program of five instructions, of seven over a smaller alphabet, of three that jump to odd addresses, and of four with skips on keys; texts of every length that matters |
| `MCAsm` | `TypeOK`, `PatchesAwaited`, `Reassembles`, `ImplementsTwoPass` | one pass with back patches is as good as two; comments and empty lines change nothing; which opcodes survive disassembly and assembly |
| `MCGrab` | `TypeOK`, `GrabbedOnce`, `TargetsGrabbed`, `ReachableIsGrabbed`, `Terminates` | the mixture of bytes and words loses no function and grabs none twice, for even targets; what is reached is grabbed, but for the way over a jump behind a skip on a key |
| `MCRecomp` | `MachineTypeOK`, `SkipsLandBehind`, `ImplementsInterp` | the compiled program implements the interpreter up to the departures listed above |

Three more runs look for a violation, and find it: each states what a comment
of the repository says and the code does not do.

| run | claim | what happens |
|---|---|---|
| `MCMainJit_spin` | polling lets endless loops be closed | the JIT never returns from a loop of jumps |
| `MCDisasm_skips` | a jump that can be skipped does not end a chunk | it does behind `skip_key_down` |
| `MCGrab_skips` | the same of a function of the recompiler | it ends inside the `if` of EX9E, and what follows is not grabbed |

`Reassembles` is an equivalence, so `NotReassembled` is the whole list of the opcodes that do not come back
when the text of one instruction is assembled alone.  Most of them have no text of their own or use a label that the
line does not define.  The others are differences between the two programs: `skip_key_up` and `skip_key_down` have each other's
opcode (`asm/src/instructions.c:256-267`, `disasm/src/main.c:127-132`), `set_sound` is FX0A for the assembler and FX18 for the
disassembler, `get_key` is no instruction of the assembler (`get_sound` is one, without a code), `shift_l` and `shift_r` are printed with one operand and read with
two, `jmp V0+@NNN` is read as a jump to a register, and `ldi` keeps two of the three digits that are printed.

The model follows the code in seven more places where a comment or the other engine says something
else; they have no run of their own because they are a single step each:

* 8XY3 of the interpreter falls through into the addition (`cpuInterp.c:58`), where `disasm/src/main.c:86` prints `xor`;
* 8XY5 of the JIT compares 16 bits, half of them stale, for its flag (`cpuJit.c:215`);
* FX15 of the interpreter loads the sound timer into VX (`cpuInterp.c:94-96`), where `disasm/src/main.c:147` and
  `asm/src/instructions.c:274-277` call it `set_delay`;
* 8XYE of the interpreter sets VF from the *shifted* value (`cpuInterp.c:77`; `cpuJit.c:261`
  says, and does, the opposite);
* 8XY2 of the JIT computes the and in `al` and never stores it (`cpuJit.c:188-196`);
* FX65 of the JIT loads the low byte of `cpu.i` where its comment says `word` (`cpuJit.c:386-387`);
* `disasmChunk` compares `pc` with 0, not 0x200, and so reads in front of its buffer
  (`disasm/src/main.c:183`).

The recompiler's model shows more of what its source leaves open, each a state of its own and none with a
comment or a test that says otherwise: the uninitialised label in front of a function (`Write`), a call printed above the
`#define` of its name, which does not link (`Links`), three nested skips, which overflow `tabs` (`TabsFit`), the last
function of a full table (`WritesInBounds`), and a skip in front of a skip, which takes the rest of the function into its
branches (`Behind`).

### Bounds, and why they are enough

* **Programs.**  `MCInterp` has 12^4 + 21^3 programs.  Four instructions hold a call, a
  return, a store over code and a jump back; a call loop fills the 16 slots (the stack is
  *not* reduced), an empty return leaves it, and 8-bit operands reach every wrap: each immediate
  was chosen next to 0, 128 or 255.  The same holds for the JIT; there the alphabets hold
  every instruction it translates.
* **`TimerRange`** is 256 in the code.  The safety runs use 4: no other state depends on the timer
  except through FX07, and 4 values still wrap.  `MCMainInterp` uses 64, a power of two as 256 is, so
  that the same loop lengths have no divisor in common with it.
* **`ExecBufferSize`** is 4096 in the code; 120 and 100 hold the longest block of the programs and
  overflow when a loop is translated twice or more.
* **`SizeRange`** is 256 in the code; `MCDisasm` uses 12, so that a chunk of six instructions wraps round
  as one of 128 does.
* **Skips on keys**: `MCDisasm` and `MCGrab` have every program of four from seven instructions, jumps, a call and a return behind
  EX9E, EXA1 and an opcode of class E that is no skip among them.
* **`MaxDepth`** 5 frames: more than the targets of these programs need, so only an endless
  recursion reaches it.
* **Texts** of 7, 15, 16 and 39 characters with their tab: every sum below and above 32 and 64 that five instructions
  can make, 32 and 71 included.  32 is the size in the code.
* **`MaxFuncs`** 4, **`MaxSize`** 5 and 6 (32 and 256 in the code): enough for three nested functions of a program of five
  or six instructions, and exceeded by some; `Terminates` is claimed for the programs that they suffice for.
* **`MaxNodes`** 9 (1706 of 24 bytes in the code): one function of eight instructions, or two that share six.
* **`MaxCalls`** 17: the 16 slots of the interpreter's stack and `func_0000`, so that a call that the interpreter cannot
  push is met; beyond, the compiled program goes on and nothing is claimed (`CallsAssumption`).
* **ROMs** of `MCRecomp`: six instructions of which five are chosen from the flow alphabets, all pairs of data instructions, and
  single programs that call themselves until the stack is full, overflow a table or the arena, or jump to the last byte of `ram`.
* **`MaxLineLen`** 5 tokens (256 characters in the code): lines of four, five and six tokens; at least 4, so that the text of
  each opcode fits in a line (`LineAssumption`).
* **`PcRange`** 526 (65536 in the code): room for six words; sources of seven and more stop in `"wrapped"`.
* **Sources** of the assembler: all 7^4 of four lines from an alphabet in which labels are defined before,
  between and after their uses, twice, and on the line of an instruction; 7 * 15 * 7 with a wrong
  line, or one that takes a label or an instruction for an operand, between two good ones; all 5^5 of semicolons, newlines, a definition and a jump to it; the texts of opcodes of every class, each second byte that
  either table tells apart, and three registers.
* **`MaxEvents`** 2: a request behind another event, and an event behind a request.
* **Sprites**: columns around 48 to 66 and 255, lines around 14, 28 to 33, 63 and 200, heights 0, 1, 2, 3, 4
  and 15, an empty and a striped screen.

`CHECK_DEADLOCK FALSE` is set everywhere, because every one of these programs really stops: it
exits, leaves its loop, or is in the state `"wild"`.

### Fairness

Weak fairness of the engine's and the loop's own steps, and of nothing else: `main` is an endless
loop that never blocks, and `disasmChunk` is sequential code.  Nothing is assumed of
the events.  `QuitServed` under the JIT needs programs whose endless loops end a block;
`MCMainJit_spin` shows why.

`Terminates` is claimed for programs that have no jump or call at 0x200 nor at the target of
another jump or call (`StartsPlainly`), and that are too short for a chunk's size to wrap.  Without that, the recursion need not end: a ROM whose first instruction is
`1200` makes `disasmChunk(0x200)` call itself while its chunk's size is still 0, so
`checkIfDisassembled` does not recognise it.  `NoReentry` says exactly this: re-entry happens only for a
chunk whose size is zero.

`Terminates` of `Grab` needs no such condition on where jumps stand, since the size grows before the nested call; it is claimed for
ROMs whose jumps and calls name no more places than there are entries (`TablesSuffice`).

## 4. What is proved

The theorems about the engines and the recompiler hold for every set of ROMs (`RomsAssumption`: a ROM is a sequence of at most
3584 bytes, which the code does not check), those about the disassembler for every file, of whatever length (`FilesAssumption`), and
those about the assembler for every set of sources, of whatever length (`AsmAssumption`; of a run whose `pc` wraps they say
that it stops in `"wrapped"`, and nothing of what the code does from there).  They hold for every range of the timer and of
`pc`, and for buffers, tables, sizes and depths of every positive bound.  Nothing else is
assumed, except that `SizeRange` is even and at most 256 and that a sprite has at most 15 rows, as a nibble allows; `Implementation` of the recompiler also fixes `MaxCalls` (`CallsAssumption`),
and `ReassemblyCorrect` needs that a line holds four tokens, those of a `draw` (`LineAssumption`; a line of the code has 256 characters).  Two groups of facts in `Lemmas` are used by several proofs: those on the last
element of a sequence, for call stacks, and recursion on a number.  The library's induction takes an operator as a
parameter; `Iteration`, `LeastNatural` and `UpTo` say the same of sets, which a proof can instantiate.

### Interpreter

* `TypeCorrect`: `Spec => []TypeOK`;
* `StackCorrect`: `Spec => []StackHoldsCallSites`.

`TypeOK` is inductive by itself because the guards of `Interp` are the bounds of the arrays: the
proof has one step per action, over lemmas about what each operator of `Chip8` returns
(`PeekType`, `FetchType`, `ByteOfType`, `PokeDigitsType`, `ToggledTouched`, ...).  What is not obvious in it: `i`
stays within `ram` because FX29 multiplies a byte by 5, and the frames of the stack stay below
4096 because only a `pc` with `InRam(pc + 1)` is pushed.

`StackHoldsCallSites` is not inductive alone: that a return or a store keeps the frames
needs their range, so the invariant is `TypeOK /\ StackHoldsCallSites`.  Three facts carry it: a pushed frame
is a `pc` whose fetched class is `OP_CALL` (`ClassOfFetch`: the class of the opcode is the high
digit of its first byte); every other instruction leaves the part of the stack below `sp` alone; and
the only instruction that writes `ram`, FX33, writes a digit and leaves all else
(`PokeKeepsCalls`).

### Sprite loop

* `PositionsCorrect`: `Spec => []PositionsAgree`;
* `ClosedFormCorrect`: `Spec => []DrawsClosedForm`;
* `WildnessCorrect`: `Spec => []WildWhenOutside`.

The invariant is `LoopInv`.  Its core is `PositionOK`: `xPos` and `yPos` at column `col` of row `row` are the closed form's `TargetColumn`
and `TargetRow`.  Behind a row that wrapped round the right edge, `xPos -= 8` leaves 192 too much in the byte, for the
row's first pixel only (`RewoundColumn`, `NextColumn`).  The screen is the first one with the pixels toggled that the loop has
visited; that the closed form never names a pixel twice, the ones three lines lower included
(`DistinctTargets`), makes toggling one by one the same as toggling the set.

### JIT

* `TypeCorrect`: `Spec => []TypeOK`;
* `StackCorrect`: `Spec => []StackHoldsCallSites`;
* `Delivery`: `HSpec => []BufferDelivers`;
* `Implementation`: `HSpec => ImplementsInterp`.

The last is the refinement of `Interp` by `JitRefines`.  Its invariant `SimInv` says that the code that waits *leads* from the machine as it is to
`ahead`: there is a run of machines, one per instruction, that starts with the first and ends in the second (`Leads`).
Translation appends a machine at the end of that run, execution takes the first one away, and an empty run is an equality:
that is `BufferDelivers`.  `TypeOK` of the machine ahead is part of it, and that the
opcode fetched from `ram` is the one in `ahead.ram` comes from `Departs`.  A step of translation is then the interpreter's
step on `ahead` (`HEmit`, `HTransfer`, `HLeave`, one lemma for each instruction that the two share), and every other step a stutter.

### Disassembler

* `TypeCorrect`: `Spec => []TypeOK`;
* `ReentryCorrect`: `Spec => []NoReentry`;
* `TextCorrect`: `Spec => []TextFits`;
* `ReachCorrect`: `Spec => []ReachableIsPrinted`.

The invariant of the first three is `DInv`.  `NoReentry` needs to know that the frames stand for different chunks (`ChunksInOrder`): then
`Advance`, which changes a size, changes that of the innermost frame only, and a nested call is made only when
every chunk at its target has size 0 (`OpensNew`).  `pc` is a `uint16_t` whatever the file's length, since `Ahead` wraps.  `TextFits` is not inductive; `StringsOK` is: between two instructions a size is a
multiple of 16, at least 32, and exceeded by at most 7 bytes.  The argument is in `AddOpcodeKeeps`: a tab makes the string
grow as soon as it is full, so that the text behind it starts within the size, and 38 characters (`TextLengthBound`) exceed
the doubled one by no more than 7.

`ReachCorrect` adds `HInv`.  A chunk shows the ROM's instructions from its start on (`TextInOrder`, `Placed`) until it ends
(`Complete`), and its size, wrapped or not, exceeds what lies in front of its last instruction only when the ROM ends there or
when the next instruction is about to be read (`Sized`).  In a long file the address
behind the last instruction (`NextOf`) may have wrapped, but then it is outside the file: where it is inside, it is the next
one in the text (`NextInRom`).  So an address between a chunk's ends, the inclusive upper end
too, lies in what the chunk shows already, and a nested call that is not made loses nothing: `TargetsHeld`
is kept when it is made and when it is not.  When all frames are gone, what is shown is closed under `Followed`, the successors that are not `Missed`
(`SuccessorsShown`), and by recursion on the number of steps everything reached is shown (`ReachableShown`).
The conditions are needed: `checkIfDisassembled` does lose odd addresses, and `MCDisasm_skips` shows a chunk that ends where
one of the ways that are missed begins.

### Assembler

* `TypeCorrect`: `Spec => []TypeOK`;
* `PatchesCorrect`: `Spec => []PatchesAwaited`;
* `AssemblerCorrect`: `Spec => ImplementsTwoPass`, the refinement of `TwoPass`;
* `ReassemblyCorrect`: `Spec => []Reassembles`.

The invariant of the first two is `AInv`.  That `pc` is 0x200 and the bytes written is an equality of numbers, without
a bound on the source: the guard of `WrapPc` takes the runs in which the `uint16_t` would be smaller.  An opcode is a word whatever the operands are, because `Or16` cuts each half (`EncodeType`).

`PatchesAwaited` is about the patches that are left while `fillBackpatches` goes through the list; the invariant says
it of all patches from the start (`Awaited`): each has a word of its own with an address of zero.  A word
is left with a patch only if its label was not found, so its address is the zero of `getTokenLabelAddr`, which or-ing onto a
jump or a call keeps (`AwaitingWord`); it is the last word, so no patch had it; and filling a patch writes its own word only
(`PatchFilled`).

For the refinement, the state must say what of the source it stands for, and `GInv` adds that to `AInv`.  `Layout` says where each line's tokens
are in the source and that only newlines and comments are between them: the scan, which `Scanned` defines by
recursion, has it after each round (`ScannedLayout`), together with whether a comment goes on and whether a line was too long.  While lines are read, there are
a position up to which the source was read (`Placed`: the rest of the line is what is behind it), the set of positions where words
started (`ReadUpTo`), and the ascending enumerations of these and of the labels (`Recorded`), the k-th of which is the k-th word of
`out` and the k-th entry of `labels`, with its address.  Each word is as two passes would write it or has a back patch that waits for it
(`Written`), and no patch waits for nothing.  Each action keeps this: a label that was found stays the one that is found
(`FoundStays`), the address of a label does not change when words follow (`AddressStays`), and or-ing an
address into a jump or call later gives the word that writing it at once would have given (`TransferWord`).

The step that saves has then read everything (`AllRead`), and the words are those of the reading it found (`SavedRight`).  For the
steps that fail it must be shown that *no* reading is correct, and there the invariant is used against any other: up to where the
assembler has read, every reading has its words where the assembler has them (`ReadingsAgree`), since each token is an operand of the instruction
in front of it or must be a label or an instruction itself, and so the next token must be a label or start a word
(`ReadingGoesOn`).  So a token that is neither (`TokenWrong`), operands that cannot be read, a label that is nowhere (`LabelWrong`), a line that is too
long and an unknown word each refute every reading.  Steps to `"wild"` and `"wrapped"` stutter.

`ReassemblyCorrect` says of all 65536 opcodes which of them come back when their text is assembled alone; TLC looks at a sample.  The steps that end a
run are known to save the words of a correct reading of the source (`SavedRight`) or to refute every one (`Wrong`), so nothing
more is needed of the states in between: what remains is about the two tables.  A word is taken apart into its four digits (`Code`,
`CodeDigits`, `CodeFields`), and for each class of opcodes `Decode` writes a name and at most three operands or no text at all (`DecodeNumber` to
`DecodeJunk`).  `Encode` puts digits together again by or-ing; since `Or8` is defined bit by bit, that or-ing a
digit into a place where zeros are is adding it comes from the bits of a nibble (`NibbleBits`, `OrNibbles`, `OrX` to `OrYN`), and
`HexStrToInt`, a fold over the characters, is unfolded for the one to three digits that `disasm` writes (`HexUnfolds`, `ThreeDigits`).  `Answers` says of an
opcode that the assembler accepts its text (`Fits`: the number and types of operands of the name, and no label) and makes the same opcode of it,
unless it is one of `NotReassembled`; `Answered` shows it of every word that has a text.  On the side of `TwoPass`, such a text has one reading, which begins at its first token,
and that one is correct exactly when the text fits (`TextRead`, `TextCorrect`), with the one word that `Encode` gives (`TextWords`).

Writing this proof showed that an earlier `TwoPass` was wrong: it took a label or an instruction in the place of a register or a number for
an error, or for a label all the same, which the code does not.  TLC confirmed it on `ldv v1 a:`, and such lines are now among the sources.

### Recompiler

* `TypeCorrect`: `GrabSpec => []TypeOK`;
* `OnceCorrect`: `GrabSpec => []GrabbedOnce`;
* `TargetsCorrect`: `GrabSpec => []TargetsGrabbed`;
* `ReachCorrect`: `GrabSpec => []ReachableIsGrabbed`;
* `MachineCorrect`: `RSpec => []MachineTypeOK`;
* `SkipsCorrect`: `RSpec => []SkipsLandBehind`;
* `Implementation`: `HSpec => ImplementsInterp`.

`checkIfAlreadyGrabbed` recognises a function by its size, so that a function without an opcode escapes it.  The invariant
`GInv` says that only the innermost call can be in such a function, before its first read (`EmptyIsTop`); since that read
stores an opcode before the next call is made, `TargetIsNew` follows: the target is at no function's offset.

The other two need `CInv`: a function holds what the ROM holds at consecutive addresses (`Faithful`, `Continuous`), is being grabbed or has
ended (`Complete`, `Placed`, `ReadsOn`), and every target lies within as many *bytes* of some function's offset as that function
has *words* (`TargetsHeld`), whether it was grabbed for that target or recognised.  That is less than the function holds, so
that comparing bytes with words errs on the safe side.  Both theorems are about ROMs all of whose grabbed jumps and calls have even
targets: one odd target is enough to lose an even one, in a function that starts at an odd offset and covers it.
`ReachCorrect` is, like the disassembler's, about `Followed`.

`SkipsCorrect` is about the text, which a recursion over the rest of the function prints.  What is proved of it
(`BodyOrder`) is that its lines have an order (`Arranged`): a function `pos` that gives the line of each instruction and
increases, a function `fin` that gives the closing brace of each skip, no other line, and in front of a brace exactly the instructions that
the skip takes inside (`Within`): the next one, or all that follow when the next one is a skip too.  `ArrangeAround` puts lines around an order of the rest,
and one lemma for each form that `parseInstruction` prints (`OrderDo`, `OrderNest`, `OrderSkip`) gives the lines.  From the order
follows where control goes from a line (`NextAhead`) and from a brace (`EndAhead`).

`MachineCorrect` needs `RInv`.  Until the text is printed it is `CInv`, from which `TablesHold` takes that no two printed
functions start at the same offset: a function with an opcode starts inside the ROM, where `GrabbedOnce` holds.  From then on,
what the compiler has checked: each goto has its label, and each name that is called leads to a function with a
body (`Accepted`; `LinksResolve` unfolds the chain of macros into a set of names that is closed under them).  `Standing` says that of
the functions on the call stack, and `Waiting` that the callers stand at calls, so that a return goes on behind one.

`Implementation` is the refinement of `Interp` by `RecompRefines`.  The interpreter's registers that C does without are read off the
C stack: `Pc` is the address of the instruction that the innermost call is at, `Sp` the number of callers.  The invariant `HInv` adds
to `RInv` that all that was grabbed lies in the ROM (`Fits`), and that `slots` holds the address of the call that each caller waits
at (`Recorded`), which is what the interpreter pushed.  Three facts about the text carry the step: the first line of a function
is its first instruction (`FirstLine`), so that a call is a jump to the function's address; behind a line's instruction comes
the one at the next address, and behind a brace the one after the skipped (`SpotAfter`, `SpotBehind`, from the order of the text above);
and a target that leads to a function lies in the ROM, so that subtracting and adding 0x200 cancel (`TargetAddress`).  Then there is one lemma
for each action: a statement leaves the machine as the interpreter's action does (`StatementImplements`, `SameMath`) and needs the same
bytes (`SameBounds`), an `if` tests the opposite of what is skipped on (`SkipImplements`), a call pushes where the
interpreter's slots end (`CallImplements`, `CallTooDeepImplements`), and a return of `func_0000` is the interpreter's return
with an empty stack (`ReturnToMainImplements`).  What happens before `main` calls `func_0000` stutters.  The proof failed for a
jump to the last byte of `ram` until `Departs` listed it.  `CallsAssumption` (as many nested calls as
`cpu.stack` has slots, and `func_0000`) is assumed by this theorem only.

### Model-checked only

* Liveness: `WaitEnds`, `QuitServed`, `Terminates` of `Disasm` and `Grab`.

Every invariant, action property and refinement that a run checks is stated by a theorem.

## 5. What is not modelled

* What a program does after an access outside its array, and after a write behind the
  executable buffer: undefined in C.
* What the recompiled program does once it meets one of the departures, and whether its C compiler is given a
  text without the uninitialised label.
* The keyboard and the window of the recompiled program: whether a key is up is a choice at each `if` that asks,
  whether the window was closed one at each sprite.
* The debug output of the syntax tree, which is compiled out.
* The clobbered `rbx` and the alignment of the stack in the code the JIT emits.  Both are
  outside the C language; what they break depends on the compiler.
* Windows, surfaces, blitting, messages: no state comes back from them.
* The buffers of the assembler for a token (32 characters) and a label (64), which depend on characters.  The growth
  of its output buffer: it doubles whenever the next word does not fit, which is enough for a word.
* What the assembler does once its `pc` has wrapped.
* The build scripts.

## 6. Plan

In the order of importance; the first nine are done.

1. `Chip8`, `Interp`, `MCInterp`: the machine and its reference engine.
2. `InterpProofs`: type correctness and the return stack.
3. `SpriteLoop`: the loop against its closed form.
4. `Jit`, `JitRefines`: deferred effects against the interpreter; `MainLoop` with both engines.
5. `Disasm`: coverage and termination.
6. `Asm`, `TwoPass`: labels and back patches.
7. `Mnemonics`: the assembler's table against the disassembler's.
8. `ChunkString`: growth of the text buffer against its capacity.
9. `Grab` and `Recomp`: `grabFunc` with its tables (the 8-bit and 16-bit sizes, re-grabbing), and the
   meaning of the emitted C, instruction by instruction, against `Interp`.
10. Proofs: the type and safety invariants of every module, and the refinements of `Interp` by the JIT and by the
    recompiled program, and of `TwoPass` by the assembler, are done.
