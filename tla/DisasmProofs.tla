----------------------------- MODULE DisasmProofs -----------------------------
(***************************************************************************)
(* TLAPS proofs about disasmChunk and its strings, for every set of files,   *)
(* every range of a chunk's size and every depth of the C stack.            *)
(***************************************************************************)
EXTENDS Disasm, Lemmas

Str == [length : Nat, size : Nat]
Chunks == [offset : Word, size : 0..(SizeRange - 1), text : Seq(Word), str : Str]
Frames(n) == [chunk : 1..n, pc : Word, opcode : Word, at : {"read", "printed"}]

-----------------------------------------------------------------------------
(* Strings.                                                                *)

\* Behind each instruction, a text exceeds the size that was asked for by at most
\* the 7 bytes that malloc's rounding adds; that size is a multiple of 16.
StrOK(s) == /\ s \in Str
            /\ s.size >= InitialSize
            /\ s.size % 16 = 0
            /\ s.length <= s.size + 7

LEMMA FieldRanges ==
  ASSUME NEW opcode \in Word
  PROVE  Class(opcode) \in 0..15 /\ Nib(opcode) \in 0..15 /\ Imm(opcode) \in Int
         /\ Addr(opcode) \in Word
  <1>1. opcode \in Nat /\ opcode < WordSize
    <2>1. WordSize \in Int
      BY DEF WordSize
    <2>2. QED
      BY <2>1 DEF Word
  <1>2. Class(opcode) \in 0..15
    BY <1>1 DEF Class, WordSize
  <1>3. Nib(opcode) \in 0..15
    BY <1>1 DEF Nib
  <1>4. Imm(opcode) \in Int
    BY <1>1 DEF Imm
  <1>5. Addr(opcode) \in Nat /\ Addr(opcode) < 4096
    BY <1>1 DEF Addr
  <1>6. Addr(opcode) \in Word
    <2>1. Addr(opcode) < WordSize /\ WordSize \in Int
      BY <1>5 DEF WordSize
    <2>2. QED
      BY <1>5, <2>1 DEF Word
  <1>7. QED
    BY <1>2, <1>3, <1>4, <1>6

\* No text is longer than that of an unimplemented opcode.
LEMMA TextLengthBound ==
  ASSUME NEW opcode \in Word
  PROVE  TextLength(opcode) \in 0..38
  <1> DEFINE c == Class(opcode)
  <1>1. c \in 0..15
    BY FieldRanges
  <1>2. CASE ~Named(opcode)
    BY <1>2 DEF TextLength
  <1>3. CASE Named(opcode) /\ c = OP_MATH
    <2>1. MathLength(Nib(opcode)) \in 0..38
      BY <1>3 DEF Named, MathLength, OP_MATH
    <2>2. TextLength(opcode) = MathLength(Nib(opcode))
      BY <1>3 DEF TextLength, OP_MISC, OP_JMP, OP_CALL, OP_SKIP1, OP_SKIP2, OP_SKIP3, OP_SKIP4,
                  OP_MOV_IMM, OP_ADD_IMM, OP_MATH, OP_STORE, OP_JMP_INDEX, OP_RAND, OP_DRAW,
                  OP_IN, OP_MISC2
    <2>3. QED
      BY <2>1, <2>2
  <1>4. CASE Named(opcode) /\ c = OP_MISC2
    <2>1. Misc2Length(Imm(opcode)) \in 0..38
      BY <1>4 DEF Named, Misc2Length, OP_MISC2
    <2>2. TextLength(opcode) = Misc2Length(Imm(opcode))
      BY <1>4 DEF TextLength, OP_MISC, OP_JMP, OP_CALL, OP_SKIP1, OP_SKIP2, OP_SKIP3, OP_SKIP4,
                  OP_MOV_IMM, OP_ADD_IMM, OP_MATH, OP_STORE, OP_JMP_INDEX, OP_RAND, OP_DRAW,
                  OP_IN, OP_MISC2
    <2>3. QED
      BY <2>1, <2>2
  <1>5. CASE Named(opcode) /\ c \notin {OP_MATH, OP_MISC2}
    BY <1>1, <1>5 DEF TextLength, OP_MISC, OP_JMP, OP_CALL, OP_SKIP1, OP_SKIP2, OP_SKIP3, OP_SKIP4,
                OP_MOV_IMM, OP_ADD_IMM, OP_MATH, OP_STORE, OP_JMP_INDEX, OP_RAND, OP_DRAW,
                OP_IN, OP_MISC2
  <1>6. QED
    BY <1>2, <1>3, <1>4, <1>5

\* The tab leaves a text within the size, so that one doubling and 7 bytes are
\* enough for what follows.
LEMMA AddOpcodeKeeps ==
  ASSUME NEW s, StrOK(s), NEW opcode \in Word
  PROVE  StrOK(AddOpcode(s, opcode))
  <1> DEFINE t == ChunkStringAdd(s, 1)
             n == TextLength(opcode)
             u == ChunkStringAdd(t, n)
  <1>1. s.length \in Nat /\ s.size \in Nat /\ s.size >= 32 /\ s.size % 16 = 0
        /\ s.length <= s.size + 7
    BY DEF StrOK, Str, InitialSize
  <1>2. /\ t.length = s.length + 1
        /\ t.size = IF 1 + s.length > s.size THEN s.size * 2 ELSE s.size
        /\ u.length = t.length + n
        /\ u.size = IF n + t.length > t.size THEN t.size * 2 ELSE t.size
        /\ DOMAIN u = {"length", "size"} /\ u = [length |-> u.length, size |-> u.size]
    BY DEF ChunkStringAdd
  <1>3. n \in 0..38
    BY TextLengthBound
  <1> HIDE DEF t, u, n
  <1>4. /\ t.length \in Nat /\ t.size \in Nat /\ t.size >= 32 /\ t.size % 16 = 0
        /\ t.length <= t.size
    BY <1>1, <1>2
  <1>5. /\ u.length \in Nat /\ u.size \in Nat /\ u.size >= 32 /\ u.size % 16 = 0
        /\ u.length <= u.size + 7
    BY <1>2, <1>3, <1>4
  <1>6. u \in Str
    BY <1>2, <1>5 DEF Str
  <1>7. StrOK(u)
    BY <1>5, <1>6 DEF StrOK, InitialSize
  <1>8. QED
    BY <1>7 DEF AddOpcode, t, u, n

LEMMA StrFits ==
  ASSUME NEW s, StrOK(s)
  PROVE  Fits(s)
  <1>1. s.length \in Nat /\ s.size \in Nat /\ s.size % 16 = 0 /\ s.length <= s.size + 7
    BY DEF StrOK, Str
  <1>2. ASSUME NEW n \in Nat, n % 16 = 0 PROVE ((n + 8 + 15) \div 16) * 16 - 8 = n + 8
    BY <1>2
  <1>3. QED
    BY <1>1, <1>2 DEF Fits, Usable

LEMMA StrInit == StrOK(ChunkStringInit)
  BY DEF StrOK, Str, ChunkStringInit, InitialSize

-----------------------------------------------------------------------------
(* What the operators of Disasm return.                                    *)

LEMMA RomType ==
  ASSUME rom \in Files
  PROVE  rom \in Seq(Byte) /\ romSize \in Nat
  BY FilesAssumption DEF romSize

LEMMA WordLess ==
  /\ WordSize \in Nat \ {0}
  /\ \A n \in Word : n \in Nat /\ n < WordSize
  /\ \A n \in Int : (0 <= n /\ n < WordSize) => n \in Word
  <1>1. WordSize = 65536
    BY DEF WordSize
  <1>2. QED
    BY <1>1, WordRange

\* Wherever pc goes, it stays a uint16_t; where it wraps, it leaves the ROM.
LEMMA AheadType ==
  ASSUME NEW pc \in Nat, NEW n \in Nat
  PROVE  Ahead(pc, n) \in Word
  <1>1. WordSize \in Nat \ {0}
    BY DEF WordSize
  <1>2. (pc + n) % WordSize \in 0..(WordSize - 1)
    BY <1>1
  <1>3. QED
    BY <1>2 DEF Ahead, Word

LEMMA AheadZero ==
  ASSUME NEW pc \in Word
  PROVE  Ahead(pc, 0) = pc
  <1>1. pc \in Nat /\ pc < WordSize /\ WordSize \in Nat \ {0}
    BY WordLess
  <1>2. pc + 0 = pc /\ pc % WordSize = pc
    BY <1>1
  <1>3. QED
    BY <1>2 DEF Ahead

LEMMA AheadInRom ==
  ASSUME NEW pc \in Word, NEW n \in {0, 2, 4}, InRom(Ahead(pc, n))
  PROVE  Ahead(pc, n) = pc + n /\ pc + n \in Word
  <1>1. pc \in Nat /\ pc < 65536
    BY Ranges DEF Word, WordSize
  <1>2. CASE pc + n < 65536
    <2> DEFINE m == pc + n
    <2>1. m \in Nat /\ m < 65536
      BY <1>1, <1>2
    <2> HIDE DEF m
    <2>2. m % 65536 = m /\ m \in Word
      BY <2>1, WordRange
    <2>3. QED
      BY <2>2 DEF Ahead, WordSize, m
  <1>3. CASE ~(pc + n < 65536)
    <2>1. (pc + n) % 65536 = pc + n - 65536
      BY <1>1, <1>3
    <2>2. Ahead(pc, n) < 4 /\ Ahead(pc, n) \in Int
      BY <1>1, <2>1 DEF Ahead, WordSize
    <2>3. QED
      BY <2>2 DEF InRom, Offset, Entry
  <1>4. QED
    BY <1>2, <1>3

LEMMA InRomType ==
  ASSUME rom \in Files, NEW pc \in Word, InRom(pc)
  PROVE  pc - Entry \in 0..(romSize - 1)
  <1>1. pc \in Int /\ romSize \in Nat
    BY WordRange, RomType DEF WordSize
  <1>2. QED
    BY <1>1 DEF InRom, Offset, Entry

LEMMA WordOfBytes ==
  ASSUME NEW hi \in Byte, NEW lo \in Byte
  PROVE  hi * 256 + lo \in Word
  <1>1. hi * 256 + lo \in Int /\ 0 <= hi * 256 + lo /\ hi * 256 + lo < WordSize
    BY DEF Byte, WordSize
  <1>2. WordSize \in Int
    BY DEF WordSize
  <1>3. QED
    BY <1>1, <1>2 DEF Word

LEMMA OpcodesType ==
  ASSUME rom \in Files, NEW pc \in Word, InRom(pc)
  PROVE  OpcodesAt(pc) \subseteq Word
  <1>1. Offset(pc) + 1 \in 1..romSize /\ romSize = Len(rom) /\ rom \in Seq(Byte)
    BY RomType, InRomType DEF Offset, romSize
  <1>2. rom[Offset(pc) + 1] \in Byte
    BY <1>1
  <1>3. CASE InRom(pc + 1)
    <2>1. pc \in Int
      BY WordRange DEF WordSize
    <2>2. Offset(pc) + 2 \in 1..romSize
      BY <1>1, <1>3, <2>1, RomType DEF InRom, Offset, Entry
    <2>3. rom[Offset(pc) + 2] \in Byte
      BY <1>1, <2>2
    <2>4. QED
      BY <1>2, <1>3, <2>3, WordOfBytes DEF OpcodesAt, Word16
  <1>4. CASE ~InRom(pc + 1)
    BY <1>2, <1>4, WordOfBytes DEF OpcodesAt
  <1>5. QED
    BY <1>3, <1>4

LEMMA ChunkType ==
  ASSUME NEW pc \in Word
  PROVE  /\ Chunk(pc) \in Chunks /\ Chunk(pc).offset = pc /\ Chunk(pc).size = 0
         /\ Chunk(pc).str = ChunkStringInit
  <1>1. <<>> \in Seq(Word)
    OBVIOUS
  <1>2. ChunkStringInit \in Str
    BY StrInit DEF StrOK
  <1>3. 0 \in 0..(SizeRange - 1)
    BY DisasmAssumption
  <1>4. QED
    BY <1>1, <1>2, <1>3 DEF Chunk, Chunks

LEMMA FrameType ==
  ASSUME NEW n \in Nat \ {0}, NEW k \in 1..n, NEW pc \in Word
  PROVE  Frame(k, pc) \in Frames(n) /\ Frame(k, pc).chunk = k
         /\ Frame(k, pc).pc = pc /\ Frame(k, pc).at = "read"
  <1>1. 0 \in Word
    BY WordRange DEF WordSize
  <1>2. QED
    BY <1>1 DEF Frame, Frames

-----------------------------------------------------------------------------
(* The inductive invariant.                                                *)

\* Each active call prints a chunk of its own, made after those of its callers.
ChunksInOrder ==
    \A a, b \in 1..Len(frames) : a < b => frames[a].chunk < frames[b].chunk

\* Only an instruction inside the ROM is ever printed.
PrintedInRom == \A a \in 1..Len(frames) : frames[a].at = "printed" => InRom(frames[a].pc)

StringsOK == \A k \in 1..Len(chunks) : StrOK(chunks[k].str)

DInv == rom \in Files /\ TypeOK /\ NoReentry /\ ChunksInOrder /\ PrintedInRom /\ StringsOK

LEMMA TypeTo ==
  ASSUME TypeOK
  PROVE  /\ chunks \in Seq(Chunks) /\ Len(chunks) \in Nat /\ listed \in 0..Len(chunks)
         /\ frames \in Seq(Frames(Len(chunks))) /\ Len(frames) \in Nat
         /\ Len(frames) <= MaxDepth
  <1>1. chunks \in Seq(Chunks) /\ listed \in 0..Len(chunks)
    BY DEF TypeOK, Chunks, Str
  <1>2. frames \in Seq(Frames(Len(chunks))) /\ Len(frames) \in 0..MaxDepth
    BY DEF TypeOK, Frames
  <1>3. QED
    BY <1>1, <1>2, DisasmAssumption

LEMMA TopType ==
  ASSUME TypeOK, status = "running"
  PROVE  /\ frames # <<>> /\ Len(frames) \in 1..Len(frames) /\ Len(frames) \in Nat \ {0}
         /\ top \in Frames(Len(chunks)) /\ top.chunk \in 1..Len(chunks) /\ top.pc \in Word
         /\ chunks[top.chunk] \in Chunks
  <1>1. frames \in Seq(Frames(Len(chunks))) /\ chunks \in Seq(Chunks)
    BY TypeTo
  <1>2. frames # <<>>
    BY DEF TypeOK
  <1>3. Len(frames) \in 1..Len(frames) /\ Len(frames) \in Nat \ {0}
    BY <1>1, <1>2, LastIndex
  <1>4. top \in Frames(Len(chunks))
    BY <1>1, <1>3, ElementOfSeq DEF top
  <1>5. top.chunk \in 1..Len(chunks) /\ top.pc \in Word
    BY <1>4 DEF Frames
  <1>6. chunks[top.chunk] \in Chunks
    BY <1>1, <1>5, ElementOfSeq
  <1>7. QED
    BY <1>2, <1>3, <1>4, <1>5, <1>6

LEMMA SetTopType ==
  ASSUME TypeOK, status = "running", NEW f \in Frames(Len(chunks)), f.chunk = top.chunk
  PROVE  /\ SetTop(f) \in Seq(Frames(Len(chunks)))
         /\ Len(SetTop(f)) = Len(frames)
         /\ SetTop(f)[Len(frames)] = f
         /\ \A a \in 1..(Len(frames) - 1) : SetTop(f)[a] = frames[a]
         /\ \A a \in 1..Len(frames) : SetTop(f)[a].chunk = frames[a].chunk
  <1>1. frames \in Seq(Frames(Len(chunks))) /\ frames # <<>> /\ Len(frames) \in Nat \ {0}
    BY TypeTo, TopType
  <1>2. /\ SetTop(f) \in Seq(Frames(Len(chunks)))
        /\ Len(SetTop(f)) = Len(frames)
        /\ SetTop(f)[Len(frames)] = f
        /\ \A a \in 1..(Len(frames) - 1) : SetTop(f)[a] = frames[a]
    BY <1>1, SetLast DEF SetTop
  <1>3. \A a \in 1..Len(frames) : a = Len(frames) \/ a \in 1..(Len(frames) - 1)
    BY <1>1
  <1>4. QED
    BY <1>2, <1>3 DEF top

\* Replacing one chunk by another that starts at the same address.
LEMMA SetChunk ==
  ASSUME chunks \in Seq(Chunks), NEW k \in 1..Len(chunks), NEW c \in Chunks,
         c.offset = chunks[k].offset
  PROVE  /\ [chunks EXCEPT ![k] = c] \in Seq(Chunks)
         /\ Len([chunks EXCEPT ![k] = c]) = Len(chunks)
         /\ [chunks EXCEPT ![k] = c][k] = c
         /\ \A j \in 1..Len(chunks) : j # k => [chunks EXCEPT ![k] = c][j] = chunks[j]
         /\ \A j \in 1..Len(chunks) : [chunks EXCEPT ![k] = c][j].offset = chunks[j].offset
  BY ExceptSeq

THEOREM DInvInit == Init => DInv
  <1> SUFFICES ASSUME Init PROVE DInv
    OBVIOUS
  <1>1. Entry \in Word
    BY WordRange DEF Entry, WordSize
  <1>2. Chunk(Entry) \in Chunks /\ StrOK(Chunk(Entry).str)
    BY <1>1, ChunkType, StrInit
  <1>3. Frame(1, Entry) \in Frames(1) /\ Frame(1, Entry).at = "read"
    BY <1>1, FrameType
  <1>4. chunks = << Chunk(Entry) >> /\ frames = << Frame(1, Entry) >> /\ status = "running"
        /\ listed = 0 /\ rom \in Files
    BY DEF Init
  <1>5. chunks \in Seq(Chunks) /\ Len(chunks) = 1 /\ chunks[1] = Chunk(Entry)
    BY <1>2, <1>4
  <1>6. frames \in Seq(Frames(1)) /\ Len(frames) = 1 /\ frames[1] = Frame(1, Entry) /\ frames # <<>>
    BY <1>3, <1>4
  <1>7. Len(frames) \in 0..MaxDepth
    BY <1>6, DisasmAssumption
  <1>8. TypeOK
    BY <1>4, <1>5, <1>6, <1>7 DEF TypeOK, Chunks, Str, Frames
  <1>9. NoReentry /\ ChunksInOrder
    BY <1>6 DEF NoReentry, ChunksInOrder
  <1>10. PrintedInRom
    BY <1>3, <1>6 DEF PrintedInRom
  <1>11. StringsOK
    BY <1>2, <1>5 DEF StringsOK
  <1>12. QED
    BY <1>4, <1>8, <1>9, <1>10, <1>11 DEF DInv

-----------------------------------------------------------------------------
(* Every step keeps it.                                                    *)

Shown(opcode) == [chunks EXCEPT ![top.chunk].text = Append(@, top.pc),
                                ![top.chunk].str = AddOpcode(@, opcode)]
Here(opcode) == SetTop([top EXCEPT !.opcode = opcode, !.at = "printed"])

\* Printing an instruction changes the text and the string of one chunk.
LEMMA ShownType ==
  ASSUME TypeOK, StringsOK, status = "running", NEW opcode \in Word
  PROVE  /\ Shown(opcode) \in Seq(Chunks) /\ Len(Shown(opcode)) = Len(chunks)
         /\ \A k \in 1..Len(chunks) : /\ Shown(opcode)[k].offset = chunks[k].offset
                                      /\ Shown(opcode)[k].size = chunks[k].size
                                      /\ StrOK(Shown(opcode)[k].str)
                                      /\ k # top.chunk => Shown(opcode)[k] = chunks[k]
         /\ Shown(opcode)[top.chunk].text = Append(chunks[top.chunk].text, top.pc)
  <1> DEFINE t == top.chunk
             text == Append(chunks[t].text, top.pc)
             str == AddOpcode(chunks[t].str, opcode)
             c == [[chunks[t] EXCEPT !.text = text] EXCEPT !.str = str]
  <1>1. chunks \in Seq(Chunks) /\ t \in 1..Len(chunks) /\ top.pc \in Word
        /\ chunks[t] \in Chunks
    BY TypeTo, TopType
  <1>2. text \in Seq(Word)
    <2>1. chunks[t].text \in Seq(Word)
      BY <1>1 DEF Chunks
    <2>2. QED
      BY <1>1, <2>1, AppendProperties
  <1>3. StrOK(str) /\ str \in Str
    <2>1. StrOK(chunks[t].str)
      BY <1>1 DEF StringsOK
    <2>2. QED
      BY <2>1, AddOpcodeKeeps DEF StrOK
  <1>4. Shown(opcode) = [chunks EXCEPT ![t] = c]
    BY <1>1 DEF Shown, Chunks
  <1> HIDE DEF text, str
  <1>5. c \in Chunks /\ c.offset = chunks[t].offset /\ c.size = chunks[t].size /\ c.str = str
        /\ c.text = text
    BY <1>1, <1>2, <1>3 DEF Chunks
  <1> HIDE DEF t, c
  <1>6. /\ Shown(opcode) \in Seq(Chunks) /\ Len(Shown(opcode)) = Len(chunks)
        /\ Shown(opcode)[t] = c
        /\ \A j \in 1..Len(chunks) : j # t => Shown(opcode)[j] = chunks[j]
    BY <1>1, <1>4, <1>5, SetChunk
  <1>7. Shown(opcode)[t].text = Append(chunks[t].text, top.pc)
    BY <1>5, <1>6 DEF text
  <1>8. QED
    BY <1>1, <1>3, <1>5, <1>6, <1>7 DEF StringsOK, t

LEMMA HereType ==
  ASSUME TypeOK, status = "running", NEW opcode \in Word
  PROVE  /\ Here(opcode) \in Seq(Frames(Len(chunks)))
         /\ Len(Here(opcode)) = Len(frames)
         /\ \A a \in 1..Len(frames) : Here(opcode)[a].chunk = frames[a].chunk
         /\ \A a \in 1..(Len(frames) - 1) : Here(opcode)[a] = frames[a]
         /\ Here(opcode)[Len(frames)].pc = top.pc
         /\ Here(opcode)[Len(frames)] = [top EXCEPT !.opcode = opcode, !.at = "printed"]
  <1> DEFINE f == [top EXCEPT !.opcode = opcode, !.at = "printed"]
  <1>1. f \in Frames(Len(chunks)) /\ f.chunk = top.chunk /\ f.pc = top.pc
    BY TopType DEF Frames
  <1>2. Here(opcode) = SetTop(f)
    BY DEF Here
  <1> HIDE DEF f
  <1>3. /\ Here(opcode) \in Seq(Frames(Len(chunks)))
        /\ Len(Here(opcode)) = Len(frames)
        /\ \A a \in 1..Len(frames) : Here(opcode)[a].chunk = frames[a].chunk
        /\ \A a \in 1..(Len(frames) - 1) : Here(opcode)[a] = frames[a]
        /\ Here(opcode)[Len(frames)] = f
    BY <1>1, <1>2, SetTopType
  <1>4. Here(opcode)[Len(frames)].pc = top.pc
    BY <1>1, <1>3
  <1>5. Here(opcode)[Len(frames)] = [top EXCEPT !.opcode = opcode, !.at = "printed"]
    BY <1>3 DEF f
  <1>6. QED
    BY <1>3, <1>4, <1>5

\* A chunk that stands at the target of a nested call has size 0.
LEMMA OpensNew ==
  ASSUME TypeOK, NEW target \in Word, Opens(target),
         NEW k \in 1..Len(chunks), chunks[k].offset = target
  PROVE  chunks[k].size = 0
  <1>1. chunks[k] \in Chunks
    BY TypeTo, ElementOfSeq
  <1>2. chunks[k].size \in Nat /\ target \in Int
    <2>1. chunks[k].size \in 0..(SizeRange - 1) /\ WordSize \in Int
      BY <1>1 DEF Chunks, WordSize
    <2>2. QED
      BY <2>1, DisasmAssumption DEF Word
  <1>3. target \in target..(target + chunks[k].size)
    BY <1>2
  <1>4. QED
    BY <1>3 DEF Opens, IsDisassembled

LEMMA DisassembleKeeps ==
  ASSUME DInv, Disassemble
  PROVE  DInv'
  <1> DEFINE n == Len(chunks)
             d == Len(frames)
  <1>1. TypeOK /\ StringsOK /\ status = "running" /\ rom \in Files /\ rom' = rom /\ listed' = listed
        /\ InRom(top.pc)
    BY DEF DInv, Disassemble, Running
  <1>2. PICK opcode \in OpcodesAt(top.pc) :
           \/ /\ chunks' = Shown(opcode) /\ frames' = Here(opcode)
              /\ status' \in {"running", "crashed"}
           \/ /\ Opens(Addr(opcode)) /\ d # MaxDepth
              /\ chunks' = Append(Shown(opcode), Chunk(Addr(opcode)))
              /\ frames' = Append(Here(opcode), Frame(n + 1, Addr(opcode)))
              /\ status' = status
    BY <1>1 DEF Disassemble, Shown, Here
  <1>3. \A pc : InRom(pc)' <=> InRom(pc)
    BY <1>1 DEF InRom, romSize
  <1>4. /\ n \in Nat /\ d \in Nat \ {0} /\ d <= MaxDepth /\ listed \in 0..n
        /\ frames \in Seq(Frames(n)) /\ top.pc \in Word
    BY <1>1, TypeTo, TopType
  <1>5. opcode \in Word /\ Addr(opcode) \in Word
    BY <1>1, <1>2, <1>4, OpcodesType, FieldRanges
  <1>6. /\ Shown(opcode) \in Seq(Chunks) /\ Len(Shown(opcode)) = n
        /\ \A k \in 1..n : /\ Shown(opcode)[k].offset = chunks[k].offset
                           /\ Shown(opcode)[k].size = chunks[k].size
                           /\ StrOK(Shown(opcode)[k].str)
    BY <1>1, <1>5, ShownType
  <1>7. /\ Here(opcode) \in Seq(Frames(n)) /\ Len(Here(opcode)) = d
        /\ \A a \in 1..d : Here(opcode)[a].chunk = frames[a].chunk
        /\ \A a \in 1..(d - 1) : Here(opcode)[a] = frames[a]
        /\ Here(opcode)[d].pc = top.pc
    BY <1>1, <1>5, HereType
  <1>8. \A a \in 1..d : Here(opcode)[a].at = "printed" => InRom(Here(opcode)[a].pc)
    BY <1>1, <1>4, <1>7, LastOrBefore DEF DInv, PrintedInRom
  <1>9. \A a \in 1..d : frames[a].chunk \in 1..n
    <2>1. \A a \in 1..d : frames[a] \in Frames(n)
      BY <1>4, ElementOfSeq
    <2>2. QED
      BY <2>1 DEF Frames
  <1>10. /\ \A a, b \in 1..d : a < b => frames[a].chunk < frames[b].chunk
         /\ \A a, b \in 1..d :
               (a < b /\ chunks[frames[a].chunk].offset = chunks[frames[b].chunk].offset) =>
                   chunks[frames[a].chunk].size = 0
    BY DEF DInv, ChunksInOrder, NoReentry
  <1> HIDE DEF n, d
  <1>11. CASE chunks' = Shown(opcode) /\ frames' = Here(opcode) /\ status' \in {"running", "crashed"}
    <2>1. Len(chunks') = n /\ Len(frames') = d /\ frames' # <<>>
      BY <1>4, <1>6, <1>7, <1>11
    <2>2. TypeOK'
      <3>1. Len(frames') \in 0..MaxDepth /\ listed' \in 0..Len(chunks')
        BY <1>1, <1>4, <2>1, DisasmAssumption
      <3>2. QED
        BY <1>1, <1>6, <1>7, <1>11, <2>1, <3>1 DEF TypeOK, Chunks, Str, Frames
    <2>3. ChunksInOrder'
      BY <1>7, <1>10, <1>11, <2>1 DEF ChunksInOrder
    <2>4. NoReentry'
      <3>1. SUFFICES ASSUME NEW a \in 1..d, NEW b \in 1..d, a < b,
                            chunks'[frames'[a].chunk].offset = chunks'[frames'[b].chunk].offset
                     PROVE  chunks'[frames'[a].chunk].size = 0
        BY <2>1 DEF NoReentry
      <3>2. /\ frames'[a].chunk = frames[a].chunk /\ frames[a].chunk \in 1..n
            /\ frames'[b].chunk = frames[b].chunk /\ frames[b].chunk \in 1..n
        BY <1>7, <1>9, <1>11
      <3>3. QED
        BY SMTT(30), <1>6, <1>10, <1>11, <3>1, <3>2
    <2>5. PrintedInRom'
      BY <1>3, <1>8, <1>11, <2>1 DEF PrintedInRom
    <2>6. StringsOK'
      BY <1>6, <1>11, <2>1 DEF StringsOK
    <2>7. QED
      BY <1>1, <2>2, <2>3, <2>4, <2>5, <2>6 DEF DInv
  <1>12. CASE /\ Opens(Addr(opcode)) /\ d # MaxDepth
              /\ chunks' = Append(Shown(opcode), Chunk(Addr(opcode)))
              /\ frames' = Append(Here(opcode), Frame(n + 1, Addr(opcode)))
              /\ status' = status
    <2> DEFINE t == Addr(opcode)
    <2>1. Chunk(t) \in Chunks /\ Chunk(t).offset = t /\ StrOK(Chunk(t).str)
      BY <1>5, ChunkType, StrInit
    <2>2. Frame(n + 1, t) \in Frames(n + 1) /\ Frame(n + 1, t).chunk = n + 1
          /\ Frame(n + 1, t).at = "read"
      BY <1>4, <1>5, FrameType
    <2> HIDE DEF t
    <2>3. /\ chunks' \in Seq(Chunks) /\ Len(chunks') = n + 1 /\ chunks'[n + 1] = Chunk(t)
          /\ \A k \in 1..n : chunks'[k] = Shown(opcode)[k]
      BY <1>6, <1>12, <2>1, AddLast DEF t
    <2>4. Here(opcode) \in Seq(Frames(n + 1))
      <3>1. Frames(n) \subseteq Frames(n + 1)
        BY <1>4 DEF Frames
      <3>2. QED
        BY <1>7, <3>1, SeqMonotonic
    <2>5. /\ frames' \in Seq(Frames(n + 1)) /\ Len(frames') = d + 1
          /\ frames'[d + 1] = Frame(n + 1, t)
          /\ \A a \in 1..d : frames'[a] = Here(opcode)[a]
      BY <1>7, <1>12, <2>2, <2>4, AddLast DEF t
    <2>6. /\ \A k \in 1..(n + 1) : k = n + 1 \/ k \in 1..n
          /\ \A a \in 1..(d + 1) : a = d + 1 \/ a \in 1..d
          /\ \A k \in 1..n : k < n + 1 /\ k # n + 1
          /\ \A a \in 1..d : ~(d + 1 < a) /\ ~(d + 1 < d + 1)
      BY <1>4
    <2>7. TypeOK'
      <3>1. Len(frames') \in 0..MaxDepth /\ listed \in 0..Len(chunks') /\ frames' # <<>>
        BY <1>4, <1>12, <2>3, <2>5, DisasmAssumption
      <3>2. QED
        BY <1>1, <1>12, <2>3, <2>5, <3>1 DEF TypeOK, Chunks, Str, Frames
    <2>8. \A a \in 1..d : frames'[a].chunk = frames[a].chunk /\ frames[a].chunk # n + 1
      BY <1>7, <1>9, <2>5, <2>6
    <2>9. ChunksInOrder'
      BY <1>9, <1>10, <2>2, <2>5, <2>6, <2>8 DEF ChunksInOrder
    <2>10. NoReentry'
      <3>1. \A k \in 1..n : /\ chunks'[k].offset = chunks[k].offset
                            /\ chunks'[k].size = chunks[k].size
        BY <1>6, <2>3
      <3>2. \A k \in 1..n : chunks[k].offset = t => chunks[k].size = 0
        BY <1>1, <1>5, <1>12, OpensNew DEF n, t
      <3>3. SUFFICES ASSUME NEW a \in 1..(d + 1), NEW b \in 1..(d + 1), a < b,
                            chunks'[frames'[a].chunk].offset = chunks'[frames'[b].chunk].offset
                     PROVE  chunks'[frames'[a].chunk].size = 0
        BY <2>5 DEF NoReentry
      <3>4. a \in 1..d /\ frames[a].chunk \in 1..n /\ frames'[a].chunk = frames[a].chunk
        BY <1>9, <2>6, <2>8, <3>3
      <3>5. CASE b \in 1..d
        BY SMTT(30), <1>9, <1>10, <2>8, <3>1, <3>3, <3>4, <3>5
      <3>6. CASE b = d + 1
        BY <2>1, <2>2, <2>3, <2>5, <3>1, <3>2, <3>3, <3>4, <3>6
      <3>7. QED
        BY <2>6, <3>5, <3>6
    <2>11. PrintedInRom'
      BY <1>3, <1>8, <2>2, <2>5, <2>6 DEF PrintedInRom
    <2>12. StringsOK'
      BY <1>6, <2>1, <2>3, <2>6 DEF StringsOK
    <2>13. QED
      BY <1>1, <2>7, <2>9, <2>10, <2>11, <2>12 DEF DInv
  <1>13. QED
    BY <1>2, <1>11, <1>12 DEF n, d

LEMMA ReturnKeeps ==
  ASSUME DInv, status = "running", ReturnFromChunk
  PROVE  DInv'
  <1> DEFINE d == Len(frames)
  <1>1. TypeOK /\ rom' = rom /\ chunks' = chunks /\ listed' = listed
        /\ frames' = SubSeq(frames, 1, d - 1)
        /\ status' = IF d = 1 THEN "done" ELSE status
    BY DEF DInv, ReturnFromChunk
  <1>2. /\ d \in Nat \ {0} /\ frames # <<>> /\ d <= MaxDepth
        /\ frames \in Seq(Frames(Len(chunks)))
    BY <1>1, TypeTo, TopType
  <1>3. \A pc : InRom(pc)' <=> InRom(pc)
    BY <1>1 DEF InRom, romSize
  <1>4. /\ frames' \in Seq(Frames(Len(chunks))) /\ Len(frames') = d - 1
        /\ \A a \in 1..(d - 1) : frames'[a] = frames[a]
    BY <1>1, <1>2, DropLast
  <1> HIDE DEF d
  <1>5. (d # 1 => frames' # <<>>) /\ 1..(d - 1) \subseteq 1..d /\ Len(frames') \in 0..MaxDepth
    BY <1>2, <1>4, DisasmAssumption
  <1>6. TypeOK'
    <2>1. frames' \in Seq([chunk : 1..Len(chunks'), pc : Word, opcode : Word, at : {"read", "printed"}])
      BY <1>1, <1>4 DEF Frames
    <2>2. (status' = "running" => frames' # <<>>) /\ status' \in {"running", "done", "crashed"}
      BY <1>1, <1>5
    <2>3. QED
      BY <1>1, <1>5, <2>1, <2>2 DEF TypeOK
  <1>7. NoReentry' /\ ChunksInOrder'
    <2>1. /\ \A a, b \in 1..d : a < b => frames[a].chunk < frames[b].chunk
          /\ \A a, b \in 1..d :
                (a < b /\ chunks[frames[a].chunk].offset = chunks[frames[b].chunk].offset) =>
                    chunks[frames[a].chunk].size = 0
      BY DEF DInv, ChunksInOrder, NoReentry, d
    <2>2. \A a \in 1..(d - 1) : frames'[a] = frames[a] /\ a \in 1..d
      BY <1>4, <1>5
    <2>3. ChunksInOrder'
      BY <1>4, <2>1, <2>2 DEF ChunksInOrder
    <2>4. NoReentry'
      BY <1>1, <1>4, <2>1, <2>2 DEF NoReentry
    <2>5. QED
      BY <2>3, <2>4
  <1>8. PrintedInRom'
    BY <1>3, <1>4, <1>5 DEF DInv, PrintedInRom, d
  <1>9. StringsOK'
    BY <1>1 DEF DInv, StringsOK
  <1>10. QED
    BY <1>1, <1>6, <1>7, <1>8, <1>9 DEF DInv

LEMMA AdvanceKeeps ==
  ASSUME DInv, Advance
  PROVE  DInv'
  <1> DEFINE f == [top EXCEPT !.pc = Ahead(top.pc, 2), !.at = "read"]
             t == top.chunk
             c == [chunks[t] EXCEPT !.size = (chunks[t].size + 2) % SizeRange]
             n == Len(chunks)
             d == Len(frames)
  <1>1. TypeOK /\ status = "running" /\ top.at = "printed" /\ rom \in Files
        /\ rom' = rom /\ listed' = listed /\ status' = status /\ frames' = SetTop(f)
        /\ chunks' = [chunks EXCEPT ![t].size = (@ + 2) % SizeRange]
    BY DEF DInv, Advance, Running
  <1>2. /\ d \in Nat \ {0} /\ d \in 1..d /\ frames # <<>> /\ d <= MaxDepth
        /\ top \in Frames(n) /\ top.pc \in Word /\ t \in 1..n /\ chunks[t] \in Chunks
        /\ chunks \in Seq(Chunks) /\ frames \in Seq(Frames(n))
    BY <1>1, TypeTo, TopType
  <1>3. \A pc : InRom(pc)' <=> InRom(pc)
    BY <1>1 DEF InRom, romSize
  <1>4. Ahead(top.pc, 2) \in Word
    BY <1>2, AheadType, Ranges
  <1>5. f \in Frames(n) /\ f.chunk = t /\ f.at = "read"
    BY <1>2, <1>4 DEF Frames
  <1>6. (chunks[t].size + 2) % SizeRange \in 0..(SizeRange - 1)
    <2>1. chunks[t].size \in Int /\ SizeRange \in Nat \ {0}
      BY <1>2, DisasmAssumption DEF Chunks
    <2>2. QED
      BY <2>1
  <1>7. c \in Chunks /\ c.offset = chunks[t].offset /\ c.str = chunks[t].str
    BY <1>2, <1>6 DEF Chunks
  <1>8. chunks' = [chunks EXCEPT ![t] = c]
    BY <1>1
  <1> HIDE DEF f, c
  <1>9. /\ frames' \in Seq(Frames(n)) /\ Len(frames') = d /\ frames'[d] = f
        /\ \A a \in 1..(d - 1) : frames'[a] = frames[a]
        /\ \A a \in 1..d : frames'[a].chunk = frames[a].chunk
    BY <1>1, <1>5, SetTopType
  <1>10. /\ chunks' \in Seq(Chunks) /\ Len(chunks') = n /\ chunks'[t] = c
         /\ \A j \in 1..n : j # t => chunks'[j] = chunks[j]
         /\ \A j \in 1..n : chunks'[j].offset = chunks[j].offset
    BY <1>2, <1>7, <1>8, SetChunk
  <1>11. frames[d].chunk = t
    BY DEF top
  <1> HIDE DEF n, d, t
  <1>12. frames' # <<>>
    BY <1>2, <1>9
  <1>13. TypeOK'
    <2>1. listed' \in 0..Len(chunks') /\ Len(frames') \in 0..MaxDepth
      BY <1>1, <1>9, <1>10 DEF TypeOK, n, d
    <2>2. QED
      BY <1>1, <1>9, <1>10, <1>12, <2>1 DEF TypeOK, Chunks, Str, Frames
  <1>14. \A a \in 1..d : frames[a].chunk \in 1..n
    <2>1. \A a \in 1..d : frames[a] \in Frames(n)
      BY <1>2, ElementOfSeq DEF d
    <2>2. QED
      BY <2>1 DEF Frames
  <1>15. /\ \A a, b \in 1..d : a < b => frames[a].chunk < frames[b].chunk
         /\ \A a, b \in 1..d :
               (a < b /\ chunks[frames[a].chunk].offset = chunks[frames[b].chunk].offset) =>
                   chunks[frames[a].chunk].size = 0
    BY DEF DInv, ChunksInOrder, NoReentry, d
  <1>16. ChunksInOrder'
    BY <1>9, <1>15 DEF ChunksInOrder
  <1>17. NoReentry'
    <2>1. \A a \in 1..d : a < d => frames[a].chunk # t
      <3>1. \A a \in 1..d : a < d => frames[a].chunk < t
        BY <1>2, <1>11, <1>15
      <3>2. \A j \in 1..n : ~(j < j)
        BY <1>2 DEF n
      <3>3. QED
        BY <1>2, <1>14, <3>1, <3>2
    <2>2. \A a, b \in 1..d : a < b => a < d
      BY <1>2
    <2>3. SUFFICES ASSUME NEW a \in 1..d, NEW b \in 1..d, a < b,
                          chunks'[frames'[a].chunk].offset = chunks'[frames'[b].chunk].offset
                   PROVE  chunks'[frames'[a].chunk].size = 0
      BY <1>9 DEF NoReentry
    <2>4. /\ frames'[a].chunk = frames[a].chunk /\ frames[a].chunk \in 1..n
          /\ frames'[b].chunk = frames[b].chunk /\ frames[b].chunk \in 1..n
          /\ frames[a].chunk # t
      BY <1>9, <1>14, <2>1, <2>2, <2>3
    <2>5. QED
      BY SMTT(30), <1>10, <1>15, <2>3, <2>4
  <1>18. PrintedInRom'
    BY <1>2, <1>3, <1>5, <1>9, LastOrBefore DEF DInv, PrintedInRom, d
  <1>19. StringsOK'
    BY <1>2, <1>7, <1>10 DEF DInv, StringsOK, n
  <1>20. QED
    BY <1>1, <1>13, <1>16, <1>17, <1>18, <1>19 DEF DInv

LEMMA PrintChunkKeeps ==
  ASSUME DInv, PrintChunk
  PROVE  DInv'
  <1>1. rom' = rom /\ chunks' = chunks /\ frames' = frames /\ status' = status
        /\ listed' = listed + 1 /\ listed < Len(chunks) /\ TypeOK
    BY DEF DInv, PrintChunk
  <1>2. listed' \in 0..Len(chunks')
    BY <1>1, TypeTo
  <1>3. TypeOK'
    BY <1>1, <1>2 DEF TypeOK
  <1>4. QED
    BY <1>1, <1>3 DEF DInv, NoReentry, ChunksInOrder, PrintedInRom, StringsOK, InRom, romSize

THEOREM DInvStep == DInv /\ [Next]_vars => DInv'
  <1> SUFFICES ASSUME DInv, [Next]_vars PROVE DInv'
    OBVIOUS
  <1>1. CASE Disassemble
    BY <1>1, DisassembleKeeps
  <1>2. CASE EndAtJump
    BY <1>2, ReturnKeeps DEF EndAtJump, Running
  <1>3. CASE Advance
    BY <1>3, AdvanceKeeps
  <1>4. CASE EndOfRom
    BY <1>4, ReturnKeeps DEF EndOfRom, Running
  <1>5. CASE PrintChunk
    BY <1>5, PrintChunkKeeps
  <1>6. CASE UNCHANGED vars
    <2>1. rom' = rom /\ chunks' = chunks /\ frames' = frames /\ status' = status /\ listed' = listed
      BY <1>6 DEF vars
    <2>2. QED
      BY <2>1 DEF DInv, TypeOK, NoReentry, ChunksInOrder, PrintedInRom, StringsOK, InRom, romSize
  <1>7. QED
    BY <1>1, <1>2, <1>3, <1>4, <1>5, <1>6 DEF Next

\* Whatever file is disassembled, of whatever length: pc, the sizes of chunks and the
\* addresses of their instructions keep the ranges of their C types, each active call
\* has a chunk, and main puts out no more chunks than there are.
THEOREM TypeCorrect == Spec => []TypeOK
  <1>1. DInv => TypeOK
    BY DEF DInv
  <1>2. QED
    BY <1>1, DInvInit, DInvStep, PTL DEF Spec

\* Whatever file is disassembled, disasmChunk is entered again for an address that
\* it is printing only while the size of that chunk is zero.
THEOREM ReentryCorrect == Spec => []NoReentry
  <1>1. DInv => NoReentry
    BY DEF DInv
  <1>2. QED
    BY <1>1, DInvInit, DInvStep, PTL DEF Spec

\* Whatever file is disassembled, and however long its chunks are, no text leaves
\* its memory.
THEOREM TextCorrect == Spec => []TextFits
  <1>1. DInv => TextFits
    BY StrFits DEF DInv, StringsOK, TextFits
  <1>2. QED
    BY <1>1, DInvInit, DInvStep, PTL DEF Spec

-----------------------------------------------------------------------------
(* What the chunks show: why nothing is left out.                          *)

\* The number of a chunk's instructions, and where each of them is.
Shows(c)   == Len(c.text)
Node(c, n) == c.offset + 2 * (n - 1)

Branches(opcode) == Class(opcode) \in {OP_JMP, OP_CALL}

\* disasmChunk returns behind this instruction.
Ended(pc, opcode) == FALSE \in MaySkip(pc) /\ EndsChunk(opcode)

\* A chunk shows the instructions of the ROM from its start on.
TextInOrder ==
    \A k \in 1..Len(chunks) : \A n \in 1..Shows(chunks[k]) :
        /\ chunks[k].text[n] = Node(chunks[k], n)
        /\ InRom(Node(chunks[k], n))

\* The address behind what a chunk shows, as pc counts it.
NextOf(c) == Ahead(c.offset, 2 * Shows(c))

\* The innermost call alone is about to read, behind what its chunk shows; the
\* others stand on their last instruction, which the size does not count yet.
Placed ==
    \A a \in 1..Len(frames) : LET c == chunks[frames[a].chunk] IN
        /\ frames[a].at = "read" => a = Len(frames) /\ frames[a].pc = NextOf(c)
        /\ frames[a].at = "printed" =>
              /\ Shows(c) # 0 /\ frames[a].pc = Node(c, Shows(c))
              /\ frames[a].opcode \in OpcodesAt(frames[a].pc)
              /\ c.size <= 2 * (Shows(c) - 1)

\* Wrapped or not, a chunk's size exceeds what lies in front of its last
\* instruction only when the ROM ends there or the next one is about to be read.
Sized ==
    \A k \in 1..Len(chunks) : LET c == chunks[k] IN
        /\ c.size <= 2 * Shows(c)
        /\ \/ c.size <= 2 * (Shows(c) - 1)
           \/ ~InRom(NextOf(c))
           \/ \E a \in 1..Len(frames) : frames[a].chunk = k /\ frames[a].at = "read"

\* A chunk that is not being printed has ended, at a jump or with the ROM.
Complete ==
    \A k \in 1..Len(chunks) : LET c == chunks[k] IN
        \/ \E a \in 1..Len(frames) : frames[a].chunk = k
        \/ ~InRom(NextOf(c))
        \/ /\ Shows(c) # 0
           /\ \E opcode \in OpcodesAt(Node(c, Shows(c))) : Ended(Node(c, Shows(c)), opcode)

\* A chunk of a list starts at this address or shows the instruction around it.
Held(list, t) ==
    \E k \in 1..Len(list) :
        t = list[k].offset \/ t \in list[k].offset..(list[k].offset + 2 * Shows(list[k]) - 1)

\* One is around 0x200, and around the target of every instruction that is shown.
TargetsHeld ==
    /\ Held(chunks, Entry)
    /\ \A k \in 1..Len(chunks) : \A n \in 1..Shows(chunks[k]) :
          LET opcode == Word16(Node(chunks[k], n)) IN
          (InRom(Node(chunks[k], n) + 1) /\ Branches(opcode) /\ InRom(Addr(opcode))) =>
              Held(chunks, Addr(opcode))

HInv ==
    /\ DInv /\ (status = "done" => frames = <<>>)
    /\ status # "crashed" => TextInOrder /\ Placed /\ Sized /\ Complete /\ TargetsHeld

\* The facts about types that the rest needs.
LEMMA ListFacts ==
  ASSUME DInv
  PROVE  /\ Len(chunks) \in Nat /\ Len(frames) \in Nat /\ chunks \in Seq(Chunks)
         /\ DOMAIN chunks = 1..Len(chunks)
         /\ \A k \in 1..Len(chunks) : /\ chunks[k].offset \in Nat /\ chunks[k].text \in Seq(Word)
                                      /\ chunks[k].size \in Nat /\ Shows(chunks[k]) \in Nat
         /\ \A a \in 1..Len(frames) : frames[a].chunk \in 1..Len(chunks) /\ frames[a].pc \in Nat
         /\ \A a, b \in 1..Len(frames) : a # b => frames[a].chunk # frames[b].chunk
  <1>1. /\ chunks \in Seq(Chunks) /\ Len(chunks) \in Nat /\ frames \in Seq(Frames(Len(chunks)))
        /\ Len(frames) \in Nat /\ DOMAIN chunks = 1..Len(chunks)
    BY TypeTo DEF DInv
  <1>2. ASSUME NEW k \in 1..Len(chunks)
        PROVE  /\ chunks[k].offset \in Nat /\ chunks[k].text \in Seq(Word)
               /\ chunks[k].size \in Nat /\ Shows(chunks[k]) \in Nat
    <2>1. chunks[k] \in Chunks
      BY <1>1, <1>2, ElementOfSeq
    <2>2. chunks[k].offset \in Nat /\ chunks[k].text \in Seq(Word)
      BY <2>1, Ranges DEF Chunks
    <2>3. chunks[k].size \in 0..(SizeRange - 1)
      BY <2>1 DEF Chunks
    <2>4. chunks[k].size \in Nat
      BY <2>3, DisasmAssumption
    <2>5. QED
      BY <2>2, <2>4 DEF Shows
  <1>3. ASSUME NEW a \in 1..Len(frames)
        PROVE  frames[a].chunk \in 1..Len(chunks) /\ frames[a].pc \in Nat
    <2>1. frames[a] \in Frames(Len(chunks))
      BY <1>1, <1>3, ElementOfSeq
    <2>2. QED
      BY <2>1, Ranges DEF Frames
  <1>4. ASSUME NEW a \in 1..Len(frames), NEW b \in 1..Len(frames), a # b
        PROVE  frames[a].chunk # frames[b].chunk
    <2>1. a < b \/ b < a
      BY <1>1, <1>4
    <2>2. frames[a].chunk < frames[b].chunk \/ frames[b].chunk < frames[a].chunk
      BY <1>4, <2>1 DEF DInv, ChunksInOrder
    <2>3. frames[a].chunk \in Int /\ frames[b].chunk \in Int
      BY <1>1, <1>3, <1>4
    <2>4. QED
      BY <2>2, <2>3
  <1>5. QED
    BY <1>1, <1>2, <1>3, <1>4

\* The instructions of a chunk have addresses that are words.
LEMMA NodesAreWords ==
  ASSUME DInv, TextInOrder, NEW k \in 1..Len(chunks)
  PROVE  /\ chunks[k].offset \in Word
         /\ \A n \in 1..Shows(chunks[k]) : Node(chunks[k], n) \in Word
  <1>1. chunks[k] \in Chunks
    BY TypeTo, ElementOfSeq DEF DInv
  <1>2. chunks[k].offset \in Word /\ chunks[k].text \in Seq(Word)
    BY <1>1 DEF Chunks
  <1>3. \A n \in 1..Shows(chunks[k]) : chunks[k].text[n] \in Word
    BY <1>2, ElementOfSeq DEF Shows
  <1>4. QED
    BY <1>2, <1>3 DEF TextInOrder

\* A chunk goes on at the next address, unless pc wraps.
LEMMA NextIsNode ==
  ASSUME NEW c, c.offset \in Nat, Shows(c) \in Nat, Node(c, Shows(c) + 1) \in Word
  PROVE  NextOf(c) = Node(c, Shows(c) + 1)
  <1> DEFINE m == c.offset + 2 * Shows(c)
  <1>1. m \in Nat /\ Node(c, Shows(c) + 1) = m
    BY DEF Node
  <1> HIDE DEF m
  <1>2. m \in Nat /\ m < WordSize /\ WordSize \in Nat \ {0}
    BY <1>1, WordLess
  <1>3. m % WordSize = m
    BY <1>2
  <1>4. QED
    BY <1>1, <1>3 DEF NextOf, Ahead, m

LEMMA ReturnClass == Class(\h00EE) = 0
  BY DEF Class

LEMMA KeySkipClass ==
  ASSUME NEW opcode \in KeySkips
  PROVE  Class(opcode) = OP_IN
  <1>1. PICK x \in Reg, k \in {\h9E, \hA1} : opcode = (OP_IN * 16 + x) * 256 + k
    BY DEF KeySkips
  <1>2. x \in 0..15
    BY <1>1 DEF Reg
  <1>3. QED
    BY <1>1, <1>2 DEF Class, OP_IN

\* Inside the ROM, a chunk goes on without a wrap.
LEMMA NextInRom ==
  ASSUME DInv, TextInOrder, NEW k \in 1..Len(chunks), InRom(NextOf(chunks[k]))
  PROVE  NextOf(chunks[k]) = Node(chunks[k], Shows(chunks[k]) + 1)
  <1> DEFINE o == chunks[k].offset
             z == Shows(chunks[k])
  <1>1. o \in Word /\ o \in Nat /\ z \in Nat /\ \A n \in 1..z : Node(chunks[k], n) \in Word
    BY NodesAreWords, ListFacts
  <1>2. CASE z = 0
    <2>1. NextOf(chunks[k]) = Ahead(o, 0) /\ Node(chunks[k], z + 1) = o + 0
      BY <1>1, <1>2 DEF NextOf, Node
    <2>2. QED
      BY <1>1, <2>1, AheadInRom
  <1>3. CASE z # 0
    <2>1. z \in 1..z /\ Node(chunks[k], z) = o + 2 * (z - 1) /\ Node(chunks[k], z + 1) = o + 2 * z
      BY <1>1, <1>3 DEF Node
    <2>2. Node(chunks[k], z) \in Word /\ (o + 2 * (z - 1)) + 2 = o + 2 * z
      BY <1>1, <2>1
    <2>3. NextOf(chunks[k]) = Ahead(Node(chunks[k], z), 2)
      BY <2>1, <2>2 DEF NextOf, Ahead
    <2>4. QED
      BY <2>1, <2>2, <2>3, AheadInRom
  <1>4. QED
    BY <1>2, <1>3

-----------------------------------------------------------------------------
(* When the disassembly is done.                                           *)

EvenChunks == \A k \in 1..Len(chunks) : chunks[k].offset % 2 = 0

\* The instruction at this address is shown.
ShownAt(t) == \E k \in 1..Len(chunks) : \E n \in 1..Shows(chunks[k]) : t = Node(chunks[k], n)

\* What is held, lies in the ROM and is even, is an instruction that its chunk
\* shows: no chunk that starts inside the ROM is empty.
LEMMA HeldIsShown ==
  ASSUME HInv, status = "done", EvenChunks, NEW t \in Nat, t % 2 = 0, Held(chunks, t), InRom(t)
  PROVE  ShownAt(t)
  <1>1. PICK k \in 1..Len(chunks) :
           t = chunks[k].offset \/ t \in chunks[k].offset..(chunks[k].offset + 2 * Shows(chunks[k]) - 1)
    BY DEF Held
  <1> DEFINE o == chunks[k].offset
             s == Shows(chunks[k])
             n == (t - o) \div 2 + 1
  <1>2. o \in Nat /\ s \in Nat /\ o % 2 = 0
    BY ListFacts DEF HInv, EvenChunks
  <1>3. s # 0 \/ t # o
    <2>1. Len(frames) = 0
      BY DEF HInv
    <2>2. \/ ~InRom(NextOf(chunks[k]))
          \/ s # 0
      BY <2>1 DEF HInv, Complete
    <2>3. s = 0 => NextOf(chunks[k]) = Ahead(o, 0)
      BY <1>2 DEF NextOf
    <2>4. Ahead(o, 0) = o
      <3>1. o \in Word
        BY NodesAreWords DEF HInv
      <3>2. QED
        BY <3>1, AheadZero
    <2>5. QED
      BY <2>2, <2>3, <2>4
  <1>4. t = o \/ t \in o..(o + 2 * s - 1)
    BY <1>1
  <1> HIDE DEF o, s, n
  <1>5. \A u, w, z \in Nat : (/\ u % 2 = 0 /\ w % 2 = 0 /\ (z # 0 \/ u # w)
                              /\ u = w \/ u \in w..(w + 2 * z - 1)) =>
            (u - w) \div 2 + 1 \in 1..z /\ u = w + 2 * ((u - w) \div 2 + 1 - 1)
    OBVIOUS
  <1>6. n \in 1..s /\ t = o + 2 * (n - 1)
    BY <1>2, <1>3, <1>4, <1>5 DEF n
  <1>7. QED
    BY <1>6 DEF Node, ShownAt, o, s

\* A successor of an instruction that is shown is shown too, if disasmChunk follows it.
LEMMA SuccessorsShown ==
  ASSUME HInv, status = "done", EvenChunks,
         NEW k \in 1..Len(chunks), NEW n \in 1..Shows(chunks[k]), InRom(Node(chunks[k], n) + 1),
         NEW s \in Followed(Node(chunks[k], n)), InRom(s), s \in Nat, s % 2 = 0
  PROVE  ShownAt(s)
  <1> DEFINE c == chunks[k]
             z == Shows(c)
             pc == Node(c, n)
             opcode == Word16(pc)
  <1>1. c.offset \in Nat /\ z \in Nat /\ romSize \in Nat
        /\ \A q : InRom(q) <=> q - Entry >= 0 /\ q - Entry < romSize
    BY ListFacts, RomType DEF HInv, DInv, InRom, Offset
  <1>2. \A m \in Nat : /\ Node(c, m) \in Int /\ Node(c, m + 1) = Node(c, m) + 2
                       /\ Node(c, m + 2) = Node(c, m) + 4
    BY SMTT(30), <1>1 DEF Node
  <1>3. InRom(pc)
    BY DEF HInv, TextInOrder
  <1>4. Len(frames) = 0
    BY DEF HInv
  <1>5. (Node(c, z + 1) \in Word /\ InRom(Node(c, z + 1))) =>
            \E o \in OpcodesAt(Node(c, z)) : Ended(Node(c, z), o)
    <2>1. \/ ~InRom(NextOf(c))
          \/ \E o \in OpcodesAt(Node(c, z)) : Ended(Node(c, z), o)
      BY <1>4 DEF HInv, Complete
    <2>2. QED
      BY <1>1, <2>1, NextIsNode
  <1>6. n \in Nat /\ n \in 1..z
    BY <1>1
  <1>7. /\ (Branches(opcode) /\ InRom(Addr(opcode))) => Held(chunks, Addr(opcode))
        /\ OpcodesAt(pc) = {opcode} /\ pc \in Word
    BY NodesAreWords DEF HInv, TargetsHeld, OpcodesAt
  <1>8. s \in Successors(pc) /\ s \notin Missed(pc)
    BY DEF Followed
  <1> HIDE DEF c, z, pc, opcode
  <1>9. CASE Branches(opcode) /\ s = Addr(opcode)
    BY <1>7, <1>9, HeldIsShown
  <1>10. ASSUME ~EndsChunk(opcode), InRom(Node(c, n + 1)), Node(c, n + 1) \in Word
         PROVE  n + 1 \in 1..z
    <2>1. CASE n = z
      <3>1. PICK o \in OpcodesAt(Node(c, z)) : Ended(Node(c, z), o)
        BY <1>5, <1>10, <2>1
      <3>2. o = opcode
        BY <1>7, <2>1, <3>1 DEF pc
      <3>3. QED
        BY <1>10, <3>1, <3>2 DEF Ended
    <2>2. QED
      BY <1>1, <1>6, <2>1
  <1>11. CASE ~Leaves(opcode) /\ s = Ahead(pc, 2)
    <2>1. ~EndsChunk(opcode)
      BY <1>11 DEF EndsChunk, Leaves
    <2>2. s = pc + 2 /\ pc + 2 \in Word
      BY <1>7, <1>11, AheadInRom
    <2>3. s = Node(c, n + 1)
      BY <1>2, <1>6, <2>2 DEF pc
    <2>4. n + 1 \in 1..z
      BY <1>10, <2>1, <2>2, <2>3
    <2>5. QED
      BY <2>3, <2>4 DEF ShownAt, c, z
  <1>12. CASE (Class(opcode) \in SkipClasses \/ opcode \in KeySkips) /\ s = Ahead(pc, 4)
    <2>1. ~EndsChunk(opcode)
      <3>1. CASE Class(opcode) \in SkipClasses
        BY <3>1 DEF EndsChunk, SkipClasses, OP_SKIP1, OP_SKIP2, OP_SKIP3, OP_SKIP4, OP_JMP,
                    OP_JMP_INDEX, Class
      <3>2. CASE opcode \in KeySkips
        <4>1. Class(opcode) = OP_IN
          BY <3>2, KeySkipClass
        <4>2. opcode # \h00EE
          BY <4>1, ReturnClass DEF OP_IN
        <4>3. QED
          BY <4>1, <4>2 DEF EndsChunk, OP_JMP, OP_JMP_INDEX, OP_IN
      <3>3. QED
        BY <1>12, <3>1, <3>2
    <2>2. s = pc + 4 /\ pc + 4 \in Word
      BY <1>7, <1>12, AheadInRom
    <2>3. Node(c, n) = pc /\ Node(c, n + 1) = pc + 2 /\ s = Node(c, n + 2) /\ pc \in Int
      BY <1>2, <1>6, <2>2 DEF pc
    <2>4. InRom(pc + 2) /\ InRom(pc + 3) /\ pc + 2 \in Word
      <3>1. InRom(pc + 2) /\ InRom(pc + 3)
        BY SMTT(30), <1>1, <1>3, <2>2, <2>3 DEF Entry
      <3>2. QED
        <4>1. pc + 4 < WordSize /\ pc + 2 \in Int /\ pc + 2 < pc + 4
          BY <2>2, <2>3, WordLess
        <4>2. 0 <= pc + 2
          BY SMTT(30), <1>1, <2>3, <3>1 DEF Entry
        <4>3. pc + 2 < WordSize
          BY <2>3, <4>1, WordLess
        <4>4. pc + 2 \in Word
          BY <4>1, <4>2, <4>3, WordLess
        <4>5. QED
          BY <3>1, <4>4
    <2>5. n + 1 \in 1..z
      BY <1>10, <2>1, <2>3, <2>4
    <2>6. n + 1 # z
      <3>1. SUFFICES ASSUME n + 1 = z PROVE FALSE
        OBVIOUS
      <3>2. Node(c, z + 1) = s /\ Node(c, z) = pc + 2
        BY <1>6, <2>3, <3>1
      <3>3. PICK o \in OpcodesAt(pc + 2) : Ended(pc + 2, o)
        BY <1>5, <2>2, <2>3, <3>2
      <3>4. MaySkip(pc + 2) = {Class(opcode) \in SkipClasses}
        <4>1. pc + 2 \notin {Entry, Entry + 1} /\ (pc + 2) - 2 = pc /\ (pc + 2) + 1 = pc + 3
          BY SMTT(30), <1>1, <1>3, <2>3 DEF Entry
        <4>2. QED
          BY <4>1 DEF MaySkip, opcode
      <3>5. (pc + 2) + 1 = pc + 3
        BY <2>3
      <3>6. o = Word16(pc + 2)
        BY <2>4, <3>3, <3>5 DEF OpcodesAt
      <3>7. Leaves(Word16(pc + 2)) /\ Class(opcode) \notin SkipClasses
        BY <3>3, <3>4, <3>6 DEF Ended, EndsChunk, Leaves
      <3>8. s \in Missed(pc)
        BY <1>12, <2>4, <3>7 DEF Missed, opcode
      <3>9. QED
        BY <1>8, <3>8
    <2>7. n + 2 \in 1..z
      BY <1>1, <1>6, <2>5, <2>6
    <2>8. QED
      BY <2>3, <2>7 DEF ShownAt, c, z
  <1>13. \/ Branches(opcode) /\ s = Addr(opcode)
         \/ ~Leaves(opcode) /\ s = Ahead(pc, 2)
         \/ (Class(opcode) \in SkipClasses \/ opcode \in KeySkips) /\ s = Ahead(pc, 4)
    BY <1>8 DEF Successors, Branches, opcode
  <1>14. QED
    BY <1>9, <1>11, <1>12, <1>13

LEMMA PrintedListed ==
  ASSUME HInv, status = "done", NEW t
  PROVE  t \in Printed <=> ShownAt(t)
  <1>1. /\ \A k \in 1..Len(chunks) : \A n \in 1..Shows(chunks[k]) :
              chunks[k].text[n] = Node(chunks[k], n)
    BY DEF HInv, TextInOrder
  <1>2. t \in Printed <=> \E k \in 1..Len(chunks) : \E n \in 1..Shows(chunks[k]) :
                             t = chunks[k].text[n]
    BY DEF Printed, Shows
  <1>3. QED
    BY <1>1, <1>2 DEF ShownAt

LEMMA SuccessorsType ==
  ASSUME rom \in Files, NEW pc \in Nat, InRom(pc), InRom(pc + 1)
  PROVE  Successors(pc) \subseteq Nat /\ Followed(pc) \subseteq Nat
  <1>1. rom \in Seq(Byte) /\ romSize \in Nat /\ romSize = Len(rom)
    BY RomType DEF romSize
  <1>2. Offset(pc) + 1 \in 1..Len(rom) /\ Offset(pc) + 2 \in 1..Len(rom)
    BY <1>1 DEF InRom, Offset, Entry
  <1>3. Word16(pc) \in Word
    BY <1>1, <1>2, WordOfBytes DEF Word16
  <1>4. Addr(Word16(pc)) \in Nat
    BY <1>3, FieldRanges, Ranges
  <1>5. Ahead(pc, 2) \in Nat /\ Ahead(pc, 4) \in Nat
    BY AheadType, Ranges
  <1>6. QED
    BY <1>4, <1>5 DEF Successors, Followed

\* Reach is what its definition says.
LEMMA ReachUnfolds ==
  ASSUME rom \in Files
  PROVE  /\ Reach[0] = Inside({Entry})
         /\ \A n \in 1..romSize :
               Reach[n] = Inside(Reach[n - 1] \cup UNION { Followed(pc) : pc \in Reach[n - 1] })
         /\ \A n \in 0..romSize : Reach[n] \subseteq Inside(Nat)
  <1> DEFINE spread(S) == Inside(S \cup UNION { Followed(pc) : pc \in S })
             P == SUBSET { pc \in Nat : InRom(pc) /\ InRom(pc + 1) }
             step == [n \in 1..romSize |-> [S \in P |-> spread(S)]]
  <1>1. romSize \in Nat
    BY RomType
  <1>2. \A S : S \subseteq Int => Inside(S) \in P
    <2>1. \A q \in Int : InRom(q) => q \in Nat
      BY <1>1 DEF InRom, Offset, Entry
    <2>2. QED
      BY <2>1 DEF Inside
  <1>3. ASSUME NEW S \in P PROVE spread(S) \in P
    <2>1. \A q \in S : q \in Int /\ Followed(q) \subseteq Int
      BY <1>3, SuccessorsType
    <2>2. S \cup UNION { Followed(q) : q \in S } \subseteq Int
      BY <2>1
    <2>3. QED
      BY <1>2, <2>2
  <1>4. step \in [1..romSize -> [P -> P]]
    BY <1>3
  <1>5. Inside({Entry}) \in P
    BY <1>2 DEF Entry
  <1> HIDE DEF step, P
  <1>6. PICK f \in [0..romSize -> P] : Iterates(f, romSize, Inside({Entry}), step)
    BY <1>1, <1>5, <1>4, Iteration
  <1>7. \A n \in 0..romSize : n = 0 \/ (n \in 1..romSize /\ n - 1 \in 0..romSize)
    BY <1>1
  <1>8. f[0] = Inside({Entry}) /\ \A n \in 1..romSize : f[n] = spread(f[n - 1])
    <2>1. \A n \in 1..romSize : f[n - 1] \in P
      BY <1>1, <1>6
    <2>2. \A n \in 1..romSize : step[n][f[n - 1]] = spread(f[n - 1])
      BY <2>1 DEF step
    <2>3. QED
      BY <1>6, <2>2 DEF Iterates
  <1>9. f = [n \in 0..romSize |-> IF n = 0 THEN Inside({Entry}) ELSE spread(f[n - 1])]
    BY <1>6, <1>7, <1>8
  <1>10. Reach = [n \in 0..romSize |-> IF n = 0 THEN Inside({Entry}) ELSE spread(Reach[n - 1])]
    BY <1>9 DEF Reach
  <1> HIDE DEF spread
  <1>11. /\ Reach[0] = Inside({Entry})
         /\ \A n \in 1..romSize : Reach[n] = spread(Reach[n - 1])
    <2>1. 0 \in 0..romSize /\ \A n \in 1..romSize : n \in 0..romSize /\ n # 0
      BY <1>1
    <2>2. Reach[0] = Inside({Entry})
      BY <1>10, <2>1
    <2>3. \A n \in 0..romSize : Reach[n] = IF n = 0 THEN Inside({Entry}) ELSE spread(Reach[n - 1])
      BY <1>10
    <2>4. QED
      BY <2>1, <2>2, <2>3
  <1> DEFINE Q == { n \in Nat : Reach[n] \in P }
  <1>12. 0 \in Q
    BY <1>5, <1>11
  <1>13. \A n \in 1..romSize : n - 1 \in Q => n \in Q
    BY <1>1, <1>3, <1>11
  <1> HIDE DEF Q
  <1>14. \A n \in 0..romSize : n \in Q
    BY <1>1, <1>12, <1>13, UpTo
  <1>15. \A n \in 0..romSize : Reach[n] \subseteq Inside(Nat)
    BY <1>14 DEF Q, P, Inside
  <1>16. QED
    BY <1>11, <1>15 DEF spread

\* What is reached once is reached from then on.
LEMMA ReachGrows ==
  ASSUME rom \in Files
  PROVE  \A n \in 0..romSize : Reach[n] \subseteq Reached
  <1> DEFINE Q == { n \in Nat : Reach[romSize - n] \subseteq Reached }
  <1>1. romSize \in Nat
    BY RomType
  <1>2. 0 \in Q
    BY <1>1 DEF Reached
  <1>3. ASSUME NEW n \in 1..romSize, n - 1 \in Q PROVE n \in Q
    <2> DEFINE m == romSize - n
    <2>1. m + 1 \in 1..romSize /\ m \in 0..romSize /\ (m + 1) - 1 = m /\ romSize - (n - 1) = m + 1
          /\ n \in Nat
      BY <1>1
    <2>2. Reach[m + 1] \subseteq Reached
      BY <1>3, <2>1
    <2> HIDE DEF m
    <2>3. Reach[m] \subseteq Reach[m + 1]
      BY <2>1, ReachUnfolds DEF Inside
    <2>4. QED
      BY <2>1, <2>2, <2>3 DEF m
  <1> HIDE DEF Q
  <1>4. \A n \in 0..romSize : n \in Q
    BY <1>1, <1>2, <1>3, UpTo
  <1>5. ASSUME NEW n \in 0..romSize PROVE Reach[n] \subseteq Reached
    <2>1. romSize - n \in 0..romSize /\ romSize - (romSize - n) = n
      BY <1>1
    <2>2. QED
      BY <1>4, <2>1 DEF Q
  <1>6. QED
    BY <1>5

LEMMA ReachableShown == HInv => ReachableIsPrinted
  <1> SUFFICES ASSUME HInv, status = "done", EvenChunks, Even(Reached)
               PROVE  Reached \subseteq Printed
    BY DEF ReachableIsPrinted, EvenChunks, Even
  <1> DEFINE P == { n \in Nat : Reach[n] \subseteq { pc \in Printed : InRom(pc + 1) } }
  <1>1. rom \in Files /\ romSize \in Nat
    BY RomType DEF HInv, DInv
  <1>2. \A n \in 0..romSize : Reach[n] \subseteq { pc \in Nat : pc % 2 = 0 }
    BY <1>1, ReachUnfolds, ReachGrows DEF Even, Inside
  <1>3. 0 \in P
    <2>1. \A t \in Inside({Entry}) : t = Entry /\ InRom(t) /\ InRom(t + 1)
      BY DEF Inside
    <2>2. Entry \in Nat /\ Entry % 2 = 0 /\ Held(chunks, Entry)
      BY DEF Entry, HInv, TargetsHeld
    <2>3. QED
      BY <1>1, <2>1, <2>2, ReachUnfolds, HeldIsShown, PrintedListed
  <1>4. ASSUME NEW n \in 1..romSize, n - 1 \in P PROVE n \in P
    <2>1. ASSUME NEW t \in Reach[n] PROVE t \in Printed /\ InRom(t + 1)
      <3>1. /\ InRom(t) /\ InRom(t + 1)
            /\ t \in Reach[n - 1] \/ \E pc \in Reach[n - 1] : t \in Followed(pc)
        BY <1>1, <2>1, ReachUnfolds DEF Inside
      <3>2. CASE t \in Reach[n - 1]
        BY <1>4, <3>1, <3>2
      <3>3. ASSUME NEW pc \in Reach[n - 1], t \in Followed(pc) PROVE t \in Printed
        <4>1. pc \in Printed /\ InRom(pc + 1)
          BY <1>4, <3>3
        <4>2. PICK k \in 1..Len(chunks) : \E m \in 1..Shows(chunks[k]) : pc = Node(chunks[k], m)
          BY <1>1, <4>1, PrintedListed DEF ShownAt
        <4>3. PICK m \in 1..Shows(chunks[k]) : pc = Node(chunks[k], m)
          BY <4>2
        <4>4. t \in Nat /\ t % 2 = 0
          <5>1. n \in 0..romSize
            BY <1>1
          <5>2. QED
            BY <1>2, <2>1, <5>1
        <4>5. ShownAt(t)
          BY <3>1, <3>3, <4>1, <4>3, <4>4, SuccessorsShown
        <4>6. QED
          BY <4>5, PrintedListed
      <3>4. QED
        BY <3>1, <3>2, <3>3
    <2>2. n \in Nat
      BY <1>1
    <2>3. QED
      BY <2>1, <2>2
  <1> HIDE DEF P
  <1>5. romSize \in P
    BY <1>1, <1>3, <1>4, UpTo
  <1>6. QED
    BY <1>5 DEF P, Reached

-----------------------------------------------------------------------------
(* Every step keeps that nothing is left out.                              *)

\* What Disassemble does when the C stack has room: an instruction is added to the
\* chunk of the innermost call; a chunk and a call that are new are for its target.
Printing(opcode) ==
    /\ opcode \in OpcodesAt(top.pc) /\ InRom(top.pc) /\ top.at = "read"
    /\ rom' = rom /\ status = "running" /\ status' = "running"
    /\ 1..Len(chunks) \subseteq 1..Len(chunks') /\ 1..Len(frames) \subseteq 1..Len(frames')
    /\ \A k \in 1..Len(chunks) : /\ chunks'[k].offset = chunks[k].offset
                                 /\ chunks'[k].size = chunks[k].size
                                 /\ k # top.chunk => chunks'[k] = chunks[k]
    /\ chunks'[top.chunk].text = Append(chunks[top.chunk].text, top.pc)
    /\ \A k \in (1..Len(chunks')) \ (1..Len(chunks)) :
           /\ chunks'[k].text = <<>> /\ chunks'[k].size = 0 /\ chunks'[k].offset \in Word
           /\ \E a \in 1..Len(frames') : frames'[a].chunk = k /\ frames'[a].at = "read"
    /\ \A a \in 1..Len(frames) : a # Len(frames) => frames'[a] = frames[a]
    /\ frames'[Len(frames)] = [top EXCEPT !.opcode = opcode, !.at = "printed"]
    /\ \A a \in (1..Len(frames')) \ (1..Len(frames)) :
           /\ a = Len(frames') /\ frames'[a].at = "read"
           /\ frames'[a].chunk \in (1..Len(chunks')) \ (1..Len(chunks))
           /\ frames'[a].pc = chunks'[frames'[a].chunk].offset
    /\ (Branches(opcode) /\ InRom(Addr(opcode))) =>
           \/ IsDisassembled(Addr(opcode))
           \/ \E k \in 1..Len(chunks') : chunks'[k].offset = Addr(opcode)

LEMMA DisassemblePrints ==
  ASSUME DInv, Disassemble
  PROVE  status' = "crashed" \/ \E opcode \in Word : Printing(opcode)
  <1> DEFINE n == Len(chunks)
             d == Len(frames)
  <1>1. /\ TypeOK /\ StringsOK /\ status = "running" /\ rom \in Files /\ rom' = rom
        /\ InRom(top.pc) /\ top.at = "read"
    BY DEF DInv, Disassemble, Running
  <1>2. PICK opcode \in OpcodesAt(top.pc) :
           \/ status' = "crashed"
           \/ /\ ~(Branches(opcode) /\ Opens(Addr(opcode)))
              /\ chunks' = Shown(opcode) /\ frames' = Here(opcode)
              /\ status' = "running"
           \/ /\ chunks' = Append(Shown(opcode), Chunk(Addr(opcode)))
              /\ frames' = Append(Here(opcode), Frame(n + 1, Addr(opcode)))
              /\ status' = "running"
    BY <1>1 DEF Disassemble, Shown, Here, Branches
  <1>3. /\ n \in Nat /\ d \in Nat \ {0} /\ frames \in Seq(Frames(n)) /\ top.pc \in Word
        /\ top.chunk \in 1..n
    BY <1>1, TypeTo, TopType
  <1>4. opcode \in Word /\ Addr(opcode) \in Word /\ Addr(opcode) \in Nat
    BY <1>1, <1>2, <1>3, OpcodesType, FieldRanges, Ranges
  <1>5. /\ Shown(opcode) \in Seq(Chunks) /\ Len(Shown(opcode)) = n
        /\ \A k \in 1..n : /\ Shown(opcode)[k].offset = chunks[k].offset
                           /\ Shown(opcode)[k].size = chunks[k].size
                           /\ k # top.chunk => Shown(opcode)[k] = chunks[k]
        /\ Shown(opcode)[top.chunk].text = Append(chunks[top.chunk].text, top.pc)
    BY <1>1, <1>4, ShownType
  <1>6. /\ Here(opcode) \in Seq(Frames(n)) /\ Len(Here(opcode)) = d
        /\ \A a \in 1..(d - 1) : Here(opcode)[a] = frames[a]
        /\ Here(opcode)[d] = [top EXCEPT !.opcode = opcode, !.at = "printed"]
    BY <1>1, <1>4, HereType
  <1>7. \A a \in 1..d : a # d => Here(opcode)[a] = frames[a]
    BY <1>3, <1>6, LastOrBefore
  <1> HIDE DEF n, d
  <1>8. CASE /\ ~(Branches(opcode) /\ Opens(Addr(opcode)))
             /\ chunks' = Shown(opcode) /\ frames' = Here(opcode)
             /\ status' = "running"
    <2>1. Len(chunks') = n /\ Len(frames') = d
      BY <1>5, <1>6, <1>8
    <2>2. (Branches(opcode) /\ InRom(Addr(opcode))) => IsDisassembled(Addr(opcode))
      <3>1. InRom(Addr(opcode)) => Offset(Addr(opcode)) >= 0 /\ Offset(Addr(opcode)) <= romSize
        <4>1. Offset(Addr(opcode)) \in Int /\ romSize \in Int
          BY <1>1, <1>4, RomType DEF Offset, Entry
        <4>2. QED
          BY <4>1 DEF InRom
      <3>2. QED
        BY <1>8, <3>1 DEF Opens
    <2>3. Printing(opcode)
      BY <1>1, <1>2, <1>5, <1>6, <1>7, <1>8, <2>1, <2>2 DEF Printing, n, d
    <2>4. QED
      BY <1>4, <2>3
  <1>9. CASE /\ chunks' = Append(Shown(opcode), Chunk(Addr(opcode)))
             /\ frames' = Append(Here(opcode), Frame(n + 1, Addr(opcode)))
             /\ status' = "running"
    <2> DEFINE t == Addr(opcode)
    <2>1. /\ Chunk(t) \in Chunks /\ Chunk(t).offset = t /\ Chunk(t).size = 0
          /\ Chunk(t).text = <<>>
      BY <1>4, ChunkType DEF Chunk
    <2>2. /\ Frame(n + 1, t) \in Frames(n + 1) /\ Frame(n + 1, t).chunk = n + 1
          /\ Frame(n + 1, t).at = "read" /\ Frame(n + 1, t).pc = t
      BY <1>3, <1>4, FrameType
    <2>3. Here(opcode) \in Seq(Frames(n + 1))
      <3>1. Frames(n) \subseteq Frames(n + 1)
        BY <1>3 DEF Frames
      <3>2. QED
        BY <1>6, <3>1, SeqMonotonic
    <2> HIDE DEF t
    <2>4. /\ Len(chunks') = n + 1 /\ chunks'[n + 1] = Chunk(t)
          /\ \A k \in 1..n : chunks'[k] = Shown(opcode)[k]
      BY <1>5, <1>9, <2>1, AddLast DEF t
    <2>5. /\ Len(frames') = d + 1 /\ frames'[d + 1] = Frame(n + 1, t)
          /\ \A a \in 1..d : frames'[a] = Here(opcode)[a]
      BY <1>6, <1>9, <2>2, <2>3, AddLast DEF t
    <2>6. /\ 1..n \subseteq 1..(n + 1) /\ 1..d \subseteq 1..(d + 1)
          /\ d \in 1..d /\ n + 1 \in 1..(n + 1) /\ n + 1 \notin 1..n /\ d + 1 \in 1..(d + 1)
          /\ \A k \in (1..(n + 1)) \ (1..n) : k = n + 1
          /\ \A a \in (1..(d + 1)) \ (1..d) : a = d + 1
      BY <1>3
    <2>7. /\ \A k \in 1..n : /\ chunks'[k].offset = chunks[k].offset
                             /\ chunks'[k].size = chunks[k].size
                             /\ k # top.chunk => chunks'[k] = chunks[k]
          /\ chunks'[top.chunk].text = Append(chunks[top.chunk].text, top.pc)
      BY <1>3, <1>5, <2>4
    <2>8. /\ \A a \in 1..d : a # d => frames'[a] = frames[a]
          /\ frames'[d] = [top EXCEPT !.opcode = opcode, !.at = "printed"]
      BY <1>6, <1>7, <2>5, <2>6
    <2>9. \A k \in (1..(n + 1)) \ (1..n) :
             /\ chunks'[k].text = <<>> /\ chunks'[k].size = 0 /\ chunks'[k].offset \in Word
             /\ \E a \in 1..(d + 1) : frames'[a].chunk = k /\ frames'[a].at = "read"
      BY <1>4, <2>1, <2>2, <2>4, <2>5, <2>6 DEF t
    <2>10. \A a \in (1..(d + 1)) \ (1..d) :
             /\ a = d + 1 /\ frames'[a].at = "read"
             /\ frames'[a].chunk \in (1..(n + 1)) \ (1..n)
             /\ frames'[a].pc = chunks'[frames'[a].chunk].offset
      BY <2>1, <2>2, <2>4, <2>5, <2>6
    <2>11. \E k \in 1..(n + 1) : chunks'[k].offset = Addr(opcode)
      BY <2>1, <2>4, <2>6 DEF t
    <2>12. n = Len(chunks) /\ n + 1 = Len(chunks') /\ d = Len(frames) /\ d + 1 = Len(frames')
      BY <2>4, <2>5 DEF n, d
    <2>13. /\ 1..Len(chunks) \subseteq 1..Len(chunks') /\ 1..Len(frames) \subseteq 1..Len(frames')
           /\ \A k \in 1..Len(chunks) : /\ chunks'[k].offset = chunks[k].offset
                                        /\ chunks'[k].size = chunks[k].size
                                        /\ k # top.chunk => chunks'[k] = chunks[k]
           /\ \A a \in 1..Len(frames) : a # Len(frames) => frames'[a] = frames[a]
           /\ frames'[Len(frames)] = [top EXCEPT !.opcode = opcode, !.at = "printed"]
      BY <2>6, <2>7, <2>8, <2>12
    <2>14. /\ \A k \in (1..Len(chunks')) \ (1..Len(chunks)) :
                 /\ chunks'[k].text = <<>> /\ chunks'[k].size = 0 /\ chunks'[k].offset \in Word
                 /\ \E a \in 1..Len(frames') : frames'[a].chunk = k /\ frames'[a].at = "read"
           /\ \A a \in (1..Len(frames')) \ (1..Len(frames)) :
                 /\ a = Len(frames') /\ frames'[a].at = "read"
                 /\ frames'[a].chunk \in (1..Len(chunks')) \ (1..Len(chunks))
                 /\ frames'[a].pc = chunks'[frames'[a].chunk].offset
           /\ \E k \in 1..Len(chunks') : chunks'[k].offset = Addr(opcode)
      BY <2>9, <2>10, <2>11, <2>12
    <2>15. Printing(opcode)
      BY <1>1, <1>2, <1>9, <2>7, <2>13, <2>14 DEF Printing
    <2>16. QED
      BY <1>4, <2>15
  <1>10. QED
    BY <1>2, <1>8, <1>9 DEF n

\* The ROM stays, and what is said about it.
LEMMA RomStays ==
  ASSUME rom' = rom
  PROVE  /\ \A pc : InRom(pc)' <=> InRom(pc)
         /\ \A pc : OpcodesAt(pc)' = OpcodesAt(pc)
         /\ \A pc : Word16(pc)' = Word16(pc)
         /\ \A pc : MaySkip(pc)' = MaySkip(pc)
         /\ \A pc, opcode : Ended(pc, opcode)' = Ended(pc, opcode)
  BY DEF InRom, romSize, OpcodesAt, MaySkip, Word16, Ended

\* What Printing says about the chunk of the innermost call, before (f) and after (g).
LEMMA PrintingFacts ==
  ASSUME DInv, NEW opcode \in Word, Printing(opcode),
         NEW f, f = chunks[top.chunk], NEW g, g = chunks'[top.chunk]
  PROVE  /\ Len(frames) \in 1..Len(frames) /\ top = frames[Len(frames)]
         /\ top.chunk \in 1..Len(chunks) /\ top.pc \in Nat
         /\ \A a \in 1..Len(frames) : a # Len(frames) =>
               frames'[a] = frames[a] /\ frames[a].chunk # top.chunk
         /\ frames'[Len(frames)].chunk = top.chunk /\ frames'[Len(frames)].pc = top.pc
         /\ frames'[Len(frames)].at = "printed" /\ frames'[Len(frames)].opcode = opcode
         /\ g.offset = f.offset /\ g.size = f.size
         /\ Shows(f) \in Nat /\ Shows(g) = Shows(f) + 1
         /\ g.text[Shows(f) + 1] = top.pc
         /\ \A n \in 1..Shows(f) : g.text[n] = f.text[n]
         /\ \A n : Node(g, n) = Node(f, n)
  <1>1. TypeOK /\ status = "running"
    BY DEF DInv, Printing
  <1>2. /\ Len(frames) \in 1..Len(frames) /\ top = frames[Len(frames)]
        /\ top \in Frames(Len(chunks)) /\ top.chunk \in 1..Len(chunks) /\ top.pc \in Word
        /\ top.pc \in Nat
    BY <1>1, TopType, Ranges DEF top
  <1>3. \A a \in 1..Len(frames) : a # Len(frames) =>
               frames'[a] = frames[a] /\ frames[a].chunk # top.chunk
    BY <1>2, ListFacts DEF Printing
  <1>4. /\ frames'[Len(frames)].chunk = top.chunk /\ frames'[Len(frames)].pc = top.pc
        /\ frames'[Len(frames)].at = "printed" /\ frames'[Len(frames)].opcode = opcode
    BY <1>2 DEF Printing, Frames
  <1>5. f.text \in Seq(Word) /\ Shows(f) \in Nat
    BY <1>2, ListFacts
  <1>6. g.text = Append(f.text, top.pc) /\ g.offset = f.offset /\ g.size = f.size
    BY <1>2 DEF Printing
  <1>7. /\ Shows(g) = Shows(f) + 1 /\ g.text[Shows(f) + 1] = top.pc
        /\ \A n \in 1..Shows(f) : g.text[n] = f.text[n]
    <2>1. ASSUME NEW q, q \in Seq(Word), NEW e \in Word
          PROVE  /\ Len(Append(q, e)) = Len(q) + 1 /\ Append(q, e)[Len(q) + 1] = e
                 /\ \A n \in 1..Len(q) : Append(q, e)[n] = q[n]
      BY <2>1, AddLast
    <2>2. top.pc \in Word
      BY <1>2
    <2>3. QED
      BY <1>5, <1>6, <2>1, <2>2 DEF Shows
  <1>8. \A n : Node(g, n) = Node(f, n)
    BY <1>6 DEF Node
  <1>9. QED
    BY <1>2, <1>3, <1>4, <1>5, <1>6, <1>7, <1>8

\* A chunk that is new shows nothing yet.
LEMMA NewChunks ==
  ASSUME NEW opcode \in Word, Printing(opcode),
         NEW k \in (1..Len(chunks')) \ (1..Len(chunks))
  PROVE  /\ Shows(chunks'[k]) = 0 /\ 1..Shows(chunks'[k]) = {}
         /\ chunks'[k].size = 0 /\ NextOf(chunks'[k]) = chunks'[k].offset
         /\ \E a \in 1..Len(frames') : frames'[a].chunk = k /\ frames'[a].at = "read"
  <1>1. /\ chunks'[k].text = <<>> /\ chunks'[k].size = 0 /\ chunks'[k].offset \in Word
        /\ \E a \in 1..Len(frames') : frames'[a].chunk = k /\ frames'[a].at = "read"
    BY DEF Printing
  <1>2. Shows(chunks'[k]) = 0
    BY <1>1 DEF Shows
  <1>3. NextOf(chunks'[k]) = chunks'[k].offset
    <2>1. NextOf(chunks'[k]) = Ahead(chunks'[k].offset, 0)
      BY <1>2 DEF NextOf
    <2>2. QED
      BY <1>1, <2>1, AheadZero
  <1>4. QED
    BY <1>1, <1>2, <1>3

LEMMA PrintingKeepsOrder ==
  ASSUME HInv, NEW opcode \in Word, Printing(opcode)
  PROVE  TextInOrder' /\ Placed'
  <1> DEFINE d == Len(frames)
             t == top.chunk
             f == chunks[t]
             g == chunks'[t]
  <1>1. /\ d \in 1..d /\ top = frames[d] /\ t \in 1..Len(chunks)
        /\ \A a \in 1..d : a # d => frames'[a] = frames[a] /\ frames[a].chunk # t
        /\ frames'[d].chunk = t /\ frames'[d].pc = top.pc
        /\ frames'[d].at = "printed" /\ frames'[d].opcode = opcode
        /\ g.size = f.size
        /\ Shows(f) \in Nat /\ Shows(g) = Shows(f) + 1
        /\ g.text[Shows(f) + 1] = top.pc
        /\ \A n \in 1..Shows(f) : g.text[n] = f.text[n]
        /\ \A n : Node(g, n) = Node(f, n)
    BY PrintingFacts DEF HInv
  <1>2. /\ rom' = rom /\ status # "crashed"
        /\ opcode \in OpcodesAt(top.pc) /\ InRom(top.pc) /\ top.at = "read"
        /\ \A k \in 1..Len(chunks) : k # t => chunks'[k] = chunks[k]
        /\ 1..Len(chunks) \subseteq 1..Len(chunks')
        /\ \A a \in (1..Len(frames')) \ (1..d) :
               /\ a = Len(frames') /\ frames'[a].at = "read"
               /\ frames'[a].chunk \in (1..Len(chunks')) \ (1..Len(chunks))
               /\ frames'[a].pc = chunks'[frames'[a].chunk].offset
    BY DEF Printing
  <1>3. \A a \in 1..d : frames[a].chunk \in 1..Len(chunks)
    BY ListFacts DEF HInv
  <1>4. top.pc = Node(f, Shows(f) + 1)
    <2>1. top.pc = NextOf(f)
      BY <1>1, <1>2 DEF HInv, Placed
    <2>2. QED
      BY <1>1, <1>2, <2>1, NextInRom DEF HInv
  <1>5. \A k \in 1..Len(chunks) : \A n \in 1..Shows(chunks[k]) :
              chunks[k].text[n] = Node(chunks[k], n) /\ InRom(Node(chunks[k], n))
    BY <1>2 DEF HInv, TextInOrder
  <1>6. f.size <= 2 * Shows(f) /\ f.size \in Nat
    BY <1>1, <1>2, ListFacts DEF HInv, Sized
  <1>7. \A k \in (1..Len(chunks')) \ (1..Len(chunks)) :
           /\ 1..Shows(chunks'[k]) = {}
           /\ NextOf(chunks'[k]) = chunks'[k].offset
    BY NewChunks
  <1>8. \A a \in 1..d : a # d => frames[a].at # "read"
    BY <1>2 DEF HInv, Placed
  <1> HIDE DEF d, t, f, g
  <1>9. /\ \A n \in 1..Shows(g) : n = Shows(f) + 1 \/ n \in 1..Shows(f)
        /\ Shows(g) # 0 /\ g.size <= 2 * (Shows(g) - 1)
    BY <1>1, <1>6
  <1>10. TextInOrder'
    <2>1. ASSUME NEW k \in 1..Len(chunks'), NEW n \in 1..Shows(chunks'[k])
          PROVE  /\ chunks'[k].text[n] = Node(chunks'[k], n)
                 /\ InRom(Node(chunks'[k], n))
      <3>1. CASE k = t
        <4>1. n = Shows(f) + 1 \/ n \in 1..Shows(f)
          BY <1>9, <2>1, <3>1 DEF g
        <4>2. n \in 1..Shows(f) => f.text[n] = Node(f, n) /\ InRom(Node(f, n))
          BY <1>1, <1>5 DEF f
        <4>3. g.text[n] = Node(g, n) /\ InRom(Node(g, n))
          BY <1>1, <1>2, <1>4, <4>1, <4>2
        <4>4. QED
          BY <3>1, <4>3 DEF g
      <3>2. CASE k # t
        <4>1. k \in 1..Len(chunks)
          BY <1>7, <2>1
        <4>2. chunks'[k] = chunks[k]
          BY <1>2, <3>2, <4>1
        <4>3. QED
          BY <1>5, <2>1, <4>1, <4>2
      <3>3. QED
        BY <3>1, <3>2
    <2>2. QED
      BY <1>2, <2>1, RomStays DEF TextInOrder
  <1>11. Placed'
    <2>1. ASSUME NEW a \in 1..Len(frames')
          PROVE  LET c == chunks'[frames'[a].chunk] IN
                 /\ frames'[a].at = "read" => a = Len(frames') /\ frames'[a].pc = NextOf(c)
                 /\ frames'[a].at = "printed" =>
                       /\ Shows(c) # 0 /\ frames'[a].pc = Node(c, Shows(c))
                       /\ frames'[a].opcode \in OpcodesAt(frames'[a].pc)
                       /\ c.size <= 2 * (Shows(c) - 1)
      <3>1. CASE a = d
        BY <1>1, <1>2, <1>4, <1>9, <3>1 DEF g
      <3>2. CASE a \in 1..d /\ a # d
        <4>1. frames'[a] = frames[a] /\ chunks'[frames[a].chunk] = chunks[frames[a].chunk]
              /\ frames[a].at # "read"
          BY <1>1, <1>2, <1>3, <1>8, <3>2
        <4>2. QED
          BY <1>2, <3>2, <4>1 DEF HInv, Placed, d
      <3>3. CASE a \notin 1..d
        BY <1>2, <1>7, <2>1, <3>3
      <3>4. QED
        BY <3>1, <3>2, <3>3
    <2>2. QED
      BY <1>2, <2>1, RomStays DEF Placed
  <1>12. QED
    BY <1>10, <1>11

\* What is held by a list is held by one whose chunks show no less.
LEMMA HeldGrows ==
  ASSUME NEW s \in Seq(Chunks), NEW u \in Seq(Chunks), NEW t, Held(s, t), 1..Len(s) \subseteq 1..Len(u),
         \A k \in 1..Len(s) : u[k].offset = s[k].offset /\ Shows(s[k]) <= Shows(u[k])
  PROVE  Held(u, t)
  <1>1. PICK k \in 1..Len(s) :
           t = s[k].offset \/ t \in s[k].offset..(s[k].offset + 2 * Shows(s[k]) - 1)
    BY DEF Held
  <1>2. s[k] \in Chunks /\ k \in 1..Len(u) /\ u[k] \in Chunks
    BY ElementOfSeq
  <1>3. /\ s[k].offset \in Nat /\ s[k].text \in Seq(Word) /\ u[k].text \in Seq(Word)
    BY <1>2, Ranges DEF Chunks
  <1>4. Shows(s[k]) \in Nat /\ Shows(u[k]) \in Nat
    BY <1>3 DEF Shows
  <1>5. u[k].offset = s[k].offset /\ Shows(s[k]) <= Shows(u[k])
    BY <1>1
  <1>6. \A o, m, n \in Nat : m <= n => o..(o + 2 * m - 1) \subseteq o..(o + 2 * n - 1)
    OBVIOUS
  <1>7. t = u[k].offset \/ t \in u[k].offset..(u[k].offset + 2 * Shows(u[k]) - 1)
    BY <1>1, <1>3, <1>4, <1>5, <1>6
  <1>8. QED
    BY <1>2, <1>7 DEF Held

LEMMA PrintingKeepsCover ==
  ASSUME HInv, DInv', Placed', NEW opcode \in Word, Printing(opcode)
  PROVE  Sized' /\ Complete' /\ TargetsHeld'
  <1> DEFINE d == Len(frames)
             t == top.chunk
             f == chunks[t]
             g == chunks'[t]
  <1>1. /\ d \in 1..d /\ top = frames[d] /\ t \in 1..Len(chunks)
        /\ \A a \in 1..d : a # d => frames'[a] = frames[a] /\ frames[a].chunk # t
        /\ frames[d].chunk = t /\ frames'[d].chunk = t /\ frames'[d].at = "printed"
        /\ g.size = f.size /\ g.offset = f.offset
        /\ Shows(f) \in Nat /\ Shows(g) = Shows(f) + 1
        /\ \A n : Node(g, n) = Node(f, n)
    BY PrintingFacts DEF HInv
  <1>2. /\ rom' = rom /\ status # "crashed"
        /\ opcode \in OpcodesAt(top.pc) /\ InRom(top.pc) /\ top.at = "read"
        /\ \A k \in 1..Len(chunks) : k # t => chunks'[k] = chunks[k]
        /\ \A k \in 1..Len(chunks) : chunks'[k].offset = chunks[k].offset /\ chunks'[k].size = chunks[k].size
        /\ 1..Len(chunks) \subseteq 1..Len(chunks') /\ 1..d \subseteq 1..Len(frames')
        /\ \A a \in (1..Len(frames')) \ (1..d) :
               /\ frames'[a].chunk \in (1..Len(chunks')) \ (1..Len(chunks))
               /\ a = Len(frames')
    BY DEF Printing
  <1>3. /\ chunks \in Seq(Chunks)
        /\ \A a \in 1..d : frames[a].chunk \in 1..Len(chunks)
        /\ \A k \in 1..Len(chunks) : /\ Shows(chunks[k]) \in Nat /\ chunks[k].offset \in Nat
                                     /\ chunks[k].size \in Nat
    BY ListFacts DEF HInv
  <1>4. top.pc = Node(f, Shows(f) + 1)
    <2>1. top.pc = NextOf(f)
      BY <1>1, <1>2 DEF HInv, Placed
    <2>2. QED
      BY <1>1, <1>2, <2>1, NextInRom DEF HInv
  <1>5. f.size <= 2 * Shows(f) /\ f.size \in Nat
    BY <1>1, <1>2, <1>3 DEF HInv, Sized
  <1>6. /\ \A n \in 1..Shows(g) : n = Shows(f) + 1 \/ n \in 1..Shows(f)
        /\ g.size <= 2 * (Shows(g) - 1) /\ g.size <= 2 * Shows(g)
    BY <1>1, <1>5
  <1>7. \A k \in (1..Len(chunks')) \ (1..Len(chunks)) :
           /\ Shows(chunks'[k]) = 0 /\ 1..Shows(chunks'[k]) = {} /\ chunks'[k].size = 0
           /\ \E a \in 1..Len(frames') : frames'[a].chunk = k /\ frames'[a].at = "read"
    BY NewChunks
  <1>8. \A a \in 1..d : a # d => frames[a].at # "read"
    BY <1>2 DEF HInv, Placed
  <1>9. chunks' \in Seq(Chunks)
    BY DEF DInv, TypeOK, Chunks, Str
  <1>10. \A k \in 1..Len(chunks) : /\ Shows(chunks'[k]) \in Nat
                                   /\ Shows(chunks[k]) <= Shows(chunks'[k])
    <2>1. Shows(f) <= Shows(g) /\ Shows(g) \in Nat
      BY <1>1
    <2>2. \A k \in 1..Len(chunks) : k # t => Shows(chunks'[k]) = Shows(chunks[k])
      BY <1>2
    <2>3. \A k \in 1..Len(chunks) : Shows(chunks[k]) <= Shows(chunks[k])
      BY <1>3
    <2>4. QED
      BY <1>3, <2>1, <2>2, <2>3
  <1>11. \A a \in 1..d : frames'[a].chunk = frames[a].chunk /\ frames'[a].at # "read"
    BY <1>1, <1>8
  <1> HIDE DEF d, t, f, g
  <1>12. ASSUME NEW k \in 1..Len(chunks)
         PROVE  LET c == chunks'[k] IN
                /\ c.size <= 2 * Shows(c)
                /\ c.size <= 2 * (Shows(c) - 1) \/ ~InRom(NextOf(c))
    <2>1. CASE k = t
      BY <1>6, <2>1 DEF g
    <2>2. CASE k # t
      <3>1. ~\E a \in 1..d : frames[a].chunk = k /\ frames[a].at = "read"
        BY <1>1, <1>8, <2>2
      <3>2. chunks'[k] = chunks[k]
        BY <1>2, <1>12, <2>2
      <3>3. QED
        BY <1>2, <1>12, <3>1, <3>2 DEF HInv, Sized, d
    <2>3. QED
      BY <2>1, <2>2
  <1>13. Sized'
    <2>1. ASSUME NEW k \in 1..Len(chunks')
          PROVE  LET c == chunks'[k] IN
                 /\ c.size <= 2 * Shows(c)
                 /\ \/ c.size <= 2 * (Shows(c) - 1)
                    \/ ~InRom(NextOf(c))
                    \/ \E a \in 1..Len(frames') : frames'[a].chunk = k /\ frames'[a].at = "read"
      <3>1. CASE k \in 1..Len(chunks)
        BY <1>12, <3>1
      <3>2. CASE k \notin 1..Len(chunks)
        BY <1>7, <2>1, <3>2
      <3>3. QED
        BY <3>1, <3>2
    <2>2. QED
      BY <1>2, <2>1, RomStays DEF Sized
  <1>14. Complete'
    <2>1. ASSUME NEW k \in 1..Len(chunks'), \A a \in 1..Len(frames') : frames'[a].chunk # k
          PROVE  LET c == chunks'[k] IN
                 \/ ~InRom(NextOf(c))
                 \/ /\ Shows(c) # 0
                    /\ \E o \in OpcodesAt(Node(c, Shows(c))) : Ended(Node(c, Shows(c)), o)
      <3>1. k \in 1..Len(chunks)
        BY <1>7, <2>1
      <3>2. \A a \in 1..d : frames[a].chunk # k
        BY <1>2, <1>11, <2>1
      <3>3. chunks'[k] = chunks[k]
        BY <1>1, <1>2, <3>1, <3>2
      <3>4. QED
        BY <1>2, <3>1, <3>2, <3>3 DEF HInv, Complete, d
    <2>2. QED
      BY <1>2, <2>1, RomStays DEF Complete
  <1>15. \A x : Held(chunks, x) => Held(chunks', x)
    BY <1>2, <1>3, <1>9, <1>10, HeldGrows
  <1>16. (Branches(opcode) /\ InRom(Addr(opcode))) => Held(chunks', Addr(opcode))
    <2> SUFFICES ASSUME Branches(opcode), InRom(Addr(opcode)) PROVE Held(chunks', Addr(opcode))
      OBVIOUS
    <2> DEFINE x == Addr(opcode)
    <2>1. \/ IsDisassembled(x)
          \/ \E k \in 1..Len(chunks') : chunks'[k].offset = x
      BY DEF Printing
    <2>2. ASSUME NEW k \in 1..Len(chunks),
                 x \in chunks[k].offset..(chunks[k].offset + chunks[k].size)
          PROVE  Held(chunks', x)
      <3> DEFINE o == chunks'[k].offset
                 z == Shows(chunks'[k])
                 y == chunks'[k].size
      <3>1. x \in o..(o + y) /\ o \in Nat /\ z \in Nat /\ y \in Nat
        BY <1>2, <1>3, <1>10, <2>2
      <3>2. y <= 2 * z /\ (y <= 2 * (z - 1) \/ x # o + 2 * z)
        <4>1. Node(chunks'[k], z + 1) = o + 2 * z
          BY <3>1 DEF Node
        <4>2. x = o + 2 * z => NextOf(chunks'[k]) = x
          <5>1. x \in Word
            BY FieldRanges
          <5>2. QED
            BY <3>1, <4>1, <5>1, NextIsNode
        <4>3. InRom(x)
          OBVIOUS
        <4>4. QED
          BY <1>12, <4>2, <4>3
      <3> HIDE DEF o, y, z, x
      <3>3. x \in o..(o + 2 * z - 1)
        BY <3>1, <3>2
      <3>4. QED
        BY <1>2, <2>2, <3>3 DEF Held, o, z, x
    <2>3. QED
      BY <2>1, <2>2 DEF IsDisassembled, Held
  <1>17. TargetsHeld'
    <2>1. ASSUME NEW k \in 1..Len(chunks'), NEW n \in 1..Shows(chunks'[k]),
                 InRom(Node(chunks'[k], n) + 1), Branches(Word16(Node(chunks'[k], n))),
                 InRom(Addr(Word16(Node(chunks'[k], n))))
          PROVE  Held(chunks', Addr(Word16(Node(chunks'[k], n))))
      <3>1. k \in 1..Len(chunks)
        BY <1>7, <2>1
      <3>2. CASE n \in 1..Shows(chunks[k]) /\ Node(chunks'[k], n) = Node(chunks[k], n)
        <4>1. Held(chunks, Addr(Word16(Node(chunks[k], n))))
          BY <1>2, <2>1, <3>1, <3>2 DEF HInv, TargetsHeld
        <4>2. QED
          BY <1>15, <3>2, <4>1
      <3>3. CASE k = t /\ n = Shows(f) + 1
        <4>1. Node(chunks'[k], n) = top.pc
          BY <1>1, <1>4, <3>3 DEF f, g
        <4>2. Word16(top.pc) = opcode
          BY <1>2, <2>1, <4>1 DEF OpcodesAt
        <4>3. QED
          BY <1>16, <2>1, <4>1, <4>2
      <3>4. \/ n \in 1..Shows(chunks[k]) /\ Node(chunks'[k], n) = Node(chunks[k], n)
            \/ k = t /\ n = Shows(f) + 1
        <4>1. CASE k = t
          <5>1. n = Shows(f) + 1 \/ n \in 1..Shows(f)
            BY <1>6, <2>1, <4>1 DEF g
          <5>2. QED
            BY <1>1, <4>1, <5>1 DEF f, g
        <4>2. CASE k # t
          <5>1. chunks'[k] = chunks[k]
            BY <1>2, <3>1, <4>2
          <5>2. QED
            BY <2>1, <5>1
        <4>3. QED
          BY <4>1, <4>2
      <3>5. QED
        BY <3>2, <3>3, <3>4
    <2>2. Held(chunks', Entry)
      BY <1>2, <1>15 DEF HInv, TargetsHeld
    <2>3. QED
      BY <1>2, <2>1, <2>2, RomStays DEF TargetsHeld
  <1>18. QED
    BY <1>13, <1>14, <1>17

\* Whatever the sizes are, the same texts hold the same targets.
LEMMA TextsStay ==
  ASSUME TextInOrder, TargetsHeld, rom' = rom, Len(chunks') = Len(chunks),
         \A k \in 1..Len(chunks) : chunks'[k].text = chunks[k].text /\ chunks'[k].offset = chunks[k].offset
  PROVE  TextInOrder' /\ TargetsHeld'
  <1>1. \A k \in 1..Len(chunks) : /\ Shows(chunks'[k]) = Shows(chunks[k])
                                  /\ \A n : Node(chunks'[k], n) = Node(chunks[k], n)
    BY DEF Shows, Node
  <1>2. \A x : Held(chunks, x) => Held(chunks', x)
    BY <1>1 DEF Held
  <1>3. ASSUME NEW k \in 1..Len(chunks'), NEW n \in 1..Shows(chunks'[k])
        PROVE  /\ chunks'[k].text[n] = Node(chunks'[k], n) /\ InRom(Node(chunks'[k], n))
               /\ (/\ InRom(Node(chunks'[k], n) + 1) /\ Branches(Word16(Node(chunks'[k], n)))
                   /\ InRom(Addr(Word16(Node(chunks'[k], n))))) =>
                      Held(chunks', Addr(Word16(Node(chunks'[k], n))))
    <2>1. k \in 1..Len(chunks) /\ n \in 1..Shows(chunks[k])
      BY <1>1, <1>3
    <2>2. Node(chunks'[k], n) = Node(chunks[k], n) /\ chunks'[k].text[n] = chunks[k].text[n]
      BY <1>1, <2>1
    <2>3. chunks[k].text[n] = Node(chunks[k], n) /\ InRom(Node(chunks[k], n))
      BY <2>1 DEF TextInOrder
    <2>4. (/\ InRom(Node(chunks[k], n) + 1) /\ Branches(Word16(Node(chunks[k], n)))
           /\ InRom(Addr(Word16(Node(chunks[k], n))))) =>
              Held(chunks', Addr(Word16(Node(chunks[k], n))))
      BY <1>2, <2>1 DEF TargetsHeld
    <2>5. QED
      BY <2>2, <2>3, <2>4
  <1>4. Held(chunks', Entry)
    BY <1>2 DEF TargetsHeld
  <1>5. TextInOrder'
    BY <1>3, RomStays DEF TextInOrder
  <1>6. TargetsHeld'
    BY <1>3, <1>4, RomStays DEF TargetsHeld
  <1>7. QED
    BY <1>5, <1>6

\* A call returns when its chunk is complete.
LEMMA ReturnKeepsCover ==
  ASSUME HInv, status = "running", ReturnFromChunk,
         \/ top.at = "printed" /\ Ended(top.pc, top.opcode)
         \/ top.at = "read" /\ ~InRom(top.pc)
  PROVE  /\ status' = "done" => frames' = <<>>
         /\ TextInOrder' /\ Placed' /\ Sized' /\ Complete' /\ TargetsHeld'
  <1> DEFINE d == Len(frames)
  <1>1. /\ rom' = rom /\ chunks' = chunks /\ frames' = SubSeq(frames, 1, d - 1)
        /\ status' = IF d = 1 THEN "done" ELSE status
        /\ status # "crashed"
    BY DEF ReturnFromChunk
  <1>2. /\ frames \in Seq(Frames(Len(chunks))) /\ d \in Nat \ {0} /\ d \in 1..d
        /\ frames # <<>> /\ top = frames[d] /\ top.chunk \in 1..Len(chunks)
    BY TypeTo, TopType DEF HInv, DInv, top
  <1>3. /\ frames' \in Seq(Frames(Len(chunks))) /\ Len(frames') = d - 1
        /\ \A a \in 1..(d - 1) : frames'[a] = frames[a]
    BY <1>1, <1>2, DropLast
  <1>4. TextInOrder /\ Placed /\ Sized /\ Complete /\ TargetsHeld
    BY <1>1 DEF HInv
  <1>5. frames[d].at = "printed" =>
           /\ Shows(chunks[top.chunk]) # 0
           /\ top.pc = Node(chunks[top.chunk], Shows(chunks[top.chunk]))
           /\ top.opcode \in OpcodesAt(top.pc)
    BY <1>2, <1>4 DEF Placed
  <1>6. frames[d].at = "read" =>
           top.pc = NextOf(chunks[top.chunk])
    BY <1>2, <1>4 DEF Placed
  <1>7. \A a \in 1..d : frames[a].at = "read" => a = d
    BY <1>4 DEF Placed
  <1> HIDE DEF d
  <1>8. /\ 1..(d - 1) \subseteq 1..d /\ (\A a \in 1..d : a = d \/ a \in 1..(d - 1))
        /\ \A a \in 1..(d - 1) : a # d
        /\ (d = 1 => frames' = <<>>)
    BY <1>2, <1>3
  <1>9. status' = "done" => frames' = <<>>
    BY <1>1, <1>8
  <1>10. TextInOrder' /\ TargetsHeld'
    BY <1>1, <1>4, TextsStay
  <1>11. Placed'
    <2>1. ASSUME NEW a \in 1..(d - 1)
          PROVE  LET c == chunks[frames[a].chunk] IN
                 /\ frames[a].at # "read"
                 /\ frames[a].at = "printed" =>
                       /\ Shows(c) # 0 /\ frames[a].pc = Node(c, Shows(c))
                       /\ frames[a].opcode \in OpcodesAt(frames[a].pc)
                       /\ c.size <= 2 * (Shows(c) - 1)
      BY <1>4, <1>7, <1>8, <2>1 DEF Placed, d
    <2>2. QED
      BY <1>1, <1>3, <2>1, RomStays DEF Placed
  <1>12. Sized'
    <2>1. ASSUME NEW k \in 1..Len(chunks)
          PROVE  LET c == chunks[k] IN
                 /\ c.size <= 2 * Shows(c)
                 /\ c.size <= 2 * (Shows(c) - 1) \/ ~InRom(NextOf(c))
      <3>1. CASE \E a \in 1..d : frames[a].chunk = k /\ frames[a].at = "read"
        <4>1. k = top.chunk /\ top.at = "read"
          BY <1>2, <1>7, <3>1
        <4>2. ~InRom(NextOf(chunks[k]))
          BY <1>2, <1>6, <4>1
        <4>3. QED
          BY <1>4, <2>1, <4>2 DEF Sized
      <3>2. CASE ~\E a \in 1..d : frames[a].chunk = k /\ frames[a].at = "read"
        BY <1>4, <2>1, <3>2 DEF Sized, d
      <3>3. QED
        BY <3>1, <3>2
    <2>2. QED
      BY <1>1, <1>3, <2>1, RomStays DEF Sized
  <1>13. Complete'
    <2>1. ASSUME NEW k \in 1..Len(chunks), \A a \in 1..(d - 1) : frames'[a].chunk # k
          PROVE  LET c == chunks[k] IN
                 \/ ~InRom(NextOf(c))
                 \/ /\ Shows(c) # 0
                    /\ \E o \in OpcodesAt(Node(c, Shows(c))) : Ended(Node(c, Shows(c)), o)
      <3>1. CASE k = top.chunk
        BY <1>2, <1>5, <1>6, <3>1
      <3>2. CASE k # top.chunk
        <4>1. \A a \in 1..d : frames[a].chunk # k
          BY <1>2, <1>3, <1>8, <2>1, <3>2
        <4>2. QED
          BY <1>4, <2>1, <4>1 DEF Complete, d
      <3>3. QED
        BY <3>1, <3>2
    <2>2. QED
      BY <1>1, <1>3, <2>1, RomStays DEF Complete
  <1>14. QED
    BY <1>9, <1>10, <1>11, <1>12, <1>13

LEMMA ModuloIsLess ==
  ASSUME NEW x \in Nat, NEW m \in Nat \ {0}
  PROVE  x % m <= x
  <1>1. CASE x < m
    BY <1>1
  <1>2. CASE ~(x < m)
    <2>1. x % m \in 0..(m - 1)
      OBVIOUS
    <2>2. QED
      BY <1>2, <2>1
  <1>3. QED
    BY <1>1, <1>2

LEMMA AdvanceKeepsCover ==
  ASSUME HInv, Advance
  PROVE  TextInOrder' /\ Placed' /\ Sized' /\ Complete' /\ TargetsHeld'
  <1> DEFINE e == [top EXCEPT !.pc = Ahead(top.pc, 2), !.at = "read"]
             d == Len(frames)
             t == top.chunk
             f == chunks[t]
             g == [f EXCEPT !.size = (f.size + 2) % SizeRange]
  <1>1. /\ status = "running" /\ top.at = "printed" /\ rom' = rom /\ status' = status
        /\ frames' = SetTop(e) /\ chunks' = [chunks EXCEPT ![t].size = (@ + 2) % SizeRange]
    BY DEF Advance, Running
  <1>2. /\ frames \in Seq(Frames(Len(chunks))) /\ d \in Nat \ {0} /\ d \in 1..d
        /\ frames # <<>> /\ top = frames[d] /\ t \in 1..Len(chunks) /\ f \in Chunks
        /\ top \in Frames(Len(chunks)) /\ chunks \in Seq(Chunks)
    BY <1>1, TypeTo, TopType DEF HInv, DInv, top
  <1>3. TextInOrder /\ Placed /\ Sized /\ Complete /\ TargetsHeld
    BY <1>1 DEF HInv
  <1>4. /\ chunks' = [chunks EXCEPT ![t] = g] /\ g.offset = f.offset /\ g.text = f.text
        /\ g.size = (f.size + 2) % SizeRange
    BY <1>1, <1>2 DEF Chunks
  <1>5. /\ frames' = [frames EXCEPT ![d] = e] /\ e.chunk = t /\ e.at = "read" /\ e.pc = Ahead(top.pc, 2)
    BY <1>1, <1>2 DEF SetTop, Frames
  <1>6. /\ Shows(f) # 0 /\ top.pc = Node(f, Shows(f)) /\ f.size <= 2 * (Shows(f) - 1)
    BY <1>1, <1>2, <1>3 DEF Placed
  <1>7. /\ Shows(f) \in Nat /\ f.offset \in Nat /\ f.size \in Nat
        /\ \A a \in 1..d : frames[a].chunk \in 1..Len(chunks)
        /\ \A a, b \in 1..d : a # b => frames[a].chunk # frames[b].chunk
    BY <1>2, ListFacts DEF HInv
  <1> HIDE DEF d, e, t, f, g
  <1>8. /\ Len(frames') = d /\ frames'[d] = e /\ \A a \in 1..d : a # d => frames'[a] = frames[a]
    BY <1>2, <1>5 DEF d
  <1>9. /\ Len(chunks') = Len(chunks) /\ chunks'[t] = g
        /\ \A k \in 1..Len(chunks) : k # t => chunks'[k] = chunks[k]
    BY <1>2, <1>4
  <1>10. g.size <= 2 * Shows(g) /\ Shows(g) = Shows(f)
         /\ Ahead(top.pc, 2) = NextOf(g)
    <2>1. g.size <= f.size + 2 /\ g.size \in Int
      <3>1. SizeRange \in Nat \ {0}
        BY DisasmAssumption
      <3>2. f.size + 2 \in Nat
        BY <1>7
      <3>3. (f.size + 2) % SizeRange <= f.size + 2
        BY <3>1, <3>2, ModuloIsLess
      <3>4. (f.size + 2) % SizeRange \in Int
        BY <3>1, <3>2
      <3>5. QED
        BY <1>4, <3>3, <3>4
    <2>2. Shows(g) = Shows(f)
      BY <1>4 DEF Shows
    <2>3. f.size + 2 <= 2 * Shows(f)
      BY <1>6, <1>7
    <2>4. Ahead(top.pc, 2) = NextOf(g)
      <3>1. top.pc + 2 = g.offset + 2 * Shows(g)
        BY <1>4, <1>6, <1>7, <2>2 DEF Node
      <3>2. QED
        BY <3>1 DEF NextOf, Ahead
    <2>5. QED
      BY <1>7, <2>1, <2>2, <2>3, <2>4
  <1>11. \A k \in 1..Len(chunks) : /\ chunks'[k].text = chunks[k].text
                                   /\ Shows(chunks'[k]) = Shows(chunks[k])
                                   /\ chunks'[k].offset = chunks[k].offset
                                   /\ NextOf(chunks'[k]) = NextOf(chunks[k])
                                   /\ \A n : Node(chunks'[k], n) = Node(chunks[k], n)
    BY <1>4, <1>9 DEF Shows, Node, NextOf, f
  <1>12. /\ \A a \in 1..d : a # d => frames[a].chunk # t /\ frames[a].at # "read"
         /\ \A a \in 1..d : frames'[a].chunk = frames[a].chunk
         /\ frames[d].chunk = t
    <2>1. \A a \in 1..d : frames[a].at = "read" => a = d
      BY <1>3 DEF Placed, d
    <2>2. frames[d].chunk = t
      BY <1>2 DEF t
    <2>3. QED
      BY <1>2, <1>5, <1>7, <1>8, <2>1, <2>2
  <1>13. TextInOrder' /\ TargetsHeld'
    BY <1>1, <1>3, <1>9, <1>11, TextsStay
  <1>14. Placed'
    <2>1. ASSUME NEW a \in 1..d
          PROVE  LET c == chunks'[frames'[a].chunk] IN
                 /\ frames'[a].at = "read" => a = d /\ frames'[a].pc = NextOf(c)
                 /\ frames'[a].at = "printed" =>
                       /\ Shows(c) # 0 /\ frames'[a].pc = Node(c, Shows(c))
                       /\ frames'[a].opcode \in OpcodesAt(frames'[a].pc)
                       /\ c.size <= 2 * (Shows(c) - 1)
      <3>1. CASE a = d
        BY <1>5, <1>8, <1>9, <1>10, <3>1
      <3>2. CASE a # d
        <4>1. frames'[a] = frames[a] /\ chunks'[frames[a].chunk] = chunks[frames[a].chunk]
              /\ frames[a].at # "read"
          BY <1>7, <1>8, <1>9, <1>12, <2>1, <3>2
        <4>2. QED
          BY <1>3, <2>1, <4>1 DEF Placed, d
      <3>3. QED
        BY <3>1, <3>2
    <2>2. QED
      BY <1>1, <1>8, <2>1, RomStays DEF Placed
  <1>15. Sized'
    <2>1. ASSUME NEW k \in 1..Len(chunks)
          PROVE  LET c == chunks'[k] IN
                 /\ c.size <= 2 * Shows(c)
                 /\ \/ c.size <= 2 * (Shows(c) - 1)
                    \/ ~InRom(NextOf(c))
                    \/ \E a \in 1..d : frames'[a].chunk = k /\ frames'[a].at = "read"
      <3>1. CASE k = t
        BY <1>2, <1>5, <1>8, <1>9, <1>10, <3>1
      <3>2. CASE k # t
        <4>1. ~\E a \in 1..d : frames[a].chunk = k /\ frames[a].at = "read"
          BY <1>12, <3>2
        <4>2. chunks'[k] = chunks[k]
          BY <1>9, <2>1, <3>2
        <4>3. QED
          BY <1>3, <2>1, <4>1, <4>2 DEF Sized, d
      <3>3. QED
        BY <3>1, <3>2
    <2>2. QED
      BY <1>1, <1>8, <1>9, <2>1, RomStays DEF Sized
  <1>16. Complete'
    <2>1. ASSUME NEW k \in 1..Len(chunks)
          PROVE  \/ \E a \in 1..d : frames[a].chunk = k
                 \/ ~InRom(NextOf(chunks[k]))
                 \/ /\ Shows(chunks[k]) # 0
                    /\ \E o \in OpcodesAt(Node(chunks[k], Shows(chunks[k]))) :
                           Ended(Node(chunks[k], Shows(chunks[k])), o)
      BY <1>3 DEF Complete, d
    <2>2. QED
      BY SMTT(30), <1>1, <1>8, <1>9, <1>11, <1>12, <2>1, RomStays DEF Complete
  <1>17. QED
    BY <1>13, <1>14, <1>15, <1>16

THEOREM HInvInit == Init => HInv
  <1> SUFFICES ASSUME Init PROVE HInv
    OBVIOUS
  <1>1. DInv
    BY DInvInit
  <1>2. Entry \in Word /\ Entry \in Nat
    BY WordRange DEF Entry, WordSize
  <1>3. Chunk(Entry).offset = Entry /\ Chunk(Entry).size = 0 /\ Shows(Chunk(Entry)) = 0
    BY <1>2, ChunkType DEF Shows, Chunk
  <1>4. Frame(1, Entry).chunk = 1 /\ Frame(1, Entry).pc = Entry /\ Frame(1, Entry).at = "read"
    BY <1>2, FrameType
  <1>5. /\ chunks = << Chunk(Entry) >> /\ frames = << Frame(1, Entry) >> /\ status = "running"
    BY DEF Init
  <1>6. /\ Len(chunks) = 1 /\ Len(frames) = 1 /\ chunks[1] = Chunk(Entry)
        /\ frames[1] = Frame(1, Entry) /\ 1..1 = {1}
    BY <1>5
  <1>7. 1..Shows(Chunk(Entry)) = {} /\ NextOf(Chunk(Entry)) = Entry
    BY <1>2, <1>3, AheadZero DEF NextOf
  <1>8. TextInOrder /\ Placed /\ Sized /\ Complete
    BY <1>3, <1>4, <1>6, <1>7 DEF TextInOrder, Placed, Sized, Complete
  <1>9. TargetsHeld
    BY <1>3, <1>6, <1>7 DEF TargetsHeld, Held
  <1>10. QED
    BY <1>1, <1>5, <1>8, <1>9 DEF HInv

THEOREM HInvStep == HInv /\ [Next]_vars => HInv'
  <1> SUFFICES ASSUME HInv, [Next]_vars PROVE HInv'
    OBVIOUS
  <1>1. DInv /\ DInv'
    BY DInvStep DEF HInv
  <1>2. CASE Disassemble
    <2>1. status' = "crashed" \/ \E opcode \in Word : Printing(opcode)
      BY <1>1, <1>2, DisassemblePrints
    <2>2. CASE status' = "crashed"
      BY <1>1, <2>2 DEF HInv
    <2>3. ASSUME NEW opcode \in Word, Printing(opcode) PROVE HInv'
      <3>1. status' = "running"
        BY <2>3 DEF Printing
      <3>2. TextInOrder' /\ Placed'
        BY <2>3, PrintingKeepsOrder
      <3>3. Sized' /\ Complete' /\ TargetsHeld'
        BY <1>1, <2>3, <3>2, PrintingKeepsCover
      <3>4. QED
        BY <1>1, <3>1, <3>2, <3>3 DEF HInv
    <2>4. QED
      BY <2>1, <2>2, <2>3
  <1>3. CASE EndAtJump
    BY <1>1, <1>3, ReturnKeepsCover DEF EndAtJump, Running, Ended, HInv
  <1>4. CASE EndOfRom
    BY <1>1, <1>4, ReturnKeepsCover DEF EndOfRom, Running, HInv
  <1>5. CASE Advance
    <2>1. status' = "running"
      BY <1>5 DEF Advance, Running
    <2>2. QED
      BY <1>1, <1>5, <2>1, AdvanceKeepsCover DEF HInv
  <1>6. CASE PrintChunk \/ UNCHANGED vars
    <2>1. rom' = rom /\ chunks' = chunks /\ frames' = frames /\ status' = status
      BY <1>6 DEF PrintChunk, vars
    <2>2. status # "crashed" => TextInOrder' /\ TargetsHeld'
      BY <2>1, TextsStay DEF HInv
    <2>3. status # "crashed" => Placed'
      BY <2>1, RomStays DEF HInv, Placed
    <2>4. status # "crashed" => Sized'
      BY <2>1, RomStays DEF HInv, Sized
    <2>5. status # "crashed" => Complete'
      BY <2>1, RomStays DEF HInv, Complete
    <2>6. QED
      BY <1>1, <2>1, <2>2, <2>3, <2>4, <2>5 DEF HInv
  <1>7. QED
    BY <1>2, <1>3, <1>4, <1>5, <1>6 DEF Next

\* Whatever file is disassembled, of whatever length: when it is done, every instruction
\* that execution can reach from 0x200 is printed, if what is reached and where chunks
\* start are even addresses only, except what is reached only over a jump or return
\* behind skip_key_down or skip_key_up.
THEOREM ReachCorrect == Spec => []ReachableIsPrinted
  <1>1. QED
    BY HInvInit, HInvStep, ReachableShown, PTL DEF Spec

=============================================================================
