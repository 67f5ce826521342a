------------------------------ MODULE GrabProofs ------------------------------
(***************************************************************************)
(* TLAPS proofs about grabFunc, for every set of ROMs and tables of every    *)
(* size.                                                                   *)
(***************************************************************************)
EXTENDS Grab, Lemmas

Entries == [offset : Word, opcodes : Seq(Word)]
Frames(n) == [func : 1..n, pc : Word, opcode : Word, at : {"read", "stored"}]

-----------------------------------------------------------------------------
(* What the operators of Grab return.                                      *)

LEMMA RomType ==
  ASSUME rom \in Roms
  PROVE  rom \in Seq(Byte) /\ romSize \in Nat /\ romSize <= RamSize - Entry
  BY RomsAssumption DEF romSize

LEMMA WordOfBytes ==
  ASSUME NEW hi \in Byte, NEW lo \in Byte
  PROVE  hi * 256 + lo \in Word
  <1>1. hi * 256 + lo \in Int /\ 0 <= hi * 256 + lo /\ hi * 256 + lo < WordSize
    BY DEF Byte, WordSize
  <1>2. WordSize \in Int
    BY DEF WordSize
  <1>3. QED
    BY <1>1, <1>2 DEF Word

LEMMA OpcodesType ==
  ASSUME rom \in Roms, NEW pc, InRom(pc)
  PROVE  OpcodesAt(pc) \subseteq Word
  <1>1. pc \in 0..(romSize - 1) /\ rom[pc + 1] \in Byte
    BY RomType DEF InRom, romSize
  <1>2. CASE InRom(pc + 1)
    <2>1. rom[pc + 2] \in Byte
      BY <1>1, <1>2, RomType DEF InRom, romSize
    <2>2. QED
      BY <1>1, <1>2, <2>1, WordOfBytes DEF OpcodesAt, Word16
  <1>3. CASE ~InRom(pc + 1)
    BY <1>1, <1>3, WordOfBytes DEF OpcodesAt
  <1>4. QED
    BY <1>2, <1>3

LEMMA TargetType ==
  ASSUME NEW opcode \in Word
  PROVE  TargetOf(opcode) \in Word
  <1>1. Addr(opcode) - Entry \in Int
    BY WordRange DEF Addr, WordSize, Entry
  <1>2. WordSize \in Nat \ {0}
    BY DEF WordSize
  <1>3. \A n \in Int, m \in Nat \ {0} : n % m \in 0..(m - 1)
    OBVIOUS
  <1>4. QED
    BY <1>1, <1>2, <1>3 DEF TargetOf, Word

-----------------------------------------------------------------------------
(* The inductive invariant.                                                *)

\* Only the innermost call can still be without an opcode, before it has read its
\* first: for a moment its function cannot be recognised by its size.
EmptyIsTop ==
    \A k \in DOMAIN funcs : (funcs[k].opcodes = <<>> /\ InRom(funcs[k].offset)) =>
        frames # <<>> /\ top.func = k /\ top.at = "read" /\ top.pc = funcs[k].offset

\* Only an opcode inside the ROM is ever stored.
StoredInRom == \A a \in DOMAIN frames : frames[a].at = "stored" => InRom(frames[a].pc)

GInv == rom \in Roms /\ TypeOK /\ GrabbedOnce /\ EmptyIsTop /\ StoredInRom

LEMMA TopType ==
  ASSUME TypeOK, status = "grabbing"
  PROVE  /\ DOMAIN funcs = 1..Len(funcs) /\ Len(funcs) \in Nat
         /\ frames \in Seq(Frames(Len(funcs)))
         /\ frames # <<>> /\ Len(frames) \in 1..Len(frames) /\ Len(frames) \in Nat \ {0}
         /\ top \in Frames(Len(funcs)) /\ top.func \in 1..Len(funcs)
         /\ funcs[top.func] \in Entries
  <1>1. funcs \in Seq(Entries) /\ DOMAIN funcs = 1..Len(funcs) /\ Len(funcs) \in Nat
    BY DEF TypeOK, Entries
  <1>2. frames \in Seq(Frames(Len(funcs))) /\ frames # <<>>
    BY <1>1 DEF TypeOK, Frames
  <1>3. Len(frames) \in 1..Len(frames) /\ Len(frames) \in Nat \ {0}
    BY <1>2, LastIndex
  <1>4. top \in Frames(Len(funcs))
    BY <1>2, <1>3, ElementOfSeq DEF top
  <1>5. top.func \in 1..Len(funcs)
    BY <1>4 DEF Frames
  <1>6. funcs[top.func] \in Entries
    BY <1>1, <1>5, ElementOfSeq
  <1>7. QED
    BY <1>1, <1>2, <1>3, <1>4, <1>5, <1>6

\* Changing the innermost frame within its function.
LEMMA SetTopType ==
  ASSUME TypeOK, status = "grabbing", NEW f \in Frames(Len(funcs)), f.func = top.func
  PROVE  /\ SetTop(f) \in Seq(Frames(Len(funcs)))
         /\ Len(SetTop(f)) = Len(frames)
         /\ SetTop(f)[Len(frames)] = f
         /\ \A a \in 1..(Len(frames) - 1) : SetTop(f)[a] = frames[a]
         /\ \A a \in 1..Len(frames) : SetTop(f)[a].func = frames[a].func
  <1>1. frames \in Seq(Frames(Len(funcs))) /\ frames # <<>> /\ Len(frames) \in Nat \ {0}
    BY TopType
  <1>2. /\ SetTop(f) \in Seq(Frames(Len(funcs)))
        /\ Len(SetTop(f)) = Len(frames)
        /\ SetTop(f)[Len(frames)] = f
        /\ \A a \in 1..(Len(frames) - 1) : SetTop(f)[a] = frames[a]
    BY <1>1, SetLast DEF SetTop
  <1>3. \A a \in 1..Len(frames) : a = Len(frames) \/ a \in 1..(Len(frames) - 1)
    BY <1>1
  <1>4. QED
    BY <1>2, <1>3 DEF top

\* Storing an opcode: the other functions stay, and this one has an opcode.
LEMMA GrownType ==
  ASSUME TypeOK, status = "grabbing", HasRoom, NEW opcode \in Word
  PROVE  /\ Grown(opcode) \in Seq(Entries)
         /\ Len(Grown(opcode)) = Len(funcs)
         /\ DOMAIN Grown(opcode) = DOMAIN funcs
         /\ \A k \in DOMAIN funcs : /\ Grown(opcode)[k].offset = funcs[k].offset
                                    /\ Len(Grown(opcode)[k].opcodes) <= MaxSize
                                    /\ k # top.func => Grown(opcode)[k] = funcs[k]
         /\ Grown(opcode)[top.func].opcodes # <<>>
  <1> DEFINE t == top.func
             e == [funcs[t] EXCEPT !.opcodes = Append(@, opcode)]
  <1>1. funcs \in Seq(Entries) /\ t \in 1..Len(funcs) /\ funcs[t] \in Entries
        /\ DOMAIN funcs = 1..Len(funcs)
    BY TopType DEF TypeOK, Entries
  <1>2. funcs[t].opcodes \in Seq(Word) /\ funcs[t].offset \in Word
    BY <1>1 DEF Entries
  <1>3. /\ Append(funcs[t].opcodes, opcode) \in Seq(Word)
        /\ Append(funcs[t].opcodes, opcode) # <<>>
        /\ Len(Append(funcs[t].opcodes, opcode)) = Len(funcs[t].opcodes) + 1
    BY <1>2, AppendProperties
  <1>4. e \in Entries /\ e.offset = funcs[t].offset /\ e.opcodes = Append(funcs[t].opcodes, opcode)
    BY <1>1, <1>2, <1>3 DEF Entries
  <1>5. Len(e.opcodes) <= MaxSize
    BY <1>2, <1>3, <1>4, GrabAssumption DEF HasRoom
  <1>6. Grown(opcode) = [funcs EXCEPT ![t] = e]
    BY DEF Grown
  <1> HIDE DEF t, e
  <1>7. /\ Grown(opcode) \in Seq(Entries)
        /\ Len(Grown(opcode)) = Len(funcs)
        /\ \A k \in 1..Len(funcs) : Grown(opcode)[k] = IF k = t THEN e ELSE funcs[k]
    BY <1>1, <1>4, <1>6, ExceptSeq
  <1>8. DOMAIN Grown(opcode) = DOMAIN funcs
    BY <1>1, <1>7
  <1>9. \A k \in DOMAIN funcs : Len(funcs[k].opcodes) <= MaxSize
    BY DEF TypeOK
  <1>10. QED
    BY <1>1, <1>3, <1>4, <1>5, <1>7, <1>8, <1>9 DEF t

\* TypeOK without the conjuncts that are about the shape of sequences only.
LEMMA TypeFrom ==
  ASSUME funcs \in Seq(Entries), Len(funcs) <= MaxFuncs,
         \A k \in DOMAIN funcs : Len(funcs[k].opcodes) <= MaxSize,
         frames \in Seq(Frames(Len(funcs))),
         \A a, b \in 1..Len(frames) : a < b => frames[a].func < frames[b].func,
         status = "grabbing" => frames # <<>>,
         status \in {"grabbing", "grabbed", "wild"}
  PROVE  TypeOK
  <1>1. DOMAIN funcs = 1..Len(funcs) /\ DOMAIN frames = 1..Len(frames)
    OBVIOUS
  <1>2. QED
    BY <1>1 DEF TypeOK, Entries, Frames

\* And back.
LEMMA TypeTo ==
  ASSUME TypeOK
  PROVE  /\ funcs \in Seq(Entries) /\ Len(funcs) <= MaxFuncs
         /\ DOMAIN funcs = 1..Len(funcs) /\ Len(funcs) \in Nat
         /\ \A k \in DOMAIN funcs : Len(funcs[k].opcodes) <= MaxSize
         /\ frames \in Seq(Frames(Len(funcs)))
         /\ DOMAIN frames = 1..Len(frames) /\ Len(frames) \in Nat
         /\ \A a, b \in 1..Len(frames) : a < b => frames[a].func < frames[b].func
  <1>1. funcs \in Seq(Entries) /\ DOMAIN funcs = 1..Len(funcs)
    BY DEF TypeOK, Entries
  <1>2. frames \in Seq(Frames(Len(funcs))) /\ DOMAIN frames = 1..Len(frames)
    BY <1>1 DEF TypeOK, Frames
  <1>3. Len(funcs) \in Nat /\ Len(frames) \in Nat
    BY <1>1, <1>2
  <1>4. /\ Len(funcs) <= MaxFuncs
        /\ \A k \in DOMAIN funcs : Len(funcs[k].opcodes) <= MaxSize
        /\ \A a, b \in DOMAIN frames : a < b => frames[a].func < frames[b].func
    BY DEF TypeOK
  <1>5. QED
    BY <1>1, <1>2, <1>3, <1>4

LEMMA FuncType ==
  ASSUME NEW offset \in Word
  PROVE  Func(offset) \in Entries /\ Func(offset).offset = offset /\ Func(offset).opcodes = <<>>
         /\ Len(Func(offset).opcodes) = 0
  <1>1. <<>> \in Seq(Word) /\ Len(<<>>) = 0
    BY EmptySeq
  <1>2. QED
    BY <1>1 DEF Func, Entries

LEMMA FrameType ==
  ASSUME NEW n \in Nat \ {0}, NEW k \in 1..n, NEW offset \in Word
  PROVE  Frame(k, offset) \in Frames(n) /\ Frame(k, offset).func = k
         /\ Frame(k, offset).pc = offset /\ Frame(k, offset).at = "read"
  <1>1. 0 \in Word
    BY WordRange DEF WordSize
  <1>2. QED
    BY <1>1 DEF Frame, Frames

THEOREM GInvInit == Init => GInv
  <1> SUFFICES ASSUME Init PROVE GInv
    OBVIOUS
  <1>1. 0 \in Word
    BY WordRange DEF WordSize
  <1>2. Func(0) \in Entries /\ Func(0).offset = 0 /\ Len(Func(0).opcodes) = 0
    BY <1>1, FuncType
  <1>3. Frame(1, 0) \in Frames(1) /\ Frame(1, 0).func = 1
        /\ Frame(1, 0).pc = 0 /\ Frame(1, 0).at = "read"
    BY <1>1, FrameType
  <1>4. funcs = << Func(0) >> /\ frames = << Frame(1, 0) >> /\ status = "grabbing"
    BY DEF Init
  <1>5. funcs \in Seq(Entries) /\ Len(funcs) = 1 /\ funcs[1] = Func(0)
    BY <1>2, <1>4
  <1>6. frames \in Seq(Frames(1)) /\ Len(frames) = 1 /\ frames[1] = Frame(1, 0) /\ frames # <<>>
    BY <1>3, <1>4
  <1>7. DOMAIN funcs = {1} /\ DOMAIN frames = {1}
    BY <1>5, <1>6
  <1>8. Len(funcs) <= MaxFuncs /\ 0 <= MaxSize
    BY <1>5, GrabAssumption
  <1>9. \A a, b \in 1..Len(frames) : a < b => frames[a].func < frames[b].func
    BY <1>6
  <1>10. TypeOK
    BY <1>2, <1>4, <1>5, <1>6, <1>7, <1>8, <1>9, TypeFrom
  <1>11. GrabbedOnce
    BY <1>7 DEF GrabbedOnce
  <1>12. EmptyIsTop
    BY <1>2, <1>3, <1>5, <1>6, <1>7 DEF EmptyIsTop, top
  <1>13. StoredInRom
    BY <1>3, <1>6, <1>7 DEF StoredInRom
  <1>14. QED
    BY <1>10, <1>11, <1>12, <1>13 DEF GInv, Init

-----------------------------------------------------------------------------
(* Every step keeps it.                                                    *)

LEMMA StoredType ==
  ASSUME TypeOK, status = "grabbing", NEW opcode \in Word
  PROVE  /\ Stored(opcode) \in Seq(Frames(Len(funcs)))
         /\ Len(Stored(opcode)) = Len(frames)
         /\ \A a \in 1..Len(frames) : Stored(opcode)[a].func = frames[a].func
         /\ \A a \in 1..(Len(frames) - 1) : Stored(opcode)[a] = frames[a]
         /\ Stored(opcode)[Len(frames)].pc = top.pc
  <1> DEFINE f == [top EXCEPT !.opcode = opcode, !.at = "stored"]
  <1>1. f \in Frames(Len(funcs)) /\ f.func = top.func /\ f.pc = top.pc
    BY TopType DEF Frames
  <1>2. Stored(opcode) = SetTop(f)
    BY DEF Stored
  <1> HIDE DEF f
  <1>3. QED
    BY SMTT(30), <1>1, <1>2, SetTopType

LEMMA StoreOpcodeKeeps ==
  ASSUME GInv, StoreOpcode
  PROVE  GInv'
  <1>1. TypeOK /\ status = "grabbing" /\ rom \in Roms /\ rom' = rom /\ status' = status
        /\ InRom(top.pc) /\ HasRoom
    BY DEF GInv, StoreOpcode, Grabbing
  <1>2. PICK opcode \in OpcodesAt(top.pc) : funcs' = Grown(opcode) /\ frames' = Stored(opcode)
    BY DEF StoreOpcode
  <1>3. opcode \in Word
    BY <1>1, <1>2, OpcodesType
  <1>4. \A n : InRom(n)' <=> InRom(n)
    BY <1>1 DEF InRom, romSize
  <1>5. /\ funcs' \in Seq(Entries) /\ Len(funcs') = Len(funcs) /\ DOMAIN funcs' = DOMAIN funcs
        /\ \A k \in DOMAIN funcs : /\ funcs'[k].offset = funcs[k].offset
                                   /\ Len(funcs'[k].opcodes) <= MaxSize
                                   /\ k # top.func => funcs'[k] = funcs[k]
        /\ funcs'[top.func].opcodes # <<>>
    BY <1>1, <1>2, <1>3, GrownType
  <1>6. /\ frames' \in Seq(Frames(Len(funcs))) /\ Len(frames') = Len(frames)
        /\ \A a \in 1..Len(frames) : frames'[a].func = frames[a].func
        /\ \A a \in 1..(Len(frames) - 1) : frames'[a] = frames[a]
        /\ frames'[Len(frames)].pc = top.pc
    BY <1>1, <1>2, <1>3, StoredType
  <1>7. /\ DOMAIN funcs = 1..Len(funcs) /\ Len(funcs) <= MaxFuncs
        /\ DOMAIN frames = 1..Len(frames) /\ Len(frames) \in Nat \ {0}
        /\ \A a, b \in 1..Len(frames) : a < b => frames[a].func < frames[b].func
    BY <1>1, TypeTo, TopType
  <1>8. DOMAIN frames' = 1..Len(frames) /\ frames' # <<>>
    BY <1>6, <1>7
  <1>9. TypeOK'
    BY <1>1, <1>5, <1>6, <1>7, <1>8 DEF TypeOK, Entries, Frames
  <1>10. GrabbedOnce'
    BY <1>4, <1>5 DEF GInv, GrabbedOnce
  <1>11. EmptyIsTop'
    BY <1>4, <1>5 DEF GInv, EmptyIsTop
  <1>12. StoredInRom'
    BY <1>1, <1>4, <1>6, <1>7, <1>8, LastOrBefore DEF GInv, StoredInRom
  <1>13. QED
    BY <1>1, <1>9, <1>10, <1>11, <1>12 DEF GInv

\* A function whose offset is the target, and which has an opcode, is recognised:
\* the one exception to that, EmptyIsTop, has just stored its first.
LEMMA TargetIsNew ==
  ASSUME GInv, status = "grabbing", HasRoom, NEW opcode \in Word, Enters(opcode),
         NEW k \in DOMAIN funcs, InRom(funcs[k].offset)
  PROVE  funcs[k].offset # TargetOf(opcode)
  <1> DEFINE g == Grown(opcode)
  <1>1. /\ g \in Seq(Entries) /\ DOMAIN g = DOMAIN funcs /\ g[k].offset = funcs[k].offset
        /\ (k # top.func => g[k] = funcs[k]) /\ g[top.func].opcodes # <<>>
    BY GrownType DEF GInv
  <1>2. g[k].opcodes # <<>>
    BY <1>1 DEF GInv, EmptyIsTop
  <1> HIDE DEF g
  <1>3. g[k] \in Entries
    BY <1>1
  <1>4. g[k].opcodes \in Seq(Word) /\ g[k].offset \in Nat
    <2>1. g[k].opcodes \in Seq(Word) /\ g[k].offset \in Word
      BY <1>3 DEF Entries
    <2>2. Word \subseteq Nat
      BY WordRange DEF WordSize
    <2>3. QED
      BY <2>1, <2>2
  <1>5. Len(g[k].opcodes) \in Nat \ {0}
    BY <1>2, <1>4, EmptySeq
  <1>6. g[k].offset \in g[k].offset..(g[k].offset + Len(g[k].opcodes) - 1)
    BY <1>4, <1>5
  <1>7. IsGrabbed(g, g[k].offset)
    BY <1>1, <1>6 DEF IsGrabbed
  <1>8. ~IsGrabbed(g, TargetOf(opcode))
    BY DEF Enters, g
  <1>9. QED
    BY <1>1, <1>7, <1>8

LEMMA GrabTargetKeeps ==
  ASSUME GInv, GrabTarget
  PROVE  GInv'
  <1>1. TypeOK /\ status = "grabbing" /\ rom \in Roms /\ rom' = rom /\ status' = status
        /\ InRom(top.pc) /\ HasRoom
    BY DEF GInv, GrabTarget, Grabbing
  <1>2. PICK opcode \in OpcodesAt(top.pc) :
           /\ Enters(opcode) /\ Len(funcs) < MaxFuncs
           /\ funcs' = Append(Grown(opcode), Func(TargetOf(opcode)))
           /\ frames' = Append(Stored(opcode), Frame(Len(funcs) + 1, TargetOf(opcode)))
    BY DEF GrabTarget
  <1> DEFINE n == Len(funcs)
             d == Len(frames)
             t == TargetOf(opcode)
  <1>3. opcode \in Word /\ t \in Word
    BY <1>1, <1>2, OpcodesType, TargetType
  <1>4. \A pc : InRom(pc)' <=> InRom(pc)
    BY <1>1 DEF InRom, romSize
  <1>5. /\ DOMAIN funcs = 1..n /\ n \in Nat /\ n < MaxFuncs
        /\ DOMAIN frames = 1..d /\ d \in Nat \ {0}
        /\ frames \in Seq(Frames(n))
        /\ \A a, b \in 1..d : a < b => frames[a].func < frames[b].func
    BY <1>1, <1>2, TypeTo, TopType
  <1>6. Func(t) \in Entries /\ Func(t).offset = t /\ Func(t).opcodes = <<>> /\ Len(Func(t).opcodes) = 0
    BY <1>3, FuncType
  <1>7. Frame(n + 1, t) \in Frames(n + 1) /\ Frame(n + 1, t).func = n + 1
        /\ Frame(n + 1, t).pc = t /\ Frame(n + 1, t).at = "read"
    BY <1>3, <1>5, FrameType
  <1>8. /\ Grown(opcode) \in Seq(Entries) /\ Len(Grown(opcode)) = n
        /\ \A k \in 1..n : /\ Grown(opcode)[k].offset = funcs[k].offset
                           /\ Len(Grown(opcode)[k].opcodes) <= MaxSize
                           /\ k # top.func => Grown(opcode)[k] = funcs[k]
        /\ Grown(opcode)[top.func].opcodes # <<>>
    BY <1>1, <1>3, <1>5, GrownType
  <1>9. /\ Stored(opcode) \in Seq(Frames(n)) /\ Len(Stored(opcode)) = d
        /\ \A a \in 1..d : Stored(opcode)[a].func = frames[a].func
        /\ \A a \in 1..(d - 1) : Stored(opcode)[a] = frames[a]
        /\ Stored(opcode)[d].pc = top.pc
    BY <1>1, <1>3, StoredType
  <1> HIDE DEF n, d, t
  <1>10. /\ funcs' \in Seq(Entries) /\ Len(funcs') = n + 1 /\ funcs'[n + 1] = Func(t)
         /\ \A k \in 1..n : funcs'[k] = Grown(opcode)[k]
    BY <1>2, <1>6, <1>8, AddLast DEF t, n
  <1>11. Stored(opcode) \in Seq(Frames(n + 1))
    <2>1. Frames(n) \subseteq Frames(n + 1)
      BY <1>5 DEF Frames
    <2>2. QED
      BY <1>9, <2>1, SeqMonotonic
  <1>12. /\ frames' \in Seq(Frames(n + 1)) /\ Len(frames') = d + 1
         /\ frames'[d + 1] = Frame(n + 1, t)
         /\ \A a \in 1..d : frames'[a] = Stored(opcode)[a]
    BY <1>2, <1>7, <1>9, <1>11, AddLast DEF t, n
  <1>13. DOMAIN funcs' = 1..(n + 1) /\ DOMAIN frames' = 1..(d + 1) /\ frames' # <<>>
    BY <1>5, <1>10, <1>12
  <1>14. /\ \A k \in 1..(n + 1) : k = n + 1 \/ k \in 1..n
         /\ \A a \in 1..(d + 1) : a = d + 1 \/ a \in 1..d
         /\ \A a \in 1..d : a = d \/ a \in 1..(d - 1)
    BY <1>5
  <1>15. TypeOK'
    <2>1. Len(funcs') <= MaxFuncs
      BY <1>5, <1>10, GrabAssumption
    <2>2. \A k \in DOMAIN funcs' : Len(funcs'[k].opcodes) <= MaxSize
      BY <1>6, <1>8, <1>10, <1>13, <1>14, GrabAssumption
    <2>3. ASSUME NEW a \in 1..d PROVE frames[a].func \in 1..n
      <3>1. frames[a] \in Frames(n)
        BY <1>5, ElementOfSeq DEF d
      <3>2. QED
        BY <3>1 DEF Frames
    <2>4. \A a, b \in DOMAIN frames' : a < b => frames'[a].func < frames'[b].func
      BY <1>5, <1>7, <1>9, <1>12, <1>13, <1>14, <2>3
    <2>5. QED
      BY <1>1, <1>10, <1>12, <1>13, <2>1, <2>2, <2>4 DEF TypeOK, Entries, Frames
  <1>16. GrabbedOnce'
    <2>1. \A k \in 1..n : InRom(funcs[k].offset) => funcs[k].offset # t
      BY <1>1, <1>2, <1>3, <1>5, TargetIsNew DEF t
    <2>2. \A j, k \in 1..n :
             (j # k /\ InRom(funcs[j].offset)) => funcs[j].offset # funcs[k].offset
      BY <1>5 DEF GInv, GrabbedOnce
    <2>3. /\ \A k \in 1..n : funcs'[k].offset = funcs[k].offset
          /\ funcs'[n + 1].offset = t
      BY <1>6, <1>8, <1>10
    <2>4. QED
      BY <1>4, <1>13, <1>14, <2>1, <2>2, <2>3 DEF GrabbedOnce
  <1>17. EmptyIsTop'
    <2>1. ASSUME NEW k \in 1..n, InRom(funcs[k].offset) PROVE funcs'[k].opcodes # <<>>
      <3>1. funcs[k].opcodes # <<>> \/ k = top.func
        BY <1>5, <2>1 DEF GInv, EmptyIsTop
      <3>2. k # top.func => funcs'[k] = funcs[k]
        BY <1>8, <1>10
      <3>3. k = top.func => funcs'[k].opcodes # <<>>
        BY <1>8, <1>10
      <3>4. QED
        BY <3>1, <3>2, <3>3
    <2>2. top'.func = n + 1 /\ top'.at = "read" /\ top'.pc = t
      BY <1>7, <1>12 DEF top
    <2>3. QED
      BY <1>4, <1>6, <1>8, <1>10, <1>13, <1>14, <2>1, <2>2 DEF EmptyIsTop
  <1>18. StoredInRom'
    BY <1>1, <1>4, <1>5, <1>7, <1>9, <1>12, <1>13, <1>14 DEF GInv, StoredInRom
  <1>19. QED
    BY <1>1, <1>15, <1>16, <1>17, <1>18 DEF GInv

LEMMA LeaveTablesKeeps ==
  ASSUME GInv, LeaveTables
  PROVE  GInv'
  <1>1. rom' = rom /\ funcs' = funcs /\ frames' = frames /\ status' = "wild"
    BY DEF LeaveTables
  <1>2. \A pc : InRom(pc)' <=> InRom(pc)
    BY <1>1 DEF InRom, romSize
  <1>3. TypeOK'
    BY <1>1 DEF GInv, TypeOK
  <1>4. GrabbedOnce' /\ EmptyIsTop' /\ StoredInRom'
    BY <1>1, <1>2 DEF GInv, GrabbedOnce, EmptyIsTop, StoredInRom, top
  <1>5. QED
    BY <1>1, <1>3, <1>4 DEF GInv

\* A call returns when its function has an opcode, or lies outside the ROM.
LEMMA ReturnKeeps ==
  ASSUME GInv, status = "grabbing", ReturnFromGrab, top.at = "stored" \/ ~InRom(top.pc)
  PROVE  GInv'
  <1> DEFINE d == Len(frames)
  <1>1. TypeOK /\ rom' = rom /\ funcs' = funcs /\ frames' = SubSeq(frames, 1, d - 1)
        /\ status' = IF d = 1 THEN "grabbed" ELSE status
    BY DEF GInv, ReturnFromGrab
  <1>2. /\ DOMAIN frames = 1..d /\ d \in Nat \ {0} /\ frames # <<>>
        /\ frames \in Seq(Frames(Len(funcs)))
        /\ DOMAIN funcs = 1..Len(funcs)
        /\ \A a, b \in 1..d : a < b => frames[a].func < frames[b].func
    BY <1>1, TypeTo, TopType
  <1>3. \A pc : InRom(pc)' <=> InRom(pc)
    BY <1>1 DEF InRom, romSize
  <1>4. /\ frames' \in Seq(Frames(Len(funcs))) /\ Len(frames') = d - 1
        /\ \A a \in 1..(d - 1) : frames'[a] = frames[a]
    BY <1>1, <1>2, DropLast
  <1> HIDE DEF d
  <1>5. DOMAIN frames' = 1..(d - 1) /\ (d # 1 => frames' # <<>>) /\ 1..(d - 1) \subseteq 1..d
    BY <1>2, <1>4
  <1>6. TypeOK'
    <2>1. \A a, b \in DOMAIN frames' : a < b => frames'[a].func < frames'[b].func
      BY <1>2, <1>4, <1>5
    <2>2. frames' \in Seq([func : DOMAIN funcs', pc : Word, opcode : Word, at : {"read", "stored"}])
      BY <1>1, <1>2, <1>4 DEF Frames
    <2>3. (status' = "grabbing" => frames' # <<>>) /\ status' \in {"grabbing", "grabbed", "wild"}
      BY <1>1, <1>5
    <2>4. QED
      BY <1>1, <2>1, <2>2, <2>3 DEF TypeOK
  <1>7. GrabbedOnce'
    BY <1>1, <1>3 DEF GInv, GrabbedOnce
  <1>8. EmptyIsTop'
    BY <1>1, <1>3 DEF GInv, EmptyIsTop
  <1>9. StoredInRom'
    BY <1>2, <1>3, <1>4, <1>5 DEF GInv, StoredInRom
  <1>10. QED
    BY <1>1, <1>6, <1>7, <1>8, <1>9 DEF GInv

LEMMA AdvanceKeeps ==
  ASSUME GInv, Advance
  PROVE  GInv'
  <1> DEFINE f == [top EXCEPT !.pc = top.pc + 2, !.at = "read"]
             d == Len(frames)
  <1>1. TypeOK /\ status = "grabbing" /\ top.at = "stored" /\ rom \in Roms
        /\ rom' = rom /\ funcs' = funcs /\ status' = status /\ frames' = SetTop(f)
    BY DEF GInv, Advance, Grabbing
  <1>2. /\ DOMAIN frames = 1..d /\ d \in Nat \ {0} /\ d \in 1..d /\ frames # <<>>
        /\ top \in Frames(Len(funcs)) /\ DOMAIN funcs = 1..Len(funcs)
        /\ \A a, b \in 1..d : a < b => frames[a].func < frames[b].func
    BY <1>1, TypeTo, TopType
  <1>3. \A pc : InRom(pc)' <=> InRom(pc)
    BY <1>1 DEF InRom, romSize
  <1>4. top.pc + 2 \in Word
    <2>1. InRom(top.pc)
      BY <1>1, <1>2 DEF GInv, StoredInRom, top
    <2>2. top.pc \in 0..(romSize - 1) /\ romSize \in Nat /\ romSize <= RamSize - Entry
      BY <1>1, <2>1, RomType DEF InRom
    <2>3. top.pc + 2 \in Nat /\ top.pc + 2 < WordSize /\ WordSize \in Int
      BY <2>2 DEF WordSize, RamSize, Entry
    <2>4. QED
      BY <2>3 DEF Word
  <1>5. f \in Frames(Len(funcs)) /\ f.func = top.func /\ f.at = "read"
    BY <1>2, <1>4 DEF Frames
  <1> HIDE DEF f
  <1>6. /\ frames' \in Seq(Frames(Len(funcs))) /\ Len(frames') = d /\ frames'[d] = f
        /\ \A a \in 1..(d - 1) : frames'[a] = frames[a]
        /\ \A a \in 1..d : frames'[a].func = frames[a].func
    BY <1>1, <1>5, SetTopType
  <1> HIDE DEF d
  <1>7. DOMAIN frames' = 1..d /\ frames' # <<>>
    BY <1>2, <1>6
  <1>8. TypeOK'
    <2>1. \A a, b \in DOMAIN frames' : a < b => frames'[a].func < frames'[b].func
      BY <1>2, <1>6, <1>7
    <2>2. frames' \in Seq([func : DOMAIN funcs', pc : Word, opcode : Word, at : {"read", "stored"}])
      BY <1>1, <1>2, <1>6 DEF Frames
    <2>3. QED
      BY <1>1, <1>7, <2>1, <2>2 DEF TypeOK
  <1>9. GrabbedOnce'
    BY <1>1, <1>3 DEF GInv, GrabbedOnce
  <1>10. EmptyIsTop'
    BY <1>1, <1>3 DEF GInv, EmptyIsTop
  <1>11. StoredInRom'
    BY <1>2, <1>3, <1>5, <1>6, <1>7, LastOrBefore DEF GInv, StoredInRom
  <1>12. QED
    BY <1>1, <1>8, <1>9, <1>10, <1>11 DEF GInv

THEOREM GInvStep == GInv /\ [GrabNext]_gvars => GInv'
  <1> SUFFICES ASSUME GInv, [GrabNext]_gvars PROVE GInv'
    OBVIOUS
  <1>1. CASE StoreOpcode
    BY <1>1, StoreOpcodeKeeps
  <1>2. CASE GrabTarget
    BY <1>2, GrabTargetKeeps
  <1>3. CASE LeaveTables
    BY <1>3, LeaveTablesKeeps
  <1>4. CASE EndAtJump
    BY <1>4, ReturnKeeps DEF EndAtJump, Grabbing
  <1>5. CASE Advance
    BY <1>5, AdvanceKeeps
  <1>6. CASE EndOfRom
    BY <1>6, ReturnKeeps DEF EndOfRom, Grabbing
  <1>7. CASE UNCHANGED gvars
    <2>1. rom' = rom /\ funcs' = funcs /\ frames' = frames /\ status' = status
      BY <1>7 DEF gvars
    <2>2. QED
      BY <2>1 DEF GInv, TypeOK, GrabbedOnce, EmptyIsTop, StoredInRom, top, InRom, romSize
  <1>8. QED
    BY <1>1, <1>2, <1>3, <1>4, <1>5, <1>6, <1>7 DEF GrabNext

\* Whatever ROM is grabbed: every active call fills an entry of its own, entries
\* below the bound and of bounded size, until a table is left.
THEOREM TypeCorrect == GrabSpec => []TypeOK
  <1>1. GInv => TypeOK
    BY DEF GInv
  <1>2. QED
    BY <1>1, GInvInit, GInvStep, PTL DEF GrabSpec

\* Whatever ROM is grabbed, no offset inside it becomes two functions.
THEOREM OnceCorrect == GrabSpec => []GrabbedOnce
  <1>1. GInv => GrabbedOnce
    BY DEF GInv
  <1>2. QED
    BY <1>1, GInvInit, GInvStep, PTL DEF GrabSpec

-----------------------------------------------------------------------------
(* What is in the table: why nothing is left out.                          *)

\* The number of a function's instructions, and where each of them is.
Size(f)    == Len(f.opcodes)
Node(f, n) == f.offset + 2 * (n - 1)

\* grabFunc goes on behind this instruction.
Passed(pc, opcode) == TRUE \in MaySkip(pc) \/ ~EndsFunction(opcode)

\* grabFunc returns behind this instruction.
Ended(pc, opcode) == FALSE \in MaySkip(pc) /\ EndsFunction(opcode)

\* A function holds what the ROM holds at its nodes.
Faithful ==
    \A k \in DOMAIN funcs : \A n \in 1..Size(funcs[k]) :
        InRom(Node(funcs[k], n)) /\ funcs[k].opcodes[n] \in OpcodesAt(Node(funcs[k], n))

\* An active call stands behind the opcodes that it has stored, or on the last.
Placed ==
    \A a \in DOMAIN frames : LET f == funcs[frames[a].func] IN
        /\ frames[a].at = "read" => frames[a].pc = Node(f, Size(f) + 1)
        /\ frames[a].at = "stored" =>
              /\ Size(f) # 0
              /\ frames[a].pc = Node(f, Size(f))
              /\ frames[a].opcode = f.opcodes[Size(f)]

\* A function goes on behind each of its instructions but the last.
Continuous ==
    \A k \in DOMAIN funcs : \A n \in 1..(Size(funcs[k]) - 1) :
        Passed(Node(funcs[k], n), funcs[k].opcodes[n])

\* And behind the last one, when its call is about to read.
ReadsOn ==
    \A a \in DOMAIN frames : LET f == funcs[frames[a].func] IN
        (frames[a].at = "read" /\ Size(f) # 0) => Passed(Node(f, Size(f)), f.opcodes[Size(f)])

\* A function that is not being grabbed has ended, at a jump or with the ROM.
Complete ==
    \A k \in DOMAIN funcs :
        \/ \E a \in DOMAIN frames : frames[a].func = k
        \/ ~InRom(Node(funcs[k], Size(funcs[k]) + 1))
        \/ Size(funcs[k]) # 0 /\ Ended(Node(funcs[k], Size(funcs[k])), funcs[k].opcodes[Size(funcs[k])])

\* Functions start at the start of the ROM and at targets.
StartsNamed == \A k \in DOMAIN funcs : funcs[k].offset \in AllTargets \cup {0}

\* There is a function at the start of the ROM, and one around every target: at it,
\* or with a size, in words, that reaches as many bytes behind the offset.
TargetsHeld ==
    \A t \in AllTargets \cup {0} : \E k \in DOMAIN funcs :
        t \in funcs[k].offset..(funcs[k].offset + Size(funcs[k]))

CInv ==
    /\ GInv /\ (status = "grabbed" => frames = <<>>)
    /\ Faithful /\ Placed /\ Continuous /\ ReadsOn /\ Complete
    /\ StartsNamed /\ TargetsHeld

\* The facts about types that the rest needs.
LEMMA TableFacts ==
  ASSUME GInv
  PROVE  /\ DOMAIN funcs = 1..Len(funcs) /\ DOMAIN frames = 1..Len(frames)
         /\ Len(funcs) \in Nat /\ Len(frames) \in Nat
         /\ \A k \in DOMAIN funcs : /\ funcs[k].offset \in Nat /\ funcs[k].opcodes \in Seq(Word)
                                    /\ Size(funcs[k]) \in Nat /\ DOMAIN funcs[k].opcodes = 1..Size(funcs[k])
         /\ \A a \in DOMAIN frames : frames[a].func \in DOMAIN funcs /\ frames[a].pc \in Nat
         /\ \A a, b \in DOMAIN frames : a # b => frames[a].func # frames[b].func
  <1>1. /\ funcs \in Seq(Entries) /\ DOMAIN funcs = 1..Len(funcs) /\ Len(funcs) \in Nat
        /\ frames \in Seq(Frames(Len(funcs)))
        /\ DOMAIN frames = 1..Len(frames) /\ Len(frames) \in Nat
        /\ \A a, b \in 1..Len(frames) : a < b => frames[a].func < frames[b].func
    BY TypeTo DEF GInv
  <1>2. ASSUME NEW k \in DOMAIN funcs
        PROVE  /\ funcs[k].offset \in Nat /\ funcs[k].opcodes \in Seq(Word)
               /\ Size(funcs[k]) \in Nat /\ DOMAIN funcs[k].opcodes = 1..Size(funcs[k])
    <2>1. funcs[k] \in Entries
      BY <1>1, <1>2, ElementOfSeq
    <2>2. funcs[k].offset \in Nat /\ funcs[k].opcodes \in Seq(Word)
      BY <2>1, Ranges DEF Entries
    <2>3. QED
      BY <2>2 DEF Size
  <1>3. ASSUME NEW a \in DOMAIN frames
        PROVE  frames[a].func \in DOMAIN funcs /\ frames[a].pc \in Nat
    <2>1. frames[a] \in Frames(Len(funcs))
      BY <1>1, <1>3, ElementOfSeq
    <2>2. QED
      BY <1>1, <2>1, Ranges DEF Frames
  <1>4. ASSUME NEW a \in DOMAIN frames, NEW b \in DOMAIN frames, a # b
        PROVE  frames[a].func # frames[b].func
    <2>1. a < b \/ b < a
      BY <1>1, <1>4
    <2>2. frames[a].func < frames[b].func \/ frames[b].func < frames[a].func
      BY <1>1, <1>4, <2>1
    <2>3. frames[a].func \in Int /\ frames[b].func \in Int
      BY <1>1, <1>3, <1>4
    <2>4. QED
      BY <2>2, <2>3
  <1>5. QED
    BY <1>1, <1>2, <1>3, <1>4

\* The targets of the opcodes in a table.
TargetsIn(table) ==
    UNION { { TargetOf(table[k].opcodes[n]) :
                n \in { m \in DOMAIN table[k].opcodes : Transfers(table[k].opcodes[m]) } }
            : k \in DOMAIN table }

LEMMA TargetsListedIn ==
  ASSUME NEW table \in Seq(Entries), NEW t
  PROVE  t \in TargetsIn(table) <=>
            \E k \in DOMAIN table : \E n \in 1..Size(table[k]) :
                Transfers(table[k].opcodes[n]) /\ t = TargetOf(table[k].opcodes[n])
  <1>1. ASSUME NEW k \in DOMAIN table PROVE DOMAIN table[k].opcodes = 1..Size(table[k])
    <2>1. table[k] \in Entries
      BY <1>1, ElementOfSeq
    <2>2. table[k].opcodes \in Seq(Word)
      BY <2>1 DEF Entries
    <2>3. QED
      BY <2>2 DEF Size
  <1>2. ASSUME t \in TargetsIn(table)
        PROVE  \E k \in DOMAIN table : \E n \in 1..Size(table[k]) :
                   Transfers(table[k].opcodes[n]) /\ t = TargetOf(table[k].opcodes[n])
    <2>1. PICK k \in DOMAIN table :
             t \in { TargetOf(table[k].opcodes[n]) :
                       n \in { m \in DOMAIN table[k].opcodes : Transfers(table[k].opcodes[m]) } }
      BY <1>2 DEF TargetsIn
    <2>2. QED
      BY <1>1, <2>1
  <1>3. ASSUME NEW k \in DOMAIN table, NEW n \in 1..Size(table[k]),
               Transfers(table[k].opcodes[n]), t = TargetOf(table[k].opcodes[n])
        PROVE  t \in TargetsIn(table)
    <2>1. n \in { m \in DOMAIN table[k].opcodes : Transfers(table[k].opcodes[m]) }
      BY <1>1, <1>3
    <2>2. QED
      BY <1>3, <2>1 DEF TargetsIn
  <1>4. QED
    BY <1>2, <1>3

LEMMA TargetsListed ==
  ASSUME GInv, NEW t
  PROVE  t \in AllTargets <=>
            \E k \in DOMAIN funcs : \E n \in 1..Size(funcs[k]) :
                Transfers(funcs[k].opcodes[n]) /\ t = TargetOf(funcs[k].opcodes[n])
  <1>1. funcs \in Seq(Entries) /\ AllTargets = TargetsIn(funcs)
    BY TypeTo DEF GInv, AllTargets, TargetsIn
  <1>2. QED
    BY <1>1, TargetsListedIn

-----------------------------------------------------------------------------
(* When grabbing is over.                                                  *)

\* What has a function around it, lies in the ROM and is even, is an instruction of
\* that function: functions start at even offsets, and none of them is empty.
LEMMA HeldIsNode ==
  ASSUME CInv, status = "grabbed", Even(AllTargets),
         NEW t \in AllTargets \cup {0}, InRom(t)
  PROVE  \E k \in DOMAIN funcs : \E n \in 1..Size(funcs[k]) : t = Node(funcs[k], n)
  <1>1. PICK k \in DOMAIN funcs : t \in funcs[k].offset..(funcs[k].offset + Size(funcs[k]))
    BY DEF CInv, TargetsHeld
  <1>2. funcs[k].offset \in Nat /\ Size(funcs[k]) \in Nat /\ funcs[k].opcodes \in Seq(Word)
    BY TableFacts DEF CInv
  <1>3. t \in Nat /\ t % 2 = 0 /\ funcs[k].offset % 2 = 0
    BY <1>1, <1>2 DEF Even, CInv, StartsNamed
  <1>4. Size(funcs[k]) # 0 \/ t # funcs[k].offset
    <2>1. frames = <<>>
      BY DEF CInv
    <2>2. InRom(funcs[k].offset) => funcs[k].opcodes # <<>>
      BY <2>1 DEF CInv, GInv, EmptyIsTop
    <2>3. funcs[k].opcodes # <<>> => Size(funcs[k]) # 0
      BY <1>2, EmptySeq DEF Size
    <2>4. QED
      BY <2>2, <2>3
  <1> DEFINE o == funcs[k].offset
             n == (t - o) \div 2 + 1
  <1> HIDE DEF o
  <1>5. o \in Nat /\ o % 2 = 0 /\ t \in o..(o + Size(funcs[k])) /\ (Size(funcs[k]) # 0 \/ t # o)
    BY <1>1, <1>2, <1>3, <1>4 DEF o
  <1>6. \A u, w, z \in Nat : (u % 2 = 0 /\ w % 2 = 0 /\ u \in w..(w + z) /\ (z # 0 \/ u # w)) =>
            (u - w) \div 2 + 1 \in 1..z /\ u = w + 2 * ((u - w) \div 2 + 1 - 1)
    OBVIOUS
  <1>7. n \in 1..Size(funcs[k]) /\ t = o + 2 * (n - 1)
    BY <1>2, <1>3, <1>5, <1>6
  <1>8. QED
    BY <1>7 DEF Node, o

LEMMA ReturnClass == Class(\h00EE) = 0
  BY DEF Class

LEMMA KeySkipClass ==
  ASSUME NEW opcode \in KeySkips
  PROVE  Class(opcode) = OP_IN
  <1>1. PICK x \in Reg, k \in {\h9E, \hA1} : opcode = (OP_IN * 16 + x) * 256 + k
    BY DEF KeySkips
  <1>2. x \in 0..15
    BY <1>1 DEF Reg
  <1>3. QED
    BY <1>1, <1>2 DEF Class, OP_IN

\* A successor of an instruction of a function is one too, if grabFunc follows it.
LEMMA SuccessorsHeld ==
  ASSUME CInv, status = "grabbed", Even(AllTargets),
         NEW k \in DOMAIN funcs, NEW n \in 1..Size(funcs[k]), InRom(Node(funcs[k], n) + 1),
         NEW s \in Followed(Node(funcs[k], n)), InRom(s)
  PROVE  \E j \in DOMAIN funcs : \E m \in 1..Size(funcs[j]) : s = Node(funcs[j], m)
  <1> DEFINE pc == Node(funcs[k], n)
             opcode == Word16(pc)
  <1>1. funcs[k].offset \in Nat /\ Size(funcs[k]) \in Nat /\ funcs[k].offset % 2 = 0
        /\ romSize \in Nat /\ \A q : InRom(q) <=> q \in 0..(romSize - 1)
    BY TableFacts, RomType DEF CInv, StartsNamed, Even, GInv, InRom
  <1>2. funcs[k].opcodes[n] = opcode /\ pc \in Nat /\ pc # 1
    <2>1. funcs[k].opcodes[n] \in OpcodesAt(pc)
      BY DEF CInv, Faithful
    <2>2. pc \in Nat /\ pc % 2 = 0
      BY <1>1 DEF Node
    <2>3. QED
      BY <2>1, <2>2 DEF OpcodesAt
  <1>3. \A m \in Nat \ {0} : Node(funcs[k], m) \in Nat /\ Node(funcs[k], m) # 1 /\ Node(funcs[k], m + 1) = Node(funcs[k], m) + 2
        /\ (m >= 2 => Node(funcs[k], m) # 0 /\ Node(funcs[k], m) - 2 = Node(funcs[k], m - 1))
    BY <1>1 DEF Node
  <1>4. \A m \in Nat \ {0} : Node(funcs[k], m) # 1 =>
            MaySkip(Node(funcs[k], m)) = {Node(funcs[k], m) # 0 /\ Class(Word16(Node(funcs[k], m) - 2)) \in SkipClasses}
    BY DEF MaySkip
  <1>5. ASSUME NEW m \in 1..Size(funcs[k]), InRom(Node(funcs[k], m + 1)),
               TRUE \in MaySkip(Node(funcs[k], m)) \/ ~EndsFunction(funcs[k].opcodes[m])
        PROVE  m + 1 \in 1..Size(funcs[k])
    <2>1. CASE m = Size(funcs[k])
      <3>1. Ended(Node(funcs[k], m), funcs[k].opcodes[m])
        BY <1>5, <2>1 DEF CInv, Complete
      <3>2. MaySkip(Node(funcs[k], m)) = {TRUE} \/ MaySkip(Node(funcs[k], m)) = {FALSE}
        <4>1. m \in Nat \ {0}
          BY <1>1
        <4>2. QED
          BY <1>3, <1>4, <4>1
      <3>3. QED
        BY <1>5, <3>1, <3>2 DEF Ended
    <2>2. QED
      BY <1>1, <2>1
  <1>6. s \in Successors(pc) /\ s \notin Missed(pc)
    BY DEF Followed
  <1> HIDE DEF pc, opcode
  <1>7. CASE Transfers(opcode) /\ s = TargetOf(opcode)
    <2>1. s \in AllTargets
      BY <1>2, <1>7, TargetsListed DEF CInv
    <2>2. QED
      BY <2>1, HeldIsNode
  <1>8. CASE ~Leaves(opcode) /\ s = pc + 2
    <2>1. ~EndsFunction(funcs[k].opcodes[n])
      BY <1>2, <1>8 DEF EndsFunction, Leaves
    <2>2. s = Node(funcs[k], n + 1)
      BY <1>1, <1>3, <1>8 DEF pc
    <2>3. n + 1 \in 1..Size(funcs[k])
      BY <1>5, <2>1, <2>2
    <2>4. QED
      BY <2>2, <2>3
  <1>9. CASE (Class(opcode) \in SkipClasses \/ opcode \in KeySkips) /\ s = pc + 4
    <2>1. n \in Nat \ {0} /\ n + 1 \in Nat \ {0} /\ n + 1 >= 2
      BY <1>1
    <2>2. Node(funcs[k], n + 1) = pc + 2 /\ Node(funcs[k], n + 2) = pc + 4
      BY <1>2, <1>3, <2>1 DEF pc
    <2>3. ~EndsFunction(funcs[k].opcodes[n])
      <3>1. CASE Class(opcode) \in SkipClasses
        BY <1>2, <3>1 DEF EndsFunction, SkipClasses, OP_SKIP1, OP_SKIP2, OP_SKIP3, OP_SKIP4, OP_JMP,
                          OP_JMP_INDEX, Class
      <3>2. CASE opcode \in KeySkips
        <4>1. Class(opcode) = OP_IN
          BY <3>2, KeySkipClass
        <4>2. opcode # \h00EE
          BY <4>1, ReturnClass DEF OP_IN
        <4>3. QED
          BY <1>2, <4>1, <4>2 DEF EndsFunction, OP_JMP, OP_JMP_INDEX, OP_IN
      <3>3. QED
        BY <1>9, <3>1, <3>2
    <2>4. InRom(Node(funcs[k], n + 1)) /\ InRom(pc + 3)
      BY <1>1, <1>2, <1>9, <2>2
    <2>5. n + 1 \in 1..Size(funcs[k])
      BY <1>5, <2>3, <2>4
    <2>6. Node(funcs[k], n + 1) # 1 /\ Node(funcs[k], n + 1) # 0 /\ Node(funcs[k], n + 1) - 2 = pc
      BY <1>2, <1>3, <2>1, <2>2
    <2>7. MaySkip(Node(funcs[k], n + 1)) = {Class(opcode) \in SkipClasses}
      <3>1. MaySkip(Node(funcs[k], n + 1)) =
               {Node(funcs[k], n + 1) # 0 /\ Class(Word16(Node(funcs[k], n + 1) - 2)) \in SkipClasses}
        BY <1>4, <2>1, <2>6
      <3>2. QED
        BY <2>6, <3>1 DEF opcode
    <2>8. Class(opcode) \in SkipClasses \/ ~EndsFunction(funcs[k].opcodes[n + 1])
      <3>1. SUFFICES ASSUME Class(opcode) \notin SkipClasses, EndsFunction(funcs[k].opcodes[n + 1])
                     PROVE  FALSE
        OBVIOUS
      <3>2. funcs[k].opcodes[n + 1] = Word16(pc + 2)
        <4>1. funcs[k].opcodes[n + 1] \in OpcodesAt(Node(funcs[k], n + 1))
          BY <2>5 DEF CInv, Faithful
        <4>2. (pc + 2) + 1 = pc + 3
          BY <1>2
        <4>3. QED
          BY <2>2, <2>4, <4>1, <4>2 DEF OpcodesAt
      <3>3. Leaves(Word16(pc + 2))
        BY <3>1, <3>2 DEF EndsFunction, Leaves
      <3>4. s \in Missed(pc)
        BY <1>9, <2>4, <3>1, <3>3 DEF Missed, opcode
      <3>5. QED
        BY <1>6, <3>4
    <2>9. n + 2 \in 1..Size(funcs[k])
      <3>1. (n + 1) + 1 = n + 2
        OBVIOUS
      <3>2. InRom(Node(funcs[k], (n + 1) + 1))
        BY <1>9, <2>2, <3>1
      <3>3. QED
        BY <1>5, <2>5, <2>7, <2>8, <3>1, <3>2
    <2>10. QED
      BY <1>9, <2>2, <2>9
  <1>10. \/ Transfers(opcode) /\ s = TargetOf(opcode)
         \/ ~Leaves(opcode) /\ s = pc + 2
         \/ (Class(opcode) \in SkipClasses \/ opcode \in KeySkips) /\ s = pc + 4
    BY <1>6 DEF Successors, opcode
  <1>11. QED
    BY <1>7, <1>8, <1>9, <1>10

LEMMA NodesListed ==
  ASSUME GInv, NEW t
  PROVE  t \in AllNodes <=> \E k \in DOMAIN funcs : \E n \in 1..Size(funcs[k]) : t = Node(funcs[k], n)
  <1>1. \A k \in DOMAIN funcs : DOMAIN funcs[k].opcodes = 1..Size(funcs[k])
    BY TableFacts
  <1>2. \A k \in DOMAIN funcs :
           t \in Nodes(funcs[k]) <=> \E n \in 1..Size(funcs[k]) : t = Node(funcs[k], n)
    BY <1>1 DEF Nodes, Node
  <1>3. QED
    BY <1>2 DEF AllNodes

LEMMA TargetsAreNodes == CInv => TargetsGrabbed
  <1> SUFFICES ASSUME CInv, status = "grabbed", Even(AllTargets),
                      NEW t \in AllTargets, InRom(t)
               PROVE  t \in AllNodes
    BY DEF TargetsGrabbed
  <1>1. QED
    BY HeldIsNode, NodesListed DEF CInv

\* Reach is what its definition says.
LEMMA ReachUnfolds ==
  ASSUME rom \in Roms
  PROVE  /\ Reach[0] = Inside({0})
         /\ \A n \in 1..romSize :
               Reach[n] = Inside(Reach[n - 1] \cup UNION { Followed(pc) : pc \in Reach[n - 1] })
  <1> DEFINE spread(S) == Inside(S \cup UNION { Followed(pc) : pc \in S })
             P == SUBSET (0..(romSize - 1))
             step == [n \in 1..romSize |-> [S \in P |-> spread(S)]]
  <1>1. romSize \in Nat
    BY RomType
  <1>2. \A S : Inside(S) \in P
    BY DEF Inside, InRom
  <1>3. step \in [1..romSize -> [P -> P]]
    BY <1>2
  <1>4. Inside({0}) \in P
    BY <1>2
  <1> HIDE DEF step, P
  <1>5. PICK f \in [0..romSize -> P] : Iterates(f, romSize, Inside({0}), step)
    BY <1>1, <1>4, <1>3, Iteration
  <1>6. \A n \in 0..romSize : n = 0 \/ (n \in 1..romSize /\ n - 1 \in 0..romSize)
    BY <1>1
  <1>7. f[0] = Inside({0}) /\ \A n \in 1..romSize : f[n] = spread(f[n - 1])
    <2>1. \A n \in 1..romSize : f[n - 1] \in P
      BY <1>1, <1>5
    <2>2. \A n \in 1..romSize : step[n][f[n - 1]] = spread(f[n - 1])
      BY <2>1 DEF step
    <2>3. QED
      BY <1>5, <2>2 DEF Iterates
  <1>8. f = [n \in 0..romSize |-> IF n = 0 THEN Inside({0}) ELSE spread(f[n - 1])]
    BY <1>5, <1>6, <1>7
  <1>9. Reach = [n \in 0..romSize |-> IF n = 0 THEN Inside({0}) ELSE spread(Reach[n - 1])]
    BY <1>8 DEF Reach
  <1> HIDE DEF spread
  <1>10. /\ Reach[0] = Inside({0})
        /\ \A n \in 1..romSize : Reach[n] = spread(Reach[n - 1])
    BY <1>1, <1>9
  <1>11. QED
    BY <1>10 DEF spread

LEMMA ReachableHeld == CInv => ReachableIsGrabbed
  <1> SUFFICES ASSUME CInv, status = "grabbed", Even(AllTargets)
               PROVE  Reached \subseteq AllNodes
    BY DEF ReachableIsGrabbed
  <1> DEFINE P == { n \in Nat : Reach[n] \subseteq { pc \in AllNodes : InRom(pc + 1) } }
  <1>1. rom \in Roms /\ romSize \in Nat /\ GInv
    BY RomType DEF CInv, GInv
  <1>2. 0 \in P
    <2>1. \A t \in Inside({0}) : t = 0 /\ InRom(t) /\ InRom(t + 1)
      BY DEF Inside
    <2>2. QED
      BY <1>1, <2>1, ReachUnfolds, HeldIsNode, NodesListed
  <1>3. ASSUME NEW n \in 1..romSize, n - 1 \in P PROVE n \in P
    <2>1. ASSUME NEW t \in Reach[n] PROVE t \in AllNodes /\ InRom(t + 1)
      <3>1. /\ InRom(t) /\ InRom(t + 1)
            /\ t \in Reach[n - 1] \/ \E pc \in Reach[n - 1] : t \in Followed(pc)
        BY <1>1, <2>1, ReachUnfolds DEF Inside
      <3>2. CASE t \in Reach[n - 1]
        BY <1>3, <3>1, <3>2
      <3>3. ASSUME NEW pc \in Reach[n - 1], t \in Followed(pc) PROVE t \in AllNodes
        <4>1. pc \in AllNodes /\ InRom(pc + 1)
          BY <1>3, <3>3
        <4>2. PICK k \in DOMAIN funcs : \E m \in 1..Size(funcs[k]) : pc = Node(funcs[k], m)
          BY <1>1, <4>1, NodesListed
        <4>3. PICK m \in 1..Size(funcs[k]) : pc = Node(funcs[k], m)
          BY <4>2
        <4>4. \E j \in DOMAIN funcs : \E l \in 1..Size(funcs[j]) : t = Node(funcs[j], l)
          BY <3>1, <3>3, <4>1, <4>3, SuccessorsHeld
        <4>5. QED
          BY <1>1, <4>4, NodesListed
      <3>4. QED
        BY <3>1, <3>2, <3>3
    <2>2. n \in Nat
      BY <1>1
    <2>3. QED
      BY <2>1, <2>2
  <1> HIDE DEF P
  <1>4. romSize \in P
    BY <1>1, <1>2, <1>3, UpTo
  <1>5. QED
    BY <1>4 DEF P, Reached

-----------------------------------------------------------------------------
(* Every step keeps that nothing is left out.                              *)

\* What StoreOpcode and GrabTarget have in common: an opcode is added to the function
\* of the innermost call; a function or a call that is new is for its target.
Storing(opcode) ==
    /\ opcode \in OpcodesAt(top.pc) /\ InRom(top.pc) /\ top.at = "read"
    /\ rom' = rom /\ status = "grabbing" /\ status' = "grabbing"
    /\ DOMAIN funcs \subseteq DOMAIN funcs' /\ DOMAIN frames \subseteq DOMAIN frames'
    /\ \A k \in DOMAIN funcs : /\ funcs'[k].offset = funcs[k].offset
                               /\ k # top.func => funcs'[k] = funcs[k]
    /\ funcs'[top.func].opcodes = Append(funcs[top.func].opcodes, opcode)
    /\ \A k \in DOMAIN funcs' \ DOMAIN funcs :
           /\ Transfers(opcode)
           /\ funcs'[k].offset = TargetOf(opcode) /\ funcs'[k].opcodes = <<>>
           /\ \E a \in DOMAIN frames' : frames'[a].func = k
    /\ \A a \in DOMAIN frames : a # Len(frames) => frames'[a] = frames[a]
    /\ frames'[Len(frames)] = [top EXCEPT !.opcode = opcode, !.at = "stored"]
    /\ \A a \in DOMAIN frames' \ DOMAIN frames :
           /\ frames'[a].func \in DOMAIN funcs' \ DOMAIN funcs
           /\ frames'[a].pc = TargetOf(opcode) /\ frames'[a].at = "read"
    /\ Transfers(opcode) =>
           \E k \in DOMAIN funcs' :
              TargetOf(opcode) \in funcs'[k].offset..(funcs'[k].offset + Len(funcs'[k].opcodes))

\* The function that has grown, seen as a record.
LEMMA GrownOpcodes ==
  ASSUME TypeOK, status = "grabbing", NEW opcode \in Word
  PROVE  Grown(opcode)[top.func].opcodes = Append(funcs[top.func].opcodes, opcode)
  <1>1. /\ funcs \in Seq(Entries) /\ top.func \in DOMAIN funcs
        /\ funcs[top.func] \in Entries
    BY TopType DEF TypeOK, Entries
  <1>2. Grown(opcode)[top.func] = [funcs[top.func] EXCEPT !.opcodes = Append(@, opcode)]
    BY <1>1 DEF Grown
  <1>3. QED
    BY <1>1, <1>2 DEF Entries

LEMMA StoredTop ==
  ASSUME TypeOK, status = "grabbing", NEW opcode \in Word
  PROVE  Stored(opcode)[Len(frames)] = [top EXCEPT !.opcode = opcode, !.at = "stored"]
  <1> DEFINE f == [top EXCEPT !.opcode = opcode, !.at = "stored"]
  <1>1. f \in Frames(Len(funcs)) /\ f.func = top.func
    BY TopType DEF Frames
  <1>2. Stored(opcode) = SetTop(f)
    BY DEF Stored
  <1> HIDE DEF f
  <1>3. Stored(opcode)[Len(frames)] = f
    BY <1>1, <1>2, SetTopType
  <1>4. QED
    BY <1>3 DEF f

\* A target that is recognised lies within the size of a function.
LEMMA RecognisedHeld ==
  ASSUME NEW table \in Seq(Entries), NEW t, IsGrabbed(table, t)
  PROVE  \E k \in DOMAIN table : t \in table[k].offset..(table[k].offset + Len(table[k].opcodes))
  <1>1. PICK k \in DOMAIN table :
           t \in table[k].offset..(table[k].offset + Len(table[k].opcodes) - 1)
    BY DEF IsGrabbed
  <1>2. table[k] \in Entries
    BY ElementOfSeq
  <1>3. table[k].offset \in Nat /\ Len(table[k].opcodes) \in Nat
    <2>1. table[k].offset \in Word /\ table[k].opcodes \in Seq(Word)
      BY <1>2 DEF Entries
    <2>2. Len(table[k].opcodes) \in Nat
      BY <2>1
    <2>3. QED
      BY <2>1, <2>2, Ranges
  <1>4. QED
    BY <1>1, <1>3

LEMMA StoreOpcodeStores ==
  ASSUME GInv, StoreOpcode
  PROVE  \E opcode \in Word : Storing(opcode)
  <1>1. TypeOK /\ status = "grabbing" /\ top.at = "read" /\ rom \in Roms /\ rom' = rom
        /\ status' = status /\ InRom(top.pc) /\ HasRoom
    BY DEF GInv, StoreOpcode, Grabbing
  <1>2. PICK opcode \in OpcodesAt(top.pc) :
           ~Enters(opcode) /\ funcs' = Grown(opcode) /\ frames' = Stored(opcode)
    BY DEF StoreOpcode
  <1>3. opcode \in Word
    BY <1>1, <1>2, OpcodesType
  <1>4. /\ DOMAIN funcs' = DOMAIN funcs /\ top.func \in DOMAIN funcs
        /\ \A k \in DOMAIN funcs : /\ funcs'[k].offset = funcs[k].offset
                                   /\ k # top.func => funcs'[k] = funcs[k]
    BY <1>1, <1>2, <1>3, GrownType, TopType
  <1>5. funcs'[top.func].opcodes = Append(funcs[top.func].opcodes, opcode)
    BY <1>1, <1>2, <1>3, GrownOpcodes
  <1>6. /\ frames' \in Seq(Frames(Len(funcs))) /\ Len(frames') = Len(frames)
        /\ \A a \in 1..(Len(frames) - 1) : frames'[a] = frames[a]
        /\ frames'[Len(frames)] = [top EXCEPT !.opcode = opcode, !.at = "stored"]
    BY <1>1, <1>2, <1>3, StoredType, StoredTop
  <1>7. DOMAIN frames = 1..Len(frames) /\ Len(frames) \in Nat
    BY <1>1, TypeTo
  <1>8. DOMAIN frames' = DOMAIN frames
    BY <1>6, <1>7
  <1>9. \A a \in DOMAIN frames : a # Len(frames) => frames'[a] = frames[a]
    BY <1>6, <1>7, LastOrBefore
  <1>10. Transfers(opcode) =>
           \E k \in DOMAIN funcs' :
              TargetOf(opcode) \in funcs'[k].offset..(funcs'[k].offset + Len(funcs'[k].opcodes))
    BY <1>1, <1>2, <1>3, GrownType, RecognisedHeld DEF Enters
  <1>11. Storing(opcode)
    BY <1>1, <1>2, <1>4, <1>5, <1>6, <1>8, <1>9, <1>10 DEF Storing
  <1>12. QED
    BY <1>3, <1>11

LEMMA GrabTargetStores ==
  ASSUME GInv, GrabTarget
  PROVE  \E opcode \in Word : Storing(opcode)
  <1>1. TypeOK /\ status = "grabbing" /\ top.at = "read" /\ rom \in Roms /\ rom' = rom
        /\ status' = status /\ InRom(top.pc) /\ HasRoom
    BY DEF GInv, GrabTarget, Grabbing
  <1>2. PICK opcode \in OpcodesAt(top.pc) :
           /\ Enters(opcode) /\ Len(funcs) < MaxFuncs
           /\ funcs' = Append(Grown(opcode), Func(TargetOf(opcode)))
           /\ frames' = Append(Stored(opcode), Frame(Len(funcs) + 1, TargetOf(opcode)))
    BY DEF GrabTarget
  <1> DEFINE n == Len(funcs)
             d == Len(frames)
             t == TargetOf(opcode)
  <1>3. opcode \in Word /\ t \in Word /\ t \in Nat
    BY <1>1, <1>2, OpcodesType, TargetType, Ranges
  <1>4. DOMAIN funcs = 1..n /\ n \in Nat /\ DOMAIN frames = 1..d /\ d \in Nat \ {0}
        /\ top.func \in DOMAIN funcs
    BY <1>1, TypeTo, TopType
  <1>5. Func(t) \in Entries /\ Func(t).offset = t /\ Func(t).opcodes = <<>>
        /\ Len(Func(t).opcodes) = 0
    BY <1>3, FuncType
  <1>6. Frame(n + 1, t) \in Frames(n + 1) /\ Frame(n + 1, t).func = n + 1
        /\ Frame(n + 1, t).pc = t /\ Frame(n + 1, t).at = "read"
    BY <1>3, <1>4, FrameType
  <1>7. /\ Grown(opcode) \in Seq(Entries) /\ Len(Grown(opcode)) = n
        /\ \A k \in 1..n : /\ Grown(opcode)[k].offset = funcs[k].offset
                           /\ k # top.func => Grown(opcode)[k] = funcs[k]
        /\ Grown(opcode)[top.func].opcodes = Append(funcs[top.func].opcodes, opcode)
    BY <1>1, <1>3, <1>4, GrownType, GrownOpcodes
  <1>8. /\ Stored(opcode) \in Seq(Frames(n)) /\ Len(Stored(opcode)) = d
        /\ \A a \in 1..(d - 1) : Stored(opcode)[a] = frames[a]
        /\ Stored(opcode)[d] = [top EXCEPT !.opcode = opcode, !.at = "stored"]
    BY <1>1, <1>3, StoredType, StoredTop
  <1> HIDE DEF n, d, t
  <1>9. /\ funcs' \in Seq(Entries) /\ Len(funcs') = n + 1 /\ funcs'[n + 1] = Func(t)
        /\ \A k \in 1..n : funcs'[k] = Grown(opcode)[k]
    BY <1>2, <1>5, <1>7, AddLast DEF t, n
  <1>10. Stored(opcode) \in Seq(Frames(n + 1))
    <2>1. Frames(n) \subseteq Frames(n + 1)
      BY <1>4 DEF Frames
    <2>2. QED
      BY <1>8, <2>1, SeqMonotonic
  <1>11. /\ frames' \in Seq(Frames(n + 1)) /\ Len(frames') = d + 1
         /\ frames'[d + 1] = Frame(n + 1, t)
         /\ \A a \in 1..d : frames'[a] = Stored(opcode)[a]
    BY <1>2, <1>6, <1>8, <1>10, AddLast DEF t, n
  <1>12. /\ DOMAIN funcs' = 1..(n + 1) /\ DOMAIN frames' = 1..(d + 1)
         /\ 1..n \subseteq 1..(n + 1) /\ 1..d \subseteq 1..(d + 1)
         /\ n + 1 \in 1..(n + 1) /\ n + 1 \notin 1..n /\ d + 1 \in 1..(d + 1) /\ d \in 1..d
         /\ \A k \in (1..(n + 1)) \ (1..n) : k = n + 1
         /\ \A a \in (1..(d + 1)) \ (1..d) : a = d + 1
         /\ \A a \in 1..d : a # d => a \in 1..(d - 1)
    BY <1>4, <1>9, <1>11
  <1>13. /\ \A k \in DOMAIN funcs : /\ funcs'[k].offset = funcs[k].offset
                                    /\ k # top.func => funcs'[k] = funcs[k]
         /\ funcs'[top.func].opcodes = Append(funcs[top.func].opcodes, opcode)
    BY <1>4, <1>7, <1>9
  <1>14. \A k \in DOMAIN funcs' \ DOMAIN funcs :
           /\ Transfers(opcode)
           /\ funcs'[k].offset = TargetOf(opcode) /\ funcs'[k].opcodes = <<>>
           /\ \E a \in DOMAIN frames' : frames'[a].func = k
    BY <1>2, <1>4, <1>5, <1>6, <1>9, <1>11, <1>12 DEF Enters, t
  <1>15. /\ \A a \in DOMAIN frames : a # Len(frames) => frames'[a] = frames[a]
         /\ frames'[Len(frames)] = [top EXCEPT !.opcode = opcode, !.at = "stored"]
    BY <1>4, <1>8, <1>11, <1>12 DEF d
  <1>16. \A a \in DOMAIN frames' \ DOMAIN frames :
           /\ frames'[a].func \in DOMAIN funcs' \ DOMAIN funcs
           /\ frames'[a].pc = TargetOf(opcode) /\ frames'[a].at = "read"
    BY <1>4, <1>6, <1>11, <1>12 DEF t
  <1>17. \E k \in DOMAIN funcs' :
            TargetOf(opcode) \in funcs'[k].offset..(funcs'[k].offset + Len(funcs'[k].opcodes))
    <2>1. t \in t..(t + 0)
      BY <1>3
    <2>2. QED
      BY <1>5, <1>9, <1>12, <2>1 DEF t
  <1>18. Storing(opcode)
    BY <1>1, <1>2, <1>4, <1>12, <1>13, <1>14, <1>15, <1>16, <1>17 DEF Storing
  <1>19. QED
    BY <1>3, <1>18

LEMMA StoringFacts ==
  ASSUME GInv, NEW opcode \in Word, Storing(opcode),
         NEW f, f = funcs[top.func], NEW g, g = funcs'[top.func]
  PROVE  /\ Len(frames) \in DOMAIN frames /\ top = frames[Len(frames)]
         /\ top.func \in DOMAIN funcs /\ top.pc \in Nat
         /\ \A a \in DOMAIN frames : a # Len(frames) =>
               frames'[a] = frames[a] /\ frames[a].func # top.func
         /\ frames'[Len(frames)].func = top.func /\ frames'[Len(frames)].pc = top.pc
         /\ frames'[Len(frames)].at = "stored" /\ frames'[Len(frames)].opcode = opcode
         /\ g.offset = f.offset /\ Size(f) \in Nat /\ Size(g) = Size(f) + 1
         /\ g.opcodes[Size(f) + 1] = opcode
         /\ \A n \in 1..Size(f) : g.opcodes[n] = f.opcodes[n]
         /\ \A n : Node(g, n) = Node(f, n)
  <1>1. TypeOK /\ status = "grabbing" /\ rom' = rom
    BY DEF GInv, Storing
  <1>2. /\ Len(frames) \in DOMAIN frames /\ top = frames[Len(frames)] /\ top \in Frames(Len(funcs))
        /\ top.func \in DOMAIN funcs /\ top.pc \in Nat
    BY <1>1, TopType, TableFacts DEF top
  <1>3. \A a \in DOMAIN frames : a # Len(frames) =>
               frames'[a] = frames[a] /\ frames[a].func # top.func
    BY <1>2, TableFacts DEF Storing
  <1>4. /\ frames'[Len(frames)].func = top.func /\ frames'[Len(frames)].pc = top.pc
        /\ frames'[Len(frames)].at = "stored" /\ frames'[Len(frames)].opcode = opcode
    BY <1>2 DEF Storing, Frames
  <1>5. f.opcodes \in Seq(Word) /\ Size(f) \in Nat
    BY <1>2, TableFacts
  <1>6. g.opcodes = Append(f.opcodes, opcode) /\ g.offset = f.offset
    BY <1>2 DEF Storing
  <1>7. /\ Size(g) = Size(f) + 1 /\ g.opcodes[Size(f) + 1] = opcode
        /\ \A n \in 1..Size(f) : g.opcodes[n] = f.opcodes[n]
    BY <1>5, <1>6, AddLast DEF Size
  <1>8. \A n : Node(g, n) = Node(f, n)
    BY <1>6 DEF Node
  <1>9. QED
    BY <1>2, <1>3, <1>4, <1>5, <1>6, <1>7, <1>8

\* The ROM stays, and what is said about it.
LEMMA RomStays ==
  ASSUME rom' = rom
  PROVE  /\ \A pc : InRom(pc)' <=> InRom(pc)
         /\ \A pc : OpcodesAt(pc)' = OpcodesAt(pc)
         /\ \A pc : MaySkip(pc)' = MaySkip(pc)
         /\ \A pc, opcode : Passed(pc, opcode)' = Passed(pc, opcode)
         /\ \A pc, opcode : Ended(pc, opcode)' = Ended(pc, opcode)
  BY DEF InRom, romSize, OpcodesAt, MaySkip, Word16, Passed, Ended

LEMMA StoringKeepsOrder ==
  ASSUME CInv, NEW opcode \in Word, Storing(opcode)
  PROVE  Faithful' /\ Placed' /\ Continuous' /\ ReadsOn'
  <1> DEFINE d == Len(frames)
             t == top.func
             f == funcs[t]
             g == funcs'[t]
  <1>1. /\ d \in DOMAIN frames /\ top = frames[d] /\ t \in DOMAIN funcs
        /\ \A a \in DOMAIN frames : a # d => frames'[a] = frames[a] /\ frames[a].func # t
        /\ frames'[d].func = t /\ frames'[d].pc = top.pc
        /\ frames'[d].at = "stored" /\ frames'[d].opcode = opcode
        /\ Size(f) \in Nat /\ Size(g) = Size(f) + 1
        /\ g.opcodes[Size(f) + 1] = opcode
        /\ \A n \in 1..Size(f) : g.opcodes[n] = f.opcodes[n]
        /\ \A n : Node(g, n) = Node(f, n)
    BY StoringFacts DEF CInv
  <1>2. rom' = rom
    BY DEF Storing
  <1>3. /\ opcode \in OpcodesAt(top.pc) /\ InRom(top.pc) /\ top.at = "read"
        /\ \A k \in DOMAIN funcs : k # t => funcs'[k] = funcs[k]
        /\ DOMAIN funcs \subseteq DOMAIN funcs'
        /\ \A k \in DOMAIN funcs' \ DOMAIN funcs : funcs'[k].offset = TargetOf(opcode)
                                                 /\ funcs'[k].opcodes = <<>>
        /\ \A a \in DOMAIN frames' \ DOMAIN frames :
               /\ frames'[a].func \in DOMAIN funcs' \ DOMAIN funcs
               /\ frames'[a].pc = TargetOf(opcode) /\ frames'[a].at = "read"
    BY DEF Storing
  <1>4. /\ \A a \in DOMAIN frames : frames[a].func \in DOMAIN funcs
        /\ TargetOf(opcode) \in Nat
    BY TableFacts, TargetType, Ranges DEF CInv
  <1>5. top.pc = Node(f, Size(f) + 1)
    BY <1>1, <1>3 DEF CInv, Placed
  <1>6. /\ \A k \in DOMAIN funcs : \A n \in 1..Size(funcs[k]) :
              /\ InRom(Node(funcs[k], n))
              /\ funcs[k].opcodes[n] \in OpcodesAt(Node(funcs[k], n))
        /\ \A k \in DOMAIN funcs : \A n \in 1..(Size(funcs[k]) - 1) :
              Passed(Node(funcs[k], n), funcs[k].opcodes[n])
        /\ Size(f) # 0 => Passed(Node(f, Size(f)), f.opcodes[Size(f)])
    BY <1>1, <1>3 DEF CInv, Faithful, Continuous, ReadsOn
  <1>7. /\ \A n \in 1..Size(g) : n = Size(f) + 1 \/ n \in 1..Size(f)
        /\ \A n \in 1..Size(f) : n = Size(f) \/ n \in 1..(Size(f) - 1)
        /\ Size(g) - 1 = Size(f) /\ Size(g) # 0
        /\ \A n \in 1..Size(f) : Size(f) # 0
    BY <1>1
  <1>8. \A k \in DOMAIN funcs' \ DOMAIN funcs : /\ Size(funcs'[k]) = 0
                                              /\ 1..Size(funcs'[k]) = {}
                                              /\ 1..(Size(funcs'[k]) - 1) = {}
                                              /\ Node(funcs'[k], Size(funcs'[k]) + 1) = TargetOf(opcode)
    BY <1>3, <1>4, EmptySeq DEF Size, Node
  <1> HIDE DEF d, t, f, g
  <1>9. Faithful'
    <2>1. ASSUME NEW k \in DOMAIN funcs', NEW n \in 1..Size(funcs'[k])
          PROVE  /\ InRom(Node(funcs'[k], n))
                 /\ funcs'[k].opcodes[n] \in OpcodesAt(Node(funcs'[k], n))
      <3>1. CASE k = t
        BY <1>1, <1>3, <1>5, <1>6, <1>7, <2>1, <3>1 DEF f, g
      <3>2. CASE k # t
        BY <1>3, <1>6, <1>8, <2>1, <3>2
      <3>3. QED
        BY <3>1, <3>2
    <2>2. QED
      BY <1>2, <2>1, RomStays DEF Faithful
  <1>10. Placed'
    <2>1. ASSUME NEW a \in DOMAIN frames'
          PROVE  LET h == funcs'[frames'[a].func] IN
                 /\ frames'[a].at = "read" => frames'[a].pc = Node(h, Size(h) + 1)
                 /\ frames'[a].at = "stored" =>
                       /\ Size(h) # 0
                       /\ frames'[a].pc = Node(h, Size(h))
                       /\ frames'[a].opcode = h.opcodes[Size(h)]
      <3>1. CASE a = d
        BY <1>1, <1>5, <1>7, <3>1 DEF g
      <3>2. CASE a \in DOMAIN frames /\ a # d
        BY <1>1, <1>3, <1>4, <3>2 DEF CInv, Placed
      <3>3. CASE a \notin DOMAIN frames
        BY <1>3, <1>8, <2>1, <3>3
      <3>4. QED
        BY <3>1, <3>2, <3>3
    <2>2. QED
      BY <2>1 DEF Placed
  <1>11. Continuous'
    <2>1. ASSUME NEW k \in DOMAIN funcs', NEW n \in 1..(Size(funcs'[k]) - 1)
          PROVE  Passed(Node(funcs'[k], n), funcs'[k].opcodes[n])
      <3>1. CASE k = t
        BY <1>1, <1>6, <1>7, <2>1, <3>1 DEF f, g
      <3>2. CASE k # t
        BY <1>3, <1>6, <1>8, <2>1, <3>2
      <3>3. QED
        BY <3>1, <3>2
    <2>2. QED
      BY <1>2, <2>1, RomStays DEF Continuous
  <1>12. ReadsOn'
    <2>1. ASSUME NEW a \in DOMAIN frames', frames'[a].at = "read", Size(funcs'[frames'[a].func]) # 0
          PROVE  Passed(Node(funcs'[frames'[a].func], Size(funcs'[frames'[a].func])),
                        funcs'[frames'[a].func].opcodes[Size(funcs'[frames'[a].func])])
      <3>1. a \in DOMAIN frames /\ a # d
        BY <1>1, <1>3, <1>8, <2>1
      <3>2. QED
        BY <1>1, <1>3, <1>4, <2>1, <3>1 DEF CInv, ReadsOn
    <2>2. QED
      BY <1>2, <2>1, RomStays DEF ReadsOn
  <1>13. QED
    BY <1>9, <1>10, <1>11, <1>12

LEMMA StoringKeepsCover ==
  ASSUME CInv, GInv', NEW opcode \in Word, Storing(opcode)
  PROVE  Complete' /\ StartsNamed' /\ TargetsHeld'
  <1> DEFINE d == Len(frames)
             t == top.func
             f == funcs[t]
             g == funcs'[t]
  <1>1. /\ d \in DOMAIN frames /\ t \in DOMAIN funcs
        /\ \A a \in DOMAIN frames : a # d => frames'[a] = frames[a] /\ frames[a].func # t
        /\ frames[d].func = t /\ frames'[d].func = t
        /\ Size(f) \in Nat /\ Size(g) = Size(f) + 1 /\ g.offset = f.offset
        /\ g.opcodes[Size(f) + 1] = opcode
        /\ \A n \in 1..Size(f) : g.opcodes[n] = f.opcodes[n]
    BY StoringFacts DEF CInv
  <1>2. \A k \in DOMAIN funcs : k # t => funcs'[k] = funcs[k]
    BY DEF Storing
  <1>3. \A k \in DOMAIN funcs : funcs'[k].offset = funcs[k].offset
    BY DEF Storing
  <1>4. /\ rom' = rom
        /\ DOMAIN funcs \subseteq DOMAIN funcs' /\ DOMAIN frames \subseteq DOMAIN frames'
        /\ \A k \in DOMAIN funcs' \ DOMAIN funcs :
               /\ Transfers(opcode) /\ funcs'[k].offset = TargetOf(opcode)
               /\ \E a \in DOMAIN frames' : frames'[a].func = k
        /\ Transfers(opcode) =>
              \E k \in DOMAIN funcs' :
                 TargetOf(opcode) \in funcs'[k].offset..(funcs'[k].offset + Size(funcs'[k]))
    BY DEF Storing, Size
  <1>5. \A k \in DOMAIN funcs : Size(funcs[k]) \in Nat /\ funcs[k].offset \in Nat
    BY TableFacts DEF CInv
  <1>6. /\ \A x : x \in AllTargets <=>
                \E k \in DOMAIN funcs : \E n \in 1..Size(funcs[k]) :
                   Transfers(funcs[k].opcodes[n]) /\ x = TargetOf(funcs[k].opcodes[n])
        /\ \A x : x \in AllTargets' <=>
                \E k \in DOMAIN funcs' : \E n \in 1..Size(funcs'[k]) :
                   Transfers(funcs'[k].opcodes[n]) /\ x = TargetOf(funcs'[k].opcodes[n])
    <2>1. funcs \in Seq(Entries) /\ funcs' \in Seq(Entries)
      BY DEF CInv, GInv, TypeOK, Entries
    <2>2. AllTargets = TargetsIn(funcs) /\ AllTargets' = TargetsIn(funcs')
      BY DEF AllTargets, TargetsIn
    <2>3. QED
      BY <2>1, <2>2, TargetsListedIn
  <1>7. /\ \A n \in 1..Size(g) : n = Size(f) + 1 \/ n \in 1..Size(f)
        /\ 1..Size(f) \subseteq 1..Size(g) /\ Size(f) + 1 \in 1..Size(g)
    BY <1>1
  <1>8. \A k \in DOMAIN funcs' \ DOMAIN funcs : 1..Size(funcs'[k]) = {}
    BY EmptySeq DEF Storing, Size
  <1>9. \A a \in DOMAIN frames : frames'[a].func = frames[a].func
    BY <1>1
  <1> HIDE DEF d, t, f, g
  <1>10. \A x \in AllTargets : x \in AllTargets'
    <2>1. ASSUME NEW k \in DOMAIN funcs, NEW n \in 1..Size(funcs[k]), Transfers(funcs[k].opcodes[n])
          PROVE  TargetOf(funcs[k].opcodes[n]) \in AllTargets'
      <3>1. n \in 1..Size(funcs'[k]) /\ funcs'[k].opcodes[n] = funcs[k].opcodes[n]
        <4>1. CASE k = t
          BY <1>1, <1>7, <2>1, <4>1 DEF f, g
        <4>2. CASE k # t
          BY <1>2, <2>1, <4>2
        <4>3. QED
          BY <4>1, <4>2
      <3>2. QED
        BY <1>4, <1>6, <2>1, <3>1
    <2>2. QED
      BY <1>6, <2>1
  <1>11. \A x \in AllTargets' : x \in AllTargets \/ (x = TargetOf(opcode) /\ Transfers(opcode))
    <2>1. ASSUME NEW k \in DOMAIN funcs', NEW n \in 1..Size(funcs'[k]), Transfers(funcs'[k].opcodes[n])
          PROVE  \/ TargetOf(funcs'[k].opcodes[n]) \in AllTargets
                 \/ funcs'[k].opcodes[n] = opcode
      <3>1. k \in DOMAIN funcs
        BY <1>8, <2>1
      <3>2. CASE k = t
        BY <1>1, <1>6, <1>7, <2>1, <3>1, <3>2 DEF f, g
      <3>3. CASE k # t
        BY <1>2, <1>6, <2>1, <3>1, <3>3
      <3>4. QED
        BY <3>2, <3>3
    <2>2. QED
      BY <1>6, <2>1
  <1>12. Transfers(opcode) => TargetOf(opcode) \in AllTargets'
    BY <1>1, <1>4, <1>6, <1>7 DEF f, g
  <1>13. Complete'
    <2>1. ASSUME NEW k \in DOMAIN funcs', \A a \in DOMAIN frames' : frames'[a].func # k
          PROVE  LET h == funcs'[k] IN
                 \/ ~InRom(Node(h, Size(h) + 1))
                 \/ Size(h) # 0 /\ Ended(Node(h, Size(h)), h.opcodes[Size(h)])
      <3>1. k \in DOMAIN funcs
        BY <1>4, <2>1
      <3>2. \A a \in DOMAIN frames : frames[a].func # k
        BY <1>4, <1>9, <2>1
      <3>3. funcs'[k] = funcs[k]
        BY <1>1, <1>2, <3>1, <3>2
      <3>4. QED
        BY <3>1, <3>2, <3>3 DEF CInv, Complete
    <2>2. QED
      BY <1>4, <2>1, RomStays DEF Complete
  <1>14. StartsNamed'
    <2>1. ASSUME NEW k \in DOMAIN funcs' PROVE funcs'[k].offset \in AllTargets' \cup {0}
      <3>1. CASE k \in DOMAIN funcs
        BY <1>3, <1>10, <3>1 DEF CInv, StartsNamed
      <3>2. CASE k \notin DOMAIN funcs
        BY <1>4, <1>12, <2>1, <3>2
      <3>3. QED
        BY <3>1, <3>2
    <2>2. QED
      BY <2>1 DEF StartsNamed
  <1>15. TargetsHeld'
    <2>1. ASSUME NEW x \in AllTargets \cup {0}
          PROVE  \E k \in DOMAIN funcs' : x \in funcs'[k].offset..(funcs'[k].offset + Size(funcs'[k]))
      <3>1. PICK k \in DOMAIN funcs : x \in funcs[k].offset..(funcs[k].offset + Size(funcs[k]))
        BY <2>1 DEF CInv, TargetsHeld
      <3>2. Size(funcs'[k]) \in Nat /\ Size(funcs[k]) <= Size(funcs'[k])
        <4>1. CASE k = t
          BY <1>1, <4>1 DEF f, g
        <4>2. CASE k # t
          BY <1>2, <1>5, <4>2
        <4>3. QED
          BY <4>1, <4>2
      <3>3. x \in funcs'[k].offset..(funcs'[k].offset + Size(funcs'[k]))
        BY <1>3, <1>5, <3>1, <3>2
      <3>4. QED
        BY <1>4, <3>1, <3>3
    <2>2. QED
      BY <1>4, <1>11, <2>1 DEF TargetsHeld
  <1>16. QED
    BY <1>13, <1>14, <1>15

\* A call returns when its function is complete.
LEMMA ReturnKeepsCover ==
  ASSUME CInv, status = "grabbing", ReturnFromGrab,
         \/ top.at = "stored" /\ Ended(top.pc, top.opcode)
         \/ top.at = "read" /\ ~InRom(top.pc)
  PROVE  /\ status' = "grabbed" => frames' = <<>>
         /\ Faithful' /\ Placed' /\ Continuous' /\ ReadsOn' /\ Complete'
         /\ StartsNamed' /\ TargetsHeld'
  <1> DEFINE d == Len(frames)
  <1>1. /\ rom' = rom /\ funcs' = funcs /\ frames' = SubSeq(frames, 1, d - 1)
        /\ status' = IF d = 1 THEN "grabbed" ELSE status
    BY DEF ReturnFromGrab
  <1>2. /\ frames \in Seq(Frames(Len(funcs))) /\ d \in Nat \ {0} /\ DOMAIN frames = 1..d
        /\ frames # <<>> /\ top = frames[d] /\ top.func \in DOMAIN funcs
    BY TopType, TableFacts DEF CInv, GInv, top
  <1>3. /\ frames' \in Seq(Frames(Len(funcs))) /\ Len(frames') = d - 1
        /\ \A a \in 1..(d - 1) : frames'[a] = frames[a]
    BY <1>1, <1>2, DropLast
  <1> HIDE DEF d
  <1>4. /\ DOMAIN frames' = 1..(d - 1) /\ 1..(d - 1) \subseteq 1..d
        /\ \A a \in 1..d : a = d \/ a \in 1..(d - 1)
        /\ (d = 1 => frames' = <<>>)
    BY <1>2, <1>3
  <1>5. status' = "grabbed" => frames' = <<>>
    BY <1>1, <1>4
  <1>6. Faithful' /\ Continuous' /\ StartsNamed' /\ TargetsHeld'
    <2>1. AllTargets' = AllTargets
      BY <1>1 DEF AllTargets
    <2>2. QED
      BY <1>1, <2>1, RomStays DEF CInv, Faithful, Continuous, StartsNamed, TargetsHeld
  <1>7. Placed'
    BY <1>1, <1>2, <1>3, <1>4 DEF CInv, Placed
  <1>8. ReadsOn'
    BY <1>1, <1>2, <1>3, <1>4, RomStays DEF CInv, ReadsOn
  <1>9. Complete'
    <2>1. ASSUME NEW k \in DOMAIN funcs, \A a \in DOMAIN frames' : frames'[a].func # k
          PROVE  LET h == funcs[k] IN
                 \/ ~InRom(Node(h, Size(h) + 1))
                 \/ Size(h) # 0 /\ Ended(Node(h, Size(h)), h.opcodes[Size(h)])
      <3>1. CASE k = top.func
        <4>1. d \in DOMAIN frames
          BY <1>2
        <4>2. QED
          BY <1>2, <3>1, <4>1 DEF CInv, Placed
      <3>2. CASE k # top.func
        <4>1. \A a \in DOMAIN frames : frames[a].func # k
          BY <1>2, <1>3, <1>4, <2>1, <3>2
        <4>2. QED
          BY <2>1, <4>1 DEF CInv, Complete
      <3>3. QED
        BY <3>1, <3>2
    <2>2. QED
      BY <1>1, <2>1, RomStays DEF Complete
  <1>10. QED
    BY <1>5, <1>6, <1>7, <1>8, <1>9

LEMMA AdvanceKeepsCover ==
  ASSUME CInv, Advance
  PROVE  /\ status' = "grabbed" => frames' = <<>>
         /\ Faithful' /\ Placed' /\ Continuous' /\ ReadsOn' /\ Complete'
         /\ StartsNamed' /\ TargetsHeld'
  <1> DEFINE f == [top EXCEPT !.pc = top.pc + 2, !.at = "read"]
             d == Len(frames)
             h == funcs[top.func]
  <1>1. /\ status = "grabbing" /\ top.at = "stored" /\ rom' = rom /\ funcs' = funcs
        /\ status' = status /\ frames' = SetTop(f)
        /\ Passed(top.pc, top.opcode)
    BY DEF Advance, Grabbing, Passed
  <1>2. /\ frames \in Seq(Frames(Len(funcs))) /\ d \in Nat \ {0} /\ DOMAIN frames = 1..d
        /\ frames # <<>> /\ top = frames[d] /\ top.func \in DOMAIN funcs /\ d \in 1..d
        /\ top \in Frames(Len(funcs))
    BY <1>1, TopType, TableFacts DEF CInv, GInv, top
  <1>3. /\ DOMAIN frames' = DOMAIN frames /\ frames'[d] = f
        /\ \A a \in DOMAIN frames : a # d => frames'[a] = frames[a]
    BY <1>1, <1>2 DEF SetTop
  <1>4. f.func = top.func /\ f.at = "read" /\ f.pc = top.pc + 2
    BY <1>2 DEF Frames
  <1>5. /\ Size(h) \in Nat \ {0} /\ h.offset \in Nat /\ top.pc = Node(h, Size(h))
        /\ top.opcode = h.opcodes[Size(h)]
    <2>1. Size(h) \in Nat /\ h.offset \in Nat
      BY <1>2, TableFacts DEF CInv
    <2>2. QED
      BY <1>1, <1>2, <2>1 DEF CInv, Placed
  <1>6. top.pc + 2 = Node(h, Size(h) + 1)
    BY <1>5 DEF Node
  <1> HIDE DEF d, f, h
  <1>7. Faithful' /\ Continuous' /\ StartsNamed' /\ TargetsHeld'
    <2>1. AllTargets' = AllTargets
      BY <1>1 DEF AllTargets
    <2>2. QED
      BY <1>1, <2>1, RomStays DEF CInv, Faithful, Continuous, StartsNamed, TargetsHeld
  <1>8. Placed'
    <2>1. ASSUME NEW a \in DOMAIN frames, a # d
          PROVE  LET k == frames'[a].func IN
                 /\ frames'[a].at = "read" => frames'[a].pc = Node(funcs[k], Size(funcs[k]) + 1)
                 /\ frames'[a].at = "stored" =>
                       /\ Size(funcs[k]) # 0
                       /\ frames'[a].pc = Node(funcs[k], Size(funcs[k]))
                       /\ frames'[a].opcode = funcs[k].opcodes[Size(funcs[k])]
      BY <1>3, <2>1 DEF CInv, Placed
    <2>2. QED
      BY <1>1, <1>3, <1>4, <1>6, <2>1 DEF Placed, h
  <1>9. ReadsOn'
    <2>1. ASSUME NEW a \in DOMAIN frames, a # d,
                 frames'[a].at = "read", Size(funcs[frames'[a].func]) # 0
          PROVE  Passed(Node(funcs[frames'[a].func], Size(funcs[frames'[a].func])),
                        funcs[frames'[a].func].opcodes[Size(funcs[frames'[a].func])])
      BY <1>3, <2>1 DEF CInv, ReadsOn
    <2>2. QED
      BY <1>1, <1>3, <1>4, <1>5, <2>1, RomStays DEF ReadsOn, h
  <1>10. Complete'
    <2>1. \A a \in DOMAIN frames : frames'[a].func = frames[a].func
      BY <1>2, <1>3, <1>4
    <2>2. QED
      BY <1>1, <1>3, <2>1, RomStays DEF CInv, Complete
  <1>11. QED
    BY <1>1, <1>7, <1>8, <1>9, <1>10

THEOREM CInvInit == Init => CInv
  <1> SUFFICES ASSUME Init PROVE CInv
    OBVIOUS
  <1>1. GInv
    BY GInvInit
  <1>2. 0 \in Word
    BY WordRange DEF WordSize
  <1>3. Func(0).offset = 0 /\ Func(0).opcodes = <<>> /\ Size(Func(0)) = 0
    BY <1>2, FuncType DEF Size
  <1>4. Frame(1, 0).func = 1 /\ Frame(1, 0).pc = 0 /\ Frame(1, 0).at = "read"
    BY <1>2, FrameType
  <1>5. funcs = << Func(0) >> /\ frames = << Frame(1, 0) >> /\ status = "grabbing"
    BY DEF Init
  <1>6. DOMAIN funcs = {1} /\ DOMAIN frames = {1} /\ funcs[1] = Func(0) /\ frames[1] = Frame(1, 0)
    BY <1>5
  <1>7. /\ 1..Size(Func(0)) = {} /\ 1..(Size(Func(0)) - 1) = {}
        /\ Node(Func(0), Size(Func(0)) + 1) = 0 /\ 0 \in 0..(0 + Size(Func(0)))
    BY <1>3 DEF Node
  <1>8. AllTargets = {}
    <2>1. \A t : t \notin AllTargets
      BY <1>1, <1>6, <1>7, TargetsListed
    <2>2. QED
      BY <2>1
  <1>9. Faithful /\ Continuous /\ Placed /\ ReadsOn
    BY <1>3, <1>4, <1>6, <1>7 DEF Faithful, Continuous, Placed, ReadsOn
  <1>10. Complete /\ StartsNamed /\ TargetsHeld
    BY <1>3, <1>4, <1>6, <1>7, <1>8 DEF Complete, StartsNamed, TargetsHeld
  <1>11. QED
    BY <1>1, <1>5, <1>9, <1>10 DEF CInv

THEOREM CInvStep == CInv /\ [GrabNext]_gvars => CInv'
  <1> SUFFICES ASSUME CInv, [GrabNext]_gvars PROVE CInv'
    OBVIOUS
  <1>1. GInv /\ GInv'
    BY GInvStep DEF CInv
  <1>2. CASE StoreOpcode \/ GrabTarget
    <2>1. PICK opcode \in Word : Storing(opcode)
      BY <1>1, <1>2, StoreOpcodeStores, GrabTargetStores
    <2>2. status' = "grabbing"
      BY <2>1 DEF Storing
    <2>3. QED
      BY <1>1, <2>1, <2>2, StoringKeepsOrder, StoringKeepsCover DEF CInv
  <1>3. CASE LeaveTables \/ UNCHANGED gvars
    <2>1. /\ rom' = rom /\ funcs' = funcs /\ frames' = frames
          /\ status' = status \/ status' = "wild"
      BY <1>3 DEF LeaveTables, gvars
    <2>2. AllTargets' = AllTargets
      BY <2>1 DEF AllTargets
    <2>3. QED
      BY <1>1, <2>1, <2>2, RomStays DEF CInv, Faithful, Placed, Continuous, ReadsOn, Complete,
                                        StartsNamed, TargetsHeld
  <1>4. CASE EndAtJump
    BY <1>1, <1>4, ReturnKeepsCover DEF EndAtJump, Grabbing, Ended, CInv
  <1>5. CASE EndOfRom
    BY <1>1, <1>5, ReturnKeepsCover DEF EndOfRom, Grabbing, CInv
  <1>6. CASE Advance
    BY <1>1, <1>6, AdvanceKeepsCover DEF CInv
  <1>7. QED
    BY <1>2, <1>3, <1>4, <1>5, <1>6 DEF GrabNext

\* Whatever ROM is grabbed, into tables of whatever size: when it is over and all jumps
\* and calls in it have even targets, each target in the ROM is an instruction of some
\* function.
THEOREM TargetsCorrect == GrabSpec => []TargetsGrabbed
  <1>1. QED
    BY CInvInit, CInvStep, TargetsAreNodes, PTL DEF GrabSpec

\* And so is everything that execution can reach from the start of the ROM, except what
\* is reached only over a jump or return behind EX9E or EXA1.
THEOREM ReachCorrect == GrabSpec => []ReachableIsGrabbed
  <1>1. QED
    BY CInvInit, CInvStep, ReachableHeld, PTL DEF GrabSpec

=============================================================================
