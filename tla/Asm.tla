--------------------------------- MODULE Asm ---------------------------------
(***************************************************************************)
(* The assembler, src/asm: strToLines cuts the text into lines; then one pass *)
(* over the lines, in which a label that is used before it was seen leaves a *)
(* back patch, and fillBackpatches at the end.  Words are written in the     *)
(* byte order of the file (outputAddWord and fillBackpatches swap the bytes  *)
(* on a little-endian machine, both alike).                                *)
(***************************************************************************)
EXTENDS Mnemonics

CONSTANTS
    Sources,    \* the texts assembled: sequences of tokens, newlines and semicolons
    MaxLineLen, \* MAX_LINE_LEN, in tokens
    PcRange,    \* number of values of pc, a uint16_t: 65536 in the code
    Opcodes     \* opcodes whose text from disasm is among the sources

ASSUME AsmAssumption ==
    /\ \A s \in Sources : s \in Seq(Range(s))
    /\ MaxLineLen \in Nat \ {0}
    /\ PcRange \in (Entry + 1)..WordSize
    /\ Opcodes \subseteq Word

\* The longest text of an opcode, that of draw, fits in a line.
ASSUME LineAssumption == MaxLineLen >= 4

VARIABLES
    source,
    lines,     \* the list that strToLines makes of it
    line,      \* number of lines that were tokenized
    tokens,    \* what is left of the last of them, from currentToken on
    pc,
    labels,    \* the list, oldest first
    patches,   \* the list, oldest first; while it is filled, what is left of it
    out,       \* outputFile, in words
    status     \* "splitting", "reading", "patching", "saved", or "exited" (exit(1)),
               \* "crashed" (a null token is dereferenced), "wild" when what
               \* follows depends on the bytes behind a text or a line, or
               \* "wrapped" when pc has gone round to addresses in front of 0x200

vars == <<source, lines, line, tokens, pc, labels, patches, out, status>>

Init ==
    /\ source \in Sources
    /\ lines = << <<>> >>
    /\ line = 0
    /\ tokens = <<>>
    /\ pc = Entry
    /\ labels = <<>>
    /\ patches = <<>>
    /\ out = <<>>
    /\ status = "splitting"

\* findLabel returns the first label of that name in the list.
Found(name) == { k \in DOMAIN labels : labels[k].name = name }

\* Faulty variant of LabelAddr: the last label of a name counts.
LabelAddrLast(name) == IF Found(name) = {} THEN 0 ELSE labels[Max(Found(name))].address

LabelAddr(name) == IF Found(name) = {} THEN 0 ELSE labels[Min(Found(name))].address

\* currentToken is of this type.
At(type) == status = "reading" /\ tokens # <<>> /\ Head(tokens).type = type

-----------------------------------------------------------------------------
(* strToLines and tokenize                                                 *)

Scan == [lines |-> << <<>> >>, comment |-> FALSE, long |-> FALSE]

\* Faulty variant of ScanPiece: the newline behind a comment belongs to it.
ScanPieceJoining(s, piece) ==
    CASE s.comment -> [s EXCEPT !.comment = piece # Newline]
      [] ~s.comment /\ piece = Semicolon -> [s EXCEPT !.comment = TRUE]
      [] ~s.comment /\ piece = Newline   -> [s EXCEPT !.lines = Append(@, <<>>)]
      [] OTHER -> [s EXCEPT !.lines[Len(s.lines)] = Append(@, piece),
                            !.long = @ \/ Len(Last(s.lines)) >= MaxLineLen]

\* One round of the loop: a comment ends with the newline, which ends its line too.
ScanPiece(s, piece) ==
    CASE piece = Newline -> [s EXCEPT !.lines = Append(@, <<>>), !.comment = FALSE]
      [] piece # Newline /\ (s.comment \/ piece = Semicolon) -> [s EXCEPT !.comment = TRUE]
      [] OTHER -> [s EXCEPT !.lines[Len(s.lines)] = Append(@, piece),
                            !.long = @ \/ Len(Last(s.lines)) >= MaxLineLen]

\* What the rounds of the loop have made of the whole text.
Scanned ==
    LET scan[n \in 0..Len(source)] ==
            IF n = 0 THEN Scan ELSE ScanPiece(scan[n - 1], source[n])
    IN  scan[Len(source)]

\* A line that is too long exits, before a comment that no newline ends makes the
\* scan run past the text.
StrToLines ==
    LET scan == Scanned IN
    /\ status = "splitting"
    /\ lines' = scan.lines
    /\ status' = IF scan.long THEN "exited" ELSE IF scan.comment THEN "wild" ELSE "reading"
    /\ UNCHANGED <<source, line, tokens, pc, labels, patches, out>>

\* A line of the full length has no terminating zero: the pointer to the next line,
\* which is stored behind it, overwrites it.
Unterminated == Len(lines[line + 1]) = MaxLineLen /\ line + 1 < Len(lines)

\* The next line is taken apart.
ReadLine ==
    /\ status = "reading" /\ tokens = <<>> /\ line < Len(lines)
    /\ ~Unterminated
    /\ line' = line + 1
    /\ IF \E k \in DOMAIN lines[line + 1] : Unrecognized(lines[line + 1][k])
       THEN status' = "exited" /\ tokens' = tokens
       ELSE tokens' = lines[line + 1] /\ status' = status
    /\ UNCHANGED <<source, lines, pc, labels, patches, out>>

ReadWild ==
    /\ status = "reading" /\ tokens = <<>> /\ line < Len(lines)
    /\ Unterminated
    /\ status' = "wild"
    /\ UNCHANGED <<source, lines, line, tokens, pc, labels, patches, out>>

\* Faulty variant of NewLabel: the label stands behind the next instruction.
NewLabelBehind ==
    /\ At("label")
    /\ labels' = Append(labels, [name |-> Head(tokens).val, address |-> pc + 2])
    /\ tokens' = Tail(tokens)
    /\ UNCHANGED <<source, lines, line, pc, patches, out, status>>

NewLabel ==
    /\ At("label")
    /\ labels' = Append(labels, [name |-> Head(tokens).val, address |-> pc])
    /\ tokens' = Tail(tokens)
    /\ UNCHANGED <<source, lines, line, pc, patches, out, status>>

-----------------------------------------------------------------------------
(* processInstruction                                                      *)

Name == Head(tokens).val

\* The operands that cannot be read: missing, or of another type.
Unreadable ==
    { k \in DOMAIN Operands(Name) :
        \/ k + 1 > Len(tokens)
        \/ Operands(Name)[k] \notin {"either", tokens[k + 1].type} }

OutputAddWord(opcode) == Append(out, opcode)

BackpatchHere(name) == Append(patches, [address |-> pc, name |-> name])

\* Faulty variant of ProcessInstruction: a back patch for known labels as well.
ProcessInstructionPatching ==
    LET arity == Len(Operands(Name))
        args  == SubSeq(tokens, 2, arity + 1)
        label == args[1].val
    IN  /\ At("instruction") /\ Unreadable = {} /\ pc + 2 < PcRange
        /\ IF Name \in Transfers
           THEN /\ out' = OutputAddWord(Encode(Name, args, LabelAddr(label)))
                /\ patches' = BackpatchHere(label)
           ELSE /\ out' = OutputAddWord(Encode(Name, args, 0))
                /\ patches' = patches
        /\ pc' = pc + 2
        /\ tokens' = SubSeq(tokens, arity + 2, Len(tokens))
        /\ UNCHANGED <<source, lines, line, labels, status>>

ProcessInstruction ==
    LET arity == Len(Operands(Name))
        args  == SubSeq(tokens, 2, arity + 1)
        label == args[1].val
    IN  /\ At("instruction") /\ Unreadable = {} /\ pc + 2 < PcRange
        /\ IF Name \in Transfers
           THEN /\ out' = OutputAddWord(Encode(Name, args, LabelAddr(label)))
                /\ patches' = IF LabelAddr(label) = 0
                              THEN BackpatchHere(label)
                              ELSE patches
           ELSE /\ out' = OutputAddWord(Encode(Name, args, 0))
                /\ patches' = patches
        /\ pc' = pc + 2
        /\ tokens' = SubSeq(tokens, arity + 2, Len(tokens))
        /\ UNCHANGED <<source, lines, line, labels, status>>

\* The last word that pc can count is written.  The assembler goes on, with labels
\* at 0 and patches in front of its buffer; the model does not.
WrapPc ==
    /\ At("instruction") /\ Unreadable = {} /\ pc + 2 >= PcRange
    /\ status' = "wrapped"
    /\ UNCHANGED <<source, lines, line, tokens, pc, labels, patches, out>>

\* The operands are read in order: a wrong one exits, a missing one is a null
\* pointer.
RejectOperand ==
    /\ At("instruction") /\ Unreadable # {}
    /\ status' = IF Min(Unreadable) + 1 > Len(tokens) THEN "crashed" ELSE "exited"
    /\ UNCHANGED <<source, lines, line, tokens, pc, labels, patches, out>>

SyntaxError ==
    /\ \E type \in {"register", "number", "label_addr"} : At(type)
    /\ status' = "exited"
    /\ UNCHANGED <<source, lines, line, tokens, pc, labels, patches, out>>

-----------------------------------------------------------------------------
(* fillBackpatches and outputSave                                          *)

EndOfSource ==
    /\ status = "reading" /\ tokens = <<>> /\ line = Len(lines)
    /\ status' = "patching"
    /\ UNCHANGED <<source, lines, line, tokens, pc, labels, patches, out>>

WordOf(address) == (address - Entry) \div 2 + 1

FillBackpatch ==
    /\ status = "patching" /\ patches # <<>> /\ Found(Head(patches).name) # {}
    /\ out' = [out EXCEPT ![WordOf(Head(patches).address)] =
                            Or16(@, LabelAddr(Head(patches).name))]
    /\ patches' = Tail(patches)
    /\ UNCHANGED <<source, lines, line, tokens, pc, labels, status>>

LabelNotFound ==
    /\ status = "patching" /\ patches # <<>> /\ Found(Head(patches).name) = {}
    /\ status' = "exited"
    /\ UNCHANGED <<source, lines, line, tokens, pc, labels, patches, out>>

OutputSave ==
    /\ status = "patching" /\ patches = <<>>
    /\ status' = "saved"
    /\ UNCHANGED <<source, lines, line, tokens, pc, labels, patches, out>>

Next ==
    \/ StrToLines \/ ReadLine \/ ReadWild
    \/ NewLabel \/ ProcessInstruction \/ WrapPc \/ RejectOperand \/ SyntaxError
    \/ EndOfSource \/ FillBackpatch \/ LabelNotFound \/ OutputSave

Spec == Init /\ [][Next]_vars

-----------------------------------------------------------------------------
(* Properties.                                                             *)

TypeOK ==
    /\ line \in 0..Len(lines)
    /\ pc = Entry + 2 * Len(out) /\ pc < PcRange
    /\ \A k \in DOMAIN labels : labels[k].address \in Entry..pc
    /\ \A k \in DOMAIN patches : patches[k].address \in Entry..(pc - 2)
    /\ out \in Seq(Word)
    /\ status \in {"splitting", "reading", "patching", "saved", "exited", "crashed", "wild",
                   "wrapped"}

\* Each word has at most one patch that waits for it, and a word with a patch is a
\* jump or call with a zero address: or-ing the label's address into it is the
\* same as storing it.
PatchesAwaited ==
    /\ \A k \in DOMAIN patches : Addr(out[WordOf(patches[k].address)]) = 0
    /\ \A j, k \in DOMAIN patches : j # k => patches[j].address # patches[k].address

T == INSTANCE TwoPass WITH
        file <- IF status = "saved" THEN out ELSE <<>>,
        outcome <- IF status = "saved" THEN "saved"
                   ELSE IF status \in {"exited", "crashed"} THEN "failed" ELSE "none"

\* One pass with back patches writes what two passes over the source would, with
\* labels defined before or after their uses, several times, or not at all, with
\* comments and empty lines anywhere; and it writes no file when any line is wrong.
\* Of a wild run, and of one whose pc wraps, nothing is said.
ImplementsTwoPass == T!Spec

\* The opcodes whose text, as disasm prints it, is not assembled to the same word.
\* They have no text of their own (other bits are ignored or they are unknown),
\* need a label or a second operand, are unknown to the assembler, lose the
\* first digit of an address, or have another code in the assembler's table.
NotReassembled(opcode) ==
    \/ Class(opcode) = OP_MISC /\ opcode \notin {\h00E0, \h00EE}
    \/ Class(opcode) \in {OP_JMP, OP_CALL, OP_JMP_INDEX, OP_IN}
    \/ Class(opcode) \in {OP_SKIP3, OP_SKIP4} /\ Nib(opcode) # 0
    \/ Class(opcode) = OP_MATH /\ Nib(opcode) \notin {0, 1, 2, 3, 4, 5, 7}
    \/ Class(opcode) = OP_STORE /\ Addr(opcode) > 255
    \/ Class(opcode) = OP_MISC2 /\ Imm(opcode) \notin (DOMAIN Misc2Names \ {\h0A, \h18})

\* Assembling the disassembler's text of one instruction gives the instruction
\* back, for exactly the opcodes not excepted above.
Reassembles ==
    status \in {"saved", "exited", "crashed"} =>
        \A opcode \in Opcodes :
            source = Decode(opcode) =>
                (NotReassembled(opcode) <=> ~(status = "saved" /\ out = <<opcode>>))

=============================================================================
