------------------------------ MODULE Mnemonics ------------------------------
(***************************************************************************)
(* The two tables of instruction names: Encode is processInstruction of the  *)
(* assembler (src/asm/src/instructions.c), Decode is disasmOpcode of the     *)
(* disassembler (src/disasm/src/main.c).  A text is the sequence of tokens    *)
(* that the assembler's tokenize makes of it, in lower case.               *)
(***************************************************************************)
EXTENDS Chip8, TLC, SequencesExt

Token(type, val) == [type |-> type, val |-> val]

Instr(name) == Token("instruction", name)
Register(x) == Token("register", <<x>>)    \* v and a digit
Number(ds)  == Token("number", ds)         \* # and digits
Use(name)   == Token("label_addr", name)   \* @name
Define(name) == Token("label", name)       \* name:
Junk        == Token("junk", "")           \* no token: tokenize exits
Newline     == Token("newline", "")
Semicolon   == Token("semicolon", "")      \* the rest of the line is a comment

\* What hexStrToInt takes a letter for that is no hexadecimal digit.
NoDigit == 17

-----------------------------------------------------------------------------
(* The assembler.                                                          *)

\* What each operand must be; "either" is a register or a number, and anything
\* else there leaves the opcode zero.
Operands(name) ==
    CASE name \in {"clear", "ret", "get_sound"}                -> <<>>
      [] name \in {"jmp", "call", "jmp_i"}                     -> <<"label_addr">>
      [] name \in {"ldv", "add", "skip_eq", "skip_ne"}         -> <<"register", "either">>
      [] name \in {"or", "and", "xor", "sub", "sub2", "shift_r", "shift_l"}
                                                               -> <<"register", "register">>
      [] name = "draw"                                         -> <<"register", "register", "number">>
      [] name = "rand"                                         -> <<"register", "number">>
      [] name = "ldi"                                          -> <<"number">>
      [] OTHER                                                 -> <<"register">>

\* The opcode without its operands.  get_sound is a valid name without a case.
Base == [clear |-> \h00E0, ret |-> \h00EE, get_sound |-> 0,
         jmp |-> \h1000, call |-> \h2000, jmp_i |-> \hB000,
         or |-> \h8001, and |-> \h8002, xor |-> \h8003, sub |-> \h8005, sub2 |-> \h8007,
         shift_r |-> \h8006, shift_l |-> \h800E,
         draw |-> \hD000, rand |-> \hC000, ldi |-> \hA000,
         skip_key_up |-> \hE09E, skip_key_down |-> \hE0A1,
         get_delay |-> \hF007, set_delay |-> \hF015, set_sound |-> \hF00A,
         add_i |-> \hF01E, get_sprite |-> \hF029, bcd |-> \hF033,
         dump_reg |-> \hF055, load_reg |-> \hF065]

\* Faulty variant of RegisterForm: skip_ne takes the code of skip_eq.
RegisterFormSwapped == [ldv |-> \h8000, add |-> \h8004, skip_eq |-> \h5000, skip_ne |-> \h5000]

RegisterForm == [ldv |-> \h8000, add |-> \h8004, skip_eq |-> \h5000, skip_ne |-> \h9000]
NumberForm   == [ldv |-> \h6000, add |-> \h7000, skip_eq |-> \h3000, skip_ne |-> \h4000]

Transfers == {"jmp", "call", "jmp_i"}

Or16(a, b) == Or8(a \div 256, b \div 256) * 256 + Or8(a % 256, b % 256)

\* The names that validInstruction knows.
InstructionNames == DOMAIN Base \cup DOMAIN RegisterForm

\* A word for which tokenize exits.
Unrecognized(token) ==
    token = Junk \/ (token.type = "instruction" /\ token.val \notin InstructionNames)

HexStrToInt(str, digits) ==
    FoldLeft(LAMBDA value, d : Or16((value * 16) % WordSize, d), 0,
             SubSeq(str, 1, Min({digits, Len(str)})))

\* getTokenReg and getTokenNum return a uint8_t.
RegisterOf(token) == HexStrToInt(token.val, 1)
NumberOf(token)   == HexStrToInt(token.val, 3) % 256

\* The opcode of an instruction with its operands; addr is the address that
\* getTokenLabelAddr returns for a label.
Encode(name, args, addr) ==
    LET x(opcode)  == Or16(opcode, RegisterOf(args[1]) * 256)
        xy(opcode) == Or16(x(opcode), RegisterOf(args[2]) * 16)
    IN  CASE name \in Transfers -> Or16(Base[name], addr)
          [] name = "ldi"  -> Or16(Base[name], NumberOf(args[1]))
          [] name = "rand" -> Or16(x(Base[name]), NumberOf(args[2]))
          [] name = "draw" -> Or16(xy(Base[name]), NumberOf(args[3]))
          [] name \in DOMAIN RegisterForm ->
                IF args[2].type = "register"    THEN xy(RegisterForm[name])
                ELSE IF args[2].type = "number" THEN Or16(x(NumberForm[name]), NumberOf(args[2]))
                ELSE 0
          [] Operands(name) = <<"register", "register">> -> xy(Base[name])
          [] Operands(name) = <<"register">>             -> x(Base[name])
          [] OTHER                                       -> Base[name]

-----------------------------------------------------------------------------
(* The disassembler.                                                       *)

MathNames ==
    [n \in 0..7 \cup {14} |->
        CASE n = 0 -> "ldv" [] n = 1 -> "or"  [] n = 2 -> "and"     [] n = 3 -> "xor"
          [] n = 4 -> "add" [] n = 5 -> "sub" [] n = 6 -> "shift_r" [] n = 7 -> "sub2"
          [] n = 14 -> "shift_l"]
Misc2Names ==
    [n \in {\h07, \h0A, \h15, \h18, \h1E, \h29, \h33, \h55, \h65} |->
        CASE n = \h07 -> "get_delay" [] n = \h0A -> "get_key"    [] n = \h15 -> "set_delay"
          [] n = \h18 -> "set_sound" [] n = \h1E -> "add_i"      [] n = \h29 -> "get_sprite"
          [] n = \h33 -> "bcd"       [] n = \h55 -> "dump_reg"   [] n = \h65 -> "load_reg"]

\* An unimplemented opcode is printed in parentheses; "v0+@200" is read as a register.
Decode(opcode) ==
    LET x    == Register(X(opcode))
        y    == Register(Y(opcode))
        imm  == Number(<<Y(opcode), Nib(opcode)>>)
        addr == Use(Addr(opcode))
        c    == Class(opcode)
        text(name, args) == <<Instr(name)>> \o args
    IN  CASE c = OP_MISC /\ Imm(opcode) = \hE0 -> text("clear", <<>>)
          [] c = OP_MISC /\ Imm(opcode) = \hEE -> text("ret", <<>>)
          [] c = OP_JMP       -> text("jmp", <<addr>>)
          [] c = OP_CALL      -> text("call", <<addr>>)
          [] c = OP_SKIP1     -> text("skip_eq", <<x, imm>>)
          [] c = OP_SKIP2     -> text("skip_ne", <<x, imm>>)
          [] c = OP_SKIP3     -> text("skip_eq", <<x, y>>)
          [] c = OP_MOV_IMM   -> text("ldv", <<x, imm>>)
          [] c = OP_ADD_IMM   -> text("add", <<x, imm>>)
          [] c = OP_MATH /\ Nib(opcode) \in {6, 14} -> text(MathNames[Nib(opcode)], <<x>>)
          [] c = OP_MATH /\ Nib(opcode) \in DOMAIN MathNames \ {6, 14} ->
                text(MathNames[Nib(opcode)], <<x, y>>)
          [] c = OP_SKIP4     -> text("skip_ne", <<x, y>>)
          [] c = OP_STORE     -> text("ldi", <<Number(<<X(opcode), Y(opcode), Nib(opcode)>>)>>)
          [] c = OP_JMP_INDEX -> text("jmp", <<Register(0)>>)
          [] c = OP_RAND      -> text("rand", <<x, imm>>)
          [] c = OP_DRAW      -> text("draw", <<x, y, Number(<<Nib(opcode)>>)>>)
          [] c = OP_IN /\ Imm(opcode) = \h9E -> text("skip_key_down", <<x>>)
          [] c = OP_IN /\ Imm(opcode) = \hA1 -> text("skip_key_up", <<x>>)
          [] c = OP_MISC2 /\ Imm(opcode) \in DOMAIN Misc2Names ->
                text(Misc2Names[Imm(opcode)], <<x>>)
          [] OTHER -> <<Junk>>

=============================================================================
