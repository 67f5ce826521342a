-------------------------------- MODULE MCAsm --------------------------------
(***************************************************************************)
(* TLC instance of Asm: every source of four lines over labels that are      *)
(* defined and used in any order, up to more words than pc counts, sources   *)
(* with comments, empty and long lines, and the text of single opcodes.     *)
(***************************************************************************)
EXTENDS Asm

CONSTANTS a, b    \* names of labels

NoRoms == {}

TheLines ==
    { <<>>,
      << Define(a) >>,
      << Define(b), Instr("jmp"), Use(b) >>,
      << Instr("jmp"), Use(a) >>,
      << Instr("call"), Use(b), Define(a), Instr("ret") >>,
      << Instr("jmp_i"), Use(a), Instr("jmp"), Use(a) >>,
      << Instr("ldv"), Register(1), Number(<<1, 0, 2, 4>>) >> }

\* A line of MaxLineLen tokens.
FullLine == [k \in 1..MaxLineLen |-> Instr("ret")]

\* Lines that are wrong, and one that is accepted with letters that are no digits.
WrongLines ==
    { << Instr("shift_l"), Register(0) >>,
      << Instr("ldi"), Register(0) >>,
      << Instr("ldv"), Number(<<1>>) >>,
      << Instr("ret"), Register(0) >>,
      << Use(a) >>,
      << Define(b), Junk >>,
      FullLine, FullLine \o << Instr("ret") >>,
      << Instr("skip_eq"), Register(2), Use(a), Instr("get_sound") >>,
      << Instr("draw"), Register(NoDigit), Register(NoDigit), Number(<<2, NoDigit>>) >>,
      << Instr("get_key"), Register(1) >>,
      << Instr("ldv"), Register(1), Define(b), Define(a) >>,
      << Instr("skip_eq"), Register(1), Instr("jmp"), Use(a) >>,
      << Instr("add"), Register(1), Instr("jmp"), Instr("ret") >>,
      << Instr("add"), Register(1), Junk >> }

\* Lines with newlines between them, none behind the last.
Joined(ls) == FoldRight(LAMBDA l, text : l \o <<Newline>> \o text,
                           SubSeq(ls, 1, Len(ls) - 1), ls[Len(ls)])

LabelSources == { Joined(ls) : ls \in [1..4 -> TheLines] }
WrongSources == { Joined(<<good, wrong, last>>) :
                     good \in TheLines, wrong \in WrongLines, last \in TheLines }

\* Comments and empty lines anywhere, and a full line at the end.
CommentSources == [1..5 -> { Semicolon, Newline, Define(a), Instr("jmp"), Use(a) }]
                  \cup { FullLine }

\* Each class and each second byte that is told apart, with three registers.
FewOpcodes ==
    { c * 4096 + x * 256 + low : c \in Reg, x \in {0, 1, 15},
        low \in {0, 1, \h07, \h0A, \h15, \h18, \h1E, \h29, \h33, \h55, \h65, \h9E, \hA1, \hE0, \hEE}
                  \cup { \hF0 + n : n \in Reg } }

TextSources == { Decode(opcode) : opcode \in FewOpcodes }

AllSources == LabelSources \cup WrongSources \cup CommentSources
              \cup TextSources

=============================================================================
