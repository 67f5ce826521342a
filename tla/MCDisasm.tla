------------------------------- MODULE MCDisasm -------------------------------
(***************************************************************************)
(* TLC instances of Disasm: every program of five instructions over jumps,  *)
(* calls, returns, skips and one plain instruction, longer ones whose        *)
(* chunks wrap their size or hold texts of every length, and shorter ones    *)
(* that skip on keys or jump to odd addresses.                             *)
(***************************************************************************)
EXTENDS Disasm, MCRoms

Alphabet == { \h1200, \h1208, \h2204, \h00EE, \h3000, \h6000 }

\* Seven instructions, more than SizeRange counts.
LongAlphabet == { \h1202, \h2206, \h4000 }

\* Jumps and calls to odd addresses, and from there on.
OddAlphabet == { \h1201, \h2203, \h2212, \h6012, \h4000 }

\* Jumps, a call and a return behind skips on keys, and behind an opcode of the
\* same class that is none.
KeyAlphabet == { \hE09E, \hE1A1, \hE000, \h1202, \h2206, \h00EE, \h6000 }

\* Texts of 7, 15, 16 and 39 characters, one tab included in each.
TextAlphabet == { \h00E0, \hF029, \h5010, \h0000 }

NoRoms == {}

SmallFiles == { Image(p) : p \in Programs(Alphabet, 5) \cup Programs(LongAlphabet, 7)
                                 \cup Programs(TextAlphabet, 5)
                                 \cup Programs(OddAlphabet, 3)
                                 \cup Programs(KeyAlphabet, 4) }
              \cup { <<>>, <<\h60>>, <<\h60, \h00, \h00>> }

\* A jump behind "skip_key_down V0".
KeyFiles == { Image(<< \h6000, \hE09E, \h1200, \h00EE >>) }

=============================================================================
