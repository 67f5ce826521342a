------------------------------- MODULE MCGrab -------------------------------
(***************************************************************************)
(* TLC instances of Grab: every program of five instructions over jumps,    *)
(* calls, returns, skips and one plain instruction; targets that are odd or  *)
(* outside the ROM; ROMs of odd length; functions longer than MaxSize; jumps *)
(* and returns behind skips on keys.                                       *)
(***************************************************************************)
EXTENDS Grab, MCRoms

Alphabet == { \h1200, \h1206, \h2204, \h00EE, \h3000, \h6000 }

\* Odd targets and one outside the ROM; 6024 read from its second byte is 2460.
OddAlphabet == { \h1201, \h2203, \h2104, \h6012, \h4000 }

LongAlphabet == { \h1208, \h220A, \h6000 }

\* Jumps, a call and a return behind skips on keys, and behind an opcode of the
\* same class that is none.
KeyAlphabet == { \hE09E, \hE1A1, \hE000, \h1202, \h2206, \h00EE, \h6000 }

SmallRoms == { Image(p) : p \in Programs(Alphabet, 5) \cup Programs(OddAlphabet, 3)
                                \cup Programs(LongAlphabet, 6)
                                \cup Programs(KeyAlphabet, 4) }
             \cup { <<>>, <<\h60>>, <<\h60, \h00, \h00>>, <<\h30, \h00, \h12>> }

\* A jump inside "if(IsKeyReleased(...))", and what follows that if.
KeyRoms == { Image(<< \hE09E, \h1200, \h6005 >>) }

=============================================================================
