------------------------------ MODULE MCRecomp ------------------------------
(***************************************************************************)
(* TLC instance of RecompRefines: programs that are grabbed, printed,        *)
(* compiled and run, and others that fail on the way.                      *)
(***************************************************************************)
EXTENDS RecompRefines, MCRoms

\* Skips, jumps back and forth, calls and returns.
FlowAlphabet == { \h1204, \h2206, \h00EE, \h3000, \h4001, \h7001 }

FlowPrograms == { <<first>> \o p \o << next, \h00EE >> :
                      first \in { \h2206, \h1204, \h3001 },
                      p \in Programs(FlowAlphabet, 3),
                      next \in { \h1204, \h3000, \h7001 } }

\* One or two statements between a load and the end.
DataAlphabet ==
    { \h00E0, \h60FF, \h7F03, \h8010, \h8F01, \h8F02, \h8F04, \h8F06, \h8F0E, \hA0FE, \hAFFF,
      \hF029, \hF033, \hF065, \hD01F, \hC003, \h5F00, \h9F00 }

DataPrograms == { p \o << \h00EE >> : p \in Programs(DataAlphabet, 2) }

\* One program for each of the ways not to agree, or not to get that far.
OtherPrograms ==
    { << \hB200 >>, [n \in 1..7 |-> \h6000],
      << \h3000, \h3000, \h3000, \h6000, \h00EE >>,
      << \hE09E, \h7001, \h00EE >>, << \hE0A1, \h7001, \h00EE >>, << \hE000, \h00EE >>,
      << \h2200 >>, << \h2204, \h00EE, \h2204 >>,
      << \hF055, \hF01E, \hF007, \hF00A, \h00EE >>, << \hAFFF, \hF155, \h00EE >>,
      << \h8013, \h8015, \h8017, \h8018, \h00EE >>,
      << \h2208, \h00EE, \h6005, \h00EE, \h1204 >>,
      << \h1206, \h7001, \h00EE, \h2202, \h00EE >>,
      << \h6110, \hA208, \hF133, \h7101, \h6000, \h00EE >> }

\* A ROM that fills ram, with a jump to its last byte.
LastByte == [k \in 1..(RamSize - Entry) |->
                CASE k = 1 -> \h1F [] k = 2 -> \hFF [] k = RamSize - Entry -> \h60 [] OTHER -> 0]

SmallRoms == { Image(p) : p \in FlowPrograms \cup DataPrograms \cup OtherPrograms }
             \cup { <<>>, << \h60, \h01, \h00 >>, LastByte }

=============================================================================
