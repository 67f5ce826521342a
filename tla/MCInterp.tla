------------------------------- MODULE MCInterp -------------------------------
(***************************************************************************)
(* TLC instances of Interp: every program of four instructions over a small *)
(* instruction set, entered at 0x200 and followed by zeros.                *)
(***************************************************************************)
EXTENDS Interp, MCRoms

\* Control flow, self-modification (FX33 over the code at 0x202) and loops.
FlowAlphabet ==
    { \h2200, \h2204, \h00EE, \h1202, \hB1FE, \hA202, \hF033, \h6023,
      \h7004, \h3004, \h4000, \h9010 }

\* Registers, arithmetic, memory and screen.
DataAlphabet ==
    { \h60FE, \h6F81, \h7103, \h81F0, \h8011, \h8F02, \h8103, \h8F04, \h8015, \h80F6,
      \h8017, \h8FFE, \h5010, \hC103, \hE09E, \hF107, \hF115, \hF129, \hF165, \hD01F,
      \h00E0 }

FlowRoms == { Image(p) : p \in Programs(FlowAlphabet, 4) }
DataRoms == { Image(p) : p \in Programs(DataAlphabet, 3) }
AllRoms  == FlowRoms \cup DataRoms

=============================================================================
