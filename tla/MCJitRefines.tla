----------------------------- MODULE MCJitRefines -----------------------------
(***************************************************************************)
(* TLC instance of JitRefines: programs of instructions to which both        *)
(* engines give the same meaning, programs with one of each kind that ends   *)
(* the agreement, and programs that write over their own code or overflow    *)
(* the buffer.                                                             *)
(***************************************************************************)
EXTENDS JitRefines, MCRoms

\* Control transfers between deferred effects.  Jumps stay on even addresses.
FlowAlphabet ==
    { \h2204, \h00EE, \h1202, \hB200, \h3006, \h6006, \h7002, \hA010, \hF133, \hF165 }

FlowPrograms == { <<first>> \o p : first \in { \h2204, \h6006, \hA010 },
                                   p \in Programs(FlowAlphabet, 3) }

DataAlphabet ==
    { \h00E0, \h1200, \h4100, \h6005, \h61FF, \h7F03, \h8010, \h8F00, \hA0FE, \hF029,
      \hF133, \hF02A, \hD01F, \hD012, \h2202 }

\* One program for each way to part, behind an instruction on which both agree.
PartingPrograms ==
    { << first, parting, \h3000, \h1200 >> :
          first \in { \h6005, \hA206 },
          parting \in { \h8011, \h8012, \h8015, \h8017, \h801E, \h5010, \h9010, \hC0FF, \hE09E,
                       \hF007, \hF015, \hF065, \hF033 } }
    \cup { << \hAFFF, \hF033, \h3000 >>, << \hA204, \hF033, \h6001, \h3000 >> }

\* Self-modification, odd addresses and loops that fill the buffer.
WildFlowAlphabet ==
    { \h2200, \h2204, \h00EE, \h1202, \hB1FE, \hA202, \hF033, \h6023, \h3004, \h4000 }

\* Every instruction that the JIT translates, and two that it rejects.
WideDataAlphabet ==
    { \h60FE, \h6F81, \h7103, \h8010, \h8F02, \h8015, \h8017, \h8FFE, \hAFFE,
      \hF129, \hF165, \hF133, \hD01F, \h00E0, \h3083, \hC103, \hE09E, \h1200 }

AllRoms == { Image(p) : p \in FlowPrograms \cup Programs(DataAlphabet, 3) \cup PartingPrograms
                              \cup Programs(WildFlowAlphabet, 4)
                              \cup Programs(WideDataAlphabet, 3) }

=============================================================================
