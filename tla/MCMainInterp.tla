----------------------------- MODULE MCMainInterp -----------------------------
(***************************************************************************)
(* TLC instance of MainInterp: endless loops of several kinds, programs that *)
(* end, and programs that wait for the delay timer.                        *)
(***************************************************************************)
EXTENDS MainInterp, MCRoms

Endless ==
    { << \h1200 >>,
      << \h1202, \h1200 >>,
      << \h7001, \h1200 >>,
      << \hB200 >>,
      << \h2204, \h1200, \h00EE >>,
      << \hD001, \h1200 >>,
      << \h3000, \h1200, \h1200 >> }

Ending == { << \h6001 >>, << \h2200 >>, << \h00EE >> }

\* Loops of three and five instructions that poll the delay timer for n.
Poll3(n) == << \hF207, \h3200 + n, \h1200, 0 >>
Poll5(n) == << \h7001, \hF207, \h8300, \h3200 + n, \h1200, 0 >>

Waiting == { Poll3(n) : n \in {0, 1, 31, 32, 63} } \cup { Poll5(n) : n \in {0, 1, 63} }

LoopRoms == { Image(p) : p \in Endless \cup Ending \cup Waiting }

WaitingImages == { Boot(Image(p)) : p \in Waiting }

\* A program that polls the delay timer until it reads a given value, in a loop
\* whose number of instructions has no divisor in common with the timer's
\* range, sees that value and goes on to its end, unless the window is closed:
\* cpuInterpStep counts the timer down at every instruction and lets it wrap, so
\* no poll can miss the value for ever.
WaitEnds == ram \in WaitingImages => <>(status = "exited" \/ at = "over")

=============================================================================
