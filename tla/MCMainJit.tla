------------------------------ MODULE MCMainJit ------------------------------
(***************************************************************************)
(* TLC instances of MainJit.                                               *)
(***************************************************************************)
EXTENDS MainJit, MCRoms

\* Every endless loop ends a block.
Blocked ==
    { << \hB200 >>,
      << \h3001, \h1200, \h1200 >>,
      << \h40FF, \h1204, \h1200 >>,
      << \hD001, \h1200 >>,
      << \h7001, \h30FE, \h1200, \h1200 >>,
      << \h2206, \h3001, \h1200, \h00EE >>,
      << \h6001 >>, << \h2200 >>, << \h00EE >> }

\* A program that ends as most do, in an endless loop of jumps.
Spinning == { << \h00E0, \h1204, \h1202 >> }

BlockedRoms  == { Image(p) : p \in Blocked }
SpinningRoms == { Image(p) : p \in Spinning }

=============================================================================
