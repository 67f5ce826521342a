-------------------------------- MODULE MCRoms --------------------------------
(***************************************************************************)
(* ROM images for the TLC instances: a program is a sequence of opcodes.   *)
(***************************************************************************)
EXTENDS Integers, Sequences

\* The bytes of a sequence of opcodes, big-endian.
Image(p) == [k \in 1..(2 * Len(p)) |->
                IF k % 2 = 1 THEN p[(k + 1) \div 2] \div 256 ELSE p[k \div 2] % 256]

\* Every program of n instructions over a set of opcodes.
Programs(alphabet, n) == [1..n -> alphabet]

=============================================================================
