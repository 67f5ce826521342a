----------------------------- MODULE MCSpriteLoop -----------------------------
(***************************************************************************)
(* TLC instance of SpriteLoop: every alignment with the right and bottom    *)
(* edges, sprites of zero to fifteen rows, an empty and a striped screen.     *)
(***************************************************************************)
EXTENDS SpriteLoop

NoRoms == {}

EdgeColumns == {0, 1, 7, 255} \cup (48..66)
EdgeLines   == {0, 14, 17, 63, 200} \cup (28..33)

Constant(n, b) == [k \in 1..n |-> b]

FewSprites == { Constant(n, 255) : n \in {0, 1, 2, 4, 15} } \cup { <<\h81, \h18, \hA5>> }

FewScreens == { {}, { p \in Pixels : p % 5 = 0 } }

=============================================================================
