--------------------------- MODULE MCContextView ---------------------------
(***************************************************************************)
(* Instances of ContextView for TLC.  The references are interchangeable.  *)
(***************************************************************************)
EXTENDS ContextView, TLC

CONSTANTS u1, u2, u3, gnd, sda, long  \* model values

\* Every component is placed, anywhere, and connected to ground.
GroundedBoards == [Refs -> [at : Places, net : {gnd}]]

\* A long name is truncated to what is the name of another net.
Truncated == [n \in Nets |-> IF n = long THEN sda ELSE n]

RefSymmetry == Permutations(Refs)
=============================================================================
