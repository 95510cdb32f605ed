---------------------------- MODULE MCTimeWheel ----------------------------
(***************************************************************************)
(* The timing wheel for TLC: items are interchangeable.                    *)
(***************************************************************************)
EXTENDS TimeWheel, TLC

Symmetry == Permutations(Items)

============================================================================
