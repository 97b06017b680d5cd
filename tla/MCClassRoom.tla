------------------------------ MODULE MCClassRoom ------------------------------
(***************************************************************************)
(* ClassRoom for TLC: the students are interchangeable.                    *)
(***************************************************************************)
EXTENDS ClassRoom, TLC

Symmetry == Permutations(Streams \ Teachers)

===============================================================================
