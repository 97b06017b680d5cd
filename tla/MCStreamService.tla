---------------------------- MODULE MCStreamService ----------------------------
(* Model values for StreamService; the threads of a kind and the objects are *)
(* interchangeable, session and stream ids are kept apart by their keys.     *)
EXTENDS StreamService, TLC

Symmetry == Permutations(Items) \cup Permutations(Rpcs) \cup Permutations(Recyclers)

===============================================================================
