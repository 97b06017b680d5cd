------------------------------- MODULE StreamEnd -------------------------------
(***************************************************************************)
(* What the end of a stream promises to the session service: packets keep  *)
(* its key in stream_update_map_ until the teardown has removed it, and    *)
(* after that the key does not come back.  StreamService has the teardown  *)
(* as one step (Teardown); StreamTeardown implements this module.          *)
(***************************************************************************)
VARIABLES phase, watched

vars == <<phase, watched>>

Init == phase = "open" /\ watched = TRUE

\* A packet is noted.
Packet == phase # "ended" /\ watched' = TRUE /\ UNCHANGED phase

Close == phase = "open" /\ phase' = "closing" /\ UNCHANGED watched

End == phase = "closing" /\ phase' = "ended" /\ watched' = FALSE

Next == Packet \/ Close \/ End

Spec == Init /\ [][Next]_vars

===============================================================================
