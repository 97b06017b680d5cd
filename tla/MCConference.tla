------------------------------ MODULE MCConference ------------------------------
(***************************************************************************)
(* The two forwarders a conference room can be built with, checked in one  *)
(* model: the new one with its queues (VideoForward) and the old one       *)
(* (VideoForwardElement).  A room has one of them, so a behaviour is one   *)
(* of a single forwarder, part, while the other rests.                     *)
(***************************************************************************)
EXTENDS VideoForward

CONSTANTS OldIds, OldPrebuffering, MaxOldQueue, MaxSwitches, MaxLate  \* of VideoForwardElement

VARIABLES
  part,                                                             \* the forwarder in use
  linked, buffer, context, current_viewer_, new_viewer_, changing_, left, baseless, shown,
  switches                                                          \* VideoForwardElement

Old == INSTANCE VideoForwardElement WITH
  Ids <- OldIds, Prebuffering <- OldPrebuffering, MaxQueue <- MaxOldQueue

ASSUME ConferenceAssumption == Old!ElementAssumption

oldVars == <<linked, buffer, context, current_viewer_, new_viewer_, changing_, left, baseless,
  shown, switches>>
allVars == <<part, vars, oldVars>>

AllInit == part \in {"new", "old"} /\ Init /\ Old!Init

AllNext ==
  \/ part = "new" /\ Next /\ UNCHANGED <<part, oldVars>>
  \/ part = "old" /\ Old!Next /\ UNCHANGED <<part, vars>>

AllSpec == AllInit /\ [][AllNext]_allVars

-------------------------------------------------------------------------------
(* The properties of the old forwarder; VideoForward's have their own names. *)

\* LinkVideoStream, UnlinkVideoStream and SwitchPublisher keep the current viewer,
\* the one to come and everybody's source among the linked streams, and what
\* SelectiveVideoForwardLoop first gives a stream of a new source is a key frame,
\* with the base of its context set (but for a stream left alone).
ElementIsSound ==
  /\ Old!TypeOK /\ Old!ViewersAreLinked /\ Old!SourceIsLinked
  /\ Old!ShownFromKeyFrame /\ Old!BaseIsSet

===============================================================================
