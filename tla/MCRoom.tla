--------------------------------- MODULE MCRoom ---------------------------------
(***************************************************************************)
(* What the rooms are made of, checked in one model: the map from viewers  *)
(* to sources (VideoMap), the audio mixer (AudioMixer) and the estimator   *)
(* of the speaker (SpeakerEstimator).  Each has a lock of its own and      *)
(* calls of the others are inputs to it, so a behaviour is one of a single *)
(* part while the others rest.                                             *)
(***************************************************************************)
EXTENDS VideoMap, AudioMixer, SpeakerEstimator

VARIABLE part   \* the part in use

\* A second mixer, of two streams that are there from the start, with two rounds of
\* which the first may still be with a thread.
Rounds == INSTANCE AudioMixer WITH
  Early <- {1, 2}, Joiners <- {}, MaxRounds <- 2, MaxInputs <- 3

ASSUME RoomAssumption ==
  MixerAssumption /\ Rounds!MixerAssumption

allVars == <<part, mapVars, mixerVars, estimatorVars>>

AllInit ==
  /\ part \in {"map", "mixer", "rounds", "estimator"}
  /\ MapInit /\ EstimatorInit
  /\ IF part = "rounds" THEN Rounds!MixerInit ELSE MixerInit

AllNext ==
  /\ UNCHANGED part
  /\ \/ part = "map" /\ MapNext /\ UNCHANGED <<mixerVars, estimatorVars>>
     \/ part = "mixer" /\ MixerNext /\ UNCHANGED <<mapVars, estimatorVars>>
     \/ part = "rounds" /\ Rounds!MixerNext /\ UNCHANGED <<mapVars, estimatorVars>>
     \/ part = "estimator" /\ EstimatorNext /\ UNCHANGED <<mapVars, mixerVars>>

AllSpec == AllInit /\ [][AllNext]_allVars

-------------------------------------------------------------------------------
(* NobodyWaitsInVain and FlagsAgree are VideoMap's, VoicesAreRight and       *)
(* RoundsAreServed AudioMixer's, SpeakerIsLoudest SpeakerEstimator's.        *)

===============================================================================
