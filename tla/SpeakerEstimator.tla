---------------------------- MODULE SpeakerEstimator ----------------------------
(***************************************************************************)
(* SpeakerEstimator (orbit/modules/speaker_estimator.cc): who is speaking, *)
(* by the energies the audio mixer measures in every round.  Over a window *)
(* of rounds it counts how often each stream was the loudest, and tells    *)
(* the room the winner (OnSpeakerChanged).                                 *)
(*                                                                         *)
(* The mixer calls NextFrame once a round and then UpdateAudioEnergy for   *)
(* each stream it makes a packet for, under one lock: a round is one step. *)
(***************************************************************************)
EXTENDS Integers, Sequences, FiniteSets

CONSTANTS
  Speakers,   \* stream ids
  Energies,   \* the energies a stream may have
  Silence,    \* the energy that still counts as silent
  FrameSize,  \* kEstimateFrameSize
  IntRange    \* the number of values of an int

ASSUME EstimatorAssumption ==
  /\ Speakers \subseteq Nat /\ IsFiniteSet(Speakers) /\ Energies \subseteq Nat /\ Silence \in Nat
  /\ FrameSize \in Nat \ {0} /\ IntRange \in Nat \ {0}

VARIABLES
  intra_frame_count_,     \* the energies of the last round, in the order of the ids
  speaker_counter_map_,   \* per stream [max_times, total_energy]; absent is max_times 0
  frame_count_,
  \* history
  frames,                 \* the energies of the rounds counted in this window
  announced               \* who the last round named to the room, or Nobody

estimatorVars == <<intra_frame_count_, speaker_counter_map_, frame_count_, frames, announced>>

Nobody == -1
NoCounters == [id \in Speakers |-> [max_times |-> 0, total_energy |-> 0]]

\* A long stored in an int.
ToInt(n) == ((n + IntRange \div 2) % IntRange) - IntRange \div 2

\* The first of the streams with the largest energy, if that is not 0.
Loudest(frame) ==
  LET first(i) == /\ \A j \in DOMAIN frame : frame[j].energy <= frame[i].energy
                  /\ \A j \in 1..(i - 1) : frame[j].energy < frame[i].energy
  IN  IF \A i \in DOMAIN frame : frame[i].energy = 0 THEN [id |-> Nobody, energy |-> 0]
      ELSE frame[CHOOSE i \in DOMAIN frame : first(i)]

\* Mutant: the sums decide alone.
CurrentSpeakerByEnergy(counter) ==
  LET present == {id \in Speakers : counter[id].max_times > 0}
  IN  IF present = {} THEN Nobody
      ELSE CHOOSE id \in present :
             \A o \in present : counter[o].total_energy <= counter[id].total_energy

\* Whether the stream id takes the place of best: the sum of best was stored in an int.
Better(counter, best, id) ==
  \/ counter[id].max_times > counter[best].max_times
  \/ /\ counter[id].max_times = counter[best].max_times
     /\ counter[id].total_energy > ToInt(counter[best].total_energy)

\* The streams that become the best one as the loop goes over the ids in their order.
Leaders(counter) ==
  LET present == {id \in Speakers : counter[id].max_times > 0}
  IN  CHOOSE leaders \in SUBSET present :
        \A id \in present :
          id \in leaders <=> \A o \in leaders :
            o < id /\ (\A m \in leaders : m <= o \/ m >= id) => Better(counter, o, id)

\* The stream that was the loudest most often; among equals the larger sum of the
\* energies decides, as far as an int can hold it.
CurrentSpeaker(counter) ==
  IF Leaders(counter) = {} THEN Nobody
  ELSE CHOOSE id \in Leaders(counter) : \A o \in Leaders(counter) : o <= id

-------------------------------------------------------------------------------

\* NextFrame: the last round's loudest stream is counted unless all are silent, and
\* at the end of a window its speaker is reported and the counters start again.
Counted ==
  LET top == Loudest(intra_frame_count_)
  IN  IF top.energy > Silence
      THEN [speaker_counter_map_ EXCEPT
              ![top.id] = [max_times |-> @.max_times + 1, total_energy |-> @.total_energy + top.energy]]
      ELSE speaker_counter_map_

\* Mutant: the counters go on into the next window.
NextFrameUncleared ==
  /\ intra_frame_count_ # <<>>
  /\ IF frame_count_ + 1 < FrameSize
     THEN /\ frame_count_' = frame_count_ + 1
          /\ frames' = Append(frames, intra_frame_count_)
          /\ announced' = Nobody
     ELSE /\ frame_count_' = 0
          /\ frames' = <<>>
          /\ announced' = CurrentSpeaker(Counted)
  /\ speaker_counter_map_' = Counted

NextFrame ==
  /\ intra_frame_count_ # <<>>
  /\ IF frame_count_ + 1 < FrameSize
     THEN /\ frame_count_' = frame_count_ + 1
          /\ speaker_counter_map_' = Counted
          /\ frames' = Append(frames, intra_frame_count_)
          /\ announced' = Nobody
     ELSE /\ frame_count_' = 0
          /\ speaker_counter_map_' = NoCounters
          /\ frames' = <<>>
          /\ announced' = CurrentSpeaker(Counted)

\* NextFrame with nothing measured returns at once.
NextFrameEmpty ==
  /\ intra_frame_count_ = <<>>
  /\ announced' = Nobody
  /\ UNCHANGED <<speaker_counter_map_, frame_count_, frames>>

\* UpdateAudioEnergy for the streams of the round, in the order of their ids.
UpdateAudioEnergy ==
  \E n \in 0..Cardinality(Speakers) : \E frame \in [1..n -> [id : Speakers, energy : Energies]] :
    /\ \A i, j \in 1..n : i < j => frame[i].id < frame[j].id
    /\ intra_frame_count_' = frame

EstimatorInit ==
  /\ intra_frame_count_ = <<>> /\ speaker_counter_map_ = NoCounters /\ frame_count_ = 0
  /\ frames = <<>> /\ announced = Nobody

EstimatorNext == (NextFrame \/ NextFrameEmpty) /\ UpdateAudioEnergy

EstimatorSpec == EstimatorInit /\ [][EstimatorNext]_estimatorVars

-------------------------------------------------------------------------------

\* What was heard in a round.
Heard(frame) == {frame[i] : i \in DOMAIN frame}

\* The reference: the streams no other is louder than in a round, if not silent.
Tops(frame) ==
  {m.id : m \in {e \in Heard(frame) : e.energy > Silence /\ \A o \in Heard(frame) : o.energy <= e.energy}}
Wins(window, id) == Cardinality({i \in DOMAIN window : id \in Tops(window[i])})
ClearWins(window, id) == Cardinality({i \in DOMAIN window : Tops(window[i]) = {id}})

\* At the end of a window, whatever came in the windows before and however large the
\* sums grow: the room is told of a stream that was among the loudest of some round
\* of this window and that nobody beats in it; nobody is named if all were silent.
\* Within a window nobody is named.
SpeakerIsLoudest ==
  [][LET window == Append(frames, intra_frame_count_)
     IN  IF intra_frame_count_ # <<>> /\ Len(window) = FrameSize
         THEN IF \A id \in Speakers : Wins(window, id) = 0 THEN announced' = Nobody
              ELSE /\ announced' \in Speakers /\ Wins(window, announced') > 0
                   /\ \A id \in Speakers : ClearWins(window, id) <= Wins(window, announced')
         ELSE announced' = Nobody]_estimatorVars

===============================================================================
