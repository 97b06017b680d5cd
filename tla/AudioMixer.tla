------------------------------- MODULE AudioMixer -------------------------------
(***************************************************************************)
(* AudioMixerElement (orbit/modules/audio_mixer_element.cc) as it runs by  *)
(* default, with --audio_mixer_with_multi_thread: one thread mixes what    *)
(* the streams have said, a round every 10 ms, and several threads encode  *)
(* the mixes and hand them to the streams.  With it the mute flag of       *)
(* AudioBufferManager.  The speaker is chosen in SpeakerEstimator.         *)
(*                                                                         *)
(* A mix is the set of the streams whose voices are in it.  The mixing     *)
(* thread holds buffer_manager_mutex_ for a whole round, so that nobody    *)
(* joins, leaves, speaks or is muted in it; mixer_listener_mutex_ is taken *)
(* for one stream at a time, by it and by the encoding threads.            *)
(***************************************************************************)
EXTENDS Integers, Sequences, FiniteSets

CONSTANTS
  Streams,                \* stream ids; each joins once
  Early,                  \* the streams in the room when the mixer is started
  Joiners, Leavers,       \* the streams that come later, and that leave (bound)
  Threads,                \* encode_threads_
  ContinueMutePackets,    \* FLAGS_continue_mute_packets
  MaxRounds, MaxInputs    \* rounds mixed, packets and mute requests (bounds)

\* What the constants are, for a module that instantiates this one to assume.
MixerAssumption ==
  /\ Streams \subseteq Nat /\ IsFiniteSet(Streams)
  /\ Early \subseteq Streams /\ Joiners \subseteq Streams /\ Leavers \subseteq Streams
  /\ ContinueMutePackets \in Nat
  /\ MaxRounds \in Nat /\ MaxInputs \in Nat

VARIABLES
  running_,
  managers,               \* keys of audio_buffer_managers_
  listeners,              \* keys of audio_mixer_listeners_
  muted_, continue_mute_packets_,
  round,                  \* the round the mixing thread is in: [left, muted, mute_stream_send]
  unencoded_queue_,       \* packets [streams, seq, voices]
  hand,                   \* what each encoding thread works on: a packet with is_encode and
                          \* whether the manager of its next stream was found
  \* history
  left,                   \* streams that have left, or are leaving
  requested,              \* streams that were asked to be muted, and have not been asked
                          \* otherwise or sent a longer packet since
  log,                    \* per round: who spoke (voices), was in the room (there), was
                          \* muted or asked to be (requested); whose encoding failed; whether the muted
                          \* were passed over because the first of them has no listener
  got,                    \* the rounds each stream was given
  \* bound
  inputs

members == <<managers, listeners, left>>
voice == <<muted_, continue_mute_packets_, requested, inputs>>
encoding == <<unencoded_queue_, hand, got>>
mixerVars == <<running_, members, voice, round, encoding, log>>

NoRound == [left |-> {}, muted |-> {}, mute_stream_send |-> FALSE]
Idle == [streams |-> {}, seq |-> 0, voices |-> {}, is_encode |-> FALSE, found |-> FALSE]
Lowest(S) == CHOOSE n \in S : \A m \in S : n <= m

\* buffer_manager_mutex_ is free: the mixing thread is between two rounds.
Unlocked == round = NoRound

seq == Len(log)

-------------------------------------------------------------------------------
(* Streams come, speak and leave.                                            *)

AddAudioBuffer(id) ==
  /\ Unlocked /\ id \in Joiners \ (managers \cup left)
  /\ managers' = managers \cup {id}
  /\ UNCHANGED <<running_, listeners, left, voice, round, encoding, log>>

RegisterMixResultListener(id) ==
  /\ id \in managers \ (listeners \cup left)
  /\ listeners' = listeners \cup {id}
  /\ UNCHANGED <<running_, managers, left, voice, round, encoding, log>>

\* RemoveParticipant, in two steps: the manager goes first.
RemoveAudioBuffer(id) ==
  /\ Unlocked /\ id \in managers \cap listeners \cap Leavers
  /\ managers' = managers \ {id}
  /\ left' = left \cup {id}
  /\ UNCHANGED <<running_, listeners, voice, round, encoding, log>>

UnregisterMixResultListener(id) ==
  /\ id \in left \cap listeners
  /\ listeners' = listeners \ {id}
  /\ UNCHANGED <<running_, managers, left, voice, round, encoding, log>>

\* Mutant: the flag follows the counter, so a short packet undoes a request.
PushPacketForgets(id, short) ==
  /\ Unlocked /\ id \in managers /\ inputs < MaxInputs /\ seq < MaxRounds
  /\ inputs' = inputs + 1
  /\ LET n == IF short THEN continue_mute_packets_[id] + 1 ELSE 0
     IN  /\ continue_mute_packets_' = [continue_mute_packets_ EXCEPT ![id] = n]
         /\ muted_' = [muted_ EXCEPT ![id] = n > ContinueMutePackets]
         /\ requested' = IF short THEN requested ELSE requested \ {id}
  /\ UNCHANGED <<running_, members, round, encoding, log>>

\* PushPacket with CheckAndSetMute: short packets in a row mute a stream, a longer
\* one unmutes it.  What NetEq does with the packet is no state here.  The counter
\* stops where it makes no difference any more.
PushPacket(id, short) ==
  /\ Unlocked /\ id \in managers /\ inputs < MaxInputs /\ seq < MaxRounds
  /\ inputs' = inputs + 1
  /\ IF short
     THEN LET n == IF continue_mute_packets_[id] > ContinueMutePackets
                   THEN continue_mute_packets_[id] ELSE continue_mute_packets_[id] + 1
          IN  /\ continue_mute_packets_' = [continue_mute_packets_ EXCEPT ![id] = n]
              /\ muted_' = [muted_ EXCEPT ![id] = @ \/ n > ContinueMutePackets]
              /\ UNCHANGED requested
     ELSE /\ continue_mute_packets_' = [continue_mute_packets_ EXCEPT ![id] = 0]
          /\ muted_' = [muted_ EXCEPT ![id] = FALSE]
          /\ requested' = requested \ {id}
  /\ UNCHANGED <<running_, members, round, encoding, log>>

\* MuteStream of the room.
Mute(id, mute) ==
  /\ Unlocked /\ id \in managers /\ inputs < MaxInputs /\ seq < MaxRounds
  /\ inputs' = inputs + 1
  /\ muted_' = [muted_ EXCEPT ![id] = mute]
  /\ requested' = IF mute THEN requested \cup {id} ELSE requested \ {id}
  /\ UNCHANGED <<running_, members, continue_mute_packets_, round, encoding, log>>

\* The threads see running_ at the top of their loops and end; what is queued stays.
Destroy ==
  /\ running_ /\ running_' = FALSE
  /\ UNCHANGED <<members, voice, round, encoding, log>>

-------------------------------------------------------------------------------
(* MixPacketLoopWithMultiThread.                                             *)

Muted == {id \in managers : muted_[id]}

\* Mutant: PopAndDecode gives the packet of a muted stream too.
MixRoundAll ==
  /\ running_ /\ Unlocked /\ seq < MaxRounds
  /\ \E voices \in (SUBSET managers) \ {{}} :
       log' = Append(log, [voices |-> voices, there |-> managers \cap listeners,
                           muted |-> Muted, failed |-> {}, passed |-> FALSE,
                           requested |-> requested])
  /\ round' = [left |-> managers, muted |-> Muted, mute_stream_send |-> FALSE]
  /\ UNCHANGED <<running_, members, voice, encoding>>

\* The first half of a round.  NetEq may have nothing to give for a stream; a muted
\* one gives nothing.  If nobody gives anything the round is over.
MixRound ==
  /\ running_ /\ Unlocked /\ seq < MaxRounds
  /\ \E voices \in (SUBSET (managers \ Muted)) \ {{}} :
       log' = Append(log, [voices |-> voices, there |-> managers \cap listeners,
                           muted |-> Muted, failed |-> {}, passed |-> FALSE,
                           requested |-> requested])
  /\ round' = [left |-> managers, muted |-> Muted, mute_stream_send |-> FALSE]
  /\ UNCHANGED <<running_, members, voice, encoding>>

\* A round goes through the streams in their order; after the last one the lock is
\* released.
NextStream(id, sent) ==
  LET rest == round.left \ {id}
  IN  IF rest = {} THEN NoRound
      ELSE [round EXCEPT !.left = rest, !.mute_stream_send = sent]

\* Mutant: mute_stream_send is not looked at.
SendStreamAgain ==
  /\ ~Unlocked
  /\ LET id == Lowest(round.left)
         group == id \in round.muted
     IN  /\ round' = NextStream(id, FALSE)
         /\ unencoded_queue_' = IF id \notin listeners THEN unencoded_queue_
              ELSE Append(unencoded_queue_,
                     [streams |-> IF group THEN round.muted ELSE {id}, seq |-> seq,
                      voices |-> log[seq].voices \ {id}])
         /\ log' = IF id \in listeners THEN log ELSE [log EXCEPT ![seq].passed = @ \/ group]
  /\ UNCHANGED <<running_, members, voice, hand, got>>

\* The second half: the others' voices for the next stream, or the mix for all of
\* the muted at once when it is the first of them.
SendStream ==
  /\ ~Unlocked
  /\ LET id == Lowest(round.left)
         group == id \in round.muted
     IN  IF group /\ round.mute_stream_send
         THEN /\ round' = NextStream(id, TRUE)
              /\ UNCHANGED <<unencoded_queue_, log>>
         ELSE /\ round' = NextStream(id, group \/ round.mute_stream_send)
              /\ IF id \in listeners
                 THEN /\ unencoded_queue_' = Append(unencoded_queue_,
                           [streams |-> IF group THEN round.muted ELSE {id}, seq |-> seq,
                            voices |-> log[seq].voices \ {id}])
                      /\ UNCHANGED log
                 ELSE /\ log' = [log EXCEPT ![seq].passed = @ \/ group]
                      /\ UNCHANGED unencoded_queue_
  /\ UNCHANGED <<running_, members, voice, hand, got>>

-------------------------------------------------------------------------------
(* EncodeLoop.                                                               *)

Take(t) ==
  /\ running_ /\ hand[t] = Idle /\ unencoded_queue_ # <<>>
  /\ LET p == Head(unencoded_queue_)
     IN  hand' = [hand EXCEPT ![t] = [streams |-> p.streams, seq |-> p.seq, voices |-> p.voices,
                                      is_encode |-> FALSE, found |-> FALSE]]
  /\ unencoded_queue_' = Tail(unencoded_queue_)
  /\ UNCHANGED <<running_, members, voice, round, got, log>>

\* On to the next stream of the packet.
Forward(t) ==
  LET rest == hand[t].streams \ {Lowest(hand[t].streams)}
  IN  hand' = [hand EXCEPT ![t] = IF rest = {} THEN Idle
                                  ELSE [@ EXCEPT !.streams = rest, !.found = FALSE]]

\* Mutant: a stream that has left ends the packet for those after it.
EncodeBreaks(t) ==
  /\ hand[t] # Idle /\ ~hand[t].found /\ Unlocked
  /\ IF Lowest(hand[t].streams) \notin managers THEN hand' = [hand EXCEPT ![t] = Idle]
     ELSE \E ok \in BOOLEAN :
            hand' = [hand EXCEPT ![t].found = TRUE, ![t].is_encode = @ \/ ok]
  /\ UNCHANGED <<running_, members, voice, round, unencoded_queue_, got, log>>

\* The manager of the next stream is looked up, and encodes unless one has before;
\* the encoder may fail.
Encode(t) ==
  /\ hand[t] # Idle /\ ~hand[t].found /\ Unlocked
  /\ IF Lowest(hand[t].streams) \notin managers THEN Forward(t)
     ELSE \E ok \in BOOLEAN :
            hand' = [hand EXCEPT ![t].found = TRUE, ![t].is_encode = @ \/ ok]
  /\ UNCHANGED <<running_, members, voice, round, unencoded_queue_, got, log>>

\* OnAudioMixed, under mixer_listener_mutex_, if the listener is still there.
Deliver(t) ==
  /\ hand[t].found
  /\ LET id == Lowest(hand[t].streams)
         r == hand[t].seq
         there == id \in listeners
     IN  /\ got' = IF there /\ hand[t].is_encode THEN [got EXCEPT ![id] = @ \cup {r}] ELSE got
         /\ log' = IF there /\ ~hand[t].is_encode THEN [log EXCEPT ![r].failed = @ \cup {id}]
                   ELSE log
  /\ Forward(t)
  /\ UNCHANGED <<running_, members, voice, round, unencoded_queue_>>

-------------------------------------------------------------------------------

MixerInit ==
  /\ running_ = TRUE
  /\ managers = Early /\ listeners = Early /\ left = {}
  /\ muted_ = [id \in Streams |-> FALSE] /\ continue_mute_packets_ = [id \in Streams |-> 0]
  /\ requested = {} /\ inputs = 0
  /\ round = NoRound
  /\ unencoded_queue_ = <<>> /\ hand = [t \in Threads |-> Idle]
  /\ got = [id \in Streams |-> {}]
  /\ log = <<>>

MixerNext ==
  \/ Destroy \/ MixRound \/ SendStream
  \/ \E id \in Streams :
       \/ AddAudioBuffer(id) \/ RegisterMixResultListener(id)
       \/ RemoveAudioBuffer(id) \/ UnregisterMixResultListener(id)
       \/ \E b \in BOOLEAN : PushPacket(id, b) \/ Mute(id, b)
  \/ \E t \in Threads : Take(t) \/ Encode(t) \/ Deliver(t)

MixerSpec == MixerInit /\ [][MixerNext]_mixerVars

-------------------------------------------------------------------------------

\* Types, and the order in which a stream's manager and listener come and go.
MixerTypeOK ==
  /\ running_ \in BOOLEAN
  /\ managers \subseteq Streams /\ listeners \subseteq managers \cup left
  /\ left \subseteq Streams \ managers
  /\ muted_ \in [Streams -> BOOLEAN]
  /\ continue_mute_packets_ \in [Streams -> 0..ContinueMutePackets + 1]
  /\ round.left \subseteq managers /\ round.muted \subseteq managers
  /\ got \in [Streams -> SUBSET (1..seq)]

\* The packets that are not yet with everybody they are for.
Waiting == {unencoded_queue_[i] : i \in DOMAIN unencoded_queue_}
InHand == {hand[t] : t \in {th \in Threads : hand[th] # Idle}}
Queued(id, r) ==
  {i \in 1..Len(unencoded_queue_) : unencoded_queue_[i].seq = r /\ id \in unencoded_queue_[i].streams}
Working(id, r) == {t \in Threads : hand[t].seq = r /\ id \in hand[t].streams}
Copies(id, r) == Cardinality(Queued(id, r)) + Cardinality(Working(id, r))

\* This round has still to make a packet for the stream.
ToCome(id, r) ==
  /\ r = seq /\ id \in round.left
  /\ ~(id \in round.muted /\ round.mute_stream_send)

\* A packet holds the voices of its round but the listener's own: nobody hears
\* himself or misses another, the muted who share one packet included, however
\* long it waits for an encoding thread.
HearsTheOthers ==
  \A p \in Waiting \cup InHand : \A id \in p.streams : p.voices = log[p.seq].voices \ {id}

\* No stream is given a round twice, by one packet or by two.
GivenOnce ==
  \A id \in Streams : \A r \in 1..seq :
    Copies(id, r) + (IF r \in got[id] THEN 1 ELSE 0) + (IF ToCome(id, r) THEN 1 ELSE 0) <= 1

\* Every round reaches everybody who was in the room, but a stream that leaves, one
\* whose encoding failed, and the muted if the first of them has no listener yet.
EveryoneIsServed ==
  \A r \in 1..seq : \A id \in log[r].there :
    \/ r \in got[id] \/ Copies(id, r) = 1 \/ ToCome(id, r)
    \/ id \in left \/ id \in log[r].failed
    \/ id \in log[r].muted /\ log[r].passed

\* MixPacketLoopWithMultiThread and EncodeLoop: a round reaches everybody in the
\* room, but for the cases EveryoneIsServed names, and nobody twice.
RoundsAreServed == MixerTypeOK /\ GivenOnce /\ EveryoneIsServed

\* A stream that was asked to be muted is not mixed, however many short packets it
\* sends.  audio_mixer_element.h:70 promises it of every muted stream; but one longer
\* packet, which CheckAndSetMute takes for voice, undoes the request.
MuteHolds == \A r \in 1..seq : log[r].voices \cap log[r].requested = {}

\* What everybody hears, together.
VoicesAreRight == HearsTheOthers /\ MuteHolds

===============================================================================
