---------------------------- MODULE AudioMixerProofs ----------------------------
(***************************************************************************)
(* Proofs about AudioMixer, for any streams, threads and bounds: everybody *)
(* is sent the voices of the others, a mute request holds, and a round     *)
(* reaches everybody once.  A packet is right about its round for as long  *)
(* as it waits because the log only grows and what it says of voices does  *)
(* not change; the packet that the muted share is right for each of them   *)
(* because none of them is in it.  A round reaches everybody because the   *)
(* packet of a stream is always in one place, until it is given.           *)
(* Then about SpeakerEstimator, which listens to the rounds: the speaker   *)
(* it names is one that nobody beats.                                      *)
(***************************************************************************)
EXTENDS AudioMixer, SpeakerEstimator, FiniteSetTheorems, NaturalsInduction, WellFoundedInduction, TLAPS

\* The fields of the log that the argument is about keep their values.
Entry == [voices : SUBSET Streams, there : SUBSET Streams, muted : SUBSET Streams, failed : SUBSET Streams,
          passed : BOOLEAN, requested : SUBSET Streams]

Packet == [streams : SUBSET Streams, seq : Nat, voices : SUBSET Streams]

Held == [streams : SUBSET Streams, seq : Nat, voices : SUBSET Streams, is_encode : BOOLEAN,
         found : BOOLEAN]

Types ==
  /\ managers \subseteq Streams /\ listeners \subseteq Streams /\ requested \subseteq Streams
  /\ muted_ \in [Streams -> BOOLEAN]
  /\ round \in [left : SUBSET Streams, muted : SUBSET Streams, mute_stream_send : BOOLEAN]
  /\ unencoded_queue_ \in Seq(Packet)
  /\ hand \in [Threads -> Held]
  /\ log \in Seq(Entry)

\* A packet is about a round that was mixed, and right for each of its streams.
Right(p) ==
  p.streams # {} =>
    p.seq \in 1..Len(log) /\ \A id \in p.streams : p.voices = log[p.seq].voices \ {id}

PacketsRight ==
  /\ \A i \in 1..Len(unencoded_queue_) : Right(unencoded_queue_[i])
  /\ \A t \in Threads : Right(hand[t])

\* What the mixing thread keeps of its round.
RoundRight ==
  round # NoRound => Len(log) > 0 /\ round.muted \cap log[Len(log)].voices = {}

RequestsHold ==
  /\ \A id \in requested : muted_[id]
  /\ \A r \in 1..Len(log) : log[r].voices \cap log[r].requested = {}

IInv == Types /\ PacketsRight /\ RoundRight /\ RequestsHold

-------------------------------------------------------------------------------

\* Start leaves nothing queued and nothing asked.
LEMMA InitIInv ==
  ASSUME MixerInit, Early \subseteq Streams
  PROVE  IInv
<1>1. Types
  BY DEF MixerInit, Types, NoRound, Idle, Held
<1>2. PacketsRight
  BY DEF MixerInit, PacketsRight, Right, Idle
<1>3. RoundRight /\ RequestsHold
  BY DEF MixerInit, RoundRight, RequestsHold
<1> QED
  BY <1>1, <1>2, <1>3 DEF IInv

\* Steps that change neither packets nor rounds.
LEMMA MembersStep ==
  ASSUME IInv,
         Destroy \/ \E id \in Streams : \/ AddAudioBuffer(id) \/ RegisterMixResultListener(id)
                                   \/ RemoveAudioBuffer(id) \/ UnregisterMixResultListener(id)
  PROVE  IInv'
<1>1. Types'
  BY DEF IInv, Types, AddAudioBuffer, RegisterMixResultListener, RemoveAudioBuffer,
         UnregisterMixResultListener, Destroy, members, voice, encoding
<1>2. UNCHANGED <<muted_, requested, round, unencoded_queue_, hand, log>>
  BY DEF AddAudioBuffer, RegisterMixResultListener, RemoveAudioBuffer,
         UnregisterMixResultListener, Destroy, members, voice, encoding
<1>3. PacketsRight' /\ RoundRight' /\ RequestsHold'
  BY <1>2 DEF IInv, PacketsRight, Right, RoundRight, RequestsHold
<1> QED
  BY <1>1, <1>3 DEF IInv

\* CheckAndSetMute and Mute: whoever is asked to be muted has the flag.
LEMMA VoiceStep ==
  ASSUME IInv, NEW id \in Streams, NEW b \in BOOLEAN, PushPacket(id, b) \/ Mute(id, b)
  PROVE  IInv'
<1>1. UNCHANGED <<managers, listeners, round, unencoded_queue_, hand, log>>
  BY DEF PushPacket, Mute, members, encoding
<1>2. /\ muted_' \in [Streams -> BOOLEAN] /\ requested' \subseteq Streams
      /\ \A i \in requested' : muted_'[i]
  <2>1. CASE PushPacket(id, b)
    <3>1. CASE b
      <4>1. PICK x \in BOOLEAN : muted_' = [muted_ EXCEPT ![id] = muted_[id] \/ x]
        BY <2>1, <3>1 DEF PushPacket
      <4>2. requested' = requested
        BY <2>1, <3>1 DEF PushPacket
      <4> QED
        BY <4>1, <4>2 DEF IInv, Types, RequestsHold
    <3>2. CASE ~b
      BY <2>1, <3>2 DEF PushPacket, IInv, Types, RequestsHold
    <3> QED
      BY <3>1, <3>2
  <2>2. CASE Mute(id, b)
    BY <2>2 DEF Mute, IInv, Types, RequestsHold
  <2> QED
    BY <2>1, <2>2
<1>3. Types'
  BY <1>1, <1>2 DEF IInv, Types
<1>4. PacketsRight' /\ RoundRight'
  BY <1>1 DEF IInv, PacketsRight, Right, RoundRight
<1>5. RequestsHold'
  BY <1>1, <1>2 DEF IInv, RequestsHold
<1> QED
  BY <1>3, <1>4, <1>5 DEF IInv

\* MixRound: nobody who is muted is in the round.
LEMMA MixStep ==
  ASSUME IInv, MixRound
  PROVE  IInv'
<1>1. PICK voices \in SUBSET (managers \ Muted) :
        log' = Append(log, [voices |-> voices, there |-> managers \cap listeners,
                            muted |-> Muted, failed |-> {}, passed |-> FALSE,
                            requested |-> requested])
  BY DEF MixRound
<1> DEFINE e == [voices |-> voices, there |-> managers \cap listeners, muted |-> Muted,
                 failed |-> {}, passed |-> FALSE, requested |-> requested]
<1>2. e \in Entry
  BY DEF IInv, Types, Entry, Muted
<1>3. UNCHANGED <<managers, listeners, muted_, requested, unencoded_queue_, hand>>
  BY DEF MixRound, members, voice, encoding
<1>4. round' = [left |-> managers, muted |-> Muted, mute_stream_send |-> FALSE]
  BY DEF MixRound
<1>5. /\ Len(log) \in Nat /\ log' \in Seq(Entry) /\ Len(log') = Len(log) + 1
      /\ \A r \in 1..Len(log) : log'[r] = log[r]
      /\ log'[Len(log')] = e
  BY <1>1, <1>2 DEF IInv, Types
<1>6. Types'
  BY <1>3, <1>4, <1>5 DEF IInv, Types, Muted
<1>7. PacketsRight'
  <2>1. \A i \in 1..Len(unencoded_queue_) : Right(unencoded_queue_[i])'
    BY <1>3, <1>5 DEF IInv, PacketsRight, Right
  <2>2. \A t \in Threads : Right(hand[t])'
    BY <1>3, <1>5 DEF IInv, PacketsRight, Right
  <2> QED
    BY <1>3, <2>1, <2>2 DEF PacketsRight
<1>8. RoundRight'
  BY <1>4, <1>5 DEF RoundRight
<1>9. RequestsHold'
  <2>1. \A id \in requested : muted_[id]
    BY DEF IInv, RequestsHold
  <2>2. voices \cap requested = {}
    BY <2>1 DEF Muted
  <2>3. ASSUME NEW r \in 1..Len(log') PROVE log'[r].voices \cap log'[r].requested = {}
    <3>1. CASE r = Len(log')
      BY <3>1, <2>2, <1>5
    <3>2. CASE r # Len(log')
      <4>1. r \in 1..Len(log)
        BY <3>2, <1>5
      <4> QED
        BY <4>1, <1>5 DEF IInv, RequestsHold
    <3> QED
      BY <3>1, <3>2
  <2> QED
    BY <1>3, <2>1, <2>3 DEF RequestsHold
<1> QED
  BY <1>6, <1>7, <1>8, <1>9 DEF IInv

\* A mark on one round leaves what the log says of voices and requests.
LEMMA MarkKeeps ==
  ASSUME NEW l \in Seq(Entry), NEW r \in 1..Len(l), NEW e \in Entry,
         e.voices = l[r].voices, e.requested = l[r].requested
  PROVE  LET m == [l EXCEPT ![r] = e]
         IN  /\ m \in Seq(Entry) /\ Len(m) = Len(l)
             /\ \A k \in 1..Len(l) : m[k].voices = l[k].voices /\ m[k].requested = l[k].requested
<1> DEFINE m == [l EXCEPT ![r] = e]
<1>1. m \in Seq(Entry) /\ Len(m) = Len(l)
  OBVIOUS
<1>2. \A k \in 1..Len(l) : m[k] = IF k = r THEN e ELSE l[k]
  OBVIOUS
<1> QED
  BY <1>1, <1>2

\* SendStream: the voices but the stream's own; for the first of the muted, who is
\* not in the round, that is right for all of them.
LEMMA SendStep ==
  ASSUME IInv, SendStream
  PROVE  IInv'
<1> DEFINE id == Lowest(round.left)
           group == id \in round.muted
           p == [streams |-> IF group THEN round.muted ELSE {id}, seq |-> Len(log),
                 voices |-> log[Len(log)].voices \ {id}]
<1>1. UNCHANGED <<managers, listeners, muted_, requested, hand>>
  BY DEF SendStream, members, voice
<1>2. round # NoRound /\ Len(log) \in Nat /\ Len(log) > 0 /\ log[Len(log)] \in Entry
      /\ round.muted \cap log[Len(log)].voices = {}
  BY DEF SendStream, Unlocked, IInv, RoundRight, Types
<1>3. /\ log' \in Seq(Entry) /\ Len(log') = Len(log)
      /\ \A r \in 1..Len(log) : log'[r].voices = log[r].voices
                                /\ log'[r].requested = log[r].requested
  <2>1. CASE log' = log
    BY <2>1 DEF IInv, Types
  <2>2. CASE log' = [log EXCEPT ![Len(log)].passed = @ \/ group]
    <3> DEFINE e == [log[Len(log)] EXCEPT !.passed = @ \/ group]
    <3>1. log' = [log EXCEPT ![Len(log)] = e]
      BY <2>2
    <3>2. e \in Entry /\ e.voices = log[Len(log)].voices /\ e.requested = log[Len(log)].requested
      BY <1>2 DEF Entry
    <3>3. log \in Seq(Entry) /\ Len(log) \in 1..Len(log)
      BY <1>2 DEF IInv, Types
    <3> HIDE DEF e
    <3> QED
      BY <3>1, <3>2, <3>3, MarkKeeps
  <2> QED
    BY <2>1, <2>2 DEF SendStream, seq
<1>4. PICK sent \in BOOLEAN : round' = NextStream(id, sent)
  <2>1. round.mute_stream_send \in BOOLEAN
    BY DEF IInv, Types
  <2>2. (group \/ round.mute_stream_send) \in BOOLEAN
    OBVIOUS
  <2>3. round' = NextStream(id, TRUE) \/ round' = NextStream(id, group \/ round.mute_stream_send)
    BY DEF SendStream
  <2> QED
    BY <2>2, <2>3
<1>5. /\ round' \in [left : SUBSET Streams, muted : SUBSET Streams, mute_stream_send : BOOLEAN]
      /\ round' = NoRound \/ round'.muted = round.muted
  <2> DEFINE rest == round.left \ {id}
  <2>1. round \in [left : SUBSET Streams, muted : SUBSET Streams, mute_stream_send : BOOLEAN]
    BY DEF IInv, Types
  <2>2. CASE rest = {}
    BY <2>2, <1>4 DEF NextStream, NoRound
  <2>3. CASE rest # {}
    <3>1. round' = [round EXCEPT !.left = rest, !.mute_stream_send = sent]
      BY <2>3, <1>4 DEF NextStream
    <3>2. rest \in SUBSET Streams
      BY <2>1
    <3> HIDE DEF rest
    <3> QED
      BY <3>1, <3>2, <2>1
  <2> QED
    BY <2>2, <2>3
<1>6. \/ unencoded_queue_' = unencoded_queue_
      \/ id \in listeners /\ unencoded_queue_' = Append(unencoded_queue_, p)
  <2>1. CASE group /\ round.mute_stream_send
    <3>1. unencoded_queue_' = unencoded_queue_
      BY <2>1 DEF SendStream
    <3> QED
      BY <3>1
  <2>2. CASE ~(group /\ round.mute_stream_send) /\ id \notin listeners
    <3>1. unencoded_queue_' = unencoded_queue_
      BY <2>2 DEF SendStream
    <3> QED
      BY <3>1
  <2>3. CASE ~(group /\ round.mute_stream_send) /\ id \in listeners
    BY <2>3 DEF SendStream, seq
  <2> QED
    BY <2>1, <2>2, <2>3
<1>7. id \in listeners => p \in Packet
  BY <1>2 DEF IInv, Types, Packet, Entry
<1>8. p.seq = Len(log) /\ \A i \in p.streams : p.voices = log[Len(log)].voices \ {i}
  BY <1>2
<1> HIDE DEF p
<1>9. Types'
  BY <1>1, <1>3, <1>5, <1>6, <1>7 DEF IInv, Types
<1>10. PacketsRight'
  <2>1. ASSUME NEW i \in 1..Len(unencoded_queue_') PROVE Right(unencoded_queue_[i])'
    <3>1. CASE i \in 1..Len(unencoded_queue_)
      <4>1. unencoded_queue_'[i] = unencoded_queue_[i]
        BY <3>1, <1>6, <1>7 DEF IInv, Types
      <4>2. Right(unencoded_queue_[i])
        BY <3>1 DEF IInv, PacketsRight
      <4> QED
        BY <4>1, <4>2, <1>3, <1>2 DEF Right
    <3>2. CASE i \notin 1..Len(unencoded_queue_)
      <4>1. id \in listeners /\ unencoded_queue_' = Append(unencoded_queue_, p)
        BY <3>2, <1>6
      <4>2. unencoded_queue_'[i] = p
        BY <4>1, <3>2, <1>7 DEF IInv, Types
      <4> QED
        BY <4>2, <1>8, <1>3, <1>2 DEF Right
    <3> QED
      BY <3>1, <3>2
  <2>2. ASSUME NEW t \in Threads PROVE Right(hand[t])'
    <3>1. Right(hand[t])
      BY DEF IInv, PacketsRight
    <3> QED
      BY <3>1, <1>1, <1>3, <1>2 DEF Right
  <2> QED
    BY <2>1, <2>2 DEF PacketsRight
<1>11. RoundRight'
  BY <1>2, <1>3, <1>5 DEF RoundRight
<1>12. RequestsHold'
  BY <1>1, <1>3 DEF IInv, RequestsHold
<1> QED
  BY <1>9, <1>10, <1>11, <1>12 DEF IInv

\* Take: the packet goes from the queue to the thread as it is.
LEMMA TakeStep ==
  ASSUME IInv, NEW t \in Threads, Take(t)
  PROVE  IInv'
<1> DEFINE p == Head(unencoded_queue_)
           h == [streams |-> p.streams, seq |-> p.seq, voices |-> p.voices,
                 is_encode |-> FALSE, found |-> FALSE]
<1>1. UNCHANGED <<managers, listeners, muted_, requested, round, log>>
  BY DEF Take, members, voice
<1>2. hand' = [hand EXCEPT ![t] = h] /\ unencoded_queue_' = Tail(unencoded_queue_)
      /\ unencoded_queue_ # <<>>
  BY DEF Take
<1>3. p \in Packet /\ p = unencoded_queue_[1] /\ 1 \in 1..Len(unencoded_queue_)
  BY <1>2 DEF IInv, Types
<1>4. h \in Held
  BY <1>3 DEF Packet, Held
<1>5. Types'
  BY <1>1, <1>2, <1>4 DEF IInv, Types
<1>6. Right(h)
  BY <1>3 DEF IInv, PacketsRight, Right
<1>7. PacketsRight'
  <2>1. ASSUME NEW i \in 1..Len(unencoded_queue_') PROVE Right(unencoded_queue_[i])'
    <3>1. i + 1 \in 1..Len(unencoded_queue_) /\ unencoded_queue_'[i] = unencoded_queue_[i + 1]
      BY <1>2 DEF IInv, Types
    <3> QED
      BY <3>1, <1>1 DEF IInv, PacketsRight, Right
  <2>2. ASSUME NEW th \in Threads PROVE Right(hand[th])'
    <3>1. hand'[th] = h \/ hand'[th] = hand[th]
      BY <1>2 DEF IInv, Types
    <3> QED
      BY <3>1, <1>1, <1>6 DEF IInv, PacketsRight, Right
  <2> QED
    BY <2>1, <2>2 DEF PacketsRight
<1>8. RoundRight' /\ RequestsHold'
  BY <1>1 DEF IInv, RoundRight, RequestsHold
<1> QED
  BY <1>5, <1>7, <1>8 DEF IInv

\* Encode and Deliver: a thread goes on with fewer streams of the same packet, and
\* only marks the round.
LEMMA HandStep ==
  ASSUME IInv, NEW t \in Threads, Encode(t) \/ Deliver(t)
  PROVE  IInv'
<1>1. UNCHANGED <<managers, listeners, muted_, requested, round, unencoded_queue_>>
  BY DEF Encode, Deliver, members, voice
<1>2. PICK h \in Held : /\ hand' = [hand EXCEPT ![t] = h]
                        /\ h = Idle \/ /\ h.streams \subseteq hand[t].streams
                                       /\ h.seq = hand[t].seq /\ h.voices = hand[t].voices
  <2>1. hand[t] \in Held /\ Idle \in Held
    BY DEF IInv, Types, Idle, Held
  <2>2. CASE Forward(t)
    <3> DEFINE rest == hand[t].streams \ {Lowest(hand[t].streams)}
               h == IF rest = {} THEN Idle ELSE [hand[t] EXCEPT !.streams = rest, !.found = FALSE]
    <3>1. hand' = [hand EXCEPT ![t] = h]
      BY <2>2 DEF Forward, IInv, Types
    <3>2. h \in Held /\ (h = Idle \/ /\ h.streams \subseteq hand[t].streams
                                     /\ h.seq = hand[t].seq /\ h.voices = hand[t].voices)
      BY <2>1 DEF Held
    <3> QED
      BY <3>1, <3>2
  <2>3. CASE ~Forward(t)
    <3>1. PICK ok \in BOOLEAN :
            hand' = [hand EXCEPT ![t].found = TRUE, ![t].is_encode = @ \/ ok]
      BY <2>3 DEF Encode, Deliver
    <3> DEFINE h == [hand[t] EXCEPT !.found = TRUE, !.is_encode = @ \/ ok]
    <3>2. hand' = [hand EXCEPT ![t] = h]
      BY <3>1 DEF IInv, Types
    <3>3. /\ h \in Held /\ h.streams \subseteq hand[t].streams
          /\ h.seq = hand[t].seq /\ h.voices = hand[t].voices
      BY <2>1 DEF Held
    <3> QED
      BY <3>2, <3>3
  <2> QED
    BY <2>2, <2>3
<1>3. /\ log' \in Seq(Entry) /\ Len(log') = Len(log)
      /\ \A r \in 1..Len(log) : log'[r].voices = log[r].voices
                                /\ log'[r].requested = log[r].requested
  <2>1. CASE log' = log
    BY <2>1 DEF IInv, Types
  <2>2. CASE log' # log
    <3> DEFINE id == Lowest(hand[t].streams)
               r == hand[t].seq
    <3>1. id \in listeners /\ log' = [log EXCEPT ![r].failed = @ \cup {id}]
      BY <2>2 DEF Encode, Deliver
    <3>2. CASE r \in 1..Len(log)
      <4>1. log[r] \in Entry /\ id \in Streams
        BY <3>1, <3>2 DEF IInv, Types
      <4> DEFINE e == [log[r] EXCEPT !.failed = @ \cup {id}]
      <4>2. log' = [log EXCEPT ![r] = e]
        BY <3>1
      <4>3. e \in Entry /\ e.voices = log[r].voices /\ e.requested = log[r].requested
        BY <4>1 DEF Entry
      <4>4. log \in Seq(Entry)
        BY DEF IInv, Types
      <4> HIDE DEF e, r
      <4> QED
        BY <4>2, <4>3, <4>4, <3>2, MarkKeeps
    <3>3. CASE r \notin 1..Len(log)
      BY <3>1, <3>3, <2>2 DEF IInv, Types
    <3> QED
      BY <3>2, <3>3
  <2> QED
    BY <2>1, <2>2
<1>4. Types'
  BY <1>1, <1>2, <1>3 DEF IInv, Types
<1>5. PacketsRight'
  <2>1. ASSUME NEW i \in 1..Len(unencoded_queue_') PROVE Right(unencoded_queue_[i])'
    BY <1>1, <1>3 DEF IInv, PacketsRight, Right
  <2>2. ASSUME NEW th \in Threads PROVE Right(hand[th])'
    <3>1. hand[th] \in Held /\ Right(hand[th])
      BY DEF IInv, Types, PacketsRight
    <3>2. \/ hand'[th] = hand[th] \/ hand'[th] = Idle
          \/ /\ hand'[th].streams \subseteq hand[th].streams
             /\ hand'[th].seq = hand[th].seq /\ hand'[th].voices = hand[th].voices
      BY <1>2 DEF IInv, Types
    <3> QED
      BY <3>1, <3>2, <1>3 DEF Right, Idle
  <2> QED
    BY <2>1, <2>2 DEF PacketsRight
<1>6. RoundRight'
  <2>1. Len(log) \in Nat
    BY DEF IInv, Types
  <2> QED
    BY <1>1, <1>3, <2>1 DEF IInv, RoundRight
<1>7. RequestsHold'
  BY <1>1, <1>3 DEF IInv, RequestsHold
<1> QED
  BY <1>4, <1>5, <1>6, <1>7 DEF IInv

-------------------------------------------------------------------------------

\* The invariant gives what everybody hears.
LEMMA IInvGives ==
  ASSUME IInv
  PROVE  VoicesAreRight
<1>1. HearsTheOthers
  <2>1. ASSUME NEW p \in Waiting PROVE \A id \in p.streams : p.voices = log[p.seq].voices \ {id}
    <3>1. PICK i \in DOMAIN unencoded_queue_ : p = unencoded_queue_[i]
      BY DEF Waiting
    <3>2. i \in 1..Len(unencoded_queue_)
      BY DEF IInv, Types
    <3> QED
      BY <3>1, <3>2 DEF IInv, PacketsRight, Right
  <2>2. ASSUME NEW p \in InHand PROVE \A id \in p.streams : p.voices = log[p.seq].voices \ {id}
    <3>1. PICK t \in Threads : p = hand[t]
      BY DEF InHand
    <3> QED
      BY <3>1 DEF IInv, PacketsRight, Right
  <2> QED
    BY <2>1, <2>2 DEF HearsTheOthers
<1>2. MuteHolds
  BY DEF IInv, RequestsHold, MuteHolds, seq
<1> QED
  BY <1>1, <1>2 DEF VoicesAreRight

\* Every step keeps the invariant.
LEMMA IInvStep == IInv /\ [MixerNext]_mixerVars => IInv'
<1> SUFFICES ASSUME IInv, [MixerNext]_mixerVars PROVE IInv'
  OBVIOUS
<1>1. CASE \/ Destroy
           \/ \E id \in Streams : \/ AddAudioBuffer(id) \/ RegisterMixResultListener(id)
                                  \/ RemoveAudioBuffer(id) \/ UnregisterMixResultListener(id)
  BY <1>1, MembersStep
<1>2. CASE \E id \in Streams, b \in BOOLEAN : PushPacket(id, b) \/ Mute(id, b)
  BY <1>2, VoiceStep
<1>3. CASE MixRound
  BY <1>3, MixStep
<1>4. CASE SendStream
  BY <1>4, SendStep
<1>5. CASE \E t \in Threads : Take(t)
  BY <1>5, TakeStep
<1>6. CASE \E t \in Threads : Encode(t) \/ Deliver(t)
  BY <1>6, HandStep
<1>7. CASE UNCHANGED mixerVars
  BY <1>7 DEF mixerVars, members, voice, encoding, IInv, Types, PacketsRight, Right, RoundRight,
              RequestsHold
<1> QED
  BY <1>1, <1>2, <1>3, <1>4, <1>5, <1>6, <1>7 DEF MixerNext

\* MixPacketLoopWithMultiThread, EncodeLoop and CheckAndSetMute, for any number of
\* streams, threads and rounds: a packet that is queued or with a thread holds the
\* voices of its round but the listener's own, and a stream asked to be muted is not
\* mixed before it sends a longer packet.
THEOREM VoicesStayRight ==
  ASSUME Early \subseteq Streams
  PROVE  MixerSpec => []VoicesAreRight
<1>1. MixerInit => IInv
  BY InitIInv
<1>2. IInv /\ [MixerNext]_mixerVars => IInv'
  BY IInvStep
<1>3. IInv => VoicesAreRight
  BY IInvGives
<1> QED
  BY <1>1, <1>2, <1>3, PTL DEF MixerSpec

-------------------------------------------------------------------------------
(* A round reaches everybody, once.                                          *)

\* The packet of a stream for a round is in one place at a time: to come, queued, with a thread, or given.
OnePlace ==
  \A id \in Streams, r \in 1..seq :
    /\ \A i, j \in Queued(id, r) : i = j
    /\ \A t, u \in Working(id, r) : t = u
    /\ Queued(id, r) = {} \/ Working(id, r) = {}
    /\ ToCome(id, r) \/ r \in got[id] => Queued(id, r) = {} /\ Working(id, r) = {}
    /\ ~(ToCome(id, r) /\ r \in got[id])

\* It is in some place, but for the cases EveryoneIsServed names.
SomePlace ==
  \A r \in 1..seq : \A id \in log[r].there :
    \/ r \in got[id] \/ ToCome(id, r) \/ Queued(id, r) # {} \/ Working(id, r) # {}
    \/ id \in left \/ id \in log[r].failed
    \/ id \in log[r].muted /\ log[r].passed

\* A round is of those who have a manager, since it holds the lock; the first of the
\* muted is visited before mute_stream_send is set.
RoundIsLocked ==
  /\ round # NoRound => seq > 0 /\ round.left # {} /\ log[seq].muted = round.muted
  /\ round.mute_stream_send \/ round.muted \subseteq round.left

\* A packet is for somebody, and whoever it is for has a manager or has left.  Who was
\* in the room in a round has a listener until he leaves.
ForMembers ==
  /\ \A i \in DOMAIN unencoded_queue_ :
       unencoded_queue_[i].streams # {} /\ unencoded_queue_[i].streams \subseteq managers \cup left
  /\ \A t \in Threads : hand[t].streams \subseteq managers \cup left /\ (hand[t] # Idle => hand[t].streams # {})
  /\ \A r \in 1..seq : log[r].there \subseteq listeners \cup left

ServedInv == MixerTypeOK /\ OnePlace /\ SomePlace /\ RoundIsLocked /\ ForMembers

\* A set of numbers that is not empty has a least one.
LEMMA LeastOf ==
  ASSUME NEW S \in SUBSET Nat, S # {}
  PROVE  \E n \in S : \A m \in S : n <= m
<1>1. PICK x \in S : \A y \in S : ~ (<<y, x>> \in OpToRel(<, Nat))
  BY NatLessThanWellFounded, WFMin
<1>2. ASSUME NEW y \in S PROVE x <= y
  <2>1. y < x => <<y, x>> \in {ss \in Nat \X Nat : ss[1] < ss[2]}
    OBVIOUS
  <2>2. ~ (y < x)
    BY <2>1, <1>1, Zenon DEF OpToRel
  <2> QED
    BY <2>2
<1> QED
  BY <1>2

\* The map of streams is visited in the order of the ids: there is a first one.
LEMMA LowestIsMember ==
  ASSUME NEW S \in SUBSET Nat, S # {}
  PROVE  Lowest(S) \in S
BY LeastOf DEF Lowest

\* Before the first round nothing is owed.
LEMMA InitServed ==
  ASSUME MixerInit, MixerAssumption
  PROVE  ServedInv
<1>1. /\ managers = Early /\ listeners = Early /\ left = {} /\ running_ = TRUE /\ round = NoRound
      /\ muted_ = [id \in Streams |-> FALSE] /\ continue_mute_packets_ = [id \in Streams |-> 0]
      /\ unencoded_queue_ = <<>> /\ hand = [t \in Threads |-> Idle]
      /\ got = [id \in Streams |-> {}] /\ log = <<>> /\ Early \subseteq Streams
      /\ ContinueMutePackets \in Nat
  BY DEF MixerInit, MixerAssumption
<1>2. seq = 0
  BY <1>1 DEF seq
<1>3. MixerTypeOK
  BY <1>1, <1>2 DEF MixerTypeOK, NoRound
<1>4. OnePlace /\ SomePlace
  BY <1>2 DEF OnePlace, SomePlace
<1>5. RoundIsLocked
  BY <1>1 DEF RoundIsLocked, NoRound
<1>6. ForMembers
  BY <1>1, <1>2 DEF ForMembers, Idle
<1> QED
  BY <1>3, <1>4, <1>5, <1>6 DEF ServedInv

\* Steps that leave the round, the packets and the log alone.
LEMMA PlacesStay ==
  ASSUME ServedInv, UNCHANGED <<round, encoding, log>>, left \subseteq left'
  PROVE  OnePlace' /\ SomePlace' /\ RoundIsLocked'
<1>1. UNCHANGED <<round, unencoded_queue_, hand, got, log>> /\ seq' = seq
  BY DEF encoding, seq
<1>2. \A id, r : Queued(id, r)' = Queued(id, r) /\ Working(id, r)' = Working(id, r) /\ (ToCome(id, r)' <=> ToCome(id, r))
  BY <1>1 DEF Queued, Working, ToCome
<1>3. OnePlace'
  BY <1>1, <1>2 DEF ServedInv, OnePlace
<1>4. SomePlace'
  BY <1>1, <1>2 DEF ServedInv, SomePlace
<1> QED
  BY <1>1, <1>3, <1>4 DEF ServedInv, RoundIsLocked

\* Streams come and go.
LEMMA MembersServed ==
  ASSUME ServedInv,
         Destroy \/ \E id \in Streams : \/ AddAudioBuffer(id) \/ RegisterMixResultListener(id)
                                   \/ RemoveAudioBuffer(id) \/ UnregisterMixResultListener(id)
  PROVE  ServedInv'
<1>1. UNCHANGED <<voice, round, encoding, log>> /\ left \subseteq left'
      /\ running_' \in BOOLEAN
  BY DEF Destroy, AddAudioBuffer, RegisterMixResultListener, RemoveAudioBuffer,
         UnregisterMixResultListener, members, ServedInv, MixerTypeOK
<1>2. OnePlace' /\ SomePlace' /\ RoundIsLocked'
  BY <1>1, PlacesStay
<1>3. /\ managers' \subseteq Streams /\ listeners' \subseteq managers' \cup left'
      /\ left' \subseteq Streams \ managers'
      /\ managers \cup left \subseteq managers' \cup left'
      /\ listeners \cup left \subseteq listeners' \cup left'
      /\ round.left \subseteq managers' /\ round.muted \subseteq managers'
  BY DEF Destroy, AddAudioBuffer, RegisterMixResultListener, RemoveAudioBuffer,
         UnregisterMixResultListener, members, ServedInv, MixerTypeOK, Unlocked, NoRound
<1>4. MixerTypeOK'
  BY <1>1, <1>3 DEF ServedInv, MixerTypeOK, voice, encoding, seq
<1>5. ForMembers'
  <2>1. UNCHANGED <<unencoded_queue_, hand, log>> /\ seq' = seq
    BY <1>1 DEF encoding, seq
  <2> QED
    BY <1>3, <2>1 DEF ServedInv, ForMembers
<1> QED
  BY <1>2, <1>4, <1>5 DEF ServedInv

\* CheckAndSetMute and Mute touch only the flag and the counter.
LEMMA VoiceServed ==
  ASSUME MixerAssumption, ServedInv, NEW id \in Streams, NEW b \in BOOLEAN, PushPacket(id, b) \/ Mute(id, b)
  PROVE  ServedInv'
<1>1. UNCHANGED <<running_, members, round, encoding, log>>
  BY DEF PushPacket, Mute
<1>2. OnePlace' /\ SomePlace' /\ RoundIsLocked'
  BY <1>1, PlacesStay DEF members
<1>3. /\ muted_' \in [Streams -> BOOLEAN]
      /\ continue_mute_packets_' \in [Streams -> 0..ContinueMutePackets + 1]
  <2>1. muted_ \in [Streams -> BOOLEAN] /\ continue_mute_packets_ \in [Streams -> 0..ContinueMutePackets + 1]
        /\ ContinueMutePackets \in Nat
    BY DEF ServedInv, MixerTypeOK, MixerAssumption
  <2>2. CASE PushPacket(id, b)
    <3>1. CASE b
      <4> DEFINE n == IF continue_mute_packets_[id] > ContinueMutePackets
                      THEN continue_mute_packets_[id] ELSE continue_mute_packets_[id] + 1
      <4>1. continue_mute_packets_' = [continue_mute_packets_ EXCEPT ![id] = n]
        BY <2>2, <3>1 DEF PushPacket
      <4>2. n \in 0..ContinueMutePackets + 1
        BY <2>1
      <4>3. PICK x \in BOOLEAN : muted_' = [muted_ EXCEPT ![id] = muted_[id] \/ x]
        BY <2>2, <3>1 DEF PushPacket
      <4> HIDE DEF n
      <4> QED
        BY <2>1, <4>1, <4>2, <4>3
    <3>2. CASE ~b
      <4>1. /\ continue_mute_packets_' = [continue_mute_packets_ EXCEPT ![id] = 0]
            /\ muted_' = [muted_ EXCEPT ![id] = FALSE]
        BY <2>2, <3>2 DEF PushPacket
      <4>2. 0 \in 0..ContinueMutePackets + 1
        BY <2>1
      <4> QED
        BY <2>1, <4>1, <4>2
    <3> QED
      BY <3>1, <3>2
  <2>3. CASE Mute(id, b)
    BY <2>1, <2>3 DEF Mute
  <2> QED
    BY <2>2, <2>3
<1>4. MixerTypeOK'
  BY <1>1, <1>3 DEF ServedInv, MixerTypeOK, members, encoding, seq
<1>5. ForMembers'
  BY <1>1 DEF ServedInv, ForMembers, members, encoding, seq
<1> QED
  BY <1>2, <1>4, <1>5 DEF ServedInv

\* MixRound: the new round has its packets still to come, for everybody.
LEMMA MixServed ==
  ASSUME IInv, ServedInv, MixRound
  PROVE  ServedInv'
<1>1. PICK voices \in (SUBSET (managers \ Muted)) \ {{}} :
        log' = Append(log, [voices |-> voices, there |-> managers \cap listeners,
                            muted |-> Muted, failed |-> {}, passed |-> FALSE,
                            requested |-> requested])
  BY DEF MixRound
<1> DEFINE e == [voices |-> voices, there |-> managers \cap listeners, muted |-> Muted,
                 failed |-> {}, passed |-> FALSE, requested |-> requested]
<1>2. e \in Entry /\ log \in Seq(Entry)
  BY DEF IInv, Types, Entry, Muted
<1>3. /\ UNCHANGED <<running_, managers, listeners, left, muted_, continue_mute_packets_, unencoded_queue_, hand, got>>
      /\ round = NoRound
  BY DEF MixRound, members, voice, encoding, Unlocked
<1>4. /\ round' = [left |-> managers, muted |-> Muted, mute_stream_send |-> FALSE]
      /\ managers # {} /\ Muted \subseteq managers
  BY <1>1 DEF MixRound, Muted
<1>5. /\ seq \in Nat /\ seq' = seq + 1
      /\ \A r \in 1..seq : log'[r] = log[r]
      /\ log'[seq + 1] = e
  BY <1>1, <1>2 DEF seq
<1> HIDE DEF e
<1>6. \A id, r : Queued(id, r)' = Queued(id, r) /\ Working(id, r)' = Working(id, r)
  BY <1>3 DEF Queued, Working
<1>7. ASSUME NEW id PROVE Queued(id, seq + 1) = {} /\ Working(id, seq + 1) = {}
  <2>1. \A i \in 1..Len(unencoded_queue_) :
          id \in unencoded_queue_[i].streams => unencoded_queue_[i].seq \in 1..seq
    BY DEF IInv, PacketsRight, Right, seq
  <2>2. \A t \in Threads : id \in hand[t].streams => hand[t].seq \in 1..seq
    BY DEF IInv, PacketsRight, Right, seq
  <2> QED
    BY <1>5, <2>1, <2>2 DEF Queued, Working
<1>8. \A id, r : r \in 1..seq => ~ToCome(id, r) /\ ~ToCome(id, r)'
  BY <1>3, <1>5 DEF ToCome, NoRound
<1>9. PICK n \in Nat : n = seq + 1 /\ \A id \in managers : ToCome(id, n)'
  <2>1. PICK n \in Nat : n = seq + 1
    BY <1>5
  <2>2. \A id \in managers : ToCome(id, n)'
    BY <2>1, <1>4, <1>5 DEF ToCome
  <2> QED
    BY <2>1, <2>2
<1>10. got \in [Streams -> SUBSET (1..seq)]
  BY DEF ServedInv, MixerTypeOK
<1>11. MixerTypeOK'
  <2>1. got \in [Streams -> SUBSET (1..(seq + 1))]
    <3>1. 1..seq \subseteq 1..(seq + 1)
      BY <1>5
    <3> QED
      BY <3>1, <1>10
  <2> QED
    BY <1>3, <1>4, <1>5, <2>1 DEF ServedInv, MixerTypeOK
<1>12. ASSUME NEW r \in 1..(seq + 1), r \notin 1..seq PROVE r = seq + 1
  BY <1>5, <1>12
<1>13. OnePlace'
  <2> SUFFICES ASSUME NEW id \in Streams, NEW r \in 1..(seq + 1)
               PROVE  (/\ \A i, j \in Queued(id, r) : i = j
                       /\ \A t, u \in Working(id, r) : t = u
                       /\ Queued(id, r) = {} \/ Working(id, r) = {}
                       /\ ToCome(id, r) \/ r \in got[id] => Queued(id, r) = {} /\ Working(id, r) = {}
                       /\ ~(ToCome(id, r) /\ r \in got[id]))'
    BY <1>5 DEF OnePlace
  <2>1. CASE r \in 1..seq
    BY <2>1, <1>3, <1>6, <1>8 DEF ServedInv, OnePlace
  <2>2. CASE r \notin 1..seq
    BY <2>2, <1>3, <1>6, <1>7, <1>10, <1>12
  <2> QED
    BY <2>1, <2>2
<1>14. SomePlace'
  <2> SUFFICES ASSUME NEW r \in 1..(seq + 1), NEW id \in log'[r].there
               PROVE  (\/ r \in got[id] \/ ToCome(id, r) \/ Queued(id, r) # {} \/ Working(id, r) # {}
                       \/ id \in left \/ id \in log[r].failed
                       \/ id \in log[r].muted /\ log[r].passed)'
    BY <1>5 DEF SomePlace
  <2>1. CASE r \in 1..seq
    BY <2>1, <1>3, <1>5, <1>6, <1>8 DEF ServedInv, SomePlace
  <2>2. CASE r \notin 1..seq
    <3>1. id \in managers
      BY <2>2, <1>5, <1>12 DEF e
    <3>2. r = n
      BY <2>2, <1>9, <1>12
    <3> QED
      BY <3>1, <3>2, <1>9
  <2> QED
    BY <2>1, <2>2
<1>15. RoundIsLocked'
  BY <1>4, <1>5 DEF RoundIsLocked, e
<1>16. ForMembers'
  <2>1. \A r \in 1..(seq + 1) : log'[r].there \subseteq listeners \cup left
    <3> SUFFICES ASSUME NEW r \in 1..(seq + 1) PROVE log'[r].there \subseteq listeners \cup left
      OBVIOUS
    <3>1. CASE r \in 1..seq
      BY <3>1, <1>5 DEF ServedInv, ForMembers
    <3>2. CASE r \notin 1..seq
      BY <3>2, <1>5, <1>12 DEF e
    <3> QED
      BY <3>1, <3>2
  <2> QED
    BY <1>3, <1>5, <2>1 DEF ServedInv, ForMembers
<1> QED
  BY <1>11, <1>13, <1>14, <1>15, <1>16 DEF ServedInv

\* Take: the packet is no longer queued but with the thread.
LEMMA TakeServed ==
  ASSUME IInv, ServedInv, NEW t \in Threads, Take(t)
  PROVE  ServedInv'
<1> DEFINE p == Head(unencoded_queue_)
           h == [streams |-> p.streams, seq |-> p.seq, voices |-> p.voices,
                 is_encode |-> FALSE, found |-> FALSE]
<1>1. /\ UNCHANGED <<running_, members, voice, round, got, log>> /\ seq' = seq /\ hand[t] = Idle
      /\ hand' = [hand EXCEPT ![t] = h] /\ unencoded_queue_' = Tail(unencoded_queue_)
      /\ unencoded_queue_ # <<>>
  BY DEF Take, seq
<1>2. /\ unencoded_queue_ \in Seq(Packet) /\ hand \in [Threads -> Held] /\ Len(unencoded_queue_) \in Nat
      /\ Len(unencoded_queue_) > 0 /\ p = unencoded_queue_[1] /\ p \in Packet
      /\ Len(Tail(unencoded_queue_)) = Len(unencoded_queue_) - 1
      /\ \A i \in 1..(Len(unencoded_queue_) - 1) : Tail(unencoded_queue_)[i] = unencoded_queue_[i + 1]
  BY <1>1 DEF IInv, Types
<1>3. /\ p.streams # {} /\ p.streams \subseteq managers \cup left
  BY <1>2 DEF ServedInv, ForMembers
<1>4. /\ hand'[t] = h /\ h.seq = p.seq /\ h.streams = p.streams
      /\ \A u \in Threads \ {t} : hand'[u] = hand[u]
      /\ hand[t].streams = {}
  BY <1>1, <1>2 DEF Idle
<1> HIDE DEF p, h
<1>5. \A id, r : ToCome(id, r)' <=> ToCome(id, r)
  BY <1>1 DEF ToCome
<1>6. ASSUME NEW id, NEW r
      PROVE  /\ Queued(id, r)' = {i \in 1..(Len(unencoded_queue_) - 1) : i + 1 \in Queued(id, r)}
             /\ 1 \in Queued(id, r) <=> p.seq = r /\ id \in p.streams
             /\ Working(id, r)' = Working(id, r) \cup (IF p.seq = r /\ id \in p.streams THEN {t} ELSE {})
             /\ t \notin Working(id, r) /\ Queued(id, r) \subseteq 1..Len(unencoded_queue_)
  <2>1. Queued(id, r)' = {i \in 1..(Len(unencoded_queue_) - 1) : i + 1 \in Queued(id, r)}
    BY <1>1, <1>2 DEF Queued
  <2>2. 1 \in Queued(id, r) <=> p.seq = r /\ id \in p.streams
    BY <1>2 DEF Queued
  <2>3. t \notin Working(id, r) /\ Queued(id, r) \subseteq 1..Len(unencoded_queue_)
    BY <1>4 DEF Working, Queued
  <2>4. \A u \in Threads : u \in Working(id, r)' <=> u \in Working(id, r) \/ (u = t /\ p.seq = r /\ id \in p.streams)
    BY <1>4 DEF Working
  <2>5. Working(id, r) \subseteq Threads /\ Working(id, r)' \subseteq Threads
    BY DEF Working
  <2> QED
    BY <2>1, <2>2, <2>3, <2>4, <2>5
<1>7. OnePlace'
  <2> SUFFICES ASSUME NEW id \in Streams, NEW r \in 1..seq
               PROVE  (/\ \A i, j \in Queued(id, r) : i = j
                       /\ \A u, v \in Working(id, r) : u = v
                       /\ Queued(id, r) = {} \/ Working(id, r) = {}
                       /\ ToCome(id, r) \/ r \in got[id] => Queued(id, r) = {} /\ Working(id, r) = {}
                       /\ ~(ToCome(id, r) /\ r \in got[id]))'
    BY <1>1 DEF OnePlace
  <2>1. /\ \A i, j \in Queued(id, r) : i = j
        /\ \A u, v \in Working(id, r) : u = v
        /\ Queued(id, r) = {} \/ Working(id, r) = {}
        /\ ToCome(id, r) \/ r \in got[id] => Queued(id, r) = {} /\ Working(id, r) = {}
        /\ ~(ToCome(id, r) /\ r \in got[id])
    BY DEF ServedInv, OnePlace
  <2>2. \A i, j \in Queued(id, r)' : i = j
    BY <2>1, <1>2, <1>6
  <2>3. CASE 1 \in Queued(id, r)
    <3>1. Queued(id, r)' = {}
      <4> SUFFICES ASSUME NEW i \in Queued(id, r)' PROVE FALSE
        OBVIOUS
      <4>1. i \in 1..(Len(unencoded_queue_) - 1) /\ i + 1 \in Queued(id, r)
        BY <1>6
      <4>2. i + 1 = 1
        BY <4>1, <2>1, <2>3
      <4> QED
        BY <4>1, <4>2, <1>2
    <3>2. Working(id, r) = {} /\ Working(id, r)' = {t}
      BY <2>1, <2>3, <1>6
    <3> QED
      BY <2>1, <2>3, <3>1, <3>2, <1>1, <1>5
  <2>4. CASE 1 \notin Queued(id, r)
    <3>1. Working(id, r)' = Working(id, r)
      BY <2>4, <1>6
    <3>2. Queued(id, r) = {} => Queued(id, r)' = {}
      BY <1>6
    <3> QED
      BY <2>1, <2>2, <3>1, <3>2, <1>1, <1>5
  <2> QED
    BY <2>3, <2>4
<1>8. SomePlace'
  <2>1. \A id, r : Queued(id, r) # {} \/ Working(id, r) # {} => Queued(id, r)' # {} \/ Working(id, r)' # {}
    <3> SUFFICES ASSUME NEW id, NEW r, Queued(id, r) # {} \/ Working(id, r) # {}
                 PROVE  Queued(id, r)' # {} \/ Working(id, r)' # {}
      OBVIOUS
    <3>1. CASE 1 \in Queued(id, r) \/ Working(id, r) # {}
      BY <3>1, <1>6
    <3>2. CASE 1 \notin Queued(id, r) /\ Working(id, r) = {}
      <4>1. PICK i \in Queued(id, r) : i # 1
        BY <3>2
      <4>2. i \in 1..Len(unencoded_queue_)
        BY <1>6
      <4>3. i - 1 \in 1..(Len(unencoded_queue_) - 1) /\ (i - 1) + 1 = i
        BY <4>1, <4>2, <1>2
      <4> QED
        BY <4>1, <4>3, <1>6
    <3> QED
      BY <3>1, <3>2
  <2> QED
    BY <2>1, <1>1, <1>5 DEF ServedInv, SomePlace, members
<1>9. RoundIsLocked' /\ MixerTypeOK'
  BY <1>1 DEF ServedInv, RoundIsLocked, MixerTypeOK, members, voice, seq
<1>10. ForMembers'
  <2>1. ASSUME NEW i \in DOMAIN unencoded_queue_'
        PROVE  unencoded_queue_'[i].streams # {} /\ unencoded_queue_'[i].streams \subseteq managers \cup left
    <3>1. i + 1 \in DOMAIN unencoded_queue_ /\ unencoded_queue_'[i] = unencoded_queue_[i + 1]
      BY <1>1, <1>2
    <3> QED
      BY <3>1 DEF ServedInv, ForMembers
  <2>2. ASSUME NEW u \in Threads
        PROVE  hand'[u].streams \subseteq managers \cup left /\ (hand'[u] # Idle => hand'[u].streams # {})
    BY <1>3, <1>4 DEF ServedInv, ForMembers
  <2> QED
    BY <1>1, <2>1, <2>2 DEF ServedInv, ForMembers, members
<1> QED
  BY <1>7, <1>8, <1>9, <1>10 DEF ServedInv

\* A mark on one round leaves who was there; a round that was passed over stays so,
\* and an encoding that failed stays failed.
LEMMA MarkServes ==
  ASSUME NEW l \in Seq(Entry), NEW r \in 1..Len(l), NEW e \in Entry,
         e.there = l[r].there, e.muted = l[r].muted, l[r].passed => e.passed,
         l[r].failed \subseteq e.failed
  PROVE  LET m == [l EXCEPT ![r] = e]
         IN  /\ Len(m) = Len(l) /\ m[r] = e
             /\ \A k \in 1..Len(l) :
                  /\ m[k].there = l[k].there /\ m[k].muted = l[k].muted
                  /\ l[k].passed => m[k].passed
                  /\ l[k].failed \subseteq m[k].failed
<1> DEFINE m == [l EXCEPT ![r] = e]
<1>1. Len(m) = Len(l)
  OBVIOUS
<1>2. \A k \in 1..Len(l) : m[k] = IF k = r THEN e ELSE l[k]
  OBVIOUS
<1> QED
  BY <1>1, <1>2

LEMMA PassedMark ==
  ASSUME NEW l \in Seq(Entry), NEW r \in 1..Len(l), NEW b \in BOOLEAN
  PROVE  LET m == [l EXCEPT ![r].passed = @ \/ b]
         IN  /\ Len(m) = Len(l) /\ (b => m[r].passed)
             /\ \A k \in 1..Len(l) :
                  /\ m[k].there = l[k].there /\ m[k].muted = l[k].muted
                  /\ l[k].passed => m[k].passed
                  /\ l[k].failed \subseteq m[k].failed
<1> DEFINE v == l[r].passed \/ b
           e == [l[r] EXCEPT !.passed = v]
<1>1. l[r] \in Entry
  OBVIOUS
<1>2. v \in BOOLEAN /\ (l[r].passed => v) /\ (b => v)
  OBVIOUS
<1> HIDE DEF v
<1>3. e \in Entry /\ e.there = l[r].there /\ e.muted = l[r].muted /\ e.failed = l[r].failed
      /\ e.passed = v
  BY <1>1, <1>2 DEF Entry
<1>4. [l EXCEPT ![r].passed = @ \/ b] = [l EXCEPT ![r] = e]
  BY DEF v
<1> HIDE DEF e
<1> QED
  BY <1>2, <1>3, <1>4, MarkServes

LEMMA FailedMark ==
  ASSUME NEW l \in Seq(Entry), NEW r \in 1..Len(l), NEW x \in Streams
  PROVE  LET m == [l EXCEPT ![r].failed = @ \cup {x}]
         IN  /\ Len(m) = Len(l) /\ x \in m[r].failed
             /\ \A k \in 1..Len(l) :
                  /\ m[k].there = l[k].there /\ m[k].muted = l[k].muted
                  /\ l[k].passed => m[k].passed
                  /\ l[k].failed \subseteq m[k].failed
<1> DEFINE e == [l[r] EXCEPT !.failed = @ \cup {x}]
<1>1. l[r] \in Entry
  OBVIOUS
<1>2. /\ e \in Entry /\ e.there = l[r].there /\ e.muted = l[r].muted /\ e.passed = l[r].passed
      /\ e.failed = l[r].failed \cup {x}
  BY <1>1 DEF Entry
<1>3. [l EXCEPT ![r].failed = @ \cup {x}] = [l EXCEPT ![r] = e]
  OBVIOUS
<1> HIDE DEF e
<1> QED
  BY <1>2, <1>3, MarkServes

\* SendStream takes the streams it makes a packet for, the first of the muted and all
\* of them with it, out of those that have one to come; and makes the packet, unless
\* the stream it looks at has no listener.
LEMMA SendOutcome ==
  ASSUME MixerAssumption, IInv, ServedInv, SendStream, NEW n, n = seq
  PROVE  \E x \in managers, G \in SUBSET managers :
           /\ round' = NextStream(x, x \in round.muted \/ round.mute_stream_send)
           /\ \A k \in G : ToCome(k, n)
           /\ \A k, r : ToCome(k, r)' <=> ToCome(k, r) /\ ~(r = n /\ k \in G)
           /\ \/ G = {} /\ UNCHANGED unencoded_queue_ /\ UNCHANGED log
              \/ /\ G # {} /\ UNCHANGED log
                 /\ unencoded_queue_' = Append(unencoded_queue_,
                      [streams |-> G, seq |-> n, voices |-> log[n].voices \ {x}])
              \/ /\ x \notin listeners /\ UNCHANGED unencoded_queue_
                 /\ log' = [log EXCEPT ![n].passed = @ \/ x \in round.muted]
                 /\ G = IF x \in round.muted THEN round.muted ELSE {x}
<1>1. PICK x : x = Lowest(round.left)
  OBVIOUS
<1>2. round # NoRound /\ round.left # {} /\ round.left \subseteq managers /\ round.muted \subseteq managers
      /\ round.left \in SUBSET Nat /\ round.mute_stream_send \in BOOLEAN
      /\ (round.mute_stream_send \/ round.muted \subseteq round.left)
  BY DEF SendStream, Unlocked, ServedInv, RoundIsLocked, MixerTypeOK, MixerAssumption, IInv, Types
<1>3. x \in round.left
  BY <1>1, <1>2, LowestIsMember
<1> DEFINE G == IF x \in round.muted THEN IF round.mute_stream_send THEN {} ELSE round.muted ELSE {x}
           sent == x \in round.muted \/ round.mute_stream_send
<1>4. round' = NextStream(x, sent)
  <2>1. CASE x \in round.muted /\ round.mute_stream_send
    <3>1. round' = NextStream(x, TRUE)
      BY <2>1, <1>1 DEF SendStream
    <3>2. sent = TRUE
      BY <2>1
    <3> QED
      BY <3>1, <3>2
  <2>2. CASE ~(x \in round.muted /\ round.mute_stream_send)
    BY <2>2, <1>1 DEF SendStream
  <2> QED
    BY <2>1, <2>2
<1>5. /\ round'.left = round.left \ {x}
      /\ round'.left # {} => round'.muted = round.muted /\ round'.mute_stream_send = sent
  <2> DEFINE rest == round.left \ {x}
  <2>1. round \in [left : SUBSET Streams, muted : SUBSET Streams, mute_stream_send : BOOLEAN]
    BY DEF IInv, Types
  <2>2. CASE rest = {}
    BY <2>2, <1>4 DEF NextStream, NoRound
  <2>3. CASE rest # {}
    <3>1. round' = [round EXCEPT !.left = rest, !.mute_stream_send = sent]
      BY <2>3, <1>4 DEF NextStream
    <3> HIDE DEF rest, sent
    <3>2. round'.left = rest /\ round'.muted = round.muted /\ round'.mute_stream_send = sent
      BY <3>1, <2>1
    <3> QED
      BY <3>2 DEF rest
  <2> QED
    BY <2>2, <2>3
<1>6. \A k \in G : ToCome(k, n)
  BY <1>2, <1>3 DEF ToCome
<1>7. seq' = n
  <2>1. CASE UNCHANGED log
    BY <2>1 DEF seq
  <2>2. CASE ~UNCHANGED log
    <3>1. PICK b \in BOOLEAN : log' = [log EXCEPT ![seq].passed = @ \/ b]
      <4> DEFINE b == Lowest(round.left) \in round.muted
      <4>1. CASE b /\ round.mute_stream_send
        BY <4>1, <2>2 DEF SendStream
      <4>2. CASE ~(b /\ round.mute_stream_send) /\ Lowest(round.left) \in listeners
        BY <4>2, <2>2 DEF SendStream
      <4>3. CASE ~(b /\ round.mute_stream_send) /\ Lowest(round.left) \notin listeners
        <5>1. log' = [log EXCEPT ![seq].passed = @ \/ b]
          BY <4>3 DEF SendStream
        <5>2. b \in BOOLEAN
          OBVIOUS
        <5> QED
          BY <5>1, <5>2
      <4> QED
        BY <4>1, <4>2, <4>3
    <3>2. seq \in 1..Len(log) /\ log \in Seq(Entry)
      BY <1>2 DEF ServedInv, RoundIsLocked, seq, IInv, Types
    <3> QED
      BY <3>1, <3>2, PassedMark DEF seq
  <2> QED
    BY <2>1, <2>2
<1>8. ASSUME NEW k, NEW r PROVE ToCome(k, r)' <=> ToCome(k, r) /\ ~(r = n /\ k \in G)
  <2>1. ToCome(k, r)' <=> r = n /\ k \in round.left \ {x} /\ ~(k \in round.muted /\ sent)
    BY <1>5, <1>7 DEF ToCome
  <2>2. ToCome(k, r) <=> r = n /\ k \in round.left /\ ~(k \in round.muted /\ round.mute_stream_send)
    BY DEF ToCome
  <2> QED
    BY <2>1, <2>2, <1>2, <1>3
<1>9. x \in managers /\ G \in SUBSET managers
  BY <1>2, <1>3
<1>10. \/ G = {} /\ UNCHANGED unencoded_queue_ /\ UNCHANGED log
       \/ /\ G # {} /\ UNCHANGED log
          /\ unencoded_queue_' = Append(unencoded_queue_,
               [streams |-> G, seq |-> n, voices |-> log[n].voices \ {x}])
       \/ /\ x \notin listeners /\ UNCHANGED unencoded_queue_
          /\ log' = [log EXCEPT ![n].passed = @ \/ x \in round.muted]
          /\ G = IF x \in round.muted THEN round.muted ELSE {x}
  <2>1. CASE x \in round.muted /\ round.mute_stream_send
    <3>1. UNCHANGED <<unencoded_queue_, log>>
      BY <2>1, <1>1 DEF SendStream
    <3> QED
      BY <3>1, <2>1
  <2>2. CASE ~(x \in round.muted /\ round.mute_stream_send) /\ x \in listeners
    <3>1. UNCHANGED log
      BY <2>2, <1>1 DEF SendStream
    <3>2. unencoded_queue_' = Append(unencoded_queue_,
            [streams |-> IF x \in round.muted THEN round.muted ELSE {x}, seq |-> n, voices |-> log[n].voices \ {x}])
      BY <2>2, <1>1 DEF SendStream
    <3>3. G = (IF x \in round.muted THEN round.muted ELSE {x}) /\ G # {}
      BY <2>2
    <3> QED
      BY <3>1, <3>2, <3>3
  <2>3. CASE ~(x \in round.muted /\ round.mute_stream_send) /\ x \notin listeners
    <3>1. UNCHANGED unencoded_queue_
      BY <2>3, <1>1 DEF SendStream
    <3>2. log' = [log EXCEPT ![n].passed = @ \/ x \in round.muted]
      BY <2>3, <1>1 DEF SendStream
    <3> QED
      BY <3>1, <3>2, <2>3
  <2> QED
    BY <2>1, <2>2, <2>3
<1> HIDE DEF G
<1> QED
  BY <1>4, <1>6, <1>8, <1>9, <1>10

\* SendStream: whoever no longer has a packet to come is in the one it makes, or was
\* passed over with the muted, or has no listener.
LEMMA SendServed ==
  ASSUME MixerAssumption, IInv, ServedInv, SendStream
  PROVE  ServedInv'
<1>1. PICK n \in Nat : n = seq
  BY DEF seq, IInv, Types
<1>2. PICK x \in managers, G \in SUBSET managers :
        /\ round' = NextStream(x, x \in round.muted \/ round.mute_stream_send)
        /\ \A k \in G : ToCome(k, n)
        /\ \A k, r : ToCome(k, r)' <=> ToCome(k, r) /\ ~(r = n /\ k \in G)
        /\ \/ G = {} /\ UNCHANGED unencoded_queue_ /\ UNCHANGED log
           \/ /\ G # {} /\ UNCHANGED log
              /\ unencoded_queue_' = Append(unencoded_queue_,
                   [streams |-> G, seq |-> n, voices |-> log[n].voices \ {x}])
           \/ /\ x \notin listeners /\ UNCHANGED unencoded_queue_
              /\ log' = [log EXCEPT ![n].passed = @ \/ x \in round.muted]
              /\ G = IF x \in round.muted THEN round.muted ELSE {x}
  BY <1>1, SendOutcome
<1>3. /\ UNCHANGED <<running_, managers, listeners, left, muted_, continue_mute_packets_, hand, got>>
      /\ round # NoRound /\ n > 0 /\ round.left # {} /\ log[n].muted = round.muted
      /\ round.mute_stream_send \/ round.muted \subseteq round.left
      /\ round \in [left : SUBSET Streams, muted : SUBSET Streams, mute_stream_send : BOOLEAN]
      /\ round.left \subseteq managers /\ round.muted \subseteq managers
      /\ log \in Seq(Entry) /\ Len(log) = n
  BY <1>1 DEF SendStream, members, voice, Unlocked, ServedInv, RoundIsLocked, MixerTypeOK, IInv, Types, seq
<1>4. /\ Len(log') = n
      /\ \A k \in 1..n :
           /\ log'[k].there = log[k].there /\ log'[k].muted = log[k].muted
           /\ log[k].passed => log'[k].passed
           /\ log[k].failed \subseteq log'[k].failed
      /\ log' # log => /\ x \in round.muted => log'[n].passed
                       /\ x \notin listeners
                       /\ G = IF x \in round.muted THEN round.muted ELSE {x}
  <2>1. CASE log' = log
    BY <2>1, <1>3
  <2>2. CASE log' # log
    <3> DEFINE b == x \in round.muted
    <3>1. log' = [log EXCEPT ![n].passed = @ \/ b] /\ x \notin listeners
          /\ G = IF x \in round.muted THEN round.muted ELSE {x}
      BY <2>2, <1>2, Zenon
    <3>2. b \in BOOLEAN /\ n \in 1..Len(log)
      BY <1>1, <1>3
    <3>3. b => x \in round.muted
      OBVIOUS
    <3>4. x \in round.muted => b
      OBVIOUS
    <3> HIDE DEF b
    <3> QED
      BY <3>1, <3>2, <3>3, <3>4, <1>3, PassedMark
  <2> QED
    BY <2>1, <2>2
<1>5. seq' = n
  BY <1>4 DEF seq
<1>6. /\ round' = NoRound \/ (round' # NoRound /\ round'.left # {} /\ round'.muted = round.muted)
      /\ round'.left \subseteq managers /\ round'.muted \subseteq managers
      /\ round'.mute_stream_send \/ round'.muted \subseteq round'.left
  <2> DEFINE rest == round.left \ {x}
             sent == x \in round.muted \/ round.mute_stream_send
  <2>0. round' = NextStream(x, sent)
    BY <1>2, Zenon
  <2> HIDE DEF sent
  <2>1. CASE rest = {}
    <3>1. round' = NoRound
      BY <2>0, <2>1 DEF NextStream
    <3> QED
      BY <3>1 DEF NoRound
  <2>2. CASE rest # {}
    <3>1. round' = [round EXCEPT !.left = rest, !.mute_stream_send = sent]
      BY <2>0, <2>2 DEF NextStream
    <3>2. sent \/ round.muted \subseteq rest
      BY <1>3 DEF sent
    <3>3. rest \subseteq managers
      BY <1>3
    <3> HIDE DEF rest
    <3>4. round'.left = rest /\ round'.muted = round.muted /\ round'.mute_stream_send = sent
      BY <3>1, <1>3
    <3> QED
      BY <3>2, <3>3, <3>4, <2>2, <1>3 DEF NoRound
  <2> QED
    BY <2>1, <2>2
<1> DEFINE p == [streams |-> G, seq |-> n, voices |-> log[n].voices \ {x}]
           q == unencoded_queue_
<1>7. /\ q \in Seq(Packet) /\ Len(q) \in Nat /\ p.streams = G /\ p.seq = n
      /\ q' = q \/ (q' = Append(q, p) /\ G # {} /\ log' = log)
  <2>1. q \in Seq(Packet) /\ Len(q) \in Nat /\ p.streams = G /\ p.seq = n
    BY DEF IInv, Types
  <2>2. q' = q \/ (q' = Append(q, p) /\ G # {} /\ log' = log)
    BY <1>2, Zenon
  <2> QED
    BY <2>1, <2>2
<1> HIDE DEF p
<1>8. /\ Len(q') = Len(q) \/ Len(q') = Len(q) + 1
      /\ \A i \in 1..Len(q) : q'[i] = q[i]
      /\ q' # q => Len(q') = Len(q) + 1 /\ q'[Len(q) + 1] = p
  BY <1>7
<1>9. ASSUME NEW k, NEW r
      PROVE  /\ Working(k, r)' = Working(k, r)
             /\ Queued(k, r) \subseteq Queued(k, r)'
             /\ ~(r = n /\ k \in G) => Queued(k, r)' = Queued(k, r)
             /\ r = n /\ k \in G /\ q' # q => Queued(k, r)' # {}
             /\ r = n /\ k \in G /\ Queued(k, r) = {} => \A i, j \in Queued(k, r)' : i = j
  <2>1. Working(k, r)' = Working(k, r)
    BY <1>3 DEF Working
  <2>2. CASE q' = q
    <3>1. Queued(k, r)' = Queued(k, r)
      BY <2>2 DEF Queued
    <3> QED
      BY <3>1, <2>1, <2>2
  <2>3. CASE q' # q
    <3>1. \A i : i \in Queued(k, r)' <=> i \in Queued(k, r) \/ (i = Len(q) + 1 /\ r = n /\ k \in G)
      BY <2>3, <1>7, <1>8 DEF Queued
    <3>2. r = n /\ k \in G => Len(q) + 1 \in Queued(k, r)'
      BY <3>1
    <3>3. ~(r = n /\ k \in G) => Queued(k, r)' = Queued(k, r)
      BY <3>1
    <3>4. r = n /\ k \in G /\ Queued(k, r) = {} => \A i, j \in Queued(k, r)' : i = j
      BY <3>1
    <3> QED
      BY <3>1, <3>2, <3>3, <3>4, <2>1
  <2> QED
    BY <2>2, <2>3
<1>10. OnePlace'
  <2> SUFFICES ASSUME NEW id \in Streams, NEW r \in 1..n
               PROVE  (/\ \A i, j \in Queued(id, r) : i = j
                       /\ \A t, u \in Working(id, r) : t = u
                       /\ Queued(id, r) = {} \/ Working(id, r) = {}
                       /\ ToCome(id, r) \/ r \in got[id] => Queued(id, r) = {} /\ Working(id, r) = {}
                       /\ ~(ToCome(id, r) /\ r \in got[id]))'
    BY <1>5 DEF OnePlace
  <2>1. /\ \A i, j \in Queued(id, r) : i = j
        /\ \A t, u \in Working(id, r) : t = u
        /\ Queued(id, r) = {} \/ Working(id, r) = {}
        /\ ToCome(id, r) \/ r \in got[id] => Queued(id, r) = {} /\ Working(id, r) = {}
        /\ ~(ToCome(id, r) /\ r \in got[id])
    BY <1>1 DEF ServedInv, OnePlace
  <2>2. CASE r = n /\ id \in G
    <3>1. ToCome(id, r) /\ ~ToCome(id, r)'
      BY <2>2, <1>2
    <3> QED
      BY <2>1, <2>2, <3>1, <1>3, <1>9
  <2>3. CASE ~(r = n /\ id \in G)
    <3>1. ToCome(id, r)' <=> ToCome(id, r)
      BY <2>3, <1>2
    <3> QED
      BY <2>1, <2>3, <3>1, <1>3, <1>9
  <2> QED
    BY <2>2, <2>3
<1>11. SomePlace'
  <2> SUFFICES ASSUME NEW r \in 1..n, NEW id \in log[r].there
               PROVE  (\/ r \in got[id] \/ ToCome(id, r) \/ Queued(id, r) # {} \/ Working(id, r) # {}
                       \/ id \in left \/ id \in log[r].failed
                       \/ id \in log[r].muted /\ log[r].passed)'
    BY <1>4, <1>5 DEF SomePlace
  <2>1. \/ r \in got[id] \/ ToCome(id, r) \/ Queued(id, r) # {} \/ Working(id, r) # {}
        \/ id \in left \/ id \in log[r].failed
        \/ id \in log[r].muted /\ log[r].passed
    BY <1>1 DEF ServedInv, SomePlace
  <2>2. CASE ~ToCome(id, r) \/ ~(r = n /\ id \in G)
    <3>1. ToCome(id, r)' <=> ToCome(id, r)
      BY <2>2, <1>2
    <3>2. Queued(id, r) # {} => Queued(id, r)' # {}
      BY <1>9
    <3> QED
      BY <2>1, <3>1, <3>2, <1>3, <1>4, <1>9
  <2>3. CASE r = n /\ id \in G
    <3>1. CASE q' # q
      BY <2>3, <3>1, <1>9
    <3>2. CASE q' = q
      <4>1. x \notin listeners /\ G = (IF x \in round.muted THEN round.muted ELSE {x})
            /\ (x \in round.muted => log'[n].passed)
        <5>1. x \notin listeners /\ log' = [log EXCEPT ![n].passed = @ \/ x \in round.muted]
              /\ G = IF x \in round.muted THEN round.muted ELSE {x}
          <6>1. q' # Append(q, p)
            BY <3>2, <1>7
          <6> QED
            BY <6>1, <2>3, <1>2, Zenon DEF p
        <5> DEFINE b == x \in round.muted
        <5>2. log' = [log EXCEPT ![n].passed = @ \/ b] /\ b \in BOOLEAN /\ n \in 1..Len(log)
              /\ (x \in round.muted => b)
          BY <5>1, <1>1, <1>3
        <5> HIDE DEF b
        <5>3. b => log'[n].passed
          BY <5>2, <1>3, PassedMark
        <5> QED
          BY <5>1, <5>2, <5>3
      <4>2. CASE x \in round.muted
        BY <4>1, <4>2, <2>3, <1>1, <1>3, <1>4
      <4>3. CASE x \notin round.muted
        <5>1. id = x /\ id \notin listeners
          BY <4>1, <4>3, <2>3
        <5>2. id \in left
          BY <5>1, <1>1 DEF ServedInv, ForMembers
        <5> QED
          BY <5>2, <1>3
      <4> QED
        BY <4>2, <4>3
    <3> QED
      BY <3>1, <3>2
  <2> QED
    BY <2>2, <2>3
<1>12. RoundIsLocked'
  <2>1. n \in 1..n
    BY <1>1, <1>3
  <2> QED
    BY <2>1, <1>3, <1>4, <1>5, <1>6 DEF RoundIsLocked, NoRound
<1>13. ForMembers'
  <2>1. ASSUME NEW i \in DOMAIN q'
        PROVE  q'[i].streams # {} /\ q'[i].streams \subseteq managers \cup left
    <3>1. CASE i \in DOMAIN q
      BY <3>1, <1>7, <1>8 DEF ServedInv, ForMembers
    <3>2. CASE i \notin DOMAIN q
      BY <3>2, <1>7, <1>8
    <3> QED
      BY <3>1, <3>2
  <2>2. \A r \in 1..n : log'[r].there \subseteq listeners \cup left
    BY <1>1, <1>4 DEF ServedInv, ForMembers
  <2> QED
    BY <2>1, <2>2, <1>3, <1>5 DEF ServedInv, ForMembers
<1>14. MixerTypeOK'
  BY <1>1, <1>3, <1>5, <1>6 DEF ServedInv, MixerTypeOK
<1> QED
  BY <1>10, <1>11, <1>12, <1>13, <1>14 DEF ServedInv

\* Encode and Deliver: the thread keeps its packet as it is, or is done with the first
\* of its streams, which has left or no longer listens, was given the round, or was
\* not because the encoder failed.
LEMMA HandOutcome ==
  ASSUME MixerAssumption, IInv, ServedInv, NEW t \in Threads, Encode(t) \/ Deliver(t)
  PROVE  \E x \in hand[t].streams, s \in 1..seq, h \in Held :
           /\ s = hand[t].seq /\ hand' = [hand EXCEPT ![t] = h]
           /\ \/ h.streams = hand[t].streams /\ h.seq = s /\ UNCHANGED got /\ UNCHANGED log
              \/ /\ h.streams = hand[t].streams \ {x} /\ (h = Idle \/ (h.streams # {} /\ h.seq = s))
                 /\ \/ x \notin managers \cap listeners /\ UNCHANGED got /\ UNCHANGED log
                    \/ got' = [got EXCEPT ![x] = @ \cup {s}] /\ UNCHANGED log
                    \/ log' = [log EXCEPT ![s].failed = @ \cup {x}] /\ UNCHANGED got
<1>1. /\ hand \in [Threads -> Held] /\ hand[t] \in Held /\ Idle \in Held
      /\ hand[t] # Idle /\ hand[t].streams # {} /\ hand[t].streams \subseteq Nat
      /\ hand[t].streams \subseteq Streams /\ hand[t].seq \in 1..seq
  <2>1. hand \in [Threads -> Held] /\ hand[t] \in Held /\ Idle \in Held
    BY DEF IInv, Types, Idle, Held
  <2>2. hand[t] # Idle
    BY DEF Encode, Deliver, Idle
  <2>3. hand[t].streams # {}
    BY <2>2 DEF ServedInv, ForMembers
  <2>4. hand[t].seq \in 1..seq
    BY <2>3 DEF IInv, PacketsRight, Right, seq
  <2>5. hand[t].streams \subseteq Streams /\ Streams \subseteq Nat
    BY <2>1 DEF Held, MixerAssumption
  <2> QED
    BY <2>1, <2>2, <2>3, <2>4, <2>5
<1>2. PICK x : x = Lowest(hand[t].streams)
  OBVIOUS
<1>3. x \in hand[t].streams
  BY <1>1, <1>2, LowestIsMember
<1>4. ASSUME Forward(t)
      PROVE  \E h \in Held : /\ hand' = [hand EXCEPT ![t] = h]
                             /\ h.streams = hand[t].streams \ {x}
                             /\ h = Idle \/ (h.streams # {} /\ h.seq = hand[t].seq)
  <2> DEFINE rest == hand[t].streams \ {x}
             h == IF rest = {} THEN Idle ELSE [hand[t] EXCEPT !.streams = rest, !.found = FALSE]
  <2>1. hand' = [hand EXCEPT ![t] = h]
    BY <1>1, <1>2, <1>4 DEF Forward
  <2>2. h \in Held /\ h.streams = rest /\ (h = Idle \/ (h.streams # {} /\ h.seq = hand[t].seq))
    <3>1. CASE rest = {}
      BY <3>1, <1>1 DEF Idle
    <3>2. CASE rest # {}
      BY <3>2, <1>1 DEF Held
    <3> QED
      BY <3>1, <3>2
  <2> HIDE DEF h
  <2> QED
    BY <2>1, <2>2
<1>5. CASE Encode(t) /\ x \in managers
  <2>1. UNCHANGED got /\ UNCHANGED log
    BY <1>5 DEF Encode
  <2>2. PICK ok \in BOOLEAN : hand' = [hand EXCEPT ![t].found = TRUE, ![t].is_encode = @ \/ ok]
    BY <1>2, <1>5 DEF Encode
  <2> DEFINE h == [hand[t] EXCEPT !.found = TRUE, !.is_encode = @ \/ ok]
  <2>3. hand' = [hand EXCEPT ![t] = h]
    BY <2>2, <1>1
  <2>4. h \in Held /\ h.streams = hand[t].streams /\ h.seq = hand[t].seq
    BY <1>1 DEF Held
  <2> HIDE DEF h
  <2> QED
    BY <2>1, <2>3, <2>4, <1>1, <1>3
<1>6. CASE Encode(t) /\ x \notin managers
  <2>1. UNCHANGED got /\ UNCHANGED log /\ Forward(t)
    BY <1>2, <1>6 DEF Encode
  <2> QED
    BY <2>1, <1>1, <1>3, <1>4, <1>6
<1>7. CASE Deliver(t)
  <2>1. PICK h \in Held : /\ hand' = [hand EXCEPT ![t] = h]
                          /\ h.streams = hand[t].streams \ {x}
                          /\ h = Idle \/ (h.streams # {} /\ h.seq = hand[t].seq)
    BY <1>4, <1>7 DEF Deliver
  <2>2. \/ x \notin managers \cap listeners /\ UNCHANGED got /\ UNCHANGED log
        \/ got' = [got EXCEPT ![x] = @ \cup {hand[t].seq}] /\ UNCHANGED log
        \/ log' = [log EXCEPT ![hand[t].seq].failed = @ \cup {x}] /\ UNCHANGED got
    <3>1. CASE x \notin listeners
      BY <3>1, <1>2, <1>7 DEF Deliver
    <3>2. CASE x \in listeners /\ hand[t].is_encode
      BY <3>2, <1>2, <1>7 DEF Deliver
    <3>3. CASE x \in listeners /\ ~hand[t].is_encode
      BY <3>3, <1>2, <1>7 DEF Deliver
    <3> QED
      BY <3>1, <3>2, <3>3
  <2> QED
    BY <2>1, <2>2, <1>1, <1>3
<1> QED
  BY <1>5, <1>6, <1>7

\* EncodeLoop: whoever the thread is done with has the round, or a reason not to.
LEMMA HandServed ==
  ASSUME MixerAssumption, IInv, ServedInv, NEW t \in Threads, Encode(t) \/ Deliver(t)
  PROVE  ServedInv'
<1>1. PICK n \in Nat : n = seq /\ Len(log) = n /\ log \in Seq(Entry)
  BY DEF seq, IInv, Types
<1>2. PICK x \in hand[t].streams, s \in 1..n, h \in Held :
        /\ s = hand[t].seq /\ hand' = [hand EXCEPT ![t] = h]
        /\ \/ h.streams = hand[t].streams /\ h.seq = s /\ UNCHANGED got /\ UNCHANGED log
           \/ /\ h.streams = hand[t].streams \ {x} /\ (h = Idle \/ (h.streams # {} /\ h.seq = s))
              /\ \/ x \notin managers \cap listeners /\ UNCHANGED got /\ UNCHANGED log
                 \/ got' = [got EXCEPT ![x] = @ \cup {s}] /\ UNCHANGED log
                 \/ log' = [log EXCEPT ![s].failed = @ \cup {x}] /\ UNCHANGED got
  BY <1>1, HandOutcome
<1>3. /\ UNCHANGED <<running_, managers, listeners, left, muted_, continue_mute_packets_,
                     round, unencoded_queue_>>
      /\ hand \in [Threads -> Held] /\ hand[t].streams \subseteq managers \cup left
      /\ managers \cup left \subseteq Streams /\ got \in [Streams -> SUBSET (1..n)]
  BY <1>1 DEF Encode, Deliver, members, voice, ServedInv, MixerTypeOK, ForMembers, IInv, Types
<1>4. /\ hand'[t] = h /\ \A u \in Threads \ {t} : hand'[u] = hand[u]
      /\ x \in Streams /\ h.streams \subseteq hand[t].streams
      /\ h # Idle => h.streams # {}
  BY <1>2, <1>3
<1>5. /\ Len(log') = n
      /\ \A k \in 1..n :
           /\ log'[k].there = log[k].there /\ log'[k].muted = log[k].muted
           /\ log[k].passed => log'[k].passed
           /\ log[k].failed \subseteq log'[k].failed
      /\ log' # log => x \in log'[s].failed
  <2>1. CASE log' = log
    BY <2>1, <1>1
  <2>2. CASE log' # log
    <3>1. log' = [log EXCEPT ![s].failed = @ \cup {x}]
      BY <2>2, <1>2
    <3> QED
      BY <3>1, <1>1, <1>4, FailedMark
  <2> QED
    BY <2>1, <2>2
<1>6. seq' = n
  BY <1>5 DEF seq
<1>7. /\ got' \in [Streams -> SUBSET (1..n)]
      /\ \A k \in Streams : got[k] \subseteq got'[k]
      /\ \A k \in Streams, r \in 1..n :
           r \in got'[k] => r \in got[k] \/ (k = x /\ r = s /\ h.streams = hand[t].streams \ {x})
  BY <1>2, <1>3, <1>4
<1>8. ASSUME NEW k, NEW r
      PROVE  /\ Queued(k, r)' = Queued(k, r) /\ (ToCome(k, r)' <=> ToCome(k, r))
             /\ \/ Working(k, r)' = Working(k, r)
                \/ k = x /\ r = s
             /\ h.streams = hand[t].streams \ {x} => t \notin Working(x, s)'
             /\ Working(k, r)' \subseteq Working(k, r)
             /\ t \in Working(x, s)
  <2>1. Queued(k, r)' = Queued(k, r) /\ (ToCome(k, r)' <=> ToCome(k, r))
    BY <1>1, <1>3, <1>6 DEF Queued, ToCome
  <2>2. t \in Working(x, s)
    BY <1>2 DEF Working
  <2>3. \A u \in Threads : u # t => (u \in Working(k, r)' <=> u \in Working(k, r))
    BY <1>4 DEF Working
  <2>4. h.streams = hand[t].streams \ {x} => t \notin Working(x, s)'
    BY <1>4 DEF Working
  <2>5. /\ t \in Working(k, r)' => t \in Working(k, r)
        /\ t \in Working(k, r) => t \in Working(k, r)' \/ (k = x /\ r = s)
    BY <1>2, <1>4 DEF Working, Idle
  <2>6. Working(k, r) \subseteq Threads /\ Working(k, r)' \subseteq Threads
    BY DEF Working
  <2> QED
    BY <2>1, <2>2, <2>3, <2>4, <2>5, <2>6
<1>9. OnePlace'
  <2> SUFFICES ASSUME NEW id \in Streams, NEW r \in 1..n
               PROVE  (/\ \A i, j \in Queued(id, r) : i = j
                       /\ \A u, v \in Working(id, r) : u = v
                       /\ Queued(id, r) = {} \/ Working(id, r) = {}
                       /\ ToCome(id, r) \/ r \in got[id] => Queued(id, r) = {} /\ Working(id, r) = {}
                       /\ ~(ToCome(id, r) /\ r \in got[id]))'
    BY <1>6 DEF OnePlace
  <2>1. /\ \A i, j \in Queued(id, r) : i = j
        /\ \A u, v \in Working(id, r) : u = v
        /\ Queued(id, r) = {} \/ Working(id, r) = {}
        /\ ToCome(id, r) \/ r \in got[id] => Queued(id, r) = {} /\ Working(id, r) = {}
        /\ ~(ToCome(id, r) /\ r \in got[id])
    BY <1>1 DEF ServedInv, OnePlace
  <2>2. CASE id = x /\ r = s /\ h.streams = hand[t].streams \ {x}
    <3>1. Working(id, r) = {t} /\ Queued(id, r) = {} /\ ~ToCome(id, r)
      BY <2>1, <2>2, <1>8
    <3>2. Working(id, r)' = {}
      BY <2>2, <3>1, <1>8
    <3> QED
      BY <3>1, <3>2, <1>8
  <2>3. CASE ~(id = x /\ r = s /\ h.streams = hand[t].streams \ {x})
    <3>1. r \in got'[id] => r \in got[id]
      BY <2>3, <1>7
    <3> QED
      BY <2>1, <3>1, <1>8
  <2> QED
    BY <2>2, <2>3
<1>10. SomePlace'
  <2> SUFFICES ASSUME NEW r \in 1..n, NEW id \in log[r].there
               PROVE  (\/ r \in got[id] \/ ToCome(id, r) \/ Queued(id, r) # {} \/ Working(id, r) # {}
                       \/ id \in left \/ id \in log[r].failed
                       \/ id \in log[r].muted /\ log[r].passed)'
    BY <1>5, <1>6 DEF SomePlace
  <2>1. \/ r \in got[id] \/ ToCome(id, r) \/ Queued(id, r) # {} \/ Working(id, r) # {}
        \/ id \in left \/ id \in log[r].failed
        \/ id \in log[r].muted /\ log[r].passed
    BY <1>1 DEF ServedInv, SomePlace
  <2>2. id \in Streams /\ id \in listeners \cup left
    <3>1. id \in listeners \cup left
      BY <1>1 DEF ServedInv, ForMembers
    <3> QED
      BY <3>1 DEF ServedInv, MixerTypeOK
  <2>3. CASE Working(id, r)' = Working(id, r)
    BY <2>1, <2>2, <2>3, <1>3, <1>5, <1>7, <1>8
  <2>4. CASE Working(id, r)' # Working(id, r)
    <3>1. id = x /\ r = s
      BY <2>4, <1>8
    <3>2. h.streams # hand[t].streams \/ h.seq # s
      <4>1. h.streams = hand[t].streams /\ h.seq = s => Working(id, r)' = Working(id, r)
        <5> SUFFICES ASSUME h.streams = hand[t].streams, h.seq = s
                     PROVE  Working(id, r)' = Working(id, r)
          OBVIOUS
        <5>1. \A u \in Threads : hand'[u].seq = hand[u].seq /\ hand'[u].streams = hand[u].streams
          BY <1>2, <1>4
        <5> QED
          BY <5>1 DEF Working
      <4> QED
        BY <2>4, <4>1
    <3>3. \/ x \notin managers \cap listeners
          \/ got' = [got EXCEPT ![x] = @ \cup {s}]
          \/ log' = [log EXCEPT ![s].failed = @ \cup {x}]
      BY <3>2, <1>2
    <3>4. CASE x \notin managers \cap listeners
      BY <3>1, <3>4, <2>2, <1>3
    <3>5. CASE got' = [got EXCEPT ![x] = @ \cup {s}]
      BY <3>1, <3>5, <1>3, <1>4
    <3>6. CASE log' = [log EXCEPT ![s].failed = @ \cup {x}]
      <4>1. x \in log'[s].failed
        BY <3>6, <1>1, <1>4, FailedMark
      <4> QED
        BY <4>1, <3>1
    <3> QED
      BY <3>3, <3>4, <3>5, <3>6
  <2> QED
    BY <2>3, <2>4
<1>11. RoundIsLocked'
  <2>1. round # NoRound => n \in 1..n
    BY <1>1 DEF ServedInv, RoundIsLocked
  <2> QED
    BY <2>1, <1>1, <1>3, <1>5, <1>6 DEF ServedInv, RoundIsLocked
<1>12. ForMembers'
  <2>1. ASSUME NEW u \in Threads
        PROVE  hand'[u].streams \subseteq managers \cup left /\ (hand'[u] # Idle => hand'[u].streams # {})
    BY <1>3, <1>4 DEF ServedInv, ForMembers
  <2>2. \A r \in 1..n : log'[r].there \subseteq listeners \cup left
    BY <1>1, <1>5 DEF ServedInv, ForMembers
  <2> QED
    BY <2>1, <2>2, <1>3, <1>6 DEF ServedInv, ForMembers
<1>13. MixerTypeOK'
  BY <1>1, <1>3, <1>6, <1>7 DEF ServedInv, MixerTypeOK
<1> QED
  BY <1>9, <1>10, <1>11, <1>12, <1>13 DEF ServedInv

\* A set whose members are all the same has at most one.
LEMMA AtMostOne ==
  ASSUME NEW S, \A i, j \in S : i = j
  PROVE  Cardinality(S) = IF S = {} THEN 0 ELSE 1
<1>1. CASE S = {}
  BY <1>1, FS_EmptySet
<1>2. CASE S # {}
  <2>1. PICK i : S = {i}
    BY <1>2
  <2> QED
    BY <2>1, <1>2, FS_Singleton
<1> QED
  BY <1>1, <1>2

\* The places of a stream's packet count one.
LEMMA ServedGives ==
  ASSUME ServedInv
  PROVE  RoundsAreServed
<1>1. MixerTypeOK
  BY DEF ServedInv
<1>2. ASSUME NEW id \in Streams, NEW r \in 1..seq
      PROVE  /\ Copies(id, r) = IF Queued(id, r) = {} /\ Working(id, r) = {} THEN 0 ELSE 1
             /\ ToCome(id, r) \/ r \in got[id] => Queued(id, r) = {} /\ Working(id, r) = {}
             /\ ~(ToCome(id, r) /\ r \in got[id])
  <2>1. /\ \A i, j \in Queued(id, r) : i = j
        /\ \A t, u \in Working(id, r) : t = u
        /\ Queued(id, r) = {} \/ Working(id, r) = {}
        /\ ToCome(id, r) \/ r \in got[id] => Queued(id, r) = {} /\ Working(id, r) = {}
        /\ ~(ToCome(id, r) /\ r \in got[id])
    BY DEF ServedInv, OnePlace
  <2>2. Cardinality(Queued(id, r)) = IF Queued(id, r) = {} THEN 0 ELSE 1
    BY <2>1, AtMostOne
  <2>3. Cardinality(Working(id, r)) = IF Working(id, r) = {} THEN 0 ELSE 1
    BY <2>1, AtMostOne
  <2> QED
    BY <2>1, <2>2, <2>3 DEF Copies
<1>3. GivenOnce
  <2> SUFFICES ASSUME NEW id \in Streams, NEW r \in 1..seq
               PROVE  Copies(id, r) + (IF r \in got[id] THEN 1 ELSE 0)
                        + (IF ToCome(id, r) THEN 1 ELSE 0) <= 1
    BY DEF GivenOnce
  <2> QED
    BY <1>2
<1>4. EveryoneIsServed
  <2> SUFFICES ASSUME NEW r \in 1..seq, NEW id \in log[r].there
               PROVE  \/ r \in got[id] \/ Copies(id, r) = 1 \/ ToCome(id, r)
                      \/ id \in left \/ id \in log[r].failed
                      \/ id \in log[r].muted /\ log[r].passed
    BY DEF EveryoneIsServed
  <2>1. id \in listeners \cup left
    BY DEF ServedInv, ForMembers
  <2>2. id \in Streams
    BY <2>1 DEF ServedInv, MixerTypeOK
  <2> QED
    BY <2>2, <1>2 DEF ServedInv, SomePlace
<1> QED
  BY <1>1, <1>3, <1>4 DEF RoundsAreServed

\* MixPacketLoopWithMultiThread and EncodeLoop, for any number of streams, threads and
\* rounds and whatever they do in between: no stream is given a round twice, and every
\* round reaches everybody who was in the room, but a stream that leaves, one whose
\* encoding failed, and the muted if the first of them has no listener yet.
THEOREM RoundsReachAll ==
  ASSUME MixerAssumption
  PROVE  MixerSpec => []RoundsAreServed
<1>1. MixerInit => IInv /\ ServedInv
  BY InitIInv, InitServed DEF MixerAssumption
<1>2. IInv /\ ServedInv /\ [MixerNext]_mixerVars => IInv' /\ ServedInv'
  <2> SUFFICES ASSUME IInv, ServedInv, [MixerNext]_mixerVars PROVE ServedInv'
    BY IInvStep
  <2>1. CASE \/ Destroy
             \/ \E id \in Streams : \/ AddAudioBuffer(id) \/ RegisterMixResultListener(id)
                                    \/ RemoveAudioBuffer(id) \/ UnregisterMixResultListener(id)
    BY <2>1, MembersServed
  <2>2. CASE \E id \in Streams, b \in BOOLEAN : PushPacket(id, b) \/ Mute(id, b)
    BY <2>2, VoiceServed
  <2>3. CASE MixRound
    BY <2>3, MixServed
  <2>4. CASE SendStream
    BY <2>4, SendServed
  <2>5. CASE \E t \in Threads : Take(t)
    BY <2>5, TakeServed
  <2>6. CASE \E t \in Threads : Encode(t) \/ Deliver(t)
    BY <2>6, HandServed
  <2>7. CASE UNCHANGED mixerVars
    <3>1. UNCHANGED <<running_, managers, listeners, left, muted_, continue_mute_packets_, round,
                      unencoded_queue_, hand, got, log>>
      BY <2>7 DEF mixerVars, members, voice, encoding
    <3>2. OnePlace' /\ SomePlace' /\ RoundIsLocked'
      BY <3>1, PlacesStay DEF encoding
    <3>3. MixerTypeOK' /\ ForMembers'
      BY <3>1 DEF ServedInv, MixerTypeOK, ForMembers, seq
    <3> QED
      BY <3>2, <3>3 DEF ServedInv
  <2> QED
    BY <2>1, <2>2, <2>3, <2>4, <2>5, <2>6, <2>7 DEF MixerNext
<1>3. ServedInv => RoundsAreServed
  BY ServedGives
<1> QED
  BY <1>1, <1>2, <1>3, PTL DEF MixerSpec

-------------------------------------------------------------------------------
(* SpeakerEstimator.                                                         *)

\* A finite set of numbers that is not empty has a greatest one: with the fewest
\* that are not less.
LEMMA GreatestOf ==
  ASSUME NEW S \in SUBSET Nat, IsFiniteSet(S), S # {}
  PROVE  \E j \in S : \A k \in S : k <= j
<1> DEFINE Above(t) == {x \in S : t <= x}
           Sizes == {Cardinality(Above(t)) : t \in S}
<1>1. ASSUME NEW t \in S PROVE IsFiniteSet(Above(t)) /\ Cardinality(Above(t)) \in Nat
  BY FS_Subset, FS_CardinalityType
<1>2. Sizes \in SUBSET Nat /\ Sizes # {}
  BY <1>1
<1>3. PICK n \in Sizes : \A m \in Sizes : n <= m
  BY <1>2, LeastOf
<1>4. PICK j \in S : n = Cardinality(Above(j))
  BY <1>3
<1>5. ASSUME NEW k \in S, k > j PROVE FALSE
  <2>1. Above(k) \in SUBSET Above(j) /\ j \in Above(j) /\ j \notin Above(k)
    <3>1. k \in Nat /\ j \in Nat /\ \A x \in S : x \in Nat
      BY Zenon
    <3>2. j <= j /\ ~ (k <= j) /\ \A x \in S : k <= x => j <= x
      BY <3>1, <1>5
    <3> QED
      BY <3>2, Zenon
  <2>2. Cardinality(Above(k)) <= Cardinality(Above(j)) /\ Cardinality(Above(k)) # Cardinality(Above(j))
    <3>1. IsFiniteSet(Above(j)) /\ Above(j) # Above(k)
      BY <2>1, <1>1
    <3> HIDE DEF Above
    <3> QED
      BY <2>1, <3>1, FS_Subset
  <2>3. n <= Cardinality(Above(k))
    BY <1>3
  <2> QED
    BY <2>2, <2>3, <1>4, <1>1
<1> QED
  BY <1>5

Counters == [Speakers -> [max_times : Nat, total_energy : Nat]]
Present(counter) == {id \in Speakers : counter[id].max_times > 0}

\* The loop over the ids has a result, the streams that lead one after the other.
LEMMA LeadersExist ==
  ASSUME NEW counter \in Counters
  PROVE  /\ Leaders(counter) \subseteq Present(counter)
         /\ \A id \in Present(counter) :
              id \in Leaders(counter) <=> \A o \in Leaders(counter) :
                o < id /\ (\A m \in Leaders(counter) : m <= o \/ m >= id) => Better(counter, o, id)
<1> DEFINE P == Present(counter)
           Leads(L, id) == \A o \in L : o < id /\ (\A m \in L : m <= o \/ m >= id) => Better(counter, o, id)
           UpTo(L, n) == (\A id \in L : id <= n) /\ \A id \in P : id <= n => (id \in L <=> Leads(L, id))
           Without == {n \in Nat : ~ \E L \in SUBSET P : UpTo(L, n)}
<1>1. P \subseteq Nat
  BY EstimatorAssumption DEF Present
<1>2. 0 \notin Without
  <2>1. {id \in P : id = 0} \in SUBSET P /\ UpTo({id \in P : id = 0}, 0)
    BY <1>1
  <2> QED
    BY <2>1
<1>3. ASSUME NEW n \in Nat, n \notin Without PROVE n + 1 \notin Without
  <2>1. PICK L \in SUBSET P : UpTo(L, n)
    BY <1>3
  <2> HIDE DEF P
  <2> DEFINE M == L \cup {id \in P : id = n + 1 /\ Leads(L, id)}
  <2>2. M \in SUBSET P /\ \A id \in M : id <= n + 1
    <3>1. \A id \in L : id \in Nat /\ id <= n + 1
      BY <2>1, <1>1
    <3>2. \A id \in M : id \in L \/ (id \in P /\ id = n + 1)
      OBVIOUS
    <3> HIDE DEF M
    <3> QED
      BY <3>1, <3>2, <2>1
  <2>3. \A m \in M : m \in L \/ m = n + 1
    OBVIOUS
  <2>4. ASSUME NEW id \in P, id <= n + 1 PROVE Leads(M, id) <=> Leads(L, id)
    <3>1. \A m \in M : m < id => m \in L
      BY <2>3, <2>4, <1>1
    <3>2. \A m \in M : m >= id \/ m \in L
      BY <3>1, <2>2, <1>1
    <3>3. ASSUME NEW o \in L, o < id
          PROVE (\A m \in L : m <= o \/ m >= id) <=> (\A m \in M : m <= o \/ m >= id)
      BY <3>2
    <3> QED
      BY <3>1, <3>3
  <2>5. ASSUME NEW id \in P, id <= n + 1 PROVE id \in M <=> Leads(M, id)
    <3>1. CASE id <= n
      <4>1. id \in L <=> Leads(L, id)
        BY <3>1, <2>1
      <4>2. id \in M <=> id \in L
        BY <3>1, <1>1
      <4> QED
        BY <4>1, <4>2, <2>4, <2>5
    <3>2. CASE id = n + 1
      <4>1. id \notin L
        BY <3>2, <2>1
      <4>2. id \in M <=> Leads(L, id)
        BY <3>2, <4>1
      <4> QED
        BY <4>2, <2>4, <2>5
    <3> QED
      BY <3>1, <3>2, <2>5, <1>1
  <2>6. UpTo(M, n + 1)
    BY <2>2, <2>5
  <2> QED
    BY <2>2, <2>6
<1>4. Without = {}
  <2> SUFFICES ASSUME Without # {} PROVE FALSE
    OBVIOUS
  <2>1. Without \in SUBSET Nat
    OBVIOUS
  <2> HIDE DEF Without
  <2>2. PICK n \in Without : \A m \in Without : n <= m
    BY <2>1, LeastOf
  <2>3. n \in Nat /\ n # 0 /\ n - 1 \in Nat /\ n - 1 \notin Without
    BY <2>1, <2>2, <1>2
  <2>4. (n - 1) + 1 \notin Without
    BY <2>3, <1>3
  <2> QED
    BY <2>2, <2>3, <2>4
<1>5. \E L \in SUBSET P : \A id \in P : id \in L <=> Leads(L, id)
  <2>1. CASE P = {}
    BY <2>1
  <2>2. CASE P # {}
    <3>1. IsFiniteSet(P) /\ P \in SUBSET Nat
      BY <1>1, EstimatorAssumption, FS_Subset DEF Present
    <3>2. PICK n \in P : \A id \in P : id <= n
      BY <3>1, <2>2, GreatestOf
    <3>3. PICK L \in SUBSET P : UpTo(L, n)
      BY <3>1, <3>2, <1>4
    <3> QED
      BY <3>2, <3>3
  <2> QED
    BY <2>1, <2>2
<1> QED
  BY <1>5 DEF Leaders, Present

\* Whom CurrentSpeaker names nobody beats: a leader was not beaten by the streams up
\* to the next leader, which has no fewer rounds.
LEMMA SpeakerIsUnbeaten ==
  ASSUME NEW counter \in Counters
  PROVE  /\ Present(counter) = {} => CurrentSpeaker(counter) = Nobody
         /\ Present(counter) # {} =>
              /\ CurrentSpeaker(counter) \in Present(counter)
              /\ \A id \in Present(counter) :
                   counter[id].max_times <= counter[CurrentSpeaker(counter)].max_times
<1> DEFINE P == Present(counter)
           L == Leaders(counter)
           t(id) == counter[id].max_times
<1>1. /\ L \in SUBSET P /\ P \in SUBSET Nat /\ IsFiniteSet(L)
      /\ \A id \in L : id \in P /\ id \in Nat
      /\ \A id \in P : t(id) \in Nat
  <2>1. P \in SUBSET Speakers /\ L \in SUBSET P /\ \A id \in P : t(id) \in Nat
    BY LeadersExist DEF Present, Counters
  <2> QED
    BY <2>1, EstimatorAssumption, FS_Subset
<1>2. \A id \in P :
        id \in L <=> \A o \in L : o < id /\ (\A m \in L : m <= o \/ m >= id) => Better(counter, o, id)
  BY LeadersExist
<1>3. CASE P = {}
  BY <1>1, <1>3 DEF CurrentSpeaker
<1>4. CASE P # {}
  <2> HIDE DEF P, L
  <2>1. L # {}
    <3>1. PICK p \in P : \A id \in P : p <= id
      BY <1>1, <1>4, LeastOf
    <3>2. \A o \in L : ~ (o < p)
      BY <3>1, <1>1
    <3> QED
      BY <3>1, <3>2, <1>2
  <2>2. PICK M \in L : \A o \in L : o <= M
    BY <2>1, <1>1, GreatestOf
  <2>3. CurrentSpeaker(counter) = M
    <3>1. \A id \in L : (\A o \in L : o <= id) => id = M
      BY <2>2, <1>1
    <3> QED
      BY <3>1, <2>1, <2>2 DEF CurrentSpeaker, L
  <2>4. ASSUME NEW o \in P, NEW id \in P PROVE Better(counter, o, id) => t(o) <= t(id)
    BY <1>1 DEF Better
  <2>5. ASSUME NEW o \in P, NEW id \in P PROVE ~ Better(counter, o, id) => t(id) <= t(o)
    BY <1>1 DEF Better
  <2> HIDE DEF t
  <2> DEFINE Ahead == {o \in L : t(o) > t(M)}
  <2>6. Ahead = {}
    <3> SUFFICES ASSUME Ahead # {} PROVE FALSE
      OBVIOUS
    <3>1. Ahead \in SUBSET Nat /\ IsFiniteSet(Ahead)
      BY <1>1, FS_Subset
    <3>2. PICK b \in Ahead : \A o \in Ahead : o <= b
      BY <3>1, GreatestOf
    <3> DEFINE After == {o \in L : o > b}
    <3>3. After \in SUBSET Nat /\ M \in After
      <4>1. b \in L /\ b # M /\ b <= M
        BY <3>2, <2>2, <1>1
      <4>2. M > b
        BY <4>1, <2>2, <1>1
      <4> QED
        BY <4>2, <2>2, <1>1
    <3>4. PICK x \in After : \A o \in After : x <= o
      <4> HIDE DEF After
      <4> QED
        BY <3>3, LeastOf
    <3>5. b < x /\ \A m \in L : m <= b \/ m >= x
      BY <3>4, <3>1, <1>1
    <3>6. Better(counter, b, x)
      BY <3>5, <3>4, <3>2, <1>1, <1>2
    <3>7. t(b) <= t(x) /\ t(M) < t(b)
      BY <3>6, <3>4, <3>2, <1>1, <2>4
    <3>8. x \in Ahead
      BY <3>7, <3>4, <3>2, <1>1, <2>2
    <3> QED
      BY <3>8, <3>5, <3>2, <3>1
  <2>7. ASSUME NEW id \in P PROVE t(id) <= t(M)
    <3>1. PICK o \in L : t(id) <= t(o)
      <4>1. CASE id \in L
        BY <4>1, <1>1
      <4>2. CASE id \notin L
        BY <4>2, <1>2, <1>1, <2>5
      <4> QED
        BY <4>1, <4>2
    <3>2. t(o) <= t(M)
      BY <2>6, <2>2, <1>1
    <3> QED
      BY <3>1, <3>2, <2>2, <1>1
  <2> QED
    BY <2>3, <2>7, <2>2, <1>1, <1>4 DEF P, t
<1> QED
  BY <1>3, <1>4

Frames == Seq([id : Speakers, energy : Energies])

\* The loudest stream of a round is one that no other is louder than.
LEMMA LoudestIsTop ==
  ASSUME NEW frame \in Frames, frame # <<>>
  PROVE  LET top == Loudest(frame)
         IN  /\ top.energy \in Nat
             /\ top.energy > Silence => top.id \in Speakers /\ top.id \in Tops(frame)
             /\ ~ (top.energy > Silence) => Tops(frame) = {}
<1> DEFINE D == DOMAIN frame
           e(i) == frame[i].energy
<1>1. /\ D = 1..Len(frame) /\ D # {} /\ IsFiniteSet(D)
      /\ \A i \in D : frame[i] \in [id : Speakers, energy : Energies]
  <2>1. frame \in Seq([id : Speakers, energy : Energies])
    BY DEF Frames
  <2>2. D = 1..Len(frame) /\ Len(frame) \in Nat /\ Len(frame) # 0
    BY <2>1
  <2>3. \A i \in D : frame[i] \in [id : Speakers, energy : Energies]
    <3> DEFINE R == [id : Speakers, energy : Energies]
    <3> HIDE DEF R
    <3>1. frame \in Seq(R)
      BY <2>1 DEF R
    <3>2. \A i \in 1..Len(frame) : frame[i] \in R
      BY <3>1
    <3> QED
      BY <2>2, <3>2 DEF R
  <2>4. IsFiniteSet(1..Len(frame))
    BY <2>2, FS_Interval
  <2>5. D # {}
    BY <2>2
  <2> QED
    BY <2>2, <2>3, <2>4, <2>5
<1>2. Silence \in Nat /\ \A i \in D : e(i) \in Nat /\ frame[i].id \in Speakers
  BY <1>1, EstimatorAssumption
<1>3. CASE \A i \in D : e(i) = 0
  <2>1. Loudest(frame) = [id |-> Nobody, energy |-> 0]
    BY <1>3 DEF Loudest
  <2>2. Tops(frame) = {}
    BY <1>2, <1>3 DEF Tops, Heard
  <2> QED
    BY <2>1, <2>2, <1>2
<1>4. CASE ~ \A i \in D : e(i) = 0
  <2> DEFINE Es == {e(i) : i \in D}
  <2>1. Es \in SUBSET Nat /\ Es # {}
    BY <1>1, <1>2
  <2>2. IsFiniteSet(Es)
    <3>1. [i \in D |-> e(i)] \in Surjection(D, Es)
      BY DEF Surjection
    <3> HIDE DEF Es
    <3> QED
      BY <3>1, <1>1, FS_Surjection
  <2> HIDE DEF D, e
  <2>3. PICK max \in Es : \A x \in Es : x <= max
    <3> HIDE DEF Es
    <3> QED
      BY <2>1, <2>2, GreatestOf
  <2> DEFINE Is == {i \in D : e(i) = max}
  <2>4. Is \in SUBSET Nat /\ Is # {}
    BY <1>1, <2>3
  <2>5. PICK k \in Is : \A i \in Is : k <= i
    <3> HIDE DEF Is
    <3> QED
      BY <2>4, LeastOf
  <2>6. \A j \in D : e(j) <= e(k)
    BY <2>3, <2>5
  <2>7. ASSUME NEW j \in 1..(k - 1) PROVE e(j) < e(k)
    <3>1. j \in D /\ j < k
      BY <2>5, <1>1
    <3>2. e(j) # max
      BY <3>1, <2>5, <1>1
    <3> QED
      BY <3>1, <3>2, <2>6, <2>5, <1>2
  <2> DEFINE first(i) == (\A j \in D : e(j) <= e(i)) /\ \A j \in 1..(i - 1) : e(j) < e(i)
             c == CHOOSE i \in D : first(i)
  <2>8. k \in D /\ first(k)
    BY <2>5, <2>6, <2>7
  <2>9. c \in D /\ first(c)
    BY <2>8
  <2>10. Loudest(frame) = frame[c]
    BY <1>4 DEF Loudest, D, e
  <2> HIDE DEF c
  <2>11. CASE e(c) > Silence
    BY <2>9, <2>10, <2>11, <1>2 DEF Tops, Heard, D, e
  <2>12. CASE ~ (e(c) > Silence)
    <3>1. \A i \in D : ~ (e(i) > Silence)
      BY <2>9, <2>12, <1>2
    <3>2. Tops(frame) = {}
      BY <3>1 DEF Tops, Heard, D, e
    <3> QED
      BY <3>2, <2>9, <2>10, <2>12, <1>2 DEF e
  <2> QED
    BY <2>11, <2>12
<1> QED
  BY <1>3, <1>4

\* A window that is one round longer has one more index that is counted, or none.
LEMMA OneMoreRound ==
  ASSUME NEW window \in Seq(Frames), NEW frame \in Frames, NEW id
  PROVE  /\ Wins(window, id) \in Nat /\ ClearWins(window, id) \in Nat
         /\ Wins(Append(window, frame), id) = Wins(window, id) + (IF id \in Tops(frame) THEN 1 ELSE 0)
         /\ ClearWins(Append(window, frame), id)
              = ClearWins(window, id) + (IF Tops(frame) = {id} THEN 1 ELSE 0)
<1> DEFINE n == Len(window)
           longer == Append(window, frame)
           W == {i \in DOMAIN window : id \in Tops(window[i])}
           C == {i \in DOMAIN window : Tops(window[i]) = {id}}
<1>1. /\ n \in Nat /\ DOMAIN window = 1..n /\ DOMAIN longer = 1..(n + 1)
      /\ longer[n + 1] = frame /\ \A i \in 1..n : longer[i] = window[i]
  OBVIOUS
<1>2. IsFiniteSet(W) /\ IsFiniteSet(C) /\ n + 1 \notin W /\ n + 1 \notin C
  <2>1. IsFiniteSet(1..n)
    BY <1>1, FS_Interval
  <2>2. W \in SUBSET (1..n) /\ C \in SUBSET (1..n) /\ n + 1 \notin 1..n
    BY <1>1
  <2> QED
    BY <2>1, <2>2, FS_Subset
<1>3. {i \in DOMAIN longer : id \in Tops(longer[i])} = IF id \in Tops(frame) THEN W \cup {n + 1} ELSE W
  BY <1>1
<1>4. {i \in DOMAIN longer : Tops(longer[i]) = {id}} = IF Tops(frame) = {id} THEN C \cup {n + 1} ELSE C
  BY <1>1
<1> HIDE DEF W, C
<1>5. /\ Cardinality(W) \in Nat /\ Cardinality(W \cup {n + 1}) = Cardinality(W) + 1
      /\ Cardinality(C) \in Nat /\ Cardinality(C \cup {n + 1}) = Cardinality(C) + 1
  BY <1>2, FS_AddElement, FS_CardinalityType
<1>6. Wins(window, id) = Cardinality(W) /\ ClearWins(window, id) = Cardinality(C)
  BY DEF Wins, ClearWins, W, C
<1>7. /\ Wins(longer, id) = Cardinality(IF id \in Tops(frame) THEN W \cup {n + 1} ELSE W)
      /\ ClearWins(longer, id) = Cardinality(IF Tops(frame) = {id} THEN C \cup {n + 1} ELSE C)
  BY <1>3, <1>4 DEF Wins, ClearWins
<1> QED
  BY <1>5, <1>6, <1>7

\* A stream has been counted for every round that it alone was the loudest of, and for
\* no round but those in which nobody was louder; some stream has been counted if
\* some round was not silent.
CountsAreRight(counter, window) ==
  /\ \A id \in Speakers : /\ ClearWins(window, id) <= counter[id].max_times
                          /\ counter[id].max_times <= Wins(window, id)
  /\ (\E id \in Speakers : Wins(window, id) > 0) => \E id \in Speakers : counter[id].max_times > 0

EstimatorInv ==
  /\ intra_frame_count_ \in Frames /\ speaker_counter_map_ \in Counters /\ frames \in Seq(Frames)
  /\ frame_count_ = Len(frames) /\ Len(frames) < FrameSize
  /\ CountsAreRight(speaker_counter_map_, frames)

\* The counters of a window that starts.
LEMMA StartIsRight == NoCounters \in Counters /\ <<>> \in Seq(Frames) /\ CountsAreRight(NoCounters, <<>>)
<1>1. NoCounters \in Counters /\ <<>> \in Seq(Frames)
  BY DEF NoCounters, Counters
<1>2. ASSUME NEW id PROVE Wins(<<>>, id) = 0 /\ ClearWins(<<>>, id) = 0
  <2>1. /\ {i \in DOMAIN <<>> : id \in Tops(<<>>[i])} = {}
        /\ {i \in DOMAIN <<>> : Tops(<<>>[i]) = {id}} = {}
    OBVIOUS
  <2> QED
    BY <2>1, FS_EmptySet DEF Wins, ClearWins
<1>3. \A id \in Speakers : NoCounters[id].max_times = 0
  BY DEF NoCounters
<1> QED
  BY <1>1, <1>2, <1>3 DEF CountsAreRight

\* NextFrame counts a round.
LEMMA CountedIsRight ==
  ASSUME EstimatorInv, intra_frame_count_ # <<>>
  PROVE  /\ Counted \in Counters /\ Append(frames, intra_frame_count_) \in Seq(Frames)
         /\ CountsAreRight(Counted, Append(frames, intra_frame_count_))
<1> DEFINE frame == intra_frame_count_
           counter == speaker_counter_map_
           top == Loudest(frame)
           window == Append(frames, frame)
<1>1. frame \in Frames /\ counter \in Counters /\ frames \in Seq(Frames) /\ CountsAreRight(counter, frames)
  BY DEF EstimatorInv
<1>2. /\ top.energy \in Nat
      /\ top.energy > Silence => top.id \in Speakers /\ top.id \in Tops(frame)
      /\ ~ (top.energy > Silence) => Tops(frame) = {}
  BY <1>1, LoudestIsTop
<1>3. window \in Seq(Frames)
  BY <1>1
<1>4. \A id \in Speakers :
        /\ counter[id].max_times \in Nat /\ counter[id].total_energy \in Nat
        /\ counter[id] = [max_times |-> counter[id].max_times, total_energy |-> counter[id].total_energy]
  BY <1>1 DEF Counters
<1>5. \A id \in Speakers :
        /\ Wins(frames, id) \in Nat /\ ClearWins(frames, id) \in Nat
        /\ Wins(window, id) = Wins(frames, id) + (IF id \in Tops(frame) THEN 1 ELSE 0)
        /\ ClearWins(window, id) = ClearWins(frames, id) + (IF Tops(frame) = {id} THEN 1 ELSE 0)
  BY <1>1, OneMoreRound
<1>6. CASE top.energy > Silence
  <2>1. Counted = [counter EXCEPT ![top.id] = [max_times |-> counter[top.id].max_times + 1,
                                               total_energy |-> counter[top.id].total_energy + top.energy]]
    BY <1>6, <1>1 DEF Counted, Counters
  <2> HIDE DEF top, frame, counter, window
  <2>2. Counted \in Counters
    BY <2>1, <1>1, <1>2, <1>4, <1>6 DEF Counters
  <2>3. \A id \in Speakers : Counted[id].max_times = counter[id].max_times + (IF id = top.id THEN 1 ELSE 0)
    BY <2>1, <1>1, <1>4 DEF Counters
  <2>4. ASSUME NEW id \in Speakers
        PROVE  ClearWins(window, id) <= Counted[id].max_times /\ Counted[id].max_times <= Wins(window, id)
    <3>1. Tops(frame) = {id} => id = top.id
      BY <1>2, <1>6
    <3>2. id = top.id => id \in Tops(frame)
      BY <1>2, <1>6
    <3>3. ClearWins(frames, id) <= counter[id].max_times /\ counter[id].max_times <= Wins(frames, id)
      BY <1>1 DEF CountsAreRight
    <3>4. /\ counter[id].max_times \in Nat /\ Wins(frames, id) \in Nat /\ ClearWins(frames, id) \in Nat
          /\ Counted[id].max_times = counter[id].max_times + (IF id = top.id THEN 1 ELSE 0)
          /\ Wins(window, id) = Wins(frames, id) + (IF id \in Tops(frame) THEN 1 ELSE 0)
          /\ ClearWins(window, id) = ClearWins(frames, id) + (IF Tops(frame) = {id} THEN 1 ELSE 0)
      BY <2>3, <1>4, <1>5, Zenon
    <3>5. CASE id = top.id
      BY <3>2, <3>3, <3>4, <3>5
    <3>6. CASE id # top.id
      BY <3>1, <3>3, <3>4, <3>6
    <3> QED
      BY <3>5, <3>6
  <2>5. Counted[top.id].max_times > 0
    <3>1. top.id \in Speakers
      BY <1>2, <1>6
    <3>2. counter[top.id].max_times \in Nat /\ Counted[top.id].max_times = counter[top.id].max_times + 1
      BY <3>1, <2>3, <1>4
    <3> QED
      BY <3>2
  <2> QED
    BY <2>2, <2>4, <2>5, <1>2, <1>3, <1>6 DEF CountsAreRight, window, frame
<1>7. CASE ~ (top.energy > Silence)
  <2>1. Counted = counter
    BY <1>7 DEF Counted
  <2>2. Tops(frame) = {}
    BY <1>2, <1>7
  <2> HIDE DEF top, frame, counter, window
  <2>3. \A id \in Speakers : Wins(window, id) = Wins(frames, id) /\ ClearWins(window, id) = ClearWins(frames, id)
    BY <2>2, <1>5
  <2>4. CountsAreRight(counter, window)
    BY <2>3, <1>1 DEF CountsAreRight
  <2> QED
    BY <2>1, <2>4, <1>1, <1>3 DEF window, frame
<1> QED
  BY <1>6, <1>7

\* A round that was measured.
LEMMA UpdateKeepsFrames ==
  ASSUME UpdateAudioEnergy
  PROVE  intra_frame_count_' \in Frames
<1>1. Cardinality(Speakers) \in Nat
  BY EstimatorAssumption, FS_CardinalityType
<1> DEFINE R == [id : Speakers, energy : Energies]
<1>2. PICK n \in 0..Cardinality(Speakers) : intra_frame_count_' \in [1..n -> R]
  BY DEF UpdateAudioEnergy
<1> HIDE DEF R
<1>3. n \in Nat /\ intra_frame_count_' \in Seq(R)
  BY <1>1, <1>2
<1> QED
  BY <1>3 DEF Frames, R

\* The invariant of the estimator.
LEMMA EstimatorStep ==
  ASSUME EstimatorInv, [EstimatorNext]_estimatorVars
  PROVE  EstimatorInv'
<1>1. CASE NextFrame /\ UpdateAudioEnergy
  <2>1. Counted \in Counters /\ CountsAreRight(Counted, Append(frames, intra_frame_count_))
        /\ Append(frames, intra_frame_count_) \in Seq(Frames)
    BY <1>1, CountedIsRight DEF NextFrame
  <2>2. intra_frame_count_' \in Frames
    BY <1>1, UpdateKeepsFrames
  <2>3. CASE frame_count_ + 1 < FrameSize
    <3>1. /\ frame_count_' = frame_count_ + 1 /\ speaker_counter_map_' = Counted
          /\ frames' = Append(frames, intra_frame_count_)
      BY <1>1, <2>3 DEF NextFrame
    <3>2. Len(frames') = Len(frames) + 1
      BY <3>1 DEF EstimatorInv
    <3>3. frame_count_' = Len(frames') /\ Len(frames') < FrameSize
      BY <3>1, <3>2, <2>3 DEF EstimatorInv
    <3>4. CountsAreRight(speaker_counter_map_', frames')
      BY <3>1, <2>1
    <3> QED
      BY <3>1, <3>3, <3>4, <2>1, <2>2 DEF EstimatorInv, CountsAreRight, Wins, ClearWins, Tops, Heard
  <2>4. CASE ~ (frame_count_ + 1 < FrameSize)
    <3>1. frame_count_' = 0 /\ speaker_counter_map_' = NoCounters /\ frames' = <<>>
      BY <1>1, <2>4 DEF NextFrame
    <3>2. CountsAreRight(speaker_counter_map_', frames') /\ Len(frames') = 0 /\ 0 < FrameSize
      BY <3>1, StartIsRight, EstimatorAssumption
    <3> QED
      BY <3>1, <3>2, <2>2, StartIsRight DEF EstimatorInv, CountsAreRight, Wins, ClearWins, Tops, Heard
  <2> QED
    BY <2>3, <2>4
<1>2. CASE NextFrameEmpty /\ UpdateAudioEnergy
  <2>1. intra_frame_count_' \in Frames
    BY <1>2, UpdateKeepsFrames
  <2>2. UNCHANGED <<speaker_counter_map_, frame_count_, frames>>
    BY <1>2 DEF NextFrameEmpty
  <2>3. CountsAreRight(speaker_counter_map_', frames')
    BY <2>2 DEF EstimatorInv
  <2> QED
    BY <2>1, <2>2, <2>3 DEF EstimatorInv, CountsAreRight, Wins, ClearWins, Tops, Heard
<1>3. CASE UNCHANGED estimatorVars
  <2>1. UNCHANGED <<intra_frame_count_, speaker_counter_map_, frame_count_, frames>>
    BY <1>3 DEF estimatorVars
  <2>2. CountsAreRight(speaker_counter_map_', frames')
    BY <2>1 DEF EstimatorInv
  <2> QED
    BY <2>1, <2>2 DEF EstimatorInv, CountsAreRight, Wins, ClearWins, Tops, Heard
<1> QED
  BY <1>1, <1>2, <1>3 DEF EstimatorNext

\* The speaker named at the end of a window is one that nobody beats in it, and within
\* a window nobody is named.
LEMMA NamedIsLoudest ==
  ASSUME EstimatorInv, EstimatorNext
  PROVE  LET window == Append(frames, intra_frame_count_)
         IN  IF intra_frame_count_ # <<>> /\ Len(window) = FrameSize
             THEN IF \A id \in Speakers : Wins(window, id) = 0 THEN announced' = Nobody
                  ELSE /\ announced' \in Speakers /\ Wins(window, announced') > 0
                       /\ \A id \in Speakers : ClearWins(window, id) <= Wins(window, announced')
             ELSE announced' = Nobody
<1> DEFINE window == Append(frames, intra_frame_count_)
<1>1. CASE intra_frame_count_ = <<>>
  <2>1. announced' = Nobody
    BY <1>1 DEF EstimatorNext, NextFrame, NextFrameEmpty
  <2> QED
    BY <1>1, <2>1
<1>2. CASE intra_frame_count_ # <<>>
  <2>1. NextFrame
    BY <1>2 DEF EstimatorNext, NextFrameEmpty
  <2>2. /\ FrameSize \in Nat /\ Len(frames) \in Nat /\ Len(frames) < FrameSize
        /\ frame_count_ = Len(frames) /\ Len(window) = Len(frames) + 1
    BY EstimatorAssumption DEF EstimatorInv
  <2>3. CASE frame_count_ + 1 < FrameSize
    <3>1. announced' = Nobody
      BY <2>1, <2>3 DEF NextFrame
    <3> QED
      BY <3>1, <2>2, <2>3
  <2>4. CASE ~ (frame_count_ + 1 < FrameSize)
    <3> DEFINE s == CurrentSpeaker(Counted)
    <3>1. announced' = s /\ Len(window) = FrameSize
      BY <2>1, <2>2, <2>4 DEF NextFrame
    <3>2. Counted \in Counters /\ CountsAreRight(Counted, window) /\ window \in Seq(Frames)
      BY <1>2, CountedIsRight
    <3>3. /\ Present(Counted) = {} => s = Nobody
          /\ Present(Counted) # {} =>
               s \in Present(Counted) /\ \A id \in Present(Counted) : Counted[id].max_times <= Counted[s].max_times
      BY <3>2, SpeakerIsUnbeaten
    <3> HIDE DEF s, window
    <3>4. \A id \in Speakers :
            /\ Counted[id].max_times \in Nat /\ Wins(window, id) \in Nat /\ ClearWins(window, id) \in Nat
            /\ ClearWins(window, id) <= Counted[id].max_times /\ Counted[id].max_times <= Wins(window, id)
      <4>1. \A id \in Speakers : Wins(window, id) \in Nat /\ ClearWins(window, id) \in Nat
        BY <3>2, OneMoreRound DEF EstimatorInv
      <4> QED
        BY <4>1, <3>2 DEF CountsAreRight, Counters
    <3>5. CASE \A id \in Speakers : Wins(window, id) = 0
      <4>1. Present(Counted) = {}
        BY <3>4, <3>5 DEF Present
      <4> QED
        BY <4>1, <3>1, <3>3, <3>5, <1>2 DEF window
    <3>6. CASE ~ \A id \in Speakers : Wins(window, id) = 0
      <4>1. PICK w \in Speakers : Wins(window, w) > 0
        BY <3>4, <3>6
      <4>2. Present(Counted) # {}
        BY <4>1, <3>2 DEF CountsAreRight, Present
      <4>3. s \in Speakers /\ Counted[s].max_times > 0
        BY <4>2, <3>3 DEF Present
      <4>4. Wins(window, s) > 0
        BY <4>3, <3>4
      <4>5. ASSUME NEW id \in Speakers PROVE ClearWins(window, id) <= Wins(window, s)
        <5>1. Counted[id].max_times <= Counted[s].max_times
          <6>1. CASE id \in Present(Counted)
            BY <6>1, <4>2, <3>3
          <6>2. CASE id \notin Present(Counted)
            BY <6>2, <4>3, <3>4 DEF Present
          <6> QED
            BY <6>1, <6>2
        <5> QED
          BY <5>1, <4>3, <3>4
      <4> QED
        BY <4>3, <4>4, <4>5, <3>1, <3>6, <1>2 DEF window
    <3> QED
      BY <3>5, <3>6
  <2> QED
    BY <2>3, <2>4
<1> QED
  BY <1>1, <1>2

\* NextFrame reports a stream that nobody beats in the window, for any number of
\* streams, any energies and any width of the sums.
THEOREM SpeakerStaysLoudest == EstimatorSpec => SpeakerIsLoudest
<1>1. EstimatorInit => EstimatorInv
  <2> SUFFICES ASSUME EstimatorInit PROVE EstimatorInv
    OBVIOUS
  <2>1. /\ intra_frame_count_ = <<>> /\ speaker_counter_map_ = NoCounters /\ frame_count_ = 0 /\ frames = <<>>
    BY DEF EstimatorInit
  <2>2. <<>> \in Frames /\ Len(<<>>) = 0 /\ 0 < FrameSize
    BY EstimatorAssumption DEF Frames
  <2> QED
    BY <2>1, <2>2, StartIsRight DEF EstimatorInv
<1>2. EstimatorInv /\ [EstimatorNext]_estimatorVars => EstimatorInv'
  BY EstimatorStep
<1>3. EstimatorSpec => []EstimatorInv
  BY <1>1, <1>2, PTL DEF EstimatorSpec
<1> DEFINE window == Append(frames, intra_frame_count_)
           A == IF intra_frame_count_ # <<>> /\ Len(window) = FrameSize
                THEN IF \A id \in Speakers : Wins(window, id) = 0 THEN announced' = Nobody
                     ELSE /\ announced' \in Speakers /\ Wins(window, announced') > 0
                          /\ \A id \in Speakers : ClearWins(window, id) <= Wins(window, announced')
                ELSE announced' = Nobody
<1>4. EstimatorInv /\ [EstimatorNext]_estimatorVars => [A]_estimatorVars
  BY NamedIsLoudest
<1>5. EstimatorSpec => [][A]_estimatorVars
  BY <1>3, <1>4, PTL DEF EstimatorSpec
<1> QED
  BY <1>5 DEF SpeakerIsLoudest

===============================================================================
