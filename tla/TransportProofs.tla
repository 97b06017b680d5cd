----------------------------- MODULE TransportProofs -----------------------------
(***************************************************************************)
(* Proofs about the ICE connection, the DTLS handshake and the send queue  *)
(* of a transport, for any number of events, packets, losses and copies,   *)
(* for one component or two, for a queue of any length and for both roles  *)
(* in the handshake.                                                       *)
(***************************************************************************)
EXTENDS MCTransport, Sequences, FiniteSetTheorems, WellFoundedInduction, TLAPS

-------------------------------------------------------------------------------
(* NiceConnection.                                                           *)

\* What a component's entry says, it was: also one that another event overwrote with
\* the state of the connection, for which every component was.
EntriesHold ==
  /\ everConnected \subseteq Nice!Components /\ everFailed \subseteq Nice!Components
  /\ \A c \in Nice!Components :
       /\ comp_state_list_[c] = "READY" => c \in everConnected
       /\ comp_state_list_[c] = "FAILED" => c \in everFailed

\* A state the ICE thread is about to set is agreed on as one that is set.
AboutToSet ==
  /\ agent = "READY" => everConnected = Nice!Components
  /\ agent = "FAILED" => everFailed = Nice!Components

NiceStates ==
  /\ component \in [Nice!Components -> Nice!ComponentStates]
  /\ comp_state_list_ \in [Nice!Components -> Nice!IceStates]
  /\ niceState_ \in Nice!IceStates /\ niceRunning_ \in BOOLEAN
  /\ stamp \in {"unset", "recent", "old"} /\ agent \in Nice!IceStates \cup {"idle", "end"}
  /\ reader \in {"run", "end"}
  /\ EntriesHold /\ AboutToSet /\ Nice!StateIsAgreed

QueueHolds ==
  /\ packets \in Seq(Nat) /\ received \in Nat /\ taken \in Nat /\ drop_queue_packet_ \in Nat
  /\ Len(packets) <= NICE_QUEUE_MAX_NUMBER + 1
  /\ Nice!QueueIsLatest

NiceInv == NiceStates /\ QueueHolds

LEMMA NiceInit == Nice!Init => NiceInv
<1> SUFFICES ASSUME Nice!Init PROVE NiceInv
  OBVIOUS
<1>1. NiceStates
  BY DEF Nice!Init, NiceStates, EntriesHold, AboutToSet, Nice!StateIsAgreed, Nice!ComponentStates,
         Nice!IceStates
<1>2. QueueHolds
  BY TransportAssumption DEF Nice!Init, QueueHolds, Nice!QueueIsLatest, Nice!NiceAssumption
<1> QED
  BY <1>1, <1>2 DEF NiceInv

\* updateComponentState: an entry becomes READY or FAILED because the component did, or
\* because the connection is.
LEMMA EventKeeps ==
  ASSUME NiceStates, NEW c \in Nice!Components, NEW to \in Nice!ComponentStates,
         Nice!updateComponentState(c, to)
  PROVE  NiceStates' /\ UNCHANGED <<packets, received, taken, drop_queue_packet_>>
<1> DEFINE s == Nice!nice_state(to)
<1>1. /\ UNCHANGED <<niceState_, niceRunning_, stamp, reader, packets, received, taken, drop_queue_packet_>>
      /\ component' = [component EXCEPT ![c] = to] /\ agent = "idle"
      /\ everConnected' = IF to = "CONNECTED" THEN everConnected \cup {c} ELSE everConnected
      /\ everFailed' = IF to = "FAILED" THEN everFailed \cup {c} ELSE everFailed
      /\ \/ UNCHANGED <<comp_state_list_, agent>>
         \/ /\ comp_state_list_' = [comp_state_list_ EXCEPT ![c] = s]
            /\ agent' = IF Nice!Agree([comp_state_list_ EXCEPT ![c] = s], s) THEN s ELSE "idle"
  BY DEF Nice!updateComponentState, Nice!queue
<1>2. /\ s \in Nice!IceStates
      /\ s = "READY" => to = "CONNECTED" \/ niceState_ = "READY"
      /\ s = "FAILED" => to = "FAILED" \/ niceState_ = "FAILED"
  BY DEF Nice!nice_state, NiceStates, Nice!IceStates
<1> HIDE DEF s
<1>3. EntriesHold'
  BY <1>1, <1>2 DEF NiceStates, EntriesHold, Nice!StateIsAgreed
<1>4. Nice!StateIsAgreed'
  BY <1>1 DEF NiceStates, EntriesHold, Nice!StateIsAgreed
<1>5. AboutToSet'
  <2>1. CASE UNCHANGED <<comp_state_list_, agent>>
    BY <2>1, <1>1 DEF AboutToSet
  <2>2. CASE /\ comp_state_list_' = [comp_state_list_ EXCEPT ![c] = s]
             /\ agent' = IF Nice!Agree([comp_state_list_ EXCEPT ![c] = s], s) THEN s ELSE "idle"
    <3>1. agent' \in {"READY", "FAILED"} => \A d \in Nice!Components : comp_state_list_'[d] = agent'
      BY <2>2 DEF Nice!Agree
    <3> QED
      BY <3>1, <1>3 DEF AboutToSet, EntriesHold
  <2> QED
    BY <1>1, <2>1, <2>2
<1> QED
  BY <1>1, <1>2, <1>3, <1>4, <1>5 DEF NiceStates, Nice!IceStates

\* queueData: the oldest packets make room, and are counted.
LEMMA QueueKeeps ==
  ASSUME QueueHolds, Nice!queueData
  PROVE  QueueHolds'
<1> DEFINE drop == IF Len(packets) > NICE_QUEUE_MAX_NUMBER THEN Len(packets) - NICE_QUEUE_MAX_NUMBER ELSE 0
           rest == SubSeq(packets, drop + 1, Len(packets))
<1>1. /\ received' = received + 1 /\ packets' = Append(rest, received + 1)
      /\ drop_queue_packet_' = drop_queue_packet_ + drop /\ taken' = taken
  BY DEF Nice!queueData
<1>2. /\ NICE_QUEUE_MAX_NUMBER \in Nat /\ packets \in Seq(Nat) /\ Len(packets) \in Nat
      /\ received \in Nat /\ taken \in Nat /\ drop_queue_packet_ \in Nat
      /\ Len(packets) <= NICE_QUEUE_MAX_NUMBER + 1
      /\ \A i \in 1..Len(packets) : packets[i] = received - Len(packets) + i
      /\ received = taken + Len(packets) + drop_queue_packet_
  BY TransportAssumption DEF QueueHolds, Nice!QueueIsLatest, Nice!NiceAssumption
<1>3. drop \in Nat /\ drop <= Len(packets) /\ Len(packets) - drop <= NICE_QUEUE_MAX_NUMBER
  BY <1>2
<1> HIDE DEF drop
<1>4. /\ rest \in Seq(Nat) /\ Len(rest) = Len(packets) - drop
      /\ \A i \in 1..Len(rest) : rest[i] = packets[i + drop]
  BY <1>2, <1>3
<1> HIDE DEF rest
<1>5. /\ packets' \in Seq(Nat) /\ Len(packets') = Len(rest) + 1
      /\ \A i \in 1..Len(rest) : packets'[i] = rest[i]
      /\ packets'[Len(rest) + 1] = received + 1
  BY <1>1, <1>2, <1>4
<1>6. ASSUME NEW i \in 1..Len(packets') PROVE packets'[i] = received' - Len(packets') + i
  <2>1. CASE i \in 1..Len(rest)
    <3>1. packets'[i] = packets[i + drop] /\ i + drop \in 1..Len(packets)
      BY <2>1, <1>2, <1>3, <1>4, <1>5
    <3>2. packets[i + drop] = received - Len(packets) + (i + drop)
      BY <3>1, <1>2
    <3>3. /\ Len(packets') = Len(packets) - drop + 1 /\ received' = received + 1 /\ received \in Nat
          /\ Len(packets) \in Nat /\ drop \in Nat /\ i \in Nat
      BY <1>1, <1>2, <1>3, <1>4, <1>5
    <3>4. received - Len(packets) + (i + drop) = received' - Len(packets') + i
      BY <3>3
    <3> QED
      BY <3>1, <3>2, <3>4
  <2>2. CASE i \notin 1..Len(rest)
    <3>1. i = Len(rest) + 1
      BY <2>2, <1>2, <1>3, <1>4, <1>5
    <3> QED
      BY <3>1, <1>1, <1>2, <1>3, <1>4, <1>5
  <2> QED
    BY <2>1, <2>2
<1>7. received' = taken' + Len(packets') + drop_queue_packet_'
  <2>1. /\ Len(packets') = Len(packets) - drop + 1 /\ received' = received + 1 /\ taken' = taken
        /\ drop_queue_packet_' = drop_queue_packet_ + drop
        /\ received = taken + Len(packets) + drop_queue_packet_
    BY <1>1, <1>2, <1>4, <1>5
  <2>2. /\ received \in Nat /\ taken \in Nat /\ drop_queue_packet_ \in Nat /\ drop \in Nat
        /\ Len(packets) \in Nat
    BY <1>2, <1>3
  <2> QED
    BY <2>1, <2>2
<1>8. Len(packets') <= NICE_QUEUE_MAX_NUMBER + 1 /\ received' \in Nat /\ drop_queue_packet_' \in Nat /\ taken' \in Nat
  BY <1>1, <1>2, <1>3, <1>4, <1>5
<1> QED
  BY <1>5, <1>6, <1>7, <1>8 DEF QueueHolds, Nice!QueueIsLatest

\* getPacket takes the oldest one.
LEMMA GetKeeps ==
  ASSUME QueueHolds, Nice!getPacket
  PROVE  QueueHolds'
<1>1. /\ packets' = Tail(packets) /\ packets # <<>> /\ taken' = taken + 1
      /\ received' = received /\ drop_queue_packet_' = drop_queue_packet_
  BY DEF Nice!getPacket
<1>2. /\ NICE_QUEUE_MAX_NUMBER \in Nat /\ packets \in Seq(Nat) /\ Len(packets) \in Nat
      /\ received \in Nat /\ taken \in Nat /\ drop_queue_packet_ \in Nat
      /\ Len(packets) <= NICE_QUEUE_MAX_NUMBER + 1
      /\ \A i \in 1..Len(packets) : packets[i] = received - Len(packets) + i
      /\ received = taken + Len(packets) + drop_queue_packet_
  BY TransportAssumption DEF QueueHolds, Nice!QueueIsLatest, Nice!NiceAssumption
<1>3. /\ packets' \in Seq(Nat) /\ Len(packets') = Len(packets) - 1 /\ Len(packets) > 0
      /\ \A i \in 1..Len(packets') : packets'[i] = packets[i + 1]
  BY <1>1, <1>2
<1>4. ASSUME NEW i \in 1..Len(packets') PROVE packets'[i] = received' - Len(packets') + i
  <2>1. i + 1 \in 1..Len(packets)
    BY <1>2, <1>3
  <2> QED
    BY <2>1, <1>1, <1>2, <1>3
<1>5. received' = taken' + Len(packets') + drop_queue_packet_' /\ taken' \in Nat
      /\ Len(packets') <= NICE_QUEUE_MAX_NUMBER + 1
  BY <1>1, <1>2, <1>3
<1> QED
  BY <1>1, <1>2, <1>3, <1>4, <1>5 DEF QueueHolds, Nice!QueueIsLatest

\* The other steps do not touch the one or the other.
LEMMA NiceKeeps ==
  ASSUME NiceInv, Nice!Next
  PROVE  NiceInv'
<1>1. NiceStates /\ QueueHolds
  BY DEF NiceInv
<1>2. CASE Nice!IceEvent
  <2>1. PICK c \in Nice!Components, to \in Nice!ComponentStates : Nice!updateComponentState(c, to)
    BY <1>2 DEF Nice!IceEvent
  <2>2. NiceStates' /\ UNCHANGED <<packets, received, taken, drop_queue_packet_>>
    BY <2>1, <1>1, EventKeeps
  <2> QED
    BY <2>2, <1>1 DEF NiceInv, QueueHolds, Nice!QueueIsLatest
<1>3. CASE Nice!queueData
  <2>1. UNCHANGED <<component, comp_state_list_, niceState_, niceRunning_, stamp, agent, reader,
                    everConnected, everFailed>>
    BY <1>3 DEF Nice!queueData, Nice!states, Nice!history
  <2>2. NiceStates'
    BY <2>1, <1>1 DEF NiceStates, EntriesHold, AboutToSet, Nice!StateIsAgreed
  <2> QED
    BY <2>2, <1>1, <1>3, QueueKeeps DEF NiceInv
<1>4. CASE Nice!getPacket
  <2>1. UNCHANGED <<component, comp_state_list_, niceState_, niceRunning_, stamp, agent, reader,
                    everConnected, everFailed>>
    BY <1>4 DEF Nice!getPacket, Nice!states, Nice!history
  <2>2. NiceStates'
    BY <2>1, <1>1 DEF NiceStates, EntriesHold, AboutToSet, Nice!StateIsAgreed
  <2> QED
    BY <2>2, <1>1, <1>4, GetKeeps DEF NiceInv
<1>5. CASE \/ Nice!updateIceState \/ Nice!LoopEnds \/ Nice!getPacketEnd
           \/ Nice!setRemoteCandidates \/ Nice!TimePasses \/ Nice!close
  <2>1. UNCHANGED <<component, comp_state_list_, packets, received, taken, drop_queue_packet_,
                    everConnected, everFailed>>
    BY <1>5 DEF Nice!updateIceState, Nice!LoopEnds, Nice!getPacketEnd, Nice!setRemoteCandidates,
                Nice!TimePasses, Nice!close, Nice!states, Nice!queue, Nice!history
  <2>2. QueueHolds'
    BY <2>1, <1>1 DEF QueueHolds, Nice!QueueIsLatest
  <2>3. /\ niceState_' \in Nice!IceStates /\ niceRunning_' \in BOOLEAN
        /\ stamp' \in {"unset", "recent", "old"} /\ agent' \in Nice!IceStates \cup {"idle", "end"}
        /\ reader' \in {"run", "end"}
        /\ niceState_' \in {niceState_, agent, "FINISHED"} /\ agent' \in {agent, "idle", "end"}
    BY <1>1, <1>5 DEF NiceStates, Nice!updateIceState, Nice!LoopEnds, Nice!getPacketEnd,
         Nice!setRemoteCandidates, Nice!TimePasses, Nice!close, Nice!states, Nice!IceStates
  <2>4. EntriesHold'
    BY <1>1, <2>1 DEF NiceStates, EntriesHold
  <2>5. AboutToSet' /\ Nice!StateIsAgreed'
    BY <1>1, <2>1, <2>3 DEF NiceStates, AboutToSet, Nice!StateIsAgreed
  <2> QED
    BY <1>1, <2>1, <2>2, <2>3, <2>4, <2>5 DEF NiceInv, NiceStates
<1> QED
  BY <1>2, <1>3, <1>4, <1>5 DEF Nice!Next

-------------------------------------------------------------------------------
(* DtlsHandshake.                                                            *)

Theirs(f) == f \in Dtls!Flights /\ ~Dtls!Ours(f)
Answering == worker[1] \in {"keys", "READY", "FAILED", "write"}
Receiving == worker[1] \in {"reset", "handshake"}

\* The last flight of the peer, before which the socket does not complete.
Last == IF IsServer THEN 3 ELSE 4

\* What is on its way from the peer, the peer has sent.
FromPeer ==
  /\ peerSent = 0 \/ Theirs(peerSent)
  /\ \A f \in Dtls!Flights : toUs[f] > 0 => Theirs(f) /\ f <= peerSent
  /\ \A i \in 1..Len(niceQueue_) : Theirs(niceQueue_[i]) /\ niceQueue_[i] <= peerSent
  /\ Receiving => Theirs(worker[2]) /\ worker[2] <= peerSent

\* The last flight of a server is sent by one that has completed, from the buffer or
\* by the Resender.
ToPeer ==
  /\ \A f \in Dtls!Flights : toPeer[f] > 0 => Dtls!Ours(f) /\ (f = 4 => mHandshakeCompleted)
  /\ outBio = 4 => mHandshakeCompleted
  /\ Answering => worker[2] = outBio

\* Who is done, and when.
Completion ==
  /\ srtp_ \/ worker[1] = "keys" => mHandshakeCompleted
  /\ mHandshakeCompleted => peerSent >= Last
  /\ ~IsServer /\ peerSent = 4 => peerDone
  /\ IsServer /\ peerDone => mHandshakeCompleted

\* A client has sent and received nothing before its first flight.
BeforeStart ==
  /\ ~IsServer /\ expected = 0 =>
       /\ worker \in {<<"idle">>, <<"end">>} /\ rtpResender.timer = "none" /\ peerSent = 0
       /\ \A f \in Dtls!Flights : toPeer[f] = 0
  /\ ice = <<"start">> => ~IsServer /\ expected = 0 /\ iceState_ # "INITIAL"
  /\ iceState_ = "INITIAL" /\ ~IsServer => expected = 0

\* A timer that still runs, or ran before the peer's packet came in, is for what is in
\* the buffer.
TimerIsRight ==
  /\ Receiving \/ Answering =>
       rtpResender.timer # "armed" /\ (rtpResender.timer = "fired" => rtpResender.overtaken)
  /\ rtpResender.timer \in {"armed", "fired"} /\ ~rtpResender.overtaken => outBio = rtpResender.flight
  /\ Dtls!StaleResendExplained

DtlsInv == Dtls!TypeOK /\ FromPeer /\ ToPeer /\ Completion /\ BeforeStart /\ TimerIsRight

\* Which flights are whose.
LEMMA Roles ==
  ASSUME IsServer \in BOOLEAN
  PROVE  /\ Dtls!Flights = {1, 2, 3, 4}
         /\ Dtls!Ours(1) <=> ~IsServer
         /\ Dtls!Ours(2) <=> IsServer
         /\ Dtls!Ours(3) <=> ~IsServer
         /\ Dtls!Ours(4) <=> IsServer
         /\ Dtls!Expectable = IF IsServer THEN {1, 3, 5, 7} ELSE {0, 2, 4, 6, 7}
         /\ Dtls!Answers = IF IsServer THEN {0, 2, 4, 5} ELSE {0, 1, 3, 5}
<1>1. Dtls!Flights = {1, 2, 3, 4}
  BY DEF Dtls!Flights
<1>2. 1 % 2 = 1 /\ 2 % 2 = 0 /\ 3 % 2 = 1 /\ 4 % 2 = 0 /\ 0 % 2 = 0 /\ 5 % 2 = 1 /\ 6 % 2 = 0
  OBVIOUS
<1>3. 0..6 = {0, 1, 2, 3, 4, 5, 6}
  OBVIOUS
<1>4. \A e : e \in Dtls!Expectable <=> e \in IF IsServer THEN {1, 3, 5, 7} ELSE {0, 2, 4, 6, 7}
  BY <1>2, <1>3 DEF Dtls!Expectable, Dtls!Never
<1>5. \A g : g \in Dtls!Answers <=> g \in IF IsServer THEN {0, 2, 4, 5} ELSE {0, 1, 3, 5}
  BY <1>1, <1>2 DEF Dtls!Answers, Dtls!Alert, Dtls!Ours
<1> QED
  BY <1>1, <1>2, <1>4, <1>5 DEF Dtls!Ours

LEMMA DtlsInit == Dtls!Init => DtlsInv
<1> SUFFICES ASSUME Dtls!Init PROVE DtlsInv
  OBVIOUS
<1>1. IsServer \in BOOLEAN /\ MaxCopies \in Nat /\ MaxLoss \in Nat
  BY TransportAssumption DEF Dtls!Init, Dtls!HandshakeAssumption
<1>2. worker[1] = "idle" /\ worker = <<"idle">>
  BY DEF Dtls!Init
<1>3. Dtls!TypeOK
  <2>1. expected \in Dtls!Expectable
    BY <1>1, Roles DEF Dtls!Init
  <2>2. toPeer \in [Dtls!Flights -> 0..MaxCopies] /\ toUs \in [Dtls!Flights -> 0..MaxCopies]
    BY <1>1 DEF Dtls!Init
  <2>3. rtpResender \in Dtls!Resenders
    BY DEF Dtls!Init, Dtls!NoResender, Dtls!Resenders
  <2>4. ice \in Dtls!IceSteps /\ worker \in Dtls!WorkerSteps
    BY DEF Dtls!Init, Dtls!IceSteps, Dtls!WorkerSteps
  <2>5. /\ niceQueue_ \in Seq(Dtls!Flights) /\ peerSent \in 0..4 /\ lost \in 0..MaxLoss
        /\ outBio \in Dtls!Answers
    BY <1>1, Roles DEF Dtls!Init
  <2>6. /\ dtlsRunning_ = TRUE /\ mHandshakeCompleted = FALSE /\ srtp_ = FALSE /\ peerDone = FALSE
        /\ iceState_ = "INITIAL" /\ state_ = "STARTED"
        /\ rtcp \in {"muxed", "waits"} /\ refused = FALSE
    BY DEF Dtls!Init
  <2> QED
    BY <1>1, <2>1, <2>2, <2>3, <2>4, <2>5, <2>6 DEF Dtls!TypeOK
<1>4. FromPeer /\ ToPeer /\ Completion
  BY <1>2 DEF Dtls!Init, FromPeer, ToPeer, Completion, Receiving, Answering
<1>5. BeforeStart /\ TimerIsRight
  BY <1>2 DEF Dtls!Init, BeforeStart, TimerIsRight, Receiving, Answering, Dtls!NoResender,
              Dtls!StaleResendExplained
<1> QED
  BY <1>3, <1>4, <1>5 DEF DtlsInv

\* A message more in transit, and one less.
LEMMA SentIs ==
  ASSUME NEW ch \in [Dtls!Flights -> 0..MaxCopies], NEW f
  PROVE  /\ Dtls!Sent(ch, f) \in [Dtls!Flights -> 0..MaxCopies]
         /\ \A g \in Dtls!Flights : Dtls!Sent(ch, f)[g] > 0 => ch[g] > 0 \/ g = f
<1>1. MaxCopies \in Nat
  BY TransportAssumption DEF Dtls!HandshakeAssumption
<1>2. CASE f \in Dtls!Flights /\ ch[f] < MaxCopies
  <2>1. Dtls!Sent(ch, f) = [ch EXCEPT ![f] = ch[f] + 1]
    BY <1>2 DEF Dtls!Sent
  <2>2. ch[f] \in 0..MaxCopies /\ ch[f] + 1 \in 0..MaxCopies
    BY <1>1, <1>2
  <2> QED
    BY <1>2, <2>1, <2>2
<1>3. CASE ~(f \in Dtls!Flights /\ ch[f] < MaxCopies)
  BY <1>3 DEF Dtls!Sent
<1> QED
  BY <1>2, <1>3

LEMMA OneLess ==
  ASSUME NEW ch \in [Dtls!Flights -> 0..MaxCopies], NEW f \in Dtls!Flights, ch[f] > 0
  PROVE  /\ [ch EXCEPT ![f] = @ - 1] \in [Dtls!Flights -> 0..MaxCopies]
         /\ \A g \in Dtls!Flights : [ch EXCEPT ![f] = @ - 1][g] > 0 => ch[g] > 0
<1>1. MaxCopies \in Nat
  BY TransportAssumption DEF Dtls!HandshakeAssumption
<1>2. ch[f] - 1 \in 0..MaxCopies
  BY <1>1
<1> QED
  BY <1>2

\* sendData: only what was given can be new on its way to the peer.
LEMMA SendDataIs ==
  ASSUME Dtls!TypeOK, NEW f, Dtls!sendData(f)
  PROVE  /\ toPeer' \in [Dtls!Flights -> 0..MaxCopies]
         /\ \A g \in Dtls!Flights : toPeer'[g] > 0 => toPeer[g] > 0 \/ g = f
<1>1. toPeer \in [Dtls!Flights -> 0..MaxCopies]
  BY DEF Dtls!TypeOK
<1>2. toPeer' = toPeer \/ toPeer' = Dtls!Sent(toPeer, f)
  BY DEF Dtls!sendData
<1> QED
  BY <1>1, <1>2, SentIs

\* The packet thread has a flight of the peer or an answer to one in its hand.
LEMMA WorkerForm ==
  ASSUME Dtls!TypeOK
  PROVE  /\ worker = <<"idle">> \/ worker = <<"end">> \/ Receiving \/ Answering \/ worker[1] = "rtcp"
         /\ Receiving => Theirs(worker[2]) /\ worker # <<"idle">> /\ worker # <<"end">> /\ ~Answering
         /\ Answering => /\ worker # <<"idle">> /\ worker # <<"end">>
                         /\ worker[2] \in Dtls!Answers
<1>1. worker \in Dtls!WorkerSteps
  BY DEF Dtls!TypeOK
<1>2. CASE worker \in {<<"idle">>, <<"end">>}
  BY <1>2 DEF Receiving, Answering
<1>3. CASE worker \in {"reset", "handshake"} \X {f \in Dtls!Flights : ~Dtls!Ours(f)}
  BY <1>3 DEF Receiving, Answering, Theirs
<1>4. CASE worker \in {"keys", "READY", "FAILED", "write"} \X Dtls!Answers
  BY <1>4 DEF Receiving, Answering
<1>5. CASE worker \in {"rtcp"} \X {"READY", "FAILED"}
  BY <1>5 DEF Receiving, Answering
<1> QED
  BY <1>1, <1>2, <1>3, <1>4, <1>5 DEF Dtls!WorkerSteps

\* Steps of the ICE thread that only change the ICE and the transport's state.
LEMMA IceKeeps ==
  ASSUME DtlsInv, UNCHANGED IsServer,
         \/ Dtls!IceReady \/ Dtls!IceFailed
         \/ \E s \in {"READY", "FAILED"} : Dtls!IceCheck(s) \/ Dtls!IceSet(s)
  PROVE  DtlsInv'
<1>1. UNCHANGED <<worker, expected, mHandshakeCompleted, srtp_, rtcp, refused, outBio, rtpResender, niceQueue_,
                  peerSent, peerDone, toPeer, toUs, lost>>
  BY DEF Dtls!IceReady, Dtls!IceFailed, Dtls!IceCheck, Dtls!IceSet, Dtls!own, Dtls!socket, Dtls!peer
<1>2. /\ iceState_' \in {"INITIAL", "READY", "FAILED"} /\ state_' \in {"STARTED", "READY", "FAILED"}
      /\ dtlsRunning_' \in BOOLEAN /\ ice' \in Dtls!IceSteps
      /\ iceState_' = "INITIAL" => iceState_ = "INITIAL"
      /\ ice' = <<"start">> => ~IsServer /\ iceState_ = "INITIAL" /\ iceState_' # "INITIAL"
  <2>1. Dtls!TypeOK
    BY DEF DtlsInv
  <2>2. CASE Dtls!IceReady
    BY <2>1, <2>2 DEF Dtls!TypeOK, Dtls!IceReady, Dtls!IceSteps
  <2>3. CASE Dtls!IceFailed
    BY <2>1, <2>3 DEF Dtls!TypeOK, Dtls!IceFailed, Dtls!IceSteps
  <2>4. ASSUME NEW s \in {"READY", "FAILED"}, Dtls!IceCheck(s) \/ Dtls!IceSet(s)
        PROVE  /\ UNCHANGED <<iceState_, dtlsRunning_>> /\ state_' \in {state_, s}
               /\ ice' = <<"idle">> \/ ice' = <<"set", s>>
    BY <2>4 DEF Dtls!IceCheck, Dtls!IceSet, Dtls!own
  <2>5. CASE \E s \in {"READY", "FAILED"} : Dtls!IceCheck(s) \/ Dtls!IceSet(s)
    BY <2>1, <2>4, <2>5 DEF Dtls!TypeOK, Dtls!IceSteps
  <2> QED
    BY <2>2, <2>3, <2>5
<1>3. Dtls!TypeOK'
  BY <1>1, <1>2 DEF DtlsInv, Dtls!TypeOK, Dtls!WorkerSteps, Dtls!Expectable, Dtls!Answers, Dtls!Ours
<1>4. FromPeer' /\ ToPeer'
  BY <1>1 DEF DtlsInv, FromPeer, ToPeer, Receiving, Answering, Theirs, Dtls!Ours
<1>5. Completion' /\ TimerIsRight'
  BY <1>1 DEF DtlsInv, Completion, TimerIsRight, Last, Receiving, Answering, Dtls!StaleResendExplained
<1>6. BeforeStart'
  BY <1>1, <1>2 DEF DtlsInv, BeforeStart
<1> QED
  BY <1>3, <1>4, <1>5, <1>6 DEF DtlsInv

\* DtlsSocketContext::start, at a client that has done nothing yet.
LEMMA StartKeeps ==
  ASSUME DtlsInv, UNCHANGED IsServer, Dtls!IceStart
  PROVE  DtlsInv'
<1>1. /\ UNCHANGED <<iceState_, dtlsRunning_, state_, worker, mHandshakeCompleted, srtp_, rtcp, refused, niceQueue_,
                     peerSent, peerDone, toUs, lost>>
      /\ ice = <<"start">> /\ outBio' = 1 /\ expected' = 2 /\ ice' = <<"check", "READY">>
      /\ rtpResender' = [flight |-> 1, timer |-> "armed", overtaken |-> FALSE]
      /\ Dtls!sendData(1)
  BY DEF Dtls!IceStart, Dtls!own, Dtls!peer, Dtls!NewResender
<1>2. ~IsServer /\ expected = 0 /\ worker \in {<<"idle">>, <<"end">>} /\ IsServer \in BOOLEAN
  BY <1>1 DEF DtlsInv, BeforeStart, Dtls!TypeOK
<1>3. ~Receiving /\ ~Answering /\ ~Receiving' /\ ~Answering'
  BY <1>1, <1>2 DEF Receiving, Answering
<1>4. /\ toPeer' \in [Dtls!Flights -> 0..MaxCopies]
      /\ \A g \in Dtls!Flights : toPeer'[g] > 0 => toPeer[g] > 0 \/ g = 1
  BY <1>1, SendDataIs DEF DtlsInv
<1>5. Dtls!Ours(1) /\ 2 \in Dtls!Expectable /\ 1 \in Dtls!Flights
  BY <1>2, Roles
<1>6. Dtls!TypeOK'
  <2>1. ice' \in Dtls!IceSteps /\ rtpResender' \in Dtls!Resenders
    BY <1>1 DEF Dtls!IceSteps, Dtls!Resenders
  <2> QED
    BY <1>1, <1>4, <1>5, <2>1 DEF DtlsInv, Dtls!TypeOK, Dtls!WorkerSteps, Dtls!Expectable, Dtls!Answers, Dtls!Ours
<1>7. FromPeer'
  BY <1>1, <1>3 DEF DtlsInv, FromPeer, Theirs, Dtls!Ours
<1>8. ToPeer'
  BY <1>1, <1>3, <1>4, <1>5 DEF DtlsInv, ToPeer, Dtls!Ours
<1>9. Completion'
  BY <1>1 DEF DtlsInv, Completion, Last
<1>10. BeforeStart'
  BY <1>1, <1>2 DEF DtlsInv, BeforeStart
<1>11. TimerIsRight'
  BY <1>1, <1>3 DEF DtlsInv, TimerIsRight, Dtls!StaleResendExplained
<1> QED
  BY <1>6, <1>7, <1>8, <1>9, <1>10, <1>11 DEF DtlsInv

\* queueData: what is queued was on its way from the peer.
LEMMA ArrivalKeeps ==
  ASSUME DtlsInv, UNCHANGED IsServer, NEW f \in Dtls!Flights, Dtls!queueData(f)
  PROVE  DtlsInv'
<1>1. /\ UNCHANGED <<iceState_, dtlsRunning_, state_, ice, worker, expected, mHandshakeCompleted, srtp_, rtcp, refused,
                     outBio, rtpResender, peerSent, peerDone, toPeer, lost>>
      /\ toUs[f] > 0 /\ toUs' = [toUs EXCEPT ![f] = @ - 1]
      /\ niceQueue_' = niceQueue_ \/ niceQueue_' = Append(niceQueue_, f)
  BY DEF Dtls!queueData, Dtls!own, Dtls!socket, Dtls!peer
<1>2. toUs \in [Dtls!Flights -> 0..MaxCopies] /\ niceQueue_ \in Seq(Dtls!Flights)
  BY DEF DtlsInv, Dtls!TypeOK
<1>3. /\ toUs' \in [Dtls!Flights -> 0..MaxCopies] /\ niceQueue_' \in Seq(Dtls!Flights)
      /\ \A g \in Dtls!Flights : toUs'[g] > 0 => toUs[g] > 0
      /\ \A i \in 1..Len(niceQueue_') : niceQueue_'[i] = f \/ (i \in 1..Len(niceQueue_) /\ niceQueue_'[i] = niceQueue_[i])
  <2>1. toUs' \in [Dtls!Flights -> 0..MaxCopies] /\ \A g \in Dtls!Flights : toUs'[g] > 0 => toUs[g] > 0
    BY <1>1, <1>2, OneLess
  <2>2. CASE niceQueue_' = niceQueue_
    BY <1>2, <2>1, <2>2
  <2>3. CASE niceQueue_' = Append(niceQueue_, f)
    <3>1. niceQueue_' \in Seq(Dtls!Flights) /\ Len(niceQueue_') = Len(niceQueue_) + 1
      BY <1>2, <2>3
    <3>2. \A i \in 1..Len(niceQueue_) + 1 :
            niceQueue_'[i] = IF i = Len(niceQueue_) + 1 THEN f ELSE niceQueue_[i]
      BY <1>2, <2>3
    <3> QED
      BY <1>2, <2>1, <3>1, <3>2
  <2> QED
    BY <1>1, <2>2, <2>3
<1>4. Dtls!TypeOK'
  BY <1>1, <1>3 DEF DtlsInv, Dtls!TypeOK, Dtls!WorkerSteps, Dtls!Expectable, Dtls!Answers, Dtls!Ours
<1>5. FromPeer'
  BY <1>1, <1>3 DEF DtlsInv, FromPeer, Theirs, Receiving, Dtls!Ours
<1>6. ToPeer'
  BY <1>1 DEF DtlsInv, ToPeer, Answering, Dtls!Ours
<1>7. Completion' /\ BeforeStart'
  BY <1>1 DEF DtlsInv, Completion, BeforeStart, Last
<1>8. TimerIsRight'
  BY <1>1 DEF DtlsInv, TimerIsRight, Receiving, Answering, Dtls!StaleResendExplained
<1> QED
  BY <1>4, <1>5, <1>6, <1>7, <1>8 DEF DtlsInv

\* The packet thread ends, takes a packet or resets the buffer: a timer that is armed
\* is cancelled before the buffer changes.
LEMMA PacketKeeps ==
  ASSUME DtlsInv, UNCHANGED IsServer, Dtls!WorkerEnds \/ Dtls!onNiceData \/ Dtls!BioReset
  PROVE  DtlsInv'
<1>1. /\ UNCHANGED <<iceState_, dtlsRunning_, state_, ice, expected, mHandshakeCompleted, srtp_, rtcp, refused,
                     peerSent, peerDone, toPeer, toUs, lost>>
  BY DEF Dtls!WorkerEnds, Dtls!onNiceData, Dtls!BioReset, Dtls!own, Dtls!socket, Dtls!peer
<1>2. Dtls!TypeOK /\ rtpResender \in Dtls!Resenders /\ niceQueue_ \in Seq(Dtls!Flights)
  BY DEF DtlsInv, Dtls!TypeOK
<1>3. CASE Dtls!WorkerEnds
  <2>1. UNCHANGED <<outBio, rtpResender, niceQueue_>> /\ worker' = <<"end">> /\ worker = <<"idle">>
    BY <1>3 DEF Dtls!WorkerEnds, Dtls!socket
  <2>2. ~Receiving' /\ ~Answering' /\ worker' \in Dtls!WorkerSteps /\ worker'[1] # "keys"
    BY <2>1 DEF Receiving, Answering, Dtls!WorkerSteps
  <2>3. Dtls!TypeOK'
    BY <1>1, <2>1, <2>2 DEF DtlsInv, Dtls!TypeOK, Dtls!WorkerSteps, Dtls!Expectable, Dtls!Answers, Dtls!Ours
  <2>4. FromPeer' /\ ToPeer'
    BY <1>1, <2>1, <2>2 DEF DtlsInv, FromPeer, ToPeer, Theirs, Dtls!Ours
  <2>5. Completion' /\ BeforeStart' /\ TimerIsRight'
    BY <1>1, <2>1, <2>2 DEF DtlsInv, Completion, BeforeStart, TimerIsRight, Last, Dtls!StaleResendExplained
  <2> QED
    BY <2>3, <2>4, <2>5 DEF DtlsInv
<1>4. CASE Dtls!onNiceData
  <2>1. /\ UNCHANGED outBio /\ worker' = <<"reset", Head(niceQueue_)>> /\ niceQueue_' = Tail(niceQueue_)
        /\ niceQueue_ # <<>> /\ worker = <<"idle">> /\ Dtls!cancel
    BY <1>4 DEF Dtls!onNiceData, Dtls!socket
  <2>2. /\ Head(niceQueue_) = niceQueue_[1] /\ 1 \in 1..Len(niceQueue_) /\ niceQueue_' \in Seq(Dtls!Flights)
        /\ \A i \in 1..Len(niceQueue_') : i + 1 \in 1..Len(niceQueue_) /\ niceQueue_'[i] = niceQueue_[i + 1]
    BY <1>2, <2>1
  <2>3. Theirs(niceQueue_[1]) /\ niceQueue_[1] <= peerSent
    BY <2>2 DEF DtlsInv, FromPeer
  <2>4. /\ worker'[1] = "reset" /\ worker'[2] = niceQueue_[1] /\ ~Answering'
        /\ worker' \in {"reset", "handshake"} \X {g \in Dtls!Flights : ~Dtls!Ours(g)}
    BY <2>1, <2>2, <2>3 DEF Answering, Theirs
  <2>5. /\ rtpResender' \in Dtls!Resenders /\ rtpResender'.timer # "armed"
        /\ rtpResender'.timer = "fired" => rtpResender'.overtaken
        /\ rtpResender.timer = "none" => rtpResender' = rtpResender
    BY <1>2, <2>1 DEF Dtls!cancel, Dtls!Resenders
  <2>6. Dtls!TypeOK'
    BY <1>1, <2>1, <2>2, <2>4, <2>5 DEF DtlsInv, Dtls!TypeOK, Dtls!WorkerSteps, Dtls!Expectable, Dtls!Answers, Dtls!Ours
  <2>7. FromPeer'
    BY <1>1, <2>2, <2>3, <2>4 DEF DtlsInv, FromPeer, Theirs, Dtls!Ours
  <2>8. ToPeer' /\ Completion'
    BY <1>1, <2>1, <2>4 DEF DtlsInv, ToPeer, Completion, Last, Dtls!Ours
  <2>9. BeforeStart'
    <3>1. ~(~IsServer /\ expected = 0)
      <4>1. peerSent # 0
        BY <2>3, <1>2 DEF Theirs, Dtls!Flights
      <4> QED
        BY <4>1 DEF DtlsInv, BeforeStart
    <3> QED
      BY <1>1, <3>1 DEF DtlsInv, BeforeStart
  <2>10. TimerIsRight'
    BY <1>1, <2>5 DEF DtlsInv, TimerIsRight, Dtls!StaleResendExplained
  <2> QED
    BY <2>6, <2>7, <2>8, <2>9, <2>10 DEF DtlsInv
<1>5. CASE Dtls!BioReset
  <2>1. /\ UNCHANGED <<rtpResender, niceQueue_>> /\ worker[1] = "reset" /\ outBio' = 0
        /\ worker' = <<"handshake", worker[2]>>
    BY <1>5 DEF Dtls!BioReset
  <2>2. Receiving /\ Theirs(worker[2]) /\ worker # <<"idle">> /\ worker # <<"end">>
    BY <1>2, <2>1, WorkerForm DEF Receiving
  <2>3. /\ worker'[1] = "handshake" /\ worker'[2] = worker[2] /\ ~Answering' /\ Receiving'
        /\ worker' \in {"reset", "handshake"} \X {g \in Dtls!Flights : ~Dtls!Ours(g)}
    BY <2>1, <2>2 DEF Answering, Receiving, Theirs
  <2>4. Dtls!TypeOK'
    BY <1>1, <2>1, <2>3 DEF DtlsInv, Dtls!TypeOK, Dtls!WorkerSteps, Dtls!Expectable, Dtls!Answers, Dtls!Ours
  <2>5. FromPeer'
    BY <1>1, <2>1, <2>2, <2>3 DEF DtlsInv, FromPeer, Theirs, Dtls!Ours
  <2>6. ToPeer' /\ Completion'
    BY <1>1, <2>1, <2>3 DEF DtlsInv, ToPeer, Completion, Last, Dtls!Ours
  <2>7. BeforeStart'
    BY <1>1, <2>1, <2>2 DEF DtlsInv, BeforeStart
  <2>8. TimerIsRight'
    BY <1>1, <2>1, <2>2 DEF DtlsInv, TimerIsRight, Dtls!StaleResendExplained
  <2> QED
    BY <2>4, <2>5, <2>6, <2>7, <2>8 DEF DtlsInv
<1> QED
  BY <1>3, <1>4, <1>5

\* doHandshakeIteration: a last flight of the peer, which it has sent, completes the
\* handshake; only then is flight 4 written.
LEMMA IterationKeeps ==
  ASSUME DtlsInv, UNCHANGED IsServer, Dtls!doHandshakeIteration
  PROVE  DtlsInv'
<1>1. /\ UNCHANGED <<iceState_, dtlsRunning_, state_, ice, srtp_, rtcp, rtpResender, niceQueue_,
                     peerSent, peerDone, toPeer, toUs, lost>>
      /\ worker[1] = "handshake"
  BY DEF Dtls!doHandshakeIteration, Dtls!own, Dtls!peer
<1>2. Dtls!TypeOK /\ IsServer \in BOOLEAN /\ mHandshakeCompleted \in BOOLEAN
  BY DEF DtlsInv, Dtls!TypeOK
<1>3. /\ Receiving /\ Theirs(worker[2]) /\ worker[2] <= peerSent
      /\ worker # <<"idle">> /\ worker # <<"end">>
  BY <1>1, <1>2, WorkerForm DEF Receiving, DtlsInv, FromPeer
<1>4. PICK f \in Dtls!Flights : f = worker[2] /\ Theirs(f) /\ f <= peerSent
  BY <1>3 DEF Theirs
<1>5. CASE mHandshakeCompleted \/ f # expected
  <2>1. worker' = <<"idle">> /\ UNCHANGED <<outBio, expected, mHandshakeCompleted, refused>>
    BY <1>4, <1>5 DEF Dtls!doHandshakeIteration
  <2>2. ~Receiving' /\ ~Answering' /\ worker' \in Dtls!WorkerSteps /\ worker'[1] # "keys"
    BY <2>1 DEF Receiving, Answering, Dtls!WorkerSteps
  <2>3. Dtls!TypeOK'
    BY <1>1, <2>1, <2>2 DEF DtlsInv, Dtls!TypeOK, Dtls!WorkerSteps, Dtls!Expectable, Dtls!Answers, Dtls!Ours
  <2>4. FromPeer' /\ ToPeer'
    BY <1>1, <2>1, <2>2 DEF DtlsInv, FromPeer, ToPeer, Theirs, Dtls!Ours
  <2>5. Completion' /\ BeforeStart' /\ TimerIsRight'
    BY <1>1, <2>1, <2>2 DEF DtlsInv, Completion, BeforeStart, TimerIsRight, Last, Dtls!StaleResendExplained
  <2> QED
    BY <2>3, <2>4, <2>5 DEF DtlsInv
<1>6. CASE ~(mHandshakeCompleted \/ f # expected)
  <2>1. Dtls!Accepts(f) \/ Dtls!Refuses
    BY <1>4, <1>6 DEF Dtls!doHandshakeIteration
  <2>2. /\ Dtls!Flights = {1, 2, 3, 4}
        /\ IsServer => f \in {1, 3} /\ Dtls!Ours(2) /\ Dtls!Ours(4)
        /\ ~IsServer => f \in {2, 4} /\ Dtls!Ours(3)
        /\ Dtls!Expectable = IF IsServer THEN {1, 3, 5, 7} ELSE {0, 2, 4, 6, 7}
        /\ Dtls!Answers = IF IsServer THEN {0, 2, 4, 5} ELSE {0, 1, 3, 5}
    BY <1>2, <1>4, Roles DEF Theirs
  <2>3. /\ outBio' \in Dtls!Answers /\ refused' \in BOOLEAN
        /\ expected' \in Dtls!Expectable /\ expected' # 0 /\ mHandshakeCompleted' \in BOOLEAN
        /\ outBio' = 4 => mHandshakeCompleted'
        /\ mHandshakeCompleted' => peerSent >= Last
        /\ worker' = <<"keys", outBio'>> \/ worker' = <<"write", outBio'>>
        /\ worker'[1] = "keys" => mHandshakeCompleted'
    <3>1. CASE Dtls!Accepts(f)
      <4>1. /\ f > 2 => mHandshakeCompleted' = TRUE
            /\ ~(f > 2) => mHandshakeCompleted' = FALSE
        <5>1. mHandshakeCompleted' = (f > 2)
          BY <3>1 DEF Dtls!Accepts
        <5>2. CASE f > 2
          BY <5>1, <5>2, Zenon
        <5>3. CASE ~(f > 2)
          <6>1. (f > 2) = FALSE
            BY <5>3
          <6> QED
            BY <5>1, <6>1, Zenon
        <5> QED
          BY <5>2, <5>3
      <4>2. /\ outBio' = IF f < 4 THEN f + 1 ELSE 0
            /\ expected' = f + 2
            /\ worker' = <<"write", outBio'>> \/ (f > 2 /\ worker' = <<"keys", outBio'>>)
            /\ refused' = refused \/ refused' = TRUE
        BY <3>1 DEF Dtls!Accepts
      <4>3. refused' \in BOOLEAN
        BY <4>2, <1>2, Zenon DEF Dtls!TypeOK
      <4>4. worker'[1] = "keys" => f > 2
        BY <4>2
      <4>5. mHandshakeCompleted' \in BOOLEAN /\ (f > 2 => mHandshakeCompleted')
        <5>1. CASE f > 2
          BY <4>1, <5>1, Zenon
        <5>2. CASE ~(f > 2)
          BY <4>1, <5>2, Zenon
        <5> QED
          BY <5>1, <5>2
      <4>6. mHandshakeCompleted' => f > 2
        BY <4>1, Zenon
      <4>7. /\ outBio' \in Dtls!Answers /\ expected' \in Dtls!Expectable /\ expected' # 0
            /\ outBio' = 4 => f > 2
            /\ f > 2 => peerSent >= Last
        <5>1. CASE f = 1
          BY <5>1, <1>2, <2>2, <4>2
        <5>2. CASE f = 2
          BY <5>2, <1>2, <2>2, <4>2
        <5>3. CASE f = 3
          BY <5>3, <1>2, <1>4, <2>2, <4>2 DEF Last
        <5>4. CASE f = 4
          BY <5>4, <1>2, <1>4, <2>2, <4>2 DEF Last
        <5> QED
          BY <2>2, <5>1, <5>2, <5>3, <5>4
      <4> QED
        BY <4>2, <4>3, <4>4, <4>5, <4>6, <4>7
    <3>2. CASE Dtls!Refuses
      <4>1. /\ outBio' \in {0, 5} /\ expected' = 7 /\ refused' = TRUE
            /\ worker' = <<"write", outBio'>> /\ mHandshakeCompleted' = mHandshakeCompleted
        BY <3>2 DEF Dtls!Refuses, Dtls!Alert, Dtls!Never
      <4>2. outBio' \in Dtls!Answers /\ expected' \in Dtls!Expectable /\ outBio' # 4
        BY <1>2, <2>2, <4>1
      <4> QED
        BY <1>2, <1>6, <4>1, <4>2
    <3> QED
      BY <2>1, <3>1, <3>2
  <2>4. /\ worker' \in {"keys", "READY", "FAILED", "write"} \X Dtls!Answers
        /\ ~Receiving' /\ Answering' /\ worker'[2] = outBio'
    BY <2>3 DEF Receiving, Answering
  <2>5. Dtls!TypeOK'
    <3>1. Dtls!Answers' = Dtls!Answers /\ Dtls!Expectable' = Dtls!Expectable
      BY DEF Dtls!Answers, Dtls!Expectable, Dtls!Ours
    <3>2. worker' \in Dtls!WorkerSteps'
      BY <2>4, <3>1 DEF Dtls!WorkerSteps
    <3>3. outBio' \in Dtls!Answers' /\ expected' \in Dtls!Expectable'
      BY <2>3, <3>1
    <3> QED
      BY <1>1, <1>2, <2>3, <3>2, <3>3 DEF Dtls!TypeOK
  <2>6. FromPeer'
    BY <1>1, <2>4 DEF DtlsInv, FromPeer, Theirs, Dtls!Ours
  <2>7. ToPeer'
    BY <1>1, <1>6, <2>3, <2>4 DEF DtlsInv, ToPeer, Dtls!Ours
  <2>8. Completion'
    BY <1>1, <1>6, <2>3, <2>4 DEF DtlsInv, Completion, Last
  <2>9. BeforeStart'
    <3>1. ~(~IsServer /\ expected = 0)
      BY <1>3 DEF DtlsInv, BeforeStart
    <3>2. ice # <<"start">> /\ ~(iceState_ = "INITIAL" /\ ~IsServer)
      BY <3>1 DEF DtlsInv, BeforeStart
    <3> QED
      BY <1>1, <2>3, <3>2 DEF BeforeStart
  <2>10. TimerIsRight'
    BY <1>1, <1>3 DEF DtlsInv, TimerIsRight, Dtls!StaleResendExplained
  <2> QED
    BY <2>5, <2>6, <2>7, <2>8, <2>9, <2>10 DEF DtlsInv
<1> QED
  BY <1>5, <1>6

\* onHandshakeCompleted and the steps after it; writeDtls arms a timer for what is in
\* the buffer.
LEMMA AnswerKeeps ==
  ASSUME DtlsInv, UNCHANGED IsServer, Dtls!onHandshakeCompleted \/ Dtls!WorkerSet \/ Dtls!writeDtls
  PROVE  DtlsInv'
<1>1. /\ UNCHANGED <<iceState_, dtlsRunning_, rtcp, ice, expected, mHandshakeCompleted, outBio, niceQueue_,
                     peerSent, peerDone, toUs, lost>>
      /\ Answering /\ srtp_' \in {srtp_, mHandshakeCompleted} /\ refused' \in BOOLEAN
      /\ state_' \in {"STARTED", "READY", "FAILED"}
  BY DEF Dtls!onHandshakeCompleted, Dtls!WorkerSet, Dtls!writeDtls, Dtls!own, Dtls!socket, Dtls!peer,
         Answering, DtlsInv, Completion, Dtls!TypeOK
<1>2. /\ Dtls!TypeOK /\ worker # <<"idle">> /\ worker # <<"end">> /\ worker[2] = outBio
      /\ worker[2] \in Dtls!Answers
      /\ rtpResender.timer # "armed" /\ (rtpResender.timer = "fired" => rtpResender.overtaken)
      /\ rtpResender \in Dtls!Resenders /\ srtp_' \in BOOLEAN
  BY <1>1, WorkerForm DEF DtlsInv, ToPeer, TimerIsRight, Dtls!TypeOK
<1>3. /\ worker' \in Dtls!WorkerSteps /\ ~Receiving' /\ worker'[1] # "keys"
      /\ Answering' => worker'[2] = outBio
  <2>1. worker' \in {<<"idle">>, <<"READY", worker[2]>>, <<"FAILED", worker[2]>>, <<"write", worker[2]>>}
    BY DEF Dtls!onHandshakeCompleted, Dtls!WorkerSet, Dtls!writeDtls
  <2> QED
    BY <1>2, <2>1 DEF Dtls!WorkerSteps, Receiving, Answering
<1>4. /\ toPeer' \in [Dtls!Flights -> 0..MaxCopies]
      /\ \A g \in Dtls!Flights : toPeer'[g] > 0 => toPeer[g] > 0 \/ g = outBio
      /\ rtpResender' \in Dtls!Resenders
      /\ \/ UNCHANGED rtpResender
         \/ ~Answering' /\ rtpResender' = [flight |-> outBio, timer |-> "armed", overtaken |-> FALSE]
  <2>1. CASE UNCHANGED <<rtpResender, toPeer>>
    BY <1>2, <2>1 DEF DtlsInv, Dtls!TypeOK
  <2>2. CASE ~UNCHANGED <<rtpResender, toPeer>>
    <3>1. Dtls!NewResender(worker[2]) /\ Dtls!sendData(worker[2]) /\ worker' = <<"idle">>
      BY <2>2 DEF Dtls!onHandshakeCompleted, Dtls!WorkerSet, Dtls!writeDtls
    <3>2. rtpResender' = [flight |-> outBio, timer |-> "armed", overtaken |-> FALSE]
      BY <1>2, <3>1 DEF Dtls!NewResender
    <3>3. outBio \in 0..5
      BY <1>2 DEF Dtls!Answers, Dtls!Alert, Dtls!Flights
    <3>4. rtpResender' \in Dtls!Resenders /\ ~Answering'
      BY <3>1, <3>2, <3>3 DEF Dtls!Resenders, Answering
    <3> QED
      BY <1>2, <3>1, <3>2, <3>4, SendDataIs
  <2> QED
    BY <2>1, <2>2
<1>5. Dtls!TypeOK'
  BY <1>1, <1>2, <1>3, <1>4 DEF DtlsInv, Dtls!TypeOK, Dtls!WorkerSteps, Dtls!Expectable, Dtls!Answers, Dtls!Ours
<1>6. FromPeer'
  BY <1>1, <1>3 DEF DtlsInv, FromPeer, Theirs, Dtls!Ours
<1>7. ToPeer'
  <2>1. \A g \in Dtls!Flights : toPeer'[g] > 0 => Dtls!Ours(g) /\ (g = 4 => mHandshakeCompleted)
    BY <1>2, <1>4 DEF DtlsInv, ToPeer, Dtls!Answers, Dtls!Alert, Dtls!Flights
  <2> QED
    BY <1>1, <1>3, <2>1 DEF DtlsInv, ToPeer, Dtls!Ours
<1>8. Completion'
  BY <1>1, <1>3 DEF DtlsInv, Completion, Last
<1>9. BeforeStart'
  BY <1>1, <1>2 DEF DtlsInv, BeforeStart
<1>10. TimerIsRight'
  BY <1>1, <1>2, <1>3, <1>4 DEF DtlsInv, TimerIsRight, Dtls!StaleResendExplained
<1> QED
  BY <1>5, <1>6, <1>7, <1>8, <1>9, <1>10 DEF DtlsInv

\* The second component only changes its own state and the transport's.
LEMMA RtcpKeeps ==
  ASSUME DtlsInv, UNCHANGED IsServer, Dtls!RtcpCompleted \/ Dtls!RtcpSet
  PROVE  DtlsInv'
<1>1. UNCHANGED <<iceState_, dtlsRunning_, ice, expected, mHandshakeCompleted, srtp_, outBio, refused,
                  rtpResender, niceQueue_, peerSent, peerDone, toPeer, toUs, lost>>
  BY DEF Dtls!RtcpCompleted, Dtls!RtcpSet, Dtls!socket, Dtls!peer
<1>2. /\ rtcp' \in {"muxed", "waits", "ready", "failed"} /\ state_' \in {"STARTED", "READY", "FAILED"}
      /\ worker' = <<"idle">> \/ (expected # 0 /\ worker' \in {"rtcp"} \X {"READY", "FAILED"})
  <2>1. Dtls!TypeOK
    BY DEF DtlsInv
  <2>2. CASE Dtls!RtcpCompleted
    BY <2>1, <2>2 DEF Dtls!RtcpCompleted, Dtls!TypeOK
  <2>3. CASE Dtls!RtcpSet
    <3>1. worker \in {"rtcp"} \X {"READY", "FAILED"}
      BY <2>1, <2>3 DEF Dtls!RtcpSet, Dtls!TypeOK, Dtls!WorkerSteps
    <3> QED
      BY <2>1, <2>3, <3>1 DEF Dtls!RtcpSet, Dtls!TypeOK
  <2> QED
    BY <2>2, <2>3
<1>3. worker' \in Dtls!WorkerSteps /\ ~Receiving' /\ ~Answering' /\ worker'[1] # "keys"
  BY <1>2 DEF Dtls!WorkerSteps, Receiving, Answering
<1>4. Dtls!TypeOK'
  BY <1>1, <1>2, <1>3 DEF DtlsInv, Dtls!TypeOK, Dtls!WorkerSteps, Dtls!Expectable, Dtls!Answers, Dtls!Ours
<1>5. FromPeer' /\ ToPeer'
  BY <1>1, <1>3 DEF DtlsInv, FromPeer, ToPeer, Theirs, Dtls!Ours
<1>6. Completion' /\ BeforeStart' /\ TimerIsRight'
  BY <1>1, <1>2, <1>3 DEF DtlsInv, Completion, BeforeStart, TimerIsRight, Last, Dtls!StaleResendExplained
<1> QED
  BY <1>4, <1>5, <1>6 DEF DtlsInv

\* TimerFires and resend: what is sent again is what is in the buffer.
LEMMA TimerKeeps ==
  ASSUME DtlsInv, UNCHANGED IsServer, Dtls!TimerFires \/ Dtls!resend
  PROVE  DtlsInv'
<1>1. /\ UNCHANGED <<iceState_, dtlsRunning_, state_, ice, worker, expected, mHandshakeCompleted, srtp_, rtcp, refused,
                     outBio, niceQueue_, peerSent, peerDone, toUs, lost>>
      /\ rtpResender.timer \in {"armed", "fired"}
  BY DEF Dtls!TimerFires, Dtls!resend, Dtls!own, Dtls!socket, Dtls!peer
<1>2. Dtls!TypeOK /\ rtpResender \in Dtls!Resenders /\ outBio \in Dtls!Answers
  BY DEF DtlsInv, Dtls!TypeOK
<1>3. /\ toPeer' \in [Dtls!Flights -> 0..MaxCopies]
      /\ \A g \in Dtls!Flights : toPeer'[g] > 0 => toPeer[g] > 0 \/ g = outBio
  <2>1. CASE Dtls!TimerFires
    BY <1>2, <2>1 DEF Dtls!TimerFires, Dtls!TypeOK
  <2>2. CASE Dtls!resend
    <3>1. Dtls!sendData(outBio)
      BY <2>2 DEF Dtls!resend
    <3> QED
      BY <1>2, <3>1, SendDataIs
  <2> QED
    BY <2>1, <2>2
<1>4. /\ rtpResender' \in Dtls!Resenders
      /\ rtpResender'.flight = rtpResender.flight /\ rtpResender'.overtaken = rtpResender.overtaken
      /\ rtpResender'.timer \in {"fired", "over"}
      /\ rtpResender'.timer = "fired" => rtpResender.timer = "armed"
  BY <1>2 DEF Dtls!TimerFires, Dtls!resend, Dtls!Resenders
<1>5. Dtls!TypeOK'
  BY <1>1, <1>2, <1>3, <1>4 DEF DtlsInv, Dtls!TypeOK, Dtls!WorkerSteps, Dtls!Expectable, Dtls!Answers, Dtls!Ours
<1>6. FromPeer'
  BY <1>1 DEF DtlsInv, FromPeer, Receiving, Theirs, Dtls!Ours
<1>7. ToPeer'
  <2>1. \A g \in Dtls!Flights : toPeer'[g] > 0 => Dtls!Ours(g) /\ (g = 4 => mHandshakeCompleted)
    BY <1>2, <1>3 DEF DtlsInv, ToPeer, Dtls!Answers, Dtls!Alert, Dtls!Flights
  <2> QED
    BY <1>1, <2>1 DEF DtlsInv, ToPeer, Answering, Dtls!Ours
<1>8. Completion'
  BY <1>1 DEF DtlsInv, Completion, Last
<1>9. BeforeStart'
  BY <1>1 DEF DtlsInv, BeforeStart
<1>10. TimerIsRight'
  BY <1>1, <1>4 DEF DtlsInv, TimerIsRight, Receiving, Answering, Dtls!StaleResendExplained
<1> QED
  BY <1>5, <1>6, <1>7, <1>8, <1>9, <1>10 DEF DtlsInv

\* Steps of the peer and the network leave the transport alone; what must be shown is
\* what they do to peerSent, peerDone and to what is in transit.
LEMMA OutsideKeeps ==
  ASSUME DtlsInv, UNCHANGED IsServer,
         UNCHANGED <<iceState_, dtlsRunning_, state_, ice, worker, expected, mHandshakeCompleted, srtp_, rtcp, refused,
                     outBio, rtpResender, niceQueue_>>,
         lost' \in 0..MaxLoss, peerSent' \in 0..4, peerDone' \in BOOLEAN, peerSent <= peerSent',
         peerSent' = 0 \/ Theirs(peerSent'), ~IsServer /\ expected = 0 => peerSent' = 0,
         ~IsServer /\ peerSent' = 4 => peerDone', IsServer /\ peerDone' => mHandshakeCompleted,
         toPeer' \in [Dtls!Flights -> 0..MaxCopies], toUs' \in [Dtls!Flights -> 0..MaxCopies],
         \A g \in Dtls!Flights : toPeer'[g] > 0 => toPeer[g] > 0,
         \A g \in Dtls!Flights : toUs'[g] > 0 => toUs[g] > 0 \/ (Theirs(g) /\ g <= peerSent')
  PROVE  DtlsInv'
<1>1. Dtls!TypeOK'
  BY DEF DtlsInv, Dtls!TypeOK, Dtls!WorkerSteps, Dtls!Expectable, Dtls!Answers, Dtls!Ours
<1>2. peerSent \in Nat /\ peerSent' \in Nat
  BY DEF DtlsInv, Dtls!TypeOK
<1>3. FromPeer'
  <2>1. \A g \in Dtls!Flights : toUs'[g] > 0 => Theirs(g) /\ g <= peerSent'
    BY <1>2 DEF DtlsInv, FromPeer, Dtls!Flights
  <2>2. \A i \in 1..Len(niceQueue_) : Theirs(niceQueue_[i]) /\ niceQueue_[i] <= peerSent'
    BY <1>2 DEF DtlsInv, FromPeer, Theirs, Dtls!Flights
  <2>3. Receiving => Theirs(worker[2]) /\ worker[2] <= peerSent'
    BY <1>2 DEF DtlsInv, FromPeer, Theirs, Dtls!Flights
  <2> QED
    BY <2>1, <2>2, <2>3 DEF FromPeer, Receiving, Theirs, Dtls!Ours
<1>4. ToPeer'
  BY DEF DtlsInv, ToPeer, Answering, Dtls!Ours
<1>5. Completion'
  BY <1>2 DEF DtlsInv, Completion, Last
<1>6. BeforeStart'
  <2>1. MaxCopies \in Nat
    BY TransportAssumption DEF Dtls!HandshakeAssumption
  <2>2. ASSUME \A f \in Dtls!Flights : toPeer[f] = 0 PROVE \A f \in Dtls!Flights : toPeer'[f] = 0
    BY <2>1, <2>2
  <2> QED
    BY <2>2 DEF DtlsInv, BeforeStart
<1>7. TimerIsRight'
  BY DEF DtlsInv, TimerIsRight, Receiving, Answering, Dtls!StaleResendExplained
<1> QED
  BY <1>1, <1>3, <1>4, <1>5, <1>6, <1>7 DEF DtlsInv

\* The peer sends its first flight or its last one again.
LEMMA PeerSendKeeps ==
  ASSUME DtlsInv, UNCHANGED IsServer, Dtls!PeerSends
  PROVE  DtlsInv'
<1>1. /\ UNCHANGED <<iceState_, dtlsRunning_, state_, ice, worker, expected, mHandshakeCompleted, srtp_, rtcp, refused,
                     outBio, rtpResender, niceQueue_, peerDone, toPeer, lost>>
      /\ (peerSent = 0 /\ IsServer /\ peerSent' = 1) \/ (peerSent > 0 /\ peerSent' = peerSent)
      /\ toUs' = Dtls!Sent(toUs, peerSent')
  BY DEF Dtls!PeerSends, Dtls!own, Dtls!socket
<1>2. /\ toUs \in [Dtls!Flights -> 0..MaxCopies] /\ toPeer \in [Dtls!Flights -> 0..MaxCopies]
      /\ peerSent \in 0..4 /\ lost \in 0..MaxLoss /\ peerDone \in BOOLEAN /\ IsServer \in BOOLEAN
      /\ peerSent = 0 \/ Theirs(peerSent)
      /\ ~IsServer /\ peerSent = 4 => peerDone
      /\ IsServer /\ peerDone => mHandshakeCompleted
      /\ ~IsServer /\ expected = 0 => peerSent = 0
  BY DEF DtlsInv, Dtls!TypeOK, FromPeer, Completion, BeforeStart
<1>3. peerSent' \in 0..4 /\ Theirs(peerSent') /\ peerSent <= peerSent'
  BY <1>1, <1>2, Roles DEF Theirs
<1>4. /\ toUs' \in [Dtls!Flights -> 0..MaxCopies]
      /\ \A g \in Dtls!Flights : toUs'[g] > 0 => toUs[g] > 0 \/ g = peerSent'
  BY <1>1, <1>2, SentIs
<1>5. \A g \in Dtls!Flights : toUs'[g] > 0 => toUs[g] > 0 \/ (Theirs(g) /\ g <= peerSent')
  BY <1>3, <1>4
<1> QED
  BY <1>1, <1>2, <1>3, <1>4, <1>5, OutsideKeeps

\* The peer answers; as a server it is done when it sends its last flight, as a client
\* when it gets flight 4, which only a socket that has completed sends.
LEMMA PeerReceiveKeeps ==
  ASSUME DtlsInv, UNCHANGED IsServer, NEW f \in Dtls!Flights, Dtls!PeerReceives(f)
  PROVE  DtlsInv'
<1> DEFINE answer == IF f = 4 THEN 0 ELSE f + 1
<1>1. /\ UNCHANGED <<iceState_, dtlsRunning_, state_, ice, worker, expected, mHandshakeCompleted, srtp_, rtcp, refused,
                     outBio, rtpResender, niceQueue_, lost>>
      /\ toPeer[f] > 0 /\ toPeer' = [toPeer EXCEPT ![f] = @ - 1]
      /\ f = peerSent + 1 => /\ peerDone' = (f > 2) /\ toUs' = Dtls!Sent(toUs, answer)
                             /\ peerSent' = IF f = 4 THEN peerSent ELSE answer
      /\ f # peerSent + 1 =>
           /\ UNCHANGED <<peerSent, peerDone>>
           /\ toUs' = IF answer = peerSent THEN Dtls!Sent(toUs, answer) ELSE toUs
  BY DEF Dtls!PeerReceives, Dtls!own, Dtls!socket, Dtls!peer
<1>2. /\ toUs \in [Dtls!Flights -> 0..MaxCopies] /\ toPeer \in [Dtls!Flights -> 0..MaxCopies]
      /\ peerSent \in 0..4 /\ lost \in 0..MaxLoss /\ peerDone \in BOOLEAN /\ IsServer \in BOOLEAN
      /\ peerSent = 0 \/ Theirs(peerSent)
      /\ ~IsServer /\ peerSent = 4 => peerDone
      /\ IsServer /\ peerDone => mHandshakeCompleted
  BY DEF DtlsInv, Dtls!TypeOK, FromPeer, Completion
<1>3. /\ Dtls!Ours(f) /\ (f = 4 => mHandshakeCompleted)
      /\ ~(~IsServer /\ expected = 0)
  <2>1. toPeer[f] # 0
    BY <1>1, <1>2
  <2> QED
    BY <1>1, <2>1 DEF DtlsInv, ToPeer, BeforeStart
<1>4. /\ toPeer' \in [Dtls!Flights -> 0..MaxCopies]
      /\ \A g \in Dtls!Flights : toPeer'[g] > 0 => toPeer[g] > 0
  BY <1>1, <1>2, OneLess
<1>5. CASE f = peerSent + 1
  <2>1. /\ f > 2 => peerDone' = TRUE
        /\ ~(f > 2) => peerDone' = FALSE
    <3>1. peerDone' = (f > 2)
      BY <1>1, <1>5
    <3>2. CASE f > 2
      BY <3>1, <3>2, Zenon
    <3>3. CASE ~(f > 2)
      <4>1. (f > 2) = FALSE
        BY <3>3
      <4> QED
        BY <3>1, <4>1, Zenon
    <3> QED
      BY <3>2, <3>3
  <2>2. peerDone' \in BOOLEAN
    BY <2>1, Zenon
  <2>3. /\ Dtls!Flights = {1, 2, 3, 4} /\ (IsServer => f \in {2, 4}) /\ (~IsServer => f \in {1, 3})
        /\ IsServer => Theirs(3) /\ Theirs(1)
        /\ ~IsServer => Theirs(2) /\ Theirs(4)
    BY <1>2, <1>3, Roles DEF Theirs
  <2>4. /\ peerSent' = (IF f = 4 THEN 3 ELSE f + 1) /\ peerSent = f - 1
        /\ toUs' = Dtls!Sent(toUs, IF f = 4 THEN 0 ELSE f + 1)
    BY <1>1, <1>2, <1>5, <2>3
  <2>5. peerSent' \in 0..4 /\ Theirs(peerSent') /\ peerSent <= peerSent'
    BY <2>3, <2>4, <1>2
  <2>6. (~IsServer /\ peerSent' = 4 => peerDone') /\ (IsServer /\ peerDone' => mHandshakeCompleted)
    BY <2>1, <2>3, <2>4, <1>3
  <2>7. /\ toUs' \in [Dtls!Flights -> 0..MaxCopies]
        /\ \A g \in Dtls!Flights : toUs'[g] > 0 => toUs[g] > 0 \/ g = (IF f = 4 THEN 0 ELSE f + 1)
    BY <1>2, <2>4, SentIs
  <2>8. \A g \in Dtls!Flights : toUs'[g] > 0 => toUs[g] > 0 \/ (Theirs(g) /\ g <= peerSent')
    BY <2>3, <2>4, <2>5, <2>7
  <2> QED
    BY <1>1, <1>2, <1>3, <1>4, <2>2, <2>5, <2>6, <2>7, <2>8, OutsideKeeps
<1>6. CASE f # peerSent + 1
  <2>1. UNCHANGED <<peerSent, peerDone>> /\ (toUs' = toUs \/ toUs' = Dtls!Sent(toUs, peerSent))
    BY <1>1, <1>6
  <2>2. /\ toUs' \in [Dtls!Flights -> 0..MaxCopies]
        /\ \A g \in Dtls!Flights : toUs'[g] > 0 => toUs[g] > 0 \/ g = peerSent
    BY <1>2, <2>1, SentIs
  <2>3. \A g \in Dtls!Flights : toUs'[g] > 0 => toUs[g] > 0 \/ (Theirs(g) /\ g <= peerSent)
    BY <1>2, <2>2 DEF Dtls!Flights
  <2>4. peerSent <= peerSent
    BY <1>2
  <2> QED
    BY <1>1, <1>2, <1>3, <1>4, <2>1, <2>2, <2>3, <2>4, OutsideKeeps
<1> QED
  BY <1>5, <1>6

\* A message is lost.
LEMMA LoseKeeps ==
  ASSUME DtlsInv, UNCHANGED IsServer, NEW f \in Dtls!Flights, Dtls!Lose(f)
  PROVE  DtlsInv'
<1>1. /\ UNCHANGED <<iceState_, dtlsRunning_, state_, ice, worker, expected, mHandshakeCompleted, srtp_, rtcp, refused,
                     outBio, rtpResender, niceQueue_, peerSent, peerDone>>
      /\ lost < MaxLoss /\ lost' = lost + 1
      /\ \/ toPeer[f] > 0 /\ toPeer' = [toPeer EXCEPT ![f] = @ - 1] /\ toUs' = toUs
         \/ toUs[f] > 0 /\ toUs' = [toUs EXCEPT ![f] = @ - 1] /\ toPeer' = toPeer
  BY DEF Dtls!Lose, Dtls!own, Dtls!socket, Dtls!peer
<1>2. /\ toUs \in [Dtls!Flights -> 0..MaxCopies] /\ toPeer \in [Dtls!Flights -> 0..MaxCopies]
      /\ peerSent \in 0..4 /\ lost \in 0..MaxLoss /\ peerDone \in BOOLEAN /\ MaxLoss \in Nat
      /\ peerSent = 0 \/ Theirs(peerSent)
      /\ ~IsServer /\ peerSent = 4 => peerDone
      /\ IsServer /\ peerDone => mHandshakeCompleted
      /\ ~IsServer /\ expected = 0 => peerSent = 0
  BY TransportAssumption DEF DtlsInv, Dtls!TypeOK, FromPeer, Completion, BeforeStart,
                             Dtls!HandshakeAssumption
<1>3. /\ toUs' \in [Dtls!Flights -> 0..MaxCopies] /\ toPeer' \in [Dtls!Flights -> 0..MaxCopies]
      /\ \A g \in Dtls!Flights : toPeer'[g] > 0 => toPeer[g] > 0
      /\ \A g \in Dtls!Flights : toUs'[g] > 0 => toUs[g] > 0
  BY <1>1, <1>2, OneLess
<1>4. lost' \in 0..MaxLoss /\ peerSent <= peerSent
  BY <1>1, <1>2
<1> QED
  BY <1>1, <1>2, <1>3, <1>4, OutsideKeeps

LEMMA DtlsKeeps ==
  ASSUME DtlsInv, Dtls!Next
  PROVE  DtlsInv'
<1>1. UNCHANGED IsServer
  BY DEF Dtls!Next
<1>2. CASE Dtls!IceThread \/ Dtls!IceFailed
  BY <1>1, <1>2, IceKeeps, StartKeeps DEF Dtls!IceThread
<1>3. CASE Dtls!WorkerThread
  BY <1>1, <1>3, PacketKeeps, IterationKeeps, AnswerKeeps, RtcpKeeps DEF Dtls!WorkerThread
<1>4. CASE Dtls!Timer
  BY <1>1, <1>4, TimerKeeps DEF Dtls!Timer
<1>5. CASE Dtls!PeerSends
  BY <1>1, <1>5, PeerSendKeeps
<1>6. CASE \E f \in Dtls!Flights : Dtls!queueData(f) \/ Dtls!PeerReceives(f) \/ Dtls!Lose(f)
  BY <1>1, <1>6, ArrivalKeeps, PeerReceiveKeeps, LoseKeeps
<1>7. CASE Dtls!RtcpCompleted
  BY <1>1, <1>7, RtcpKeeps
<1> QED
  BY <1>2, <1>3, <1>4, <1>5, <1>6, <1>7 DEF Dtls!Next

-------------------------------------------------------------------------------
(* RtpSender.                                                                *)

\* A set of numbers that is not empty has a least one.
LEMMA LeastOf ==
  ASSUME NEW S \in SUBSET Nat, S # {}
  PROVE  \E x \in S : \A y \in S : x <= y
<1>1. PICK x \in S : \A y \in S : ~ (<<y, x>> \in OpToRel(<, Nat))
  BY NatLessThanWellFounded, WFMin
<1>2. ASSUME NEW y \in S PROVE x <= y
  <2>1. y < x => <<y, x>> \in {ss \in Nat \X Nat : ss[1] < ss[2]}
    OBVIOUS
  <2>2. y < x => <<y, x>> \in OpToRel(<, Nat)
    BY <2>1, Zenon DEF OpToRel
  <2>3. ~ (y < x)
    BY <2>2, <1>1, Zenon
  <2> QED
    BY <2>3
<1> QED
  BY <1>2

\* A place below the root is one of the two children of its parent.
LEMMA Half ==
  /\ \A h \in Nat \ {0, 1} : h \div 2 \in Nat \ {0} /\ h \div 2 < h /\ (h = 2 * (h \div 2) \/ h = 2 * (h \div 2) + 1)
  /\ \A h \in Nat : (2 * h) \div 2 = h /\ (2 * h + 1) \div 2 = h
OBVIOUS

\* A climb of v from the place hole in q: from the child to the parent that v goes before.
IsClimb(q, hole, v, P, t) ==
  /\ P \in SUBSET (1..hole) /\ hole \in P /\ t \in P /\ \A h \in P : t <= h
  /\ \A h \in P \ {hole} : 2 * h \in P <=> 2 * h + 1 \notin P
  /\ \A h \in P \ {t} : h \div 2 \in P /\ Sender!compare(q[h \div 2], v)
  /\ t = 1 \/ ~Sender!compare(q[t \div 2], v)

LEMMA ClimbExists == ASSUME NEW q, NEW v PROVE \A hole \in Nat \ {0} : \E P, t : IsClimb(q, hole, v, P, t)
<1> DEFINE bad == {h \in Nat \ {0} : ~ \E P, t : IsClimb(q, h, v, P, t)}
<1>1. bad = {}
  <2> SUFFICES ASSUME bad # {} PROVE FALSE
    OBVIOUS
  <2>1. bad \in SUBSET Nat
    OBVIOUS
  <2>2. PICK m \in bad : \A y \in bad : m <= y
    BY <2>1, LeastOf
  <2>3. m \in Nat \ {0} /\ ~ \E P, t : IsClimb(q, m, v, P, t)
    OBVIOUS
  <2>4. ~(m = 1 \/ ~Sender!compare(q[m \div 2], v))
    <3> SUFFICES ASSUME m = 1 \/ ~Sender!compare(q[m \div 2], v) PROVE FALSE
      OBVIOUS
    <3>1. m \in 1..m /\ m <= m
      BY <2>3
    <3>2. IsClimb(q, m, v, {m}, m)
      BY <3>1 DEF IsClimb
    <3> QED
      BY <3>2, <2>3
  <2> DEFINE p == m \div 2
  <2>5. p \in Nat \ {0} /\ p < m /\ (m = 2 * p \/ m = 2 * p + 1)
    BY <2>3, <2>4, Half
  <2>6. p \notin bad
    BY <2>2, <2>3, <2>5
  <2>7. PICK P, t : IsClimb(q, p, v, P, t)
    BY <2>5, <2>6
  <2> HIDE DEF bad, p
  <2> DEFINE Q == P \cup {m}
  <2>8. P \in SUBSET (1..p) /\ p \in P /\ t \in P /\ \A h \in P : t <= h
    BY <2>7 DEF IsClimb
  <2>9. Q \in SUBSET (1..m) /\ m \in Q /\ t \in Q /\ \A h \in Q : t <= h
    <3>1. \A h \in P : h \in 1..m
      BY <2>3, <2>5, <2>8
    <3>2. m \in 1..m /\ t <= m
      BY <3>1, <2>3, <2>8
    <3> QED
      BY <3>1, <3>2, <2>8
  <2>10. ASSUME NEW h \in Q \ {m} PROVE 2 * h \in Q <=> 2 * h + 1 \notin Q
    <3>1. h \in P /\ h \in 1..p
      BY <2>8
    <3>2. CASE h = p
      <4>1. 2 * p \notin P /\ 2 * p + 1 \notin P
        <5>1. ~(2 * p <= p) /\ ~(2 * p + 1 <= p)
          BY <2>5
        <5> QED
          BY <5>1, <2>8
      <4>2. 2 * p # 2 * p + 1
        BY <2>5
      <4> QED
        BY <3>2, <4>1, <4>2, <2>5
    <3>3. CASE h # p
      <4>1. 2 * h \in P <=> 2 * h + 1 \notin P
        BY <3>1, <3>3, <2>7 DEF IsClimb
      <4>2. m # 2 * h /\ m # 2 * h + 1
        BY <3>1, <3>3, <2>5
      <4> QED
        BY <4>1, <4>2
    <3> QED
      BY <3>2, <3>3
  <2>11. ASSUME NEW h \in Q \ {t} PROVE h \div 2 \in Q /\ Sender!compare(q[h \div 2], v)
    <3>1. CASE h \in P
      BY <3>1, <2>7 DEF IsClimb
    <3>2. CASE h = m
      BY <3>2, <2>4, <2>8 DEF p
    <3> QED
      BY <3>1, <3>2
  <2>12. t = 1 \/ ~Sender!compare(q[t \div 2], v)
    BY <2>7 DEF IsClimb
  <2>13. IsClimb(q, m, v, Q, t)
    BY <2>9, <2>10, <2>11, <2>12 DEF IsClimb
  <2> QED
    BY <2>3, <2>13
<1> QED
  BY <1>1

\* A least number is Min, and a greatest one Max.
LEMMA MinIs ==
  ASSUME NEW S \in SUBSET Nat, NEW t \in S, \A y \in S : t <= y
  PROVE  Sender!Min(S) = t
<1>1. \A x \in S : (\A y \in S : x <= y) => x = t
  OBVIOUS
<1> QED
  BY <1>1 DEF Sender!Min

LEMMA MaxIs ==
  ASSUME NEW S \in SUBSET Nat, NEW t \in S, \A y \in S : t >= y
  PROVE  Sender!Max(S) = t
<1>1. \A x \in S : (\A y \in S : x >= y) => x = t
  OBVIOUS
<1> QED
  BY <1>1 DEF Sender!Max

LEMMA ClimbIs ==
  ASSUME NEW q, NEW v, NEW hole \in Nat \ {0}
  PROVE  LET P == Sender!Climb(q, hole, v) IN IsClimb(q, hole, v, P, Sender!Min(P))
<1> DEFINE G(P) == /\ hole \in P
                   /\ \A h \in P \ {hole} : 2 * h \in P <=> 2 * h + 1 \notin P
                   /\ \A h \in P \ {Sender!Min(P)} : h \div 2 \in P /\ Sender!compare(q[h \div 2], v)
                   /\ Sender!Min(P) = 1 \/ ~Sender!compare(q[Sender!Min(P) \div 2], v)
           C == Sender!Climb(q, hole, v)
<1>1. PICK P, t : IsClimb(q, hole, v, P, t)
  BY ClimbExists
<1>2. P \in SUBSET (1..hole) /\ P \in SUBSET Nat /\ t \in P /\ \A h \in P : t <= h
  BY <1>1 DEF IsClimb
<1>3. Sender!Min(P) = t
  BY <1>2, MinIs
<1>4. G(P)
  BY <1>1, <1>3 DEF IsClimb
<1>5. C = CHOOSE X \in SUBSET (1..hole) : G(X)
  BY DEF Sender!Climb
<1> HIDE DEF G, C
<1>6. C \in SUBSET (1..hole) /\ G(C)
  BY <1>2, <1>4, <1>5
<1>7. C \in SUBSET Nat /\ C # {}
  BY <1>6 DEF G
<1>8. PICK x \in C : \A y \in C : x <= y
  BY <1>7, LeastOf
<1>9. Sender!Min(C) = x
  BY <1>7, <1>8, MinIs
<1>10. Sender!Min(C) \in C /\ \A h \in C : Sender!Min(C) <= h
  BY <1>8, <1>9
<1> USE DEF G
<1> QED
  BY <1>6, <1>10 DEF IsClimb, C

\* r is the n values of q, with v in the place hole, in another order.
IsMoved(r, q, n, hole, v) ==
  \E f \in [1..n -> 1..n] :
    /\ \A i, j \in 1..n : f[i] = f[j] => i = j
    /\ \A j \in 1..n : \E i \in 1..n : f[i] = j
    /\ \A i \in 1..n : r[i] = IF f[i] = hole THEN v ELSE q[f[i]]

\* No value is lost or doubled on the way up.
LEMMA SiftUpIs ==
  ASSUME NEW S, NEW q \in Seq(S), NEW hole \in 1..Len(q), NEW v \in S
  PROVE  LET r == Sender!SiftUp(q, hole, v)
         IN  r \in Seq(S) /\ Len(r) = Len(q) /\ IsMoved(r, q, Len(q), hole, v)
<1> DEFINE n == Len(q)
           P == Sender!Climb(q, hole, v)
           t == Sender!Min(P)
           r == Sender!SiftUp(q, hole, v)
<1>1. n \in Nat /\ hole \in Nat \ {0} /\ q \in [1..n -> S]
  OBVIOUS
<1>2. IsClimb(q, hole, v, P, t)
  BY <1>1, ClimbIs
<1>3. r = [i \in 1..n |-> IF i \notin P THEN q[i] ELSE IF i = t THEN v ELSE q[i \div 2]]
  BY DEF Sender!SiftUp
<1> HIDE DEF n, P, t, r
<1>4. /\ P \in SUBSET (1..n) /\ hole \in P /\ t \in P /\ \A h \in P : t <= h /\ h \in Nat \ {0} /\ h <= hole
      /\ \A h \in P \ {hole} : 2 * h \in P <=> 2 * h + 1 \notin P
      /\ \A h \in P \ {t} : h \div 2 \in P
  BY <1>1, <1>2 DEF IsClimb, n
<1>5. ASSUME NEW h \in P, h # t
      PROVE  h \div 2 \in P /\ h \div 2 < h /\ (h = 2 * (h \div 2) \/ h = 2 * (h \div 2) + 1) /\ h \div 2 # hole
  <2>1. h # 1
    BY <1>4, <1>5
  <2> QED
    BY <2>1, <1>4, <1>5, Half
<1>6. ASSUME NEW h \in P, NEW k \in P, h # t, k # t, h \div 2 = k \div 2 PROVE h = k
  <2>1. PICK a \in P : a = h \div 2 /\ a # hole
    BY <1>5, <1>6
  <2>2. (h = 2 * a \/ h = 2 * a + 1) /\ (k = 2 * a \/ k = 2 * a + 1)
    BY <2>1, <1>5, <1>6
  <2>3. 2 * a \in P <=> 2 * a + 1 \notin P
    BY <2>1, <1>4
  <2> QED
    BY <2>2, <2>3
<1>7. ASSUME NEW h \in P, h # hole PROVE \E k \in P : k # t /\ k \div 2 = h
  <2>1. PICK k \in P : k = 2 * h \/ k = 2 * h + 1
    BY <1>4, <1>7
  <2>2. k \div 2 = h /\ k > h
    BY <2>1, <1>4, Half
  <2> QED
    BY <2>2, <1>4
<1> DEFINE f == [i \in 1..n |-> IF i \notin P THEN i ELSE IF i = t THEN hole ELSE i \div 2]
<1>8. f \in [1..n -> 1..n]
  BY <1>1, <1>4, <1>5
<1>9. ASSUME NEW i \in 1..n, NEW j \in 1..n, f[i] = f[j] PROVE i = j
  <2>1. CASE i \notin P /\ j \notin P
    BY <2>1, <1>9
  <2>2. CASE i \in P /\ j \notin P
    BY <2>2, <1>4, <1>5, <1>9
  <2>3. CASE i \notin P /\ j \in P
    BY <2>3, <1>4, <1>5, <1>9
  <2>4. CASE i \in P /\ j \in P
    BY <2>4, <1>5, <1>6, <1>9
  <2> QED
    BY <2>1, <2>2, <2>3, <2>4
<1>10. ASSUME NEW j \in 1..n PROVE \E i \in 1..n : f[i] = j
  <2>1. CASE j \notin P
    BY <2>1
  <2>2. CASE j = hole
    BY <2>2, <1>4
  <2>3. CASE j \in P /\ j # hole
    <3>1. PICK k \in P : k # t /\ k \div 2 = j
      BY <2>3, <1>7
    <3>2. k \in 1..n /\ f[k] = j
      BY <3>1, <1>4
    <3> QED
      BY <3>2
  <2> QED
    BY <2>1, <2>2, <2>3
<1>11. ASSUME NEW i \in 1..n PROVE r[i] = (IF f[i] = hole THEN v ELSE q[f[i]]) /\ r[i] \in S
  <2>1. r[i] = IF i \notin P THEN q[i] ELSE IF i = t THEN v ELSE q[i \div 2]
    BY <1>3
  <2>2. f[i] = IF i \notin P THEN i ELSE IF i = t THEN hole ELSE i \div 2
    OBVIOUS
  <2>3. f[i] = hole <=> i = t
    BY <2>2, <1>4, <1>5
  <2>4. r[i] = IF f[i] = hole THEN v ELSE q[f[i]]
    BY <2>1, <2>2, <2>3, <1>4
  <2>5. f[i] \in 1..n
    BY <1>8
  <2> HIDE DEF f
  <2> QED
    BY <2>4, <2>5, <1>1
<1>12. r \in Seq(S) /\ Len(r) = n
  BY <1>1, <1>3, <1>11
<1>13. IsMoved(r, q, n, hole, v)
  BY <1>8, <1>9, <1>10, <1>11 DEF IsMoved
<1> QED
  BY <1>12, <1>13 DEF r, n

\* The packets of S are of one priority.
OnePriority(S) == S \in SUBSET Sender!Packets /\ \A a, b \in S : a.priority = b.priority

\* Then their numbers decide.
LEMMA NumbersDecide ==
  ASSUME NEW S, OnePriority(S)
  PROVE  \A a, b \in S : a.seqn \in Nat /\ b.seqn \in Nat /\ (Sender!compare(a, b) <=> a.seqn > b.seqn)
<1>1. ASSUME NEW a \in S PROVE a.seqn \in Nat /\ a.priority \in Nat
  <2>1. a \in Sender!Packets
    BY DEF OnePriority
  <2>2. SeqNumbers \subseteq Nat /\ Priorities \subseteq Nat
    BY TransportAssumption DEF Sender!SenderAssumption
  <2> QED
    BY <2>1, <2>2 DEF Sender!Packets
<1>2. ASSUME NEW a \in S, NEW b \in S PROVE Sender!compare(a, b) <=> a.seqn > b.seqn
  <2>1. a.priority = b.priority
    BY DEF OnePriority
  <2> QED
    BY <2>1, <1>1 DEF Sender!compare
<1> QED
  BY <1>1, <1>2

\* No packet in a place but hole has a smaller number than its parent.
OrderedBut(q, hole) == \A k \in 2..Len(q) : k # hole => q[k \div 2].seqn <= q[k].seqn

\* Moving up from a leaf restores the order.
LEMMA SiftUpOrders ==
  ASSUME NEW S, OnePriority(S), NEW q \in Seq(S), NEW hole \in 1..Len(q), NEW v \in S, 2 * hole > Len(q),
         OrderedBut(q, hole)
  PROVE  OrderedBut(Sender!SiftUp(q, hole, v), 0)
<1> DEFINE n == Len(q)
           P == Sender!Climb(q, hole, v)
           t == Sender!Min(P)
           r == Sender!SiftUp(q, hole, v)
<1>1. n \in Nat /\ hole \in Nat \ {0} /\ hole <= n /\ 2 * hole > n /\ \A i \in 1..n : q[i] \in S
  OBVIOUS
<1>2. IsClimb(q, hole, v, P, t)
  BY <1>1, ClimbIs
<1>3. r = [i \in 1..n |-> IF i \notin P THEN q[i] ELSE IF i = t THEN v ELSE q[i \div 2]]
  BY DEF Sender!SiftUp
<1>4. Len(r) = n
  BY SiftUpIs
<1> HIDE DEF n, P, t, r
<1>5. /\ P \in SUBSET (1..n) /\ hole \in P /\ t \in P /\ \A h \in P : t <= h /\ h \in Nat \ {0} /\ h <= hole
      /\ \A h \in P \ {hole} : 2 * h \in P <=> 2 * h + 1 \notin P
      /\ \A h \in P \ {t} : h \div 2 \in P /\ q[h \div 2].seqn > v.seqn
      /\ t = 1 \/ ~(q[t \div 2].seqn > v.seqn)
  <2>1. \A h \in 2..n : h \div 2 \in 1..n /\ q[h \div 2] \in S
    BY <1>1, Half
  <2>2. \A h \in 2..n : Sender!compare(q[h \div 2], v) <=> q[h \div 2].seqn > v.seqn
    BY <2>1, NumbersDecide
  <2>3. /\ P \in SUBSET (1..hole) /\ hole \in P /\ t \in P /\ \A h \in P : t <= h
        /\ \A h \in P \ {hole} : 2 * h \in P <=> 2 * h + 1 \notin P
        /\ \A h \in P \ {t} : h \div 2 \in P /\ Sender!compare(q[h \div 2], v)
        /\ t = 1 \/ ~Sender!compare(q[t \div 2], v)
    BY <1>2 DEF IsClimb
  <2>4. \A h \in P : h \in 1..n /\ h <= hole
    BY <2>3, <1>1
  <2>5. \A h \in P \ {t} : h \in 2..n
    BY <2>3, <2>4
  <2> QED
    BY <2>2, <2>3, <2>4, <2>5
<1>6. \A i \in 1..n : q[i].seqn \in Nat
  BY <1>1, NumbersDecide
<1>7. \A k \in 2..n : k # hole => q[k \div 2].seqn <= q[k].seqn
  BY DEF OrderedBut, n
<1>8. v.seqn \in Nat
  BY NumbersDecide
<1> SUFFICES ASSUME NEW k \in 2..n PROVE r[k \div 2].seqn <= r[k].seqn
  BY <1>4 DEF OrderedBut, r
<1>9. PICK p \in 1..n : p = k \div 2 /\ p < k /\ (k = 2 * p \/ k = 2 * p + 1)
  BY <1>1, Half
<1> SUFFICES r[p].seqn <= r[k].seqn
  BY <1>9
<1>10. p # hole
  BY <1>1, <1>9
<1>11. /\ r[k] = IF k \notin P THEN q[k] ELSE IF k = t THEN v ELSE q[p]
       /\ r[p] = IF p \notin P THEN q[p] ELSE IF p = t THEN v ELSE q[p \div 2]
  BY <1>3, <1>9
<1>12. CASE p \notin P /\ k \notin P
  BY <1>5, <1>7, <1>9, <1>11, <1>12
<1>13. CASE p \in P /\ k \notin P
  <2>1. k # hole
    BY <1>5, <1>13
  <2>2. q[p].seqn <= q[k].seqn
    BY <2>1, <1>7, <1>9
  <2>3. CASE p = t
    <3>1. PICK s \in P : s = 2 * p \/ s = 2 * p + 1
      BY <1>5, <1>10, <1>13
    <3>2. s \div 2 = p /\ s # t
      BY <3>1, <2>3, <1>9, Half
    <3>3. q[p].seqn > v.seqn
      BY <3>1, <3>2, <1>5
    <3> QED
      BY <3>3, <2>2, <2>3, <1>6, <1>8, <1>11, <1>13
  <2>4. CASE p # t
    <3>1. p \in 2..n /\ p \div 2 \in 1..n
      <4>1. p # 1
        BY <2>4, <1>5, <1>13
      <4>2. p \in Nat \ {0, 1} /\ p <= n
        BY <4>1, <1>1, <1>9
      <4> QED
        BY <4>2, <1>1, Half
    <3>2. q[p \div 2].seqn <= q[p].seqn
      BY <3>1, <1>7, <1>10
    <3> QED
      BY <3>1, <3>2, <2>2, <2>4, <1>6, <1>11, <1>13
  <2> QED
    BY <2>3, <2>4
<1>14. CASE p \in P /\ k \in P
  <2>1. k # t /\ r[k] = q[p] /\ q[p].seqn > v.seqn
    <3>1. k # t
      BY <1>5, <1>9, <1>14
    <3> QED
      BY <3>1, <1>5, <1>9, <1>11, <1>14
  <2>2. CASE p = t
    BY <2>1, <2>2, <1>6, <1>8, <1>11, <1>14
  <2>3. CASE p # t
    <3>1. p \in 2..n
      <4>1. p # 1
        BY <2>3, <1>5, <1>14
      <4> QED
        BY <4>1, <1>9
    <3>2. q[p \div 2].seqn <= q[p].seqn
      BY <3>1, <1>7, <1>10
    <3> QED
      BY <3>2, <2>1, <2>3, <1>11, <1>14
  <2> QED
    BY <2>2, <2>3
<1>15. CASE p \notin P /\ k \in P
  <2>1. k = t /\ k # 1
    BY <1>5, <1>9, <1>15
  <2>2. ~(q[p].seqn > v.seqn)
    BY <2>1, <1>5, <1>9
  <2> QED
    BY <2>1, <2>2, <1>6, <1>8, <1>11, <1>15
<1> QED
  BY <1>12, <1>13, <1>14, <1>15

\* The child that goes first is one of the two, and in the heap if they are.
LEMMA ChildIs ==
  ASSUME NEW q, NEW n \in Nat, NEW h \in Nat \ {0}
  PROVE  LET c == Sender!Child(q, n, h)
         IN  /\ c \in Nat \ {0} /\ c > h /\ c \div 2 = h /\ (c = 2 * h \/ c = 2 * h + 1)
             /\ 2 * h <= n => c <= n
<1> DEFINE c == Sender!Child(q, n, h)
<1>1. (c = 2 * h \/ c = 2 * h + 1) /\ (c = 2 * h + 1 => c <= n)
  <2>1. 2 * h # 2 * h + 1
    OBVIOUS
  <2> QED
    BY <2>1 DEF Sender!Child
<1> HIDE DEF c
<1>2. (2 * h) \div 2 = h /\ (2 * h + 1) \div 2 = h
  BY Half
<1>3. c \div 2 = h
  BY <1>1, <1>2
<1> QED
  BY <1>1, <1>3 DEF c

\* A descent in the first n elements of q as far as m, that has come to t.
IsDescent(q, n, m, P, t) ==
  /\ P \in SUBSET (1..m) /\ 1 \in P /\ t \in P /\ \A h \in P : t >= h
  /\ \A h \in P \ {t} : Sender!Child(q, n, h) \in P
  /\ \A h \in P \ {1} : h \div 2 \in P /\ h = Sender!Child(q, n, h \div 2)
  /\ 2 * t > n \/ Sender!Child(q, n, t) > m

LEMMA DescentExists ==
  ASSUME NEW q, NEW n \in Nat
  PROVE  \A m \in Nat \ {0} : \E P, t : IsDescent(q, n, m, P, t)
<1> DEFINE bad == {m \in Nat \ {0} : ~ \E P, t : IsDescent(q, n, m, P, t)}
<1>1. bad = {}
  <2> SUFFICES ASSUME bad # {} PROVE FALSE
    OBVIOUS
  <2>1. bad \in SUBSET Nat
    OBVIOUS
  <2>2. PICK m \in bad : \A y \in bad : m <= y
    BY <2>1, LeastOf
  <2>3. m \in Nat \ {0} /\ ~ \E P, t : IsDescent(q, n, m, P, t)
    OBVIOUS
  <2>4. m # 1
    <3> SUFFICES ASSUME m = 1 PROVE FALSE
      OBVIOUS
    <3>1. Sender!Child(q, n, 1) > 1
      BY ChildIs
    <3>2. IsDescent(q, n, 1, {1}, 1)
      BY <3>1 DEF IsDescent
    <3> QED
      BY <3>2, <2>3
  <2>5. m - 1 \in Nat \ {0} /\ m - 1 \notin bad
    BY <2>2, <2>3, <2>4
  <2>6. PICK P, t : IsDescent(q, n, m - 1, P, t)
    BY <2>5
  <2> HIDE DEF bad
  <2>7. /\ P \in SUBSET (1..(m - 1)) /\ 1 \in P /\ t \in P /\ \A h \in P : t >= h
        /\ \A h \in P \ {t} : Sender!Child(q, n, h) \in P
        /\ \A h \in P \ {1} : h \div 2 \in P /\ h = Sender!Child(q, n, h \div 2)
        /\ 2 * t > n \/ Sender!Child(q, n, t) > m - 1
    BY <2>6 DEF IsDescent
  <2>8. t \in Nat \ {0} /\ t < m /\ \A h \in P : h \in 1..m
    BY <2>3, <2>7
  <2>9. Sender!Child(q, n, t) \in Nat /\ Sender!Child(q, n, t) \div 2 = t
    BY <2>8, ChildIs
  <2>10. CASE 2 * t > n \/ Sender!Child(q, n, t) # m
    <3>1. 2 * t > n \/ Sender!Child(q, n, t) > m
      BY <2>3, <2>7, <2>9, <2>10
    <3>2. IsDescent(q, n, m, P, t)
      BY <3>1, <2>7, <2>8 DEF IsDescent
    <3> QED
      BY <3>2, <2>3
  <2>11. CASE Sender!Child(q, n, t) = m
    <3> DEFINE Q == P \cup {m}
    <3>1. Q \in SUBSET (1..m) /\ 1 \in Q /\ m \in Q /\ \A h \in Q : m >= h
      BY <2>3, <2>7, <2>8
    <3>2. \A h \in Q \ {m} : Sender!Child(q, n, h) \in Q
      BY <2>7, <2>11
    <3>3. \A h \in Q \ {1} : h \div 2 \in Q /\ h = Sender!Child(q, n, h \div 2)
      BY <2>7, <2>9, <2>11
    <3>4. Sender!Child(q, n, m) > m
      BY <2>3, ChildIs
    <3>5. IsDescent(q, n, m, Q, m)
      BY <3>1, <3>2, <3>3, <3>4 DEF IsDescent
    <3> QED
      BY <3>5, <2>3
  <2> QED
    BY <2>10, <2>11
<1> QED
  BY <1>1

LEMMA DescentIs ==
  ASSUME NEW q, NEW n \in Nat \ {0}
  PROVE  LET P == Sender!Descent(q, n) IN IsDescent(q, n, n, P, Sender!Max(P)) /\ 2 * Sender!Max(P) > n
<1> DEFINE G(P) == /\ 1 \in P
                   /\ \A h \in P \ {Sender!Max(P)} : Sender!Child(q, n, h) \in P
                   /\ \A h \in P \ {1} : h \div 2 \in P /\ h = Sender!Child(q, n, h \div 2)
                   /\ 2 * Sender!Max(P) > n
           D == Sender!Descent(q, n)
<1>1. PICK P, t : IsDescent(q, n, n, P, t)
  BY DescentExists
<1>2. P \in SUBSET (1..n) /\ P \in SUBSET Nat /\ t \in P /\ (\A h \in P : t >= h) /\ t \in Nat \ {0}
  BY <1>1 DEF IsDescent
<1>3. Sender!Max(P) = t
  BY <1>2, MaxIs
<1>4. 2 * t > n
  <2>1. Sender!Child(q, n, t) \in Nat /\ (2 * t <= n => Sender!Child(q, n, t) <= n)
    BY <1>2, ChildIs
  <2>2. 2 * t > n \/ Sender!Child(q, n, t) > n
    BY <1>1 DEF IsDescent
  <2> QED
    BY <2>1, <2>2, <1>2
<1>5. G(P)
  BY <1>1, <1>3, <1>4 DEF IsDescent
<1>6. D = CHOOSE X \in SUBSET (1..n) : G(X)
  BY DEF Sender!Descent
<1> HIDE DEF G, D
<1>7. D \in SUBSET (1..n) /\ G(D)
  BY <1>2, <1>5, <1>6
<1>8. 1 \in D /\ D \in SUBSET Nat
  BY <1>7 DEF G
<1> DEFINE L == {l \in 0..n : n - l \in D}
<1>9. L \in SUBSET Nat /\ n - 1 \in L
  BY <1>7, <1>8
<1>10. PICK l \in L : \A y \in L : l <= y
  BY <1>9, LeastOf
<1>11. n - l \in D /\ \A y \in D : n - l >= y
  <2>1. ASSUME NEW y \in D PROVE n - l >= y
    <3>1. y \in 1..n /\ n - y \in 0..n /\ n - (n - y) = y
      BY <1>7
    <3>2. n - y \in L
      BY <3>1
    <3>3. l <= n - y /\ l \in 0..n
      BY <3>2, <1>10
    <3> QED
      BY <3>1, <3>3
  <2> QED
    BY <2>1
<1>12. Sender!Max(D) = n - l
  BY <1>8, <1>11, MaxIs
<1>13. Sender!Max(D) \in D /\ \A h \in D : Sender!Max(D) >= h
  BY <1>11, <1>12
<1> USE DEF G
<1> QED
  BY <1>7, <1>13 DEF IsDescent, D

\* What is left of the n + 1 values of q when the root is taken: no other value is lost or doubled.
IsRest(r, q, n) ==
  \E f \in [1..n -> 2..(n + 1)] :
    /\ \A i, j \in 1..n : f[i] = f[j] => i = j
    /\ \A j \in 2..(n + 1) : \E i \in 1..n : f[i] = j
    /\ \A i \in 1..n : r[i] = q[f[i]]

\* The values below the hole moved up, the path it took.
Moved(q, n, P, t) == [i \in 1..n |-> IF i \in P \ {t} THEN q[Sender!Child(q, n, i)] ELSE q[i]]

IsPop(S, q, n, P, t) ==
  /\ IsDescent(q, n, n, P, t) /\ 2 * t > n /\ t \in 1..n
  /\ Moved(q, n, P, t) \in Seq(S) /\ Len(Moved(q, n, P, t)) = n
  /\ Sender!Pop(q) = Sender!SiftUp(Moved(q, n, P, t), t, q[n + 1])

LEMMA PopForm ==
  ASSUME NEW S, NEW q \in Seq(S), NEW n \in Nat \ {0}, Len(q) = n + 1
  PROVE  \E P, t : IsPop(S, q, n, P, t)
<1> DEFINE P == Sender!Descent(q, n)
           t == Sender!Max(P)
           M == Moved(q, n, P, t)
<1>1. IsDescent(q, n, n, P, t) /\ 2 * t > n
  BY DescentIs
<1>2. Len(q) - 1 = n /\ n # 0
  OBVIOUS
<1>3. Sender!Pop(q) = Sender!SiftUp(M, t, q[n + 1])
  BY <1>2 DEF Sender!Pop, Moved
<1> HIDE DEF P, t
<1>4. P \in SUBSET (1..n) /\ t \in 1..n /\ \A h \in P \ {t} : Sender!Child(q, n, h) \in P
  BY <1>1 DEF IsDescent
<1>5. \A i \in 1..n : q[i] \in S
  OBVIOUS
<1>6. \A i \in 1..n : M[i] \in S
  BY <1>4, <1>5 DEF Moved
<1>7. M \in Seq(S) /\ Len(M) = n
  BY <1>6 DEF Moved
<1> QED
  BY <1>1, <1>3, <1>4, <1>7 DEF IsPop

LEMMA PopIs ==
  ASSUME NEW S, NEW q \in Seq(S), q # <<>>
  PROVE  /\ Sender!Pop(q) \in Seq(S)
         /\ \E n \in Nat : Len(q) = n + 1 /\ Len(Sender!Pop(q)) = n /\ IsRest(Sender!Pop(q), q, n)
<1> DEFINE r == Sender!Pop(q)
<1>0. PICK n \in Nat : Len(q) = n + 1
  <2>1. Len(q) \in Nat /\ Len(q) # 0
    OBVIOUS
  <2>2. Len(q) - 1 \in Nat /\ Len(q) = (Len(q) - 1) + 1
    BY <2>1
  <2> QED
    BY <2>2
<1>1. CASE n = 0
  <2>1. r = <<>>
    BY <1>0, <1>1 DEF Sender!Pop
  <2> DEFINE f == [i \in 1..0 |-> 2]
  <2>2. f \in [1..0 -> 2..(0 + 1)] /\ Len(<<>>) = 0 /\ \A j \in 2..(0 + 1) : FALSE
    OBVIOUS
  <2>3. \A i \in 1..0 : FALSE
    OBVIOUS
  <2> HIDE DEF f
  <2>4. IsRest(<<>>, q, 0)
    BY <2>2, <2>3 DEF IsRest
  <2> QED
    BY <2>1, <2>2, <2>4, <1>0, <1>1
<1>2. CASE n # 0
  <2>0. n \in Nat \ {0}
    BY <1>2
  <2>00. PICK P, t : IsPop(S, q, n, P, t)
    BY <2>0, <1>0, PopForm
  <2> DEFINE M == Moved(q, n, P, t)
  <2>1. /\ IsDescent(q, n, n, P, t) /\ 2 * t > n /\ t \in 1..n
        /\ M \in Seq(S) /\ Len(M) = n /\ Sender!Pop(q) = Sender!SiftUp(M, t, q[n + 1])
    BY <2>00 DEF IsPop
  <2> DEFINE v == q[n + 1]
  <2>2. v \in S
    BY <1>0
  <2> HIDE DEF v, M
  <2>3. r \in Seq(S) /\ Len(r) = n /\ IsMoved(r, M, n, t, v)
    <3>1. M \in Seq(S) /\ t \in 1..Len(M)
      BY <2>1
    <3>2. LET x == Sender!SiftUp(M, t, v) IN x \in Seq(S) /\ Len(x) = Len(M) /\ IsMoved(x, M, Len(M), t, v)
      BY <3>1, <2>2, SiftUpIs
    <3>3. r = Sender!SiftUp(M, t, v)
      BY <2>1 DEF v
    <3> QED
      BY <3>2, <3>3, <2>1
  <2> HIDE DEF r
  <2>4. PICK f \in [1..n -> 1..n] :
          /\ \A i, j \in 1..n : f[i] = f[j] => i = j
          /\ \A j \in 1..n : \E i \in 1..n : f[i] = j
          /\ \A i \in 1..n : r[i] = IF f[i] = t THEN v ELSE M[f[i]]
    BY <2>3 DEF IsMoved
  <2>5. /\ P \in SUBSET (1..n) /\ 1 \in P /\ t \in P /\ \A h \in P : t >= h
        /\ \A h \in P \ {t} : Sender!Child(q, n, h) \in P
        /\ \A h \in P \ {1} : h \div 2 \in P /\ h = Sender!Child(q, n, h \div 2)
    BY <2>1 DEF IsDescent
  <2>6. \A h \in 1..n : LET c == Sender!Child(q, n, h) IN c \in Nat \ {0} /\ c > h /\ c \div 2 = h
    BY ChildIs
  <2> DEFINE g == [j \in 1..n |-> IF j = t THEN n + 1 ELSE IF j \in P THEN Sender!Child(q, n, j) ELSE j]
  <2>7. ASSUME NEW j \in 1..n
        PROVE  /\ g[j] \in 2..(n + 1) /\ (j # t => g[j] \in 2..n)
               /\ q[g[j]] = IF j = t THEN v ELSE M[j]
    <3>1. CASE j = t
      <4>1. g[j] = n + 1
        BY <3>1
      <4>2. n + 1 \in 2..(n + 1)
        BY <1>2
      <4> HIDE DEF g
      <4> QED
        BY <3>1, <4>1, <4>2 DEF v
    <3>2. CASE j # t /\ j \in P
      <4>1. g[j] = Sender!Child(q, n, j) /\ M[j] = q[Sender!Child(q, n, j)]
        BY <3>2 DEF M, Moved
      <4>2. Sender!Child(q, n, j) \in 2..n
        <5>1. Sender!Child(q, n, j) \in 1..n
          BY <3>2, <2>5
        <5>2. Sender!Child(q, n, j) > j
          BY <2>6
        <5> QED
          BY <5>1, <5>2
      <4> HIDE DEF g
      <4>3. g[j] \in 2..n /\ g[j] \in 2..(n + 1) /\ q[g[j]] = M[j]
        BY <4>1, <4>2
      <4> QED
        BY <3>2, <4>3
    <3>3. CASE j # t /\ j \notin P
      <4>1. g[j] = j /\ M[j] = q[j]
        BY <3>3 DEF M, Moved
      <4>2. j \in 2..n
        BY <3>3, <2>5
      <4> HIDE DEF g
      <4>3. g[j] \in 2..n /\ g[j] \in 2..(n + 1) /\ q[g[j]] = M[j]
        BY <4>1, <4>2
      <4> QED
        BY <3>3, <4>3
    <3> QED
      BY <3>1, <3>2, <3>3
  <2>8. ASSUME NEW i \in 1..n, NEW j \in 1..n, g[i] = g[j] PROVE i = j
    <3>1. CASE i = t \/ j = t
      <4>1. g[t] = n + 1 /\ n + 1 \notin 2..n
        BY <2>1
      <4> HIDE DEF g
      <4> QED
        BY <3>1, <4>1, <2>7, <2>8
    <3>2. CASE i # t /\ j # t
      <4>1. /\ i \in P => g[i] = Sender!Child(q, n, i) /\ g[i] \in P
            /\ j \in P => g[j] = Sender!Child(q, n, j) /\ g[j] \in P
            /\ i \notin P => g[i] = i
            /\ j \notin P => g[j] = j
        BY <3>2, <2>5
      <4> HIDE DEF g
      <4>2. CASE i \in P /\ j \in P
        <5>1. Sender!Child(q, n, i) \div 2 = i /\ Sender!Child(q, n, j) \div 2 = j
          BY <2>6
        <5>2. Sender!Child(q, n, i) = Sender!Child(q, n, j)
          BY <4>1, <4>2, <2>8
        <5> QED
          BY <5>1, <5>2, Zenon
      <4>3. CASE ~(i \in P /\ j \in P)
        BY <4>1, <4>3, <2>8
      <4> QED
        BY <4>2, <4>3
    <3> QED
      BY <3>1, <3>2
  <2>9. ASSUME NEW k \in 2..(n + 1) PROVE \E j \in 1..n : g[j] = k
    <3>1. CASE k = n + 1
      BY <3>1, <2>1
    <3>2. CASE k # n + 1 /\ k \notin P
      <4>1. k \in 1..n /\ k # t
        BY <3>2, <2>5
      <4>2. g[k] = k
        BY <4>1, <3>2
      <4> QED
        BY <4>1, <4>2
    <3>3. CASE k \in P
      <4>1. k # 1
        OBVIOUS
      <4>2. k \div 2 \in P /\ k = Sender!Child(q, n, k \div 2)
        BY <3>3, <4>1, <2>5
      <4>3. PICK p \in P : p = k \div 2 /\ p \in 1..n /\ k = Sender!Child(q, n, p)
        BY <4>2, <2>5
      <4>4. p # t
        BY <4>3, <3>3, <2>5, <2>6
      <4>5. g[p] = k
        BY <4>3, <4>4
      <4> QED
        BY <4>3, <4>5
    <3> QED
      BY <3>1, <3>2, <3>3
  <2> HIDE DEF g
  <2> DEFINE e == [i \in 1..n |-> g[f[i]]]
  <2>10. e \in [1..n -> 2..(n + 1)]
    BY <2>4, <2>7
  <2>11. \A i, j \in 1..n : e[i] = e[j] => i = j
    BY <2>4, <2>8
  <2>12. \A k \in 2..(n + 1) : \E i \in 1..n : e[i] = k
    <3> SUFFICES ASSUME NEW k \in 2..(n + 1) PROVE \E i \in 1..n : e[i] = k
      OBVIOUS
    <3>1. PICK j \in 1..n : g[j] = k
      BY <2>9
    <3>2. PICK i \in 1..n : f[i] = j
      BY <2>4
    <3> QED
      BY <3>1, <3>2
  <2>13. \A i \in 1..n : r[i] = q[e[i]]
    BY <2>4, <2>7
  <2> HIDE DEF e
  <2>14. IsRest(r, q, n)
    BY <2>10, <2>11, <2>12, <2>13 DEF IsRest
  <2> QED
    BY <2>3, <2>14, <1>0 DEF r
<1> QED
  BY <1>1, <1>2

LEMMA PopOrders ==
  ASSUME NEW S, OnePriority(S), NEW q \in Seq(S), q # <<>>, OrderedBut(q, 0)
  PROVE  OrderedBut(Sender!Pop(q), 0)
<1>0. PICK n \in Nat : Len(q) = n + 1
  <2>1. Len(q) \in Nat /\ Len(q) # 0
    OBVIOUS
  <2>2. Len(q) - 1 \in Nat /\ Len(q) = (Len(q) - 1) + 1
    BY <2>1
  <2> QED
    BY <2>2
<1>1. CASE n = 0
  <2>1. Sender!Pop(q) = <<>>
    BY <1>0, <1>1 DEF Sender!Pop
  <2>2. \A k \in 2..Len(<<>>) : FALSE
    OBVIOUS
  <2> QED
    BY <2>1, <2>2 DEF OrderedBut
<1>2. CASE n # 0
  <2>0. n \in Nat \ {0}
    BY <1>2
  <2>00. PICK P, t : IsPop(S, q, n, P, t)
    BY <2>0, <1>0, PopForm
  <2> DEFINE M == Moved(q, n, P, t)
  <2>1. /\ IsDescent(q, n, n, P, t) /\ 2 * t > n /\ t \in 1..n
        /\ M \in Seq(S) /\ Len(M) = n /\ Sender!Pop(q) = Sender!SiftUp(M, t, q[n + 1])
    BY <2>00 DEF IsPop
  <2>2. /\ P \in SUBSET (1..n) /\ 1 \in P /\ t \in P /\ \A h \in P : t >= h
        /\ \A h \in P \ {t} : Sender!Child(q, n, h) \in P
        /\ \A h \in P \ {1} : h \div 2 \in P /\ h = Sender!Child(q, n, h \div 2)
    BY <2>1 DEF IsDescent
  <2>3. \A i \in 1..n : M[i] = IF i \in P \ {t} THEN q[Sender!Child(q, n, i)] ELSE q[i]
    BY DEF Moved
  <2>4. \A k \in 2..n : q[k \div 2].seqn <= q[k].seqn
    <3>1. \A k \in 2..n : k \in 2..Len(q) /\ k # 0
      BY <1>0
    <3> QED
      BY <3>1 DEF OrderedBut
  <2>5. \A i \in 1..(n + 1) : q[i] \in S /\ q[i].seqn \in Nat
    BY <1>0, NumbersDecide
  <2>6. ASSUME NEW k \in 2..n, k # t PROVE M[k \div 2].seqn <= M[k].seqn
    <3>1. PICK p \in 1..n : p = k \div 2 /\ p < k /\ (k = 2 * p \/ k = 2 * p + 1)
      BY Half
    <3> DEFINE c == Sender!Child(q, n, p)
    <3>2. p # t
      BY <3>1, <2>1
    <3>3. CASE p \notin P
      <4>1. k \notin P
        BY <3>1, <3>3, <2>2
      <4>2. M[p] = q[p] /\ M[k] = q[k] /\ q[p].seqn <= q[k].seqn
        BY <4>1, <3>1, <3>3, <2>3, <2>4
      <4> QED
        BY <4>2, <3>1
    <3>4. CASE p \in P
      <4>1. M[p] = q[c]
        BY <3>2, <3>4, <2>3
      <4>2. CASE k = c
        <5> DEFINE d == Sender!Child(q, n, k)
        <5>1. k \in P
          BY <4>2, <3>2, <3>4, <2>2
        <5>2. d \in P /\ M[k] = q[d] /\ d \in 1..n
          BY <5>1, <2>2, <2>3, <2>6
        <5>3. d > k /\ d \div 2 = k
          BY ChildIs
        <5> HIDE DEF d
        <5>4. d \in 2..n
          BY <5>2, <5>3
        <5>5. q[k].seqn <= q[d].seqn
          BY <5>3, <5>4, <2>4
        <5> QED
          BY <5>2, <5>5, <4>1, <4>2, <3>1
      <4>3. CASE k # c
        <5>1. k \notin P
          BY <4>3, <3>1, <2>2
        <5>2. M[k] = q[k]
          BY <5>1, <2>3
        <5>3. q[c].seqn <= q[k].seqn
          <6>1. CASE k = 2 * p
            <7>1. c = 2 * p + 1 /\ ~(2 * p + 1 > n) /\ ~Sender!compare(q[2 * p + 1], q[2 * p])
              BY <4>3, <6>1 DEF Sender!Child
            <7>2. 2 * p \in 1..(n + 1) /\ 2 * p + 1 \in 1..(n + 1)
              BY <7>1, <3>1
            <7>3. ~(q[2 * p + 1].seqn > q[2 * p].seqn)
              BY <7>1, <7>2, <2>5, NumbersDecide
            <7> HIDE DEF c
            <7> QED
              BY <7>1, <7>2, <7>3, <6>1, <2>5
          <6>2. CASE k = 2 * p + 1
            <7>1. c = 2 * p /\ (2 * p + 1 > n \/ Sender!compare(q[2 * p + 1], q[2 * p]))
              BY <4>3, <6>2 DEF Sender!Child
            <7>2. 2 * p \in 1..(n + 1) /\ 2 * p + 1 \in 1..(n + 1) /\ ~(2 * p + 1 > n)
              BY <6>2, <3>1
            <7>3. q[2 * p + 1].seqn > q[2 * p].seqn
              BY <7>1, <7>2, <2>5, NumbersDecide
            <7> HIDE DEF c
            <7> QED
              BY <7>1, <7>2, <7>3, <6>2, <2>5
          <6> QED
            BY <6>1, <6>2, <3>1
        <5> QED
          BY <5>2, <5>3, <4>1, <3>1
      <4> QED
        BY <4>2, <4>3
    <3> QED
      BY <3>3, <3>4
  <2> HIDE DEF M
  <2>7. OrderedBut(M, t)
    BY <2>1, <2>6 DEF OrderedBut, M
  <2>8. q[n + 1] \in S
    BY <2>5
  <2>9. OrderedBut(Sender!SiftUp(M, t, q[n + 1]), 0)
    BY <2>1, <2>7, <2>8, SiftUpOrders DEF M
  <2> QED
    BY <2>1, <2>9 DEF M
<1> QED
  BY <1>1, <1>2

\* The ids of the packets in q, and that they are all different.
Ids(q) == {q[k].id : k \in 1..Len(q)}
Distinct(q) == \A i, j \in 1..Len(q) : q[i].id = q[j].id => i = j

LEMMA PushIs ==
  ASSUME NEW S, NEW q \in Seq(S), NEW v \in S, Distinct(q), v.id \notin Ids(q)
  PROVE  LET r == Sender!Push(q, v)
         IN  /\ r \in Seq(S) /\ Len(r) = Len(q) + 1 /\ Distinct(r) /\ Ids(r) = Ids(q) \cup {v.id}
             /\ \A i \in 1..Len(r) : r[i] = v \/ \E j \in 1..Len(q) : r[i] = q[j]
<1> DEFINE r == Sender!Push(q, v)
           a == Append(q, v)
           n == Len(q) + 1
<1>1. /\ a \in Seq(S) /\ Len(a) = n /\ n \in Nat /\ n \in 1..Len(a) /\ a[n] = v
      /\ \A i \in 1..n : i # n => i \in 1..Len(q) /\ a[i] = q[i]
  OBVIOUS
<1>2. r = Sender!SiftUp(a, n, v)
  BY DEF Sender!Push
<1> HIDE DEF r, a, n
<1>3. r \in Seq(S) /\ Len(r) = n /\ IsMoved(r, a, n, n, v)
  <2>1. LET x == Sender!SiftUp(a, n, v) IN x \in Seq(S) /\ Len(x) = Len(a) /\ IsMoved(x, a, Len(a), n, v)
    BY <1>1, SiftUpIs
  <2> QED
    BY <2>1, <1>1, <1>2
<1>4. PICK f \in [1..n -> 1..n] :
        /\ \A i, j \in 1..n : f[i] = f[j] => i = j
        /\ \A j \in 1..n : \E i \in 1..n : f[i] = j
        /\ \A i \in 1..n : r[i] = IF f[i] = n THEN v ELSE a[f[i]]
  BY <1>3 DEF IsMoved
<1>5. \A i \in 1..n : r[i] = a[f[i]] /\ f[i] \in 1..n
  BY <1>1, <1>4
<1>6. \A i, j \in 1..n : a[i].id = a[j].id => i = j
  <2> SUFFICES ASSUME NEW i \in 1..n, NEW j \in 1..n, a[i].id = a[j].id PROVE i = j
    OBVIOUS
  <2>1. CASE i # n /\ j # n
    BY <2>1, <1>1 DEF Distinct
  <2>2. CASE i = n /\ j # n
    BY <2>2, <1>1 DEF Ids
  <2>3. CASE i # n /\ j = n
    BY <2>3, <1>1 DEF Ids
  <2> QED
    BY <2>1, <2>2, <2>3
<1>7. Distinct(r)
  <2> SUFFICES ASSUME NEW i \in 1..n, NEW j \in 1..n, r[i].id = r[j].id PROVE i = j
    BY <1>3 DEF Distinct
  <2>1. a[f[i]].id = a[f[j]].id
    BY <1>5
  <2>2. f[i] = f[j]
    BY <2>1, <1>5, <1>6
  <2> QED
    BY <2>2, <1>4
<1>8. \A i \in 1..n : r[i] = v \/ \E j \in 1..Len(q) : r[i] = q[j]
  BY <1>1, <1>5
<1>9. Ids(r) = Ids(q) \cup {v.id}
  <2>1. ASSUME NEW x \in Ids(r) PROVE x \in Ids(q) \cup {v.id}
    BY <1>3, <1>8 DEF Ids
  <2>2. ASSUME NEW j \in 1..n PROVE a[j].id \in Ids(r)
    <3>1. PICK i \in 1..n : f[i] = j
      BY <1>4
    <3> QED
      BY <3>1, <1>3, <1>5 DEF Ids
  <2>3. ASSUME NEW j \in 1..Len(q) PROVE q[j].id \in Ids(r)
    <3>1. j \in 1..n /\ j # n
      BY DEF n
    <3> QED
      BY <3>1, <2>2, <1>1
  <2>4. v.id \in Ids(r)
    <3>1. n \in 1..n
      BY <1>1
    <3> QED
      BY <3>1, <2>2, <1>1
  <2> QED
    BY <2>1, <2>3, <2>4 DEF Ids
<1> QED
  BY <1>3, <1>7, <1>8, <1>9 DEF r, n

LEMMA PopKeeps ==
  ASSUME NEW S, NEW q \in Seq(S), q # <<>>, Distinct(q)
  PROVE  LET r == Sender!Pop(q)
         IN  /\ r \in Seq(S) /\ Distinct(r) /\ Ids(r) = Ids(q) \ {q[1].id} /\ q[1].id \in Ids(q)
             /\ \A i \in 1..Len(r) : \E j \in 1..Len(q) : r[i] = q[j]
<1> DEFINE r == Sender!Pop(q)
<1>1. r \in Seq(S) /\ \E n \in Nat : Len(q) = n + 1 /\ Len(r) = n /\ IsRest(r, q, n)
  BY PopIs
<1> HIDE DEF r
<1>2. PICK n \in Nat : Len(q) = n + 1 /\ Len(r) = n /\ IsRest(r, q, n)
  BY <1>1
<1>3. PICK f \in [1..n -> 2..(n + 1)] :
        /\ \A i, j \in 1..n : f[i] = f[j] => i = j
        /\ \A j \in 2..(n + 1) : \E i \in 1..n : f[i] = j
        /\ \A i \in 1..n : r[i] = q[f[i]]
  BY <1>2 DEF IsRest
<1>4. \A i \in 1..n : f[i] \in 2..(n + 1) /\ f[i] \in 1..Len(q) /\ f[i] # 1
  BY <1>2, <1>3
<1>5. \A i \in 1..Len(q) : i = 1 \/ i \in 2..(n + 1)
  BY <1>2
<1>6. 1 \in 1..Len(q)
  BY <1>2
<1>7. Distinct(r)
  BY <1>2, <1>3, <1>4 DEF Distinct
<1>8. \A i \in 1..Len(r) : \E j \in 1..Len(q) : r[i] = q[j]
  BY <1>2, <1>3, <1>4
<1>9. Ids(r) = Ids(q) \ {q[1].id}
  <2>1. ASSUME NEW i \in 1..n PROVE r[i].id \in Ids(q) \ {q[1].id}
    <3>1. r[i].id = q[f[i]].id
      BY <1>3
    <3>2. q[f[i]].id # q[1].id
      BY <1>4, <1>6 DEF Distinct
    <3> QED
      BY <3>1, <3>2, <1>4 DEF Ids
  <2>2. ASSUME NEW j \in 1..Len(q), q[j].id # q[1].id PROVE q[j].id \in Ids(r)
    <3>1. j \in 2..(n + 1)
      BY <2>2, <1>5
    <3>2. PICK i \in 1..n : f[i] = j
      BY <3>1, <1>3
    <3> QED
      BY <3>2, <1>2, <1>3 DEF Ids
  <2> QED
    BY <2>1, <2>2, <1>2 DEF Ids
<1>10. q[1].id \in Ids(q)
  BY <1>6 DEF Ids
<1> QED
  BY <1>1, <1>7, <1>8, <1>9, <1>10 DEF r

LEMMA PushOrders ==
  ASSUME NEW S, OnePriority(S), NEW q \in Seq(S), NEW v \in S, OrderedBut(q, 0)
  PROVE  OrderedBut(Sender!Push(q, v), 0)
<1> DEFINE a == Append(q, v)
           n == Len(q) + 1
<1>1. /\ a \in Seq(S) /\ Len(a) = n /\ n \in 1..Len(a) /\ 2 * n > Len(a)
      /\ \A i \in 1..Len(q) : a[i] = q[i]
  OBVIOUS
<1>2. Sender!Push(q, v) = Sender!SiftUp(a, n, v)
  BY DEF Sender!Push
<1>3. ASSUME NEW k \in 2..n, k # n PROVE a[k \div 2].seqn <= a[k].seqn
  <2>1. k \in 2..Len(q) /\ k \in 1..Len(q) /\ k # 0 /\ Len(q) \in Nat
    BY <1>3
  <2>2. k \div 2 \in 1..Len(q)
    BY <2>1, Half
  <2>3. q[k \div 2].seqn <= q[k].seqn
    BY <2>1 DEF OrderedBut
  <2> HIDE DEF a
  <2> QED
    BY <2>1, <2>2, <2>3, <1>1
<1> HIDE DEF a, n
<1>4. OrderedBut(a, n)
  BY <1>1, <1>3 DEF OrderedBut
<1> QED
  BY <1>1, <1>2, <1>4, SiftUpOrders

\* In an ordered heap no number is smaller than that of the root.
LEMMA RootIsLeast ==
  ASSUME NEW S, OnePriority(S), NEW q \in Seq(S), OrderedBut(q, 0)
  PROVE  \A k \in 1..Len(q) : q[1].seqn <= q[k].seqn
<1> DEFINE bad == {k \in 1..Len(q) : ~(q[1].seqn <= q[k].seqn)}
<1>1. bad = {}
  <2> SUFFICES ASSUME bad # {} PROVE FALSE
    OBVIOUS
  <2>1. bad \in SUBSET Nat
    OBVIOUS
  <2>2. PICK m \in bad : \A y \in bad : m <= y
    BY <2>1, LeastOf
  <2>3. \A i \in 1..Len(q) : q[i].seqn \in Nat
    <3>1. \A i \in 1..Len(q) : q[i] \in S
      OBVIOUS
    <3> QED
      BY <3>1, NumbersDecide
  <2>4. m \in 1..Len(q) /\ ~(q[1].seqn <= q[m].seqn)
    OBVIOUS
  <2>5. m # 1
    BY <2>3, <2>4
  <2>6. PICK p \in 1..Len(q) : p = m \div 2 /\ p < m
    BY <2>4, <2>5, Half
  <2>7. q[p].seqn <= q[m].seqn
    <3>1. m \in 2..Len(q) /\ m # 0
      BY <2>4, <2>5
    <3> QED
      BY <3>1, <2>6 DEF OrderedBut
  <2>8. p \notin bad
    BY <2>2, <2>6
  <2>9. q[1].seqn <= q[p].seqn
    BY <2>8
  <2> HIDE DEF bad
  <2> QED
    BY <2>3, <2>4, <2>6, <2>7, <2>9
<1> QED
  BY <1>1

\* Different ids are as many as the packets.
LEMMA IdsCount ==
  ASSUME NEW S, NEW q \in Seq(S), Distinct(q)
  PROVE  Sender!Cardinality(Ids(q)) = Len(q)
<1> DEFINE n == Len(q)
           f == [k \in 1..n |-> q[k].id]
<1>1. n \in Nat
  OBVIOUS
<1>2. IsFiniteSet(1..n) /\ Cardinality(1..n) = n
  <2>1. IsFiniteSet(1..n) /\ Cardinality(1..n) = IF 1 > n THEN 0 ELSE n - 1 + 1
    BY <1>1, FS_Interval
  <2> QED
    BY <2>1, <1>1
<1>3. f \in Bijection(1..n, Ids(q))
  BY DEF Ids, Distinct, Bijection, Injection, Surjection, IsInjective
<1>4. ExistsBijection(1..n, Ids(q))
  BY <1>3 DEF ExistsBijection
<1>5. Cardinality(Ids(q)) = n
  BY <1>2, <1>4, FS_Bijection
<1>6. Sender!Cardinality(Ids(q)) = Cardinality(Ids(q))
  BY DEF Sender!Cardinality, Cardinality
<1> QED
  BY <1>5, <1>6

\* The thread is at its end before the destructor clears the queue, and nothing is
\* freed before.
ClearedLast == (closer \in {"clear", "done"} => pc = "end") /\ (closer # "done" => freed = {})

\* The packets of the queue are those that were produced.
QueuedAreProduced ==
  \A k \in 1..Len(send_pq_) : send_pq_[k].id \in 1..Len(produced) /\ send_pq_[k] = produced[send_pq_[k].id]

\* Each packet is in one place.
InOnePlace ==
  /\ Distinct(send_pq_) /\ Sender!IsInjective(written)
  /\ Ids(send_pq_) \cap Sender!Range(written) = {} /\ Ids(send_pq_) \cap freed = {}
  /\ Sender!Range(written) \cap freed = {}
  /\ Ids(send_pq_) \cup Sender!Range(written) \cup freed = 1..Len(produced)

ProducedAlike == \A m, n \in 1..Len(produced) : produced[m].priority = produced[n].priority

\* The inductive invariant: the queue is a heap while its packets are of one priority.
SenderInv ==
  /\ Sender!TypeOK /\ Sender!TopExists /\ ClearedLast /\ QueuedAreProduced /\ InOnePlace
  /\ ProducedAlike => OrderedBut(send_pq_, 0)

LEMMA SenderInit == Sender!Init => SenderInv
<1> SUFFICES ASSUME Sender!Init PROVE SenderInv
  OBVIOUS
<1>1. /\ send_pq_ = <<>> /\ running_ = TRUE /\ transport_state_ = "INITIAL" /\ pc = "check" /\ closer = "no"
      /\ produced = <<>> /\ written = <<>> /\ freed = {}
  BY DEF Sender!Init
<1>2. Len(<<>>) = 0 /\ DOMAIN <<>> = {} /\ 1..0 = {} /\ (\A k \in 2..0 : FALSE) /\ \A S : <<>> \in Seq(S)
  OBVIOUS
<1>3. Sender!TypeOK /\ Sender!TopExists /\ ClearedLast
  BY <1>1, <1>2 DEF Sender!TypeOK, Sender!TopExists, ClearedLast
<1>4. QueuedAreProduced /\ OrderedBut(send_pq_, 0)
  BY <1>1, <1>2 DEF QueuedAreProduced, OrderedBut
<1>5. InOnePlace
  BY <1>1, <1>2 DEF InOnePlace, Distinct, Ids, Sender!IsInjective, Sender!Range
<1> QED
  BY <1>3, <1>4, <1>5 DEF SenderInv

\* The packets produced, which the heap is of.
LEMMA QueueIsOf ==
  ASSUME Sender!TypeOK, QueuedAreProduced
  PROVE  LET S == {produced[m] : m \in 1..Len(produced)}
         IN  send_pq_ \in Seq(S) /\ (ProducedAlike => OnePriority(S))
<1> DEFINE S == {produced[m] : m \in 1..Len(produced)}
<1>1. send_pq_ \in Seq(Sender!Packets) /\ produced \in Seq(Sender!Packets)
  BY DEF Sender!TypeOK
<1>2. \A k \in 1..Len(send_pq_) : send_pq_[k] \in S
  BY DEF QueuedAreProduced
<1>3. send_pq_ \in Seq(S)
  <2>1. send_pq_ \in [1..Len(send_pq_) -> S] /\ Len(send_pq_) \in Nat
    BY <1>1, <1>2
  <2> HIDE DEF S
  <2> QED
    BY <2>1
<1>4. ProducedAlike => OnePriority(S)
  BY <1>1 DEF ProducedAlike, OnePriority
<1> QED
  BY <1>3, <1>4

LEMMA WriteKeeps ==
  ASSUME SenderInv, NEW priority \in Priorities, NEW seqn \in SeqNumbers, Sender!WriteAndSend(priority, seqn)
  PROVE  SenderInv'
<1> DEFINE p == [id |-> Len(produced) + 1, priority |-> priority, seqn |-> seqn]
           N == Len(produced)
<1>1. /\ N < MaxPackets /\ send_pq_' = Sender!Push(send_pq_, p) /\ produced' = Append(produced, p)
      /\ UNCHANGED <<running_, transport_state_, pc, closer, written, freed>>
  BY DEF Sender!WriteAndSend
<1>2. /\ send_pq_ \in Seq(Sender!Packets) /\ produced \in Seq(Sender!Packets) /\ N \in Nat /\ MaxPackets \in Nat
  BY TransportAssumption DEF SenderInv, Sender!TypeOK, Sender!SenderAssumption
<1>3. p \in Sender!Packets /\ p.id = N + 1
  <2>1. N + 1 \in 1..MaxPackets
    BY <1>1, <1>2
  <2> QED
    BY <2>1 DEF Sender!Packets
<1>4. /\ produced' \in Seq(Sender!Packets) /\ Len(produced') = N + 1 /\ produced'[N + 1] = p
      /\ \A m \in 1..N : m \in 1..(N + 1) /\ produced'[m] = produced[m]
  BY <1>1, <1>2, <1>3
<1> HIDE DEF p, N
<1>5. Ids(send_pq_) \subseteq 1..N /\ Distinct(send_pq_)
  BY DEF SenderInv, InOnePlace, N
<1>6. p.id \notin Ids(send_pq_)
  <2>1. N + 1 \notin 1..N
    BY <1>2
  <2> QED
    BY <2>1, <1>3, <1>5
<1>7. /\ send_pq_' \in Seq(Sender!Packets) /\ Len(send_pq_') = Len(send_pq_) + 1 /\ Distinct(send_pq_')
      /\ Ids(send_pq_') = Ids(send_pq_) \cup {N + 1}
      /\ \A i \in 1..Len(send_pq_') : send_pq_'[i] = p \/ \E j \in 1..Len(send_pq_) : send_pq_'[i] = send_pq_[j]
  BY <1>1, <1>2, <1>3, <1>5, <1>6, PushIs
<1>8. Sender!TypeOK'
  BY <1>1, <1>4, <1>7 DEF SenderInv, Sender!TypeOK
<1>9. Sender!TopExists' /\ ClearedLast'
  <2>1. send_pq_' # <<>>
    BY <1>2, <1>7
  <2> QED
    BY <2>1, <1>1 DEF SenderInv, Sender!TopExists, ClearedLast
<1>10. QueuedAreProduced'
  <2> SUFFICES ASSUME NEW i \in 1..Len(send_pq_')
               PROVE  send_pq_'[i].id \in 1..Len(produced') /\ send_pq_'[i] = produced'[send_pq_'[i].id]
    BY DEF QueuedAreProduced
  <2>1. CASE send_pq_'[i] = p
    <3>1. N + 1 \in 1..(N + 1)
      BY <1>2
    <3> QED
      BY <3>1, <2>1, <1>3, <1>4
  <2>2. ASSUME NEW j \in 1..Len(send_pq_), send_pq_'[i] = send_pq_[j]
        PROVE  send_pq_'[i].id \in 1..Len(produced') /\ send_pq_'[i] = produced'[send_pq_'[i].id]
    <3>1. send_pq_[j].id \in 1..N /\ send_pq_[j] = produced[send_pq_[j].id]
      BY DEF SenderInv, QueuedAreProduced, N
    <3> QED
      BY <3>1, <2>2, <1>4
  <2> QED
    BY <2>1, <2>2, <1>7
<1>11. InOnePlace'
  <2>1. 1..(N + 1) = (1..N) \cup {N + 1} /\ N + 1 \notin 1..N
    BY <1>2
  <2>2. /\ Ids(send_pq_) \cap Sender!Range(written) = {} /\ Ids(send_pq_) \cap freed = {}
        /\ Sender!Range(written) \cap freed = {} /\ Sender!IsInjective(written)
        /\ Ids(send_pq_) \cup Sender!Range(written) \cup freed = 1..N
    BY DEF SenderInv, InOnePlace, N
  <2>3. /\ Ids(send_pq_') \cap Sender!Range(written) = {} /\ Ids(send_pq_') \cap freed = {}
        /\ Ids(send_pq_') \cup Sender!Range(written) \cup freed = 1..(N + 1)
    BY <2>1, <2>2, <1>7
  <2>4. Sender!IsInjective(written)' /\ Sender!Range(written)' = Sender!Range(written)
    BY <2>2, <1>1 DEF Sender!IsInjective, Sender!Range
  <2>5. Distinct(send_pq_)' /\ Ids(send_pq_)' = Ids(send_pq_')
    BY <1>7 DEF Distinct, Ids
  <2> QED
    BY <2>2, <2>3, <2>4, <2>5, <1>1, <1>4 DEF InOnePlace
<1>12. ProducedAlike' => OrderedBut(send_pq_, 0)'
  <2> SUFFICES ASSUME ProducedAlike' PROVE OrderedBut(send_pq_, 0)'
    OBVIOUS
  <2> DEFINE S == {produced'[m] : m \in 1..Len(produced')}
  <2>1. OnePriority(S)
    BY <1>4 DEF ProducedAlike, OnePriority
  <2>2. p \in S
    <3>1. N + 1 \in 1..(N + 1)
      BY <1>2
    <3> QED
      BY <3>1, <1>4
  <2>3. ProducedAlike
    BY <1>4 DEF ProducedAlike, N
  <2>4. \A k \in 1..Len(send_pq_) : send_pq_[k] \in S
    BY <1>4 DEF SenderInv, QueuedAreProduced, N
  <2>5. send_pq_ \in Seq(S)
    <3>1. send_pq_ \in [1..Len(send_pq_) -> S] /\ Len(send_pq_) \in Nat
      BY <2>4, <1>2
    <3> HIDE DEF S
    <3> QED
      BY <3>1
  <2> HIDE DEF S
  <2>6. OrderedBut(send_pq_, 0)
    BY <2>3 DEF SenderInv
  <2>7. OrderedBut(send_pq_', 0)
    BY <2>1, <2>2, <2>5, <2>6, <1>1, PushOrders
  <2> QED
    BY <2>7 DEF OrderedBut
<1> QED
  BY <1>8, <1>9, <1>10, <1>11, <1>12 DEF SenderInv

LEMMA SendKeeps == ASSUME SenderInv, Sender!LoopSend PROVE SenderInv'
<1> DEFINE top == send_pq_[1].id
<1>1. /\ pc = "send" /\ send_pq_ # <<>> /\ written' = Append(written, top) /\ send_pq_' = Sender!Pop(send_pq_)
      /\ pc' = "check" /\ UNCHANGED <<running_, transport_state_, closer, produced, freed>>
  <2>1. send_pq_ \in Seq(Sender!Packets)
    BY DEF SenderInv, Sender!TypeOK
  <2>2. Head(send_pq_) = send_pq_[1]
    BY <2>1
  <2> QED
    BY <2>2 DEF Sender!LoopSend
<1>2. send_pq_ \in Seq(Sender!Packets) /\ written \in Seq(1..MaxPackets) /\ Distinct(send_pq_)
  BY DEF SenderInv, Sender!TypeOK, InOnePlace
<1>3. /\ send_pq_' \in Seq(Sender!Packets) /\ Distinct(send_pq_') /\ Ids(send_pq_') = Ids(send_pq_) \ {top}
      /\ top \in Ids(send_pq_)
      /\ \A i \in 1..Len(send_pq_') : \E j \in 1..Len(send_pq_) : send_pq_'[i] = send_pq_[j]
  BY <1>1, <1>2, PopKeeps
<1>4. top \in 1..MaxPackets
  <2>1. 1 \in 1..Len(send_pq_)
    BY <1>1, <1>2
  <2>2. send_pq_[1] \in Sender!Packets
    BY <2>1, <1>2
  <2> QED
    BY <2>2 DEF Sender!Packets
<1> HIDE DEF top
<1>5. /\ written' \in Seq(1..MaxPackets) /\ Len(written') = Len(written) + 1 /\ Len(written) \in Nat
      /\ written'[Len(written) + 1] = top /\ \A i \in 1..Len(written) : written'[i] = written[i]
      /\ DOMAIN written = 1..Len(written) /\ DOMAIN written' = 1..(Len(written) + 1)
  BY <1>1, <1>2, <1>4
<1>6. Sender!TypeOK'
  BY <1>1, <1>3, <1>5 DEF SenderInv, Sender!TypeOK
<1>7. Sender!TopExists' /\ ClearedLast'
  BY <1>1 DEF SenderInv, Sender!TopExists, ClearedLast
<1>8. QueuedAreProduced'
  <2> SUFFICES ASSUME NEW i \in 1..Len(send_pq_')
               PROVE  send_pq_'[i].id \in 1..Len(produced') /\ send_pq_'[i] = produced'[send_pq_'[i].id]
    BY DEF QueuedAreProduced
  <2>1. PICK j \in 1..Len(send_pq_) : send_pq_'[i] = send_pq_[j]
    BY <1>3
  <2>2. send_pq_[j].id \in 1..Len(produced) /\ send_pq_[j] = produced[send_pq_[j].id]
    BY DEF SenderInv, QueuedAreProduced
  <2> QED
    BY <2>1, <2>2, <1>1
<1>9. InOnePlace'
  <2> DEFINE W == Sender!Range(written)
  <2>1. /\ Ids(send_pq_) \cap W = {} /\ Ids(send_pq_) \cap freed = {} /\ W \cap freed = {}
        /\ Sender!IsInjective(written) /\ Ids(send_pq_) \cup W \cup freed = 1..Len(produced)
    BY DEF SenderInv, InOnePlace
  <2>2. W = {written[i] : i \in 1..Len(written)}
    BY <1>5 DEF Sender!Range
  <2>3. \A i \in 1..(Len(written) + 1) : i \in 1..Len(written) \/ i = Len(written) + 1
    BY <1>5
  <2>4. \A i \in 1..Len(written) : i \in 1..(Len(written) + 1) /\ written'[i] = written[i]
    BY <1>5
  <2>5. Len(written) + 1 \in 1..(Len(written) + 1)
    BY <1>5
  <2>6. {written'[i] : i \in 1..(Len(written) + 1)} = W \cup {top}
    BY <2>2, <2>3, <2>4, <2>5, <1>5
  <2>7. Sender!Range(written)' = W \cup {top}
    BY <2>6, <1>5 DEF Sender!Range
  <2>8. top \notin W
    BY <2>1, <1>3
  <2>9. ASSUME NEW i \in 1..(Len(written) + 1), NEW j \in 1..(Len(written) + 1), written'[i] = written'[j] PROVE i = j
    <3>1. CASE i \in 1..Len(written) /\ j \in 1..Len(written)
      BY <3>1, <2>1, <2>4, <2>9, <1>5 DEF Sender!IsInjective
    <3>2. CASE i \in 1..Len(written) /\ j = Len(written) + 1
      BY <3>2, <2>2, <2>4, <2>8, <2>9, <1>5
    <3>3. CASE i = Len(written) + 1 /\ j \in 1..Len(written)
      BY <3>3, <2>2, <2>4, <2>8, <2>9, <1>5
    <3> QED
      BY <3>1, <3>2, <3>3, <2>3
  <2>10. Sender!IsInjective(written)'
    BY <2>9, <1>5 DEF Sender!IsInjective
  <2> HIDE DEF W
  <2>11. /\ Ids(send_pq_') \cap (W \cup {top}) = {} /\ Ids(send_pq_') \cap freed = {} /\ (W \cup {top}) \cap freed = {}
         /\ Ids(send_pq_') \cup (W \cup {top}) \cup freed = 1..Len(produced)
    BY <2>1, <1>3
  <2>12. Distinct(send_pq_)' /\ Ids(send_pq_)' = Ids(send_pq_')
    BY <1>3 DEF Distinct, Ids
  <2> QED
    BY <2>7, <2>10, <2>11, <2>12, <1>1 DEF InOnePlace
<1>10. ProducedAlike' => OrderedBut(send_pq_, 0)'
  <2> SUFFICES ASSUME ProducedAlike' PROVE OrderedBut(send_pq_, 0)'
    OBVIOUS
  <2>1. ProducedAlike
    BY <1>1 DEF ProducedAlike
  <2>2. PICK S : send_pq_ \in Seq(S) /\ OnePriority(S)
    BY <2>1, QueueIsOf DEF SenderInv
  <2>3. OrderedBut(send_pq_, 0)
    BY <2>1 DEF SenderInv
  <2>4. OrderedBut(send_pq_', 0)
    BY <2>2, <2>3, <1>1, PopOrders
  <2> QED
    BY <2>4 DEF OrderedBut
<1> QED
  BY <1>6, <1>7, <1>8, <1>9, <1>10 DEF SenderInv

LEMMA ClearKeeps == ASSUME SenderInv, Sender!DestructorClear PROVE SenderInv'
<1>1. /\ closer = "clear" /\ freed' = {send_pq_[k].id : k \in DOMAIN send_pq_} /\ send_pq_' = <<>> /\ closer' = "done"
      /\ UNCHANGED <<running_, transport_state_, pc, produced, written>>
  BY DEF Sender!DestructorClear
<1>2. send_pq_ \in Seq(Sender!Packets) /\ DOMAIN send_pq_ = 1..Len(send_pq_)
  BY DEF SenderInv, Sender!TypeOK
<1>3. freed' = Ids(send_pq_)
  BY <1>1, <1>2 DEF Ids
<1>4. Len(<<>>) = 0 /\ 1..0 = {} /\ (\A k \in 2..0 : FALSE) /\ \A S : <<>> \in Seq(S)
  OBVIOUS
<1>5. Ids(send_pq_) \subseteq 1..MaxPackets
  <2>1. \A k \in 1..Len(send_pq_) : send_pq_[k] \in Sender!Packets
    BY <1>2
  <2> QED
    BY <2>1 DEF Ids, Sender!Packets
<1>6. Sender!TypeOK'
  BY <1>1, <1>3, <1>4, <1>5 DEF SenderInv, Sender!TypeOK
<1>7. Sender!TopExists' /\ ClearedLast'
  BY <1>1 DEF SenderInv, Sender!TopExists, ClearedLast
<1>8. QueuedAreProduced' /\ OrderedBut(send_pq_, 0)' /\ Distinct(send_pq_)' /\ Ids(send_pq_)' = {}
  BY <1>1, <1>4 DEF QueuedAreProduced, OrderedBut, Distinct, Ids
<1>9. InOnePlace'
  <2> DEFINE W == Sender!Range(written)
  <2>1. /\ Ids(send_pq_) \cap W = {} /\ freed = {} /\ Sender!IsInjective(written)
        /\ Ids(send_pq_) \cup W \cup freed = 1..Len(produced)
    BY <1>1 DEF SenderInv, InOnePlace, ClearedLast
  <2>2. Sender!IsInjective(written)' /\ Sender!Range(written)' = W
    BY <2>1, <1>1 DEF Sender!IsInjective, Sender!Range
  <2> HIDE DEF W
  <2> QED
    BY <2>1, <2>2, <1>1, <1>3, <1>8 DEF InOnePlace
<1> QED
  BY <1>6, <1>7, <1>8, <1>9 DEF SenderInv

LEMMA SenderKeeps == ASSUME SenderInv, [Sender!Next]_senderVars PROVE SenderInv'
<1>1. ASSUME NEW priority \in Priorities, NEW seqn \in SeqNumbers, Sender!WriteAndSend(priority, seqn) PROVE SenderInv'
  BY <1>1, WriteKeeps
<1>2. CASE Sender!LoopSend
  BY <1>2, SendKeeps
<1>3. CASE Sender!DestructorClear
  BY <1>3, ClearKeeps
<1>4. ASSUME UNCHANGED <<send_pq_, produced, written, freed>>, Sender!TypeOK', Sender!TopExists', ClearedLast'
      PROVE  SenderInv'
  <2>1. QueuedAreProduced'
    BY <1>4 DEF SenderInv, QueuedAreProduced
  <2>2. ProducedAlike' = ProducedAlike /\ OrderedBut(send_pq_, 0)' = OrderedBut(send_pq_, 0)
    BY <1>4 DEF ProducedAlike, OrderedBut
  <2>3. /\ Distinct(send_pq_)' = Distinct(send_pq_) /\ Ids(send_pq_)' = Ids(send_pq_)
        /\ Sender!IsInjective(written)' = Sender!IsInjective(written) /\ Sender!Range(written)' = Sender!Range(written)
    BY <1>4 DEF Distinct, Ids, Sender!IsInjective, Sender!Range
  <2>4. InOnePlace'
    BY <2>3, <1>4 DEF SenderInv, InOnePlace
  <2> QED
    BY <2>1, <2>2, <2>4, <1>4 DEF SenderInv
<1>5. ASSUME NEW s \in {"READY", "FAILED"}, Sender!UpdateState(s) PROVE SenderInv'
  <2>1. transport_state_' = s /\ UNCHANGED <<send_pq_, running_, pc, closer, produced, written, freed>>
    BY <1>5 DEF Sender!UpdateState
  <2>2. Sender!TypeOK' /\ Sender!TopExists' /\ ClearedLast'
    BY <2>1 DEF SenderInv, Sender!TypeOK, Sender!TopExists, ClearedLast
  <2> QED
    BY <2>1, <2>2, <1>4
<1>6. CASE Sender!LoopCheck
  <2>1. /\ pc = "check" /\ pc' \in {"check", "send", "end"} /\ (pc' = "send" => send_pq_ # <<>>)
        /\ UNCHANGED <<send_pq_, running_, transport_state_, closer, produced, written, freed>>
    BY <1>6 DEF Sender!LoopCheck
  <2>2. Sender!TypeOK' /\ Sender!TopExists' /\ ClearedLast'
    BY <2>1 DEF SenderInv, Sender!TypeOK, Sender!TopExists, ClearedLast
  <2> QED
    BY <2>1, <2>2, <1>4
<1>7. CASE Sender!DestructorStop \/ Sender!DestructorJoin
  <2>1. /\ \/ closer = "no" /\ closer' = "join" /\ running_' = FALSE
           \/ closer = "join" /\ pc = "end" /\ closer' = "clear" /\ running_' = running_
        /\ UNCHANGED <<send_pq_, transport_state_, pc, produced, written, freed>>
    BY <1>7 DEF Sender!DestructorStop, Sender!DestructorJoin
  <2>2. Sender!TypeOK' /\ Sender!TopExists' /\ ClearedLast'
    BY <2>1 DEF SenderInv, Sender!TypeOK, Sender!TopExists, ClearedLast
  <2> QED
    BY <2>1, <2>2, <1>4
<1>8. CASE UNCHANGED senderVars
  <2>1. UNCHANGED <<send_pq_, running_, transport_state_, pc, closer, produced, written, freed>>
    BY <1>8 DEF senderVars
  <2>2. Sender!TypeOK' /\ Sender!TopExists' /\ ClearedLast'
    BY <2>1 DEF SenderInv, Sender!TypeOK, Sender!TopExists, ClearedLast
  <2> QED
    BY <2>1, <2>2, <1>4
<1> QED
  BY <1>1, <1>2, <1>3, <1>5, <1>6, <1>7, <1>8 DEF Sender!Next, Sender!Thread, Sender!Destructor

-------------------------------------------------------------------------------
(* The model of the transport.                                               *)

\* updateComponentState, updateIceState, queueData and getPacket, with one component or
\* two, a queue of any length and any number of events and packets: READY and FAILED
\* are reported only when every component was connected or failed, and the queue holds
\* the latest packets, all accounted for.
THEOREM ConnectionStaysSound == Spec => []ConnectionIsSound
<1>1. Init => NiceInv
  BY NiceInit DEF Init
<1>2. NiceInv /\ [Next]_allVars => NiceInv'
  <2> SUFFICES ASSUME NiceInv, [Next]_allVars PROVE NiceInv'
    OBVIOUS
  <2>1. CASE InNice /\ Nice!Next
    BY <2>1, NiceKeeps
  <2>2. CASE UNCHANGED niceVars
    BY <2>2 DEF niceVars, NiceInv, NiceStates, QueueHolds, EntriesHold, AboutToSet,
                Nice!StateIsAgreed, Nice!QueueIsLatest
  <2> QED
    BY <2>1, <2>2 DEF Next, InDtls, InSender, allVars
<1>3. NiceInv => ConnectionIsSound
  <2> SUFFICES ASSUME NiceInv PROVE ConnectionIsSound
    OBVIOUS
  <2>1. Len(packets) \in 0..NICE_QUEUE_MAX_NUMBER + 1
    BY TransportAssumption DEF NiceInv, QueueHolds, Nice!NiceAssumption
  <2> QED
    BY <2>1 DEF NiceInv, NiceStates, QueueHolds, ConnectionIsSound, Nice!TypeOK
<1> QED
  BY <1>1, <1>2, <1>3, PTL DEF Spec

\* onHandshakeCompleted, the Resender and writeDtls, in both roles, whatever is lost,
\* delayed, refused, sent again or sent from a buffer that was written anew: keys are set
\* only for a peer that has sent its last flight, and at a client only when the server is
\* done; a client peer is done only with a socket that has completed; and a Resender sends
\* its own flight unless its timer had fired.
THEOREM KeysStayAgreed == Spec => []KeysAgree
<1>1. Init => DtlsInv
  BY DtlsInit DEF Init
<1>2. DtlsInv /\ [Next]_allVars => DtlsInv'
  <2> SUFFICES ASSUME DtlsInv, [Next]_allVars PROVE DtlsInv'
    OBVIOUS
  <2>1. CASE InDtls /\ Dtls!Next
    BY <2>1, DtlsKeeps
  <2>2. CASE UNCHANGED dtlsVars
    <3>1. Dtls!TypeOK' /\ FromPeer' /\ ToPeer'
      BY <2>2 DEF dtlsVars, DtlsInv, Dtls!TypeOK, FromPeer, ToPeer, Receiving, Answering, Theirs,
                  Dtls!WorkerSteps, Dtls!Expectable, Dtls!Answers, Dtls!Ours
    <3>2. Completion' /\ BeforeStart' /\ TimerIsRight'
      BY <2>2 DEF dtlsVars, DtlsInv, Completion, BeforeStart, TimerIsRight, Last, Receiving, Answering,
                  Dtls!StaleResendExplained
    <3> QED
      BY <3>1, <3>2 DEF DtlsInv
  <2> QED
    BY <2>1, <2>2 DEF Next, InNice, InSender, allVars
<1>3. DtlsInv => KeysAgree
  <2> SUFFICES ASSUME DtlsInv PROVE KeysAgree
    OBVIOUS
  <2>1. peerSent \in 0..4
    BY DEF DtlsInv, Dtls!TypeOK
  <2>2. Dtls!KeysAgree
    BY <2>1 DEF DtlsInv, Completion, Last, Dtls!KeysAgree
  <2> QED
    BY <2>2 DEF DtlsInv, TimerIsRight, KeysAgree
<1> QED
  BY <1>1, <1>2, <1>3, PTL DEF Spec

\* WriteAndSend, SendThreadLoop and the destructor, with any number of packets, priorities
\* and sequence numbers: top() is never called on an empty queue although empty() is read
\* without the lock, each packet is queued, written or freed, in one of the three and once,
\* and while all packets are of one priority the one about to be written has the smallest
\* number of those in the heap.
THEOREM PacketsLeaveInOrder == Spec => []LeavesInOrder
<1>1. Init => SenderInv
  BY SenderInit DEF Init
<1>2. SenderInv /\ [Next]_allVars => SenderInv'
  <2> SUFFICES ASSUME SenderInv, [Next]_allVars PROVE [Sender!Next]_senderVars
    BY SenderKeeps
  <2> QED
    BY DEF Next, InNice, InDtls, allVars
<1>3. SenderInv => LeavesInOrder
  <2> SUFFICES ASSUME SenderInv PROVE LeavesInOrder
    OBVIOUS
  <2>1. /\ send_pq_ \in Seq(Sender!Packets) /\ DOMAIN send_pq_ = 1..Len(send_pq_)
        /\ produced \in Seq(Sender!Packets) /\ DOMAIN produced = 1..Len(produced)
    BY DEF SenderInv, Sender!TypeOK
  <2>2. Sender!LeavesOnce
    <3>1. Ids(send_pq_) = {send_pq_[k].id : k \in DOMAIN send_pq_}
      BY <2>1 DEF Ids
    <3>2. Sender!Cardinality(Ids(send_pq_)) = Len(send_pq_)
      BY <2>1, IdsCount DEF SenderInv, InOnePlace
    <3> QED
      BY <3>1, <3>2 DEF SenderInv, InOnePlace, Sender!LeavesOnce
  <2>3. Sender!FirstBySeqNumber
    <3> SUFFICES ASSUME ProducedAlike PROVE \A k \in 1..Len(send_pq_) : send_pq_[1].seqn <= send_pq_[k].seqn
      BY <2>1 DEF Sender!FirstBySeqNumber, ProducedAlike
    <3>1. PICK S : send_pq_ \in Seq(S) /\ OnePriority(S)
      BY QueueIsOf DEF SenderInv
    <3>2. OrderedBut(send_pq_, 0)
      BY DEF SenderInv
    <3> QED
      BY <3>1, <3>2, RootIsLeast
  <2> QED
    BY <2>2, <2>3 DEF SenderInv, LeavesInOrder
<1> QED
  BY <1>1, <1>2, <1>3, PTL DEF Spec

===============================================================================
