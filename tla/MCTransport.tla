------------------------------ MODULE MCTransport ------------------------------
(***************************************************************************)
(* The three classes a stream's transport is made of, checked in one       *)
(* model: the ICE connection (NiceConnection), the DTLS handshake in the   *)
(* two roles (DtlsHandshake) and the send queue (RtpSender).  What one     *)
(* knows of another is an input it may change at any time (the ICE state   *)
(* in DtlsHandshake, the transport's state in RtpSender), so a behaviour   *)
(* of the model is one of a single class, part, while the others rest.     *)
(***************************************************************************)
EXTENDS Integers

CONSTANTS
  iceComponents_, NICE_QUEUE_MAX_NUMBER, MaxEvents, MaxCandidates, NicePackets,
  PeerRetransmits, MayFail, Unmuxed, MaxLoss, MaxCopies, Priorities, SeqNumbers, MaxPackets

VARIABLES
  part,                                                             \* the class in use
  component, comp_state_list_, niceState_, niceRunning_, stamp, agent, reader, packets,
  ignored, everConnected, everFailed, received, taken, drop_queue_packet_, events,
  candidates,                                                       \* NiceConnection
  IsServer, iceState_, dtlsRunning_, state_, ice, worker, expected, mHandshakeCompleted,
  srtp_, rtcp, outBio, rtpResender, niceQueue_, peerSent, peerDone, toPeer, toUs, lost,
  refused,                                                          \* DtlsHandshake
  send_pq_, running_, transport_state_, pc, closer, produced, written,
  freed                                                             \* RtpSender

Nice == INSTANCE NiceConnection WITH
  MaxPackets <- NicePackets, iceState_ <- niceState_, running_ <- niceRunning_,
  ice <- agent, worker <- reader, niceQueue_ <- packets

Dtls == INSTANCE DtlsHandshake WITH running_ <- dtlsRunning_

Sender == INSTANCE RtpSender

ASSUME TransportAssumption ==
  Nice!NiceAssumption /\ Dtls!HandshakeAssumption /\ Sender!SenderAssumption

niceVars == <<component, comp_state_list_, niceState_, niceRunning_, stamp, agent, reader,
  packets, ignored, everConnected, everFailed, received, taken, drop_queue_packet_,
  events, candidates>>
dtlsVars == <<IsServer, iceState_, dtlsRunning_, state_, ice, worker, expected,
  mHandshakeCompleted, srtp_, rtcp, outBio, rtpResender, niceQueue_, peerSent, peerDone,
  toPeer, toUs, lost, refused>>
senderVars == <<send_pq_, running_, transport_state_, pc, closer, produced, written, freed>>
allVars == <<part, niceVars, dtlsVars, senderVars>>

Init ==
  /\ part \in {"nice", "dtls", "sender"}
  /\ Nice!Init /\ Sender!Init /\ Dtls!Init
  /\ part # "dtls" => IsServer /\ rtcp = "muxed"

InNice == part = "nice" /\ UNCHANGED <<part, dtlsVars, senderVars>>
InDtls == part = "dtls" /\ UNCHANGED <<part, IsServer, niceVars, senderVars>>
InSender == part = "sender" /\ UNCHANGED <<part, niceVars, dtlsVars>>

Next ==
  \/ InNice /\ Nice!Next
  \/ InDtls /\ Dtls!Next
  \/ InSender /\ Sender!Next

\* The fairness of each class while it is the one in use.  part and IsServer do not
\* change, so steps of two classes may share a condition.
Fairness ==
  /\ WF_allVars(\/ InNice /\ Nice!updateIceState
                \/ InDtls /\ Dtls!IceThread
                \/ InSender /\ Sender!Thread)
  /\ WF_allVars(\/ InNice /\ Nice!LoopEnds
                \/ InDtls /\ Dtls!WorkerThread
                \/ InSender /\ (Sender!DestructorJoin \/ Sender!DestructorClear))
  /\ WF_allVars(\/ InNice /\ (Nice!getPacket \/ Nice!getPacketEnd)
                \/ InDtls /\ Dtls!Timer)
  /\ WF_allVars(InDtls /\ Dtls!PeerSends)
  /\ \A f \in 1..4 :
       WF_allVars(InDtls /\ IF Dtls!Ours(f) THEN Dtls!PeerReceives(f) ELSE Dtls!queueData(f))

Spec == Init /\ [][Next]_allVars /\ Fairness

-------------------------------------------------------------------------------

\* updateComponentState reports READY and FAILED when every component agrees;
\* queueData and getPacket keep the latest packets in the queue, all accounted for.
ConnectionIsSound == Nice!TypeOK /\ Nice!StateIsAgreed /\ Nice!QueueIsLatest

\* close ends the ICE loop and the packet thread, and a failure of all components
\* is reported, but for one that updateComponentState passed over.
IceEnds == Nice!ClosedEnds /\ Nice!FailureIsSet

\* onHandshakeCompleted, in both roles: keys only for a peer that has sent its last
\* flight, the client's only when the server is done, and a client peer done only with
\* a socket that has completed; a Resender sends its own flight, but for a timer that
\* fired before the cancel.
KeysAgree == Dtls!TypeOK /\ Dtls!KeysAgree /\ Dtls!StaleResendExplained

\* The handshake completes in both roles, but for a loss the Resender cannot mend and
\* for what OpenSSL or libsrtp refuses.
HandshakeCompletes == Dtls!HandshakeCompletes

\* SendThreadLoop's top() is not called on an empty queue, every packet of
\* WriteAndSend leaves the queue once, and those of one priority by their number.
LeavesInOrder ==
  Sender!TypeOK /\ Sender!TopExists /\ Sender!LeavesOnce /\ Sender!FirstBySeqNumber

\* The queue drains while the transport is READY, and the destructor ends.
SenderEnds == Sender!QueueDrains /\ Sender!DestructorEnds

===============================================================================
