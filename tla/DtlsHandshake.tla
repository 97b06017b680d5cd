----------------------------- MODULE DtlsHandshake -----------------------------
(***************************************************************************)
(* DtlsTransport, Resender (orbit/dtls_transport.cc) and DtlsSocket        *)
(* (orbit/dtls/DtlsSocket.cpp): the handshake of one transport, from the   *)
(* ICE state that starts it to the SRTP keys, with the timer that sends a  *)
(* lost flight again.  The peer, OpenSSL and the network are external.     *)
(*                                                                         *)
(* A handshake is four flights; the client sends 1 and 3, the server 2 and *)
(* 4.  Threads: ice (callbacks of the ICE agent), worker (getNiceDataLoop) *)
(* and the timer thread of the present Resender.  outBio is the content of *)
(* OpenSSL's output buffer: the flight last written into it, 0 when reset. *)
(* The Resender keeps a pointer into that buffer.  DtlsSocketTimer, which   *)
(* would call forceRetransmit, is put into a TestTimerContext whose        *)
(* updateTimer nobody calls, so it never expires and is no action here.    *)
(* Without rtcp_mux there is a second socket, dtlsRtcp, with the same      *)
(* code: of it the model has what it shares with the first, the packet     *)
(* thread and the transport's state.                                       *)
(***************************************************************************)
EXTENDS Integers, Sequences, FiniteSets

CONSTANTS
  PeerRetransmits,  \* the peer sends its flight again when no answer comes
  MayFail,          \* the roles in which ICE may fail after it was ready (bound)
  Unmuxed,          \* the roles in which the offer may come without rtcp_mux (bound)
  MaxLoss,          \* messages lost (bound)
  MaxCopies         \* of one message in transit (bound)

\* What the constants are, for a module that instantiates this one to assume.
HandshakeAssumption ==
  /\ PeerRetransmits \in BOOLEAN /\ MayFail \subseteq BOOLEAN /\ Unmuxed \subseteq BOOLEAN
  /\ MaxLoss \in Nat /\ MaxCopies \in Nat

VARIABLES
  IsServer,             \* the role, from FLAGS_setup_passive_server: it does not change
  iceState_,            \* "INITIAL", "READY", "FAILED"
  running_,
  state_,               \* of the transport: "STARTED", "READY", "FAILED"
  ice,                  \* the ICE thread: <<"idle">>, <<"start">>, or a state to "check" or "set"
  worker,               \* the packet thread, see below
  expected,             \* the peer's flight the socket waits for
  mHandshakeCompleted,
  srtp_,                \* readyRtp: the keys are set
  rtcp,                 \* the second socket: "muxed" (none), "waits", "ready", "failed"
  outBio,
  rtpResender,          \* [flight, timer, overtaken]
  niceQueue_,
  peerSent, peerDone,   \* the peer: its last flight (0: none), it has finished
  toPeer, toUs,         \* copies of each flight in transit
  lost,
  \* history
  refused               \* OpenSSL or libsrtp has refused the peer's handshake

own     == <<iceState_, running_, state_, rtcp>>
socket  == <<expected, mHandshakeCompleted, srtp_, outBio, refused>>
peer    == <<peerSent, peerDone>>
vars == <<IsServer, own, ice, worker, socket, rtpResender, niceQueue_, peer, toPeer, toUs, lost>>

Flights == 1..4
Alert == 5      \* what OpenSSL may write when it refuses a flight
Never == 7      \* the flight a socket that has refused one waits for
Ours(f) == IsServer <=> f % 2 = 0

\* timer: "none" (no Resender), "armed", "fired" (the handler runs), "over".
NoResender == [flight |-> 0, timer |-> "none", overtaken |-> FALSE]

Sent(channel, f) ==
  IF f \in Flights /\ channel[f] < MaxCopies THEN [channel EXCEPT ![f] = @ + 1] ELSE channel

\* NiceConnection::sendData: nothing is sent unless ICE is READY.
sendData(f) == toPeer' = IF iceState_ = "READY" THEN Sent(toPeer, f) ELSE toPeer

-------------------------------------------------------------------------------
(* Resender.                                                                 *)

\* The three seconds are over; the handler is dispatched on the timer thread.
TimerFires ==
  /\ rtpResender.timer = "armed"
  /\ rtpResender' = [rtpResender EXCEPT !.timer = "fired"]
  /\ UNCHANGED <<own, ice, worker, socket, niceQueue_, peer, toPeer, toUs, lost>>

resend ==
  /\ rtpResender.timer = "fired"
  /\ sendData(outBio)
  /\ rtpResender' = [rtpResender EXCEPT !.timer = "over"]
  /\ UNCHANGED <<own, ice, worker, socket, niceQueue_, peer, toUs, lost>>

\* Mutant: the timer of the last flight goes on.
cancelNot == UNCHANGED rtpResender

\* timer.cancel(): too late for a handler that was dispatched.
cancel == rtpResender' =
  CASE rtpResender.timer = "armed" -> [rtpResender EXCEPT !.timer = "over"]
    [] rtpResender.timer = "fired" -> [rtpResender EXCEPT !.overtaken = TRUE]
    [] OTHER -> rtpResender

\* rtpResender.reset(new Resender): the old one is cancelled and its thread joined.
NewResender(f) ==
  /\ rtpResender.timer # "fired"
  /\ rtpResender' = [flight |-> f, timer |-> "armed", overtaken |-> FALSE]

-------------------------------------------------------------------------------
(* The ICE thread.  Transport::updateTransportState tests, sets and notifies *)
(* without a lock, so testing and setting are two steps.                     *)

IceReady ==
  /\ ice = <<"idle">> /\ iceState_ = "INITIAL"
  /\ iceState_' = "READY"
  /\ ice' = IF IsServer THEN <<"check", "READY">> ELSE <<"start">>
  /\ UNCHANGED <<running_, state_, rtcp, worker, socket, rtpResender, niceQueue_, peer, toPeer, toUs, lost>>

\* DtlsSocketContext::start: the first flight, through writeDtls.
IceStart ==
  /\ ice = <<"start">>
  /\ outBio' = 1
  /\ NewResender(1) /\ sendData(1)
  /\ expected' = 2
  /\ ice' = <<"check", "READY">>
  /\ UNCHANGED <<own, worker, mHandshakeCompleted, srtp_, refused, niceQueue_, peer, toUs, lost>>

\* ICE fails: running_ of the transport is cleared as well.
IceFailed ==
  /\ IsServer \in MayFail /\ ice = <<"idle">> /\ iceState_ = "READY"
  /\ iceState_' = "FAILED" /\ running_' = FALSE
  /\ ice' = <<"check", "FAILED">>
  /\ UNCHANGED <<state_, rtcp, worker, socket, rtpResender, niceQueue_, peer, toPeer, toUs, lost>>

IceCheck(s) ==
  /\ ice = <<"check", s>>
  /\ ice' = IF state_ = s THEN <<"idle">> ELSE <<"set", s>>
  /\ UNCHANGED <<own, worker, socket, rtpResender, niceQueue_, peer, toPeer, toUs, lost>>

IceSet(s) ==
  /\ ice = <<"set", s>>
  /\ state_' = s
  /\ ice' = <<"idle">>
  /\ UNCHANGED <<iceState_, running_, rtcp, worker, socket, rtpResender, niceQueue_, peer, toPeer, toUs, lost>>

\* NiceConnection::queueData, called by the agent on the ICE thread.
queueData(f) ==
  /\ ice = <<"idle">> /\ toUs[f] > 0 /\ Len(niceQueue_) < MaxCopies
  /\ toUs' = [toUs EXCEPT ![f] = @ - 1]
  /\ niceQueue_' = IF iceState_ = "READY" THEN Append(niceQueue_, f) ELSE niceQueue_
  /\ UNCHANGED <<own, ice, worker, socket, rtpResender, peer, toPeer, lost>>

-------------------------------------------------------------------------------
(* The packet thread: worker is <<"idle">>, <<"end">> or <<step, flight>>.   *)

WorkerEnds ==
  /\ worker = <<"idle">> /\ (~running_ \/ iceState_ = "FAILED")
  /\ worker' = <<"end">>
  /\ UNCHANGED <<own, ice, socket, rtpResender, niceQueue_, peer, toPeer, toUs, lost>>

\* onNiceData of a DTLS packet: the Resender is cancelled first.
onNiceData ==
  /\ worker = <<"idle">> /\ running_ /\ niceQueue_ # <<>>
  /\ niceQueue_' = Tail(niceQueue_)
  /\ cancel
  /\ worker' = <<"reset", Head(niceQueue_)>>
  /\ UNCHANGED <<own, ice, socket, peer, toPeer, toUs, lost>>

\* handlePacketMaybe resets both buffers before the lock is taken.
BioReset ==
  /\ worker[1] = "reset"
  /\ outBio' = 0
  /\ worker' = <<"handshake", worker[2]>>
  /\ UNCHANGED <<own, ice, expected, mHandshakeCompleted, srtp_, refused, rtpResender, niceQueue_, peer, toPeer, toUs, lost>>

\* Mutant: the handshake counts as completed after the first flight.
doHandshakeIterationEarly ==
  LET f == worker[2] IN
  /\ worker[1] = "handshake"
  /\ IF mHandshakeCompleted \/ f # expected
     THEN worker' = <<"idle">> /\ UNCHANGED <<outBio, expected, mHandshakeCompleted>>
     ELSE /\ outBio' = IF f < 4 THEN f + 1 ELSE 0
          /\ expected' = f + 2
          /\ mHandshakeCompleted' = TRUE
          /\ worker' = <<"keys", outBio'>>
  /\ UNCHANGED <<own, ice, srtp_, refused, rtpResender, niceQueue_, peer, toPeer, toUs, lost>>

\* SSL_do_handshake accepts flight f and writes its answer.  After the last one
\* handshakeCompleted exports the keys, unless the peer gave no certificate.
Accepts(f) ==
  /\ outBio' = IF f < 4 THEN f + 1 ELSE 0
  /\ expected' = f + 2
  /\ mHandshakeCompleted' = (f > 2)
  /\ \/ /\ worker' = IF f > 2 THEN <<"keys", outBio'>> ELSE <<"write", outBio'>>
        /\ UNCHANGED refused
     \/ f > 2 /\ worker' = <<"write", outBio'>> /\ refused' = TRUE

\* Any other SSL error: handshakeFailed only logs it, and an alert is sent if there is one.
Refuses ==
  /\ outBio' \in {0, Alert}
  /\ expected' = Never /\ refused' = TRUE
  /\ worker' = <<"write", outBio'>>
  /\ UNCHANGED mHandshakeCompleted

\* doHandshakeIteration: OpenSSL takes the flight it waits for and discards any
\* other; nothing is done once the handshake is completed.
doHandshakeIteration ==
  LET f == worker[2] IN
  /\ worker[1] = "handshake"
  /\ IF mHandshakeCompleted \/ f # expected
     THEN worker' = <<"idle">> /\ UNCHANGED <<outBio, expected, mHandshakeCompleted, refused>>
     ELSE Accepts(f) \/ Refuses
  /\ UNCHANGED <<own, ice, srtp_, rtpResender, niceQueue_, peer, toPeer, toUs, lost>>

\* onHandshakeCompleted of dtlsRtp: the keys, then updateTransportState(READY) if
\* the second component is ready or not there; FAILED if libsrtp does not take them.
onHandshakeCompleted ==
  LET update(s) == worker' = IF state_ = s THEN <<"write", worker[2]>> ELSE <<s, worker[2]>> IN
  /\ worker[1] = "keys"
  /\ \/ /\ srtp_' = TRUE /\ UNCHANGED refused
        /\ IF rtcp \in {"muxed", "ready"} THEN update("READY") ELSE worker' = <<"write", worker[2]>>
     \/ /\ refused' = TRUE /\ UNCHANGED srtp_
        /\ update("FAILED")
  /\ UNCHANGED <<own, ice, expected, mHandshakeCompleted, outBio, rtpResender, niceQueue_, peer, toPeer, toUs, lost>>

WorkerSet ==
  /\ worker[1] \in {"READY", "FAILED"}
  /\ state_' = worker[1]
  /\ worker' = <<"write", worker[2]>>
  /\ UNCHANGED <<iceState_, running_, rtcp, ice, socket, rtpResender, niceQueue_, peer, toPeer, toUs, lost>>

\* The same of dtlsRtcp, which starts after dtlsRtp and completes at any time.
RtcpCompleted ==
  LET update(s) == worker' = IF state_ = s THEN worker ELSE <<"rtcp", s>> IN
  /\ worker = <<"idle">> /\ running_ /\ iceState_ = "READY" /\ rtcp = "waits" /\ expected # 0
  /\ \/ rtcp' = "ready" /\ IF srtp_ THEN update("READY") ELSE UNCHANGED worker
     \/ rtcp' = "failed" /\ update("FAILED")
  /\ UNCHANGED <<iceState_, running_, state_, ice, socket, rtpResender, niceQueue_, peer, toPeer, toUs, lost>>

RtcpSet ==
  /\ worker[1] = "rtcp"
  /\ state_' = worker[2]
  /\ worker' = <<"idle">>
  /\ UNCHANGED <<iceState_, running_, rtcp, ice, socket, rtpResender, niceQueue_, peer, toPeer, toUs, lost>>

\* writeDtls of what the iteration left in the buffer, if anything.
writeDtls ==
  /\ worker[1] = "write"
  /\ IF worker[2] = 0 THEN UNCHANGED <<rtpResender, toPeer>>
     ELSE NewResender(worker[2]) /\ sendData(worker[2])
  /\ worker' = <<"idle">>
  /\ UNCHANGED <<own, ice, socket, niceQueue_, peer, toUs, lost>>

-------------------------------------------------------------------------------
(* The peer and the network (external).                                      *)

\* The peer sends its first flight (as the client), and any flight again.
PeerSends ==
  /\ ~peerDone
  /\ \/ peerSent = 0 /\ IsServer /\ peerSent' = 1
     \/ peerSent > 0 /\ PeerRetransmits /\ UNCHANGED peerSent
  /\ toUs' = Sent(toUs, peerSent')
  /\ UNCHANGED <<own, ice, worker, socket, rtpResender, niceQueue_, peerDone, toPeer, lost>>

\* It answers the flight it waits for; the last one ends it.  A flight that
\* it has answered is answered again (RFC 6347, 4.2.4).
PeerReceives(f) ==
  LET answer == IF f = 4 THEN 0 ELSE f + 1 IN
  /\ toPeer[f] > 0
  /\ toPeer' = [toPeer EXCEPT ![f] = @ - 1]
  /\ IF f = peerSent + 1
     THEN /\ peerDone' = (f > 2)
          /\ peerSent' = IF f = 4 THEN peerSent ELSE answer
          /\ toUs' = Sent(toUs, answer)
     ELSE /\ toUs' = IF answer = peerSent THEN Sent(toUs, answer) ELSE toUs
          /\ UNCHANGED peer
  /\ UNCHANGED <<own, ice, worker, socket, rtpResender, niceQueue_, lost>>

Lose(f) ==
  /\ lost < MaxLoss /\ lost' = lost + 1
  /\ \/ toPeer[f] > 0 /\ toPeer' = [toPeer EXCEPT ![f] = @ - 1] /\ UNCHANGED toUs
     \/ toUs[f] > 0 /\ toUs' = [toUs EXCEPT ![f] = @ - 1] /\ UNCHANGED toPeer
  /\ UNCHANGED <<own, ice, worker, socket, rtpResender, niceQueue_, peer>>

-------------------------------------------------------------------------------

Init ==
  /\ IsServer \in BOOLEAN
  /\ iceState_ = "INITIAL" /\ running_ = TRUE /\ state_ = "STARTED"
  /\ ice = <<"idle">> /\ worker = <<"idle">>
  /\ rtcp \in {"muxed"} \cup {r \in {"waits"} : IsServer \in Unmuxed}
  /\ expected = IF IsServer THEN 1 ELSE 0
  /\ mHandshakeCompleted = FALSE /\ srtp_ = FALSE /\ outBio = 0
  /\ rtpResender = NoResender /\ niceQueue_ = <<>>
  /\ peerSent = 0 /\ peerDone = FALSE
  /\ toPeer = [f \in Flights |-> 0] /\ toUs = [f \in Flights |-> 0]
  /\ lost = 0 /\ refused = FALSE

IceThread == IceReady \/ IceStart \/ \E s \in {"READY", "FAILED"} : IceCheck(s) \/ IceSet(s)
WorkerThread ==
  \/ WorkerEnds \/ onNiceData \/ BioReset \/ doHandshakeIteration
  \/ onHandshakeCompleted \/ WorkerSet \/ writeDtls \/ RtcpSet
Timer == TimerFires \/ resend

Next ==
  /\ UNCHANGED IsServer
  /\ \/ IceThread \/ IceFailed \/ WorkerThread \/ RtcpCompleted \/ Timer \/ PeerSends
     \/ \E f \in Flights : queueData(f) \/ PeerReceives(f) \/ Lose(f)

Spec == Init /\ [][Next]_vars

\* The threads run, the timer expires, the peer goes on, and a message that is
\* not lost arrives.
FairSpec ==
  /\ Spec
  /\ WF_vars(IceThread) /\ WF_vars(WorkerThread)
  /\ WF_vars(TimerFires) /\ WF_vars(resend) /\ WF_vars(PeerSends)
  /\ \A f \in Flights : WF_vars(queueData(f)) /\ WF_vars(PeerReceives(f))

-------------------------------------------------------------------------------
(* Properties.                                                               *)

\* What the threads are at: the packet thread has a flight of the peer in its hand, and
\* then the answer, 0 if there is none, or a state to set.
Answers == {0, Alert} \cup {f \in Flights : Ours(f)}
IceSteps == {<<"idle">>, <<"start">>} \cup {"check", "set"} \X {"READY", "FAILED"}
WorkerSteps ==
  {<<"idle">>, <<"end">>} \cup {"reset", "handshake"} \X {f \in Flights : ~Ours(f)}
                          \cup {"keys", "READY", "FAILED", "write"} \X Answers
                          \cup {"rtcp"} \X {"READY", "FAILED"}
Expectable == {Never} \cup {e \in 0..6 : IsServer <=> e % 2 = 1}
Resenders == [flight : 0..5, timer : {"none", "armed", "fired", "over"}, overtaken : BOOLEAN]

\* The values of the fields.
TypeOK ==
  /\ IsServer \in BOOLEAN
  /\ iceState_ \in {"INITIAL", "READY", "FAILED"} /\ state_ \in {"STARTED", "READY", "FAILED"}
  /\ running_ \in BOOLEAN /\ mHandshakeCompleted \in BOOLEAN /\ srtp_ \in BOOLEAN
  /\ ice \in IceSteps /\ worker \in WorkerSteps
  /\ expected \in Expectable /\ outBio \in Answers
  /\ rtcp \in {"muxed", "waits", "ready", "failed"} /\ refused \in BOOLEAN
  /\ rtpResender \in Resenders
  /\ niceQueue_ \in Seq(Flights) /\ peerSent \in 0..4 /\ peerDone \in BOOLEAN
  /\ toPeer \in [Flights -> 0..MaxCopies] /\ toUs \in [Flights -> 0..MaxCopies] /\ lost \in 0..MaxLoss

\* A handler that is about to send finds the bytes its Resender was given, unless the
\* timer had fired when the peer's next packet came in and cancel() was too late: then
\* the buffer it points to may be reset or hold the next flight.
StaleResendExplained ==
  rtpResender.timer = "fired" /\ outBio # rtpResender.flight => rtpResender.overtaken

\* The two ends agree, whatever is lost, sent again or sent from a buffer that
\* was written anew: keys are set here only for a peer that has sent its last
\* flight; a peer that is the client is done only with a socket that has
\* completed, and as the client this one has keys only when the peer is done.
\* (The last flight may get lost: then the server has keys and the client waits.)
KeysAgree ==
  /\ srtp_ => peerSent >= IF IsServer THEN 3 ELSE 4
  /\ peerDone /\ IsServer => mHandshakeCompleted
  /\ srtp_ /\ ~IsServer => peerDone

\* Once ICE is READY the two ends complete the handshake, or a message was lost
\* and the one repetition of a flight that a Resender has is used up (every DTLS
\* packet cancels it, even one that OpenSSL then discards), or ICE has failed, or
\* OpenSSL or libsrtp has refused what the peer sent.
HandshakeCompletes ==
  iceState_ = "READY" ~> \/ srtp_ /\ peerDone
                         \/ lost > 0 /\ rtpResender.timer = "over"
                         \/ iceState_ = "FAILED"
                         \/ refused

===============================================================================
