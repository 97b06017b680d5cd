---------------------------- MODULE StreamTeardown -----------------------------
(***************************************************************************)
(* The end of one stream: the detached thread that CloseStream or CloseAll *)
(* starts (orbit/server/orbit_media_pipelines.cc) stops and deletes the    *)
(* endpoint, its transport and its plugin while the threads of the stream  *)
(* are at work: the transport's worker (getNiceDataLoop), the ICE thread,  *)
(* the sender thread, one RR/SR thread per offer, and threads of the room  *)
(* that relay to this stream.                                              *)
(*                                                                         *)
(* A mutex is held exactly at the labels where its section is, so there is *)
(* no variable for it.  An access to an object that is gone is undefined:  *)
(* fault names it and the behaviour ends there, the thread at its label.   *)
(***************************************************************************)
EXTENDS FiniteSets

CONSTANTS
  Reporters,    \* RR/SR threads; each offer starts one
  RoomThreads   \* threads that relay packets to this stream

None == "none"

ASSUME TeardownAssumption == None \notin Reporters

VARIABLES
  closer,       \* where the closing thread is
  by,           \* which of "stream" (CloseStream) and "all" (CloseAll) runs
  locked,       \* the room is one that relays under the mutex of its participants
  participant,  \* the plugin is in the room
  plugin_,      \* TransportDelegate::plugin_ is not NULL
  gateway_,     \* TransportPlugin::gateway_ is not NULL
  running_,     \* of the TransportDelegate
  rtp_sender_,  \* "live", "stopping" (in its destructor), "NULL"
  transport,    \* video_transport_: "NULL" before the first offer, "live", "gone"
  dtls_running, \* DtlsTransport::running_
  nice_running, \* NiceConnection::running_
  agent_,       \* the ICE agent is there
  worker, nice, sender, reporter, room,   \* where the threads are
  current,      \* the RR/SR thread rrsr_send_thread_ points to
  key,          \* the stream's key is in stream_update_map_
  freed,        \* the objects that were deleted
  fault,
  \* history
  abandoned     \* timed_join gave up waiting for the ICE thread

how     == <<by, locked>>
fields  == <<participant, plugin_, gateway_, running_, rtp_sender_, transport>>
ice     == <<dtls_running, nice_running, agent_, abandoned>>
threads == <<worker, nice, sender, reporter, room, current>>
vars    == <<closer, how, fields, ice, threads, key, freed, fault>>

Labels ==
  {"open", "stop", "plugin_stop", "listener", "sender", "join_sender", "transport", "nice",
   "join_nice", "join_worker", "key", "members", "join_reporter", "plugin", "data", "done"}
Faults ==
  {None, "null_transport", "null_plugin", "null_agent", "no_sender", "freed_listener",
   "freed_status", "freed_delegate", "freed_plugin", "late_nice"}

-------------------------------------------------------------------------------
(* The mutexes.                                                              *)

PluginMutexFree == worker # "section"
GatewayMutexFree == \A t \in RoomThreads : room[t] # "relay"
RoomMutexFree == locked => \A t \in RoomThreads : room[t] = "idle"

\* What handing a packet to the delegate runs into.
RelayFault ==
  IF "delegate" \in freed THEN "freed_delegate"
  ELSE IF transport = "live" /\ rtp_sender_ = "NULL" THEN "no_sender" ELSE None

\* TransportDelegate::RelayPacket, down to the push in RtpSender.
RelayPacket == fault' = RelayFault

\* What one round of reports runs into: it reads the delegate, and the counters
\* through network_status_.  That pointer is destroyed before the thread is
\* joined; a build that leaves its value finds the object it pointed to, which
\* the RtcpSender keeps.
ReportFaults ==
  IF "delegate" \in freed THEN {"freed_delegate"}
  ELSE {None, RelayFault} \cup (IF "network_status" \in freed THEN {"freed_status"} ELSE {})

\* updateState tests plugin_ and reads it again without the mutex; a build that
\* keeps the first value uses the plugin, which is still there.
NotifyPlugin == fault' \in IF plugin_ THEN {None} ELSE {None, "null_plugin"}

-------------------------------------------------------------------------------
(* The stream at work.                                                       *)

\* ProcessOffer: the RR/SR thread starts and rrsr_send_thread_ lets go of an
\* earlier one.  The first offer of profile SAVPF with a fingerprint makes the
\* transport and its threads; one that comes without and has candidates gives
\* them to a transport that is not there.
ProcessOffer(r) ==
  /\ fault = None /\ closer = "open" /\ reporter[r] = "new" /\ PluginMutexFree
  /\ reporter' = [reporter EXCEPT ![r] = "check"]
  /\ current' = r
  /\ \/ /\ transport = "NULL"
        /\ transport' = "live" /\ worker' = "loop" /\ nice' = "loop"
        /\ dtls_running' = TRUE /\ nice_running' = TRUE /\ agent_' = TRUE
        /\ UNCHANGED fault
     \/ /\ fault' \in IF transport = "NULL" THEN {None, "null_transport"} ELSE {None}
        /\ UNCHANGED <<transport, worker, nice, dtls_running, nice_running, agent_>>
  /\ UNCHANGED <<closer, how, participant, plugin_, gateway_, running_, rtp_sender_, abandoned,
                 sender, room, key, freed>>

\* SendRrSrPacketLoop reads running_ of the delegate ...
ReporterCheck(r) ==
  /\ fault = None /\ reporter[r] = "check"
  /\ IF "delegate" \in freed
     THEN fault' = "freed_delegate" /\ UNCHANGED reporter
     ELSE /\ reporter' = [reporter EXCEPT ![r] = IF running_ THEN "send" ELSE "end"]
          /\ UNCHANGED fault
  /\ UNCHANGED <<closer, how, fields, ice, worker, nice, sender, room, current, key, freed>>

\* ... and sends the reports that are due, or none.
ReporterSend(r) ==
  /\ fault = None /\ reporter[r] = "send"
  /\ fault' \in ReportFaults
  /\ reporter' = [reporter EXCEPT ![r] = IF fault' = None THEN "check" ELSE "send"]
  /\ UNCHANGED <<closer, how, fields, ice, worker, nice, sender, room, current, key, freed>>

\* A thread of the room, or another stream's worker in a bridge, finds the plugin.
RoomEnter(t) ==
  /\ fault = None /\ room[t] = "idle" /\ participant /\ RoomMutexFree
  /\ room' = [room EXCEPT ![t] = "gate"]
  /\ UNCHANGED <<closer, how, fields, ice, worker, nice, sender, reporter, current, key, freed,
                 fault>>

\* RelayRtpPacket, RelayRtcpPacket: the gateway's mutex and pointer.
RoomGate(t) ==
  /\ fault = None /\ room[t] = "gate" /\ GatewayMutexFree
  /\ IF "plugin" \in freed
     THEN fault' = "freed_plugin" /\ UNCHANGED room
     ELSE room' = [room EXCEPT ![t] = IF gateway_ THEN "relay" ELSE "idle"] /\ UNCHANGED fault
  /\ UNCHANGED <<closer, how, fields, ice, worker, nice, sender, reporter, current, key, freed>>

RoomRelay(t) ==
  /\ fault = None /\ room[t] = "relay"
  /\ RelayPacket
  /\ room' = [room EXCEPT ![t] = IF fault' = None THEN "idle" ELSE "relay"]
  /\ UNCHANGED <<closer, how, fields, ice, worker, nice, sender, reporter, current, key, freed>>

-------------------------------------------------------------------------------
(* The worker: getNiceDataLoop, getPacket, onNiceData, onTransportData.       *)

\* Mutant: a connection that is not running gives no packet, and the loop goes on.
WorkerLoopNoEnd ==
  /\ fault = None /\ worker = "loop"
  /\ \/ dtls_running /\ nice_running /\ worker' \in {"loop", "packet", "dtls"}
     \/ dtls_running /\ ~nice_running /\ worker' = "loop"
  /\ UNCHANGED <<closer, how, fields, ice, nice, sender, reporter, room, current, key, freed,
                 fault>>

WorkerLoop ==
  /\ fault = None /\ worker = "loop"
  /\ \/ /\ dtls_running /\ nice_running
        /\ worker' \in {"loop", "packet", "dtls"}     \* 300 ms without a packet, or one
     \/ ~(dtls_running /\ nice_running) /\ worker' = "end"
  /\ dtls_running' = (dtls_running /\ nice_running)
  /\ UNCHANGED <<closer, how, fields, nice_running, agent_, abandoned, nice, sender, reporter,
                 room, current, key, freed, fault>>

\* UpdateStreamIncommingTime puts the key (back) into the map.
WorkerPacket ==
  /\ fault = None /\ worker = "packet"
  /\ key' = TRUE
  /\ worker' = "lock"
  /\ UNCHANGED <<closer, how, fields, ice, nice, sender, reporter, room, current, freed, fault>>

WorkerLock ==
  /\ fault = None /\ worker = "lock"
  /\ worker' = IF plugin_ THEN "section" ELSE "loop"
  /\ UNCHANGED <<closer, how, fields, ice, nice, sender, reporter, room, current, key, freed,
                 fault>>

\* The plugin and the NACK processor work on the packet; either may relay.
WorkerSection ==
  /\ fault = None /\ worker = "section"
  /\ worker' = "loop"
  /\ (GatewayMutexFree /\ RelayPacket) \/ UNCHANGED fault
  /\ UNCHANGED <<closer, how, fields, ice, nice, sender, reporter, room, current, key, freed>>

\* A handshake message: an answer is sent, or the handshake is complete and
\* the new state announced.
WorkerDtls ==
  /\ fault = None /\ worker = "dtls"
  /\ worker' \in {IF nice_running THEN "send" ELSE "loop", IF plugin_ THEN "notify" ELSE "loop"}
  /\ UNCHANGED <<closer, how, fields, ice, nice, sender, reporter, room, current, key, freed,
                 fault>>

\* sendData uses the agent after it has looked at running_.
WorkerSend ==
  /\ fault = None /\ worker = "send"
  /\ fault' = IF agent_ THEN None ELSE "null_agent"
  /\ worker' = IF fault' = None THEN "loop" ELSE "send"
  /\ UNCHANGED <<closer, how, fields, ice, nice, sender, reporter, room, current, key, freed>>

WorkerNotify ==
  /\ fault = None /\ worker = "notify"
  /\ NotifyPlugin
  /\ worker' = IF fault' = None THEN "loop" ELSE "notify"
  /\ UNCHANGED <<closer, how, fields, ice, nice, sender, reporter, room, current, key, freed>>

Worker ==
  \/ WorkerLoop \/ WorkerPacket \/ WorkerLock \/ WorkerSection
  \/ WorkerDtls \/ WorkerSend \/ WorkerNotify

-------------------------------------------------------------------------------
(* The ICE thread: NiceConnection::init and the callbacks it makes.           *)

NiceLoop ==
  /\ fault = None /\ nice = "loop" /\ agent_
  /\ nice' \in IF nice_running THEN {"loop", "candidate", "state"} ELSE {"end"}
  /\ UNCHANGED <<closer, how, fields, ice, worker, sender, reporter, room, current, key, freed,
                 fault>>

\* getCandidate, unless running_ is off, calls the delegate's listener.
NiceCandidate ==
  /\ fault = None /\ nice = "candidate" /\ agent_
  /\ fault' = IF nice_running /\ "listener" \in freed THEN "freed_listener" ELSE None
  /\ nice' = IF fault' = None THEN "loop" ELSE "candidate"
  /\ UNCHANGED <<closer, how, fields, ice, worker, sender, reporter, room, current, key, freed>>

\* updateComponentState: READY is announced; FAILED stops both loops before.
NiceState ==
  /\ fault = None /\ nice = "state" /\ agent_
  /\ \/ UNCHANGED <<nice_running, dtls_running>>
     \/ nice_running' = FALSE /\ dtls_running' = FALSE
  /\ nice' = IF plugin_ THEN "notify" ELSE "loop"
  /\ UNCHANGED <<closer, how, fields, agent_, abandoned, worker, sender, reporter, room, current,
                 key, freed, fault>>

NiceNotify ==
  /\ fault = None /\ nice = "notify" /\ agent_
  /\ NotifyPlugin
  /\ nice' = IF fault' = None THEN "loop" ELSE "notify"
  /\ UNCHANGED <<closer, how, fields, ice, worker, sender, reporter, room, current, key, freed>>

\* After close() has let go of the agent the thread ends, or it runs into what
\* is gone.
NiceLate ==
  /\ fault = None /\ nice \in {"loop", "candidate", "state", "notify"} /\ ~agent_
  /\ \/ transport = "live" /\ nice' = "end" /\ UNCHANGED fault
     \/ fault' = "late_nice" /\ UNCHANGED nice
  /\ UNCHANGED <<closer, how, fields, ice, worker, sender, reporter, room, current, key, freed>>

Nice == NiceLoop \/ NiceCandidate \/ NiceState \/ NiceNotify \/ NiceLate

\* SendThreadLoop, which RtpSender models, ends.
SenderEnd ==
  /\ fault = None /\ sender = "run" /\ rtp_sender_ = "stopping"
  /\ sender' = "end"
  /\ UNCHANGED <<closer, how, fields, ice, worker, nice, reporter, room, current, key, freed,
                 fault>>

-------------------------------------------------------------------------------
(* The closing thread.                                                       *)

\* Mutant: Room::RemoveParticipant without the mutex.
RemoveParticipantUnlocked(b) ==
  /\ fault = None /\ closer = "open"
  /\ by' = b
  /\ participant' = FALSE
  /\ closer' = "stop"
  /\ UNCHANGED <<locked, plugin_, gateway_, running_, rtp_sender_, transport, ice, threads, key,
                 freed, fault>>

\* CloseStream or CloseAll: the room forgets the plugin, then the thread starts.
RemoveParticipant(b) ==
  /\ fault = None /\ closer = "open" /\ RoomMutexFree
  /\ by' = b
  /\ participant' = FALSE
  /\ closer' = "stop"
  /\ UNCHANGED <<locked, plugin_, gateway_, running_, rtp_sender_, transport, ice, threads, key,
                 freed, fault>>

\* Mutant: the plugin is cleared without plugin_mutex_.
StopUnlocked ==
  /\ fault = None /\ closer = "stop"
  /\ plugin_' = FALSE
  /\ closer' = IF by = "stream" THEN "plugin_stop" ELSE "listener"
  /\ UNCHANGED <<how, participant, gateway_, running_, rtp_sender_, transport, ice, threads, key,
                 freed, fault>>

\* endpoint->Stop().  CloseAll asks for the plugin after it, gets NULL, and
\* neither stops nor deletes it.
Stop ==
  /\ fault = None /\ closer = "stop" /\ PluginMutexFree
  /\ plugin_' = FALSE
  /\ closer' = IF by = "stream" THEN "plugin_stop" ELSE "listener"
  /\ UNCHANGED <<how, participant, gateway_, running_, rtp_sender_, transport, ice, threads, key,
                 freed, fault>>

PluginStop ==
  /\ fault = None /\ closer = "plugin_stop" /\ GatewayMutexFree
  /\ gateway_' = FALSE
  /\ closer' = "listener"
  /\ UNCHANGED <<how, participant, plugin_, running_, rtp_sender_, transport, ice, threads, key,
                 freed, fault>>

\* ~WebRtcEndpoint.
DeleteListener ==
  /\ fault = None /\ closer = "listener"
  /\ freed' = freed \cup {"listener"}
  /\ closer' = "sender"
  /\ UNCHANGED <<how, fields, ice, threads, key, fault>>

\* TransportDelegate::Destroy; ~RtpSender waits for its thread.
DestroySender ==
  /\ fault = None /\ closer = "sender"
  /\ running_' = FALSE
  /\ rtp_sender_' = "stopping"
  /\ closer' = "join_sender"
  /\ UNCHANGED <<how, participant, plugin_, gateway_, transport, ice, threads, key, freed, fault>>

JoinSender ==
  /\ fault = None /\ closer = "join_sender" /\ sender = "end"
  /\ rtp_sender_' = "NULL"
  /\ closer' = IF transport = "live" THEN "transport" ELSE "key"
  /\ UNCHANGED <<how, participant, plugin_, gateway_, running_, transport, ice, threads, key,
                 freed, fault>>

\* ~DtlsTransport.
StopTransport ==
  /\ fault = None /\ closer = "transport"
  /\ dtls_running' = FALSE
  /\ closer' = "nice"
  /\ UNCHANGED <<how, fields, nice_running, agent_, abandoned, threads, key, freed, fault>>

\* Mutant: close() leaves running_ on while it waits.
NiceCloseRunning ==
  /\ fault = None /\ closer = "nice"
  /\ closer' = "join_nice"
  /\ UNCHANGED <<how, fields, ice, threads, key, freed, fault>>

\* NiceConnection::close waits 500 ms for the ICE thread and goes on without it.
NiceClose ==
  /\ fault = None /\ closer = "nice"
  /\ nice_running' = FALSE
  /\ closer' = "join_nice"
  /\ UNCHANGED <<how, fields, dtls_running, agent_, abandoned, threads, key, freed, fault>>

JoinNice ==
  /\ fault = None /\ closer = "join_nice"
  /\ abandoned' = (nice # "end")
  /\ agent_' = FALSE
  /\ closer' = "join_worker"
  /\ UNCHANGED <<how, fields, dtls_running, nice_running, threads, key, freed, fault>>

\* Mutant: the destructor does not join the worker.
JoinWorkerNot ==
  /\ fault = None /\ closer = "join_worker"
  /\ transport' = "gone"
  /\ closer' = "key"
  /\ UNCHANGED <<how, participant, plugin_, gateway_, running_, rtp_sender_, ice, threads, key,
                 freed, fault>>

JoinWorker ==
  /\ fault = None /\ closer = "join_worker" /\ worker = "end"
  /\ transport' = "gone"
  /\ closer' = "key"
  /\ UNCHANGED <<how, participant, plugin_, gateway_, running_, rtp_sender_, ice, threads, key,
                 freed, fault>>

\* NetworkStatusManager::Destroy.
DestroyKey ==
  /\ fault = None /\ closer = "key"
  /\ key' = FALSE
  /\ closer' = "members"
  /\ UNCHANGED <<how, fields, ice, threads, freed, fault>>

\* ~TransportDelegate destroys its members in the reverse of their order:
\* network_status_, declared last of those the RR/SR threads use, goes before
\* rtcp_processor_ and its RtcpSender.
DestroyMembers ==
  /\ fault = None /\ closer = "members"
  /\ freed' = freed \cup {"network_status"}
  /\ closer' = "join_reporter"
  /\ UNCHANGED <<how, fields, ice, threads, key, fault>>

\* Mutant: the RR/SR thread is not joined.
JoinReporterNot ==
  /\ fault = None /\ closer = "join_reporter"
  /\ freed' = freed \cup {"delegate"}
  /\ closer' = "plugin"
  /\ UNCHANGED <<how, fields, ice, threads, key, fault>>

\* ~RtcpSender joins the thread it still points to; the delegate is gone then.
JoinReporter ==
  /\ fault = None /\ closer = "join_reporter"
  /\ current # None => reporter[current] = "end"
  /\ freed' = freed \cup {"delegate"}
  /\ closer' = "plugin"
  /\ UNCHANGED <<how, fields, ice, threads, key, fault>>

DeletePlugin ==
  /\ fault = None /\ closer = "plugin"
  /\ freed' = IF by = "stream" THEN freed \cup {"plugin"} ELSE freed
  /\ closer' = "data"
  /\ UNCHANGED <<how, fields, ice, threads, key, fault>>

DeleteStreamData ==
  /\ fault = None /\ closer = "data"
  /\ freed' = freed \cup {"stream_data"}
  /\ closer' = "done"
  /\ UNCHANGED <<how, fields, ice, threads, key, fault>>

CloserStep ==
  \/ Stop \/ PluginStop \/ DeleteListener \/ DestroySender \/ JoinSender \/ StopTransport
  \/ NiceClose \/ JoinNice \/ JoinWorker \/ DestroyKey \/ DestroyMembers \/ JoinReporter
  \/ DeletePlugin \/ DeleteStreamData

-------------------------------------------------------------------------------

\* CreateMediaPipeline has made endpoint, plugin and room entry.  A bridge copies
\* its participants without a mutex; the other rooms relay under theirs.
Init ==
  /\ closer = "open" /\ by = None /\ locked \in BOOLEAN
  /\ participant = TRUE /\ plugin_ = TRUE /\ gateway_ = TRUE
  /\ running_ = TRUE /\ rtp_sender_ = "live" /\ transport = "NULL"
  /\ dtls_running = FALSE /\ nice_running = FALSE /\ agent_ = FALSE /\ abandoned = FALSE
  /\ worker = "new" /\ nice = "new" /\ sender = "run"
  /\ reporter = [r \in Reporters |-> "new"] /\ room = [t \in RoomThreads |-> "idle"]
  /\ current = None
  /\ key = TRUE /\ freed = {} /\ fault = None

Reporter(r) == ReporterCheck(r) \/ ReporterSend(r)
RoomThread(t) == RoomGate(t) \/ RoomRelay(t)

Next ==
  \/ \E r \in Reporters : ProcessOffer(r) \/ Reporter(r)
  \/ \E t \in RoomThreads : RoomEnter(t) \/ RoomThread(t)
  \/ \E b \in {"stream", "all"} : RemoveParticipant(b)
  \/ Worker \/ Nice \/ SenderEnd
  \/ CloserStep

Spec == Init /\ [][Next]_vars

\* Every thread that was started runs.  The closing thread gets plugin_mutex_
\* and gateway_mutex_ in the end although others take them again and again.
FairSpec ==
  /\ Spec
  /\ WF_vars(Worker) /\ WF_vars(Nice) /\ WF_vars(SenderEnd)
  /\ \A r \in Reporters : WF_vars(Reporter(r))
  /\ \A t \in RoomThreads : WF_vars(RoomThread(t))
  /\ SF_vars(Stop \/ PluginStop) /\ WF_vars(CloserStep)

-------------------------------------------------------------------------------
(* Properties.                                                               *)

\* What closing has reached.
DelegateGone == closer \in {"plugin", "data", "done"}
MembersGone == closer = "join_reporter" \/ DelegateGone
KeyRemoved == closer = "members" \/ MembersGone
TransportGone == closer = "key" \/ KeyRemoved
NiceClosed == closer = "join_worker" \/ TransportGone
SenderGone == closer \in {"transport", "nice", "join_nice"} \/ NiceClosed
ListenerGone == closer \in {"sender", "join_sender"} \/ SenderGone
Stopped == closer \in {"plugin_stop", "listener"} \/ ListenerGone

\* The values of the fields and labels.
FlagsOK ==
  /\ participant \in BOOLEAN /\ plugin_ \in BOOLEAN /\ gateway_ \in BOOLEAN
  /\ running_ \in BOOLEAN /\ dtls_running \in BOOLEAN /\ nice_running \in BOOLEAN
  /\ agent_ \in BOOLEAN /\ key \in BOOLEAN /\ abandoned \in BOOLEAN /\ locked \in BOOLEAN
TypeOK ==
  /\ FlagsOK
  /\ closer \in Labels /\ by \in {None, "stream", "all"}
  /\ rtp_sender_ \in {"live", "stopping", "NULL"} /\ transport \in {"NULL", "live", "gone"}
  /\ worker \in {"new", "loop", "packet", "lock", "section", "dtls", "send", "notify", "end"}
  /\ nice \in {"new", "loop", "candidate", "state", "notify", "end"} /\ sender \in {"run", "end"}
  /\ reporter \in [Reporters -> {"new", "check", "send", "end"}]
  /\ room \in [RoomThreads -> {"idle", "gate", "relay"}]
  /\ current \in Reporters \cup {None}
  /\ freed \subseteq {"listener", "network_status", "delegate", "plugin", "stream_data"}
  /\ fault \in Faults

\* While the worker is in the section of plugin_mutex_ nothing it uses can go:
\* the closing thread has not come past Stop().
SectionIsSafe ==
  worker = "section" => plugin_ /\ ~Stopped /\ rtp_sender_ = "live" /\ transport = "live"

\* In a room that relays under its mutex, a relay that is under way finds
\* plugin, gateway, delegate and sender in place.
RelayIsSafe ==
  locked =>
    \A t \in RoomThreads :
      room[t] \in {"gate", "relay"} => closer = "open" /\ gateway_ /\ rtp_sender_ = "live"

\* The delegate goes after every thread that works on it, but for the ICE
\* thread close() gave up on and RR/SR threads a later offer let go of.
DelegateOutlivesThreads ==
  "delegate" \in freed =>
    /\ sender = "end" /\ worker \in {"new", "end"} /\ (nice \in {"new", "end"} \/ abandoned)
    /\ \A r \in Reporters : reporter[r] \in {"new", "end"} \/ r # current

\* A round of reports, and a relay of an unlocked room, that did not see the end.
ReportUnderWay == \E r \in Reporters : reporter[r] = "send"
ReportLetGo == \E r \in Reporters : r # current /\ reporter[r] \in {"check", "send"}
UnlockedRelay == ~locked /\ \E t \in RoomThreads : room[t] = "relay"

\* Every access to an object that is not there, by whom and at which stage of
\* the closing thread; no other thread and no other stage meets one:
\*  - an offer's candidates, when no offer had a fingerprint;
\*  - updateState, which tested plugin_ before Stop(), until the worker is joined;
\*  - sendData, which looked at running_ before close() let go of the agent;
\*  - a report or an unlocked relay after ~RtpSender, while the transport stands;
\*  - a candidate between ~WebRtcEndpoint, which deletes the delegate's
\*    listener first, and close(), which turns the callbacks off;
\*  - a report between the end of network_status_ and the join of its thread;
\*  - a report thread a later offer let go of, or an unlocked relay, when the
\*    delegate is gone; an unlocked relay when CloseStream has deleted the plugin;
\*  - the ICE thread that had not ended 500 ms after close() asked it to.
FaultsExplained ==
  /\ fault = "null_transport" => closer = "open" /\ transport = "NULL"
  /\ fault = "null_plugin" => Stopped /\ ~TransportGone /\ "notify" \in {worker, nice}
  /\ fault = "null_agent" => closer = "join_worker" /\ worker = "send"
  /\ fault = "no_sender" => SenderGone /\ ~TransportGone /\ (ReportUnderWay \/ UnlockedRelay)
  /\ fault = "freed_listener" =>
       closer \in {"sender", "join_sender", "transport", "nice"} /\ nice = "candidate"
  /\ fault = "freed_status" => closer = "join_reporter" /\ ReportUnderWay
  /\ fault = "freed_delegate" => DelegateGone /\ (ReportLetGo \/ UnlockedRelay)
  /\ fault = "freed_plugin" => closer \in {"data", "done"} /\ by = "stream" /\ ~locked
  /\ fault = "late_nice" => NiceClosed /\ nice # "end"

\* The key is in stream_update_map_ for no longer than the teardown takes: no
\* packet noted late puts it back (StreamService.Teardown in one step).
End == INSTANCE StreamEnd WITH
  phase <- IF closer = "open" THEN "open" ELSE IF KeyRemoved THEN "ended" ELSE "closing",
  watched <- key
RefinesStreamEnd == End!Spec

\* The closing thread comes to its end: no thread waits for one that waits.
CloseCompletes == closer # "open" ~> (closer = "done" \/ fault # None)

\* The inductive invariant: what the stage of the closing thread says of the
\* fields, and what the threads may still do at that stage.
FieldsOfStage ==
  /\ (plugin_ <=> ~Stopped) /\ (participant <=> closer = "open")
  /\ (closer \in {"open", "stop", "plugin_stop"} => gateway_)
  /\ ((rtp_sender_ = "live") <=> closer \in {"open", "stop", "plugin_stop", "listener", "sender"})
  /\ ((rtp_sender_ = "NULL") <=> SenderGone)
  /\ ("listener" \in freed => ListenerGone)
  /\ ("network_status" \in freed => MembersGone)
  /\ (("delegate" \in freed) <=> DelegateGone)
  /\ ("plugin" \in freed => closer \in {"data", "done"} /\ by = "stream")
TransportOfStage ==
  /\ ((transport = "NULL") <=> (worker = "new")) /\ ((transport = "NULL") <=> (nice = "new"))
  /\ (transport = "gone" => TransportGone) /\ (TransportGone => transport # "live")
  /\ (closer \in {"transport", "nice", "join_nice", "join_worker"} => transport = "live")
  /\ (agent_ <=> transport = "live" /\ ~NiceClosed)
  /\ (nice_running => transport = "live" /\ closer # "join_nice" /\ ~NiceClosed)
ThreadsOfStage ==
  /\ (SenderGone => sender = "end")
  /\ (TransportGone => worker \in {"new", "end"})
  /\ (worker = "section" => ~Stopped /\ transport = "live")
  /\ (NiceClosed => nice \in {"new", "end"} \/ abandoned)
  /\ (locked => \A t \in RoomThreads : room[t] # "idle" => closer = "open")
  /\ (DelegateGone => \A r \in Reporters : r = current => reporter[r] = "end")
IInv == TypeOK /\ FieldsOfStage /\ TransportOfStage /\ ThreadsOfStage /\ FaultsExplained

\* The three protections of Stop(), RemoveParticipant and the joins together: what
\* a thread works on is there until it is done with it.
UsedIsThere == SectionIsSafe /\ RelayIsSafe /\ DelegateOutlivesThreads

===============================================================================
