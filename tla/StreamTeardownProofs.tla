------------------------- MODULE StreamTeardownProofs --------------------------
(***************************************************************************)
(* Proofs about StreamTeardown, for any number of RR/SR threads and of     *)
(* threads of the room.  The invariant ties what each thread may still do  *)
(* to the stage of the closing thread; flags are proved with Zenon, which  *)
(* handles Boolean values, and the rest by SMT.                            *)
(***************************************************************************)
EXTENDS StreamTeardown, TLAPS

USE TeardownAssumption
    DEF how, fields, ice, threads, None,
        DelegateGone, MembersGone, KeyRemoved, TransportGone, NiceClosed, SenderGone, ListenerGone, Stopped

-------------------------------------------------------------------------------
(* The inductive invariant: every action keeps it.                           *)

\* CreateMediaPipeline leaves a stream that satisfies it.
LEMMA InitIInv == Init => IInv
  <1> SUFFICES ASSUME Init PROVE IInv OBVIOUS
  <1>1. FlagsOK BY Zenon DEF Init, FlagsOK
  <1>2. TypeOK BY <1>1 DEF Init, TypeOK, Labels, Faults
  <1>3. FieldsOfStage BY DEF Init, FieldsOfStage
  <1>4. TransportOfStage BY DEF Init, TransportOfStage
  <1>5. ThreadsOfStage BY DEF Init, ThreadsOfStage
  <1>6. FaultsExplained BY DEF Init, FaultsExplained
  <1>7. QED BY <1>2, <1>3, <1>4, <1>5, <1>6 DEF IInv

\* A first offer makes transport and threads together; a later one only replaces current.
LEMMA ProcessOfferIInv == ASSUME IInv, NEW r \in Reporters, ProcessOffer(r) PROVE IInv'
  <1> USE DEF IInv, ProcessOffer, PluginMutexFree
  <1>1. FlagsOK' BY Zenon DEF TypeOK, FlagsOK
  <1>2. TypeOK' BY <1>1 DEF TypeOK, Labels, Faults
  <1> USE DEF TypeOK, FlagsOK, FieldsOfStage, TransportOfStage, ThreadsOfStage
  <1>3. FieldsOfStage' OBVIOUS
  <1>4. TransportOfStage' OBVIOUS
  <1>5. ThreadsOfStage' OBVIOUS
  <1>6. FaultsExplained' BY DEF FaultsExplained, ReportUnderWay, ReportLetGo, UnlockedRelay
  <1>7. QED BY <1>2, <1>3, <1>4, <1>5, <1>6

\* An RR/SR thread finds the delegate gone only when it is not the current one.
LEMMA ReporterCheckIInv == ASSUME IInv, NEW r \in Reporters, ReporterCheck(r) PROVE IInv'
  <1> USE DEF IInv, ReporterCheck
  <1>1. FlagsOK' BY Zenon DEF TypeOK, FlagsOK
  <1>2. TypeOK' BY <1>1 DEF TypeOK, Labels, Faults
  <1> USE DEF TypeOK, FlagsOK, FieldsOfStage, TransportOfStage, ThreadsOfStage
  <1>3. FieldsOfStage' OBVIOUS
  <1>4. TransportOfStage' OBVIOUS
  <1>5. ThreadsOfStage' OBVIOUS
  <1>6. FaultsExplained' BY DEF FaultsExplained, ReportUnderWay, ReportLetGo, UnlockedRelay
  <1>7. QED BY <1>2, <1>3, <1>4, <1>5, <1>6

\* Likewise when it relays.
LEMMA ReporterSendIInv == ASSUME IInv, NEW r \in Reporters, ReporterSend(r) PROVE IInv'
  <1> USE DEF IInv, ReporterSend, ReportFaults, RelayFault
  <1>1. FlagsOK' BY Zenon DEF TypeOK, FlagsOK
  <1>2. TypeOK' BY <1>1 DEF TypeOK, Labels, Faults
  <1> USE DEF TypeOK, FlagsOK, FieldsOfStage, TransportOfStage, ThreadsOfStage
  <1>3. FieldsOfStage' OBVIOUS
  <1>4. TransportOfStage' OBVIOUS
  <1>5. ThreadsOfStage' OBVIOUS
  <1>6. FaultsExplained' BY DEF FaultsExplained, ReportUnderWay, ReportLetGo, UnlockedRelay
  <1>7. QED BY <1>2, <1>3, <1>4, <1>5, <1>6

\* A thread of a locked room comes in only while the plugin is a participant.
LEMMA RoomEnterIInv == ASSUME IInv, NEW t \in RoomThreads, RoomEnter(t) PROVE IInv'
  <1> USE DEF IInv, RoomEnter, RoomMutexFree
  <1>1. FlagsOK' BY Zenon DEF TypeOK, FlagsOK
  <1>2. TypeOK' BY <1>1 DEF TypeOK, Labels, Faults
  <1> USE DEF TypeOK, FlagsOK, FieldsOfStage, TransportOfStage, ThreadsOfStage
  <1>3. FieldsOfStage' OBVIOUS
  <1>4. TransportOfStage' OBVIOUS
  <1>5. ThreadsOfStage' OBVIOUS
  <1>6. FaultsExplained' BY DEF FaultsExplained, ReportUnderWay, ReportLetGo, UnlockedRelay
  <1>7. QED BY <1>2, <1>3, <1>4, <1>5, <1>6

\* So the plugin is there when it takes the gateway's mutex.
LEMMA RoomGateIInv == ASSUME IInv, NEW t \in RoomThreads, RoomGate(t) PROVE IInv'
  <1> USE DEF IInv, RoomGate, GatewayMutexFree
  <1>1. FlagsOK' BY Zenon DEF TypeOK, FlagsOK
  <1>2. TypeOK' BY <1>1 DEF TypeOK, Labels, Faults
  <1> USE DEF TypeOK, FlagsOK, FieldsOfStage, TransportOfStage, ThreadsOfStage
  <1>3. FieldsOfStage' OBVIOUS
  <1>4. TransportOfStage' OBVIOUS
  <1>5. ThreadsOfStage' OBVIOUS
  <1>6. FaultsExplained' BY DEF FaultsExplained, ReportUnderWay, ReportLetGo, UnlockedRelay
  <1>7. QED BY <1>2, <1>3, <1>4, <1>5, <1>6

\* And the delegate when it relays.
LEMMA RoomRelayIInv == ASSUME IInv, NEW t \in RoomThreads, RoomRelay(t) PROVE IInv'
  <1> USE DEF IInv, RoomRelay, RelayPacket, RelayFault
  <1>1. FlagsOK' BY Zenon DEF TypeOK, FlagsOK
  <1>2. TypeOK' BY <1>1 DEF TypeOK, Labels, Faults
  <1> USE DEF TypeOK, FlagsOK, FieldsOfStage, TransportOfStage, ThreadsOfStage
  <1>3. FieldsOfStage' OBVIOUS
  <1>4. TransportOfStage' OBVIOUS
  <1>5. ThreadsOfStage' OBVIOUS
  <1>6. FaultsExplained' BY DEF FaultsExplained, ReportUnderWay, ReportLetGo, UnlockedRelay
  <1>7. QED BY <1>2, <1>3, <1>4, <1>5, <1>6

\* The room's mutex is free, so no relay is under way when closing begins.
LEMMA RemoveParticipantIInv == ASSUME IInv, NEW b \in {"stream", "all"}, RemoveParticipant(b) PROVE IInv'
  <1> USE DEF IInv, RemoveParticipant, RoomMutexFree
  <1>1. FlagsOK' BY Zenon DEF TypeOK, FlagsOK
  <1>2. TypeOK' BY <1>1 DEF TypeOK, Labels, Faults
  <1> USE DEF TypeOK, FlagsOK, FieldsOfStage, TransportOfStage, ThreadsOfStage
  <1>3. FieldsOfStage' OBVIOUS
  <1>4. TransportOfStage' OBVIOUS
  <1>5. ThreadsOfStage' OBVIOUS
  <1>6. FaultsExplained' BY DEF FaultsExplained, ReportUnderWay, ReportLetGo, UnlockedRelay
  <1>7. QED BY <1>2, <1>3, <1>4, <1>5, <1>6

-------------------------------------------------------------------------------
(* The worker.                                                               *)

\* The worker leaves its loop when either flag is down.
LEMMA WorkerLoopIInv == ASSUME IInv, WorkerLoop PROVE IInv'
  <1> USE DEF IInv, WorkerLoop
  <1>1. FlagsOK' BY Zenon DEF TypeOK, FlagsOK
  <1>2. TypeOK' BY <1>1 DEF TypeOK, Labels, Faults
  <1> USE DEF TypeOK, FlagsOK, FieldsOfStage, TransportOfStage, ThreadsOfStage
  <1>3. FieldsOfStage' OBVIOUS
  <1>4. TransportOfStage' OBVIOUS
  <1>5. ThreadsOfStage' OBVIOUS
  <1>6. FaultsExplained' BY DEF FaultsExplained, ReportUnderWay, ReportLetGo, UnlockedRelay
  <1>7. QED BY <1>2, <1>3, <1>4, <1>5, <1>6

\* A packet is noted only while the transport is there.
LEMMA WorkerPacketIInv == ASSUME IInv, WorkerPacket PROVE IInv'
  <1> USE DEF IInv, WorkerPacket
  <1>1. FlagsOK' BY Zenon DEF TypeOK, FlagsOK
  <1>2. TypeOK' BY <1>1 DEF TypeOK, Labels, Faults
  <1> USE DEF TypeOK, FlagsOK, FieldsOfStage, TransportOfStage, ThreadsOfStage
  <1>3. FieldsOfStage' OBVIOUS
  <1>4. TransportOfStage' OBVIOUS
  <1>5. ThreadsOfStage' OBVIOUS
  <1>6. FaultsExplained' BY DEF FaultsExplained, ReportUnderWay, ReportLetGo, UnlockedRelay
  <1>7. QED BY <1>2, <1>3, <1>4, <1>5, <1>6

\* The section is entered only while plugin_ is set, that is before Stop().
LEMMA WorkerLockIInv == ASSUME IInv, WorkerLock PROVE IInv'
  <1> USE DEF IInv, WorkerLock
  <1>1. FlagsOK' BY Zenon DEF TypeOK, FlagsOK
  <1>2. TypeOK' BY <1>1 DEF TypeOK, Labels, Faults
  <1> USE DEF TypeOK, FlagsOK, FieldsOfStage, TransportOfStage, ThreadsOfStage
  <1>3. FieldsOfStage' OBVIOUS
  <1>4. TransportOfStage' OBVIOUS
  <1>5. ThreadsOfStage' OBVIOUS
  <1>6. FaultsExplained' BY DEF FaultsExplained, ReportUnderWay, ReportLetGo, UnlockedRelay
  <1>7. QED BY <1>2, <1>3, <1>4, <1>5, <1>6

\* In it the delegate is there.
LEMMA WorkerSectionIInv == ASSUME IInv, WorkerSection PROVE IInv'
  <1> USE DEF IInv, WorkerSection, RelayPacket, RelayFault, GatewayMutexFree
  <1>1. FlagsOK' BY Zenon DEF TypeOK, FlagsOK
  <1>2. TypeOK' BY <1>1 DEF TypeOK, Labels, Faults
  <1> USE DEF TypeOK, FlagsOK, FieldsOfStage, TransportOfStage, ThreadsOfStage
  <1>3. FieldsOfStage' OBVIOUS
  <1>4. TransportOfStage' OBVIOUS
  <1>5. ThreadsOfStage' OBVIOUS
  <1>6. FaultsExplained' BY DEF FaultsExplained, ReportUnderWay, ReportLetGo, UnlockedRelay
  <1>7. QED BY <1>2, <1>3, <1>4, <1>5, <1>6

\* A handshake message changes no field.
LEMMA WorkerDtlsIInv == ASSUME IInv, WorkerDtls PROVE IInv'
  <1> USE DEF IInv, WorkerDtls
  <1>1. FlagsOK' BY Zenon DEF TypeOK, FlagsOK
  <1>2. TypeOK' BY <1>1 DEF TypeOK, Labels, Faults
  <1> USE DEF TypeOK, FlagsOK, FieldsOfStage, TransportOfStage, ThreadsOfStage
  <1>3. FieldsOfStage' OBVIOUS
  <1>4. TransportOfStage' OBVIOUS
  <1>5. ThreadsOfStage' OBVIOUS
  <1>6. FaultsExplained' BY DEF FaultsExplained, ReportUnderWay, ReportLetGo, UnlockedRelay
  <1>7. QED BY <1>2, <1>3, <1>4, <1>5, <1>6

\* The agent may be gone (null_agent), nothing else is touched.
LEMMA WorkerSendIInv == ASSUME IInv, WorkerSend PROVE IInv'
  <1> USE DEF IInv, WorkerSend
  <1>1. FlagsOK' BY Zenon DEF TypeOK, FlagsOK
  <1>2. TypeOK' BY <1>1 DEF TypeOK, Labels, Faults
  <1> USE DEF TypeOK, FlagsOK, FieldsOfStage, TransportOfStage, ThreadsOfStage
  <1>3. FieldsOfStage' OBVIOUS
  <1>4. TransportOfStage' OBVIOUS
  <1>5. ThreadsOfStage' OBVIOUS
  <1>6. FaultsExplained' BY DEF FaultsExplained, ReportUnderWay, ReportLetGo, UnlockedRelay
  <1>7. QED BY <1>2, <1>3, <1>4, <1>5, <1>6

\* plugin_ may be NULL by now (null_plugin).
LEMMA WorkerNotifyIInv == ASSUME IInv, WorkerNotify PROVE IInv'
  <1> USE DEF IInv, WorkerNotify, NotifyPlugin
  <1>1. FlagsOK' BY Zenon DEF TypeOK, FlagsOK
  <1>2. TypeOK' BY <1>1 DEF TypeOK, Labels, Faults
  <1> USE DEF TypeOK, FlagsOK, FieldsOfStage, TransportOfStage, ThreadsOfStage
  <1>3. FieldsOfStage' OBVIOUS
  <1>4. TransportOfStage' OBVIOUS
  <1>5. ThreadsOfStage' OBVIOUS
  <1>6. FaultsExplained' BY DEF FaultsExplained, ReportUnderWay, ReportLetGo, UnlockedRelay
  <1>7. QED BY <1>2, <1>3, <1>4, <1>5, <1>6

-------------------------------------------------------------------------------
(* The ICE thread and the sender thread.                                     *)

\* The ICE thread with its agent.
LEMMA NiceLoopIInv == ASSUME IInv, NiceLoop PROVE IInv'
  <1> USE DEF IInv, NiceLoop
  <1>1. FlagsOK' BY Zenon DEF TypeOK, FlagsOK
  <1>2. TypeOK' BY <1>1 DEF TypeOK, Labels, Faults
  <1> USE DEF TypeOK, FlagsOK, FieldsOfStage, TransportOfStage, ThreadsOfStage
  <1>3. FieldsOfStage' OBVIOUS
  <1>4. TransportOfStage' OBVIOUS
  <1>5. ThreadsOfStage' OBVIOUS
  <1>6. FaultsExplained' BY DEF FaultsExplained, ReportUnderWay, ReportLetGo, UnlockedRelay
  <1>7. QED BY <1>2, <1>3, <1>4, <1>5, <1>6

\* The listener may be gone (freed_listener).
LEMMA NiceCandidateIInv == ASSUME IInv, NiceCandidate PROVE IInv'
  <1> USE DEF IInv, NiceCandidate
  <1>1. FlagsOK' BY Zenon DEF TypeOK, FlagsOK
  <1>2. TypeOK' BY <1>1 DEF TypeOK, Labels, Faults
  <1> USE DEF TypeOK, FlagsOK, FieldsOfStage, TransportOfStage, ThreadsOfStage
  <1>3. FieldsOfStage' OBVIOUS
  <1>4. TransportOfStage' OBVIOUS
  <1>5. ThreadsOfStage' OBVIOUS
  <1>6. FaultsExplained' BY DEF FaultsExplained, ReportUnderWay, ReportLetGo, UnlockedRelay
  <1>7. QED BY <1>2, <1>3, <1>4, <1>5, <1>6

\* FAILED takes both flags down.
LEMMA NiceStateIInv == ASSUME IInv, NiceState PROVE IInv'
  <1> USE DEF IInv, NiceState
  <1>1. FlagsOK' BY Zenon DEF TypeOK, FlagsOK
  <1>2. TypeOK' BY <1>1 DEF TypeOK, Labels, Faults
  <1> USE DEF TypeOK, FlagsOK, FieldsOfStage, TransportOfStage, ThreadsOfStage
  <1>3. FieldsOfStage' OBVIOUS
  <1>4. TransportOfStage' OBVIOUS
  <1>5. ThreadsOfStage' OBVIOUS
  <1>6. FaultsExplained' BY DEF FaultsExplained, ReportUnderWay, ReportLetGo, UnlockedRelay
  <1>7. QED BY <1>2, <1>3, <1>4, <1>5, <1>6

\* plugin_ may be NULL by now (null_plugin).
LEMMA NiceNotifyIInv == ASSUME IInv, NiceNotify PROVE IInv'
  <1> USE DEF IInv, NiceNotify, NotifyPlugin
  <1>1. FlagsOK' BY Zenon DEF TypeOK, FlagsOK
  <1>2. TypeOK' BY <1>1 DEF TypeOK, Labels, Faults
  <1> USE DEF TypeOK, FlagsOK, FieldsOfStage, TransportOfStage, ThreadsOfStage
  <1>3. FieldsOfStage' OBVIOUS
  <1>4. TransportOfStage' OBVIOUS
  <1>5. ThreadsOfStage' OBVIOUS
  <1>6. FaultsExplained' BY DEF FaultsExplained, ReportUnderWay, ReportLetGo, UnlockedRelay
  <1>7. QED BY <1>2, <1>3, <1>4, <1>5, <1>6

\* Without an agent the thread is one that close() gave up on.
LEMMA NiceLateIInv == ASSUME IInv, NiceLate PROVE IInv'
  <1> USE DEF IInv, NiceLate
  <1>1. FlagsOK' BY Zenon DEF TypeOK, FlagsOK
  <1>2. TypeOK' BY <1>1 DEF TypeOK, Labels, Faults
  <1> USE DEF TypeOK, FlagsOK, FieldsOfStage, TransportOfStage, ThreadsOfStage
  <1>3. FieldsOfStage' OBVIOUS
  <1>4. TransportOfStage' OBVIOUS
  <1>5. ThreadsOfStage' OBVIOUS
  <1>6. FaultsExplained' BY DEF FaultsExplained, ReportUnderWay, ReportLetGo, UnlockedRelay
  <1>7. QED BY <1>2, <1>3, <1>4, <1>5, <1>6

\* The sender thread ends once it is told to.
LEMMA SenderEndIInv == ASSUME IInv, SenderEnd PROVE IInv'
  <1> USE DEF IInv, SenderEnd
  <1>1. FlagsOK' BY Zenon DEF TypeOK, FlagsOK
  <1>2. TypeOK' BY <1>1 DEF TypeOK, Labels, Faults
  <1> USE DEF TypeOK, FlagsOK, FieldsOfStage, TransportOfStage, ThreadsOfStage
  <1>3. FieldsOfStage' OBVIOUS
  <1>4. TransportOfStage' OBVIOUS
  <1>5. ThreadsOfStage' OBVIOUS
  <1>6. FaultsExplained' BY DEF FaultsExplained, ReportUnderWay, ReportLetGo, UnlockedRelay
  <1>7. QED BY <1>2, <1>3, <1>4, <1>5, <1>6

-------------------------------------------------------------------------------
(* The closing thread.                                                       *)

\* plugin_mutex_ is free, so the worker is not in its section.
LEMMA StopIInv == ASSUME IInv, Stop PROVE IInv'
  <1> USE DEF IInv, Stop, PluginMutexFree
  <1>1. FlagsOK' BY Zenon DEF TypeOK, FlagsOK
  <1>2. TypeOK' BY <1>1 DEF TypeOK, Labels, Faults
  <1> USE DEF TypeOK, FlagsOK, FieldsOfStage, TransportOfStage, ThreadsOfStage
  <1>3. FieldsOfStage' OBVIOUS
  <1>4. TransportOfStage' OBVIOUS
  <1>5. ThreadsOfStage' OBVIOUS
  <1>6. FaultsExplained' BY DEF FaultsExplained, ReportUnderWay, ReportLetGo, UnlockedRelay
  <1>7. QED BY <1>2, <1>3, <1>4, <1>5, <1>6

\* Nobody relays any more in a locked room.
LEMMA PluginStopIInv == ASSUME IInv, PluginStop PROVE IInv'
  <1> USE DEF IInv, PluginStop, GatewayMutexFree
  <1>1. FlagsOK' BY Zenon DEF TypeOK, FlagsOK
  <1>2. TypeOK' BY <1>1 DEF TypeOK, Labels, Faults
  <1> USE DEF TypeOK, FlagsOK, FieldsOfStage, TransportOfStage, ThreadsOfStage
  <1>3. FieldsOfStage' OBVIOUS
  <1>4. TransportOfStage' OBVIOUS
  <1>5. ThreadsOfStage' OBVIOUS
  <1>6. FaultsExplained' BY DEF FaultsExplained, ReportUnderWay, ReportLetGo, UnlockedRelay
  <1>7. QED BY <1>2, <1>3, <1>4, <1>5, <1>6

\* The listener goes first.
LEMMA DeleteListenerIInv == ASSUME IInv, DeleteListener PROVE IInv'
  <1> USE DEF IInv, DeleteListener
  <1>1. FlagsOK' BY Zenon DEF TypeOK, FlagsOK
  <1>2. TypeOK' BY <1>1 DEF TypeOK, Labels, Faults
  <1> USE DEF TypeOK, FlagsOK, FieldsOfStage, TransportOfStage, ThreadsOfStage
  <1>3. FieldsOfStage' OBVIOUS
  <1>4. TransportOfStage' OBVIOUS
  <1>5. ThreadsOfStage' OBVIOUS
  <1>6. FaultsExplained' BY DEF FaultsExplained, ReportUnderWay, ReportLetGo, UnlockedRelay
  <1>7. QED BY <1>2, <1>3, <1>4, <1>5, <1>6

\* The sender is told to stop.
LEMMA DestroySenderIInv == ASSUME IInv, DestroySender PROVE IInv'
  <1> USE DEF IInv, DestroySender
  <1>1. FlagsOK' BY Zenon DEF TypeOK, FlagsOK
  <1>2. TypeOK' BY <1>1 DEF TypeOK, Labels, Faults
  <1> USE DEF TypeOK, FlagsOK, FieldsOfStage, TransportOfStage, ThreadsOfStage
  <1>3. FieldsOfStage' OBVIOUS
  <1>4. TransportOfStage' OBVIOUS
  <1>5. ThreadsOfStage' OBVIOUS
  <1>6. FaultsExplained' BY DEF FaultsExplained, ReportUnderWay, ReportLetGo, UnlockedRelay
  <1>7. QED BY <1>2, <1>3, <1>4, <1>5, <1>6

\* Without a transport its stages are skipped.
LEMMA JoinSenderIInv == ASSUME IInv, JoinSender PROVE IInv'
  <1> USE DEF IInv, JoinSender
  <1>1. FlagsOK' BY Zenon DEF TypeOK, FlagsOK
  <1>2. TypeOK' BY <1>1 DEF TypeOK, Labels, Faults
  <1> USE DEF TypeOK, FlagsOK, FieldsOfStage, TransportOfStage, ThreadsOfStage
  <1>3. FieldsOfStage' OBVIOUS
  <1>4. TransportOfStage' OBVIOUS
  <1>5. ThreadsOfStage' OBVIOUS
  <1>6. FaultsExplained' BY DEF FaultsExplained, ReportUnderWay, ReportLetGo, UnlockedRelay
  <1>7. QED BY <1>2, <1>3, <1>4, <1>5, <1>6

\* The worker's flag.
LEMMA StopTransportIInv == ASSUME IInv, StopTransport PROVE IInv'
  <1> USE DEF IInv, StopTransport
  <1>1. FlagsOK' BY Zenon DEF TypeOK, FlagsOK
  <1>2. TypeOK' BY <1>1 DEF TypeOK, Labels, Faults
  <1> USE DEF TypeOK, FlagsOK, FieldsOfStage, TransportOfStage, ThreadsOfStage
  <1>3. FieldsOfStage' OBVIOUS
  <1>4. TransportOfStage' OBVIOUS
  <1>5. ThreadsOfStage' OBVIOUS
  <1>6. FaultsExplained' BY DEF FaultsExplained, ReportUnderWay, ReportLetGo, UnlockedRelay
  <1>7. QED BY <1>2, <1>3, <1>4, <1>5, <1>6

\* The connection's flag.
LEMMA NiceCloseIInv == ASSUME IInv, NiceClose PROVE IInv'
  <1> USE DEF IInv, NiceClose
  <1>1. FlagsOK' BY Zenon DEF TypeOK, FlagsOK
  <1>2. TypeOK' BY <1>1 DEF TypeOK, Labels, Faults
  <1> USE DEF TypeOK, FlagsOK, FieldsOfStage, TransportOfStage, ThreadsOfStage
  <1>3. FieldsOfStage' OBVIOUS
  <1>4. TransportOfStage' OBVIOUS
  <1>5. ThreadsOfStage' OBVIOUS
  <1>6. FaultsExplained' BY DEF FaultsExplained, ReportUnderWay, ReportLetGo, UnlockedRelay
  <1>7. QED BY <1>2, <1>3, <1>4, <1>5, <1>6

\* The agent goes; a thread that is still there is abandoned.
LEMMA JoinNiceIInv == ASSUME IInv, JoinNice PROVE IInv'
  <1> USE DEF IInv, JoinNice
  <1>1. FlagsOK' BY Zenon DEF TypeOK, FlagsOK
  <1>2. TypeOK' BY <1>1 DEF TypeOK, Labels, Faults
  <1> USE DEF TypeOK, FlagsOK, FieldsOfStage, TransportOfStage, ThreadsOfStage
  <1>3. FieldsOfStage' OBVIOUS
  <1>4. TransportOfStage' OBVIOUS
  <1>5. ThreadsOfStage' OBVIOUS
  <1>6. FaultsExplained' BY DEF FaultsExplained, ReportUnderWay, ReportLetGo, UnlockedRelay
  <1>7. QED BY <1>2, <1>3, <1>4, <1>5, <1>6

\* The transport goes after the worker.
LEMMA JoinWorkerIInv == ASSUME IInv, JoinWorker PROVE IInv'
  <1> USE DEF IInv, JoinWorker
  <1>1. FlagsOK' BY Zenon DEF TypeOK, FlagsOK
  <1>2. TypeOK' BY <1>1 DEF TypeOK, Labels, Faults
  <1> USE DEF TypeOK, FlagsOK, FieldsOfStage, TransportOfStage, ThreadsOfStage
  <1>3. FieldsOfStage' OBVIOUS
  <1>4. TransportOfStage' OBVIOUS
  <1>5. ThreadsOfStage' OBVIOUS
  <1>6. FaultsExplained' BY DEF FaultsExplained, ReportUnderWay, ReportLetGo, UnlockedRelay
  <1>7. QED BY <1>2, <1>3, <1>4, <1>5, <1>6

\* The key goes after the worker, too.
LEMMA DestroyKeyIInv == ASSUME IInv, DestroyKey PROVE IInv'
  <1> USE DEF IInv, DestroyKey
  <1>1. FlagsOK' BY Zenon DEF TypeOK, FlagsOK
  <1>2. TypeOK' BY <1>1 DEF TypeOK, Labels, Faults
  <1> USE DEF TypeOK, FlagsOK, FieldsOfStage, TransportOfStage, ThreadsOfStage
  <1>3. FieldsOfStage' OBVIOUS
  <1>4. TransportOfStage' OBVIOUS
  <1>5. ThreadsOfStage' OBVIOUS
  <1>6. FaultsExplained' BY DEF FaultsExplained, ReportUnderWay, ReportLetGo, UnlockedRelay
  <1>7. QED BY <1>2, <1>3, <1>4, <1>5, <1>6

\* network_status_ goes before the RR/SR thread is joined.
LEMMA DestroyMembersIInv == ASSUME IInv, DestroyMembers PROVE IInv'
  <1> USE DEF IInv, DestroyMembers
  <1>1. FlagsOK' BY Zenon DEF TypeOK, FlagsOK
  <1>2. TypeOK' BY <1>1 DEF TypeOK, Labels, Faults
  <1> USE DEF TypeOK, FlagsOK, FieldsOfStage, TransportOfStage, ThreadsOfStage
  <1>3. FieldsOfStage' OBVIOUS
  <1>4. TransportOfStage' OBVIOUS
  <1>5. ThreadsOfStage' OBVIOUS
  <1>6. FaultsExplained' BY DEF FaultsExplained, ReportUnderWay, ReportLetGo, UnlockedRelay
  <1>7. QED BY <1>2, <1>3, <1>4, <1>5, <1>6

\* The delegate goes after the current RR/SR thread.
LEMMA JoinReporterIInv == ASSUME IInv, JoinReporter PROVE IInv'
  <1> USE DEF IInv, JoinReporter
  <1>1. FlagsOK' BY Zenon DEF TypeOK, FlagsOK
  <1>2. TypeOK' BY <1>1 DEF TypeOK, Labels, Faults
  <1> USE DEF TypeOK, FlagsOK, FieldsOfStage, TransportOfStage, ThreadsOfStage
  <1>3. FieldsOfStage' OBVIOUS
  <1>4. TransportOfStage' OBVIOUS
  <1>5. ThreadsOfStage' OBVIOUS
  <1>6. FaultsExplained' BY DEF FaultsExplained, ReportUnderWay, ReportLetGo, UnlockedRelay
  <1>7. QED BY <1>2, <1>3, <1>4, <1>5, <1>6

\* CloseAll leaves the plugin behind.
LEMMA DeletePluginIInv == ASSUME IInv, DeletePlugin PROVE IInv'
  <1> USE DEF IInv, DeletePlugin
  <1>1. FlagsOK' BY Zenon DEF TypeOK, FlagsOK
  <1>2. TypeOK' BY <1>1 DEF TypeOK, Labels, Faults
  <1> USE DEF TypeOK, FlagsOK, FieldsOfStage, TransportOfStage, ThreadsOfStage
  <1>3. FieldsOfStage' OBVIOUS
  <1>4. TransportOfStage' OBVIOUS
  <1>5. ThreadsOfStage' OBVIOUS
  <1>6. FaultsExplained' BY DEF FaultsExplained, ReportUnderWay, ReportLetGo, UnlockedRelay
  <1>7. QED BY <1>2, <1>3, <1>4, <1>5, <1>6

\* The last object.
LEMMA DeleteStreamDataIInv == ASSUME IInv, DeleteStreamData PROVE IInv'
  <1> USE DEF IInv, DeleteStreamData
  <1>1. FlagsOK' BY Zenon DEF TypeOK, FlagsOK
  <1>2. TypeOK' BY <1>1 DEF TypeOK, Labels, Faults
  <1> USE DEF TypeOK, FlagsOK, FieldsOfStage, TransportOfStage, ThreadsOfStage
  <1>3. FieldsOfStage' OBVIOUS
  <1>4. TransportOfStage' OBVIOUS
  <1>5. ThreadsOfStage' OBVIOUS
  <1>6. FaultsExplained' BY DEF FaultsExplained, ReportUnderWay, ReportLetGo, UnlockedRelay
  <1>7. QED BY <1>2, <1>3, <1>4, <1>5, <1>6

\* A step that changes nothing.
LEMMA StutterIInv == ASSUME IInv, UNCHANGED vars PROVE IInv'
  BY DEF vars, IInv, TypeOK, FlagsOK, FieldsOfStage, TransportOfStage, ThreadsOfStage,
     FaultsExplained, ReportUnderWay, ReportLetGo, UnlockedRelay, Labels, Faults

-------------------------------------------------------------------------------
(* The theorems.                                                             *)

\* IInv is an invariant of the teardown.
THEOREM Invariance == Spec => []IInv
  <1>1. ASSUME IInv, [Next]_vars PROVE IInv'
    <2>1. ASSUME NEW r \in Reporters, ProcessOffer(r) \/ Reporter(r) PROVE IInv'
      BY <1>1, <2>1, ProcessOfferIInv, ReporterCheckIInv, ReporterSendIInv DEF Reporter
    <2>2. ASSUME NEW t \in RoomThreads, RoomEnter(t) \/ RoomThread(t) PROVE IInv'
      BY <1>1, <2>2, RoomEnterIInv, RoomGateIInv, RoomRelayIInv DEF RoomThread
    <2>3. ASSUME NEW b \in {"stream", "all"}, RemoveParticipant(b) PROVE IInv'
      BY <1>1, <2>3, RemoveParticipantIInv
    <2>4. CASE Worker
      BY <1>1, <2>4, WorkerLoopIInv, WorkerPacketIInv, WorkerLockIInv, WorkerSectionIInv,
         WorkerDtlsIInv, WorkerSendIInv, WorkerNotifyIInv DEF Worker
    <2>5. CASE Nice \/ SenderEnd
      BY <1>1, <2>5, NiceLoopIInv, NiceCandidateIInv, NiceStateIInv, NiceNotifyIInv, NiceLateIInv,
         SenderEndIInv DEF Nice
    <2>6. CASE CloserStep
      BY <1>1, <2>6, StopIInv, PluginStopIInv, DeleteListenerIInv, DestroySenderIInv,
         JoinSenderIInv, StopTransportIInv, NiceCloseIInv, JoinNiceIInv, JoinWorkerIInv,
         DestroyKeyIInv, DestroyMembersIInv, JoinReporterIInv, DeletePluginIInv,
         DeleteStreamDataIInv DEF CloserStep
    <2>7. CASE UNCHANGED vars BY <1>1, <2>7, StutterIInv
    <2>8. QED BY <1>1, <2>1, <2>2, <2>3, <2>4, <2>5, <2>6, <2>7 DEF Next
  <1>2. QED BY InitIInv, <1>1, PTL DEF Spec

\* Fields and labels keep their types.
THEOREM TypeCorrect == Spec => []TypeOK
  <1>1. IInv => TypeOK BY DEF IInv
  <1>2. QED BY Invariance, <1>1, PTL

\* onTransportData's section of plugin_mutex_ never overlaps what Stop() allows.
THEOREM SectionSafe == Spec => []SectionIsSafe
  <1>1. IInv => SectionIsSafe
    BY DEF IInv, SectionIsSafe, TypeOK, FlagsOK, FieldsOfStage, ThreadsOfStage, Labels
  <1>2. QED BY Invariance, <1>1, PTL

\* A room that relays under its mutex never relays into a stream that closes.
THEOREM RelaySafe == Spec => []RelayIsSafe
  <1>1. IInv => RelayIsSafe
    BY DEF IInv, RelayIsSafe, TypeOK, FlagsOK, FieldsOfStage, ThreadsOfStage
  <1>2. QED BY Invariance, <1>1, PTL

\* The joins of Destroy(), ~DtlsTransport and ~RtcpSender come before the delegate goes.
THEOREM JoinedBeforeFreed == Spec => []DelegateOutlivesThreads
  <1>1. IInv => DelegateOutlivesThreads
    BY DEF IInv, DelegateOutlivesThreads, TypeOK, FieldsOfStage, ThreadsOfStage
  <1>2. QED BY Invariance, <1>1, PTL

\* What a thread works on is there until it is done with it.
THEOREM UsedStays == Spec => []UsedIsThere
  BY SectionSafe, RelaySafe, JoinedBeforeFreed, PTL DEF UsedIsThere

\* Whoever uses an object that is not there, and the stage of the teardown at
\* which it does, is in the list of FaultsExplained: in a locked room without a
\* second offer no thread reaches a freed delegate or plugin.
THEOREM FreedAccess == Spec => []FaultsExplained
  <1>1. IInv => FaultsExplained BY DEF IInv
  <1>2. QED BY Invariance, <1>1, PTL

\* The teardown implements StreamEnd: what the session service sees of it is
\* one step that removes the key for good.
THEOREM TeardownRefinesStreamEnd == Spec => RefinesStreamEnd
  <1> USE DEF End!vars, End!Packet, End!Close, End!End, End!Next
  <1>1. Init => End!Init BY DEF Init, End!Init
  <1>2. ASSUME IInv, [Next]_vars PROVE [End!Next]_End!vars
    <2> USE <1>2 DEF IInv, TypeOK, ThreadsOfStage
    <2>1. ASSUME NEW r \in Reporters, ProcessOffer(r) \/ Reporter(r) PROVE UNCHANGED End!vars
      BY <2>1 DEF ProcessOffer, Reporter, ReporterCheck, ReporterSend
    <2>2. ASSUME NEW t \in RoomThreads, RoomEnter(t) \/ RoomThread(t) PROVE UNCHANGED End!vars
      BY <2>2 DEF RoomEnter, RoomThread, RoomGate, RoomRelay
    <2>3. ASSUME NEW b \in {"stream", "all"}, RemoveParticipant(b) PROVE End!Close
      BY <2>3 DEF RemoveParticipant
    <2>4. CASE WorkerPacket BY <2>4 DEF WorkerPacket
    <2>5. CASE Worker /\ ~WorkerPacket
      BY <2>5 DEF Worker, WorkerLoop, WorkerLock, WorkerSection, WorkerDtls, WorkerSend,
         WorkerNotify
    <2>6. CASE Nice \/ SenderEnd
      BY <2>6 DEF Nice, NiceLoop, NiceCandidate, NiceState, NiceNotify, NiceLate, SenderEnd
    <2>7. CASE DestroyKey BY <2>7 DEF DestroyKey
    <2>8. CASE CloserStep /\ ~DestroyKey
      BY <2>8 DEF CloserStep, Stop, PluginStop, DeleteListener, DestroySender, JoinSender,
         StopTransport, NiceClose, JoinNice, JoinWorker, DestroyMembers, JoinReporter,
         DeletePlugin, DeleteStreamData
    <2>9. CASE UNCHANGED vars BY <2>9 DEF vars
    <2>10. QED
      BY <2>1, <2>2, <2>3, <2>4, <2>5, <2>6, <2>7, <2>8, <2>9 DEF Next
  <1>3. QED BY <1>1, <1>2, Invariance, PTL DEF Spec, RefinesStreamEnd, End!Spec

===============================================================================
