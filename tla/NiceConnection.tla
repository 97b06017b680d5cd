----------------------------- MODULE NiceConnection -----------------------------
(***************************************************************************)
(* NiceConnection (orbit/nice_connection.cc): the ICE state of a           *)
(* connection with one component (rtcp-mux) or two, derived from the       *)
(* states libnice reports for each component, and the bounded queue        *)
(* between the ICE thread and the packet thread.  libnice is external.     *)
(*                                                                         *)
(* stamp is the age of last_candidate_timestamp_: "recent" is less than    *)
(* REMOTE_CANDIDATE_TIMEOUT ago.  The field is not initialised, so before  *)
(* the first remote candidate ("unset") it reads as either.                *)
(***************************************************************************)
EXTENDS Integers, Sequences, SequencesExt, FiniteSets

CONSTANTS
  iceComponents_,          \* 1 with rtcp-mux, 2 without
  NICE_QUEUE_MAX_NUMBER,
  MaxEvents,               \* component events of libnice (bound)
  MaxCandidates,           \* setRemoteCandidates calls (bound)
  MaxPackets               \* packets received (bound)

\* What the constants are, for a module that instantiates this one to assume.
NiceAssumption ==
  /\ iceComponents_ \in 1..2 /\ NICE_QUEUE_MAX_NUMBER \in Nat
  /\ MaxEvents \in Nat /\ MaxCandidates \in Nat /\ MaxPackets \in Nat

VARIABLES
  component,           \* libnice: the state of each component
  comp_state_list_,    \* what NiceConnection keeps of it
  iceState_, running_,
  stamp,               \* "unset", "recent", "old"
  ice,                 \* the ICE thread: "idle", a state about to be set, "end"
  worker,              \* the packet thread: "run", "end"
  niceQueue_,
  \* history
  ignored,             \* components whose last FAILED was not applied
  everConnected, everFailed,  \* components that were
  received,            \* packets queued, numbered in order
  taken, drop_queue_packet_,
  \* bounds
  events, candidates

states  == <<comp_state_list_, iceState_, running_>>
queue   == <<niceQueue_, received, taken, drop_queue_packet_>>
history == <<ignored, everConnected, everFailed>>
vars == <<component, states, stamp, ice, worker, queue, history, events, candidates>>

Components == 1..iceComponents_
ComponentStates == {"DISCONNECTED", "CONNECTING", "CONNECTED", "READY", "FAILED"}

\* The ways of a component in libnice (external): checks succeed or fail, the
\* pair is confirmed, a keepalive fails, a new remote candidate restarts it.
AgentMove(from, to) ==
  CASE from = "DISCONNECTED" -> to = "CONNECTING"
    [] from = "CONNECTING"   -> to \in {"CONNECTED", "FAILED"}
    [] from = "CONNECTED"    -> to = "READY"
    [] from = "READY"        -> to = "FAILED"
    [] from = "FAILED"       -> to = "CONNECTING"

-------------------------------------------------------------------------------
(* The ICE thread (init): events of the agent while running.                 *)

\* The IceState a component state stands for: most leave the state as it is.
nice_state(to) ==
  CASE to = "CONNECTED" -> "READY"
    [] to = "FAILED"    -> "FAILED"
    [] OTHER            -> iceState_

\* Mutant: one component is enough.
AgreeAny(list, s) == \E c \in Components : list[c] = s

\* Mutant: the list is looked at before the event is entered.
AgreeBefore(list, s) == s \notin {"READY", "FAILED"} \/ \A c \in Components : comp_state_list_[c] = s

\* For READY and FAILED all components must agree.
Agree(list, s) == s \notin {"READY", "FAILED"} \/ \A c \in Components : list[c] = s

\* A failure is passed over while the last remote candidate is recent: the
\* outcomes the test may have.
Deferred ==
  CASE stamp = "recent" -> {TRUE}
    [] stamp = "old"    -> {FALSE}
    [] OTHER            -> BOOLEAN

\* cb_component_state_changed: updateComponentState, up to updateIceState.
updateComponentState(c, to) ==
  LET s == nice_state(to)
      list == [comp_state_list_ EXCEPT ![c] = s]
  IN  /\ ice = "idle" /\ events < MaxEvents
      /\ AgentMove(component[c], to)
      /\ to = "CONNECTING" /\ component[c] = "FAILED" => candidates > 0
      /\ events' = events + 1
      /\ component' = [component EXCEPT ![c] = to]
      /\ everConnected' = IF to = "CONNECTED" THEN everConnected \cup {c} ELSE everConnected
      /\ everFailed' = IF to = "FAILED" THEN everFailed \cup {c} ELSE everFailed
      /\ \/ /\ s = "FAILED" /\ TRUE \in Deferred
            /\ ignored' = ignored \cup {c}
            /\ UNCHANGED <<comp_state_list_, ice>>
         \/ /\ s = "FAILED" => FALSE \in Deferred
            /\ comp_state_list_' = list
            /\ ice' = IF Agree(list, s) THEN s ELSE "idle"
            /\ ignored' = ignored \ {c}
      /\ UNCHANGED <<iceState_, running_, stamp, worker, queue, candidates>>

\* updateIceState, on the ICE thread; listeners are told outside (DtlsHandshake).
updateIceState ==
  /\ ice \in {"INITIAL", "READY", "FAILED", "FINISHED"}
  /\ iceState_' = ice
  /\ running_' = (running_ /\ ice \notin {"FAILED", "FINISHED"})
  /\ ice' = "idle"
  /\ UNCHANGED <<component, comp_state_list_, stamp, worker, queue, history, events, candidates>>

\* Mutant: a full queue gives up its newest packet.
queueDataNewest ==
  LET drop == IF Len(niceQueue_) > NICE_QUEUE_MAX_NUMBER THEN Len(niceQueue_) - NICE_QUEUE_MAX_NUMBER ELSE 0
  IN  /\ ice = "idle" /\ iceState_ = "READY" /\ running_ /\ received < MaxPackets
      /\ received' = received + 1
      /\ niceQueue_' = Append(SubSeq(niceQueue_, 1, Len(niceQueue_) - drop), received')
      /\ drop_queue_packet_' = drop_queue_packet_ + drop
      /\ UNCHANGED <<component, states, stamp, ice, worker, taken, history, events, candidates>>

\* cb_nice_recv: a packet of a connection that is READY is queued, and the
\* oldest ones make room for it.  Any other packet is passed over.
queueData ==
  LET drop == IF Len(niceQueue_) > NICE_QUEUE_MAX_NUMBER THEN Len(niceQueue_) - NICE_QUEUE_MAX_NUMBER ELSE 0
  IN  /\ ice = "idle" /\ iceState_ = "READY" /\ running_ /\ received < MaxPackets
      /\ received' = received + 1
      /\ niceQueue_' = Append(SubSeq(niceQueue_, drop + 1, Len(niceQueue_)), received')
      /\ drop_queue_packet_' = drop_queue_packet_ + drop
      /\ UNCHANGED <<component, states, stamp, ice, worker, taken, history, events, candidates>>

\* The loop of init ends; until then the agent may still call back.
LoopEnds ==
  /\ ice = "idle" /\ (~running_ \/ iceState_ \in {"FINISHED", "FAILED"})
  /\ ice' = "end"
  /\ UNCHANGED <<component, states, stamp, worker, queue, history, events, candidates>>

-------------------------------------------------------------------------------
(* The other threads.                                                        *)

\* getPacket on the packet thread.
getPacket ==
  /\ worker = "run" /\ running_ /\ iceState_ # "FINISHED" /\ niceQueue_ # <<>>
  /\ taken' = taken + 1
  /\ niceQueue_' = Tail(niceQueue_)
  /\ UNCHANGED <<component, states, stamp, ice, worker, received, drop_queue_packet_, history, events, candidates>>

\* getPacket after the end: the length -1 ends getNiceDataLoop.
getPacketEnd ==
  /\ worker = "run" /\ (iceState_ = "FINISHED" \/ ~running_)
  /\ worker' = "end"
  /\ UNCHANGED <<component, states, stamp, ice, queue, history, events, candidates>>

\* A service thread sets remote candidates.
setRemoteCandidates ==
  /\ candidates < MaxCandidates
  /\ candidates' = candidates + 1
  /\ stamp' = "recent"
  /\ UNCHANGED <<component, states, ice, worker, queue, history, events>>

\* REMOTE_CANDIDATE_TIMEOUT passes.
TimePasses ==
  /\ stamp = "recent"
  /\ stamp' = "old"
  /\ UNCHANGED <<component, states, ice, worker, queue, history, events, candidates>>

\* Mutant: only the ICE state tells that the connection is closed.
closeRunning ==
  /\ iceState_ # "FINISHED"
  /\ iceState_' = "FINISHED"
  /\ UNCHANGED <<component, comp_state_list_, running_, stamp, ice, worker, queue, history, events, candidates>>

\* close, on the thread that destroys the transport (its joins: StreamTeardown).
close ==
  /\ iceState_ # "FINISHED"
  /\ running_' = FALSE
  /\ iceState_' = "FINISHED"
  /\ UNCHANGED <<component, comp_state_list_, stamp, ice, worker, queue, history, events, candidates>>

-------------------------------------------------------------------------------

Init ==
  /\ component = [c \in Components |-> "DISCONNECTED"]
  /\ comp_state_list_ = [c \in Components |-> "INITIAL"]
  /\ iceState_ = "INITIAL" /\ running_ = TRUE /\ stamp = "unset" /\ ice = "idle" /\ worker = "run"
  /\ niceQueue_ = <<>> /\ received = 0 /\ taken = 0 /\ drop_queue_packet_ = 0
  /\ ignored = {} /\ everConnected = {} /\ everFailed = {}
  /\ events = 0 /\ candidates = 0

IceEvent == \E c \in Components, to \in ComponentStates : updateComponentState(c, to)

Next ==
  \/ IceEvent \/ updateIceState \/ queueData \/ LoopEnds
  \/ getPacket \/ getPacketEnd
  \/ setRemoteCandidates \/ TimePasses \/ close

Spec == Init /\ [][Next]_vars

\* The threads run and time passes; libnice need not report anything.
FairSpec ==
  /\ Spec
  /\ WF_vars(updateIceState) /\ WF_vars(LoopEnds)
  /\ WF_vars(getPacket \/ getPacketEnd) /\ WF_vars(TimePasses)

-------------------------------------------------------------------------------

IceStates == {"INITIAL", "READY", "FINISHED", "FAILED"}

\* The states of the connection and of its components; a queue of at most one
\* packet more than NICE_QUEUE_MAX_NUMBER (nice_connection.cc:419 tests with >).
TypeOK ==
  /\ component \in [Components -> ComponentStates]
  /\ comp_state_list_ \in [Components -> IceStates]
  /\ iceState_ \in IceStates /\ running_ \in BOOLEAN
  /\ stamp \in {"unset", "recent", "old"} /\ ice \in IceStates \cup {"idle", "end"}
  /\ worker \in {"run", "end"} /\ Len(niceQueue_) \in 0..NICE_QUEUE_MAX_NUMBER + 1

\* READY is never reported, whatever events of the two components interleave
\* and whatever entries other events overwrite, before every component was
\* connected, nor FAILED before every component failed.
StateIsAgreed ==
  /\ iceState_ = "READY" => everConnected = Components
  /\ iceState_ = "FAILED" => everFailed = Components

\* The queue holds the latest packets without a gap and every packet is
\* accounted for: taken by the packet thread, queued, or counted as dropped.
QueueIsLatest ==
  /\ \A i \in 1..Len(niceQueue_) : niceQueue_[i] = received - Len(niceQueue_) + i
  /\ received = taken + Len(niceQueue_) + drop_queue_packet_

\* Once close ran the packet thread ends, although an event the ICE thread was
\* handling may overwrite FINISHED afterwards.
ClosedEnds == iceState_ = "FINISHED" ~> worker = "end" /\ ice = "end"

\* When every component has failed the connection fails, unless a failure was
\* passed over because a remote candidate was recent: that one is lost, although
\* nice_connection.cc:703 says "deferred until a certain timeout".
FailureIsSet ==
  LET AllFailed == \A c \in Components : component[c] = "FAILED"
  IN  AllFailed ~> ignored # {} \/ iceState_ \in {"FAILED", "FINISHED"} \/ ~running_ \/ ~AllFailed

===============================================================================
