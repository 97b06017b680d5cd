----------------------------- MODULE StreamService -----------------------------
(***************************************************************************)
(* The session service of orbit/server/orbit_stream_service_impl.cc: gRPC  *)
(* handler threads, the watchdog thread and the detached recycle threads   *)
(* that share the map of SessionData objects and the statusz tables.       *)
(*                                                                         *)
(* A SessionData object is an Item.  It is allocated by InsertSessionData, *)
(* found through session_data (sessionMap), locked through its own mutex,  *)
(* and deleted by the watchdog only.  Handlers keep the raw pointer they   *)
(* looked up (ptr) while they wait for the mutex.                          *)
(*                                                                         *)
(* A step that C++ leaves undefined (a NULL or dangling pipeline, a freed  *)
(* SessionData, a NULL SessionInfoPtr) sets fault; nothing is claimed of a *)
(* behaviour after that.                                                   *)
(***************************************************************************)
EXTENDS Statusz

CONSTANTS
  Items,      \* SessionData objects that may be allocated (bound)
  Rpcs,       \* gRPC handler threads
  Recyclers,  \* detached RecycleSessionThread threads
  Watchdog,   \* the WatchDogThread
  FreshIds    \* TRUE: rand() never repeats a value it has drawn, and a client
              \* closes only streams whose id it was given

ASSUME ThreadsAssumption ==
  /\ Watchdog \notin Rpcs \cup Recyclers
  /\ Rpcs \cap Recyclers = {}
  /\ NULL \notin Rpcs \cup Recyclers \cup {Watchdog}
  /\ NULL \notin Items
  /\ NULL \notin Streams

ASSUME FreshAssumption == FreshIds \in BOOLEAN

VARIABLES
  \* SessionData, per object
  alloc,        \* unused, live, leaked (insert refused) or freed
  sid,          \* session_id
  state,        \* SESSION_ACTIVE, SESSION_CLOSED, SESSION_DESTROYED
  pipe,         \* the pipeline field: null, live, or dangling after delete
  streams,      \* stream_data_ of the pipeline
  mutex,        \* the thread that holds SessionData::mutex, or NULL
  expired,      \* now - destroy_time > 60000
  \* shared tables
  sessionMap,   \* session_data: id -> object or NULL
  keys,         \* NetworkStatusManager::stream_update_map_
  pending,      \* streams handed to a detached teardown thread
  \* threads
  pc, op, ptr, cid, cst,
  wdKeys,       \* remove_stream: keys the watchdog has still to visit
  \* the environment and the outcome
  usedIds, usedStreams,
  fault

itemVars   == <<alloc, sid, state, pipe, streams, mutex, expired>>
netVars    == <<keys, pending>>
threadVars == <<pc, op, ptr, cid, cst, wdKeys>>
usedVars   == <<usedIds, usedStreams>>

vars == <<alloc, sid, state, pipe, streams, mutex, expired, sessionMap,
          infoStatus, infoStreams, keys, pending, pc, op, ptr, cid, cst,
          wdKeys, usedIds, usedStreams, fault>>

Threads == Rpcs \cup Recyclers \cup {Watchdog}
Keys    == Ids \X Streams
Ops     == {"CreateSession", "CloseSession", "CreateStream", "CloseStream", "Message"}
Allocs  == {"unused", "live", "leaked", "freed"}
SessionState == {"ACTIVE", "CLOSED", "DESTROYED"}
Destroying   == {"d_remove", "d_closeall", "d_delete", "d_null", "d_time", "d_state"}
PCs == Destroying \cup {"idle", "new", "read", "insert", "lock", "act", "tail", "unlock",
                        "scan", "close", "check"}
Faults == {"none", "freed_item", "null_pipeline", "dangling_pipeline", "null_info"}

-------------------------------------------------------------------------------
(* MediaPipeline, as the service uses it.                                    *)

\* Mutant: a stream is dropped without a teardown thread.
PipelineCloseStreamNoThread(i, st) ==
  /\ streams' = [streams EXCEPT ![i] = @ \ {st}]
  /\ UNCHANGED netVars

\* Internal::CloseStream: erase the stream and hand it to a detached thread
\* that stops and deletes it; an unknown stream changes nothing.
PipelineCloseStream(i, st) ==
  /\ streams' = [streams EXCEPT ![i] = @ \ {st}]
  /\ pending' = IF st \in streams[i] THEN pending \cup {<<sid[i], st>>} ELSE pending
  /\ UNCHANGED keys

\* Mutant: the thread gets a copy and the map is not emptied.
PipelineCloseAllNoSwap(i) ==
  /\ pending' = pending \cup ({sid[i]} \X streams[i])
  /\ UNCHANGED <<streams, keys>>

\* Internal::CloseAll: swap the whole map out and hand it to one thread.
PipelineCloseAll(i) ==
  /\ streams' = [streams EXCEPT ![i] = {}]
  /\ pending' = pending \cup ({sid[i]} \X streams[i])
  /\ UNCHANGED keys

\* The detached thread deletes the endpoint; ~TransportDelegate drops the key.
Teardown(k) ==
  /\ k \in pending
  /\ pending' = pending \ {k}
  /\ keys' = keys \ {k}
  /\ UNCHANGED <<itemVars, sessionMap, infoVars, threadVars, usedVars, fault>>

-------------------------------------------------------------------------------
(* SessionData and the session map.                                          *)

\* Mutant: a session that is being closed still counts as active.
IsActiveUntilDestroyed(i) == state[i] # "DESTROYED"

IsActive(i) == state[i] = "ACTIVE"

\* Mutant: the state is not looked at closely enough.
CanRecycleClosed(i) == state[i] # "ACTIVE" /\ expired[i]

CanRecycle(i) == state[i] = "DESTROYED" /\ expired[i]

GetSessionData(s) == sessionMap[s]

\* GetPipeline: the pipeline field of the object the map holds for s.
GetPipeline(s) == IF GetSessionData(s) = NULL THEN "null" ELSE pipe[GetSessionData(s)]

Goto(t, label) == pc' = [pc EXCEPT ![t] = label] /\ UNCHANGED <<op, ptr, cid, cst>>

\* The thread's call (or its visit of one key) ends: its locals are gone.
Finish(t, label) ==
  /\ pc' = [pc EXCEPT ![t] = label]
  /\ op' = [op EXCEPT ![t] = NULL]
  /\ ptr' = [ptr EXCEPT ![t] = NULL]
  /\ cid' = [cid EXCEPT ![t] = NULL]
  /\ cst' = [cst EXCEPT ![t] = NULL]

Fail(kind) ==
  /\ fault' = kind
  /\ UNCHANGED <<itemVars, sessionMap, infoVars, netVars, threadVars, usedVars>>

Unlock(t, i) == mutex' = [mutex EXCEPT ![i] = IF @ = t THEN NULL ELSE @]

-------------------------------------------------------------------------------
(* CreateSession.                                                            *)

\* Draw ids until GetSessionData finds none; another thread may insert the
\* same id before this one does.
CreateSession(r, s) ==
  /\ pc[r] = "idle"
  /\ \E i \in Items : alloc[i] = "unused"
  /\ GetSessionData(s) = NULL
  /\ FreshIds => s \notin usedIds
  /\ usedIds' = IF FreshIds THEN usedIds \cup {s} ELSE usedIds
  /\ pc' = [pc EXCEPT ![r] = "new"]
  /\ op' = [op EXCEPT ![r] = "CreateSession"]
  /\ cid' = [cid EXCEPT ![r] = s]
  /\ UNCHANGED <<itemVars, sessionMap, infoVars, netVars, ptr, cst, wdKeys, usedStreams, fault>>

\* GetPipeline(session_id): look the id up again ...
CreateSessionLookup(r) ==
  /\ pc[r] = "new"
  /\ pc' = [pc EXCEPT ![r] = "read"]
  /\ ptr' = [ptr EXCEPT ![r] = GetSessionData(cid[r])]
  /\ UNCHANGED <<itemVars, sessionMap, infoVars, netVars, op, cid, cst, wdKeys, usedVars, fault>>

\* ... and read the pipeline field of what is there by now.  A pipeline found
\* that way is used for the new object too (ptr stays).  With none found the
\* session is added to statusz before the type is examined, so an unknown
\* type returns CANCELLED and leaves the entry behind.
CreateSessionPipeline(r) ==
  /\ pc[r] = "read"
  /\ \/ /\ ptr[r] # NULL /\ alloc[ptr[r]] = "freed"
        /\ Fail("freed_item")
     \/ /\ ptr[r] # NULL /\ alloc[ptr[r]] # "freed" /\ pipe[ptr[r]] # "null"
        /\ Goto(r, "insert")
        /\ UNCHANGED <<itemVars, sessionMap, infoVars, netVars, wdKeys, usedVars, fault>>
     \/ /\ ptr[r] # NULL => alloc[ptr[r]] # "freed" /\ pipe[ptr[r]] = "null"
        /\ AddSessionInfo(cid[r])
        /\ \/ /\ pc' = [pc EXCEPT ![r] = "insert"]
              /\ ptr' = [ptr EXCEPT ![r] = NULL]
              /\ UNCHANGED <<op, cid, cst>>
           \/ Finish(r, "idle")
        /\ UNCHANGED <<itemVars, sessionMap, netVars, wdKeys, usedVars, fault>>

\* map::insert keeps an entry that is already there: the new object is then
\* reachable from nowhere.  When the id is free and the pipeline is that of
\* another object, that object has been purged and its pipeline deleted: the
\* model stops where the invalid pointer is published.
InsertSessionData(r, i) ==
  /\ pc[r] = "insert"
  /\ alloc[i] = "unused"
  /\ LET free == GetSessionData(cid[r]) = NULL
     IN  IF free /\ ptr[r] # NULL
         THEN Fail("dangling_pipeline")
         ELSE /\ alloc' = [alloc EXCEPT ![i] = IF free THEN "live" ELSE "leaked"]
              /\ sessionMap' = [sessionMap EXCEPT ![cid[r]] = IF free THEN i ELSE @]
              /\ sid' = [sid EXCEPT ![i] = cid[r]]
              /\ pipe' = [pipe EXCEPT ![i] = "live"]
              /\ Finish(r, "idle")
              /\ UNCHANGED <<state, streams, mutex, expired, infoVars, netVars, wdKeys,
                             usedVars, fault>>

-------------------------------------------------------------------------------
(* CloseSession, CreateStream, CloseStream, Send/RecvSessionMessage.         *)

\* Look the session up.  CloseStream on an unknown session still updates
\* statusz; every other call on one returns without an effect.
Call(r, o, s, st) ==
  /\ pc[r] = "idle"
  /\ o # "CreateSession"
  /\ GetSessionData(s) # NULL \/ o = "CloseStream"
  /\ o = "CloseStream" <=> st # NULL
  /\ FreshIds /\ o = "CloseStream" => <<s, st>> \in usedStreams
  /\ pc' = [pc EXCEPT ![r] = IF GetSessionData(s) # NULL THEN "lock" ELSE "tail"]
  /\ op' = [op EXCEPT ![r] = o]
  /\ ptr' = [ptr EXCEPT ![r] = GetSessionData(s)]
  /\ cid' = [cid EXCEPT ![r] = s]
  /\ cst' = [cst EXCEPT ![r] = st]
  /\ UNCHANGED <<itemVars, sessionMap, infoVars, netVars, wdKeys, usedVars, fault>>

\* scoped_lock on an object the watchdog has deleted since the lookup.
CallFreed(r) ==
  /\ pc[r] = "lock" /\ alloc[ptr[r]] = "freed"
  /\ Fail("freed_item")

Lockable(r) == pc[r] = "lock" /\ alloc[ptr[r]] # "freed" /\ mutex[ptr[r]] = NULL

\* The session was closed: the call returns at once.
CallRejected(r) ==
  /\ Lockable(r) /\ ~IsActive(ptr[r])
  /\ Finish(r, "idle")
  /\ UNCHANGED <<itemVars, sessionMap, infoVars, netVars, wdKeys, usedVars, fault>>

CallEnter(r) ==
  /\ Lockable(r) /\ IsActive(ptr[r]) /\ op[r] # "CloseSession"
  /\ mutex' = [mutex EXCEPT ![ptr[r]] = r]
  /\ Goto(r, "act")
  /\ UNCHANGED <<alloc, sid, state, pipe, streams, expired, sessionMap, infoVars,
                 netVars, wdKeys, usedVars, fault>>

\* CloseSession closes the session in the section that checked it, and tears
\* it down (Destroy, below) before it releases the mutex.
CloseSession(r) ==
  /\ Lockable(r) /\ IsActive(ptr[r]) /\ op[r] = "CloseSession"
  /\ mutex' = [mutex EXCEPT ![ptr[r]] = r]
  /\ state' = [state EXCEPT ![ptr[r]] = "CLOSED"]
  /\ Goto(r, "d_remove")
  /\ UNCHANGED <<alloc, sid, pipe, streams, expired, sessionMap, infoVars,
                 netVars, wdKeys, usedVars, fault>>

\* The pipeline the handler works on: CloseStream takes the field of the
\* object it locked, the others look the session up again (GetPipeline).
HandlerItem(r) == IF op[r] = "CloseStream" THEN ptr[r] ELSE GetSessionData(cid[r])

HandlerPipe(r) == IF op[r] = "CloseStream" THEN pipe[ptr[r]] ELSE GetPipeline(cid[r])

\* Leave the locked section.
Return(r) ==
  /\ Unlock(r, ptr[r])
  /\ IF op[r] = "CloseStream" THEN Goto(r, "tail") ELSE Finish(r, "idle")
  /\ UNCHANGED <<alloc, sid, state, pipe, expired, sessionMap, wdKeys, usedIds, fault>>

\* rand() until GetStreamData finds none.
DrawableStreams(i) ==
  {st \in Streams \ streams[i] : FreshIds => <<sid[i], st>> \notin usedStreams}

\* A pool of stream ids that is used up (bound) ends the call like a NULL
\* pipeline does.
HandleCreateStream(r) ==
  /\ op[r] = "CreateStream"
  /\ LET i == HandlerItem(r)
     IN  IF HandlerPipe(r) = "null" \/ DrawableStreams(i) = {}
         THEN UNCHANGED <<streams, keys, usedStreams, infoVars>>
         ELSE \E st \in DrawableStreams(i) :
                /\ streams' = [streams EXCEPT ![i] = @ \cup {st}]
                /\ keys' = keys \cup {<<sid[i], st>>}
                /\ usedStreams' = IF FreshIds THEN usedStreams \cup {<<sid[i], st>>}
                                               ELSE usedStreams
                /\ AddStreamInfo(cid[r], st)
  /\ UNCHANGED pending

HandleCloseStream(r) ==
  /\ op[r] = "CloseStream"
  /\ IF HandlerPipe(r) = "null"
     THEN UNCHANGED <<streams, netVars>>
     ELSE PipelineCloseStream(ptr[r], cst[r])
  /\ UNCHANGED <<infoVars, usedStreams>>

\* ICE candidates, offers, user messages, status: nothing that is kept here.
HandleMessage(r) ==
  /\ op[r] = "Message"
  /\ UNCHANGED <<streams, infoVars, netVars, usedStreams>>

Handle(r) ==
  /\ pc[r] = "act"
  /\ IF HandlerPipe(r) = "dangling"
     THEN Fail("dangling_pipeline")
     ELSE /\ HandleCreateStream(r) \/ HandleCloseStream(r) \/ HandleMessage(r)
          /\ Return(r)

\* CloseStream marks the stream in statusz after it has released the mutex.
CloseStreamTail(r) ==
  /\ pc[r] = "tail"
  /\ RemoveStreamInfo(cid[r], cst[r])
  /\ Finish(r, "idle")
  /\ UNCHANGED <<itemVars, sessionMap, netVars, wdKeys, usedVars, fault>>

-------------------------------------------------------------------------------
(* Tearing a session down.  CloseSession runs these steps with the session   *)
(* mutex held, a RecycleSessionThread runs them without it.                  *)

DestroyRemoveInfo(t) ==
  /\ pc[t] = "d_remove"
  /\ IF pipe[ptr[t]] = "null"
     THEN Goto(t, "d_time") /\ UNCHANGED infoVars
     ELSE Goto(t, "d_closeall") /\ RemoveSessionInfo(sid[ptr[t]])
  /\ UNCHANGED <<itemVars, sessionMap, netVars, wdKeys, usedVars, fault>>

DestroyCloseAll(t) ==
  /\ pc[t] = "d_closeall"
  /\ IF pipe[ptr[t]] = "live"
     THEN /\ PipelineCloseAll(ptr[t])
          /\ Goto(t, "d_delete")
          /\ UNCHANGED <<alloc, sid, state, pipe, mutex, expired, sessionMap, infoVars,
                         wdKeys, usedVars, fault>>
     ELSE Fail("dangling_pipeline")

\* SessionData::Destroy: delete pipeline, pipeline = NULL, destroy_time, state.
DestroyDelete(t) ==
  /\ pc[t] = "d_delete"
  /\ pipe' = [pipe EXCEPT ![ptr[t]] = "dangling"]
  /\ Goto(t, "d_null")
  /\ UNCHANGED <<alloc, sid, state, streams, mutex, expired, sessionMap, infoVars,
                 netVars, wdKeys, usedVars, fault>>

DestroyNull(t) ==
  /\ pc[t] = "d_null"
  /\ pipe' = [pipe EXCEPT ![ptr[t]] = "null"]
  /\ Goto(t, "d_time")
  /\ UNCHANGED <<alloc, sid, state, streams, mutex, expired, sessionMap, infoVars,
                 netVars, wdKeys, usedVars, fault>>

DestroyTime(t) ==
  /\ pc[t] = "d_time"
  /\ expired' = [expired EXCEPT ![ptr[t]] = FALSE]
  /\ Goto(t, "d_state")
  /\ UNCHANGED <<alloc, sid, state, pipe, streams, mutex, sessionMap, infoVars,
                 netVars, wdKeys, usedVars, fault>>

\* After the state is set a RecycleSessionThread ends; CloseSession has still
\* to release the mutex.
AfterDestroy(t) == IF t \in Rpcs THEN Goto(t, "unlock") ELSE Finish(t, "idle")

\* Mutants of DestroyState: the thread deletes the object itself; the state
\* is never set.
DestroyStateAndDelete(t) ==
  /\ pc[t] = "d_state"
  /\ state' = [state EXCEPT ![ptr[t]] = "DESTROYED"]
  /\ alloc' = [alloc EXCEPT ![ptr[t]] = "freed"]
  /\ sessionMap' = [sessionMap EXCEPT ![sid[ptr[t]]] = NULL]
  /\ AfterDestroy(t)
  /\ UNCHANGED <<sid, pipe, streams, mutex, expired, infoVars, netVars, wdKeys, usedVars, fault>>

DestroyStateForgotten(t) ==
  /\ pc[t] = "d_state"
  /\ AfterDestroy(t)
  /\ UNCHANGED <<itemVars, sessionMap, infoVars, netVars, wdKeys, usedVars, fault>>

DestroyState(t) ==
  /\ pc[t] = "d_state"
  /\ state' = [state EXCEPT ![ptr[t]] = "DESTROYED"]
  /\ AfterDestroy(t)
  /\ UNCHANGED <<alloc, sid, pipe, streams, mutex, expired, sessionMap, infoVars,
                 netVars, wdKeys, usedVars, fault>>

\* ~scoped_lock at the end of CloseSession, on an object the watchdog may
\* delete once it is destroyed and old.
DestroyUnlock(t) ==
  /\ pc[t] = "unlock"
  /\ IF alloc[ptr[t]] = "freed"
     THEN Fail("freed_item")
     ELSE /\ Unlock(t, ptr[t])
          /\ Finish(t, "idle")
          /\ UNCHANGED <<alloc, sid, state, pipe, streams, expired, sessionMap, infoVars,
                         netVars, wdKeys, usedVars, fault>>

Destroy(t) ==
  \/ DestroyRemoveInfo(t) \/ DestroyCloseAll(t) \/ DestroyDelete(t)
  \/ DestroyNull(t) \/ DestroyTime(t) \/ DestroyState(t) \/ DestroyUnlock(t)

\* Sixty seconds pass after destroy_time.
Elapse(i) ==
  /\ state[i] = "DESTROYED" /\ ~expired[i]
  /\ expired' = [expired EXCEPT ![i] = TRUE]
  /\ UNCHANGED <<alloc, sid, state, pipe, streams, mutex, sessionMap, infoVars,
                 netVars, threadVars, usedVars, fault>>

-------------------------------------------------------------------------------
(* The watchdog.                                                             *)

\* TraverseStreamMap: any streams may have been silent for leave_time.
WatchdogTraverse ==
  /\ pc[Watchdog] = "idle"
  /\ wdKeys' \in SUBSET keys
  /\ Goto(Watchdog, "scan")
  /\ UNCHANGED <<itemVars, sessionMap, infoVars, netVars, usedVars, fault>>

WatchdogNext(k) ==
  /\ pc[Watchdog] = "scan" /\ k \in wdKeys
  /\ wdKeys' = wdKeys \ {k}
  /\ IF GetSessionData(k[1]) = NULL
     THEN UNCHANGED <<pc, op, ptr, cid, cst>>
     ELSE /\ pc' = [pc EXCEPT ![Watchdog] = "lock"]
          /\ ptr' = [ptr EXCEPT ![Watchdog] = GetSessionData(k[1])]
          /\ cid' = [cid EXCEPT ![Watchdog] = k[1]]
          /\ cst' = [cst EXCEPT ![Watchdog] = k[2]]
          /\ UNCHANGED op
  /\ UNCHANGED <<itemVars, sessionMap, infoVars, netVars, usedVars, fault>>

WatchdogLock ==
  /\ pc[Watchdog] = "lock"
  /\ mutex[ptr[Watchdog]] = NULL
  /\ mutex' = [mutex EXCEPT ![ptr[Watchdog]] = Watchdog]
  /\ Goto(Watchdog, "close")
  /\ UNCHANGED <<alloc, sid, state, pipe, streams, expired, sessionMap, infoVars,
                 netVars, wdKeys, usedVars, fault>>

\* CloseInvalidStream calls through the pipeline field without looking at it
\* or at the state.
CloseInvalidStream ==
  /\ pc[Watchdog] = "close" /\ pipe[ptr[Watchdog]] = "live"
  /\ PipelineCloseStream(ptr[Watchdog], cst[Watchdog])
  /\ RemoveStreamInfo(cid[Watchdog], cst[Watchdog])
  /\ Goto(Watchdog, "check")
  /\ UNCHANGED <<alloc, sid, state, pipe, mutex, expired, sessionMap, wdKeys, usedVars, fault>>

CloseInvalidStreamFault ==
  /\ pc[Watchdog] = "close"
  /\ \/ pipe[ptr[Watchdog]] = "null" /\ Fail("null_pipeline")
     \/ pipe[ptr[Watchdog]] = "dangling" /\ Fail("dangling_pipeline")

\* CheckAndRecycleSession dereferences what GetSessionInfoById returns.
CheckSessionFault ==
  /\ pc[Watchdog] = "check" /\ infoStatus[sid[ptr[Watchdog]]] = "none"
  /\ Fail("null_info")

\* The session has live streams or is being closed already.
KeepSession ==
  /\ pc[Watchdog] = "check" /\ infoStatus[sid[ptr[Watchdog]]] # "none"
  /\ HasLiveStreams(sid[ptr[Watchdog]]) \/ ~IsActive(ptr[Watchdog])
  /\ Unlock(Watchdog, ptr[Watchdog])
  /\ Finish(Watchdog, "scan")
  /\ UNCHANGED <<alloc, sid, state, pipe, streams, expired, sessionMap, infoVars,
                 netVars, wdKeys, usedVars, fault>>

\* Close() the session and leave the rest to a detached thread.
RecycleSession(t) ==
  /\ pc[Watchdog] = "check" /\ infoStatus[sid[ptr[Watchdog]]] # "none"
  /\ ~HasLiveStreams(sid[ptr[Watchdog]]) /\ IsActive(ptr[Watchdog])
  /\ pc[t] = "idle"
  /\ state' = [state EXCEPT ![ptr[Watchdog]] = "CLOSED"]
  /\ pc' = [pc EXCEPT ![t] = "d_remove", ![Watchdog] = "scan"]
  /\ ptr' = [ptr EXCEPT ![t] = ptr[Watchdog], ![Watchdog] = NULL]
  /\ cid' = [cid EXCEPT ![Watchdog] = NULL]
  /\ cst' = [cst EXCEPT ![Watchdog] = NULL]
  /\ Unlock(Watchdog, ptr[Watchdog])
  /\ UNCHANGED <<alloc, sid, pipe, streams, expired, sessionMap, infoVars,
                 netVars, op, wdKeys, usedVars, fault>>

CheckAndRecycleSession ==
  CheckSessionFault \/ KeepSession \/ \E t \in Recyclers : RecycleSession(t)

\* Delete and erase every object in the map that may be recycled.
WatchdogPurge ==
  /\ pc[Watchdog] = "scan" /\ wdKeys = {}
  /\ LET dead == {i \in Items : CanRecycle(i) /\ \E s \in Ids : sessionMap[s] = i}
     IN  /\ alloc' = [i \in Items |-> IF i \in dead THEN "freed" ELSE alloc[i]]
         /\ sessionMap' = [s \in Ids |-> IF sessionMap[s] \in dead THEN NULL ELSE sessionMap[s]]
  /\ Goto(Watchdog, "idle")
  /\ UNCHANGED <<sid, state, pipe, streams, mutex, expired, infoVars, netVars,
                 wdKeys, usedVars, fault>>

WatchdogStep ==
  \/ WatchdogTraverse \/ WatchdogLock \/ CloseInvalidStream \/ CloseInvalidStreamFault
  \/ CheckAndRecycleSession \/ WatchdogPurge
  \/ \E k \in Keys : WatchdogNext(k)

-------------------------------------------------------------------------------

Init ==
  /\ alloc = [i \in Items |-> "unused"]
  /\ sid = [i \in Items |-> NULL]
  /\ state = [i \in Items |-> "ACTIVE"]
  /\ pipe = [i \in Items |-> "null"]
  /\ streams = [i \in Items |-> {}]
  /\ mutex = [i \in Items |-> NULL]
  /\ expired = [i \in Items |-> TRUE]
  /\ sessionMap = [s \in Ids |-> NULL]
  /\ InfoInit
  /\ keys = {} /\ pending = {}
  /\ pc = [t \in Threads |-> "idle"]
  /\ op = [t \in Threads |-> NULL]
  /\ ptr = [t \in Threads |-> NULL]
  /\ cid = [t \in Threads |-> NULL]
  /\ cst = [t \in Threads |-> NULL]
  /\ wdKeys = {}
  /\ usedIds = {} /\ usedStreams = {}
  /\ fault = "none"

RpcStep(r) ==
  \/ \E s \in Ids : CreateSession(r, s)
  \/ CreateSessionLookup(r) \/ CreateSessionPipeline(r)
  \/ \E i \in Items : InsertSessionData(r, i)
  \/ \E o \in Ops, s \in Ids, st \in Streams \cup {NULL} : Call(r, o, s, st)
  \/ CallFreed(r) \/ CallRejected(r) \/ CallEnter(r) \/ CloseSession(r)
  \/ Handle(r) \/ CloseStreamTail(r)

\* Undefined behaviour ends the part of the behaviour that is modelled.
Faulted == fault # "none" /\ UNCHANGED vars

Next ==
  \/ /\ fault = "none"
     /\ \/ \E r \in Rpcs : RpcStep(r) \/ Destroy(r)
        \/ \E t \in Recyclers : Destroy(t)
        \/ WatchdogStep
        \/ \E i \in Items : Elapse(i)
        \/ \E k \in Keys : Teardown(k)
  \/ Faulted

Spec == Init /\ [][Next]_vars

-------------------------------------------------------------------------------
(* Properties.                                                               *)

\* The values the fields, tables and thread locals can take.
TypeOK ==
  /\ alloc \in [Items -> Allocs]
  /\ sid \in [Items -> Ids \cup {NULL}]
  /\ state \in [Items -> SessionState]
  /\ pipe \in [Items -> {"null", "live", "dangling"}]
  /\ streams \in [Items -> SUBSET Streams]
  /\ mutex \in [Items -> Threads \cup {NULL}]
  /\ expired \in [Items -> BOOLEAN]
  /\ sessionMap \in [Ids -> Items \cup {NULL}]
  /\ InfoTypeOK
  /\ keys \subseteq Keys
  /\ pending \subseteq Keys
  /\ pc \in [Threads -> PCs]
  /\ op \in [Threads -> Ops \cup {NULL}]
  /\ ptr \in [Threads -> Items \cup {NULL}]
  /\ cid \in [Threads -> Ids \cup {NULL}]
  /\ cst \in [Threads -> Streams \cup {NULL}]
  /\ wdKeys \subseteq Keys
  /\ usedIds \subseteq Ids
  /\ usedStreams \subseteq Keys
  /\ fault \in Faults

\* A handler that got past IsActive() works on a pipeline that nobody else
\* can close or delete under it: it holds the session mutex, the session is
\* still active, and looking the id up again (GetPipeline) finds the object
\* it has locked (orbit_stream_service_impl.cc, every handler).
ActiveCallOwnsPipeline ==
  \A r \in Rpcs : pc[r] = "act" =>
    /\ alloc[ptr[r]] = "live"
    /\ mutex[ptr[r]] = r
    /\ IsActive(ptr[r])
    /\ pipe[ptr[r]] = "live"
    /\ sessionMap[cid[r]] = ptr[r]

\* CloseSession and a RecycleSessionThread never tear the same session down
\* together, and the watchdog does not delete the object under the one that
\* does, although a recycle thread holds no lock.
SingleDestroyer ==
  \A t \in Rpcs \cup Recyclers : pc[t] \in Destroying =>
    /\ alloc[ptr[t]] = "live"
    /\ state[ptr[t]] = "CLOSED"
    /\ \A u \in (Rpcs \cup Recyclers) \ {t} : pc[u] \in Destroying => ptr[u] # ptr[t]

\* The raw pointer the watchdog carries from GetSessionData to the end of
\* CheckAndRecycleSession is never one of a deleted object, unlike the one a
\* handler carries.
WatchdogPointerValid ==
  pc[Watchdog] \in {"lock", "close", "check"} => alloc[ptr[Watchdog]] = "live"

\* By the time a pipeline is deleted, each of its streams has been handed to
\* a teardown thread (CloseAll before Destroy).
NoOrphanStreams ==
  \A i \in Items : pipe[i] # "live" => streams[i] = {}

\* Every stream the watchdog watches is in a pipeline or on its way out, so
\* stream_update_map_ does not keep keys nobody will ever remove.
KeyHasOwner ==
  \A k \in keys : k \in pending \/ \E i \in Items : sid[i] = k[1] /\ k[2] \in streams[i]

\* CloseStream and CloseAll leave nothing behind: neither a stream of a deleted
\* pipeline nor a watched key without a stream.
StreamsHaveOwner == NoOrphanStreams /\ KeyHasOwner

-------------------------------------------------------------------------------
(* The inductive invariant behind the properties above.                      *)

\* Which labels each kind of thread can be at.
WatchdogPCs == {"idle", "scan", "lock", "close", "check"}
RecyclerPCs == {"idle"} \cup Destroying
RpcPCs == {"idle", "new", "read", "insert", "lock", "act", "tail", "unlock"} \cup Destroying

PcRoles ==
  /\ pc[Watchdog] \in WatchdogPCs
  /\ \A t \in Recyclers : pc[t] \in RecyclerPCs
  /\ \A r \in Rpcs : pc[r] \in RpcPCs

\* The map and the objects point at each other.
MapInv ==
  /\ \A s \in Ids : sessionMap[s] # NULL =>
       alloc[sessionMap[s]] = "live" /\ sid[sessionMap[s]] = s
  /\ \A i \in Items : alloc[i] = "live" => sid[i] \in Ids /\ sessionMap[sid[i]] = i

\* What the stage of an object says about its fields.
StageInv ==
  \A i \in Items :
    /\ alloc[i] = "unused" => pipe[i] = "null"
    /\ alloc[i] \in {"unused", "leaked"} => state[i] = "ACTIVE" /\ streams[i] = {}
    /\ alloc[i] = "live" /\ IsActive(i) => pipe[i] = "live"
    /\ alloc[i] = "freed" => state[i] = "DESTROYED"
    /\ pipe[i] # "live" => streams[i] = {}

\* What a handler between its lookup and its return knows.
HandlerInv ==
  \A r \in Rpcs :
    /\ pc[r] \in {"new", "read", "insert", "lock", "act", "tail"} => cid[r] \in Ids
    /\ pc[r] \in {"lock", "act"} =>
         ptr[r] \in Items /\ alloc[ptr[r]] \in {"live", "freed"} /\ sid[ptr[r]] = cid[r]
    /\ pc[r] = "act" => alloc[ptr[r]] = "live" /\ IsActive(ptr[r]) /\ mutex[ptr[r]] = r
    /\ pc[r] = "unlock" => ptr[r] \in Items

\* What a thread that tears a session down knows.
DestroyInv ==
  \A t \in Rpcs \cup Recyclers : pc[t] \in Destroying =>
    /\ ptr[t] \in Items /\ alloc[ptr[t]] = "live" /\ state[ptr[t]] = "CLOSED"
    /\ \A u \in (Rpcs \cup Recyclers) \ {t} : pc[u] \in Destroying => ptr[u] # ptr[t]
    /\ pc[t] \in {"d_remove", "d_closeall", "d_delete"} => pipe[ptr[t]] = "live"
    /\ pc[t] = "d_delete" => streams[ptr[t]] = {}
    /\ pc[t] = "d_null" => pipe[ptr[t]] = "dangling"
    /\ pc[t] \in {"d_time", "d_state"} => pipe[ptr[t]] = "null"

\* What the watchdog knows of the object it visits.
WatchdogInv ==
  /\ pc[Watchdog] \in {"lock", "close", "check"} =>
       ptr[Watchdog] \in Items /\ alloc[ptr[Watchdog]] = "live" /\ cid[Watchdog] = sid[ptr[Watchdog]]
  /\ pc[Watchdog] \in {"close", "check"} => mutex[ptr[Watchdog]] = Watchdog

\* The conjunction that every step preserves: it is what makes the mutex, the
\* state field and the order of Destroy() enough.
IInv ==
  /\ TypeOK /\ PcRoles /\ MapInv /\ StageInv
  /\ HandlerInv /\ DestroyInv /\ WatchdogInv /\ KeyHasOwner

\* The watchdog recycles a session on what statusz says of its streams; with
\* ids that identify, no session that still has a stream is recycled.
RecycleOnlyEmptySession ==
  \A t \in Recyclers : pc[t] \in {"d_remove", "d_closeall"} => streams[ptr[t]] = {}

\* The streams statusz shows as live, and those a CloseStream has still to mark.
Shown(s) == {st \in Streams : infoStreams[s][st] = "live"}
ToMark(s) == {cst[r] : r \in {x \in Rpcs : pc[x] = "tail" /\ cid[x] = s}}

\* As long as a session is active and statusz knows it, the streams statusz shows
\* as live are the pipeline's, but for those a CloseStream has still to mark.
StatuszAgrees ==
  \A i \in Items : (alloc[i] = "live" /\ IsActive(i) /\ infoStatus[sid[i]] # "none") =>
    streams[i] \subseteq Shown(sid[i]) /\ Shown(sid[i]) \ streams[i] \subseteq ToMark(sid[i])

-------------------------------------------------------------------------------
(* What makes statusz agree: with fresh ids, an id is drawn for one session  *)
(* and a stream id for one stream of it.                                     *)

Creating == {"new", "read", "insert"}

\* An id belongs to one call of CreateSession, then to one object.
IdOnce ==
  /\ \A i \in Items : sid[i] \in usedIds \cup {NULL} /\ (alloc[i] = "unused" => sid[i] = NULL)
  /\ \A i, j \in Items : i # j /\ sid[i] = sid[j] => sid[i] = NULL
  /\ \A r \in Rpcs : pc[r] \in Creating =>
       /\ cid[r] \in usedIds /\ \A i \in Items : sid[i] # cid[r]
       /\ \A q \in Rpcs \ {r} : pc[q] \in Creating => cid[q] # cid[r]
  /\ \A r \in Rpcs : pc[r] \in {"read", "insert"} => ptr[r] = NULL

\* What a pipeline has or statusz has seen was drawn, for a session that was inserted.
StreamOnce ==
  /\ \A i \in Items : \A st \in streams[i] : <<sid[i], st>> \in usedStreams
  /\ \A s \in Ids : \A st \in Streams :
       infoStreams[s][st] # "none" => <<s, st>> \in usedStreams /\ infoStatus[s] # "none"
  /\ \A k \in usedStreams : \E i \in Items : sid[i] = k[1]

\* A stream that CloseStream has taken out of its pipeline never comes back.
ClosedStays ==
  /\ \A r \in Rpcs : op[r] = "CloseStream" /\ pc[r] \in {"lock", "act"} => <<cid[r], cst[r]>> \in usedStreams
  /\ \A r \in Rpcs : pc[r] = "tail" =>
       /\ <<cid[r], cst[r]>> \in usedStreams
       /\ \A i \in Items : sid[i] = cid[r] => cst[r] \notin streams[i]
  /\ \A i \in Items : state[i] = "DESTROYED" => pipe[i] = "null"

FreshInv == IdOnce /\ StreamOnce /\ ClosedStays /\ StatuszAgrees /\ RecycleOnlyEmptySession

\* The abstract stage an object's alloc and state fields stand for.
Stage(a, s) ==
  CASE a \in {"unused", "leaked"} -> "unborn"
    [] a = "freed" -> "reclaimed"
    [] a = "live" /\ s = "ACTIVE" -> "active"
    [] a = "live" /\ s = "CLOSED" -> "closing"
    [] a = "live" /\ s = "DESTROYED" -> "destroyed"

Life == [i \in Items |-> Stage(alloc[i], state[i])]

Users == [i \in Items |-> {r \in Rpcs : pc[r] = "act" /\ ptr[r] = i}]

Lifecycle == INSTANCE SessionLifecycle WITH Calls <- Rpcs, life <- Life, users <- Users

\* Each SessionData object, with the handlers inside its pipeline, behaves as
\* SessionLifecycle says: used only while active, closed once and only when
\* unused, destroyed once, and deleted only after that.
RefinesLifecycle == Lifecycle!Spec

\* Threads that are running keep running; sixty seconds pass; the session
\* mutex does not starve the watchdog for ever.  Calls need not come.
FairSpec ==
  /\ Spec
  /\ \A r \in Rpcs : WF_vars(fault = "none" /\ Handle(r))
  /\ \A t \in Rpcs \cup Recyclers : WF_vars(fault = "none" /\ Destroy(t))
  /\ \A i \in Items : WF_vars(fault = "none" /\ Elapse(i))
  /\ WF_vars(fault = "none" /\ WatchdogStep)
  /\ SF_vars(fault = "none" /\ WatchdogLock)

\* A session that was closed, by a client or by the watchdog, is destroyed and
\* its object deleted in the end, if no undefined step intervenes.
ClosedIsReclaimed ==
  \A i \in Items : state[i] = "CLOSED" ~> (alloc[i] = "freed" \/ fault # "none")

===============================================================================
