-------------------------- MODULE StreamServiceProofs --------------------------
(***************************************************************************)
(* Proofs about StreamService for any number of threads, ids and objects.  *)
(* IInv and FreshInv (StreamService.tla) are shown to hold initially and   *)
(* to be preserved by every action, one lemma per action; the theorems     *)
(* follow.  FreshInv needs FreshIds.                                       *)
(***************************************************************************)
EXTENDS StreamService, TLAPS

\* The state the service starts in satisfies IInv.
LEMMA InitInv == Init => IInv
  BY ThreadsAssumption
  DEF Init, InfoInit, IInv, TypeOK, InfoTypeOK, PcRoles, WatchdogPCs, RecyclerPCs, RpcPCs, MapInv, StageInv, HandlerInv, DestroyInv, WatchdogInv,
      KeyHasOwner, Allocs, SessionState, Faults, PCs, Keys, Threads, Destroying, IsActive

\* Stopping at a fault, or doing nothing, leaves everything IInv speaks of.
LEMMA FaultInv ==
  ASSUME IInv, NEW kind \in Faults, Fail(kind) PROVE IInv'
  BY DEF IInv, Fail, itemVars, infoVars, netVars, threadVars, usedVars, TypeOK, InfoTypeOK, PcRoles,
         MapInv, StageInv, HandlerInv, DestroyInv, WatchdogInv, KeyHasOwner, IsActive

\* A step that changes nothing keeps IInv.
LEMMA StutterInv ==
  ASSUME IInv, UNCHANGED vars PROVE IInv'
  BY DEF IInv, vars, infoVars, TypeOK, InfoTypeOK, PcRoles, MapInv, StageInv, HandlerInv, DestroyInv, WatchdogInv,
         KeyHasOwner, IsActive

\* A thread that moves to a label of its kind.
LEMMA PcRolesStep ==
  ASSUME IInv, NEW t \in Threads, NEW label, pc' = [pc EXCEPT ![t] = label],
         t = Watchdog => label \in WatchdogPCs,
         t \in Recyclers => label \in RecyclerPCs,
         t \in Rpcs => label \in RpcPCs
  PROVE  PcRoles'
<1>1. \A u \in Threads : pc'[u] = IF u = t THEN label ELSE pc[u]
  BY DEF IInv, TypeOK, InfoTypeOK
<1>2. QED
  BY <1>1 DEF IInv, PcRoles, Threads

\* Internal::CloseStream moves at most the stream it is given, and keeps an
\* owner for every key.
LEMMA PipelineCloseStreamKeys ==
  ASSUME IInv, NEW i \in Items, sid[i] \in Ids, NEW st, PipelineCloseStream(i, st), UNCHANGED sid
  PROVE  /\ streams' \in [Items -> SUBSET Streams]
         /\ pending' \subseteq Keys /\ keys' = keys
         /\ \A j \in Items : streams'[j] \subseteq streams[j]
         /\ KeyHasOwner'
<1> USE DEF IInv, TypeOK, InfoTypeOK, PipelineCloseStream
<1>1. streams' \in [Items -> SUBSET Streams] /\ keys' = keys
  OBVIOUS
<1>2. \A j \in Items : streams'[j] = IF j = i THEN streams[j] \ {st} ELSE streams[j]
  OBVIOUS
<1>3. pending \subseteq pending' /\ pending' \subseteq Keys
  BY DEF Keys
<1>4. ASSUME NEW k \in keys', k \notin pending' PROVE \E j \in Items : sid'[j] = k[1] /\ k[2] \in streams'[j]
  <2>1. PICK j \in Items : sid[j] = k[1] /\ k[2] \in streams[j]
    BY <1>1, <1>3, <1>4 DEF KeyHasOwner
  <2>2. k = <<k[1], k[2]>>
    BY <1>1, <1>4 DEF Keys
  <2>3. ~(j = i /\ k[2] = st)
    BY <1>4, <2>1, <2>2
  <2>4. k[2] \in streams'[j]
    BY <1>2, <2>1, <2>3
  <2>5. QED
    BY <2>1, <2>4
<1>5. KeyHasOwner'
  BY <1>4 DEF KeyHasOwner
<1>6. QED
  BY <1>1, <1>2, <1>3, <1>5

\* Internal::CloseAll does so for every stream of the pipeline.
LEMMA PipelineCloseAllKeys ==
  ASSUME IInv, NEW i \in Items, sid[i] \in Ids, PipelineCloseAll(i), UNCHANGED sid
  PROVE  /\ streams' \in [Items -> SUBSET Streams]
         /\ pending' \subseteq Keys /\ keys' = keys
         /\ KeyHasOwner'
<1> USE DEF IInv, TypeOK, InfoTypeOK, PipelineCloseAll
<1>1. streams' \in [Items -> SUBSET Streams] /\ keys' = keys
  OBVIOUS
<1>2. \A j \in Items : streams'[j] = IF j = i THEN {} ELSE streams[j]
  OBVIOUS
<1>3. pending \subseteq pending' /\ pending' \subseteq Keys
  BY DEF Keys
<1>4. ASSUME NEW k \in keys', k \notin pending' PROVE \E j \in Items : sid'[j] = k[1] /\ k[2] \in streams'[j]
  <2>1. PICK j \in Items : sid[j] = k[1] /\ k[2] \in streams[j]
    BY <1>1, <1>3, <1>4 DEF KeyHasOwner
  <2>2. k = <<k[1], k[2]>>
    BY <1>1, <1>4 DEF Keys
  <2>3. j # i
    BY <1>4, <2>1, <2>2
  <2>4. QED
    BY <1>2, <2>1, <2>3
<1>5. KeyHasOwner'
  BY <1>4 DEF KeyHasOwner
<1>6. QED
  BY <1>1, <1>3, <1>5

\* CreateSession draws an id: only the thread moves.
LEMMA CreateSessionInv ==
  ASSUME NEW r \in Rpcs, NEW s \in Ids, IInv, CreateSession(r, s) PROVE IInv'
<1> USE ThreadsAssumption
    DEF Threads, Destroying, IsActive, itemVars, infoVars, netVars, threadVars, usedVars,
        CreateSession
<1>0. r \in Threads /\ r # Watchdog /\ pc[r] = "idle"
  BY DEF IInv, CreateSession
<1>1. TypeOK'
  BY <1>0 DEF IInv, TypeOK, InfoTypeOK, PCs, Ops
<1>2. PcRoles'
  BY <1>0 DEF IInv, PcRoles, WatchdogPCs, RecyclerPCs, RpcPCs, TypeOK
<1>3. MapInv'
  BY <1>0 DEF IInv, MapInv, TypeOK
<1>4. StageInv'
  BY <1>0 DEF IInv, StageInv, TypeOK
<1>5. HandlerInv'
  BY <1>0 DEF IInv, HandlerInv, TypeOK
<1>6. DestroyInv'
  BY <1>0 DEF IInv, DestroyInv, TypeOK
<1>7. WatchdogInv'
  BY <1>0 DEF IInv, WatchdogInv, TypeOK
<1>8. KeyHasOwner'
  BY <1>0 DEF IInv, KeyHasOwner, TypeOK
<1>9. QED
  BY <1>1, <1>2, <1>3, <1>4, <1>5, <1>6, <1>7, <1>8 DEF IInv

\* CreateSession looks the id up a second time.
LEMMA CreateSessionLookupInv ==
  ASSUME NEW r \in Rpcs, IInv, CreateSessionLookup(r) PROVE IInv'
<1> USE ThreadsAssumption
    DEF Threads, Destroying, IsActive, itemVars, infoVars, netVars, threadVars, usedVars,
        CreateSessionLookup, GetSessionData
<1>0. r \in Threads /\ r # Watchdog /\ pc[r] = "new" /\ cid[r] \in Ids
  BY DEF IInv, HandlerInv
<1>1. TypeOK'
  BY <1>0 DEF IInv, TypeOK, InfoTypeOK, PCs
<1>2. PcRoles'
  BY <1>0 DEF IInv, PcRoles, WatchdogPCs, RecyclerPCs, RpcPCs, TypeOK
<1>3. MapInv'
  BY <1>0 DEF IInv, MapInv, TypeOK
<1>4. StageInv'
  BY <1>0 DEF IInv, StageInv, TypeOK
<1>5. HandlerInv'
  BY <1>0 DEF IInv, HandlerInv, TypeOK
<1>6. DestroyInv'
  BY <1>0 DEF IInv, DestroyInv, TypeOK
<1>7. WatchdogInv'
  BY <1>0 DEF IInv, WatchdogInv, TypeOK
<1>8. KeyHasOwner'
  BY <1>0 DEF IInv, KeyHasOwner, TypeOK
<1>9. QED
  BY <1>1, <1>2, <1>3, <1>4, <1>5, <1>6, <1>7, <1>8 DEF IInv

\* CreateSession touches statusz, or takes the pipeline it found.
LEMMA CreateSessionPipelineInv ==
  ASSUME NEW r \in Rpcs, IInv, CreateSessionPipeline(r) PROVE IInv'
<1>1. CASE Fail("freed_item")
  BY <1>1, FaultInv DEF Faults
<1>2. CASE ~Fail("freed_item")
  <2> USE ThreadsAssumption
      DEF Threads, Destroying, IsActive, itemVars, infoVars, netVars, threadVars, usedVars,
          Goto, Finish
  <2>0. r \in Threads /\ r # Watchdog /\ pc[r] = "read" /\ cid[r] \in Ids
    BY DEF IInv, HandlerInv, CreateSessionPipeline
  <2>1. /\ infoStatus' \in [Ids -> {"none", "live", "destroyed"}]
        /\ infoStreams' \in [Ids -> [Streams -> {"none", "live", "leave"}]]
    BY <1>2 DEF IInv, TypeOK, InfoTypeOK, CreateSessionPipeline, AddSessionInfo
  <2>2. /\ UNCHANGED <<itemVars, sessionMap, netVars, wdKeys, usedVars, fault>>
        /\ \E label \in {"insert", "idle"} : pc' = [pc EXCEPT ![r] = label]
        /\ op' \in [Threads -> Ops \cup {NULL}] /\ cid' \in [Threads -> Ids \cup {NULL}]
        /\ ptr' \in [Threads -> Items \cup {NULL}] /\ cst' \in [Threads -> Streams \cup {NULL}]
        /\ \A u \in Threads \ {r} : ptr'[u] = ptr[u] /\ cid'[u] = cid[u]
        /\ pc'[r] = "insert" => cid'[r] = cid[r]
    <3>1. CASE Goto(r, "insert") /\ UNCHANGED infoVars
      BY <1>2, <2>0, <3>1 DEF IInv, TypeOK, InfoTypeOK, CreateSessionPipeline
    <3>2. CASE AddSessionInfo(cid[r]) /\ Finish(r, "idle")
      BY <1>2, <2>0, <3>2 DEF IInv, TypeOK, InfoTypeOK, CreateSessionPipeline
    <3>3. CASE /\ AddSessionInfo(cid[r]) /\ pc' = [pc EXCEPT ![r] = "insert"]
               /\ ptr' = [ptr EXCEPT ![r] = NULL] /\ UNCHANGED <<op, cid, cst>>
      BY <1>2, <2>0, <3>3 DEF IInv, TypeOK, InfoTypeOK, CreateSessionPipeline
    <3>4. QED
      BY <1>2, <3>1, <3>2, <3>3 DEF CreateSessionPipeline
  <2>3. PICK label \in {"insert", "idle"} : pc' = [pc EXCEPT ![r] = label]
    BY <2>2
  <2>4. TypeOK'
    BY <2>0, <2>1, <2>2, <2>3 DEF IInv, TypeOK, InfoTypeOK, PCs
  <2>5. PcRoles'
    BY <2>0, <2>3 DEF IInv, PcRoles, WatchdogPCs, RecyclerPCs, RpcPCs, TypeOK
  <2>6. MapInv' /\ StageInv' /\ KeyHasOwner'
    BY <2>2 DEF IInv, MapInv, StageInv, KeyHasOwner
  <2>7. HandlerInv'
    BY <2>0, <2>2, <2>3 DEF IInv, HandlerInv, TypeOK
  <2>8. DestroyInv'
    BY <2>0, <2>2, <2>3 DEF IInv, DestroyInv, TypeOK
  <2>9. WatchdogInv'
    BY <2>0, <2>2, <2>3 DEF IInv, WatchdogInv, TypeOK
  <2>10. QED
    BY <2>4, <2>5, <2>6, <2>7, <2>8, <2>9 DEF IInv
<1>3. QED
  BY <1>1, <1>2

\* A new object enters the map, or is leaked when the id is taken.
LEMMA InsertSessionDataInv ==
  ASSUME NEW r \in Rpcs, NEW i \in Items, IInv, InsertSessionData(r, i) PROVE IInv'
<1>1. CASE Fail("dangling_pipeline")
  BY <1>1, FaultInv DEF Faults
<1>2. CASE ~Fail("dangling_pipeline")
  <2> USE ThreadsAssumption
      DEF Threads, Destroying, IsActive, itemVars, infoVars, netVars, threadVars, usedVars
  <2>0. /\ r \in Threads /\ r # Watchdog /\ pc[r] = "insert"
        /\ cid[r] \in Ids /\ alloc[i] = "unused"
    BY DEF IInv, HandlerInv, InsertSessionData
  <2> DEFINE free == sessionMap[cid[r]] = NULL
  <2>a. /\ alloc' = [alloc EXCEPT ![i] = IF free THEN "live" ELSE "leaked"]
        /\ sessionMap' = [sessionMap EXCEPT ![cid[r]] = IF free THEN i ELSE sessionMap[cid[r]]]
        /\ sid' = [sid EXCEPT ![i] = cid[r]]
        /\ pipe' = [pipe EXCEPT ![i] = "live"]
        /\ pc' = [pc EXCEPT ![r] = "idle"]
        /\ op' = [op EXCEPT ![r] = NULL]
        /\ ptr' = [ptr EXCEPT ![r] = NULL]
        /\ cid' = [cid EXCEPT ![r] = NULL]
        /\ cst' = [cst EXCEPT ![r] = NULL]
        /\ UNCHANGED <<state, streams, mutex, expired, infoVars, netVars, wdKeys, usedVars, fault>>
    BY <1>2, Zenon DEF InsertSessionData, GetSessionData, Finish
  <2>1. TypeOK'
    BY <2>0, <2>a DEF IInv, TypeOK, InfoTypeOK, PCs, Allocs
  <2>2. PcRoles'
    BY <2>0, <2>a DEF IInv, PcRoles, WatchdogPCs, RecyclerPCs, RpcPCs, TypeOK
  <2>3. MapInv'
    BY <2>0, <2>a DEF IInv, MapInv, TypeOK, StageInv
  <2>4. StageInv'
    BY <2>0, <2>a DEF IInv, StageInv, TypeOK
  <2>5. HandlerInv'
    BY <2>0, <2>a DEF IInv, HandlerInv, TypeOK, StageInv
  <2>6. DestroyInv'
    BY <2>0, <2>a DEF IInv, DestroyInv, TypeOK, StageInv
  <2>7. WatchdogInv'
    BY <2>0, <2>a DEF IInv, WatchdogInv, TypeOK
  <2>8. KeyHasOwner'
    BY <2>0, <2>a DEF IInv, KeyHasOwner, TypeOK, StageInv
  <2>9. QED
    BY <2>1, <2>2, <2>3, <2>4, <2>5, <2>6, <2>7, <2>8 DEF IInv
<1>3. QED
  BY <1>1, <1>2

\* A handler looks its session up and keeps the pointer.
LEMMA CallInv ==
  ASSUME NEW r \in Rpcs, NEW o \in Ops, NEW s \in Ids, NEW st \in Streams \cup {NULL}, IInv, Call(r, o, s, st) PROVE IInv'
<1> USE ThreadsAssumption
    DEF Threads, Destroying, IsActive, itemVars, infoVars, netVars, threadVars, usedVars,
        Call, GetSessionData
<1>0. r \in Threads /\ r # Watchdog /\ pc[r] = "idle"
  BY DEF IInv, Call
<1>1. TypeOK'
  BY <1>0 DEF IInv, TypeOK, InfoTypeOK, PCs, Ops
<1>2. PcRoles'
  BY <1>0 DEF IInv, PcRoles, WatchdogPCs, RecyclerPCs, RpcPCs, TypeOK
<1>3. MapInv'
  BY <1>0 DEF IInv, MapInv, TypeOK
<1>4. StageInv'
  BY <1>0 DEF IInv, StageInv, TypeOK
<1>5. HandlerInv'
  BY <1>0 DEF IInv, HandlerInv, TypeOK, MapInv
<1>6. DestroyInv'
  BY <1>0 DEF IInv, DestroyInv, TypeOK
<1>7. WatchdogInv'
  BY <1>0 DEF IInv, WatchdogInv, TypeOK
<1>8. KeyHasOwner'
  BY <1>0 DEF IInv, KeyHasOwner, TypeOK
<1>9. QED
  BY <1>1, <1>2, <1>3, <1>4, <1>5, <1>6, <1>7, <1>8 DEF IInv

\* A call on a closed session returns.
LEMMA CallRejectedInv ==
  ASSUME NEW r \in Rpcs, IInv, CallRejected(r) PROVE IInv'
<1> USE ThreadsAssumption
    DEF Threads, Destroying, IsActive, itemVars, infoVars, netVars, threadVars, usedVars,
        CallRejected, Lockable, Finish
<1>0. r \in Threads /\ r # Watchdog /\ pc[r] = "lock"
  BY DEF IInv, CallRejected, Lockable
<1>1. TypeOK'
  BY <1>0 DEF IInv, TypeOK, InfoTypeOK, PCs
<1>2. PcRoles'
  BY <1>0 DEF IInv, PcRoles, WatchdogPCs, RecyclerPCs, RpcPCs, TypeOK
<1>3. MapInv'
  BY <1>0 DEF IInv, MapInv, TypeOK
<1>4. StageInv'
  BY <1>0 DEF IInv, StageInv, TypeOK
<1>5. HandlerInv'
  BY <1>0 DEF IInv, HandlerInv, TypeOK
<1>6. DestroyInv'
  BY <1>0 DEF IInv, DestroyInv, TypeOK
<1>7. WatchdogInv'
  BY <1>0 DEF IInv, WatchdogInv, TypeOK
<1>8. KeyHasOwner'
  BY <1>0 DEF IInv, KeyHasOwner, TypeOK
<1>9. QED
  BY <1>1, <1>2, <1>3, <1>4, <1>5, <1>6, <1>7, <1>8 DEF IInv

\* A call on an active session takes the mutex; nobody held it.
LEMMA CallEnterInv ==
  ASSUME NEW r \in Rpcs, IInv, CallEnter(r) PROVE IInv'
<1> USE ThreadsAssumption
    DEF Threads, Destroying, IsActive, itemVars, infoVars, netVars, threadVars, usedVars,
        CallEnter, Lockable, Goto
<1>0. /\ r \in Threads /\ r # Watchdog /\ pc[r] = "lock"
      /\ ptr[r] \in Items /\ alloc[ptr[r]] = "live"
  BY DEF IInv, CallEnter, Lockable, HandlerInv
<1>1. TypeOK'
  BY <1>0 DEF IInv, TypeOK, InfoTypeOK, PCs
<1>2. PcRoles'
  BY <1>0 DEF IInv, PcRoles, WatchdogPCs, RecyclerPCs, RpcPCs, TypeOK
<1>3. MapInv'
  BY <1>0 DEF IInv, MapInv, TypeOK
<1>4. StageInv'
  BY <1>0 DEF IInv, StageInv, TypeOK
<1>5. HandlerInv'
  BY <1>0 DEF IInv, HandlerInv, TypeOK
<1>6. DestroyInv'
  BY <1>0 DEF IInv, DestroyInv, TypeOK
<1>7. WatchdogInv'
  BY <1>0 DEF IInv, WatchdogInv, TypeOK
<1>8. KeyHasOwner'
  BY <1>0 DEF IInv, KeyHasOwner, TypeOK
<1>9. QED
  BY <1>1, <1>2, <1>3, <1>4, <1>5, <1>6, <1>7, <1>8 DEF IInv

\* CloseSession closes an active session; no other thread tears it down, since that one is closed.
LEMMA CloseSessionInv ==
  ASSUME NEW r \in Rpcs, IInv, CloseSession(r) PROVE IInv'
<1> USE ThreadsAssumption
    DEF Threads, Destroying, IsActive, itemVars, infoVars, netVars, threadVars, usedVars,
        CloseSession, Lockable, Goto
<1>0. /\ r \in Threads /\ r # Watchdog /\ pc[r] = "lock"
      /\ ptr[r] \in Items /\ alloc[ptr[r]] = "live" /\ pipe[ptr[r]] = "live"
  BY DEF IInv, CloseSession, Lockable, HandlerInv, StageInv
<1>1. TypeOK'
  BY <1>0 DEF IInv, TypeOK, InfoTypeOK, PCs, SessionState
<1>2. PcRoles'
  BY <1>0 DEF IInv, PcRoles, WatchdogPCs, RecyclerPCs, RpcPCs, TypeOK
<1>3. MapInv'
  BY <1>0 DEF IInv, MapInv, TypeOK
<1>4. StageInv'
  BY <1>0 DEF IInv, StageInv, TypeOK
<1>5. HandlerInv'
  BY <1>0 DEF IInv, HandlerInv, TypeOK
<1>6. DestroyInv'
  BY <1>0 DEF IInv, DestroyInv, TypeOK
<1>7. WatchdogInv'
  BY <1>0 DEF IInv, WatchdogInv, TypeOK
<1>8. KeyHasOwner'
  BY <1>0 DEF IInv, KeyHasOwner, TypeOK
<1>9. QED
  BY <1>1, <1>2, <1>3, <1>4, <1>5, <1>6, <1>7, <1>8 DEF IInv

\* CloseStream marks the stream in statusz after it released the mutex.
LEMMA CloseStreamTailInv ==
  ASSUME NEW r \in Rpcs, IInv, CloseStreamTail(r) PROVE IInv'
<1> USE ThreadsAssumption
    DEF Threads, Destroying, IsActive, itemVars, infoVars, netVars, threadVars, usedVars,
        CloseStreamTail, RemoveStreamInfo, Finish
<1>0. r \in Threads /\ r # Watchdog /\ pc[r] = "tail"
  BY DEF IInv, CloseStreamTail
<1>1. TypeOK'
  BY <1>0 DEF IInv, TypeOK, InfoTypeOK, PCs
<1>2. PcRoles'
  BY <1>0 DEF IInv, PcRoles, WatchdogPCs, RecyclerPCs, RpcPCs, TypeOK
<1>3. MapInv'
  BY <1>0 DEF IInv, MapInv, TypeOK
<1>4. StageInv'
  BY <1>0 DEF IInv, StageInv, TypeOK
<1>5. HandlerInv'
  BY <1>0 DEF IInv, HandlerInv, TypeOK
<1>6. DestroyInv'
  BY <1>0 DEF IInv, DestroyInv, TypeOK
<1>7. WatchdogInv'
  BY <1>0 DEF IInv, WatchdogInv, TypeOK
<1>8. KeyHasOwner'
  BY <1>0 DEF IInv, KeyHasOwner, TypeOK
<1>9. QED
  BY <1>1, <1>2, <1>3, <1>4, <1>5, <1>6, <1>7, <1>8 DEF IInv

\* The session leaves statusz.
LEMMA DestroyRemoveInfoInv ==
  ASSUME NEW t \in Rpcs \cup Recyclers, IInv, DestroyRemoveInfo(t) PROVE IInv'
<1> USE ThreadsAssumption
    DEF Threads, Destroying, IsActive, itemVars, infoVars, netVars, threadVars, usedVars,
        DestroyRemoveInfo, Goto, RemoveSessionInfo
<1>0. /\ t \in Threads /\ t # Watchdog /\ pc[t] = "d_remove" /\ ptr[t] \in Items
      /\ alloc[ptr[t]] = "live" /\ state[ptr[t]] = "CLOSED" /\ sid[ptr[t]] \in Ids
  BY DEF IInv, DestroyRemoveInfo, DestroyInv, MapInv
<1>1. TypeOK'
  BY <1>0 DEF IInv, TypeOK, InfoTypeOK, PCs, SessionState, DestroyInv
<1>2. PcRoles'
  BY <1>0, PcRolesStep DEF WatchdogPCs, RecyclerPCs, RpcPCs
<1>3. MapInv'
  BY <1>0 DEF IInv, MapInv, TypeOK
<1>4. StageInv'
  BY <1>0 DEF IInv, StageInv, TypeOK, DestroyInv
<1>5. HandlerInv'
  BY <1>0 DEF IInv, HandlerInv, TypeOK
<1>6. DestroyInv'
  BY <1>0 DEF IInv, DestroyInv, TypeOK
<1>7. WatchdogInv'
  BY <1>0 DEF IInv, WatchdogInv, TypeOK
<1>8. KeyHasOwner'
  BY <1>0 DEF IInv, KeyHasOwner, TypeOK
<1>9. QED
  BY <1>1, <1>2, <1>3, <1>4, <1>5, <1>6, <1>7, <1>8 DEF IInv

\* CloseAll hands every stream to a teardown thread.
LEMMA DestroyCloseAllInv ==
  ASSUME NEW t \in Rpcs \cup Recyclers, IInv, DestroyCloseAll(t) PROVE IInv'
<1> USE ThreadsAssumption
    DEF Threads, Destroying, IsActive, itemVars, infoVars, netVars, threadVars, usedVars,
        DestroyCloseAll, Goto, PipelineCloseAll
<1>0. /\ t \in Threads /\ t # Watchdog /\ pc[t] = "d_closeall" /\ ptr[t] \in Items
      /\ alloc[ptr[t]] = "live" /\ state[ptr[t]] = "CLOSED" /\ sid[ptr[t]] \in Ids
  BY DEF IInv, DestroyCloseAll, DestroyInv, MapInv
<1>a. /\ PipelineCloseAll(ptr[t]) /\ Goto(t, "d_delete")
      /\ UNCHANGED <<alloc, sid, state, pipe, mutex, expired, sessionMap, infoVars,
                     wdKeys, usedVars, fault>>
  BY <1>0 DEF IInv, DestroyInv
<1>b. /\ streams' \in [Items -> SUBSET Streams]
      /\ pending' \subseteq Keys /\ keys' = keys
      /\ KeyHasOwner'
  BY <1>0, <1>a, PipelineCloseAllKeys
<1>1. TypeOK'
  BY <1>0, <1>a, <1>b DEF IInv, TypeOK, InfoTypeOK, PCs
<1>2. PcRoles'
  BY <1>0, <1>a DEF IInv, PcRoles, WatchdogPCs, RecyclerPCs, RpcPCs, TypeOK
<1>3. MapInv'
  BY <1>0, <1>a DEF IInv, MapInv, TypeOK
<1>4. StageInv'
  BY <1>0, <1>a DEF IInv, StageInv, TypeOK, DestroyInv
<1>5. HandlerInv'
  BY <1>0, <1>a DEF IInv, HandlerInv, TypeOK
<1>6. DestroyInv'
  BY <1>0, <1>a DEF IInv, DestroyInv, TypeOK
<1>7. WatchdogInv'
  BY <1>0, <1>a DEF IInv, WatchdogInv, TypeOK
<1>8. KeyHasOwner'
  BY <1>b
<1>9. QED
  BY <1>1, <1>2, <1>3, <1>4, <1>5, <1>6, <1>7, <1>8 DEF IInv

\* The pipeline, by now empty, is deleted.
LEMMA DestroyDeleteInv ==
  ASSUME NEW t \in Rpcs \cup Recyclers, IInv, DestroyDelete(t) PROVE IInv'
<1> USE ThreadsAssumption
    DEF Threads, Destroying, IsActive, itemVars, infoVars, netVars, threadVars, usedVars,
        DestroyDelete, Goto
<1>0. /\ t \in Threads /\ t # Watchdog /\ pc[t] = "d_delete" /\ ptr[t] \in Items
      /\ alloc[ptr[t]] = "live" /\ state[ptr[t]] = "CLOSED" /\ sid[ptr[t]] \in Ids
  BY DEF IInv, DestroyDelete, DestroyInv, MapInv
<1>1. TypeOK'
  BY <1>0 DEF IInv, TypeOK, InfoTypeOK, PCs, SessionState, DestroyInv
<1>2. PcRoles'
  BY <1>0 DEF IInv, PcRoles, WatchdogPCs, RecyclerPCs, RpcPCs, TypeOK
<1>3. MapInv'
  BY <1>0 DEF IInv, MapInv, TypeOK
<1>4. StageInv'
  BY <1>0 DEF IInv, StageInv, TypeOK, DestroyInv
<1>5. HandlerInv'
  BY <1>0 DEF IInv, HandlerInv, TypeOK
<1>6. DestroyInv'
  BY <1>0 DEF IInv, DestroyInv, TypeOK
<1>7. WatchdogInv'
  BY <1>0 DEF IInv, WatchdogInv, TypeOK
<1>8. KeyHasOwner'
  BY <1>0 DEF IInv, KeyHasOwner, TypeOK
<1>9. QED
  BY <1>1, <1>2, <1>3, <1>4, <1>5, <1>6, <1>7, <1>8 DEF IInv

\* The pipeline field is cleared.
LEMMA DestroyNullInv ==
  ASSUME NEW t \in Rpcs \cup Recyclers, IInv, DestroyNull(t) PROVE IInv'
<1> USE ThreadsAssumption
    DEF Threads, Destroying, IsActive, itemVars, infoVars, netVars, threadVars, usedVars,
        DestroyNull, Goto
<1>0. /\ t \in Threads /\ t # Watchdog /\ pc[t] = "d_null" /\ ptr[t] \in Items
      /\ alloc[ptr[t]] = "live" /\ state[ptr[t]] = "CLOSED" /\ sid[ptr[t]] \in Ids
  BY DEF IInv, DestroyNull, DestroyInv, MapInv
<1>1. TypeOK'
  BY <1>0 DEF IInv, TypeOK, InfoTypeOK, PCs, SessionState, DestroyInv
<1>2. PcRoles'
  BY <1>0 DEF IInv, PcRoles, WatchdogPCs, RecyclerPCs, RpcPCs, TypeOK
<1>3. MapInv'
  BY <1>0 DEF IInv, MapInv, TypeOK
<1>4. StageInv'
  BY <1>0 DEF IInv, StageInv, TypeOK, DestroyInv
<1>5. HandlerInv'
  BY <1>0 DEF IInv, HandlerInv, TypeOK
<1>6. DestroyInv'
  BY <1>0 DEF IInv, DestroyInv, TypeOK
<1>7. WatchdogInv'
  BY <1>0 DEF IInv, WatchdogInv, TypeOK
<1>8. KeyHasOwner'
  BY <1>0 DEF IInv, KeyHasOwner, TypeOK
<1>9. QED
  BY <1>1, <1>2, <1>3, <1>4, <1>5, <1>6, <1>7, <1>8 DEF IInv

\* destroy_time is set, so CanRecycle() cannot hold yet.
LEMMA DestroyTimeInv ==
  ASSUME NEW t \in Rpcs \cup Recyclers, IInv, DestroyTime(t) PROVE IInv'
<1> USE ThreadsAssumption
    DEF Threads, Destroying, IsActive, itemVars, infoVars, netVars, threadVars, usedVars,
        DestroyTime, Goto
<1>0. /\ t \in Threads /\ t # Watchdog /\ pc[t] = "d_time" /\ ptr[t] \in Items
      /\ alloc[ptr[t]] = "live" /\ state[ptr[t]] = "CLOSED" /\ sid[ptr[t]] \in Ids
  BY DEF IInv, DestroyTime, DestroyInv, MapInv
<1>1. TypeOK'
  BY <1>0 DEF IInv, TypeOK, InfoTypeOK, PCs, SessionState, DestroyInv
<1>2. PcRoles'
  BY <1>0 DEF IInv, PcRoles, WatchdogPCs, RecyclerPCs, RpcPCs, TypeOK
<1>3. MapInv'
  BY <1>0 DEF IInv, MapInv, TypeOK
<1>4. StageInv'
  BY <1>0 DEF IInv, StageInv, TypeOK, DestroyInv
<1>5. HandlerInv'
  BY <1>0 DEF IInv, HandlerInv, TypeOK
<1>6. DestroyInv'
  BY <1>0 DEF IInv, DestroyInv, TypeOK
<1>7. WatchdogInv'
  BY <1>0 DEF IInv, WatchdogInv, TypeOK
<1>8. KeyHasOwner'
  BY <1>0 DEF IInv, KeyHasOwner, TypeOK
<1>9. QED
  BY <1>1, <1>2, <1>3, <1>4, <1>5, <1>6, <1>7, <1>8 DEF IInv

\* The session is destroyed and the mutex, if held, released.
LEMMA DestroyStateInv ==
  ASSUME NEW t \in Rpcs \cup Recyclers, IInv, DestroyState(t) PROVE IInv'
<1> USE ThreadsAssumption
    DEF Threads, Destroying, IsActive, itemVars, infoVars, netVars, usedVars
<1>0. /\ t \in Threads /\ t # Watchdog /\ pc[t] = "d_state" /\ ptr[t] \in Items
      /\ alloc[ptr[t]] = "live" /\ state[ptr[t]] = "CLOSED" /\ pipe[ptr[t]] = "null"
  BY DEF IInv, DestroyState, DestroyInv
<1> DEFINE label == IF t \in Rpcs THEN "unlock" ELSE "idle"
<1>a. /\ pc' = [pc EXCEPT ![t] = label]
      /\ state' = [state EXCEPT ![ptr[t]] = "DESTROYED"]
      /\ UNCHANGED <<alloc, sid, pipe, streams, mutex, expired, sessionMap, infoVars,
                     netVars, wdKeys, usedVars, fault>>
  BY DEF DestroyState, AfterDestroy, Goto, Finish
<1>b. /\ op' \in [Threads -> Ops \cup {NULL}] /\ cid' \in [Threads -> Ids \cup {NULL}]
      /\ ptr' \in [Threads -> Items \cup {NULL}] /\ cst' \in [Threads -> Streams \cup {NULL}]
      /\ \A u \in Threads \ {t} : ptr'[u] = ptr[u] /\ cid'[u] = cid[u]
      /\ t \in Rpcs => ptr'[t] = ptr[t]
  <2>1. CASE t \in Rpcs
    BY <2>1 DEF DestroyState, AfterDestroy, Goto, IInv, TypeOK, InfoTypeOK
  <2>2. CASE t \notin Rpcs
    BY <2>2 DEF DestroyState, AfterDestroy, Finish, IInv, TypeOK, InfoTypeOK
  <2>3. QED
    BY <2>1, <2>2
<1>c. label \in PCs \ Destroying /\ (t \in Recyclers => label = "idle")
  BY DEF PCs
<1>d. \A u \in Threads : pc'[u] = IF u = t THEN label ELSE pc[u]
  BY <1>a DEF IInv, TypeOK, InfoTypeOK
<1> HIDE DEF label
<1>1. TypeOK'
  BY <1>0, <1>a, <1>b, <1>c DEF IInv, TypeOK, InfoTypeOK, SessionState
<1>2. PcRoles'
  BY <1>0, <1>a, <1>c, PcRolesStep DEF WatchdogPCs, RecyclerPCs, RpcPCs, label
<1>3. MapInv'
  BY <1>a DEF IInv, MapInv
<1>4. StageInv'
  BY <1>0, <1>a DEF IInv, StageInv, TypeOK
<1>5. HandlerInv'
  BY <1>0, <1>a, <1>b, <1>d DEF IInv, HandlerInv, TypeOK, label
<1>6. DestroyInv'
  BY <1>0, <1>a, <1>b, <1>c, <1>d DEF IInv, DestroyInv, TypeOK
<1>7. WatchdogInv'
  BY <1>0, <1>a, <1>b, <1>d DEF IInv, WatchdogInv
<1>8. KeyHasOwner'
  BY <1>a DEF IInv, KeyHasOwner
<1>9. QED
  BY <1>1, <1>2, <1>3, <1>4, <1>5, <1>6, <1>7, <1>8 DEF IInv

\* CloseSession releases the mutex.
LEMMA DestroyUnlockInv ==
  ASSUME NEW t \in Rpcs \cup Recyclers, IInv, DestroyUnlock(t), alloc[ptr[t]] # "freed" PROVE IInv'
<1> USE ThreadsAssumption
    DEF Threads, Destroying, IsActive, itemVars, infoVars, netVars, threadVars, usedVars
<1>0. t \in Threads /\ t # Watchdog /\ pc[t] = "unlock" /\ ptr[t] \in Items
  BY DEF DestroyUnlock, IInv, HandlerInv, PcRoles, RecyclerPCs
<1>a. /\ pc' = [pc EXCEPT ![t] = "idle"]
      /\ op' = [op EXCEPT ![t] = NULL]
      /\ ptr' = [ptr EXCEPT ![t] = NULL]
      /\ cid' = [cid EXCEPT ![t] = NULL]
      /\ cst' = [cst EXCEPT ![t] = NULL]
      /\ mutex' = [mutex EXCEPT ![ptr[t]] = IF mutex[ptr[t]] = t THEN NULL ELSE mutex[ptr[t]]]
      /\ UNCHANGED <<alloc, sid, state, pipe, streams, expired, sessionMap, infoVars,
                     netVars, wdKeys, usedVars, fault>>
  BY DEF DestroyUnlock, Unlock, Finish
<1>1. TypeOK'
  BY <1>0, <1>a DEF IInv, TypeOK, InfoTypeOK, PCs
<1>2. PcRoles'
  BY <1>0, <1>a DEF IInv, PcRoles, WatchdogPCs, RecyclerPCs, RpcPCs, TypeOK
<1>3. MapInv'
  BY <1>0, <1>a DEF IInv, MapInv, TypeOK
<1>4. StageInv'
  BY <1>0, <1>a DEF IInv, StageInv, TypeOK
<1>5. HandlerInv'
  BY <1>0, <1>a DEF IInv, HandlerInv, TypeOK
<1>6. DestroyInv'
  BY <1>0, <1>a DEF IInv, DestroyInv, TypeOK
<1>7. WatchdogInv'
  BY <1>0, <1>a DEF IInv, WatchdogInv, TypeOK
<1>8. KeyHasOwner'
  BY <1>0, <1>a DEF IInv, KeyHasOwner, TypeOK
<1>9. QED
  BY <1>1, <1>2, <1>3, <1>4, <1>5, <1>6, <1>7, <1>8 DEF IInv

\* Time passes after destroy_time.
LEMMA ElapseInv ==
  ASSUME NEW i \in Items, IInv, Elapse(i) PROVE IInv'
<1> USE ThreadsAssumption
    DEF Threads, Destroying, IsActive, itemVars, infoVars, netVars, threadVars, usedVars,
        Elapse
<1>0. TRUE
  BY DEF IInv, Elapse
<1>1. TypeOK'
  BY <1>0 DEF IInv, TypeOK, InfoTypeOK
<1>2. PcRoles'
  BY <1>0 DEF IInv, PcRoles, WatchdogPCs, RecyclerPCs, RpcPCs, TypeOK
<1>3. MapInv'
  BY <1>0 DEF IInv, MapInv, TypeOK
<1>4. StageInv'
  BY <1>0 DEF IInv, StageInv, TypeOK
<1>5. HandlerInv'
  BY <1>0 DEF IInv, HandlerInv, TypeOK
<1>6. DestroyInv'
  BY <1>0 DEF IInv, DestroyInv, TypeOK
<1>7. WatchdogInv'
  BY <1>0 DEF IInv, WatchdogInv, TypeOK
<1>8. KeyHasOwner'
  BY <1>0 DEF IInv, KeyHasOwner, TypeOK
<1>9. QED
  BY <1>1, <1>2, <1>3, <1>4, <1>5, <1>6, <1>7, <1>8 DEF IInv

\* A teardown thread drops the key with the stream.
LEMMA TeardownInv ==
  ASSUME NEW k \in Keys, IInv, Teardown(k) PROVE IInv'
<1> USE ThreadsAssumption
    DEF Threads, Destroying, IsActive, itemVars, infoVars, netVars, threadVars, usedVars,
        Teardown
<1>0. TRUE
  BY DEF IInv, Teardown
<1>1. TypeOK'
  BY <1>0 DEF IInv, TypeOK, InfoTypeOK
<1>2. PcRoles'
  BY <1>0 DEF IInv, PcRoles, WatchdogPCs, RecyclerPCs, RpcPCs, TypeOK
<1>3. MapInv'
  BY <1>0 DEF IInv, MapInv, TypeOK
<1>4. StageInv'
  BY <1>0 DEF IInv, StageInv, TypeOK
<1>5. HandlerInv'
  BY <1>0 DEF IInv, HandlerInv, TypeOK
<1>6. DestroyInv'
  BY <1>0 DEF IInv, DestroyInv, TypeOK
<1>7. WatchdogInv'
  BY <1>0 DEF IInv, WatchdogInv, TypeOK
<1>8. KeyHasOwner'
  BY <1>0 DEF IInv, KeyHasOwner, TypeOK
<1>9. QED
  BY <1>1, <1>2, <1>3, <1>4, <1>5, <1>6, <1>7, <1>8 DEF IInv

\* The watchdog lists silent streams.
LEMMA WatchdogTraverseInv ==
  ASSUME IInv, WatchdogTraverse PROVE IInv'
<1> USE ThreadsAssumption
    DEF Threads, Destroying, IsActive, itemVars, infoVars, netVars, threadVars, usedVars,
        WatchdogTraverse, Goto
<1>0. pc[Watchdog] = "idle"
  BY DEF IInv, WatchdogTraverse
<1>1. TypeOK'
  BY <1>0 DEF IInv, TypeOK, InfoTypeOK, PCs
<1>2. PcRoles'
  BY <1>0 DEF IInv, PcRoles, WatchdogPCs, RecyclerPCs, RpcPCs, TypeOK
<1>3. MapInv'
  BY <1>0 DEF IInv, MapInv, TypeOK
<1>4. StageInv'
  BY <1>0 DEF IInv, StageInv, TypeOK
<1>5. HandlerInv'
  BY <1>0 DEF IInv, HandlerInv, TypeOK
<1>6. DestroyInv'
  BY <1>0 DEF IInv, DestroyInv, TypeOK
<1>7. WatchdogInv'
  BY <1>0 DEF IInv, WatchdogInv, TypeOK
<1>8. KeyHasOwner'
  BY <1>0 DEF IInv, KeyHasOwner, TypeOK
<1>9. QED
  BY <1>1, <1>2, <1>3, <1>4, <1>5, <1>6, <1>7, <1>8 DEF IInv

\* The watchdog looks the next stream's session up.
LEMMA WatchdogNextInv ==
  ASSUME NEW k \in Keys, IInv, WatchdogNext(k) PROVE IInv'
<1> USE ThreadsAssumption
    DEF Threads, Destroying, IsActive, itemVars, infoVars, netVars, threadVars, usedVars,
        WatchdogNext, GetSessionData, Keys
<1>0. pc[Watchdog] = "scan" /\ k[1] \in Ids /\ k[2] \in Streams
  BY DEF IInv, WatchdogNext
<1>1. TypeOK'
  BY <1>0 DEF IInv, TypeOK, InfoTypeOK, PCs
<1>2. PcRoles'
  <2>1. CASE pc' = pc
    BY <2>1 DEF IInv, PcRoles
  <2>2. CASE pc' = [pc EXCEPT ![Watchdog] = "lock"]
    BY <2>2, PcRolesStep DEF WatchdogPCs
  <2>3. QED
    BY <2>1, <2>2
<1>3. MapInv'
  BY <1>0 DEF IInv, MapInv, TypeOK
<1>4. StageInv'
  BY <1>0 DEF IInv, StageInv, TypeOK
<1>5. HandlerInv'
  BY <1>0 DEF IInv, HandlerInv, TypeOK
<1>6. DestroyInv'
  BY <1>0 DEF IInv, DestroyInv, TypeOK
<1>7. WatchdogInv'
  BY <1>0 DEF IInv, WatchdogInv, TypeOK, MapInv
<1>8. KeyHasOwner'
  BY <1>0 DEF IInv, KeyHasOwner, TypeOK
<1>9. QED
  BY <1>1, <1>2, <1>3, <1>4, <1>5, <1>6, <1>7, <1>8 DEF IInv

\* The watchdog takes the mutex.
LEMMA WatchdogLockInv ==
  ASSUME IInv, WatchdogLock PROVE IInv'
<1> USE ThreadsAssumption
    DEF Threads, Destroying, IsActive, itemVars, infoVars, netVars, threadVars, usedVars,
        WatchdogLock, Goto
<1>0. pc[Watchdog] = "lock" /\ ptr[Watchdog] \in Items
  BY DEF IInv, WatchdogLock, WatchdogInv
<1>1. TypeOK'
  BY <1>0 DEF IInv, TypeOK, InfoTypeOK, PCs
<1>2. PcRoles'
  BY <1>0 DEF IInv, PcRoles, WatchdogPCs, RecyclerPCs, RpcPCs, TypeOK
<1>3. MapInv'
  BY <1>0 DEF IInv, MapInv, TypeOK
<1>4. StageInv'
  BY <1>0 DEF IInv, StageInv, TypeOK
<1>5. HandlerInv'
  BY <1>0 DEF IInv, HandlerInv, TypeOK
<1>6. DestroyInv'
  BY <1>0 DEF IInv, DestroyInv, TypeOK
<1>7. WatchdogInv'
  BY <1>0 DEF IInv, WatchdogInv, TypeOK
<1>8. KeyHasOwner'
  BY <1>0 DEF IInv, KeyHasOwner, TypeOK
<1>9. QED
  BY <1>1, <1>2, <1>3, <1>4, <1>5, <1>6, <1>7, <1>8 DEF IInv

\* The watchdog closes a silent stream.
LEMMA CloseInvalidStreamInv ==
  ASSUME IInv, CloseInvalidStream PROVE IInv'
<1> USE ThreadsAssumption
    DEF Threads, Destroying, IsActive, itemVars, infoVars, netVars, threadVars, usedVars,
        CloseInvalidStream, PipelineCloseStream, RemoveStreamInfo, Goto
<1>0. pc[Watchdog] = "close" /\ ptr[Watchdog] \in Items /\ sid[ptr[Watchdog]] \in Ids
  BY DEF IInv, CloseInvalidStream, WatchdogInv, MapInv
<1>a. /\ streams' \in [Items -> SUBSET Streams]
      /\ pending' \subseteq Keys /\ keys' = keys
      /\ KeyHasOwner'
  BY <1>0, PipelineCloseStreamKeys
<1>1. TypeOK'
  BY <1>0, <1>a DEF IInv, TypeOK, InfoTypeOK, PCs
<1>2. PcRoles'
  BY <1>0 DEF IInv, PcRoles, WatchdogPCs, RecyclerPCs, RpcPCs, TypeOK
<1>3. MapInv'
  BY <1>0 DEF IInv, MapInv, TypeOK
<1>4. StageInv'
  BY <1>0 DEF IInv, StageInv, TypeOK
<1>5. HandlerInv'
  BY <1>0 DEF IInv, HandlerInv, TypeOK
<1>6. DestroyInv'
  BY <1>0 DEF IInv, DestroyInv, TypeOK
<1>7. WatchdogInv'
  BY <1>0 DEF IInv, WatchdogInv, TypeOK
<1>8. KeyHasOwner'
  BY <1>a
<1>9. QED
  BY <1>1, <1>2, <1>3, <1>4, <1>5, <1>6, <1>7, <1>8 DEF IInv

\* The watchdog leaves a session it need not recycle.
LEMMA KeepSessionInv ==
  ASSUME IInv, KeepSession PROVE IInv'
<1> USE ThreadsAssumption
    DEF Threads, Destroying, IsActive, itemVars, infoVars, netVars, threadVars, usedVars,
        KeepSession, Unlock, Finish
<1>0. pc[Watchdog] = "check" /\ ptr[Watchdog] \in Items
  BY DEF IInv, KeepSession, WatchdogInv
<1>1. TypeOK'
  BY <1>0 DEF IInv, TypeOK, InfoTypeOK, PCs
<1>2. PcRoles'
  BY <1>0 DEF IInv, PcRoles, WatchdogPCs, RecyclerPCs, RpcPCs, TypeOK
<1>3. MapInv'
  BY <1>0 DEF IInv, MapInv, TypeOK
<1>4. StageInv'
  BY <1>0 DEF IInv, StageInv, TypeOK
<1>5. HandlerInv'
  BY <1>0 DEF IInv, HandlerInv, TypeOK
<1>6. DestroyInv'
  BY <1>0 DEF IInv, DestroyInv, TypeOK
<1>7. WatchdogInv'
  BY <1>0 DEF IInv, WatchdogInv, TypeOK
<1>8. KeyHasOwner'
  BY <1>0 DEF IInv, KeyHasOwner, TypeOK
<1>9. QED
  BY <1>1, <1>2, <1>3, <1>4, <1>5, <1>6, <1>7, <1>8 DEF IInv

\* The watchdog closes a session and starts a recycle thread; nobody is inside it, since the watchdog holds the mutex.
LEMMA RecycleSessionInv ==
  ASSUME NEW t \in Recyclers, IInv, RecycleSession(t) PROVE IInv'
<1> USE ThreadsAssumption
    DEF Threads, Destroying, IsActive, itemVars, infoVars, netVars, threadVars, usedVars,
        RecycleSession, Unlock
<1>0. /\ t \in Threads /\ t # Watchdog /\ pc[t] = "idle" /\ pc[Watchdog] = "check"
      /\ ptr[Watchdog] \in Items /\ alloc[ptr[Watchdog]] = "live" /\ mutex[ptr[Watchdog]] = Watchdog
  BY DEF IInv, RecycleSession, WatchdogInv
<1>1. TypeOK'
  BY <1>0 DEF IInv, TypeOK, InfoTypeOK, PCs, SessionState
<1>2. PcRoles'
  BY <1>0 DEF IInv, PcRoles, WatchdogPCs, RecyclerPCs, RpcPCs, TypeOK
<1>3. MapInv'
  BY <1>0 DEF IInv, MapInv, TypeOK
<1>4. StageInv'
  BY <1>0 DEF IInv, StageInv, TypeOK
<1>5. HandlerInv'
  BY <1>0 DEF IInv, HandlerInv, TypeOK
<1>a. /\ pc' \in [Threads -> PCs] /\ ptr' \in [Threads -> Items \cup {NULL}]
      /\ pc'[t] = "d_remove" /\ ptr'[t] = ptr[Watchdog]
      /\ \A u \in (Rpcs \cup Recyclers) \ {t} : pc'[u] = pc[u] /\ ptr'[u] = ptr[u]
  BY <1>0, <1>1 DEF IInv, TypeOK, InfoTypeOK
<1>b. pipe[ptr[Watchdog]] = "live" /\ state[ptr[Watchdog]] = "ACTIVE"
  BY <1>0 DEF IInv, StageInv
<1>c. /\ \A j \in Items : state'[j] = IF j = ptr[Watchdog] THEN "CLOSED" ELSE state[j]
      /\ UNCHANGED <<alloc, pipe, streams>>
  BY <1>0 DEF IInv, TypeOK, InfoTypeOK
<1>6. DestroyInv'
  <2>1. ASSUME NEW u \in (Rpcs \cup Recyclers) \ {t}, pc[u] \in Destroying
        PROVE  ptr[u] # ptr[Watchdog]
    BY <1>b, <2>1 DEF IInv, DestroyInv
  <2>2. ASSUME NEW u \in (Rpcs \cup Recyclers) \ {t}, pc'[u] \in Destroying
        PROVE  /\ pc'[u] = pc[u] /\ ptr'[u] = ptr[u] /\ ptr[u] # ptr[Watchdog]
               /\ ptr[u] \in Items /\ state'[ptr[u]] = state[ptr[u]]
    <3>1. pc'[u] = pc[u] /\ ptr'[u] = ptr[u] /\ pc[u] \in Destroying
      BY <1>a, <2>2
    <3>2. ptr[u] \in Items
      BY <3>1 DEF IInv, DestroyInv
    <3>3. QED
      BY <1>c, <2>1, <3>1, <3>2
  <2>3. UNCHANGED <<alloc, pipe, streams>>
    BY <1>c
  <2>4. state'[ptr[Watchdog]] = "CLOSED"
    BY <1>0, <1>c
  <2>5. DestroyInv
    BY DEF IInv
  <2> HIDE DEF RecycleSession, Unlock
  <2>6. ASSUME NEW w \in Rpcs \cup Recyclers, pc'[w] \in Destroying
        PROVE  /\ ptr'[w] \in Items /\ alloc'[ptr'[w]] = "live" /\ state'[ptr'[w]] = "CLOSED"
               /\ \A u \in (Rpcs \cup Recyclers) \ {w} : pc'[u] \in Destroying => ptr'[u] # ptr'[w]
               /\ pc'[w] \in {"d_remove", "d_closeall", "d_delete"} => pipe'[ptr'[w]] = "live"
               /\ pc'[w] = "d_delete" => streams'[ptr'[w]] = {}
               /\ pc'[w] = "d_null" => pipe'[ptr'[w]] = "dangling"
               /\ pc'[w] \in {"d_time", "d_state"} => pipe'[ptr'[w]] = "null"
    <3>1. CASE w = t
      BY <1>0, <1>a, <1>b, <2>2, <2>3, <2>4, <3>1
    <3>2. CASE w # t
      BY <1>a, <2>2, <2>3, <2>5, <2>6, <3>2 DEF DestroyInv
    <3>3. QED
      BY <3>1, <3>2
  <2>7. QED
    BY <2>6 DEF DestroyInv
<1>7. WatchdogInv'
  BY <1>0 DEF IInv, WatchdogInv, TypeOK
<1>8. KeyHasOwner'
  BY <1>0 DEF IInv, KeyHasOwner, TypeOK
<1>9. QED
  BY <1>1, <1>2, <1>3, <1>4, <1>5, <1>6, <1>7, <1>8 DEF IInv

\* The watchdog deletes destroyed objects; it holds no pointer itself then.
LEMMA WatchdogPurgeInv ==
  ASSUME IInv, WatchdogPurge PROVE IInv'
<1> USE ThreadsAssumption
    DEF Threads, Destroying, IsActive, itemVars, infoVars, netVars, threadVars, usedVars,
        WatchdogPurge, CanRecycle, Goto
<1>0. pc[Watchdog] = "scan"
  BY DEF IInv, WatchdogPurge
<1>1. TypeOK'
  BY <1>0 DEF IInv, TypeOK, InfoTypeOK, PCs, Allocs
<1>2. PcRoles'
  BY <1>0 DEF IInv, PcRoles, WatchdogPCs, RecyclerPCs, RpcPCs, TypeOK
<1>3. MapInv'
  BY <1>0 DEF IInv, MapInv, TypeOK
<1>4. StageInv'
  BY <1>0 DEF IInv, StageInv, TypeOK
<1>5. HandlerInv'
  BY <1>0 DEF IInv, HandlerInv, TypeOK
<1>6. DestroyInv'
  BY <1>0 DEF IInv, DestroyInv, TypeOK
<1>7. WatchdogInv'
  BY <1>0 DEF IInv, WatchdogInv, TypeOK
<1>8. KeyHasOwner'
  BY <1>0 DEF IInv, KeyHasOwner, TypeOK
<1>9. QED
  BY <1>1, <1>2, <1>3, <1>4, <1>5, <1>6, <1>7, <1>8 DEF IInv

\* A handler works on its pipeline and releases the mutex.
LEMMA HandleInv ==
  ASSUME NEW r \in Rpcs, IInv, Handle(r) PROVE IInv'
<1> USE ThreadsAssumption DEF Threads, Destroying, IsActive, itemVars, infoVars, netVars,
      threadVars, usedVars
<1> DEFINE i == ptr[r]
<1>0. /\ r \in Threads /\ r # Watchdog /\ pc[r] = "act" /\ i \in Items
      /\ alloc[i] = "live" /\ state[i] = "ACTIVE" /\ pipe[i] = "live" /\ mutex[i] = r
      /\ cid[r] = sid[i] /\ sid[i] \in Ids /\ sessionMap[cid[r]] = i
  BY DEF IInv, Handle, HandlerInv, MapInv, StageInv
<1>1. HandlerItem(r) = i /\ HandlerPipe(r) = "live"
  BY <1>0 DEF HandlerItem, HandlerPipe, GetSessionData, GetPipeline
<1>2. Return(r) /\ (HandleCreateStream(r) \/ HandleCloseStream(r) \/ HandleMessage(r))
  BY <1>1 DEF Handle
<1>3. /\ Goto(r, "tail") \/ Finish(r, "idle")
      /\ mutex' = [mutex EXCEPT ![i] = NULL]
      /\ UNCHANGED <<alloc, sid, state, pipe, expired, sessionMap, wdKeys, usedIds, fault>>
  <2>1. mutex' = [mutex EXCEPT ![i] = NULL]
    BY <1>0, <1>2 DEF Return, Unlock
  <2>2. QED
    BY <1>2, <2>1 DEF Return
<1>4. /\ streams' \in [Items -> SUBSET Streams]
      /\ pending' \subseteq Keys /\ keys' \subseteq Keys /\ usedStreams' \subseteq Keys
      /\ infoStatus' \in [Ids -> {"none", "live", "destroyed"}]
      /\ infoStreams' \in [Ids -> [Streams -> {"none", "live", "leave"}]]
      /\ \A j \in Items \ {i} : streams'[j] = streams[j]
      /\ KeyHasOwner'
  <2>1. CASE HandleCreateStream(r)
    <3>1. CASE DrawableStreams(i) = {}
      BY <1>1, <1>3, <2>1, <3>1 DEF HandleCreateStream, IInv, TypeOK, InfoTypeOK, KeyHasOwner
    <3>2. CASE DrawableStreams(i) # {}
      <4>1. PICK st \in DrawableStreams(i) :
              /\ streams' = [streams EXCEPT ![i] = @ \cup {st}]
              /\ keys' = keys \cup {<<sid[i], st>>}
              /\ usedStreams' = IF FreshIds THEN usedStreams \cup {<<sid[i], st>>}
                                             ELSE usedStreams
              /\ AddStreamInfo(cid[r], st)
              /\ UNCHANGED pending
        BY <1>1, <2>1, <3>2 DEF HandleCreateStream
      <4>2. st \in Streams /\ <<sid[i], st>> \in Keys
        BY <1>0, <4>1 DEF DrawableStreams, Keys
      <4>3. /\ streams' \in [Items -> SUBSET Streams]
            /\ \A j \in Items : streams'[j] = IF j = i THEN streams[j] \cup {st} ELSE streams[j]
            /\ pending' \subseteq Keys /\ keys' \subseteq Keys /\ usedStreams' \subseteq Keys
        BY <1>0, <4>1, <4>2 DEF IInv, TypeOK, InfoTypeOK
      <4>4. /\ infoStatus' \in [Ids -> {"none", "live", "destroyed"}]
            /\ infoStreams' \in [Ids -> [Streams -> {"none", "live", "leave"}]]
        BY <1>0, <4>1, <4>2 DEF IInv, TypeOK, InfoTypeOK, AddStreamInfo
      <4>5. ASSUME NEW k \in keys'
            PROVE  k \in pending' \/ \E j \in Items : sid'[j] = k[1] /\ k[2] \in streams'[j]
        <5>1. CASE k = <<sid[i], st>>
          BY <1>0, <1>3, <4>3, <5>1
        <5>2. CASE k \in keys
          BY <1>3, <4>1, <4>3, <5>2 DEF IInv, KeyHasOwner
        <5>3. QED
          BY <4>1, <5>1, <5>2
      <4>6. QED
        BY <4>3, <4>4, <4>5 DEF KeyHasOwner
    <3>3. QED
      BY <3>1, <3>2
  <2>2. CASE HandleCloseStream(r)
    <3>1. PipelineCloseStream(i, cst[r]) /\ UNCHANGED <<infoVars, usedStreams>>
      BY <1>1, <2>2 DEF HandleCloseStream
    <3>2. QED
      BY <1>0, <1>3, <3>1, PipelineCloseStreamKeys DEF IInv, TypeOK, InfoTypeOK, PipelineCloseStream
  <2>3. CASE HandleMessage(r)
    BY <1>3, <2>3 DEF HandleMessage, IInv, TypeOK, InfoTypeOK, KeyHasOwner
  <2>4. QED
    BY <1>2, <2>1, <2>2, <2>3
<1>5. TypeOK'
  <2>1. CASE Goto(r, "tail")
    BY <1>0, <1>3, <1>4, <2>1 DEF IInv, TypeOK, InfoTypeOK, PCs, Goto
  <2>2. CASE Finish(r, "idle")
    BY <1>0, <1>3, <1>4, <2>2 DEF IInv, TypeOK, InfoTypeOK, PCs, Finish
  <2>3. QED
    BY <1>3, <2>1, <2>2
<1>6. /\ pc' \in [Threads -> PCs] /\ pc'[r] \in {"tail", "idle"}
      /\ pc'[r] = "tail" => cid'[r] = cid[r]
      /\ \A u \in Threads \ {r} : pc'[u] = pc[u] /\ ptr'[u] = ptr[u] /\ cid'[u] = cid[u]
  <2>1. CASE Goto(r, "tail")
    BY <1>0, <2>1 DEF IInv, TypeOK, InfoTypeOK, PCs, Goto
  <2>2. CASE Finish(r, "idle")
    BY <1>0, <2>2 DEF IInv, TypeOK, InfoTypeOK, PCs, Finish
  <2>3. QED
    BY <1>3, <2>1, <2>2
<1>7. PcRoles'
  BY <1>0, <1>6 DEF IInv, PcRoles, WatchdogPCs, RecyclerPCs, RpcPCs
<1>8. MapInv'
  BY <1>3 DEF IInv, MapInv
<1>9. StageInv'
  BY <1>0, <1>3, <1>4 DEF IInv, StageInv
<1>10. \A j \in Items \ {i} : mutex'[j] = mutex[j]
  BY <1>3 DEF IInv, TypeOK, InfoTypeOK
<1>11. HandlerInv'
  <2>1. ASSUME NEW u \in Rpcs \ {r}, pc[u] = "act" PROVE ptr[u] # i
    BY <1>0, <2>1 DEF IInv, HandlerInv
  <2>2. QED
    BY <1>0, <1>3, <1>6, <1>10, <2>1 DEF IInv, HandlerInv
<1>12. DestroyInv'
  <2>1. ASSUME NEW u \in Rpcs \cup Recyclers, pc[u] \in Destroying PROVE u # r /\ ptr[u] # i
    BY <1>0, <2>1 DEF IInv, DestroyInv
  <2>2. ASSUME NEW u \in Rpcs \cup Recyclers, pc'[u] \in Destroying
        PROVE  /\ u # r /\ pc'[u] = pc[u] /\ ptr'[u] = ptr[u]
               /\ ptr[u] \in Items /\ streams'[ptr[u]] = streams[ptr[u]]
    <3>1. u # r
      BY <1>6, <2>2
    <3>2. pc'[u] = pc[u] /\ ptr'[u] = ptr[u]
      BY <1>6, <3>1
    <3>3. ptr[u] \in Items /\ ptr[u] # i
      BY <2>1, <2>2, <3>2 DEF IInv, DestroyInv
    <3>4. QED
      BY <1>4, <3>1, <3>2, <3>3
  <2>3. UNCHANGED <<alloc, state, pipe>>
    BY <1>3
  <2>4. DestroyInv
    BY DEF IInv
  <2>5. QED
    BY <2>2, <2>3, <2>4 DEF DestroyInv
<1>13. WatchdogInv'
  BY <1>0, <1>3, <1>6, <1>10 DEF IInv, WatchdogInv
<1>14. QED
  BY <1>4, <1>5, <1>7, <1>8, <1>9, <1>11, <1>12, <1>13 DEF IInv

-------------------------------------------------------------------------------

\* Every step of the service preserves IInv.
LEMMA NextInv == IInv /\ [Next]_vars => IInv'
<1> SUFFICES ASSUME IInv, [Next]_vars PROVE IInv'
  OBVIOUS
<1>1. CASE UNCHANGED vars
  BY <1>1, StutterInv
<1>2. CASE \E r \in Rpcs : RpcStep(r)
  <2> PICK r \in Rpcs : RpcStep(r)
    BY <1>2
  <2>1. CASE CallFreed(r)
    BY <2>1, FaultInv DEF CallFreed, Faults
  <2>2. QED
    BY <2>1, CreateSessionInv, CreateSessionLookupInv, CreateSessionPipelineInv,
       InsertSessionDataInv, CallInv, CallRejectedInv, CallEnterInv, CloseSessionInv, HandleInv, CloseStreamTailInv DEF RpcStep
<1>3. CASE \E t \in Rpcs \cup Recyclers : Destroy(t)
  <2> PICK t \in Rpcs \cup Recyclers : Destroy(t)
    BY <1>3
  <2>1. CASE DestroyUnlock(t) /\ alloc[ptr[t]] = "freed"
    BY <2>1, FaultInv DEF DestroyUnlock, Faults
  <2>2. QED
    BY <2>1, DestroyRemoveInfoInv, DestroyCloseAllInv, DestroyDeleteInv, DestroyNullInv,
       DestroyTimeInv, DestroyStateInv, DestroyUnlockInv DEF Destroy
<1>4. CASE WatchdogStep
  <2>1. CASE CloseInvalidStreamFault \/ CheckSessionFault
    BY <2>1, FaultInv DEF CloseInvalidStreamFault, CheckSessionFault, Faults
  <2>2. QED
    BY <1>4, <2>1, WatchdogTraverseInv, WatchdogNextInv, WatchdogLockInv, CloseInvalidStreamInv,
       KeepSessionInv, RecycleSessionInv, WatchdogPurgeInv
    DEF WatchdogStep, CheckAndRecycleSession
<1>5. CASE (\E i \in Items : Elapse(i)) \/ (\E k \in Keys : Teardown(k))
  BY <1>5, ElapseInv, TeardownInv
<1>6. QED
  BY <1>1, <1>2, <1>3, <1>4, <1>5 DEF Next, Faulted

\* IInv holds in every state the service reaches, for any number of handler
\* threads, recycle threads, session ids and objects.
THEOREM Invariance == Spec => []IInv
<1>1. Init => IInv
  BY InitInv
<1>2. IInv /\ [Next]_vars => IInv'
  BY NextInv
<1>3. QED
  BY <1>1, <1>2, PTL DEF Spec

\* The fields, tables and thread locals keep their types.
THEOREM TypeCorrect == Spec => []TypeOK
<1>1. IInv => TypeOK
  BY DEF IInv
<1>2. QED
  BY <1>1, Invariance, PTL

\* A handler inside the locked section owns a live pipeline.
THEOREM HandlersAreSafe == Spec => []ActiveCallOwnsPipeline
<1>1. IInv => ActiveCallOwnsPipeline
  BY DEF IInv, ActiveCallOwnsPipeline, HandlerInv, StageInv, MapInv, IsActive
<1>2. QED
  BY <1>1, Invariance, PTL

\* One thread at most tears a session down, on an object that still exists.
THEOREM OneDestroyer == Spec => []SingleDestroyer
<1>1. IInv => SingleDestroyer
  BY DEF IInv, SingleDestroyer, DestroyInv
<1>2. QED
  BY <1>1, Invariance, PTL

\* The watchdog never visits an object it has deleted.
THEOREM WatchdogIsSafe == Spec => []WatchdogPointerValid
<1>1. IInv => WatchdogPointerValid
  BY DEF IInv, WatchdogPointerValid, WatchdogInv
<1>2. QED
  BY <1>1, Invariance, PTL

\* A deleted pipeline has no stream left, and every watched stream an owner.
THEOREM StreamsAreOwned == Spec => []StreamsHaveOwner
<1>1. IInv => StreamsHaveOwner
  BY DEF IInv, StreamsHaveOwner, NoOrphanStreams, StageInv
<1>2. QED
  BY <1>1, Invariance, PTL
-------------------------------------------------------------------------------
(* Statusz and the pipelines, when rand() never repeats an id: FreshInv is   *)
(* preserved as well.                                                        *)

\* StatuszAgrees for one object and stream by stream.
Agrees(i) ==
  alloc[i] = "live" /\ state[i] = "ACTIVE" /\ infoStatus[sid[i]] # "none" =>
    \A st \in Streams :
      /\ st \in streams[i] => infoStreams[sid[i]][st] = "live"
      /\ infoStreams[sid[i]][st] = "live" /\ st \notin streams[i] =>
           \E r \in Rpcs : pc[r] = "tail" /\ cid[r] = sid[i] /\ cst[r] = st

LEMMA AgreesEach == ASSUME StatuszAgrees PROVE \A i \in Items : Agrees(i)
  BY DEF StatuszAgrees, Agrees, Shown, ToMark, IsActive

LEMMA AgreesAll == ASSUME TypeOK', \A i \in Items : Agrees(i)' PROVE StatuszAgrees'
  BY DEF TypeOK, StatuszAgrees, Agrees, Shown, ToMark, IsActive

\* What a step must not touch for FreshInv to be out of its reach.
Sessions == <<sid, state, pipe, streams, infoStatus, infoStreams, usedIds, usedStreams>>
SameThread(t) == pc'[t] = pc[t] /\ op'[t] = op[t] /\ ptr'[t] = ptr[t] /\ cid'[t] = cid[t] /\ cst'[t] = cst[t]

LEMMA FreshInit == Init => FreshInv
  BY ThreadsAssumption DEF Init, InfoInit, FreshInv, IdOnce, StreamOnce, ClosedStays, StatuszAgrees,
     RecycleOnlyEmptySession, Creating, Threads

\* A step of the watchdog, of the clock or of a teardown thread that keeps the sessions.
LEMMA FreshStay ==
  ASSUME IInv, FreshInv, UNCHANGED Sessions, \A i \in Items : alloc'[i] \in {alloc[i], "freed"},
         \A t \in Rpcs \cup Recyclers : SameThread(t)
  PROVE  FreshInv'
<1> USE DEF Sessions, SameThread
<1>1. IdOnce' /\ StreamOnce' /\ ClosedStays'
  BY DEF FreshInv, IdOnce, StreamOnce, ClosedStays
<1>2. RecycleOnlyEmptySession'
  BY DEF FreshInv, RecycleOnlyEmptySession
<1>3. StatuszAgrees'
  <2>1. \A s : ToMark(s)' = ToMark(s) /\ Shown(s)' = Shown(s)
    BY DEF ToMark, Shown
  <2> QED BY <2>1 DEF FreshInv, StatuszAgrees, IsActive
<1> QED BY <1>1, <1>2, <1>3 DEF FreshInv

\* A handler or a recycle thread moves on, and keeps the sessions; it neither
\* creates a session nor is about to mark a stream.
LEMMA FreshMove ==
  ASSUME IInv, FreshInv, NEW t \in Rpcs \cup Recyclers, UNCHANGED <<alloc, Sessions>>,
         \A u \in (Rpcs \cup Recyclers) \ {t} : SameThread(u),
         pc[t] # "tail", pc'[t] \notin Creating \cup {"tail"},
         t \in Rpcs /\ op'[t] = "CloseStream" /\ pc'[t] \in {"lock", "act"} => <<cid'[t], cst'[t]>> \in usedStreams,
         t \in Recyclers /\ pc'[t] \in {"d_remove", "d_closeall"} => streams[ptr'[t]] = {}
  PROVE  FreshInv'
<1> USE DEF Sessions, SameThread
<1>1. IdOnce'
  BY DEF FreshInv, IdOnce, Creating
<1>2. StreamOnce'
  BY DEF FreshInv, StreamOnce
<1>3. ClosedStays'
  BY DEF FreshInv, ClosedStays
<1>4. RecycleOnlyEmptySession'
  BY DEF FreshInv, RecycleOnlyEmptySession
<1>5. StatuszAgrees'
  <2>1. \A s : ToMark(s)' = ToMark(s) /\ Shown(s)' = Shown(s)
    BY DEF ToMark, Shown
  <2> QED BY <2>1 DEF FreshInv, StatuszAgrees, IsActive
<1> QED BY <1>1, <1>2, <1>3, <1>4, <1>5 DEF FreshInv

\* CreateSession draws an id no session and no other call has.
LEMMA CreateSessionFresh ==
  ASSUME FreshIds, IInv, FreshInv, NEW r \in Rpcs, NEW s \in Ids, CreateSession(r, s) PROVE FreshInv'
<1>1. /\ UNCHANGED <<alloc, sid, state, pipe, streams, infoStatus, infoStreams, usedStreams>>
      /\ usedIds' = usedIds \cup {s} /\ s \notin usedIds /\ s # NULL
      /\ pc[r] = "idle" /\ pc'[r] = "new" /\ cid'[r] = s
      /\ \A u \in (Rpcs \cup Recyclers) \ {r} : SameThread(u)
  BY StatuszAssumption DEF IInv, TypeOK, CreateSession, itemVars, infoVars, SameThread, Threads
<1>2. IdOnce'
  BY <1>1 DEF FreshInv, IdOnce, Creating, SameThread
<1>3. StreamOnce'
  BY <1>1 DEF FreshInv, StreamOnce
<1>4. ClosedStays'
  BY <1>1 DEF FreshInv, ClosedStays, SameThread
<1>5. RecycleOnlyEmptySession'
  BY <1>1, ThreadsAssumption DEF FreshInv, RecycleOnlyEmptySession, SameThread
<1>6. StatuszAgrees'
  <2>1. \A x : ToMark(x)' = ToMark(x) /\ Shown(x)' = Shown(x)
    BY <1>1 DEF ToMark, Shown, SameThread
  <2> QED BY <1>1, <2>1 DEF FreshInv, StatuszAgrees, IsActive
<1> QED BY <1>2, <1>3, <1>4, <1>5, <1>6 DEF FreshInv

\* The second lookup finds nothing.
LEMMA CreateSessionLookupFresh ==
  ASSUME FreshIds, IInv, FreshInv, NEW r \in Rpcs, CreateSessionLookup(r) PROVE FreshInv'
<1>0. cid[r] \in Ids /\ pc[r] = "new" /\ \A i \in Items : sid[i] # cid[r]
  BY DEF IInv, HandlerInv, FreshInv, IdOnce, Creating, CreateSessionLookup
<1>1. sessionMap[cid[r]] = NULL
  BY <1>0 DEF IInv, TypeOK, MapInv
<1>2. /\ UNCHANGED <<alloc, Sessions>> /\ pc'[r] = "read" /\ cid'[r] = cid[r] /\ ptr'[r] = NULL
      /\ \A u \in (Rpcs \cup Recyclers) \ {r} : SameThread(u)
  BY <1>1 DEF IInv, TypeOK, CreateSessionLookup, GetSessionData, itemVars, infoVars, usedVars, Sessions,
     SameThread, Threads
<1> USE <1>0, <1>2 DEF Sessions, SameThread
<1>3. IdOnce'
  BY DEF FreshInv, IdOnce, Creating
<1>4. StreamOnce'
  BY DEF FreshInv, StreamOnce
<1>5. ClosedStays'
  BY DEF FreshInv, ClosedStays
<1>6. RecycleOnlyEmptySession'
  BY ThreadsAssumption DEF FreshInv, RecycleOnlyEmptySession
<1>7. StatuszAgrees'
  <2>1. \A x : ToMark(x)' = ToMark(x) /\ Shown(x)' = Shown(x)
    BY DEF ToMark, Shown
  <2> QED BY <2>1 DEF FreshInv, StatuszAgrees, IsActive
<1> QED BY <1>3, <1>4, <1>5, <1>6, <1>7 DEF FreshInv

\* The entry is added to statusz before the object exists; an entry that makes
\* room for it is gone for good.
LEMMA CreateSessionPipelineFresh ==
  ASSUME FreshIds, IInv, FreshInv, NEW r \in Rpcs, CreateSessionPipeline(r) PROVE FreshInv'
<1>0. /\ cid[r] \in Ids /\ pc[r] = "read" /\ ptr[r] = NULL /\ r \in Threads
      /\ \A i \in Items : sid[i] # cid[r]
  BY DEF IInv, HandlerInv, FreshInv, IdOnce, Creating, CreateSessionPipeline, Threads
<1>1. /\ UNCHANGED <<alloc, sid, state, pipe, streams, usedIds, usedStreams>> /\ AddSessionInfo(cid[r])
      /\ pc'[r] \in {"insert", "idle"} /\ ptr'[r] = NULL /\ (pc'[r] = "insert" => cid'[r] = cid[r])
      /\ \A u \in (Rpcs \cup Recyclers) \ {r} : SameThread(u)
  <2>1. CASE Finish(r, "idle")
    BY <1>0, <2>1 DEF IInv, TypeOK, CreateSessionPipeline, Finish, Goto, itemVars, usedVars, SameThread, Threads
  <2>2. CASE ~Finish(r, "idle")
    BY <1>0, <2>2 DEF IInv, TypeOK, CreateSessionPipeline, Goto, itemVars, usedVars, SameThread, Threads
  <2> QED BY <2>1, <2>2
<1>2. ASSUME NEW s \in Ids, s # cid[r], infoStatus'[s] # "none"
      PROVE  infoStatus[s] # "none" /\ infoStreams'[s] = infoStreams[s]
  BY <1>1, <1>2 DEF AddSessionInfo, infoVars, IInv, TypeOK, InfoTypeOK
<1>3. ASSUME NEW s \in Ids, NEW st \in Streams, infoStreams'[s][st] # "none"
      PROVE  infoStreams[s][st] # "none" /\ infoStatus'[s] # "none"
  <2>1. CASE infoStatus[cid[r]] # "none"
    BY <1>1, <1>3, <2>1 DEF AddSessionInfo, infoVars, FreshInv, StreamOnce
  <2>2. CASE infoStatus[cid[r]] = "none"
    <3>1. PICK v \in Evictable :
            /\ infoStatus' = [x \in Ids |-> CASE x = cid[r] -> "live"
                                              [] x = v -> "none"
                                              [] OTHER -> infoStatus[x]]
            /\ infoStreams' = [x \in Ids |-> IF x = cid[r] \/ x = v THEN [y \in Streams |-> "none"]
                                             ELSE infoStreams[x]]
      BY <1>1, <2>2 DEF AddSessionInfo
    <3>2. s # cid[r] /\ s # v
      BY <1>3, <3>1
    <3> QED BY <1>3, <3>1, <3>2 DEF FreshInv, StreamOnce
  <2> QED BY <2>1, <2>2
<1>4. IdOnce'
  BY <1>0, <1>1 DEF FreshInv, IdOnce, Creating, SameThread
<1>5. StreamOnce'
  BY <1>1, <1>3 DEF FreshInv, StreamOnce
<1>6. ClosedStays'
  BY <1>0, <1>1 DEF FreshInv, ClosedStays, SameThread
<1>7. RecycleOnlyEmptySession'
  BY <1>0, <1>1, ThreadsAssumption DEF FreshInv, RecycleOnlyEmptySession, SameThread
<1>8. StatuszAgrees'
  <2> SUFFICES ASSUME NEW i \in Items PROVE Agrees(i)'
    BY AgreesAll, CreateSessionPipelineInv DEF IInv
  <2>1. Agrees(i)
    BY AgreesEach DEF FreshInv
  <2>2. alloc[i] = "live" => sid[i] \in Ids
    BY DEF IInv, MapInv
  <2>3. \A x \in Rpcs : pc[x] = "tail" => pc'[x] = "tail" /\ cid'[x] = cid[x] /\ cst'[x] = cst[x]
    BY <1>0, <1>1 DEF SameThread
  <2> QED BY <1>0, <1>1, <1>2, <2>1, <2>2, <2>3 DEF Agrees
<1> QED BY <1>4, <1>5, <1>6, <1>7, <1>8 DEF FreshInv

\* The object of a new session: statusz has seen no stream of it.
LEMMA InsertSessionDataFresh ==
  ASSUME FreshIds, IInv, FreshInv, NEW r \in Rpcs, NEW i \in Items, InsertSessionData(r, i) PROVE FreshInv'
<1>0. /\ cid[r] \in Ids /\ pc[r] = "insert" /\ ptr[r] = NULL /\ alloc[i] = "unused" /\ r \in Threads
      /\ cid[r] \in usedIds /\ \A j \in Items : sid[j] # cid[r]
      /\ cid[r] # NULL
  BY StatuszAssumption DEF IInv, HandlerInv, FreshInv, IdOnce, Creating, InsertSessionData, Threads
<1>1. sessionMap[cid[r]] = NULL /\ streams[i] = {} /\ state[i] = "ACTIVE"
  BY <1>0 DEF IInv, TypeOK, MapInv, StageInv
<1>2. /\ alloc' = [alloc EXCEPT ![i] = "live"] /\ sid' = [sid EXCEPT ![i] = cid[r]]
      /\ pipe' = [pipe EXCEPT ![i] = "live"]
      /\ UNCHANGED <<state, streams, infoStatus, infoStreams, usedIds, usedStreams>>
      /\ Finish(r, "idle")
  BY <1>0, <1>1 DEF InsertSessionData, GetSessionData, infoVars, usedVars
<1>3. pc'[r] = "idle" /\ \A u \in (Rpcs \cup Recyclers) \ {r} : SameThread(u)
  BY <1>0, <1>2 DEF IInv, TypeOK, Finish, SameThread, Threads
<1>4. \A j \in Items : /\ sid'[j] = IF j = i THEN cid[r] ELSE sid[j]
                       /\ alloc'[j] = IF j = i THEN "live" ELSE alloc[j]
  BY <1>2 DEF IInv, TypeOK
<1>5. \A st \in Streams : infoStreams[cid[r]][st] = "none" /\ <<cid[r], st>> \notin usedStreams
  BY <1>0 DEF FreshInv, StreamOnce
<1>a. sid[i] = NULL
  BY <1>0 DEF FreshInv, IdOnce
<1>6. IdOnce'
  BY <1>0, <1>2, <1>3, <1>4 DEF FreshInv, IdOnce, Creating, SameThread
<1>7. StreamOnce'
  <2>1. \A j \in Items : \A st \in streams'[j] : <<sid'[j], st>> \in usedStreams'
    BY <1>1, <1>2, <1>4 DEF FreshInv, StreamOnce
  <2>2. ASSUME NEW k \in usedStreams PROVE \E j \in Items : sid'[j] = k[1]
    BY <1>4, <1>a, StatuszAssumption DEF FreshInv, StreamOnce, IInv, TypeOK, Keys
  <2> QED BY <1>2, <2>1, <2>2 DEF FreshInv, StreamOnce
<1>8. ClosedStays'
  BY <1>1, <1>2, <1>3, <1>4 DEF FreshInv, ClosedStays, SameThread, IInv, TypeOK
<1>9. RecycleOnlyEmptySession'
  BY <1>0, <1>2, <1>3, ThreadsAssumption DEF FreshInv, RecycleOnlyEmptySession, SameThread
<1>10. StatuszAgrees'
  <2> SUFFICES ASSUME NEW j \in Items PROVE Agrees(j)'
    BY AgreesAll, InsertSessionDataInv DEF IInv
  <2>1. CASE j = i
    BY <1>1, <1>2, <1>4, <1>5, <2>1 DEF Agrees
  <2>2. CASE j # i
    <3>1. Agrees(j)
      BY AgreesEach DEF FreshInv
    <3>2. alloc'[j] = alloc[j] /\ sid'[j] = sid[j]
      BY <1>2, <2>2 DEF IInv, TypeOK
    <3>3. \A x \in Rpcs : pc[x] = "tail" => pc'[x] = "tail" /\ cid'[x] = cid[x] /\ cst'[x] = cst[x]
      BY <1>0, <1>3 DEF SameThread
    <3> QED BY <1>2, <3>1, <3>2, <3>3 DEF Agrees
  <2> QED BY <2>1, <2>2
<1> QED BY <1>6, <1>7, <1>8, <1>9, <1>10 DEF FreshInv

\* CloseStream for a session that is gone goes on to statusz: the session's object,
\* if it is still in memory, has no pipeline any more.
LEMMA CallFresh ==
  ASSUME FreshIds, IInv, FreshInv, NEW r \in Rpcs, NEW o \in Ops, NEW s \in Ids, NEW st \in Streams \cup {NULL},
         Call(r, o, s, st)
  PROVE  FreshInv'
<1>1. /\ UNCHANGED <<alloc, Sessions>> /\ pc[r] = "idle"
      /\ pc'[r] = (IF sessionMap[s] # NULL THEN "lock" ELSE "tail")
      /\ op'[r] = o /\ cid'[r] = s /\ cst'[r] = st
      /\ sessionMap[s] = NULL => o = "CloseStream"
      /\ o = "CloseStream" => <<s, st>> \in usedStreams
      /\ \A u \in (Rpcs \cup Recyclers) \ {r} : SameThread(u)
  BY DEF IInv, TypeOK, Call, GetSessionData, itemVars, infoVars, usedVars, Sessions, SameThread, Threads
<1>2. CASE sessionMap[s] # NULL
  BY <1>1, <1>2, FreshMove, ThreadsAssumption DEF Creating
<1>3. CASE sessionMap[s] = NULL
  <2> USE <1>1, <1>3 DEF Sessions, SameThread
  <2>1. IdOnce'
    BY DEF FreshInv, IdOnce, Creating
  <2>2. StreamOnce'
    BY DEF FreshInv, StreamOnce
  <2>3. \A i \in Items : sid[i] = s => streams[i] = {}
    <3>1. \A i \in Items : sid[i] = s => alloc[i] # "live"
      BY ThreadsAssumption DEF IInv, MapInv
    <3>2. \A i \in Items : alloc[i] # "live" => streams[i] = {}
      BY DEF IInv, TypeOK, Allocs, StageInv, FreshInv, ClosedStays
    <3> QED BY <3>1, <3>2
  <2>4. ClosedStays'
    BY <2>3 DEF FreshInv, ClosedStays
  <2>5. RecycleOnlyEmptySession'
    BY ThreadsAssumption DEF FreshInv, RecycleOnlyEmptySession
  <2>6. StatuszAgrees'
    <3> SUFFICES ASSUME NEW i \in Items PROVE Agrees(i)'
      BY AgreesAll, CallInv DEF IInv
    <3>1. Agrees(i)
      BY AgreesEach DEF FreshInv
    <3>2. \A x \in Rpcs : pc[x] = "tail" => pc'[x] = "tail" /\ cid'[x] = cid[x] /\ cst'[x] = cst[x]
      OBVIOUS
    <3> QED BY <3>1, <3>2 DEF Agrees
  <2> QED BY <2>1, <2>2, <2>4, <2>5, <2>6 DEF FreshInv
<1> QED BY <1>2, <1>3

\* Closing a session, or destroying its pipeline, is outside what FreshInv says of
\* active ones.
LEMMA CloseSessionFresh ==
  ASSUME FreshIds, IInv, FreshInv, NEW r \in Rpcs, CloseSession(r) PROVE FreshInv'
<1>1. /\ UNCHANGED <<alloc, sid, pipe, streams, infoStatus, infoStreams, usedIds, usedStreams>>
      /\ pc[r] = "lock" /\ pc'[r] = "d_remove"
      /\ \A u \in (Rpcs \cup Recyclers) \ {r} : SameThread(u)
      /\ \A i \in Items : state'[i] \in {state[i], "CLOSED"}
  BY DEF IInv, TypeOK, CloseSession, Lockable, Goto, infoVars, usedVars, SameThread, Threads
<1> USE <1>1 DEF SameThread
<1>2. IdOnce'
  BY DEF FreshInv, IdOnce, Creating
<1>3. StreamOnce'
  BY DEF FreshInv, StreamOnce
<1>4. ClosedStays'
  BY DEF FreshInv, ClosedStays
<1>5. RecycleOnlyEmptySession'
  BY ThreadsAssumption DEF FreshInv, RecycleOnlyEmptySession
<1>6. StatuszAgrees'
  <2>1. \A x : ToMark(x)' = ToMark(x) /\ Shown(x)' = Shown(x)
    BY DEF ToMark, Shown
  <2> QED BY <2>1 DEF FreshInv, StatuszAgrees, IsActive
<1> QED BY <1>2, <1>3, <1>4, <1>5, <1>6 DEF FreshInv

\* CreateStream: the id is new to the pipeline and to statusz alike.
LEMMA CreateStreamFresh ==
  ASSUME FreshIds, IInv, FreshInv, NEW r \in Rpcs, Handle(r), op[r] = "CreateStream" PROVE FreshInv'
<1> DEFINE i == ptr[r]
<1>0. /\ r \in Threads /\ pc[r] = "act" /\ i \in Items /\ alloc[i] = "live" /\ state[i] = "ACTIVE"
      /\ pipe[i] = "live" /\ cid[r] = sid[i] /\ sid[i] \in Ids /\ sessionMap[cid[r]] = i
  BY DEF IInv, Handle, HandlerInv, MapInv, StageInv, IsActive, Threads
<1>1. HandlerItem(r) = i /\ HandlerPipe(r) = "live"
  BY <1>0, ThreadsAssumption DEF HandlerItem, HandlerPipe, GetSessionData, GetPipeline
<1>2. HandleCreateStream(r) /\ Return(r)
  BY <1>1 DEF Handle, HandleCloseStream, HandleMessage
<1>3. /\ UNCHANGED <<alloc, sid, state, pipe, usedIds>> /\ pc'[r] = "idle" /\ op'[r] = NULL
      /\ \A u \in (Rpcs \cup Recyclers) \ {r} : SameThread(u)
  BY <1>0, <1>2 DEF IInv, TypeOK, Return, Finish, SameThread, Threads
<1>4. CASE UNCHANGED <<streams, usedStreams, infoVars>>
  BY <1>0, <1>3, <1>4, FreshMove, ThreadsAssumption DEF Sessions, infoVars, Creating
<1>5. CASE ~UNCHANGED <<streams, usedStreams, infoVars>>
  <2>1. PICK st \in DrawableStreams(i) :
          /\ streams' = [streams EXCEPT ![i] = @ \cup {st}]
          /\ usedStreams' = usedStreams \cup {<<sid[i], st>>}
          /\ AddStreamInfo(cid[r], st)
    BY <1>1, <1>2, <1>5 DEF HandleCreateStream
  <2>2. st \in Streams /\ <<sid[i], st>> \notin usedStreams
    BY <2>1 DEF DrawableStreams
  <2>3. infoStreams[sid[i]][st] = "none"
    BY <1>0, <2>2 DEF FreshInv, StreamOnce
  <2>4. /\ UNCHANGED infoStatus
        /\ \A s \in Ids : \A x \in Streams :
             infoStreams'[s][x] = IF s = sid[i] /\ x = st /\ infoStatus[s] # "none" THEN "live"
                                  ELSE infoStreams[s][x]
    BY <1>0, <2>1, <2>2, <2>3 DEF AddStreamInfo, IInv, TypeOK, InfoTypeOK
  <2>5. \A j \in Items : streams'[j] = IF j = i THEN streams[j] \cup {st} ELSE streams[j]
    BY <1>0, <2>1 DEF IInv, TypeOK
  <2>6. IdOnce'
    BY <1>0, <1>3 DEF FreshInv, IdOnce, Creating, SameThread
  <2>7. StreamOnce'
    <3>1. \A j \in Items : \A x \in streams'[j] : <<sid[j], x>> \in usedStreams'
      BY <2>1, <2>5 DEF FreshInv, StreamOnce
    <3>2. \A s \in Ids : \A x \in Streams :
             infoStreams'[s][x] # "none" => <<s, x>> \in usedStreams' /\ infoStatus'[s] # "none"
      BY <2>1, <2>4 DEF FreshInv, StreamOnce
    <3>3. \A k \in usedStreams' : \E j \in Items : sid[j] = k[1]
      BY <1>0, <2>1 DEF FreshInv, StreamOnce
    <3> QED BY <1>3, <3>1, <3>2, <3>3 DEF StreamOnce
  <2>8. ClosedStays'
    <3>1. \A x \in Rpcs : pc[x] = "tail" /\ cid[x] = sid[i] => cst[x] # st
      BY <2>2 DEF FreshInv, ClosedStays
    <3>2. ASSUME NEW x \in Rpcs, pc'[x] = "tail"
          PROVE  /\ <<cid'[x], cst'[x]>> \in usedStreams'
                 /\ \A j \in Items : sid[j] = cid'[x] => cst'[x] \notin streams'[j]
      <4>1. x # r /\ pc[x] = "tail" /\ cid'[x] = cid[x] /\ cst'[x] = cst[x]
        BY <1>3, <3>2 DEF SameThread
      <4> QED BY <2>1, <2>5, <3>1, <4>1 DEF FreshInv, ClosedStays
    <3>3. ASSUME NEW x \in Rpcs, op'[x] = "CloseStream", pc'[x] \in {"lock", "act"}
          PROVE  <<cid'[x], cst'[x]>> \in usedStreams'
      <4>1. x # r /\ pc[x] = pc'[x] /\ op[x] = op'[x] /\ cid'[x] = cid[x] /\ cst'[x] = cst[x]
        BY <1>3, <3>3 DEF SameThread
      <4> QED BY <2>1, <3>3, <4>1 DEF FreshInv, ClosedStays
    <3> QED BY <1>3, <3>2, <3>3 DEF FreshInv, ClosedStays
  <2>9. RecycleOnlyEmptySession'
    <3> SUFFICES ASSUME NEW t \in Recyclers, pc[t] \in {"d_remove", "d_closeall"} PROVE streams'[ptr[t]] = {}
      BY <1>3, ThreadsAssumption DEF RecycleOnlyEmptySession, SameThread
    <3>1. ptr[t] \in Items /\ state[ptr[t]] = "CLOSED"
      BY DEF IInv, DestroyInv, Destroying
    <3> QED BY <1>0, <2>5, <3>1 DEF FreshInv, RecycleOnlyEmptySession
  <2>10. StatuszAgrees'
    <3> SUFFICES ASSUME NEW j \in Items PROVE Agrees(j)'
      BY AgreesAll, HandleInv DEF IInv
    <3>1. Agrees(j)
      BY AgreesEach DEF FreshInv
    <3>2. \A x \in Rpcs : pc[x] = "tail" => pc'[x] = "tail" /\ cid'[x] = cid[x] /\ cst'[x] = cst[x]
      BY <1>0, <1>3 DEF SameThread
    <3>3. alloc[j] = "live" => sid[j] \in Ids
      BY DEF IInv, MapInv
    <3>4. j # i /\ alloc[j] = "live" => sid[j] # sid[i]
      BY <1>0, StatuszAssumption DEF FreshInv, IdOnce
    <3> SUFFICES ASSUME alloc[j] = "live", state[j] = "ACTIVE", infoStatus[sid[j]] # "none", NEW x \in Streams
                 PROVE  /\ x \in streams'[j] => infoStreams'[sid[j]][x] = "live"
                        /\ infoStreams'[sid[j]][x] = "live" /\ x \notin streams'[j] =>
                             \E y \in Rpcs : pc'[y] = "tail" /\ cid'[y] = sid[j] /\ cst'[y] = x
      BY <1>3, <2>4 DEF Agrees
    <3>5. /\ x \in streams[j] => infoStreams[sid[j]][x] = "live"
          /\ infoStreams[sid[j]][x] = "live" /\ x \notin streams[j] =>
               \E y \in Rpcs : pc'[y] = "tail" /\ cid'[y] = sid[j] /\ cst'[y] = x
      BY <3>1, <3>2 DEF Agrees
    <3>6. CASE j = i /\ x = st
      BY <1>0, <2>2, <2>4, <2>5, <3>6
    <3>7. CASE ~(j = i /\ x = st)
      <4>1. infoStreams'[sid[j]][x] = infoStreams[sid[j]][x] /\ (x \in streams'[j] <=> x \in streams[j])
        BY <2>4, <2>5, <3>3, <3>4, <3>7
      <4> QED BY <3>5, <4>1
    <3> QED BY <3>6, <3>7
  <2> QED BY <2>6, <2>7, <2>8, <2>9, <2>10 DEF FreshInv
<1> QED BY <1>4, <1>5

\* CloseStream takes the stream out of the pipeline and has then to mark it.
LEMMA CloseStreamFresh ==
  ASSUME FreshIds, IInv, FreshInv, NEW r \in Rpcs, Handle(r), op[r] = "CloseStream" PROVE FreshInv'
<1> DEFINE i == ptr[r]
<1>0. /\ r \in Threads /\ pc[r] = "act" /\ i \in Items /\ alloc[i] = "live" /\ state[i] = "ACTIVE"
      /\ pipe[i] = "live" /\ cid[r] = sid[i] /\ sid[i] \in Ids /\ <<cid[r], cst[r]>> \in usedStreams
  BY DEF IInv, Handle, HandlerInv, MapInv, StageInv, IsActive, Threads, FreshInv, ClosedStays
<1>1. HandleCloseStream(r) /\ Return(r)
  BY <1>0 DEF Handle, HandlerPipe, HandleCreateStream, HandleMessage
<1>2. /\ UNCHANGED <<alloc, sid, state, pipe, usedIds, usedStreams, infoStatus, infoStreams>>
      /\ streams' = [streams EXCEPT ![i] = @ \ {cst[r]}]
      /\ pc' = [pc EXCEPT ![r] = "tail"] /\ UNCHANGED <<op, ptr, cid, cst>>
  BY <1>0, <1>1 DEF HandleCloseStream, HandlerPipe, PipelineCloseStream, Return, Goto, infoVars
<1>3. \A j \in Items : streams'[j] = IF j = i THEN streams[j] \ {cst[r]} ELSE streams[j]
  BY <1>0, <1>2 DEF IInv, TypeOK
<1>4. \A u \in Threads : pc'[u] = IF u = r THEN "tail" ELSE pc[u]
  BY <1>0, <1>2 DEF IInv, TypeOK
<1>5. \A j \in Items : sid[j] = sid[i] => j = i
  BY <1>0, StatuszAssumption DEF FreshInv, IdOnce
<1>6. IdOnce'
  BY <1>0, <1>2, <1>4 DEF FreshInv, IdOnce, Creating, Threads
<1>7. StreamOnce'
  BY <1>2, <1>3 DEF FreshInv, StreamOnce
<1>8. ClosedStays'
  BY <1>0, <1>2, <1>3, <1>4, <1>5 DEF FreshInv, ClosedStays, Threads
<1>9. RecycleOnlyEmptySession'
  <2> SUFFICES ASSUME NEW t \in Recyclers, pc[t] \in {"d_remove", "d_closeall"} PROVE streams'[ptr[t]] = {}
    BY <1>2, <1>4, ThreadsAssumption DEF RecycleOnlyEmptySession, Threads
  <2>1. ptr[t] \in Items
    BY DEF IInv, DestroyInv, Destroying
  <2> QED BY <1>3, <2>1 DEF FreshInv, RecycleOnlyEmptySession
<1>10. StatuszAgrees'
  <2> SUFFICES ASSUME NEW j \in Items PROVE Agrees(j)'
    BY AgreesAll, HandleInv DEF IInv
  <2> SUFFICES ASSUME alloc[j] = "live", state[j] = "ACTIVE", infoStatus[sid[j]] # "none", NEW x \in Streams
               PROVE  /\ x \in streams'[j] => infoStreams[sid[j]][x] = "live"
                      /\ infoStreams[sid[j]][x] = "live" /\ x \notin streams'[j] =>
                           \E y \in Rpcs : pc'[y] = "tail" /\ cid[y] = sid[j] /\ cst[y] = x
    BY <1>2 DEF Agrees
  <2>1. Agrees(j)
    BY AgreesEach DEF FreshInv
  <2>2. /\ x \in streams[j] => infoStreams[sid[j]][x] = "live"
        /\ infoStreams[sid[j]][x] = "live" /\ x \notin streams[j] =>
             \E y \in Rpcs : pc'[y] = "tail" /\ cid[y] = sid[j] /\ cst[y] = x
    BY <1>4, <2>1 DEF Agrees, Threads
  <2>3. x \in streams[j] /\ x \notin streams'[j] => pc'[r] = "tail" /\ cid[r] = sid[j] /\ cst[r] = x
    BY <1>0, <1>3, <1>4
  <2> QED BY <1>3, <2>2, <2>3
<1> QED BY <1>6, <1>7, <1>8, <1>9, <1>10 DEF FreshInv

LEMMA HandleFresh ==
  ASSUME FreshIds, IInv, FreshInv, NEW r \in Rpcs, Handle(r) PROVE FreshInv'
<1>1. CASE op[r] = "CreateStream"
  BY <1>1, CreateStreamFresh
<1>2. CASE op[r] = "CloseStream"
  BY <1>2, CloseStreamFresh
<1>3. CASE op[r] \notin {"CreateStream", "CloseStream"}
  <2>0. r \in Threads /\ pc[r] = "act"
    BY DEF Handle, Threads
  <2>1. CASE Fail("dangling_pipeline")
    BY <2>1, FreshStay DEF Fail, Sessions, SameThread, itemVars, infoVars, usedVars, threadVars
  <2>2. CASE ~Fail("dangling_pipeline")
    <3>1. HandleMessage(r) /\ Return(r)
      BY <1>3, <2>2 DEF Handle, HandleCreateStream, HandleCloseStream
    <3>2. /\ UNCHANGED <<alloc, Sessions>> /\ pc'[r] = "idle"
          /\ \A u \in (Rpcs \cup Recyclers) \ {r} : SameThread(u)
      BY <1>3, <2>0, <3>1 DEF HandleMessage, Return, Finish, Sessions, infoVars, SameThread, IInv, TypeOK, Threads
    <3> QED BY <2>0, <3>2, FreshMove, ThreadsAssumption DEF Creating
  <2> QED BY <2>1, <2>2
<1> QED BY <1>1, <1>2, <1>3

\* What CloseStream marks in statusz is no stream of a pipeline.
LEMMA CloseStreamTailFresh ==
  ASSUME FreshIds, IInv, FreshInv, NEW r \in Rpcs, CloseStreamTail(r) PROVE FreshInv'
<1>0. /\ r \in Threads /\ pc[r] = "tail" /\ cid[r] \in Ids /\ cst[r] \in Streams
      /\ \A i \in Items : sid[i] = cid[r] => cst[r] \notin streams[i]
  BY DEF IInv, TypeOK, Keys, HandlerInv, CloseStreamTail, FreshInv, ClosedStays, Threads
<1>1. /\ UNCHANGED <<alloc, sid, state, pipe, streams, infoStatus, usedIds, usedStreams>>
      /\ pc'[r] = "idle" /\ \A u \in (Rpcs \cup Recyclers) \ {r} : SameThread(u)
  BY <1>0 DEF CloseStreamTail, RemoveStreamInfo, Finish, itemVars, usedVars, SameThread, IInv, TypeOK, Threads
<1>2. \A s \in Ids : \A x \in Streams :
        infoStreams'[s][x] = IF s = cid[r] /\ x = cst[r] /\ infoStreams[s][x] # "none" THEN "leave"
                             ELSE infoStreams[s][x]
  BY <1>0 DEF CloseStreamTail, RemoveStreamInfo, IInv, TypeOK, InfoTypeOK
<1>3. IdOnce'
  BY <1>0, <1>1 DEF FreshInv, IdOnce, Creating, SameThread
<1>4. StreamOnce'
  BY <1>1, <1>2 DEF FreshInv, StreamOnce
<1>5. ClosedStays'
  BY <1>0, <1>1 DEF FreshInv, ClosedStays, SameThread
<1>6. RecycleOnlyEmptySession'
  BY <1>0, <1>1, ThreadsAssumption DEF FreshInv, RecycleOnlyEmptySession, SameThread
<1>7. StatuszAgrees'
  <2> SUFFICES ASSUME NEW j \in Items PROVE Agrees(j)'
    BY AgreesAll, CloseStreamTailInv DEF IInv
  <2> SUFFICES ASSUME alloc[j] = "live", state[j] = "ACTIVE", infoStatus[sid[j]] # "none", NEW x \in Streams
               PROVE  /\ x \in streams[j] => infoStreams'[sid[j]][x] = "live"
                      /\ infoStreams'[sid[j]][x] = "live" /\ x \notin streams[j] =>
                           \E y \in Rpcs : pc'[y] = "tail" /\ cid'[y] = sid[j] /\ cst'[y] = x
    BY <1>1 DEF Agrees
  <2>1. Agrees(j) /\ sid[j] \in Ids
    BY AgreesEach DEF FreshInv, IInv, MapInv
  <2>2. CASE sid[j] = cid[r] /\ x = cst[r]
    BY <1>0, <1>2, <2>1, <2>2 DEF Agrees
  <2>3. CASE ~(sid[j] = cid[r] /\ x = cst[r])
    <3>1. \A y \in Rpcs : pc[y] = "tail" /\ cid[y] = sid[j] /\ cst[y] = x =>
            pc'[y] = "tail" /\ cid'[y] = sid[j] /\ cst'[y] = x
      BY <1>1, <2>3 DEF SameThread
    <3>2. infoStreams'[sid[j]][x] = infoStreams[sid[j]][x]
      BY <1>2, <2>1, <2>3
    <3> QED BY <2>1, <3>1, <3>2 DEF Agrees
  <2> QED BY <2>2, <2>3
<1> QED BY <1>3, <1>4, <1>5, <1>6, <1>7 DEF FreshInv

\* A thread that tears a session down changes that session only, which is closed.
LEMMA DestroyFresh ==
  ASSUME FreshIds, IInv, IInv', FreshInv, NEW t \in Rpcs \cup Recyclers, Destroy(t) PROVE FreshInv'
<1>0. t \in Threads
  BY DEF Threads
<1> DEFINE i == ptr[t]
<1>1. CASE DestroyUnlock(t)
  <2>1. CASE Fail("freed_item")
    BY <2>1, FreshStay DEF Fail, Sessions, SameThread, itemVars, infoVars, usedVars, threadVars
  <2>2. CASE ~Fail("freed_item")
    <3>1. /\ UNCHANGED <<alloc, Sessions>> /\ pc[t] = "unlock" /\ pc'[t] = "idle"
          /\ \A u \in (Rpcs \cup Recyclers) \ {t} : SameThread(u)
      BY <1>0, <1>1, <2>2 DEF DestroyUnlock, Finish, Sessions, infoVars, usedVars, SameThread, IInv, TypeOK, Threads
    <3> QED BY <3>1, FreshMove DEF Creating
  <2> QED BY <2>1, <2>2
<1>2. CASE DestroyTime(t)
  <2>1. /\ UNCHANGED <<alloc, Sessions>> /\ pc[t] = "d_time" /\ pc'[t] = "d_state"
        /\ \A u \in (Rpcs \cup Recyclers) \ {t} : SameThread(u)
    BY <1>0, <1>2 DEF DestroyTime, Goto, Sessions, infoVars, usedVars, SameThread, IInv, TypeOK, Threads
  <2> QED BY <2>1, FreshMove DEF Creating
<1>3. CASE DestroyRemoveInfo(t) \/ DestroyCloseAll(t) \/ DestroyDelete(t) \/ DestroyNull(t) \/ DestroyState(t)
  <2>1. /\ i \in Items /\ alloc[i] = "live" /\ state[i] = "CLOSED" /\ pc[t] \in Destroying /\ sid[i] \in Ids
        /\ \A u \in (Rpcs \cup Recyclers) \ {t} : pc[u] \in Destroying => ptr[u] # i
        /\ pc[t] \in {"d_remove", "d_closeall"} => pipe[i] = "live"
        /\ pc[t] = "d_state" => pipe[i] = "null"
    BY <1>3 DEF IInv, DestroyInv, MapInv, Destroying, DestroyRemoveInfo, DestroyCloseAll, DestroyDelete,
       DestroyNull, DestroyState
  <2>2. /\ UNCHANGED <<alloc, sid, infoStreams, usedIds, usedStreams>>
        /\ pc'[t] \notin Creating \cup {"tail", "lock", "act"}
        /\ pc'[t] \in {"d_remove", "d_closeall"} => pc[t] = "d_remove" /\ UNCHANGED <<streams, ptr>>
        /\ \A u \in (Rpcs \cup Recyclers) \ {t} : SameThread(u)
        /\ \A j \in Items : j # i => streams'[j] = streams[j] /\ state'[j] = state[j] /\ pipe'[j] = pipe[j]
        /\ streams'[i] \subseteq streams[i]
        /\ state'[i] # "ACTIVE" /\ (state'[i] = "DESTROYED" => pipe'[i] = "null")
        /\ \A s \in Ids : infoStatus[s] # "none" <=> infoStatus'[s] # "none"
    <3>1. CASE DestroyRemoveInfo(t)
      BY <1>0, <2>1, <3>1 DEF DestroyRemoveInfo, Goto, RemoveSessionInfo, itemVars, usedVars, Creating, Destroying,
         SameThread, IInv, TypeOK, InfoTypeOK, Threads
    <3>2. CASE DestroyCloseAll(t)
      <4>1. pipe[i] = "live"
        BY <2>1, <3>2 DEF DestroyCloseAll
      <4> QED
        BY <1>0, <2>1, <3>2, <4>1 DEF DestroyCloseAll, PipelineCloseAll, Goto, usedVars, infoVars, Creating,
           SameThread, IInv, TypeOK, Threads
    <3>3. CASE DestroyDelete(t) \/ DestroyNull(t)
      BY <1>0, <2>1, <3>3 DEF DestroyDelete, DestroyNull, Goto, usedVars, infoVars, Creating,
         SameThread, IInv, TypeOK, Threads
    <3>4. CASE DestroyState(t)
      BY <1>0, <2>1, <3>4 DEF DestroyState, AfterDestroy, Goto, Finish, usedVars, infoVars, Creating,
         SameThread, IInv, TypeOK, Threads
    <3> QED BY <1>3, <3>1, <3>2, <3>3, <3>4
  <2>3. IdOnce'
    BY <2>2 DEF FreshInv, IdOnce, Creating, SameThread
  <2>4. StreamOnce'
    BY <2>1, <2>2 DEF FreshInv, StreamOnce
  <2>5. ClosedStays'
    BY <2>1, <2>2 DEF FreshInv, ClosedStays, SameThread
  <2>6. RecycleOnlyEmptySession'
    <3> SUFFICES ASSUME NEW k \in Recyclers, pc'[k] \in {"d_remove", "d_closeall"} PROVE streams'[ptr'[k]] = {}
      BY DEF RecycleOnlyEmptySession
    <3>1. CASE k = t
      BY <2>2, <3>1 DEF FreshInv, RecycleOnlyEmptySession
    <3>2. CASE k # t
      <4>1. pc[k] = pc'[k] /\ ptr'[k] = ptr[k] /\ ptr[k] # i /\ ptr[k] \in Items
        BY <2>1, <2>2, <3>2 DEF SameThread, Destroying, IInv, DestroyInv
      <4> QED BY <2>2, <4>1 DEF FreshInv, RecycleOnlyEmptySession
    <3> QED BY <3>1, <3>2
  <2>7. StatuszAgrees'
    <3> SUFFICES ASSUME NEW j \in Items PROVE Agrees(j)'
      BY AgreesAll DEF IInv
    <3>1. Agrees(j)
      BY AgreesEach DEF FreshInv
    <3>2. \A x \in Rpcs : pc[x] = "tail" => pc'[x] = "tail" /\ cid'[x] = cid[x] /\ cst'[x] = cst[x]
      BY <2>1, <2>2 DEF SameThread, Destroying
    <3>3. alloc[j] = "live" => sid[j] \in Ids
      BY DEF IInv, MapInv
    <3> QED BY <2>2, <3>1, <3>2, <3>3 DEF Agrees
  <2> QED BY <2>3, <2>4, <2>5, <2>6, <2>7 DEF FreshInv
<1> QED BY <1>1, <1>2, <1>3 DEF Destroy

\* The watchdog takes a stream out of the pipeline and marks it in one step of its
\* own; it holds the mutex.
LEMMA CloseInvalidStreamFresh ==
  ASSUME FreshIds, IInv, IInv', FreshInv, CloseInvalidStream PROVE FreshInv'
<1> DEFINE i == ptr[Watchdog]
           st == cst[Watchdog]
<1>0. i \in Items /\ alloc[i] = "live" /\ cid[Watchdog] = sid[i] /\ sid[i] \in Ids /\ Watchdog \in Threads
  BY DEF IInv, WatchdogInv, MapInv, CloseInvalidStream, Threads
<1>1. /\ UNCHANGED <<alloc, sid, state, pipe, infoStatus, usedIds, usedStreams>>
      /\ \A u \in Rpcs \cup Recyclers : SameThread(u)
  BY <1>0, ThreadsAssumption DEF CloseInvalidStream, RemoveStreamInfo, Goto, usedVars, SameThread, IInv, TypeOK, Threads
<1>2. \A j \in Items : streams'[j] = IF j = i THEN streams[j] \ {st} ELSE streams[j]
  BY <1>0 DEF CloseInvalidStream, PipelineCloseStream, IInv, TypeOK
<1>3. \A s \in Ids : \A x \in Streams :
        infoStreams'[s][x] = IF s = sid[i] /\ x = st /\ infoStreams[s][x] # "none" THEN "leave"
                             ELSE infoStreams[s][x]
  BY <1>0 DEF CloseInvalidStream, RemoveStreamInfo, IInv, TypeOK, InfoTypeOK
<1>4. IdOnce'
  BY <1>1 DEF FreshInv, IdOnce, SameThread
<1>5. StreamOnce'
  BY <1>1, <1>2, <1>3 DEF FreshInv, StreamOnce
<1>6. ClosedStays'
  <2>1. \A j \in Items : streams'[j] \subseteq streams[j]
    BY <1>2
  <2> HIDE DEF i, st
  <2> QED BY <1>1, <2>1 DEF FreshInv, ClosedStays, SameThread
<1>7. RecycleOnlyEmptySession'
  <2> SUFFICES ASSUME NEW k \in Recyclers, pc[k] \in {"d_remove", "d_closeall"} PROVE streams'[ptr[k]] = {}
    BY <1>1 DEF RecycleOnlyEmptySession, SameThread
  <2>1. ptr[k] \in Items
    BY DEF IInv, DestroyInv, Destroying
  <2> QED BY <1>2, <2>1 DEF FreshInv, RecycleOnlyEmptySession
<1>8. StatuszAgrees'
  <2> SUFFICES ASSUME NEW j \in Items PROVE Agrees(j)'
    BY AgreesAll DEF IInv
  <2> SUFFICES ASSUME alloc[j] = "live", state[j] = "ACTIVE", infoStatus[sid[j]] # "none", NEW x \in Streams
               PROVE  /\ x \in streams'[j] => infoStreams'[sid[j]][x] = "live"
                      /\ infoStreams'[sid[j]][x] = "live" /\ x \notin streams'[j] =>
                           \E y \in Rpcs : pc[y] = "tail" /\ cid[y] = sid[j] /\ cst[y] = x
    BY <1>1 DEF Agrees, SameThread
  <2>1. Agrees(j) /\ sid[j] \in Ids /\ (sid[j] = sid[i] => j = i)
    BY <1>0, AgreesEach, StatuszAssumption DEF FreshInv, IdOnce, IInv, MapInv
  <2>2. CASE j = i /\ x = st
    BY <1>2, <1>3, <2>1, <2>2
  <2>3. CASE ~(j = i /\ x = st)
    <3>1. infoStreams'[sid[j]][x] = infoStreams[sid[j]][x] /\ (x \in streams'[j] <=> x \in streams[j])
      BY <1>2, <1>3, <2>1, <2>3
    <3> QED BY <2>1, <3>1 DEF Agrees
  <2> QED BY <2>2, <2>3
<1> QED BY <1>4, <1>5, <1>6, <1>7, <1>8 DEF FreshInv

\* The watchdog recycles an active session that statusz shows without a live
\* stream: its pipeline has none either.
LEMMA RecycleSessionFresh ==
  ASSUME FreshIds, IInv, FreshInv, NEW t \in Recyclers, RecycleSession(t) PROVE FreshInv'
<1> DEFINE i == ptr[Watchdog]
<1>0. /\ i \in Items /\ alloc[i] = "live" /\ state[i] = "ACTIVE" /\ infoStatus[sid[i]] # "none"
      /\ ~HasLiveStreams(sid[i]) /\ t \in Threads /\ Watchdog \in Threads /\ t # Watchdog
  BY ThreadsAssumption DEF IInv, WatchdogInv, RecycleSession, IsActive, Threads
<1>1. streams[i] = {}
  <2>1. Agrees(i)
    BY <1>0, AgreesEach DEF FreshInv
  <2> QED BY <1>0, <2>1 DEF Agrees, HasLiveStreams, IInv, TypeOK
<1>2. /\ UNCHANGED <<alloc, sid, pipe, streams, infoStatus, infoStreams, usedIds, usedStreams>>
      /\ pc'[t] = "d_remove" /\ ptr'[t] = i
      /\ \A u \in (Rpcs \cup Recyclers) \ {t} : SameThread(u)
      /\ \A j \in Items : state'[j] = IF j = i THEN "CLOSED" ELSE state[j]
  BY <1>0, ThreadsAssumption DEF RecycleSession, infoVars, usedVars, SameThread, IInv, TypeOK, Threads
<1>3. \A u \in Rpcs : SameThread(u)
  BY <1>2, ThreadsAssumption
<1>4. IdOnce'
  BY <1>2, <1>3 DEF FreshInv, IdOnce, SameThread
<1>5. StreamOnce'
  BY <1>2 DEF FreshInv, StreamOnce
<1>6. ClosedStays'
  BY <1>0, <1>2, <1>3 DEF FreshInv, ClosedStays, SameThread
<1>7. RecycleOnlyEmptySession'
  BY <1>1, <1>2 DEF FreshInv, RecycleOnlyEmptySession, SameThread
<1>8. StatuszAgrees'
  <2>1. \A x : ToMark(x)' = ToMark(x) /\ Shown(x)' = Shown(x)
    BY <1>2, <1>3 DEF ToMark, Shown, SameThread
  <2> QED BY <1>2, <2>1 DEF FreshInv, StatuszAgrees, IsActive
<1> QED BY <1>4, <1>5, <1>6, <1>7, <1>8 DEF FreshInv

\* Steps in undefined behaviour, and of those that keep the sessions.
LEMMA FailFresh == ASSUME IInv, FreshInv, NEW kind, Fail(kind) PROVE FreshInv'
  BY FreshStay DEF Fail, Sessions, SameThread, itemVars, infoVars, usedVars, threadVars

LEMMA WatchdogFresh ==
  ASSUME FreshIds, IInv, IInv', FreshInv, WatchdogStep PROVE FreshInv'
<1> USE ThreadsAssumption DEF Sessions, SameThread, itemVars, infoVars, usedVars, IInv, TypeOK, Threads
<1>1. CASE WatchdogTraverse \/ WatchdogLock
  BY <1>1, FreshStay DEF WatchdogTraverse, WatchdogLock, Goto
<1>2. CASE CloseInvalidStreamFault \/ CheckSessionFault
  BY <1>2, FailFresh DEF CloseInvalidStreamFault, CheckSessionFault
<1>3. CASE KeepSession
  BY <1>3, FreshStay DEF KeepSession, Finish
<1>4. CASE WatchdogPurge
  BY <1>4, FreshStay DEF WatchdogPurge, Goto
<1>5. CASE \E k \in Keys : WatchdogNext(k)
  <2>1. PICK k \in Keys : WatchdogNext(k)
    BY <1>5
  <2>2. UNCHANGED <<alloc, Sessions>> /\ \A t \in Rpcs \cup Recyclers : SameThread(t)
    BY <2>1 DEF WatchdogNext
  <2> QED BY <2>2, FreshStay
<1> QED BY <1>1, <1>2, <1>3, <1>4, <1>5, CloseInvalidStreamFresh, RecycleSessionFresh
        DEF WatchdogStep, CheckAndRecycleSession

LEMMA RpcFresh ==
  ASSUME FreshIds, IInv, FreshInv, NEW r \in Rpcs, RpcStep(r) PROVE FreshInv'
<1>1. CASE CallFreed(r)
  BY <1>1, FailFresh DEF CallFreed
<1>2. CASE CallRejected(r) \/ CallEnter(r)
  <2>1. /\ UNCHANGED <<alloc, Sessions>> /\ pc[r] = "lock" /\ r \in Threads
        /\ \/ pc'[r] = "idle"
           \/ pc'[r] = "act" /\ op'[r] = op[r] /\ cid'[r] = cid[r] /\ cst'[r] = cst[r]
        /\ \A u \in (Rpcs \cup Recyclers) \ {r} : SameThread(u)
    BY <1>2 DEF CallRejected, CallEnter, Lockable, Goto, Finish, Sessions, SameThread, itemVars, infoVars, usedVars,
       IInv, TypeOK, Threads
  <2>2. op[r] = "CloseStream" => <<cid[r], cst[r]>> \in usedStreams
    BY <2>1 DEF FreshInv, ClosedStays
  <2> QED BY <2>1, <2>2, FreshMove, ThreadsAssumption DEF Creating
<1> QED
  BY <1>1, <1>2, CreateSessionFresh, CreateSessionLookupFresh, CreateSessionPipelineFresh,
     InsertSessionDataFresh, CallFresh, CloseSessionFresh, HandleFresh, CloseStreamTailFresh DEF RpcStep

LEMMA NextFresh ==
  ASSUME FreshIds, IInv, FreshInv, [Next]_vars PROVE FreshInv'
<1>0. IInv'
  BY NextInv
<1>1. CASE UNCHANGED vars
  BY <1>1, FreshStay DEF vars, Sessions, SameThread
<1>2. CASE (\E i \in Items : Elapse(i)) \/ (\E k \in Keys : Teardown(k))
  BY <1>2, FreshStay DEF Elapse, Teardown, Sessions, SameThread, itemVars, infoVars, usedVars, threadVars
<1> QED BY <1>0, <1>1, <1>2, RpcFresh, DestroyFresh, WatchdogFresh DEF Next, Faulted

\* With ids that never repeat, every state satisfies FreshInv.
THEOREM FreshInvariance == ASSUME FreshIds PROVE Spec => []FreshInv
<1>1. Init => FreshInv
  BY FreshInit
<1>2. IInv /\ FreshInv /\ [Next]_vars => FreshInv'
  BY NextFresh
<1> QED BY <1>1, <1>2, Invariance, PTL DEF Spec

\* statusz and the pipelines agree: what AddStreamInfo, RemoveStreamInfo and the
\* late mark of CloseStream leave in SessionInfo is what the pipeline of an active
\* session has, however its handlers and the watchdog interleave.
THEOREM StatuszIsRight == ASSUME FreshIds PROVE Spec => []StatuszAgrees
<1>1. FreshInv => StatuszAgrees
  BY DEF FreshInv
<1> QED BY <1>1, FreshInvariance, PTL

\* CheckAndRecycleSession decides on statusz alone, and still never has a session
\* torn down that has a stream.
THEOREM RecycledIsEmpty == ASSUME FreshIds PROVE Spec => []RecycleOnlyEmptySession
<1>1. FreshInv => RecycleOnlyEmptySession
  BY DEF FreshInv
<1> QED BY <1>1, FreshInvariance, PTL

-------------------------------------------------------------------------------
(* The service implements SessionLifecycle.                                  *)

\* A step that leaves alloc, state and the calls inside pipelines alone is a
\* stutter of the abstract specification.
LEMMA LifecycleStutter ==
  ASSUME UNCHANGED <<alloc, state>>,
         \A x \in Rpcs, i \in Items :
           (pc'[x] = "act" /\ ptr'[x] = i) <=> (pc[x] = "act" /\ ptr[x] = i)
  PROVE  Life' = Life /\ Users' = Users
<1>1. Life' = Life
  BY DEF Life, Stage
<1>2. Users' = Users
  BY DEF Users
<1>3. QED
  BY <1>1, <1>2

\* A step that changes the fields of one object moves that object only.
LEMMA LifeChange ==
  ASSUME NEW i \in Items, \A j \in Items \ {i} : alloc'[j] = alloc[j] /\ state'[j] = state[j]
  PROVE  Life' = [Life EXCEPT ![i] = Stage(alloc'[i], state'[i])]
<1>1. Life' = [j \in Items |-> Stage(alloc'[j], state'[j])]
  BY DEF Life, Stage
<1>2. [Life EXCEPT ![i] = Stage(alloc'[i], state'[i])]
        = [j \in Items |-> IF j = i THEN Stage(alloc'[i], state'[i]) ELSE Life[j]]
  BY DEF Life
<1>3. \A j \in Items : Life[j] = Stage(alloc[j], state[j])
  BY DEF Life
<1>4. \A j \in Items :
        Stage(alloc'[j], state'[j]) = IF j = i THEN Stage(alloc'[i], state'[i]) ELSE Life[j]
  BY <1>3
<1>5. QED
  BY <1>1, <1>2, <1>4

\* Nobody is inside the pipeline of an object whose mutex no handler holds.
LEMMA NoUsers ==
  ASSUME IInv, NEW i \in Items, mutex[i] \notin Rpcs PROVE Users[i] = {}
  BY DEF IInv, HandlerInv, Users

\* Steps of a thread that is not inside a pipeline before or after.
LEMMA OutsideStutter ==
  ASSUME IInv, NEW t \in Threads, UNCHANGED <<alloc, state>>,
         pc[t] # "act",
         NEW label \in PCs \ {"act"}, pc' = [pc EXCEPT ![t] = label],
         \A u \in Threads \ {t} : ptr'[u] = ptr[u]
  PROVE  Life' = Life /\ Users' = Users
<1>1. pc'[t] = label /\ \A u \in Threads \ {t} : pc'[u] = pc[u]
  BY DEF IInv, TypeOK, InfoTypeOK
<1>2. ASSUME NEW x \in Rpcs, NEW i \in Items
      PROVE  (pc'[x] = "act" /\ ptr'[x] = i) <=> (pc[x] = "act" /\ ptr[x] = i)
  <2>1. CASE x = t
    BY <1>1, <2>1
  <2>2. CASE x # t
    BY <1>1, <2>2 DEF Threads
  <2>3. QED
    BY <2>1, <2>2
<1>3. QED
  BY <1>2, LifecycleStutter

\* Creating a session up to the insert, looking a session up, a call that is
\* turned away and the statusz update of CloseStream are stutters.
LEMMA RpcStutter ==
  ASSUME IInv, NEW r \in Rpcs,
         \/ \E s \in Ids : CreateSession(r, s)
         \/ CreateSessionLookup(r) \/ CreateSessionPipeline(r)
         \/ \E o \in Ops, s \in Ids, st \in Streams \cup {NULL} : Call(r, o, s, st)
         \/ CallRejected(r) \/ CallFreed(r) \/ CloseStreamTail(r)
  PROVE  Life' = Life /\ Users' = Users
<1> USE DEF itemVars, threadVars, IInv, TypeOK, InfoTypeOK, Threads, PCs
<1>0. r \in Threads
  OBVIOUS
<1>1. CASE \E s \in Ids : CreateSession(r, s)
  BY <1>0, <1>1, OutsideStutter DEF CreateSession
<1>2. CASE CreateSessionPipeline(r)
  <2>1. CASE Fail("freed_item")
    BY <2>1, LifecycleStutter DEF Fail
  <2>2. CASE ~Fail("freed_item")
    <3>1. \E label \in {"insert", "idle"} : pc' = [pc EXCEPT ![r] = label]
      BY <1>2, <2>2 DEF CreateSessionPipeline, Goto, Finish
    <3>2. PICK label \in {"insert", "idle"} : pc' = [pc EXCEPT ![r] = label]
      BY <3>1
    <3>3. pc[r] # "act" /\ UNCHANGED <<alloc, state>> /\ \A u \in Threads \ {r} : ptr'[u] = ptr[u]
      BY <1>2, <2>2 DEF CreateSessionPipeline, Goto, Finish
    <3>4. QED
      BY <1>0, <3>2, <3>3, OutsideStutter
  <2>3. QED
    BY <2>1, <2>2
<1>2a. CASE CreateSessionLookup(r)
  BY <1>0, <1>2a, OutsideStutter DEF CreateSessionLookup
<1>3. CASE \E o \in Ops, s \in Ids, st \in Streams \cup {NULL} : Call(r, o, s, st)
  BY <1>0, <1>3, OutsideStutter DEF Call
<1>4. CASE CallRejected(r)
  BY <1>0, <1>4, OutsideStutter DEF CallRejected, Lockable, Finish
<1>5. CASE CallFreed(r)
  BY <1>5, LifecycleStutter DEF CallFreed, Fail
<1>6. CASE CloseStreamTail(r)
  BY <1>0, <1>6, OutsideStutter DEF CloseStreamTail, Finish
<1>7. QED
  BY <1>1, <1>2, <1>3, <1>4, <1>5, <1>6, <1>2a

\* Destroy() is invisible until it sets the state.
LEMMA DestroyStutter ==
  ASSUME IInv, NEW t \in Rpcs \cup Recyclers,
         \/ DestroyRemoveInfo(t) \/ DestroyCloseAll(t) \/ DestroyDelete(t)
         \/ DestroyNull(t) \/ DestroyTime(t) \/ DestroyUnlock(t)
  PROVE  Life' = Life /\ Users' = Users
<1> USE DEF itemVars, threadVars, IInv, TypeOK, InfoTypeOK, Threads, PCs, Destroying, Goto
<1>0. t \in Threads
  OBVIOUS
<1>1. CASE DestroyRemoveInfo(t)
  BY <1>0, <1>1, OutsideStutter DEF DestroyRemoveInfo
<1>2. CASE DestroyCloseAll(t)
  <2>1. pipe[ptr[t]] = "live"
    BY <1>2 DEF DestroyCloseAll, DestroyInv
  <2>2. QED
    BY <1>0, <1>2, <2>1, OutsideStutter DEF DestroyCloseAll
<1>3. CASE DestroyDelete(t) \/ DestroyNull(t) \/ DestroyTime(t)
  BY <1>0, <1>3, OutsideStutter DEF DestroyDelete, DestroyNull, DestroyTime
<1>4. CASE DestroyUnlock(t)
  <2>1. CASE alloc[ptr[t]] = "freed"
    BY <1>4, <2>1, LifecycleStutter DEF DestroyUnlock, Fail
  <2>2. CASE alloc[ptr[t]] # "freed"
    BY <1>0, <1>4, <2>2, OutsideStutter DEF DestroyUnlock, Finish
  <2>3. QED
    BY <2>1, <2>2
<1>5. QED
  BY <1>1, <1>2, <1>3, <1>4

\* The watchdog is invisible but for a recycle and the purge.
LEMMA WatchdogStutter ==
  ASSUME IInv,
         \/ WatchdogTraverse \/ WatchdogLock \/ CloseInvalidStream \/ CloseInvalidStreamFault
         \/ CheckSessionFault \/ KeepSession
         \/ \E k \in Keys : WatchdogNext(k)
  PROVE  Life' = Life /\ Users' = Users
<1> USE DEF itemVars, threadVars, IInv, TypeOK, InfoTypeOK, Threads, PCs
<1>1. CASE WatchdogTraverse \/ WatchdogLock \/ CloseInvalidStream
  BY <1>1, OutsideStutter DEF WatchdogTraverse, WatchdogLock, CloseInvalidStream, Goto
<1>2. CASE CloseInvalidStreamFault \/ CheckSessionFault
  BY <1>2, LifecycleStutter DEF CloseInvalidStreamFault, CheckSessionFault, Fail
<1>3. CASE KeepSession
  BY <1>3, OutsideStutter DEF KeepSession, Finish
<1>4. CASE \E k \in Keys : WatchdogNext(k)
  <2> PICK k \in Keys : WatchdogNext(k)
    BY <1>4
  <2>1. CASE UNCHANGED <<pc, ptr>>
    BY <2>1, LifecycleStutter DEF WatchdogNext
  <2>2. CASE GetSessionData(k[1]) # NULL
    BY <2>2, OutsideStutter DEF WatchdogNext
  <2>3. QED
    BY <2>1, <2>2 DEF WatchdogNext
<1>5. QED
  BY <1>1, <1>2, <1>3, <1>4

\* InsertSessionData opens the object, or leaks it and changes nothing.
LEMMA InsertOpens ==
  ASSUME IInv, NEW r \in Rpcs, NEW i \in Items, InsertSessionData(r, i)
  PROVE  Lifecycle!Open(i) \/ (Life' = Life /\ Users' = Users)
<1> USE DEF IInv, TypeOK, InfoTypeOK, Threads, PCs
<1>0. CASE Fail("dangling_pipeline")
  BY <1>0, LifecycleStutter DEF Fail, itemVars, threadVars
<1> SUFFICES ASSUME ~Fail("dangling_pipeline") PROVE Lifecycle!Open(i) \/ (Life' = Life /\ Users' = Users)
  BY <1>0
<1>1. Users' = Users
  BY DEF Users, InsertSessionData, Finish
<1>2. alloc[i] = "unused" /\ state' = state /\ state[i] = "ACTIVE"
  BY DEF InsertSessionData, StageInv
<1>3. CASE alloc' = [alloc EXCEPT ![i] = "live"]
  <2>1. Life[i] = "unborn" /\ Stage(alloc'[i], state'[i]) = "active"
    BY <1>2, <1>3 DEF Life, Stage
  <2>2. Life' = [Life EXCEPT ![i] = "active"]
    BY <1>2, <1>3, <2>1, LifeChange
  <2>3. QED
    BY <1>1, <2>1, <2>2 DEF Lifecycle!Open
<1>4. CASE alloc' = [alloc EXCEPT ![i] = "leaked"]
  <2>1. Life[i] = "unborn" /\ Stage(alloc'[i], state'[i]) = "unborn"
    BY <1>2, <1>4 DEF Life, Stage
  <2>2. Life' = [Life EXCEPT ![i] = "unborn"]
    BY <1>2, <1>4, <2>1, LifeChange
  <2>3. QED
    BY <1>1, <2>1, <2>2 DEF Life
<1>5. QED
  BY <1>3, <1>4 DEF InsertSessionData

\* A handler that passes IsActive() enters; it holds the mutex, so it is alone.
LEMMA CallEnters ==
  ASSUME IInv, NEW r \in Rpcs, CallEnter(r) PROVE Lifecycle!Enter(ptr[r], r) /\ ptr[r] \in Items
<1> USE ThreadsAssumption DEF IInv, TypeOK, InfoTypeOK, Threads
<1>1. /\ ptr[r] \in Items /\ alloc[ptr[r]] = "live" /\ state[ptr[r]] = "ACTIVE"
      /\ pc[r] = "lock" /\ mutex[ptr[r]] = NULL
  BY DEF CallEnter, Lockable, HandlerInv, IsActive
<1>2. Life[ptr[r]] = "active" /\ Life' = Life
  BY <1>1 DEF CallEnter, Life, Stage
<1>3. Users[ptr[r]] = {}
  BY <1>1, NoUsers
<1>4. Users' = [Users EXCEPT ![ptr[r]] = {r}]
  <2>1. ASSUME NEW j \in Items PROVE Users'[j] = IF j = ptr[r] THEN {r} ELSE Users[j]
    BY <1>1, <1>3 DEF CallEnter, Goto, Users
  <2>2. QED
    BY <2>1 DEF Users
<1>5. QED
  BY <1>1, <1>2, <1>3, <1>4 DEF Lifecycle!Enter

\* A handler leaves when it releases the mutex.
LEMMA HandleLeaves ==
  ASSUME IInv, NEW r \in Rpcs, Handle(r) PROVE Lifecycle!Leave(ptr[r], r) /\ ptr[r] \in Items
<1> USE ThreadsAssumption DEF IInv, TypeOK, InfoTypeOK, Threads
<1>1. /\ ptr[r] \in Items /\ alloc[ptr[r]] = "live" /\ pipe[ptr[r]] = "live"
      /\ pc[r] = "act" /\ mutex[ptr[r]] = r /\ sessionMap[cid[r]] = ptr[r]
  BY DEF Handle, HandlerInv, IsActive, StageInv, MapInv
<1>2. HandlerPipe(r) = "live"
  BY <1>1 DEF HandlerPipe, GetSessionData, GetPipeline
<1>3. Return(r)
  BY <1>2 DEF Handle
<1>4. Life' = Life
  BY <1>3 DEF Return, Life, Stage
<1>5. Users[ptr[r]] = {r}
  BY <1>1 DEF Users, HandlerInv
<1>6. \A x \in Rpcs : pc'[x] = "act" <=> (pc[x] = "act" /\ x # r)
  BY <1>3 DEF Return, Goto, Finish
<1>7. \A x \in Rpcs \ {r} : ptr'[x] = ptr[x]
  BY <1>3 DEF Return, Goto, Finish
<1>8. Users' = [Users EXCEPT ![ptr[r]] = {}]
  <2>1. ASSUME NEW j \in Items PROVE Users'[j] = IF j = ptr[r] THEN {} ELSE Users[j]
    <3>1. CASE j = ptr[r]
      BY <1>1, <1>6, <1>7, <3>1 DEF Users, HandlerInv
    <3>2. CASE j # ptr[r]
      BY <1>6, <1>7, <3>2 DEF Users
    <3>3. QED
      BY <3>1, <3>2
  <2>2. QED
    BY <2>1 DEF Users
<1>9. QED
  BY <1>1, <1>4, <1>5, <1>8 DEF Lifecycle!Leave

\* CloseSession closes an active session that no handler is inside of.
LEMMA CloseSessionCloses ==
  ASSUME IInv, NEW r \in Rpcs, CloseSession(r) PROVE Lifecycle!Close(ptr[r]) /\ ptr[r] \in Items
<1> USE ThreadsAssumption DEF IInv, TypeOK, InfoTypeOK, Threads
<1>1. /\ ptr[r] \in Items /\ alloc[ptr[r]] = "live" /\ state[ptr[r]] = "ACTIVE"
      /\ pc[r] = "lock" /\ mutex[ptr[r]] = NULL
  BY DEF CloseSession, Lockable, HandlerInv, IsActive
<1>2. Life[ptr[r]] = "active" /\ Life' = [Life EXCEPT ![ptr[r]] = "closing"]
  <2>1. Life[ptr[r]] = "active" /\ Stage(alloc'[ptr[r]], state'[ptr[r]]) = "closing"
    BY <1>1 DEF CloseSession, Life, Stage
  <2>2. \A j \in Items \ {ptr[r]} : alloc'[j] = alloc[j] /\ state'[j] = state[j]
    BY DEF CloseSession
  <2>3. QED
    BY <1>1, <2>1, <2>2, LifeChange
<1>3. Users[ptr[r]] = {}
  BY <1>1, NoUsers
<1>4. Users' = Users
  BY <1>1 DEF CloseSession, Goto, Users
<1>5. QED
  BY <1>1, <1>2, <1>3, <1>4 DEF Lifecycle!Close

\* So does the watchdog, which holds the mutex too.
LEMMA RecycleSessionCloses ==
  ASSUME IInv, NEW t \in Recyclers, RecycleSession(t)
  PROVE  Lifecycle!Close(ptr[Watchdog]) /\ ptr[Watchdog] \in Items
<1> USE ThreadsAssumption DEF IInv, TypeOK, InfoTypeOK, Threads
<1> DEFINE i == ptr[Watchdog]
<1>1. /\ i \in Items /\ alloc[i] = "live" /\ state[i] = "ACTIVE"
      /\ pc[t] = "idle" /\ mutex[i] = Watchdog
  BY DEF RecycleSession, WatchdogInv, IsActive
<1>2. Life[i] = "active" /\ Life' = [Life EXCEPT ![i] = "closing"]
  <2>1. Life[i] = "active" /\ Stage(alloc'[i], state'[i]) = "closing"
    BY <1>1 DEF RecycleSession, Life, Stage
  <2>2. \A j \in Items \ {i} : alloc'[j] = alloc[j] /\ state'[j] = state[j]
    BY DEF RecycleSession
  <2>3. QED
    BY <1>1, <2>1, <2>2, LifeChange
<1>3. Users[i] = {}
  BY <1>1, NoUsers
<1>4. \A x \in Rpcs : pc'[x] = pc[x] /\ ptr'[x] = ptr[x]
  BY DEF RecycleSession
<1>5. Users' = Users
  BY <1>4 DEF Users
<1>6. QED
  BY <1>1, <1>2, <1>3, <1>5 DEF Lifecycle!Close

\* The state field set by Destroy() destroys a session that is closing.
LEMMA DestroyDestroys ==
  ASSUME IInv, NEW t \in Rpcs \cup Recyclers, DestroyState(t)
  PROVE  Lifecycle!Destroy(ptr[t]) /\ ptr[t] \in Items
<1> USE ThreadsAssumption DEF IInv, TypeOK, InfoTypeOK, Threads
<1>1. ptr[t] \in Items /\ alloc[ptr[t]] = "live" /\ state[ptr[t]] = "CLOSED" /\ pc[t] = "d_state"
  BY DEF DestroyState, DestroyInv, Destroying
<1>2. Life[ptr[t]] = "closing" /\ Life' = [Life EXCEPT ![ptr[t]] = "destroyed"]
  <2>1. Life[ptr[t]] = "closing" /\ Stage(alloc'[ptr[t]], state'[ptr[t]]) = "destroyed"
    BY <1>1 DEF DestroyState, Life, Stage
  <2>2. \A j \in Items \ {ptr[t]} : alloc'[j] = alloc[j] /\ state'[j] = state[j]
    BY DEF DestroyState
  <2>3. QED
    BY <1>1, <2>1, <2>2, LifeChange
<1>3. Users' = Users
  BY <1>1 DEF DestroyState, AfterDestroy, Goto, Finish, Users
<1>4. QED
  BY <1>1, <1>2, <1>3 DEF Lifecycle!Destroy

\* The purge reclaims destroyed objects only.
LEMMA PurgeReclaims ==
  ASSUME IInv, WatchdogPurge PROVE Lifecycle!Reclaim
<1> USE ThreadsAssumption DEF IInv, TypeOK, InfoTypeOK, Threads
<1> DEFINE dead == {i \in Items : CanRecycle(i) /\ \E s \in Ids : sessionMap[s] = i}
<1>1. /\ alloc' = [i \in Items |-> IF i \in dead THEN "freed" ELSE alloc[i]]
      /\ UNCHANGED state
  BY DEF WatchdogPurge
<1>2. \A i \in dead : alloc[i] = "live" /\ state[i] = "DESTROYED"
  BY DEF MapInv, CanRecycle
<1>3. \A i \in dead : Life[i] = "destroyed"
  BY <1>2 DEF Life, Stage
<1>4. Life' = [i \in Items |-> IF i \in dead THEN "reclaimed" ELSE Life[i]]
  <2>1. ASSUME NEW i \in Items
        PROVE  Stage(alloc'[i], state'[i]) = IF i \in dead THEN "reclaimed" ELSE Life[i]
    <3>1. CASE i \in dead
      <4>1. alloc'[i] = "freed"
        BY <1>1, <3>1
      <4>2. QED
        BY <3>1, <4>1 DEF Stage
    <3>2. CASE i \notin dead
      <4>1. alloc'[i] = alloc[i] /\ state'[i] = state[i]
        BY <1>1, <3>2
      <4>2. QED
        BY <3>2, <4>1 DEF Life
    <3>3. QED
      BY <3>1, <3>2
  <2>2. Life' = [i \in Items |-> Stage(alloc'[i], state'[i])]
    BY DEF Life, Stage
  <2>3. QED
    BY <2>1, <2>2
<1>5. Users' = Users
  BY DEF WatchdogPurge, Goto, Users
<1>6. dead \in SUBSET {i \in Items : Life[i] = "destroyed"}
  BY <1>3
<1>7. QED
  BY <1>4, <1>5, <1>6 DEF Lifecycle!Reclaim

\* The service implements SessionLifecycle: every object is used only while
\* active, closed once and only when unused, destroyed once and then deleted.
THEOREM ServiceRefinesLifecycle == Spec => RefinesLifecycle
<1>1. Init => Lifecycle!Init
  BY DEF Init, Lifecycle!Init, Life, Stage, Users, Threads
<1>2. IInv /\ [Next]_vars => [Lifecycle!Next]_(Lifecycle!vars)
  <2> SUFFICES ASSUME IInv, [Next]_vars
               PROVE  Lifecycle!Next \/ (Life' = Life /\ Users' = Users)
    BY DEF Lifecycle!vars
  <2>1. CASE UNCHANGED vars
    BY <2>1, LifecycleStutter DEF vars
  <2>2. CASE \E r \in Rpcs : RpcStep(r)
    <3> PICK r \in Rpcs : RpcStep(r)
      BY <2>2
    <3>1. CASE \E i \in Items : InsertSessionData(r, i)
      BY <3>1, InsertOpens DEF Lifecycle!Next
    <3>2. CASE CallEnter(r)
      BY <3>2, CallEnters DEF Lifecycle!Next
    <3>3. CASE CloseSession(r)
      BY <3>3, CloseSessionCloses DEF Lifecycle!Next
    <3>4. CASE Handle(r)
      BY <3>4, HandleLeaves DEF Lifecycle!Next
    <3>5. QED
      BY <3>1, <3>2, <3>3, <3>4, RpcStutter DEF RpcStep
  <2>3. CASE \E t \in Rpcs \cup Recyclers : Destroy(t)
    BY <2>3, DestroyStutter, DestroyDestroys DEF Destroy, Lifecycle!Next
  <2>4. CASE WatchdogStep
    <3>1. CASE \E t \in Recyclers : RecycleSession(t)
      BY <3>1, RecycleSessionCloses DEF Lifecycle!Next
    <3>2. CASE WatchdogPurge
      BY <3>2, PurgeReclaims DEF Lifecycle!Next
    <3>3. QED
      BY <2>4, <3>1, <3>2, WatchdogStutter DEF WatchdogStep, CheckAndRecycleSession
  <2>5. CASE (\E i \in Items : Elapse(i)) \/ (\E k \in Keys : Teardown(k))
    BY <2>5, LifecycleStutter DEF Elapse, Teardown, threadVars, itemVars
  <2>6. QED
    BY <2>1, <2>2, <2>3, <2>4, <2>5 DEF Next, Faulted
<1>3. QED
  BY <1>1, <1>2, Invariance, PTL DEF Spec, RefinesLifecycle, Lifecycle!Spec

===============================================================================
