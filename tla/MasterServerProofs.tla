--------------------------- MODULE MasterServerProofs ---------------------------
(***************************************************************************)
(* Proofs about MasterServer for any servers, sessions, calls and bounds.  *)
(* Only the routing needs stream servers that draw different ids.          *)
(***************************************************************************)
EXTENDS MasterServer, FiniteSetTheorems, TLAPS

\* What a server has, it has drawn; with different seeds no other server draws it.
HostedIsDrawn == \A s \in Servers : hosted[s] \subseteq drawn[s]
DrawnOnce == \A s, t \in Servers : s # t => drawn[s] \cap drawn[t] = {}

\* Clients were given what its server has drawn, and the master knows nothing else.
GivenIsDrawn == \A a \in answered : a.session \in drawn[a.server]
KnownIsGiven ==
  \A id \in SessionIds :
    session_to_server_[id] # None => [session |-> id, server |-> session_to_server_[id]] \in answered

\* What a call holds between its steps.
CallHolds(c) ==
  /\ pc[c] \in {"lookup", "rpc", "reclaim", "done"} /\ op[c] # "Create" => session[c] \in SessionIds
  /\ pc[c] = "allocate" => op[c] = "Create"
  /\ pc[c] = "lookup" => op[c] # "Create"
  /\ pc[c] \in {"allocate", "rpc"} => retries[c] < RpcRetries
  /\ pc[c] \in {"idle", "lookup"} => retries[c] < RpcRetries
  /\ pc[c] = "rpc" => server[c] \in Servers
  /\ pc[c] = "rpc" /\ op[c] # "Create" => [session |-> session[c], server |-> server[c]] \in answered
  /\ pc[c] = "record" => /\ op[c] = "Create" /\ server[c] \in Servers
                         /\ session[c] \in drawn[server[c]]
  /\ pc[c] = "reclaim" => /\ op[c] = "Close" /\ server[c] \in Servers
                          /\ session[c] \in drawn[server[c]] /\ session[c] \notin hosted[server[c]]

CallsHold == \A c \in Calls : CallHolds(c)

\* A late request of a call for a session knows its session.
LateHolds ==
  \A r \in pending : /\ pc[r.call] # "idle"
                      /\ op[r.call] # "Create" => session[r.call] \in SessionIds

\* Who is told OK, or is about to be, has been served.
OkHolds ==
  \A c \in Calls :
    /\ pc[c] = "idle" => answer[c] = "none"
    /\ op[c] # "Create" /\ (answer[c] = "OK" \/ pc[c] = "reclaim") => executed[c] > 0

\* What holds whatever ids the servers draw ...
BaseInv ==
  TypeOK /\ HostedIsDrawn /\ GivenIsDrawn /\ KnownIsGiven /\ CallsHold /\ LateHolds /\ OkHolds

\* ... and with ids that differ.
IInv == BaseInv /\ DrawnOnce /\ RoutedToItsServer

\* The requests of a call that are still on their way after their deadline.  Each
\* is a try that may yet be executed: with those that were, there are no more of
\* them than tries.
InFlight(c) == {r \in pending : r.call = c}
TriesCounted ==
  \A c \in Calls : IsFiniteSet(InFlight(c)) /\ executed[c] + Cardinality(InFlight(c)) <= retries[c]

\* As long as no server crashed or fell silent, the pool only grows, and the index
\* is in it, 0, or what the field happened to start with.
PoolGrows ==
  crashes + silences = 0 =>
    /\ up = Servers
    /\ server_id_ = 0 \/ server_id_ < Cardinality(live) \/ server_id_ \in InitialServerId \ {0}
PoolInv == PoolGrows /\ IndexInPool

-------------------------------------------------------------------------------

LEMMA Initially == Init => IInv
<1> SUFFICES ASSUME Init PROVE IInv
  OBVIOUS
<1>1. TypeOK
  <2>1. pc \in [Calls -> Places] /\ op \in [Calls -> {"Create", "Close", "Forward"}]
        /\ retries \in [Calls -> 0..RpcRetries] /\ executed \in [Calls -> Nat]
    BY MasterAssumption DEF Init, Places
  <2>2. /\ server_id_ \in Nat /\ session_to_server_ \in [SessionIds -> Servers \cup {None}]
        /\ server \in [Calls -> Servers \cup {None}] /\ session \in [Calls -> SessionIds \cup {None}]
    BY MasterAssumption DEF Init
  <2> QED BY <2>1, <2>2 DEF Init, TypeOK
<1>2. HostedIsDrawn /\ DrawnOnce /\ GivenIsDrawn /\ KnownIsGiven /\ RoutedToItsServer
  BY DEF Init, HostedIsDrawn, DrawnOnce, GivenIsDrawn, KnownIsGiven, RoutedToItsServer
<1>3. CallsHold /\ LateHolds /\ OkHolds
  BY MasterAssumption DEF Init, CallsHold, CallHolds, LateHolds, OkHolds
<1> QED BY <1>1, <1>2, <1>3 DEF IInv, BaseInv

\* The steps of the stream servers, and of the registry.
LEMMA RegisterKeeps == ASSUME NEW s \in Servers, BaseInv, Register(s) PROVE BaseInv'
  BY DEF BaseInv, TypeOK, HostedIsDrawn, GivenIsDrawn, KnownIsGiven, CallsHold, CallHolds, LateHolds, OkHolds,
     Register, slaves, calls, counts

LEMMA SilenceKeeps == ASSUME NEW s \in Servers, BaseInv, Silence(s) PROVE BaseInv'
  BY DEF BaseInv, TypeOK, HostedIsDrawn, GivenIsDrawn, KnownIsGiven, CallsHold, CallHolds, LateHolds, OkHolds,
     Silence, slaves, calls

LEMMA CrashKeeps == ASSUME NEW s \in Servers, BaseInv, Crash(s) PROVE BaseInv'
  BY DEF BaseInv, TypeOK, HostedIsDrawn, GivenIsDrawn, KnownIsGiven, CallsHold, CallHolds, LateHolds, OkHolds,
     Crash, master, calls

LEMMA StartKeeps == ASSUME NEW s \in Servers, BaseInv, Start(s) PROVE BaseInv'
  BY DEF BaseInv, TypeOK, HostedIsDrawn, GivenIsDrawn, KnownIsGiven, CallsHold, CallHolds, LateHolds, OkHolds,
     Start, master, calls, counts

LEMMA BeginKeeps ==
  ASSUME NEW c \in Calls, NEW o \in {"Create", "Close", "Forward"}, NEW id, NEW at, BaseInv, Begin(c, o, id, at),
         \/ o = "Create" /\ at = "allocate" /\ id = None
         \/ o # "Create" /\ at = "lookup" /\ id \in SessionIds
  PROVE BaseInv'
<1>1. TypeOK'
  BY MasterAssumption DEF BaseInv, TypeOK, CallsHold, CallHolds, LateHolds, Begin, slaves, master,
     counts, Places, Requests
<1>2. HostedIsDrawn'
  BY MasterAssumption DEF BaseInv, TypeOK, HostedIsDrawn, Begin, slaves, master, counts
<1>3. GivenIsDrawn'
  BY MasterAssumption DEF BaseInv, TypeOK, GivenIsDrawn, CallsHold, CallHolds, Begin, slaves, master, counts
<1>4. KnownIsGiven'
  BY MasterAssumption DEF BaseInv, TypeOK, KnownIsGiven, CallsHold, CallHolds, Begin, slaves, master, counts
<1>5. CallsHold'
  <2> SUFFICES ASSUME NEW d \in Calls PROVE CallHolds(d)'
    BY DEF CallsHold
  <2>1. CASE d = c
    BY <2>1, MasterAssumption DEF BaseInv, TypeOK, HostedIsDrawn, GivenIsDrawn, KnownIsGiven, CallsHold,
       CallHolds, Begin, slaves, master, counts
  <2>2. CASE d # c
    BY <2>2 DEF BaseInv, TypeOK, CallsHold, CallHolds, Begin, slaves, master, counts
  <2> QED BY <2>1, <2>2
<1>6. LateHolds'
  <2>1. \A r \in pending : r.call \in Calls
    BY DEF BaseInv, TypeOK, Requests
  <2> QED BY <2>1 DEF BaseInv, TypeOK, CallsHold, CallHolds, LateHolds, Places, Begin, slaves, master,
     counts
<1>7. OkHolds'
  BY MasterAssumption DEF BaseInv, TypeOK, CallsHold, CallHolds, OkHolds, Begin, slaves, master, counts
<1> QED BY <1>1, <1>2, <1>3, <1>4, <1>5, <1>6, <1>7 DEF BaseInv

LEMMA AllocateKeeps == ASSUME NEW c \in Calls, BaseInv, AllocateServer(c) PROVE BaseInv'
<1>1. TypeOK'
  <2>1. /\ up' \subseteq Servers /\ live' \subseteq Servers /\ dropped' \subseteq SessionIds
        /\ hosted' \in [Servers -> SUBSET SessionIds] /\ drawn' \in [Servers -> SUBSET SessionIds]
        /\ fault' \in BOOLEAN /\ executed' \in [Calls -> Nat] /\ crashes' \in Nat /\ silences' \in Nat
        /\ restarts' \in Nat
    BY DEF BaseInv, TypeOK, CallsHold, CallHolds, AllocateServer, Return, slaves, counts
  <2>2. pc' \in [Calls -> Places] /\ answer' \in [Calls -> {"none", "OK", "CANCELLED", "FAILED"}]
    BY DEF BaseInv, TypeOK, Places, AllocateServer, Return, slaves, counts
  <2>3. retries' \in [Calls -> 0..RpcRetries] /\ op' \in [Calls -> {"Create", "Close", "Forward"}]
    BY MasterAssumption DEF BaseInv, TypeOK, CallsHold, CallHolds, AllocateServer, Return, slaves, counts
  <2>4. /\ server' \in [Calls -> Servers \cup {None}] /\ session' \in [Calls -> SessionIds \cup {None}]
        /\ session_to_server_' \in [SessionIds -> Servers \cup {None}]
    BY DEF BaseInv, TypeOK, CallsHold, CallHolds, AllocateServer, Return, slaves, counts
  <2>5. pending' \subseteq Requests /\ answered' \subseteq [session : SessionIds, server : Servers]
    BY MasterAssumption DEF BaseInv, TypeOK, CallsHold, CallHolds, Requests, AllocateServer, Return,
       slaves, counts
  <2>6. server_id_' \in Nat
    BY MasterAssumption, FS_CardinalityType, FS_Subset DEF BaseInv, TypeOK, AllocateServer, Return,
       slaves, counts
  <2> QED BY <2>1, <2>2, <2>3, <2>4, <2>5, <2>6 DEF TypeOK
<1>2. HostedIsDrawn'
  BY MasterAssumption DEF BaseInv, TypeOK, HostedIsDrawn, AllocateServer, Return, slaves, counts
<1>3. GivenIsDrawn'
  BY MasterAssumption DEF BaseInv, TypeOK, GivenIsDrawn, CallsHold, CallHolds, AllocateServer, Return,
     slaves, counts
<1>4. KnownIsGiven'
  BY MasterAssumption DEF BaseInv, TypeOK, KnownIsGiven, CallsHold, CallHolds, AllocateServer, Return,
     slaves, counts
<1>5. CallsHold'
  <2> SUFFICES ASSUME NEW d \in Calls PROVE CallHolds(d)'
    BY DEF CallsHold
  <2>1. CASE d = c
    <3>1. pc'[c] = "done" \/ pc'[c] = pc[c] \/ (pc'[c] = "rpc" /\ server'[c] \in Servers)
      BY DEF BaseInv, TypeOK, AllocateServer, Return, slaves, counts
    <3>2. op[c] = "Create" /\ retries[c] < RpcRetries /\ pc[c] = "allocate"
      BY DEF BaseInv, CallsHold, CallHolds, AllocateServer
    <3>3. UNCHANGED <<op, retries>>
      BY DEF AllocateServer
    <3> QED BY <2>1, <3>1, <3>2, <3>3 DEF CallHolds
  <2>2. CASE d # c
    BY <2>2 DEF BaseInv, TypeOK, CallsHold, CallHolds, AllocateServer, Return, slaves, counts
  <2> QED BY <2>1, <2>2
<1>6. LateHolds'
  <2>1. \A r \in pending : r.call \in Calls
    BY DEF BaseInv, TypeOK, Requests
  <2> QED BY <2>1 DEF BaseInv, TypeOK, CallsHold, CallHolds, LateHolds, Places, AllocateServer, Return,
     slaves, counts
<1>7. OkHolds'
  BY MasterAssumption DEF BaseInv, TypeOK, CallsHold, CallHolds, OkHolds, AllocateServer, Return,
     slaves, counts
<1> QED BY <1>1, <1>2, <1>3, <1>4, <1>5, <1>6, <1>7 DEF BaseInv

LEMMA GetServerKeeps == ASSUME NEW c \in Calls, BaseInv, GetServer(c) PROVE BaseInv'
<1>1. TypeOK'
  <2>1. /\ up' \subseteq Servers /\ live' \subseteq Servers /\ dropped' \subseteq SessionIds
        /\ hosted' \in [Servers -> SUBSET SessionIds] /\ drawn' \in [Servers -> SUBSET SessionIds]
        /\ fault' \in BOOLEAN /\ executed' \in [Calls -> Nat] /\ crashes' \in Nat /\ silences' \in Nat
        /\ restarts' \in Nat
    BY DEF BaseInv, TypeOK, CallsHold, CallHolds, GetServer, Return, slaves, counts
  <2>2. pc' \in [Calls -> Places] /\ answer' \in [Calls -> {"none", "OK", "CANCELLED", "FAILED"}]
    BY DEF BaseInv, TypeOK, Places, GetServer, Return, slaves, counts
  <2>3. retries' \in [Calls -> 0..RpcRetries] /\ op' \in [Calls -> {"Create", "Close", "Forward"}]
    BY MasterAssumption DEF BaseInv, TypeOK, CallsHold, CallHolds, GetServer, Return, slaves, counts
  <2>4. /\ server' \in [Calls -> Servers \cup {None}] /\ session' \in [Calls -> SessionIds \cup {None}]
        /\ session_to_server_' \in [SessionIds -> Servers \cup {None}]
    BY DEF BaseInv, TypeOK, CallsHold, CallHolds, GetServer, Return, slaves, counts
  <2>5. pending' \subseteq Requests /\ answered' \subseteq [session : SessionIds, server : Servers]
    BY MasterAssumption DEF BaseInv, TypeOK, CallsHold, CallHolds, Requests, GetServer, Return, slaves,
       counts
  <2>6. server_id_' \in Nat
    BY MasterAssumption, FS_CardinalityType, FS_Subset DEF BaseInv, TypeOK, GetServer, Return, slaves,
       counts
  <2> QED BY <2>1, <2>2, <2>3, <2>4, <2>5, <2>6 DEF TypeOK
<1>2. HostedIsDrawn'
  BY MasterAssumption DEF BaseInv, TypeOK, HostedIsDrawn, GetServer, Return, slaves, counts
<1>3. GivenIsDrawn'
  BY MasterAssumption DEF BaseInv, TypeOK, GivenIsDrawn, CallsHold, CallHolds, GetServer, Return,
     slaves, counts
<1>4. KnownIsGiven'
  BY MasterAssumption DEF BaseInv, TypeOK, KnownIsGiven, CallsHold, CallHolds, GetServer, Return,
     slaves, counts
<1>5. CallsHold'
  <2> SUFFICES ASSUME NEW d \in Calls PROVE CallHolds(d)'
    BY DEF CallsHold
  <2>1. CASE d = c
    <3>1. /\ op[c] # "Create" /\ session[c] \in SessionIds /\ retries[c] < RpcRetries
      BY DEF BaseInv, CallsHold, CallHolds, GetServer
    <3>2. UNCHANGED <<op, session, retries, answered>>
      BY DEF GetServer
    <3>3. \/ pc'[c] = "done"
          \/ /\ pc'[c] = "rpc" /\ server'[c] = session_to_server_[session[c]] /\ server'[c] \in Servers
      BY DEF BaseInv, TypeOK, GetServer, Return, slaves, counts
    <3>4. session_to_server_[session[c]] \in Servers =>
            [session |-> session[c], server |-> session_to_server_[session[c]]] \in answered
      BY <3>1, MasterAssumption DEF BaseInv, KnownIsGiven
    <3> QED BY <2>1, <3>1, <3>2, <3>3, <3>4 DEF CallHolds
  <2>2. CASE d # c
    BY <2>2 DEF BaseInv, TypeOK, CallsHold, CallHolds, GetServer, Return, slaves, counts
  <2> QED BY <2>1, <2>2
<1>6. LateHolds'
  <2>1. \A r \in pending : r.call \in Calls
    BY DEF BaseInv, TypeOK, Requests
  <2> QED BY <2>1 DEF BaseInv, TypeOK, CallsHold, CallHolds, LateHolds, Places, GetServer, Return,
     slaves, counts
<1>7. OkHolds'
  BY MasterAssumption DEF BaseInv, TypeOK, CallsHold, CallHolds, OkHolds, GetServer, Return, slaves, counts
<1> QED BY <1>1, <1>2, <1>3, <1>4, <1>5, <1>6, <1>7 DEF BaseInv

LEMMA RpcOkKeeps == ASSUME NEW c \in Calls, BaseInv, RpcOk(c) PROVE BaseInv'
<1>1. TypeOK'
  <2>1. /\ up' \subseteq Servers /\ live' \subseteq Servers /\ dropped' \subseteq SessionIds
        /\ hosted' \in [Servers -> SUBSET SessionIds] /\ drawn' \in [Servers -> SUBSET SessionIds]
        /\ fault' \in BOOLEAN /\ executed' \in [Calls -> Nat] /\ crashes' \in Nat /\ silences' \in Nat
        /\ restarts' \in Nat
    BY DEF BaseInv, TypeOK, CallsHold, CallHolds, RpcOk, Executes, Drawable, Return, master, counts
  <2>2. pc' \in [Calls -> Places] /\ answer' \in [Calls -> {"none", "OK", "CANCELLED", "FAILED"}]
    BY DEF BaseInv, TypeOK, Places, RpcOk, Executes, Drawable, Return, master, counts
  <2>3. retries' \in [Calls -> 0..RpcRetries] /\ op' \in [Calls -> {"Create", "Close", "Forward"}]
    <3>1. retries[c] \in 0..RpcRetries /\ retries[c] < RpcRetries
      BY DEF BaseInv, TypeOK, CallsHold, CallHolds, RpcOk
    <3>2. retries[c] + 1 \in 0..RpcRetries
      BY <3>1, MasterAssumption
    <3>3. retries' = [retries EXCEPT ![c] = retries[c] + 1] /\ UNCHANGED op
      BY DEF RpcOk, Executes, Drawable, Return, master, counts
    <3> QED BY <3>2, <3>3 DEF BaseInv, TypeOK
  <2>4. /\ server' \in [Calls -> Servers \cup {None}] /\ session' \in [Calls -> SessionIds \cup {None}]
        /\ session_to_server_' \in [SessionIds -> Servers \cup {None}]
    BY DEF BaseInv, TypeOK, CallsHold, CallHolds, RpcOk, Executes, Drawable, Return, master, counts
  <2>5. pending' \subseteq Requests /\ answered' \subseteq [session : SessionIds, server : Servers]
    BY MasterAssumption DEF BaseInv, TypeOK, CallsHold, CallHolds, Requests, RpcOk, Executes, Drawable,
       Return, master, counts
  <2>6. server_id_' \in Nat
    BY MasterAssumption, FS_CardinalityType, FS_Subset DEF BaseInv, TypeOK, RpcOk, Executes, Drawable,
       Return, master, counts
  <2> QED BY <2>1, <2>2, <2>3, <2>4, <2>5, <2>6 DEF TypeOK
<1>2. HostedIsDrawn'
  BY MasterAssumption DEF BaseInv, TypeOK, HostedIsDrawn, RpcOk, Executes, Drawable, Return, master, counts
<1>3. GivenIsDrawn'
  BY MasterAssumption DEF BaseInv, TypeOK, GivenIsDrawn, CallsHold, CallHolds, RpcOk, Executes,
     Drawable, Return, master, counts
<1>4. KnownIsGiven'
  BY MasterAssumption DEF BaseInv, TypeOK, KnownIsGiven, CallsHold, CallHolds, RpcOk, Executes,
     Drawable, Return, master, counts
<1>5. CallsHold'
  BY MasterAssumption DEF BaseInv, TypeOK, HostedIsDrawn, GivenIsDrawn, KnownIsGiven, CallsHold, CallHolds,
     RpcOk, Executes, Drawable, Return, master, counts
<1>6. LateHolds'
  <2>1. \A r \in pending : r.call \in Calls
    BY DEF BaseInv, TypeOK, Requests
  <2> QED BY <2>1 DEF BaseInv, TypeOK, CallsHold, CallHolds, LateHolds, Places, RpcOk, Executes,
     Drawable, Return, master, counts
<1>7. OkHolds'
  BY MasterAssumption DEF BaseInv, TypeOK, CallsHold, CallHolds, OkHolds, RpcOk, Executes, Drawable,
     Return, master, counts
<1> QED BY <1>1, <1>2, <1>3, <1>4, <1>5, <1>6, <1>7 DEF BaseInv

LEMMA LateKeeps == ASSUME NEW r \in pending, BaseInv, ExecutesLate(r) PROVE BaseInv'
<1>1. TypeOK'
  BY MasterAssumption DEF BaseInv, TypeOK, CallsHold, CallHolds, LateHolds, ExecutesLate, Executes,
     Drawable, master, calls, counts, Places, Requests
<1>2. HostedIsDrawn'
  BY MasterAssumption DEF BaseInv, TypeOK, HostedIsDrawn, ExecutesLate, Executes, Drawable, master, calls,
     counts
<1>3. GivenIsDrawn'
  BY MasterAssumption DEF BaseInv, TypeOK, GivenIsDrawn, CallsHold, CallHolds, ExecutesLate, Executes,
     Drawable, master, calls, counts
<1>4. KnownIsGiven'
  BY MasterAssumption DEF BaseInv, TypeOK, KnownIsGiven, CallsHold, CallHolds, ExecutesLate, Executes,
     Drawable, master, calls, counts
<1>5. CallsHold'
  BY MasterAssumption DEF BaseInv, TypeOK, HostedIsDrawn, GivenIsDrawn, KnownIsGiven, CallsHold, CallHolds,
     ExecutesLate, Executes, Drawable, master, calls, counts
<1>6. LateHolds'
  BY MasterAssumption DEF BaseInv, TypeOK, CallsHold, CallHolds, LateHolds, ExecutesLate, Executes,
     Drawable, master, calls, counts
<1>7. OkHolds'
  BY MasterAssumption DEF BaseInv, TypeOK, CallsHold, CallHolds, OkHolds, ExecutesLate, Executes,
     Drawable, master, calls, counts
<1> QED BY <1>1, <1>2, <1>3, <1>4, <1>5, <1>6, <1>7 DEF BaseInv

LEMMA DeadlineKeeps == ASSUME NEW c \in Calls, BaseInv, RpcDeadline(c) PROVE BaseInv'
<1>1. TypeOK'
  <2>1. /\ up' \subseteq Servers /\ live' \subseteq Servers /\ dropped' \subseteq SessionIds
        /\ hosted' \in [Servers -> SUBSET SessionIds] /\ drawn' \in [Servers -> SUBSET SessionIds]
        /\ fault' \in BOOLEAN /\ executed' \in [Calls -> Nat] /\ crashes' \in Nat /\ silences' \in Nat
        /\ restarts' \in Nat
    BY DEF BaseInv, TypeOK, CallsHold, CallHolds, RpcDeadline, Retry, Return, master, counts
  <2>2. pc' \in [Calls -> Places] /\ answer' \in [Calls -> {"none", "OK", "CANCELLED", "FAILED"}]
    BY DEF BaseInv, TypeOK, Places, RpcDeadline, Retry, Return, master, counts
  <2>3. retries' \in [Calls -> 0..RpcRetries] /\ op' \in [Calls -> {"Create", "Close", "Forward"}]
    <3>1. retries[c] \in 0..RpcRetries /\ retries[c] < RpcRetries
      BY DEF BaseInv, TypeOK, CallsHold, CallHolds, RpcDeadline
    <3>2. retries[c] + 1 \in 0..RpcRetries
      BY <3>1, MasterAssumption
    <3>3. retries' = [retries EXCEPT ![c] = retries[c] + 1] /\ UNCHANGED op
      BY DEF RpcDeadline, Retry, Return, master, counts
    <3> QED BY <3>2, <3>3 DEF BaseInv, TypeOK
  <2>4. /\ server' \in [Calls -> Servers \cup {None}] /\ session' \in [Calls -> SessionIds \cup {None}]
        /\ session_to_server_' \in [SessionIds -> Servers \cup {None}]
    BY DEF BaseInv, TypeOK, CallsHold, CallHolds, RpcDeadline, Retry, Return, master, counts
  <2>5. pending' \subseteq Requests /\ answered' \subseteq [session : SessionIds, server : Servers]
    <3>1. retries[c] \in 0..RpcRetries /\ retries[c] < RpcRetries /\ server[c] \in Servers
      BY DEF BaseInv, TypeOK, CallsHold, CallHolds, RpcDeadline
    <3>2. retries[c] \in 0..(RpcRetries - 1)
      BY <3>1, MasterAssumption
    <3>3. [call |-> c, retries |-> retries[c], server |-> server[c]] \in Requests
      BY <3>1, <3>2 DEF Requests
    <3> QED BY <3>3 DEF BaseInv, TypeOK, RpcDeadline
  <2>6. server_id_' \in Nat
    BY MasterAssumption, FS_CardinalityType, FS_Subset DEF BaseInv, TypeOK, RpcDeadline, Retry, Return,
       master, counts
  <2> QED BY <2>1, <2>2, <2>3, <2>4, <2>5, <2>6 DEF TypeOK
<1>2. HostedIsDrawn'
  BY MasterAssumption DEF BaseInv, TypeOK, HostedIsDrawn, RpcDeadline, Retry, Return, master, counts
<1>3. GivenIsDrawn'
  BY MasterAssumption DEF BaseInv, TypeOK, GivenIsDrawn, CallsHold, CallHolds, RpcDeadline, Retry,
     Return, master, counts
<1>4. KnownIsGiven'
  BY MasterAssumption DEF BaseInv, TypeOK, KnownIsGiven, CallsHold, CallHolds, RpcDeadline, Retry,
     Return, master, counts
<1>5. CallsHold'
  BY MasterAssumption DEF BaseInv, TypeOK, HostedIsDrawn, GivenIsDrawn, KnownIsGiven, CallsHold, CallHolds,
     RpcDeadline, Retry, Return, master, counts
<1>6. LateHolds'
  <2>1. \A r \in pending : r.call \in Calls
    BY DEF BaseInv, TypeOK, Requests
  <2>2. \A r \in pending' : r \in pending \/ r.call = c
    BY DEF RpcDeadline
  <2>3. \A d \in Calls : d # c => pc'[d] = pc[d]
    BY DEF BaseInv, TypeOK, RpcDeadline, Retry, Return
  <2>4. pc'[c] # "idle" /\ (op[c] # "Create" => session[c] \in SessionIds) /\ pc[c] # "idle"
    BY DEF BaseInv, TypeOK, CallsHold, CallHolds, RpcDeadline, Retry, Return
  <2>5. UNCHANGED <<op, session>>
    BY DEF RpcDeadline
  <2> QED BY <2>1, <2>2, <2>3, <2>4, <2>5 DEF BaseInv, LateHolds
<1>7. OkHolds'
  BY MasterAssumption DEF BaseInv, TypeOK, CallsHold, CallHolds, OkHolds, RpcDeadline, Retry, Return,
     master, counts
<1> QED BY <1>1, <1>2, <1>3, <1>4, <1>5, <1>6, <1>7 DEF BaseInv

LEMMA RefusedKeeps == ASSUME NEW c \in Calls, BaseInv, RpcRefused(c) PROVE BaseInv'
<1>1. TypeOK'
  <2>1. /\ up' \subseteq Servers /\ live' \subseteq Servers /\ dropped' \subseteq SessionIds
        /\ hosted' \in [Servers -> SUBSET SessionIds] /\ drawn' \in [Servers -> SUBSET SessionIds]
        /\ fault' \in BOOLEAN /\ executed' \in [Calls -> Nat] /\ crashes' \in Nat /\ silences' \in Nat
        /\ restarts' \in Nat
    BY DEF BaseInv, TypeOK, CallsHold, CallHolds, RpcRefused, Retry, Return, slaves, master, counts
  <2>2. pc' \in [Calls -> Places] /\ answer' \in [Calls -> {"none", "OK", "CANCELLED", "FAILED"}]
    BY DEF BaseInv, TypeOK, Places, RpcRefused, Retry, Return, slaves, master, counts
  <2>3. retries' \in [Calls -> 0..RpcRetries] /\ op' \in [Calls -> {"Create", "Close", "Forward"}]
    <3>1. retries[c] \in 0..RpcRetries /\ retries[c] < RpcRetries
      BY DEF BaseInv, TypeOK, CallsHold, CallHolds, RpcRefused
    <3>2. retries[c] + 1 \in 0..RpcRetries
      BY <3>1, MasterAssumption
    <3>3. retries' = [retries EXCEPT ![c] = retries[c] + 1] /\ UNCHANGED op
      BY DEF RpcRefused, Retry, Return, slaves, master, counts
    <3> QED BY <3>2, <3>3 DEF BaseInv, TypeOK
  <2>4. /\ server' \in [Calls -> Servers \cup {None}] /\ session' \in [Calls -> SessionIds \cup {None}]
        /\ session_to_server_' \in [SessionIds -> Servers \cup {None}]
    BY DEF BaseInv, TypeOK, CallsHold, CallHolds, RpcRefused, Retry, Return, slaves, master, counts
  <2>5. pending' \subseteq Requests /\ answered' \subseteq [session : SessionIds, server : Servers]
    BY MasterAssumption DEF BaseInv, TypeOK, CallsHold, CallHolds, Requests, RpcRefused, Retry, Return,
       slaves, master, counts
  <2>6. server_id_' \in Nat
    BY MasterAssumption, FS_CardinalityType, FS_Subset DEF BaseInv, TypeOK, RpcRefused, Retry, Return,
       slaves, master, counts
  <2> QED BY <2>1, <2>2, <2>3, <2>4, <2>5, <2>6 DEF TypeOK
<1>2. HostedIsDrawn'
  BY MasterAssumption DEF BaseInv, TypeOK, HostedIsDrawn, RpcRefused, Retry, Return, slaves, master, counts
<1>3. GivenIsDrawn'
  BY MasterAssumption DEF BaseInv, TypeOK, GivenIsDrawn, CallsHold, CallHolds, RpcRefused, Retry,
     Return, slaves, master, counts
<1>4. KnownIsGiven'
  BY MasterAssumption DEF BaseInv, TypeOK, KnownIsGiven, CallsHold, CallHolds, RpcRefused, Retry,
     Return, slaves, master, counts
<1>5. CallsHold'
  BY MasterAssumption DEF BaseInv, TypeOK, HostedIsDrawn, GivenIsDrawn, KnownIsGiven, CallsHold, CallHolds,
     RpcRefused, Retry, Return, slaves, master, counts
<1>6. LateHolds'
  <2>1. \A r \in pending : r.call \in Calls
    BY DEF BaseInv, TypeOK, Requests
  <2> QED BY <2>1 DEF BaseInv, TypeOK, CallsHold, CallHolds, LateHolds, Places, RpcRefused, Retry,
     Return, slaves, master, counts
<1>7. OkHolds'
  BY MasterAssumption DEF BaseInv, TypeOK, CallsHold, CallHolds, OkHolds, RpcRefused, Retry, Return,
     slaves, master, counts
<1> QED BY <1>1, <1>2, <1>3, <1>4, <1>5, <1>6, <1>7 DEF BaseInv

LEMMA SetSessionServerKeeps == ASSUME NEW c \in Calls, BaseInv, SetSessionServer(c) PROVE BaseInv'
<1>1. TypeOK'
  <2>1. /\ up' \subseteq Servers /\ live' \subseteq Servers /\ dropped' \subseteq SessionIds
        /\ hosted' \in [Servers -> SUBSET SessionIds] /\ drawn' \in [Servers -> SUBSET SessionIds]
        /\ fault' \in BOOLEAN /\ executed' \in [Calls -> Nat] /\ crashes' \in Nat /\ silences' \in Nat
        /\ restarts' \in Nat
    BY DEF BaseInv, TypeOK, CallsHold, CallHolds, SetSessionServer, Return, slaves, counts
  <2>2. pc' \in [Calls -> Places] /\ answer' \in [Calls -> {"none", "OK", "CANCELLED", "FAILED"}]
    BY DEF BaseInv, TypeOK, Places, SetSessionServer, Return, slaves, counts
  <2>3. retries' \in [Calls -> 0..RpcRetries] /\ op' \in [Calls -> {"Create", "Close", "Forward"}]
    BY MasterAssumption DEF BaseInv, TypeOK, CallsHold, CallHolds, SetSessionServer, Return, slaves, counts
  <2>4. /\ server' \in [Calls -> Servers \cup {None}] /\ session' \in [Calls -> SessionIds \cup {None}]
        /\ session_to_server_' \in [SessionIds -> Servers \cup {None}]
    BY DEF BaseInv, TypeOK, CallsHold, CallHolds, SetSessionServer, Return, slaves, counts
  <2>5. pending' \subseteq Requests /\ answered' \subseteq [session : SessionIds, server : Servers]
    BY MasterAssumption DEF BaseInv, TypeOK, CallsHold, CallHolds, Requests, SetSessionServer, Return,
       slaves, counts
  <2>6. server_id_' \in Nat
    BY MasterAssumption, FS_CardinalityType, FS_Subset DEF BaseInv, TypeOK, SetSessionServer, Return,
       slaves, counts
  <2> QED BY <2>1, <2>2, <2>3, <2>4, <2>5, <2>6 DEF TypeOK
<1>2. HostedIsDrawn'
  BY MasterAssumption DEF BaseInv, TypeOK, HostedIsDrawn, SetSessionServer, Return, slaves, counts
<1>3. GivenIsDrawn'
  BY MasterAssumption DEF BaseInv, TypeOK, GivenIsDrawn, CallsHold, CallHolds, SetSessionServer,
     Return, slaves, counts
<1>4. KnownIsGiven'
  BY MasterAssumption DEF BaseInv, TypeOK, KnownIsGiven, CallsHold, CallHolds, SetSessionServer,
     Return, slaves, counts
<1>5. CallsHold'
  BY MasterAssumption DEF BaseInv, TypeOK, HostedIsDrawn, GivenIsDrawn, KnownIsGiven, CallsHold, CallHolds,
     SetSessionServer, Return, slaves, counts
<1>6. LateHolds'
  <2>1. \A r \in pending : r.call \in Calls
    BY DEF BaseInv, TypeOK, Requests
  <2> QED BY <2>1 DEF BaseInv, TypeOK, CallsHold, CallHolds, LateHolds, Places, SetSessionServer,
     Return, slaves, counts
<1>7. OkHolds'
  BY MasterAssumption DEF BaseInv, TypeOK, CallsHold, CallHolds, OkHolds, SetSessionServer, Return,
     slaves, counts
<1> QED BY <1>1, <1>2, <1>3, <1>4, <1>5, <1>6, <1>7 DEF BaseInv

LEMMA ReclaimKeeps == ASSUME NEW c \in Calls, BaseInv, ReclaimServer(c) PROVE BaseInv'
<1>1. TypeOK'
  BY MasterAssumption DEF BaseInv, TypeOK, CallsHold, CallHolds, LateHolds, ReclaimServer, Return,
     slaves, counts, Places, Requests
<1>2. HostedIsDrawn'
  BY MasterAssumption DEF BaseInv, TypeOK, HostedIsDrawn, ReclaimServer, Return, slaves, counts
<1>3. GivenIsDrawn'
  BY MasterAssumption DEF BaseInv, TypeOK, GivenIsDrawn, CallsHold, CallHolds, ReclaimServer, Return,
     slaves, counts
<1>4. KnownIsGiven'
  BY MasterAssumption DEF BaseInv, TypeOK, KnownIsGiven, CallsHold, CallHolds, ReclaimServer, Return,
     slaves, counts
<1>5. CallsHold'
  BY MasterAssumption DEF BaseInv, TypeOK, HostedIsDrawn, GivenIsDrawn, KnownIsGiven, CallsHold, CallHolds,
     ReclaimServer, Return, slaves, counts
<1>6. LateHolds'
  BY MasterAssumption DEF BaseInv, TypeOK, CallsHold, CallHolds, LateHolds, ReclaimServer, Return,
     slaves, counts
<1>7. OkHolds'
  BY MasterAssumption DEF BaseInv, TypeOK, CallsHold, CallHolds, OkHolds, ReclaimServer, Return,
     slaves, counts
<1> QED BY <1>1, <1>2, <1>3, <1>4, <1>5, <1>6, <1>7 DEF BaseInv

LEMMA RestartKeeps == ASSUME BaseInv, Restart PROVE BaseInv'
<1>1. TypeOK'
  <2>1. /\ up' \subseteq Servers /\ live' \subseteq Servers /\ dropped' \subseteq SessionIds
        /\ hosted' \in [Servers -> SUBSET SessionIds] /\ drawn' \in [Servers -> SUBSET SessionIds]
        /\ fault' \in BOOLEAN /\ executed' \in [Calls -> Nat] /\ crashes' \in Nat /\ silences' \in Nat
    BY DEF BaseInv, TypeOK, Restart, slaves
  <2>7. restarts' \in Nat
    BY DEF BaseInv, TypeOK, Restart
  <2>2. pc' \in [Calls -> Places] /\ answer' \in [Calls -> {"none", "OK", "CANCELLED", "FAILED"}]
    BY DEF BaseInv, TypeOK, Places, Restart, slaves
  <2>3. retries' \in [Calls -> 0..RpcRetries] /\ op' \in [Calls -> {"Create", "Close", "Forward"}]
    BY MasterAssumption DEF BaseInv, TypeOK, CallsHold, CallHolds, Restart, slaves
  <2>4. /\ server' \in [Calls -> Servers \cup {None}] /\ session' \in [Calls -> SessionIds \cup {None}]
        /\ session_to_server_' \in [SessionIds -> Servers \cup {None}]
    BY DEF BaseInv, TypeOK, CallsHold, CallHolds, Restart, slaves
  <2>5. pending' \subseteq Requests /\ answered' \subseteq [session : SessionIds, server : Servers]
    BY MasterAssumption DEF BaseInv, TypeOK, CallsHold, CallHolds, Requests, Restart, slaves
  <2>6. server_id_' \in Nat
    BY MasterAssumption, FS_CardinalityType, FS_Subset DEF BaseInv, TypeOK, Restart, slaves
  <2> QED BY <2>1, <2>2, <2>3, <2>4, <2>5, <2>6, <2>7 DEF TypeOK
<1>2. HostedIsDrawn'
  BY MasterAssumption DEF BaseInv, TypeOK, HostedIsDrawn, Restart, slaves
<1>3. GivenIsDrawn'
  BY MasterAssumption DEF BaseInv, TypeOK, GivenIsDrawn, CallsHold, CallHolds, Restart, slaves
<1>4. KnownIsGiven'
  BY MasterAssumption DEF BaseInv, TypeOK, KnownIsGiven, CallsHold, CallHolds, Restart, slaves
<1>5. CallsHold'
  <2> SUFFICES ASSUME NEW d \in Calls PROVE CallHolds(d)'
    BY DEF CallsHold
  <2>1. pc'[d] = IF pc[d] = "idle" THEN "idle" ELSE "done"
    BY DEF Restart, slaves
  <2> QED BY <2>1 DEF BaseInv, TypeOK, CallsHold, CallHolds, Places, Restart, slaves
<1>6. LateHolds'
  <2>1. \A r \in pending : r.call \in Calls
    BY DEF BaseInv, TypeOK, Requests
  <2> QED BY <2>1 DEF BaseInv, TypeOK, CallsHold, CallHolds, LateHolds, Places, Restart, slaves
<1>7. OkHolds'
  BY MasterAssumption DEF BaseInv, TypeOK, CallsHold, CallHolds, OkHolds, Restart, slaves
<1> QED BY <1>1, <1>2, <1>3, <1>4, <1>5, <1>6, <1>7 DEF BaseInv

LEMMA BaseStep == ASSUME BaseInv, [Next]_vars PROVE BaseInv'
<1>1. CASE UNCHANGED vars
  BY <1>1 DEF BaseInv, TypeOK, HostedIsDrawn, GivenIsDrawn, KnownIsGiven, CallsHold, CallHolds, LateHolds,
     OkHolds, vars, slaves, master, calls, counts
<1>2. ASSUME NEW s \in Servers, Register(s) \/ Silence(s) \/ Crash(s) \/ Start(s) PROVE BaseInv'
  BY <1>2, RegisterKeeps, SilenceKeeps, CrashKeeps, StartKeeps
<1>3. ASSUME NEW r \in pending, ExecutesLate(r) PROVE BaseInv'
  BY <1>3, LateKeeps
<1>4. ASSUME NEW c \in Calls, CreateSession(c) PROVE BaseInv'
  BY <1>4, BeginKeeps DEF CreateSession
<1>5. ASSUME NEW c \in Calls, Serve(c) PROVE BaseInv'
  BY <1>5, AllocateKeeps, GetServerKeeps, RpcOkKeeps, DeadlineKeeps, RefusedKeeps, SetSessionServerKeeps,
     ReclaimKeeps DEF Serve
<1>6. ASSUME NEW c \in Calls, NEW id \in SessionIds, CloseSession(c, id) \/ Forward(c, id) PROVE BaseInv'
  BY <1>6, BeginKeeps DEF CloseSession, Forward
<1>7. CASE Restart
  BY <1>7, RestartKeeps
<1> QED BY <1>1, <1>2, <1>3, <1>4, <1>5, <1>6, <1>7 DEF Next

-------------------------------------------------------------------------------
(* Routing, when the servers draw different ids.                             *)

LEMMA DrawnOnceStep == ASSUME ~SameSeed, IInv, [Next]_vars PROVE DrawnOnce'
<1>1. CASE UNCHANGED drawn
  BY <1>1 DEF IInv, DrawnOnce
<1>2. ASSUME NEW c, NEW s, NEW id, Executes(c, s, id) PROVE DrawnOnce'
  BY <1>2 DEF IInv, BaseInv, TypeOK, DrawnOnce, Executes, Drawable
<1>3. UNCHANGED drawn \/ \E c, s, id : Executes(c, s, id)
  BY DEF Next, Serve, vars, slaves, Register, Silence, Crash, Start, ExecutesLate, CreateSession,
     CloseSession, Forward, Begin, AllocateServer, GetServer, RpcOk, RpcDeadline, RpcRefused,
     SetSessionServer, ReclaimServer, Restart
<1> QED BY <1>1, <1>2, <1>3

LEMMA RecordRoutes ==
  ASSUME NEW c \in Calls, IInv, BaseInv', SetSessionServer(c) PROVE RoutedToItsServer'
<1> SUFFICES ASSUME NEW a \in answered', a.session \in hosted[a.server], a.session \notin dropped
             PROVE session_to_server_'[a.session] = a.server
  BY DEF RoutedToItsServer, SetSessionServer, slaves
<1>1. a.session \in drawn[a.server] /\ a.server \in Servers /\ a.session \in SessionIds
  BY DEF BaseInv, TypeOK, GivenIsDrawn, SetSessionServer, slaves
<1>2. server[c] \in Servers /\ session[c] \in drawn[server[c]]
  BY DEF IInv, BaseInv, CallsHold, CallHolds, SetSessionServer
<1>3. session_to_server_' = [session_to_server_ EXCEPT ![session[c]] = server[c]]
  BY DEF SetSessionServer
<1>4. CASE a.session = session[c]
  <2>1. a.server = server[c]
    BY <1>1, <1>2, <1>4 DEF IInv, DrawnOnce
  <2> QED BY <1>1, <1>3, <1>4, <2>1 DEF IInv, BaseInv, TypeOK
<1>5. CASE a.session # session[c]
  <2>1. a \in answered
    BY <1>5 DEF SetSessionServer
  <2> QED BY <1>1, <1>3, <1>5, <2>1 DEF IInv, BaseInv, TypeOK, RoutedToItsServer
<1> QED BY <1>4, <1>5

\* A server gets a session only by drawing its id, which no client was given before.
LEMMA ExecutesRoutes ==
  ASSUME IInv, NEW c \in Calls, NEW s \in Servers, NEW id, Executes(c, s, id),
         UNCHANGED <<session_to_server_, answered, dropped>>
  PROVE RoutedToItsServer'
<1> SUFFICES ASSUME NEW a \in answered, a.session \in hosted'[a.server], a.session \notin dropped
             PROVE session_to_server_[a.session] = a.server
  BY DEF RoutedToItsServer
<1>1. a.session \in drawn[a.server] /\ a.server \in Servers
  BY DEF IInv, BaseInv, TypeOK, GivenIsDrawn
<1>2. a.session \in hosted[a.server]
  BY <1>1 DEF IInv, BaseInv, TypeOK, Executes, Drawable
<1> QED BY <1>2 DEF IInv, RoutedToItsServer

LEMMA RoutedStep == ASSUME ~SameSeed, IInv, [Next]_vars PROVE RoutedToItsServer'
<1> USE DEF IInv, RoutedToItsServer
<1>1. CASE UNCHANGED vars
  BY <1>1 DEF vars, slaves, master
<1>2. ASSUME NEW s \in Servers, Register(s) \/ Silence(s) \/ Crash(s) \/ Start(s) PROVE RoutedToItsServer'
  BY <1>2 DEF BaseInv, TypeOK, Register, Silence, Crash, Start, slaves, master
<1>3. ASSUME NEW r \in pending, ExecutesLate(r) PROVE RoutedToItsServer'
  <2>1. r.call \in Calls /\ r.server \in Servers
    BY DEF BaseInv, TypeOK, Requests
  <2> QED BY <1>3, <2>1, ExecutesRoutes DEF ExecutesLate, master
<1>4. ASSUME NEW c \in Calls, NEW o, NEW id, NEW at, Begin(c, o, id, at) PROVE RoutedToItsServer'
  BY <1>4 DEF Begin, slaves, master
<1>5. ASSUME NEW c \in Calls, AllocateServer(c) \/ RpcDeadline(c) \/ RpcRefused(c) PROVE RoutedToItsServer'
  BY <1>5 DEF AllocateServer, RpcDeadline, RpcRefused, slaves, master
<1>6. ASSUME NEW c \in Calls, GetServer(c) PROVE RoutedToItsServer'
  BY <1>6 DEF BaseInv, TypeOK, GetServer, slaves
<1>7. ASSUME NEW c \in Calls, RpcOk(c) PROVE RoutedToItsServer'
  <2>1. server[c] \in Servers
    BY <1>7 DEF BaseInv, CallsHold, CallHolds, RpcOk
  <2> QED BY <1>7, <2>1, ExecutesRoutes DEF RpcOk, master
<1>8. ASSUME NEW c \in Calls, SetSessionServer(c) PROVE RoutedToItsServer'
  BY <1>8, BaseStep, RecordRoutes
<1>9. ASSUME NEW c \in Calls, ReclaimServer(c) PROVE RoutedToItsServer'
  <2>1. server[c] \in Servers /\ session[c] \in drawn[server[c]] /\ session[c] \notin hosted[server[c]]
    BY <1>9 DEF BaseInv, CallsHold, CallHolds, ReclaimServer
  <2>2. \A a \in answered : a.session = session[c] => a.server = server[c]
    BY <2>1 DEF BaseInv, TypeOK, GivenIsDrawn, DrawnOnce
  <2> QED BY <1>9, <2>1, <2>2 DEF BaseInv, TypeOK, ReclaimServer, slaves
<1>10. CASE Restart
  BY <1>10 DEF BaseInv, TypeOK, Restart, slaves
<1> QED
  BY <1>1, <1>2, <1>3, <1>4, <1>5, <1>6, <1>7, <1>8, <1>9, <1>10
     DEF Next, Serve, CreateSession, CloseSession, Forward

-------------------------------------------------------------------------------
(* The tries.                                                                *)

\* A step that neither executes, sends nor counts.
LEMMA TriesStay ==
  ASSUME TriesCounted, UNCHANGED <<pending, executed, retries>> PROVE TriesCounted'
  BY DEF TriesCounted, InFlight

LEMMA TriesStep == ASSUME BaseInv, TriesCounted, [Next]_vars PROVE TriesCounted'
<1>1. \A c \in Calls : executed[c] \in Nat /\ retries[c] \in Nat /\ Cardinality(InFlight(c)) \in Nat
  BY FS_CardinalityType, MasterAssumption DEF BaseInv, TypeOK, TriesCounted
<1>2. ASSUME NEW r \in pending, ExecutesLate(r) PROVE TriesCounted'
  <2> SUFFICES ASSUME NEW c \in Calls
               PROVE IsFiniteSet(InFlight(c)') /\ executed'[c] + Cardinality(InFlight(c)') <= retries[c]
    BY <1>2 DEF TriesCounted, InFlight, ExecutesLate, calls
  <2>1. r.call \in Calls
    BY DEF BaseInv, TypeOK, Requests
  <2>2. executed' = [executed EXCEPT ![r.call] = executed[r.call] + 1]
    BY <1>2 DEF ExecutesLate, Executes
  <2>3. IsFiniteSet(InFlight(c)) /\ executed[c] + Cardinality(InFlight(c)) <= retries[c]
    BY DEF TriesCounted
  <2>4. CASE r.call = c
    <3>1. InFlight(c)' = InFlight(c) \ {r} /\ r \in InFlight(c)
      BY <1>2, <2>4 DEF InFlight, ExecutesLate
    <3>2. IsFiniteSet(InFlight(c)') /\ Cardinality(InFlight(c)') = Cardinality(InFlight(c)) - 1
      BY <2>3, <3>1, FS_RemoveElement
    <3>3. executed'[c] = executed[c] + 1
      BY <2>2, <2>4 DEF BaseInv, TypeOK
    <3> QED BY <1>1, <2>3, <3>2, <3>3
  <2>5. CASE r.call # c
    <3>1. InFlight(c)' = InFlight(c)
      BY <1>2, <2>5 DEF InFlight, ExecutesLate
    <3>2. executed'[c] = executed[c]
      BY <2>2, <2>5 DEF BaseInv, TypeOK
    <3> QED BY <2>3, <3>1, <3>2
  <2> QED BY <2>4, <2>5
<1>3. ASSUME NEW c \in Calls, RpcOk(c) PROVE TriesCounted'
  <2>1. /\ executed' = [executed EXCEPT ![c] = executed[c] + 1] /\ retries' = [retries EXCEPT ![c] = retries[c] + 1]
        /\ UNCHANGED pending
    BY <1>3 DEF RpcOk, Executes
  <2> SUFFICES ASSUME NEW d \in Calls PROVE executed'[d] + Cardinality(InFlight(d)) <= retries'[d]
    BY <2>1 DEF TriesCounted, InFlight
  <2>2. executed[d] + Cardinality(InFlight(d)) <= retries[d]
    BY DEF TriesCounted
  <2>3. CASE d = c
    <3>1. executed'[d] = executed[d] + 1 /\ retries'[d] = retries[d] + 1
      BY <2>1, <2>3 DEF BaseInv, TypeOK
    <3> QED BY <1>1, <2>2, <3>1
  <2>4. CASE d # c
    <3>1. executed'[d] = executed[d] /\ retries'[d] = retries[d]
      BY <2>1, <2>4 DEF BaseInv, TypeOK
    <3> QED BY <2>2, <3>1
  <2> QED BY <2>3, <2>4
<1>4. ASSUME NEW c \in Calls, RpcDeadline(c) PROVE TriesCounted'
  <2> DEFINE r == [call |-> c, retries |-> retries[c], server |-> server[c]]
  <2>1. /\ pending' = pending \cup {r} /\ retries' = [retries EXCEPT ![c] = retries[c] + 1]
        /\ UNCHANGED executed
    BY <1>4 DEF RpcDeadline, Retry
  <2> SUFFICES ASSUME NEW d \in Calls
               PROVE IsFiniteSet(InFlight(d)') /\ executed[d] + Cardinality(InFlight(d)') <= retries'[d]
    BY <2>1 DEF TriesCounted
  <2>2. IsFiniteSet(InFlight(d)) /\ executed[d] + Cardinality(InFlight(d)) <= retries[d]
    BY DEF TriesCounted
  <2>3. CASE d = c
    <3>1. InFlight(d)' = InFlight(d) \cup {r}
      BY <2>1, <2>3 DEF InFlight
    <3>2. IsFiniteSet(InFlight(d)') /\ Cardinality(InFlight(d)') <= Cardinality(InFlight(d)) + 1
      <4>1. /\ IsFiniteSet(InFlight(d)')
            /\ Cardinality(InFlight(d)') = IF r \in InFlight(d) THEN Cardinality(InFlight(d))
                                            ELSE Cardinality(InFlight(d)) + 1
        BY <2>2, <3>1, FS_AddElement
      <4> QED BY <4>1, <1>1
    <3>3. retries'[d] = retries[d] + 1
      BY <2>1, <2>3 DEF BaseInv, TypeOK
    <3>4. Cardinality(InFlight(d)') \in Nat
      BY <3>2, FS_CardinalityType
    <3> HIDE DEF r
    <3> QED BY <1>1, <2>2, <3>2, <3>3, <3>4
  <2>4. CASE d # c
    <3>1. InFlight(d)' = InFlight(d)
      BY <2>1, <2>4 DEF InFlight
    <3>2. retries'[d] = retries[d]
      BY <2>1, <2>4 DEF BaseInv, TypeOK
    <3> QED BY <2>2, <3>1, <3>2
  <2> QED BY <2>3, <2>4
<1>5. ASSUME NEW c \in Calls, RpcRefused(c) PROVE TriesCounted'
  <2>1. retries' = [retries EXCEPT ![c] = retries[c] + 1] /\ UNCHANGED <<pending, executed>>
    BY <1>5 DEF RpcRefused, Retry, slaves
  <2>2. \A d \in Calls : retries'[d] >= retries[d] /\ retries'[d] \in Nat
    BY <1>1, <2>1 DEF BaseInv, TypeOK
  <2>3. \A d \in Calls : InFlight(d)' = InFlight(d)
    BY <2>1 DEF InFlight
  <2> SUFFICES ASSUME NEW d \in Calls PROVE executed[d] + Cardinality(InFlight(d)) <= retries'[d]
    BY <2>1, <2>3 DEF TriesCounted
  <2>4. executed[d] + Cardinality(InFlight(d)) <= retries[d]
    BY DEF TriesCounted
  <2> QED BY <1>1, <2>2, <2>4
<1>6. ASSUME NEW c \in Calls, Serve(c) PROVE TriesCounted'
  BY <1>3, <1>4, <1>5, <1>6, TriesStay
     DEF Serve, AllocateServer, GetServer, SetSessionServer, ReclaimServer, slaves
<1>7. CASE UNCHANGED vars \/ Restart
  BY <1>7, TriesStay DEF vars, slaves, calls, Restart
<1>8. ASSUME NEW s \in Servers, Register(s) \/ Silence(s) \/ Crash(s) \/ Start(s) PROVE TriesCounted'
  BY <1>8, TriesStay DEF Register, Silence, Crash, Start, slaves, calls
<1>9. ASSUME NEW c \in Calls, NEW o, NEW id, NEW at, Begin(c, o, id, at) PROVE TriesCounted'
  BY <1>9, TriesStay DEF Begin, slaves
<1> QED BY <1>2, <1>6, <1>7, <1>8, <1>9 DEF Next, CreateSession, CloseSession, Forward

-------------------------------------------------------------------------------
(* The pool of servers.                                                      *)

LEMMA PoolStep == ASSUME BaseInv, PoolInv, [Next]_vars PROVE PoolInv'
<1> USE DEF PoolInv, PoolGrows, IndexInPool
<1>1. /\ IsFiniteSet(live) /\ Cardinality(live) \in Nat /\ server_id_ \in Nat /\ crashes \in Nat /\ silences \in Nat
      /\ live = {} <=> Cardinality(live) = 0
  BY MasterAssumption, FS_Subset, FS_CardinalityType, FS_EmptySet DEF BaseInv, TypeOK
<1>2. ASSUME NEW s \in Servers, Register(s) PROVE PoolInv'
  <2>1. Cardinality(live') \in Nat /\ Cardinality(live') >= Cardinality(live)
    BY <1>1, <1>2, FS_AddElement DEF Register
  <2> QED BY <1>1, <1>2, <2>1 DEF Register, slaves, counts
<1>3. ASSUME NEW s \in Servers, Silence(s) PROVE PoolInv'
  <2>1. CASE s \notin up
    BY <1>1, <1>3, <2>1 DEF Silence, slaves
  <2>2. CASE s \in up
    BY <1>1, <1>3, <2>2 DEF Silence, slaves
  <2> QED BY <2>1, <2>2
<1>4. ASSUME NEW s \in Servers, Crash(s) PROVE PoolInv'
  BY <1>1, <1>4 DEF Crash, master
<1>5. ASSUME NEW s \in Servers, Start(s) PROVE PoolInv'
  BY <1>1, <1>5 DEF Start, master, counts
<1>6. ASSUME NEW c \in Calls, AllocateServer(c) PROVE PoolInv'
  <2>1. UNCHANGED <<up, live, crashes, silences>> /\ ~fault
    BY <1>6 DEF AllocateServer, slaves, counts
  <2>2. CASE UNCHANGED <<server_id_, fault>>
    BY <2>1, <2>2
  <2>3. CASE /\ live # {} /\ server_id_ < Cardinality(live) /\ UNCHANGED fault
             /\ server_id_' = IF server_id_ + 1 >= Cardinality(live) THEN 0 ELSE server_id_ + 1
    BY <1>1, <2>1, <2>3
  <2>4. CASE live # {} /\ server_id_ >= Cardinality(live) /\ UNCHANGED server_id_
    BY <1>1, <2>1, <2>4
  <2> QED BY <1>6, <2>2, <2>3, <2>4 DEF AllocateServer
<1>7. ASSUME NEW c \in Calls, Serve(c) PROVE PoolInv'
  BY <1>6, <1>7 DEF Serve, GetServer, RpcOk, RpcDeadline, RpcRefused, SetSessionServer, ReclaimServer,
     slaves, master, counts
<1>8. CASE Restart
  BY <1>1, <1>8, FS_EmptySet DEF Restart, slaves
<1>9. CASE UNCHANGED vars
  BY <1>9 DEF vars, slaves, master, counts
<1>10. ASSUME NEW c \in Calls, NEW o, NEW id, NEW at, Begin(c, o, id, at) PROVE PoolInv'
  BY <1>10 DEF Begin, slaves, master, counts
<1>11. ASSUME NEW r \in pending, ExecutesLate(r) PROVE PoolInv'
  BY <1>11 DEF ExecutesLate, master, counts
<1> QED
  BY <1>2, <1>3, <1>4, <1>5, <1>7, <1>8, <1>9, <1>10, <1>11 DEF Next, CreateSession, CloseSession, Forward

-------------------------------------------------------------------------------

\* What holds of the calls and the sessions, whatever ids the servers draw.
THEOREM BaseInvariance == Spec => []BaseInv
<1>1. Init => BaseInv
  BY Initially DEF IInv
<1>2. BaseInv /\ [Next]_vars => BaseInv'
  BY BaseStep
<1> QED BY <1>1, <1>2, PTL DEF Spec

\* The inductive invariant, for any number of servers, sessions, calls, crashes,
\* silences and restarts, when no two servers draw the same id.
THEOREM Invariance == ASSUME ~SameSeed PROVE Spec => []IInv
<1>1. Init => IInv
  BY Initially
<1>2. IInv /\ [Next]_vars => IInv'
  BY BaseStep, DrawnOnceStep, RoutedStep DEF IInv
<1> QED BY <1>1, <1>2, PTL DEF Spec

\* The state keeps its type, and no call is tried more than rpc_retries times.
THEOREM TypeCorrect == Spec => []TypeOK
<1>1. BaseInv => TypeOK
  BY DEF BaseInv
<1> QED BY <1>1, BaseInvariance, PTL

\* The calls for a session go to the server that has it (GetServer,
\* SetSessionServer, ReclaimServer), whatever crashes, is late or restarts.
THEOREM Routed == ASSUME ~SameSeed PROVE Spec => []RoutedToItsServer
<1>1. IInv => RoutedToItsServer
  BY DEF IInv
<1> QED BY <1>1, Invariance, PTL

\* A client that is told OK for a call for its session was served.
THEOREM OkExecuted == Spec => []OkIsExecuted
<1>1. BaseInv => OkIsExecuted
  BY DEF BaseInv, OkHolds, OkIsExecuted
<1> QED BY <1>1, BaseInvariance, PTL

\* No call is executed more than rpc_retries times, however many of its requests
\* are late, and whether they reach a server before or after the call has ended:
\* executed and late requests together never outnumber the tries.
THEOREM AtMostRetries == Spec => []ExecutedAtMostRetries
<1>1. Init => TriesCounted
  <2> SUFFICES ASSUME Init PROVE TriesCounted
    OBVIOUS
  <2>1. \A c \in Calls : InFlight(c) = {} /\ executed[c] = 0 /\ retries[c] = 0
    BY DEF Init, InFlight
  <2> QED BY <2>1, FS_EmptySet DEF TriesCounted
<1>2. BaseInv /\ TriesCounted /\ [Next]_vars => TriesCounted'
  BY TriesStep
<1>3. BaseInv /\ TriesCounted => ExecutedAtMostRetries
  <2> SUFFICES ASSUME BaseInv, TriesCounted, NEW c \in Calls PROVE executed[c] <= RpcRetries
    BY DEF ExecutedAtMostRetries
  <2>1. executed[c] \in Nat /\ retries[c] \in 0..RpcRetries /\ Cardinality(InFlight(c)) \in Nat
    BY FS_CardinalityType DEF BaseInv, TypeOK, TriesCounted
  <2>2. executed[c] + Cardinality(InFlight(c)) <= retries[c]
    BY DEF TriesCounted
  <2> QED BY <2>1, <2>2, MasterAssumption
<1> QED BY <1>1, <1>2, <1>3, BaseInvariance, PTL DEF Spec

\* The round robin index of AllocateServer leaves the vector of live servers only
\* after a crash or a silence, or if server_id_, which nothing initializes, starts
\* with another value than 0.
THEOREM IndexStaysInPool == Spec => []IndexInPool
<1>1. Init => PoolInv
  BY FS_EmptySet DEF Init, PoolInv, PoolGrows, IndexInPool
<1>2. BaseInv /\ PoolInv /\ [Next]_vars => PoolInv'
  BY PoolStep
<1>3. PoolInv => IndexInPool
  BY DEF PoolInv
<1> QED BY <1>1, <1>2, <1>3, BaseInvariance, PTL DEF Spec

=================================================================================
