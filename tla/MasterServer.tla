------------------------------ MODULE MasterServer ------------------------------
(***************************************************************************)
(* The master server (orbit/master_server): the registry the stream        *)
(* servers send heartbeats to, the manager that knows which server has     *)
(* which session, and the service that forwards the clients' calls, with   *)
(* a deadline and retries, to the server of their session.                 *)
(*                                                                         *)
(* A stream server is what the master sees of it: it is up or not, and it  *)
(* hosts sessions under ids it draws itself with rand() after              *)
(* srand(time(NULL)).  A call whose deadline passes may still be in flight *)
(* and reach the server later, or never.  CreateStream, CloseStream,       *)
(* SendSessionMessage and RecvSessionMessage are forwarded in the same way *)
(* and are the one operation "Forward" here.                               *)
(***************************************************************************)
EXTENDS Naturals, FiniteSets

CONSTANTS
  Servers, SessionIds,
  Calls,              \* calls of clients; each is made once
  None,               \* no server, no session: an empty ServerInfo
  RpcRetries,         \* rpc_retries
  Strategies,         \* values of the flag scheduling_strategy; with more than one
                      \* every allocation may follow any of them
  InitialServerId,    \* values server_id_, which no constructor sets, may start with
  SameSeed,           \* servers started in the same second draw the same ids
  MaxFaults           \* crashes of stream servers, times a server that is up is silent
                      \* for 10 seconds, and restarts of the master (bound)

ASSUME MasterAssumption ==
  /\ None \notin Servers /\ None \notin SessionIds
  /\ IsFiniteSet(Servers)
  /\ RpcRetries \in Nat \ {0} /\ InitialServerId \subseteq Nat
  /\ Strategies \subseteq {"ROUND_ROBIN", "LEAST_LOAD"} /\ SameSeed \in BOOLEAN
  /\ MaxFaults \in Nat

VARIABLES
  \* stream servers
  up,                   \* the processes that run
  hosted,               \* sessions of each
  drawn,                \* ids each has drawn
  pending,              \* requests in flight whose deadline has passed: [call, retries, server]
  \* master
  live,                 \* stats_: servers with a heartbeat in the last 10 seconds
  server_id_,
  session_to_server_,
  fault,                \* live_servers[server_id_] was read outside the vector
  \* calls
  pc, op, retries, server, session, answer,
  \* history
  answered,             \* sessions clients were given: [session, server]
  dropped,              \* sessions the master forgot: their server was silent, or the master restarted
  executed,             \* how often a server executed a call
  crashes, silences, restarts

slaves == <<up, hosted, drawn, pending>>
master == <<live, server_id_, session_to_server_, fault>>
calls  == <<pc, op, retries, server, session, answer>>
counts == <<crashes, silences, restarts>>
MayFault == crashes + silences + restarts < MaxFaults
vars   == <<slaves, master, calls, answered, dropped, executed, counts>>

-------------------------------------------------------------------------------
(* Stream servers.                                                           *)

\* RegisterSlaveClient and Register: the heartbeat of every second.
Register(s) ==
  /\ s \in up /\ live' = live \cup {s}
  /\ UNCHANGED <<slaves, server_id_, session_to_server_, fault, calls, answered, dropped, executed, counts>>

\* No heartbeat for 10 seconds: the server is down, or its calls do not get here.
Silence(s) ==
  /\ s \in live /\ live' = live \ {s}
  /\ \/ s \notin up /\ UNCHANGED silences
     \/ s \in up /\ MayFault /\ silences' = silences + 1
  /\ UNCHANGED <<slaves, server_id_, session_to_server_, fault, calls, answered, dropped, executed, crashes, restarts>>

Crash(s) ==
  /\ s \in up /\ MayFault /\ crashes' = crashes + 1
  /\ up' = up \ {s} /\ hosted' = [hosted EXCEPT ![s] = {}]
  /\ UNCHANGED <<drawn, pending, master, calls, answered, dropped, executed, silences, restarts>>

Start(s) ==
  /\ s \notin up /\ up' = up \cup {s}
  /\ UNCHANGED <<hosted, drawn, pending, master, calls, answered, dropped, executed, counts>>

\* The ids CreateSession of a server may draw: none it knows.  Closed sessions are
\* known for 60 seconds more.  Processes with different seeds draw different ids.
Drawable(s) == SessionIds \ (IF SameSeed THEN drawn[s] ELSE UNION {drawn[t] : t \in Servers})

\* The server s executes the request of call c; id is the session it answers with.
Executes(c, s, id) ==
  /\ s \in up
  /\ executed' = [executed EXCEPT ![c] = @ + 1]
  /\ \/ /\ op[c] = "Create" /\ id \in Drawable(s)
        /\ drawn' = [drawn EXCEPT ![s] = @ \cup {id}]
        /\ hosted' = [hosted EXCEPT ![s] = @ \cup {id}]
     \/ /\ op[c] = "Close" /\ id = session[c]
        /\ hosted' = [hosted EXCEPT ![s] = @ \ {id}]
        /\ UNCHANGED drawn
     \/ /\ op[c] = "Forward" /\ id = session[c]
        /\ UNCHANGED <<hosted, drawn>>

\* A request arrives after its deadline.  Nobody waits for the answer.
ExecutesLate(r) ==
  /\ r \in pending /\ pending' = pending \ {r}
  /\ \E id \in SessionIds : Executes(r.call, r.server, id)
  /\ UNCHANGED <<up, master, calls, answered, dropped, counts>>

-------------------------------------------------------------------------------
(* The calls.                                                                *)

Begin(c, o, id, at) ==
  /\ ~fault /\ pc[c] = "idle"
  /\ pc' = [pc EXCEPT ![c] = at] /\ op' = [op EXCEPT ![c] = o]
  /\ session' = [session EXCEPT ![c] = id]
  /\ UNCHANGED <<slaves, master, retries, server, answer, answered, dropped, executed, counts>>

CreateSession(c) == Begin(c, "Create", None, "allocate")

\* A client closes a session it was given, or makes another call for it.
CloseSession(c, id) == (\E a \in answered : a.session = id) /\ Begin(c, "Close", id, "lookup")
Forward(c, id) == (\E a \in answered : a.session = id) /\ Begin(c, "Forward", id, "lookup")

Return(c, status) ==
  /\ pc' = [pc EXCEPT ![c] = "done"]
  /\ answer' = [answer EXCEPT ![c] = status]

\* Mutant: the index goes one too far.
AllocateServerPast(c) ==
  /\ ~fault /\ pc[c] = "allocate"
  /\ \/ /\ live = {} /\ Return(c, "CANCELLED")
        /\ UNCHANGED <<server_id_, fault, server>>
     \/ /\ "ROUND_ROBIN" \in Strategies /\ live # {} /\ server_id_ < Cardinality(live)
        /\ \E s \in live : server' = [server EXCEPT ![c] = s]
        /\ server_id_' = IF server_id_ + 1 > Cardinality(live) THEN 0 ELSE server_id_ + 1
        /\ pc' = [pc EXCEPT ![c] = "rpc"]
        /\ UNCHANGED <<fault, answer>>
     \/ /\ "ROUND_ROBIN" \in Strategies /\ live # {} /\ server_id_ >= Cardinality(live)
        /\ fault' = TRUE
        /\ UNCHANGED <<server_id_, pc, server, answer>>
     \/ /\ "LEAST_LOAD" \in Strategies /\ \E s \in live : server' = [server EXCEPT ![c] = s]
        /\ pc' = [pc EXCEPT ![c] = "rpc"]
        /\ UNCHANGED <<server_id_, fault, answer>>
  /\ UNCHANGED <<slaves, live, session_to_server_, op, retries, session, answered, dropped, executed, counts>>

\* AllocateServer.  The order of the live servers is that of an unordered_map.
AllocateServer(c) ==
  /\ ~fault /\ pc[c] = "allocate"
  /\ \/ /\ live = {} /\ Return(c, "CANCELLED")
        /\ UNCHANGED <<server_id_, fault, server>>
     \/ /\ "ROUND_ROBIN" \in Strategies /\ live # {} /\ server_id_ < Cardinality(live)
        /\ \E s \in live : server' = [server EXCEPT ![c] = s]
        /\ server_id_' = IF server_id_ + 1 >= Cardinality(live) THEN 0 ELSE server_id_ + 1
        /\ pc' = [pc EXCEPT ![c] = "rpc"]
        /\ UNCHANGED <<fault, answer>>
     \/ /\ "ROUND_ROBIN" \in Strategies /\ live # {} /\ server_id_ >= Cardinality(live)
        /\ fault' = TRUE
        /\ UNCHANGED <<server_id_, pc, server, answer>>
     \/ /\ "LEAST_LOAD" \in Strategies /\ \E s \in live : server' = [server EXCEPT ![c] = s]
        /\ pc' = [pc EXCEPT ![c] = "rpc"]
        /\ UNCHANGED <<server_id_, fault, answer>>
  /\ UNCHANGED <<slaves, live, session_to_server_, op, retries, session, answered, dropped, executed, counts>>

\* GetServer: the mapping of a session whose server is not live is erased.
GetServer(c) ==
  LET s == session_to_server_[session[c]]
  IN  /\ ~fault /\ pc[c] = "lookup"
      /\ \/ /\ s = None /\ Return(c, "CANCELLED")
            /\ UNCHANGED <<session_to_server_, dropped, server>>
         \/ /\ s \in live
            /\ server' = [server EXCEPT ![c] = s] /\ pc' = [pc EXCEPT ![c] = "rpc"]
            /\ UNCHANGED <<session_to_server_, dropped, answer>>
         \/ /\ s # None /\ s \notin live /\ Return(c, "CANCELLED")
            /\ session_to_server_' = [session_to_server_ EXCEPT ![session[c]] = None]
            /\ dropped' = dropped \cup {session[c]}
            /\ UNCHANGED server
      /\ UNCHANGED <<slaves, live, server_id_, fault, op, retries, session, answered, executed, counts>>

\* Mutant: an answer in time is not what ends the loop.
RpcOkAgain(c) ==
  /\ ~fault /\ pc[c] = "rpc"
  /\ \E id \in SessionIds :
       /\ Executes(c, server[c], id)
       /\ session' = [session EXCEPT ![c] = id]
  /\ \/ op[c] = "Create" /\ pc' = [pc EXCEPT ![c] = "record"]
     \/ op[c] = "Close" /\ pc' = [pc EXCEPT ![c] = "reclaim"]
     \/ op[c] = "Forward" /\ UNCHANGED pc
  /\ UNCHANGED <<up, pending, master, op, retries, server, answer, answered, dropped, counts>>

\* The answer comes in time: CreateSession has a session to record, CloseSession
\* one to forget.
RpcOk(c) ==
  /\ ~fault /\ pc[c] = "rpc"
  /\ \E id \in SessionIds :
       /\ Executes(c, server[c], id)
       /\ session' = [session EXCEPT ![c] = id]
  /\ retries' = [retries EXCEPT ![c] = @ + 1]
  /\ \/ op[c] = "Create" /\ pc' = [pc EXCEPT ![c] = "record"] /\ UNCHANGED answer
     \/ op[c] = "Close" /\ pc' = [pc EXCEPT ![c] = "reclaim"] /\ UNCHANGED answer
     \/ op[c] = "Forward" /\ Return(c, "OK")
  /\ UNCHANGED <<up, pending, master, op, server, answered, dropped, counts>>

\* Mutant: the status of the calls for a session is shadowed as well.
RetryShadowed(c) ==
  /\ retries' = [retries EXCEPT ![c] = @ + 1]
  /\ IF retries[c] + 1 < RpcRetries
     THEN pc' = [pc EXCEPT ![c] = IF op[c] = "Create" THEN "allocate" ELSE "rpc"] /\ UNCHANGED answer
     ELSE Return(c, "OK")

\* Mutant: CloseSession forgets the session when its tries have failed, too.
RetryReclaims(c) ==
  /\ retries' = [retries EXCEPT ![c] = @ + 1]
  /\ IF retries[c] + 1 < RpcRetries
     THEN pc' = [pc EXCEPT ![c] = IF op[c] = "Create" THEN "allocate" ELSE "rpc"] /\ UNCHANGED answer
     ELSE IF op[c] = "Close" THEN pc' = [pc EXCEPT ![c] = "reclaim"] /\ UNCHANGED answer
     ELSE Return(c, IF op[c] = "Create" THEN "OK" ELSE "FAILED")

\* Mutant: a try that fails is not counted.
RetryForever(c) ==
  /\ pc' = [pc EXCEPT ![c] = IF op[c] = "Create" THEN "allocate" ELSE "rpc"]
  /\ UNCHANGED <<retries, answer>>

\* The while loop after a try that failed.  CreateSession allocates again, and at
\* the end returns a status that is not the one of its tries (it is declared
\* twice) and is OK.
Retry(c) ==
  /\ retries' = [retries EXCEPT ![c] = @ + 1]
  /\ IF retries[c] + 1 < RpcRetries
     THEN pc' = [pc EXCEPT ![c] = IF op[c] = "Create" THEN "allocate" ELSE "rpc"] /\ UNCHANGED answer
     ELSE Return(c, IF op[c] = "Create" THEN "OK" ELSE "FAILED")

RpcDeadline(c) ==
  /\ ~fault /\ pc[c] = "rpc" /\ Retry(c)
  /\ pending' = pending \cup {[call |-> c, retries |-> retries[c], server |-> server[c]]}
  /\ UNCHANGED <<up, hosted, drawn, master, op, server, session, answered, dropped, executed, counts>>

RpcRefused(c) ==
  /\ ~fault /\ pc[c] = "rpc" /\ server[c] \notin up /\ Retry(c)
  /\ UNCHANGED <<slaves, master, op, server, session, answered, dropped, executed, counts>>

\* SetSessionServer, and the answer of CreateSession.
SetSessionServer(c) ==
  /\ ~fault /\ pc[c] = "record" /\ Return(c, "OK")
  /\ session_to_server_' = [session_to_server_ EXCEPT ![session[c]] = server[c]]
  /\ answered' = answered \cup {[session |-> session[c], server |-> server[c]]}
  /\ UNCHANGED <<slaves, live, server_id_, fault, op, retries, server, session, dropped, executed, counts>>

ReclaimServer(c) ==
  /\ ~fault /\ pc[c] = "reclaim" /\ Return(c, "OK")
  /\ session_to_server_' = [session_to_server_ EXCEPT ![session[c]] = None]
  /\ UNCHANGED <<slaves, live, server_id_, fault, op, retries, server, session, answered, dropped, executed, counts>>

\* The master is started again: it has kept nothing, and its calls have failed.
Restart ==
  /\ MayFault /\ restarts' = restarts + 1
  /\ live' = {} /\ server_id_' \in InitialServerId /\ fault' = FALSE
  /\ session_to_server_' = [id \in SessionIds |-> None]
  /\ pc' = [c \in Calls |-> IF pc[c] = "idle" THEN "idle" ELSE "done"]
  /\ answer' = [c \in Calls |-> IF pc[c] \in {"idle", "done"} THEN answer[c] ELSE "FAILED"]
  /\ dropped' = SessionIds
  /\ UNCHANGED <<slaves, op, retries, server, session, answered, executed, crashes, silences>>

-------------------------------------------------------------------------------

Init ==
  /\ up = Servers /\ hosted = [s \in Servers |-> {}] /\ drawn = [s \in Servers |-> {}] /\ pending = {}
  /\ live = {} /\ server_id_ \in InitialServerId /\ fault = FALSE
  /\ session_to_server_ = [id \in SessionIds |-> None]
  /\ pc = [c \in Calls |-> "idle"] /\ op = [c \in Calls |-> "Create"] /\ retries = [c \in Calls |-> 0]
  /\ server = [c \in Calls |-> None] /\ session = [c \in Calls |-> None] /\ answer = [c \in Calls |-> "none"]
  /\ answered = {} /\ dropped = {} /\ executed = [c \in Calls |-> 0]
  /\ crashes = 0 /\ silences = 0 /\ restarts = 0

\* What the master does for a call.
Serve(c) ==
  AllocateServer(c) \/ GetServer(c) \/ RpcOk(c) \/ RpcDeadline(c) \/ RpcRefused(c)
    \/ SetSessionServer(c) \/ ReclaimServer(c)

Next ==
  \/ \E s \in Servers : Register(s) \/ Silence(s) \/ Crash(s) \/ Start(s)
  \/ \E r \in pending : ExecutesLate(r)
  \/ \E c \in Calls : CreateSession(c) \/ Serve(c) \/ \E id \in SessionIds : CloseSession(c, id) \/ Forward(c, id)
  \/ Restart

Spec == Init /\ [][Next]_vars

\* The threads of the master run: a call that is served goes on.
FairSpec == Spec /\ \A c \in Calls : WF_vars(Serve(c))

-------------------------------------------------------------------------------

Requests == [call : Calls, retries : 0..(RpcRetries - 1), server : Servers]
Places   == {"idle", "allocate", "lookup", "rpc", "record", "reclaim", "done"}

\* The state of the servers, the master and the calls; a call is tried at most
\* RpcRetries times.
TypeOK ==
  /\ up \subseteq Servers /\ live \subseteq Servers /\ pending \subseteq Requests
  /\ hosted \in [Servers -> SUBSET SessionIds] /\ drawn \in [Servers -> SUBSET SessionIds]
  /\ server_id_ \in Nat /\ fault \in BOOLEAN
  /\ session_to_server_ \in [SessionIds -> Servers \cup {None}]
  /\ pc \in [Calls -> Places] /\ op \in [Calls -> {"Create", "Close", "Forward"}]
  /\ retries \in [Calls -> 0..RpcRetries]
  /\ server \in [Calls -> Servers \cup {None}] /\ session \in [Calls -> SessionIds \cup {None}]
  /\ answer \in [Calls -> {"none", "OK", "CANCELLED", "FAILED"}]
  /\ answered \subseteq [session : SessionIds, server : Servers] /\ dropped \subseteq SessionIds
  /\ executed \in [Calls -> Nat] /\ crashes \in Nat /\ silences \in Nat /\ restarts \in Nat

\* "all the events should be redirected to the corresponding server"
\* (orbit_master_server_manager.h:26): as long as a server has a session it gave
\* to a client, the master sends the calls for it to this server, unless the
\* master has had to forget it.
RoutedToItsServer ==
  \A a \in answered :
    a.session \in hosted[a.server] /\ a.session \notin dropped => session_to_server_[a.session] = a.server

\* However many tries are late, executed after their deadline or after the call
\* has ended, no call is executed more often than it was tried.
ExecutedAtMostRetries == \A c \in Calls : executed[c] <= RpcRetries

\* A client that is told OK for a call for its session can rely on it: a server
\* has executed the call.
OkIsExecuted == \A c \in Calls : op[c] # "Create" /\ answer[c] = "OK" => executed[c] > 0

\* "For each session, the OrbitMasterServerManager records the server"
\* (orbit_master_server_manager.h:25): CreateSession that answers OK has made a session.
CreatedIsRecorded ==
  \A c \in Calls : op[c] = "Create" /\ answer[c] = "OK" => \E a \in answered : a.session = session[c]

\* "Use the algorithm to allocate an server in the server pools."
\* (orbit_master_server_manager.cc:50): the round robin index leaves the pool only
\* when a server has left it, or if the field, which no constructor sets, started
\* outside.
IndexInPool == fault => crashes + silences > 0 \/ server_id_ \in InitialServerId \ {0}

\* A call ends, whatever the servers do: every try has a deadline and the tries
\* are counted.
CallEnds == \A c \in Calls : pc[c] # "idle" ~> pc[c] = "done" \/ fault

================================================================================
