--------------------------- MODULE SessionLifecycle ---------------------------
(***************************************************************************)
(* What the stream service promises about one SessionData object, whatever *)
(* the threads of orbit_stream_service_impl.cc do: its pipeline is used    *)
(* only while the session is active, the session is closed once and only   *)
(* when no call is inside the pipeline, it is destroyed once after that,   *)
(* and its memory is reclaimed only when it is destroyed.                  *)
(***************************************************************************)

CONSTANTS
  Items,  \* SessionData objects
  Calls   \* threads that may use a pipeline

VARIABLES
  life,   \* life[i]: the stage object i is in
  users   \* users[i]: the calls inside the pipeline of object i

vars == <<life, users>>

Stages == {"unborn", "active", "closing", "destroyed", "reclaimed"}

TypeOK ==
  /\ life \in [Items -> Stages]
  /\ users \in [Items -> SUBSET Calls]

Init ==
  /\ life = [i \in Items |-> "unborn"]
  /\ users = [i \in Items |-> {}]

Open(i) ==
  /\ life[i] = "unborn"
  /\ life' = [life EXCEPT ![i] = "active"]
  /\ UNCHANGED users

Enter(i, c) ==
  /\ life[i] = "active"
  /\ users[i] = {}
  /\ users' = [users EXCEPT ![i] = {c}]
  /\ UNCHANGED life

Leave(i, c) ==
  /\ users[i] = {c}
  /\ users' = [users EXCEPT ![i] = {}]
  /\ UNCHANGED life

Close(i) ==
  /\ life[i] = "active"
  /\ users[i] = {}
  /\ life' = [life EXCEPT ![i] = "closing"]
  /\ UNCHANGED users

Destroy(i) ==
  /\ life[i] = "closing"
  /\ life' = [life EXCEPT ![i] = "destroyed"]
  /\ UNCHANGED users

\* One pass of the watchdog may reclaim several objects at once.
Reclaim ==
  \E S \in SUBSET {i \in Items : life[i] = "destroyed"} :
    /\ life' = [i \in Items |-> IF i \in S THEN "reclaimed" ELSE life[i]]
    /\ UNCHANGED users

Next ==
  \/ \E i \in Items : Open(i) \/ Close(i) \/ Destroy(i)
  \/ \E i \in Items, c \in Calls : Enter(i, c) \/ Leave(i, c)
  \/ Reclaim

Spec == Init /\ [][Next]_vars

===============================================================================
