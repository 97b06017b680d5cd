------------------------------ MODULE SessionInfo ------------------------------
(***************************************************************************)
(* SessionInfoManager and SessionInfo of orbit/base/session_info.cc: the   *)
(* vector of shared pointers behind the statusz page, its sort and its     *)
(* eviction.  A caller first gets a pointer (GetSessionInfoById) and then  *)
(* calls AddStream or RemoveStream on it without the manager's mutex, so   *)
(* the entry may have left the vector in between.                          *)
(***************************************************************************)
EXTENDS Naturals, Sequences, FiniteSets, SequencesExt

CONSTANTS
  Ids,      \* session ids
  Streams,  \* stream ids
  NULL,
  MaxSave,  \* MAX_SAVE_SESSION_COUNT
  Infos,    \* SessionInfo objects that may be made (bound)
  Callers,  \* threads that use the manager
  MaxTime   \* seconds of time() that pass (bound)

ASSUME SessionInfoAssumption ==
  /\ NULL \notin Ids \cup Infos
  /\ MaxSave \in Nat \ {0}
  /\ MaxTime \in Nat

VARIABLES
  session_vector,         \* the objects, in the order statusz shows them
  session_id, status,     \* fields of each object; status none: not made yet
  create_time, destroyed_time,
  stream_map,             \* none, live or leave per stream
  current_session_count, total_session_count,
  held,                   \* the SessionInfoPtr each caller has, or NULL
  now                     \* time(NULL)

objVars == <<session_id, status, create_time, destroyed_time>>
vars == <<session_vector, session_id, status, create_time, destroyed_time, stream_map,
          current_session_count, total_session_count, held, now>>

-------------------------------------------------------------------------------

\* _GetSessionInfoById: the first entry with that id.
GetSessionInfoById(s) ==
  LET matches == {k \in DOMAIN session_vector : session_id[session_vector[k]] = s}
  IN  IF matches = {} THEN NULL ELSE session_vector[Min(matches)]

\* Mutant: the times are not compared.
comparatorStatusOnly(a, b) == status[a] = "live" /\ status[b] = "destroyed"

\* comparator: a is shown before b.
comparator(a, b) ==
  IF status[a] # status[b]
  THEN status[a] = "live"
  ELSE IF status[a] = "destroyed" THEN destroyed_time[a] > destroyed_time[b]
                                  ELSE create_time[a] > create_time[b]

\* What std::sort may leave behind; entries that compare equal are in any order.
Sorted(seq) == \A m, n \in DOMAIN seq : m < n => ~comparator(seq[n], seq[m])

\* Mutant: entries leave at the front.
MakeRoomFront(seq) == IF Len(seq) < MaxSave THEN seq ELSE SubSeq(seq, Len(seq) - MaxSave + 2, Len(seq))

\* pop_back while the vector is full, whatever the status of the entry.
MakeRoom(seq) == IF Len(seq) < MaxSave THEN seq ELSE SubSeq(seq, 1, MaxSave - 1)

\* The entry and the counters of a session that is added.
NewSession(s) ==
  LET free == {o \in Infos : status[o] = "none"}
      o == CHOOSE o \in free : TRUE  \* which address new returns does not matter
  IN  /\ free # {}
      /\ session_vector' = <<o>> \o MakeRoom(session_vector)
      /\ session_id' = [session_id EXCEPT ![o] = s]
      /\ status' = [status EXCEPT ![o] = "live"]
      /\ create_time' = [create_time EXCEPT ![o] = now]
      /\ current_session_count' = current_session_count + 1
      /\ total_session_count' = total_session_count + 1
      /\ UNCHANGED <<destroyed_time, stream_map, held, now>>

\* Mutant: no look at what is there.
AddSessionAgain(s) == NewSession(s)

\* AddSession ignores an id it knows, even one that was destroyed.
AddSession(s) == GetSessionInfoById(s) = NULL /\ NewSession(s)

\* Mutant: every RemoveSession counts.
CountDownAlways(o) == current_session_count' = current_session_count - 1

CountDown(o) ==
  current_session_count' = IF status[o] = "live" THEN current_session_count - 1
                                                 ELSE current_session_count

\* RemoveSession counts and stamps the first removal, and sorts in any case.
RemoveSession(s) ==
  LET o == GetSessionInfoById(s)
  IN  /\ o # NULL
      /\ CountDown(o)
      /\ status' = [status EXCEPT ![o] = "destroyed"]
      /\ destroyed_time' = [destroyed_time EXCEPT ![o] = IF status[o] = "live" THEN now ELSE @]
      /\ UNCHANGED <<session_id, create_time, stream_map, total_session_count, held, now>>
      /\ \E q \in SetToSeqs(Range(session_vector)) : Sorted(q)' /\ session_vector' = q

\* A caller gets the pointer; it is given up after one use.
GetPointer(c, s) ==
  /\ held[c] = NULL
  /\ held' = [held EXCEPT ![c] = GetSessionInfoById(s)]
  /\ UNCHANGED <<session_vector, objVars, stream_map, current_session_count,
                 total_session_count, now>>

UseStream(c, st, value) ==
  /\ stream_map' = [stream_map EXCEPT ![held[c]][st] = value]
  /\ held' = [held EXCEPT ![c] = NULL]
  /\ UNCHANGED <<session_vector, objVars, current_session_count, total_session_count, now>>

AddStream(c, st) ==
  /\ held[c] # NULL
  /\ UseStream(c, st, IF stream_map[held[c]][st] = "none" THEN "live" ELSE stream_map[held[c]][st])

RemoveStream(c, st) ==
  /\ held[c] # NULL
  /\ UseStream(c, st, IF stream_map[held[c]][st] = "none" THEN "none" ELSE "leave")

Tick ==
  /\ now < MaxTime
  /\ now' = now + 1
  /\ UNCHANGED <<session_vector, objVars, stream_map, current_session_count,
                 total_session_count, held>>

-------------------------------------------------------------------------------

Init ==
  /\ session_vector = <<>>
  /\ session_id = [o \in Infos |-> NULL]
  /\ status = [o \in Infos |-> "none"]
  /\ create_time = [o \in Infos |-> 0]
  /\ destroyed_time = [o \in Infos |-> 0]
  /\ stream_map = [o \in Infos |-> [st \in Streams |-> "none"]]
  /\ current_session_count = 0 /\ total_session_count = 0
  /\ held = [c \in Callers |-> NULL]
  /\ now = 0

Next ==
  \/ \E s \in Ids : AddSession(s) \/ RemoveSession(s)
  \/ \E c \in Callers, s \in Ids : GetPointer(c, s)
  \/ \E c \in Callers, st \in Streams : AddStream(c, st) \/ RemoveStream(c, st)
  \/ Tick

Spec == Init /\ [][Next]_vars

-------------------------------------------------------------------------------
(* Properties.                                                               *)

\* The values of the fields; the counters never go below zero.
TypeOK ==
  /\ session_vector \in BoundedSeq(Infos, MaxSave)
  /\ session_id \in [Infos -> Ids \cup {NULL}]
  /\ status \in [Infos -> {"none", "live", "destroyed"}]
  /\ create_time \in [Infos -> 0..MaxTime]
  /\ destroyed_time \in [Infos -> 0..MaxTime]
  /\ stream_map \in [Infos -> [Streams -> {"none", "live", "leave"}]]
  /\ current_session_count \in Nat /\ total_session_count \in Nat
  /\ held \in [Callers -> Infos \cup {NULL}]
  /\ now \in 0..MaxTime

\* The order the comment on comparator gives (session_info.cc:53-58) holds at
\* all times, although AddSession does not sort: live sessions first, the
\* newest before the older, then the destroyed ones, the last destroyed first.
ShownInOrder ==
  \A m, n \in DOMAIN session_vector : m < n =>
    LET a == session_vector[m]
        b == session_vector[n]
    IN  \/ status[a] = "live" /\ status[b] = "destroyed"
        \/ status[a] = "live" /\ status[b] = "live" /\ create_time[a] >= create_time[b]
        \/ /\ status[a] = "destroyed" /\ status[b] = "destroyed"
           /\ destroyed_time[a] >= destroyed_time[b]

\* An id is shown once.
IdsAreUnique ==
  \A m, n \in DOMAIN session_vector :
    session_id[session_vector[m]] = session_id[session_vector[n]] => m = n

\* SessionCountNow is the number of sessions that were never removed; one that
\* was evicted while live can no longer be removed and is counted for ever.
CountsNeverRemoved ==
  current_session_count = Cardinality({o \in Infos : status[o] = "live"})

Status(s) == IF GetSessionInfoById(s) = NULL THEN "none" ELSE status[GetSessionInfoById(s)]

StreamMap(s) ==
  IF GetSessionInfoById(s) = NULL THEN [st \in Streams |-> "none"]
                                  ELSE stream_map[GetSessionInfoById(s)]

Table == INSTANCE Statusz WITH infoStatus  <- [s \in Ids |-> Status(s)],
                               infoStreams <- [s \in Ids |-> StreamMap(s)]

\* The vector implements the table the stream service is modelled with: a full
\* table loses a destroyed entry if it has one, and what a caller does to a
\* pointer whose entry is gone shows nowhere.
RefinesStatusz == Table!InfoSpec

===============================================================================
