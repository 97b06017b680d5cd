-------------------------------- MODULE Statusz --------------------------------
(***************************************************************************)
(* What the stream service sees of SessionInfoManager and SessionInfo      *)
(* (orbit/base/session_info.cc): per session id an entry that is live or   *)
(* destroyed, with the streams it has seen.  At most MaxSave entries are   *)
(* kept.  SessionInfo.tla has the vector, the sort and the shared pointers *)
(* that implement this.                                                    *)
(***************************************************************************)
EXTENDS Naturals, FiniteSets

CONSTANTS
  Ids,      \* session ids rand() may draw
  Streams,  \* stream ids rand() may draw
  NULL,
  MaxSave   \* MAX_SAVE_SESSION_COUNT of session_info.h

ASSUME StatuszAssumption == NULL \notin Ids /\ MaxSave \in Nat \ {0}

VARIABLES
  infoStatus,   \* SessionInfoManager: none, live or destroyed per id
  infoStreams   \* SessionInfo::stream_map_: none, live or leave per stream

infoVars == <<infoStatus, infoStreams>>

InfoTypeOK ==
  /\ infoStatus \in [Ids -> {"none", "live", "destroyed"}]
  /\ infoStreams \in [Ids -> [Streams -> {"none", "live", "leave"}]]

InfoInit ==
  /\ infoStatus = [s \in Ids |-> "none"]
  /\ infoStreams = [s \in Ids |-> [st \in Streams |-> "none"]]

Saved == {s \in Ids : infoStatus[s] # "none"}

\* Entries AddSession may drop to make room: none below the limit; at the
\* limit a destroyed one if there is any, else a live one.
Evictable ==
  LET destroyed == {s \in Saved : infoStatus[s] = "destroyed"}
  IN  CASE Cardinality(Saved) < MaxSave -> {NULL}
        [] OTHER -> IF destroyed # {} THEN destroyed ELSE Saved

AddSessionInfo(s) ==
  IF infoStatus[s] # "none"
  THEN UNCHANGED infoVars
  ELSE \E v \in Evictable :
         /\ infoStatus' = [x \in Ids |-> CASE x = s -> "live"
                                           [] x = v -> "none"
                                           [] OTHER -> infoStatus[x]]
         /\ infoStreams' = [x \in Ids |-> IF x = s \/ x = v
                                          THEN [st \in Streams |-> "none"]
                                          ELSE infoStreams[x]]

RemoveSessionInfo(s) ==
  /\ infoStatus' = [infoStatus EXCEPT ![s] = IF @ = "none" THEN "none" ELSE "destroyed"]
  /\ UNCHANGED infoStreams

AddStreamInfo(s, st) ==
  /\ infoStreams' = [infoStreams EXCEPT ![s][st] =
                       IF infoStatus[s] # "none" /\ @ = "none" THEN "live" ELSE @]
  /\ UNCHANGED infoStatus

\* Mutant: the stream is not marked.
RemoveStreamInfoLost(s, st) == UNCHANGED infoVars

RemoveStreamInfo(s, st) ==
  /\ infoStreams' = [infoStreams EXCEPT ![s][st] = IF @ = "none" THEN "none" ELSE "leave"]
  /\ UNCHANGED infoStatus

\* Mutant: one stream that left is enough.
HasLiveStreamsAll(s) == \A st \in Streams : infoStreams[s][st] = "live"

HasLiveStreams(s) == \E st \in Streams : infoStreams[s][st] = "live"

InfoNext ==
  \/ \E s \in Ids : AddSessionInfo(s) \/ RemoveSessionInfo(s)
  \/ \E s \in Ids, st \in Streams : AddStreamInfo(s, st) \/ RemoveStreamInfo(s, st)

InfoSpec == InfoInit /\ [][InfoNext]_infoVars

===============================================================================
