-------------------------------- MODULE VideoMap --------------------------------
(***************************************************************************)
(* VideoMap (orbit/modules/video_map.cc): who is shown to whom in a video  *)
(* conference.  Every stream has a source it shows (src) and a source it   *)
(* will show once a key frame of it is there (expected_src).  The code     *)
(* keeps each edge at both of its ends, here it is kept once.              *)
(*                                                                         *)
(* The listeners of the map are the packet queues of the streams           *)
(* (orbit/modules/video_forward_element_new.cc): enabled and has_looker    *)
(* are the queues whose flag the last event has set, asked the streams a   *)
(* key frame was requested from and that have not been prepared since.     *)
(***************************************************************************)
EXTENDS Integers

CONSTANT Ids       \* stream ids

ASSUME IdsAssumption == Ids \subseteq Nat

VARIABLES all_node_, master_, src, expected_src, enabled, has_looker, asked

graph   == <<all_node_, master_, src, expected_src>>
mapVars == <<graph, enabled, has_looker, asked>>

NOID == -1

First(S) == CHOOSE n \in S : \A m \in S : n <= m

-------------------------------------------------------------------------------

\* The streams with a looker, and the ones with a looker or an expected one.
HasCurLooker == {n \in all_node_ : \E m \in all_node_ : src[m] = n}
Looked == HasCurLooker \cup {n \in all_node_ : \E m \in all_node_ : expected_src[m] = n}

\* Mutant: a stream that only loses its last looker is not reported.
DetectLost ==
  /\ enabled' = (enabled \cup (Looked' \ Looked)) \cap all_node_'
  /\ has_looker' = (has_looker \cup (HasCurLooker' \ HasCurLooker)) \cap all_node_'

\* EventDetector: the events are the difference an operation has made.  The
\* queue of a removed stream goes with it (UnlinkVideoStream).
Detect ==
  /\ enabled' = ((enabled \cup (Looked' \ Looked)) \ (Looked \ Looked')) \cap all_node_'
  /\ has_looker' = ((has_looker \cup (HasCurLooker' \ HasCurLooker))
                       \ (HasCurLooker \ HasCurLooker')) \cap all_node_'

\* Mutant: the master is given itself while somebody else is there.
SelectNewSrcSelf(nodes, master, id) == master

\* Everybody sees the master, who sees the first of the others.
SelectNewSrc(nodes, master, id) ==
  IF id # master THEN master
  ELSE IF nodes = {id} THEN id
  ELSE First(nodes \ {id})

\* Mutant: the second stream is not asked for the key frame the master needs.
AddUnasked(id) ==
  /\ id \notin all_node_
  /\ all_node_' = all_node_ \cup {id}
  /\ master_' = IF all_node_ = {} THEN id ELSE master_
  /\ expected_src' = [expected_src EXCEPT ![id] = master_', ![master_'] = IF all_node_ \subseteq {master_} THEN id ELSE @]
  /\ asked' = asked \cup {master_'}
  /\ UNCHANGED src
  /\ Detect

\* The first stream sees itself, two see each other, any other sees the master.
Add(id) ==
  /\ id \notin all_node_
  /\ all_node_' = all_node_ \cup {id}
  /\ IF all_node_ = {}
     THEN /\ master_' = id
          /\ expected_src' = [expected_src EXCEPT ![id] = id]
          /\ asked' = asked \cup {id}
     ELSE /\ LET two == all_node_ = {master_}
             IN  /\ expected_src' = [expected_src EXCEPT ![id] = master_,
                                                         ![master_] = IF two THEN id ELSE @]
                 /\ asked' = asked \cup {master_} \cup (IF two THEN {id} ELSE {})
          /\ UNCHANGED master_
  /\ UNCHANGED src
  /\ Detect

\* Node::Unbind, of the current edges.
Unbind(id) == [n \in Ids |-> IF n = id \/ src[n] = id THEN NOID ELSE src[n]]

RemoveLast(id) ==
  /\ all_node_ = {id}
  /\ master_' = NOID
  /\ src' = [src EXCEPT ![id] = NOID]
  /\ expected_src' = [expected_src EXCEPT ![id] = NOID]
  /\ asked' = asked \ {id}

RemoveMaster(id) ==
  LET rest == all_node_ \ {id}
      new == First(rest)
      newSrc == SelectNewSrc(rest, new, new)
  IN  /\ id = master_ /\ rest # {}
      /\ master_' = new
      /\ src' = Unbind(id)
      /\ expected_src' = [n \in Ids |-> CASE n \notin rest -> NOID
                                          [] n = new -> newSrc
                                          [] OTHER -> new]
      /\ asked' = (asked \ {id}) \cup {new, newSrc}

RemoveOther(id) ==
  LET rest == all_node_ \ {id}
      lookers == {n \in all_node_ : src[n] = id \/ expected_src[n] = id}
  IN  /\ id # master_
      /\ UNCHANGED master_
      /\ src' = Unbind(id)
      /\ expected_src' = [n \in Ids |-> CASE n = id -> NOID
                                          [] n \in lookers \ {id} -> SelectNewSrc(rest, master_, n)
                                          [] OTHER -> expected_src[n]]
      /\ asked' = (asked \ {id}) \cup {SelectNewSrc(rest, master_, n) : n \in lookers}

Remove(id) ==
  /\ id \in all_node_
  /\ all_node_' = all_node_ \ {id}
  /\ RemoveLast(id) \/ RemoveMaster(id) \/ RemoveOther(id)
  /\ Detect

\* Mutant: only the streams that show nothing yet turn to the new master.
SetMasterLazy(id) ==
  /\ id \in all_node_ /\ id # master_
  /\ master_' = id
  /\ expected_src' = [n \in Ids |-> IF n \in all_node_ \ {id} /\ src[n] = NOID THEN id ELSE expected_src[n]]
  /\ asked' = asked \cup {id}
  /\ UNCHANGED <<all_node_, src>>
  /\ Detect

\* The others prepare to see the new master, who goes on with what it sees.
SetMaster(id) ==
  /\ id \in all_node_ /\ id # master_
  /\ master_' = id
  /\ expected_src' = [n \in Ids |-> IF n \in all_node_ \ {id} THEN id ELSE expected_src[n]]
  /\ asked' = asked \cup {id}
  /\ UNCHANGED <<all_node_, src>>
  /\ Detect

\* A key frame of id has come: who expects id sees it now.
SetPrepared(id) ==
  /\ id \in all_node_
  /\ src' = [n \in Ids |-> IF expected_src[n] = id THEN id ELSE src[n]]
  /\ expected_src' = [n \in Ids |-> IF expected_src[n] = id THEN NOID ELSE expected_src[n]]
  /\ asked' = asked \ {id}
  /\ UNCHANGED <<all_node_, master_>>
  /\ Detect

-------------------------------------------------------------------------------

MapInit ==
  /\ all_node_ = {} /\ master_ = NOID
  /\ src = [n \in Ids |-> NOID] /\ expected_src = [n \in Ids |-> NOID]
  /\ enabled = {} /\ has_looker = {} /\ asked = {}

MapNext == \E id \in Ids : Add(id) \/ Remove(id) \/ SetMaster(id) \/ SetPrepared(id)

MapSpec == MapInit /\ [][MapNext]_mapVars

-------------------------------------------------------------------------------

\* The graph has no edge from or to a stream that is not in the map (the code
\* would follow a pointer to a deleted Node), and a master while it has a node.
MapTypeOK ==
  /\ all_node_ \subseteq Ids /\ enabled \subseteq Ids /\ has_looker \subseteq Ids /\ asked \subseteq Ids
  /\ master_ \in IF all_node_ = {} THEN {NOID} ELSE all_node_
  /\ src \in [Ids -> all_node_ \cup {NOID}] /\ expected_src \in [Ids -> all_node_ \cup {NOID}]
  /\ \A n \in Ids \ all_node_ : src[n] = NOID /\ expected_src[n] = NOID

\* What a stream shows, or will show.
Target(n) == IF expected_src[n] # NOID THEN expected_src[n] ELSE src[n]

\* "Everyone always try to show master's video" (video_map.h:22): whatever
\* streams came and went and however late the key frames are.
EveryoneTriesMaster == \A n \in all_node_ \ {master_} : Target(n) = master_

\* The master sees somebody else as long as there is somebody else, and itself
\* otherwise: a removed source is always replaced.
MasterSeesAnother ==
  all_node_ # {} =>
    Target(master_) \in (IF all_node_ = {master_} THEN {master_} ELSE all_node_ \ {master_})

\* The flags of the queues, set by events only, say what the graph says: a queue
\* is enabled as long as somebody looks at or waits for its stream.
FlagsAgree == enabled = Looked /\ has_looker = HasCurLooker

\* A stream somebody waits for has been asked for a key frame (Prepare), and
\* not answered since: nobody waits for a picture that was never requested.
ExpectedIsAsked == \A n \in all_node_ : expected_src[n] # NOID => expected_src[n] \in asked

\* Add, Remove, SetMaster and SetPrepared leave nobody without a picture to come:
\* everybody has or waits for the right source, and who is waited for was asked.
NobodyWaitsInVain == EveryoneTriesMaster /\ MasterSeesAnother /\ ExpectedIsAsked

===============================================================================
