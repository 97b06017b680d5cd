---------------------------- MODULE ConferenceProofs ----------------------------
(***************************************************************************)
(* Proofs about the video of a conference room.  VideoMap, for every set   *)
(* of stream ids: the graph never dangles, everyone tries to show the      *)
(* master, the master sees somebody else, the queues' flags agree with the *)
(* graph, and whoever is waited for was asked.  VideoForward implements    *)
(* the map, for every set of streams and packets, and switches at a key    *)
(* frame.                                                                  *)
(***************************************************************************)
EXTENDS MCConference, Sequences, FiniteSetTheorems, WellFoundedInduction, TLAPS

-------------------------------------------------------------------------------
(* VideoMap.                                                                 *)

\* The inductive invariant: what TLC checks of VideoMap, together.
MapInv == MapTypeOK /\ EveryoneTriesMaster /\ MasterSeesAnother /\ FlagsAgree /\ ExpectedIsAsked

-------------------------------------------------------------------------------

\* The first element of a sorted container of numbers that is not empty.
LEMMA FirstOfNumbers ==
  ASSUME NEW S \in SUBSET Nat, S # {}
  PROVE  First(S) \in S /\ \A y \in S : First(S) <= y
<1>1. \E x \in S : \A y \in S : ~ (<<y, x>> \in OpToRel(<, Nat))
  BY NatLessThanWellFounded, WFMin
<1>2. PICK x \in S : \A y \in S : ~ (<<y, x>> \in OpToRel(<, Nat))
  BY <1>1
<1>3. ASSUME NEW y \in S PROVE x <= y
  <2>1. y \in Nat /\ x \in Nat
    OBVIOUS
  <2>2. y < x => <<y, x>> \in OpToRel(<, Nat)
    <3>1. y < x => <<y, x>> \in {ss \in Nat \X Nat : ss[1] < ss[2]}
      BY <2>1
    <3> QED
      BY <3>1, Zenon DEF OpToRel
  <2>3. ~ (y < x)
    BY <2>2, <1>2, Zenon
  <2> QED
    BY <2>1, <2>3
<1> QED
  BY <1>3 DEF First

\* all_node_.begin(): a set of ids that is not empty has a first one.
LEMMA FirstIsMember ==
  ASSUME NEW S \in SUBSET Ids, S # {}
  PROVE  First(S) \in S
BY FirstOfNumbers, IdsAssumption

\* SelectNewSrc gives a stream that is there: the master to everybody else, and
\* to the master another one unless it is alone.
LEMMA SelectNewSrcIsThere ==
  ASSUME NEW nodes \in SUBSET Ids, NEW master \in nodes, NEW id \in Ids
  PROVE  /\ id # master => SelectNewSrc(nodes, master, id) = master
         /\ id = master /\ nodes = {master} => SelectNewSrc(nodes, master, id) = master
         /\ id = master /\ nodes # {master} => SelectNewSrc(nodes, master, id) \in nodes \ {master}
<1>1. nodes # {master} => First(nodes \ {master}) \in nodes \ {master}
  BY FirstIsMember
<1> QED
  BY <1>1 DEF SelectNewSrc

\* The difference of before and after, applied to flags that agreed before,
\* makes them agree after: no operation loses or repeats an event.
LEMMA DetectAgrees ==
  ASSUME FlagsAgree, Detect
  PROVE  FlagsAgree'
<1>1. Looked' \subseteq all_node_' /\ HasCurLooker' \subseteq all_node_'
  BY DEF Looked, HasCurLooker
<1> QED
  BY <1>1 DEF FlagsAgree, Detect

\* Flags that agree with the graph are sets of its streams.
LEMMA FlagsType ==
  ASSUME FlagsAgree', all_node_' \subseteq Ids
  PROVE  enabled' \subseteq Ids /\ has_looker' \subseteq Ids
<1>1. Looked' \subseteq all_node_' /\ HasCurLooker' \subseteq all_node_'
  BY DEF Looked, HasCurLooker
<1> QED
  BY <1>1 DEF FlagsAgree

-------------------------------------------------------------------------------

\* The part of the invariant that Detect keeps for every operation.
Flags == enabled \subseteq Ids /\ has_looker \subseteq Ids /\ FlagsAgree

\* Whatever an operation does to the graph, Detect keeps the flags right.
LEMMA DetectFlags ==
  ASSUME MapInv, Detect, all_node_' \subseteq Ids
  PROVE  Flags'
BY DetectAgrees, FlagsType DEF MapInv, Flags

\* Graph is what an operation itself must keep.
Graph ==
  /\ all_node_ \subseteq Ids /\ asked \subseteq Ids
  /\ master_ \in IF all_node_ = {} THEN {NOID} ELSE all_node_
  /\ src \in [Ids -> all_node_ \cup {NOID}] /\ expected_src \in [Ids -> all_node_ \cup {NOID}]
  /\ \A n \in Ids \ all_node_ : src[n] = NOID /\ expected_src[n] = NOID

\* NOID is no stream id (ids are not negative).
LEMMA NoIdIsNone == NOID \notin Ids
BY IdsAssumption DEF NOID

\* Add keeps the graph, for the first, the second and any further stream.
LEMMA AddStep ==
  ASSUME MapInv, NEW id \in Ids, Add(id)
  PROVE  Graph' /\ EveryoneTriesMaster' /\ MasterSeesAnother' /\ ExpectedIsAsked'
<1>1. CASE all_node_ = {}
  BY <1>1, NoIdIsNone DEF MapInv, MapTypeOK, Add, Graph, EveryoneTriesMaster, MasterSeesAnother, ExpectedIsAsked, Target
<1>2. CASE all_node_ # {}
  <2> DEFINE two == all_node_ = {master_}
  <2>1. /\ master_ \in all_node_ /\ master_' = master_ /\ id # master_ /\ src' = src
        /\ all_node_' = all_node_ \cup {id}
        /\ expected_src' = [expected_src EXCEPT ![id] = master_, ![master_] = IF two THEN id ELSE @]
        /\ asked' = asked \cup {master_} \cup (IF two THEN {id} ELSE {})
    BY <1>2 DEF MapInv, MapTypeOK, Add
  <2>2. /\ expected_src'[id] = master_
        /\ expected_src'[master_] = IF two THEN id ELSE expected_src[master_]
        /\ \A n \in Ids \ {id, master_} : expected_src'[n] = expected_src[n]
    BY <2>1 DEF MapInv, MapTypeOK
  <2>3. Graph'
    BY <2>1, NoIdIsNone DEF MapInv, MapTypeOK, Graph
  <2>4. EveryoneTriesMaster'
    BY <2>1, <2>2, NoIdIsNone DEF MapInv, MapTypeOK, EveryoneTriesMaster, Target
  <2>5. MasterSeesAnother'
    BY <2>1, <2>2, NoIdIsNone DEF MapInv, MapTypeOK, MasterSeesAnother, Target
  <2>6. ExpectedIsAsked'
    BY <2>1, <2>2, NoIdIsNone DEF MapInv, MapTypeOK, ExpectedIsAsked
  <2> QED
    BY <2>3, <2>4, <2>5, <2>6
<1> QED
  BY <1>1, <1>2

\* Remove of the last stream.
LEMMA RemoveLastStep ==
  ASSUME MapInv, NEW id \in all_node_, all_node_' = all_node_ \ {id}, RemoveLast(id)
  PROVE  Graph' /\ EveryoneTriesMaster' /\ MasterSeesAnother' /\ ExpectedIsAsked'
BY NoIdIsNone DEF MapInv, MapTypeOK, RemoveLast, Graph, EveryoneTriesMaster, MasterSeesAnother, ExpectedIsAsked, Target

\* Remove of the master while others are there: a new master and new sources.
LEMMA RemoveMasterStep ==
  ASSUME MapInv, NEW id \in all_node_, all_node_' = all_node_ \ {id}, RemoveMaster(id)
  PROVE  Graph' /\ EveryoneTriesMaster' /\ MasterSeesAnother' /\ ExpectedIsAsked'
<1> DEFINE rest == all_node_ \ {id}
           new == First(rest)
           newSrc == SelectNewSrc(rest, new, new)
<1>1. rest # {} /\ rest \subseteq Ids /\ id = master_ /\ id \in Ids
  BY DEF RemoveMaster, MapInv, MapTypeOK
<1>2. new \in rest
  BY <1>1, FirstIsMember
<1>3. newSrc \in (IF rest = {new} THEN {new} ELSE rest \ {new})
  BY <1>1, <1>2, SelectNewSrcIsThere
<1>4. /\ master_' = new /\ asked' = (asked \ {id}) \cup {new, newSrc}
      /\ src' \in [Ids -> rest \cup {NOID}] /\ expected_src' \in [Ids -> rest \cup {NOID}]
      /\ \A n \in Ids \ rest : src'[n] = NOID /\ expected_src'[n] = NOID
      /\ expected_src'[new] = newSrc
      /\ \A n \in rest \ {new} : expected_src'[n] = new
  <2> HIDE DEF new, newSrc
  <2>1. /\ master_' = new /\ asked' = (asked \ {id}) \cup {new, newSrc} /\ src' = Unbind(id)
        /\ expected_src' = [n \in Ids |-> CASE n \notin rest -> NOID
                                            [] n = new -> newSrc
                                            [] OTHER -> new]
    BY DEF RemoveMaster, new, newSrc
  <2>2. src' \in [Ids -> rest \cup {NOID}] /\ \A n \in Ids \ rest : src'[n] = NOID
    BY <2>1, <1>1 DEF Unbind, MapInv, MapTypeOK
  <2>3. /\ expected_src' \in [Ids -> rest \cup {NOID}]
        /\ \A n \in Ids \ rest : expected_src'[n] = NOID
        /\ expected_src'[new] = newSrc
        /\ \A n \in rest \ {new} : expected_src'[n] = new
    BY <2>1, <1>1, <1>2, <1>3
  <2> QED
    BY <2>1, <2>2, <2>3
<1> HIDE DEF new, newSrc
<1>5. Graph'
  BY <1>1, <1>2, <1>3, <1>4 DEF Graph, MapInv, MapTypeOK
<1>6. EveryoneTriesMaster'
  BY <1>1, <1>2, <1>4, NoIdIsNone DEF EveryoneTriesMaster, Target
<1>7. MasterSeesAnother'
  BY <1>1, <1>2, <1>3, <1>4, NoIdIsNone DEF MasterSeesAnother, Target
<1>8. ExpectedIsAsked'
  BY <1>1, <1>2, <1>3, <1>4, NoIdIsNone DEF ExpectedIsAsked
<1> QED
  BY <1>5, <1>6, <1>7, <1>8

\* Remove of another stream: its lookers get a new source.
LEMMA RemoveOtherStep ==
  ASSUME MapInv, NEW id \in all_node_, all_node_' = all_node_ \ {id}, RemoveOther(id)
  PROVE  Graph' /\ EveryoneTriesMaster' /\ MasterSeesAnother' /\ ExpectedIsAsked'
<1> DEFINE rest == all_node_ \ {id}
           lookers == {n \in all_node_ : src[n] = id \/ expected_src[n] = id}
           new(n) == SelectNewSrc(rest, master_, n)
<1>1. master_ \in rest /\ rest \subseteq Ids /\ id # master_ /\ id \in Ids
  BY DEF RemoveOther, MapInv, MapTypeOK
<1>2. /\ \A n \in Ids \ {master_} : new(n) = master_
      /\ new(master_) \in (IF rest = {master_} THEN {master_} ELSE rest \ {master_})
  BY <1>1, SelectNewSrcIsThere
<1>3. /\ master_' = master_ /\ src' = Unbind(id)
      /\ expected_src' = [n \in Ids |-> CASE n = id -> NOID
                                          [] n \in lookers \ {id} -> new(n)
                                          [] OTHER -> expected_src[n]]
      /\ asked' = (asked \ {id}) \cup {new(n) : n \in lookers}
  BY DEF RemoveOther
<1> HIDE DEF new
<1>4. /\ src' \in [Ids -> rest \cup {NOID}]
      /\ \A n \in Ids \ rest : src'[n] = NOID
      /\ \A n \in rest \ lookers : src'[n] = src[n]
  BY <1>1, <1>3 DEF Unbind, MapInv, MapTypeOK
<1>5. /\ expected_src' \in [Ids -> rest \cup {NOID}]
      /\ \A n \in Ids \ rest : expected_src'[n] = NOID
      /\ \A n \in lookers \ {id} : expected_src'[n] = new(n)
      /\ \A n \in rest \ lookers : expected_src'[n] = expected_src[n]
  BY <1>1, <1>2, <1>3 DEF MapInv, MapTypeOK
<1>6. asked' \subseteq Ids /\ (\A n \in lookers : new(n) \in asked') /\ asked \ {id} \subseteq asked'
  BY <1>1, <1>2, <1>3 DEF MapInv, MapTypeOK
<1>7. \A n \in rest \ lookers : Target(n)' = Target(n) /\ Target(n) # id
  BY <1>1, <1>4, <1>5, NoIdIsNone DEF Target
<1>8. \A n \in lookers \ {id} : Target(n)' = new(n)
  BY <1>1, <1>2, <1>5, NoIdIsNone DEF Target
<1>9. Graph'
  BY <1>1, <1>3, <1>4, <1>5, <1>6 DEF Graph
<1>10. EveryoneTriesMaster'
  BY <1>1, <1>2, <1>3, <1>7, <1>8 DEF EveryoneTriesMaster, MapInv
<1>11. MasterSeesAnother'
  <2>1. Target(master_) \in all_node_ \ {master_}
    BY <1>1 DEF MapInv, MasterSeesAnother
  <2>2. CASE master_ \in lookers
    BY <2>2, <1>1, <1>2, <1>3, <1>8 DEF MasterSeesAnother, Target
  <2>3. CASE master_ \notin lookers
    BY <2>3, <2>1, <1>1, <1>3, <1>7 DEF MasterSeesAnother, Target
  <2> QED
    BY <2>2, <2>3
<1>12. ExpectedIsAsked'
  BY <1>1, <1>5, <1>6, NoIdIsNone DEF ExpectedIsAsked, MapInv, MapTypeOK
<1> QED
  BY <1>9, <1>10, <1>11, <1>12

\* SetMaster keeps the graph: the new master was looking at the old one.
LEMMA SetMasterStep ==
  ASSUME MapInv, NEW id \in Ids, SetMaster(id)
  PROVE  Graph' /\ EveryoneTriesMaster' /\ MasterSeesAnother' /\ ExpectedIsAsked'
<1>1. /\ id \in all_node_ /\ id # master_ /\ master_' = id /\ all_node_' = all_node_ /\ src' = src
      /\ asked' = asked \cup {id} /\ master_ \in all_node_
      /\ expected_src' = [n \in Ids |-> IF n \in all_node_ \ {id} THEN id ELSE expected_src[n]]
  BY DEF SetMaster, MapInv, MapTypeOK
<1>2. Graph'
  BY <1>1 DEF Graph, MapInv, MapTypeOK
<1>3. EveryoneTriesMaster'
  BY <1>1, NoIdIsNone DEF EveryoneTriesMaster, Target, MapInv, MapTypeOK
<1>4. MasterSeesAnother'
  BY <1>1, NoIdIsNone DEF MasterSeesAnother, EveryoneTriesMaster, Target, MapInv, MapTypeOK
<1>5. ExpectedIsAsked'
  BY <1>1, NoIdIsNone DEF ExpectedIsAsked, MapInv, MapTypeOK
<1> QED
  BY <1>2, <1>3, <1>4, <1>5

\* SetPrepared moves edges from expected to current, the targets stay.
LEMMA SetPreparedStep ==
  ASSUME MapInv, NEW id \in Ids, SetPrepared(id)
  PROVE  Graph' /\ EveryoneTriesMaster' /\ MasterSeesAnother' /\ ExpectedIsAsked'
<1>1. /\ id \in all_node_ /\ master_' = master_ /\ all_node_' = all_node_ /\ asked' = asked \ {id}
      /\ src' = [n \in Ids |-> IF expected_src[n] = id THEN id ELSE src[n]]
      /\ expected_src' = [n \in Ids |-> IF expected_src[n] = id THEN NOID ELSE expected_src[n]]
  BY DEF SetPrepared
<1>2. Graph'
  BY <1>1, NoIdIsNone DEF Graph, MapInv, MapTypeOK
<1>3. \A n \in Ids : Target(n)' = Target(n)
  BY <1>1, NoIdIsNone DEF Target, MapInv, MapTypeOK
<1>4. EveryoneTriesMaster' /\ MasterSeesAnother'
  BY <1>1, <1>3 DEF EveryoneTriesMaster, MasterSeesAnother, MapInv, MapTypeOK
<1>5. ExpectedIsAsked'
  BY <1>1, NoIdIsNone DEF ExpectedIsAsked, MapInv, MapTypeOK
<1> QED
  BY <1>2, <1>4, <1>5

-------------------------------------------------------------------------------

\* The five invariants hold in every state of every room, for any set of ids.
THEOREM MapInvariance == MapSpec => []MapInv
<1>1. MapInit => MapInv
  BY DEF MapInit, MapInv, MapTypeOK, EveryoneTriesMaster, MasterSeesAnother, FlagsAgree, ExpectedIsAsked,
         Looked, HasCurLooker
<1>2. MapInv /\ [MapNext]_mapVars => MapInv'
  <2> SUFFICES ASSUME MapInv, [MapNext]_mapVars PROVE MapInv'
    OBVIOUS
  <2>1. CASE UNCHANGED mapVars
    BY <2>1 DEF mapVars, graph, MapInv, MapTypeOK, EveryoneTriesMaster, MasterSeesAnother, FlagsAgree,
                ExpectedIsAsked, Looked, HasCurLooker, Target
  <2>2. CASE MapNext
    <3>1. PICK id \in Ids : Add(id) \/ Remove(id) \/ SetMaster(id) \/ SetPrepared(id)
      BY <2>2 DEF MapNext
    <3>2. Detect
      BY <3>1 DEF Add, Remove, SetMaster, SetPrepared
    <3>3. Graph' /\ EveryoneTriesMaster' /\ MasterSeesAnother' /\ ExpectedIsAsked'
      <4>1. CASE Add(id)
        BY <4>1, AddStep
      <4>2. CASE Remove(id)
        BY <4>2, RemoveLastStep, RemoveMasterStep, RemoveOtherStep DEF Remove
      <4>3. CASE SetMaster(id)
        BY <4>3, SetMasterStep
      <4>4. CASE SetPrepared(id)
        BY <4>4, SetPreparedStep
      <4> QED
        BY <3>1, <4>1, <4>2, <4>3, <4>4
    <3>4. Flags'
      BY <3>2, <3>3, DetectFlags DEF Graph
    <3> QED
      BY <3>3, <3>4 DEF MapInv, MapTypeOK, Graph, Flags
  <2> QED
    BY <2>1, <2>2
<1> QED
  BY <1>1, <1>2, PTL DEF MapSpec

\* No Node points to a node that was removed and deleted.
THEOREM NothingDangles == MapSpec => []MapTypeOK
BY MapInvariance, PTL DEF MapInv

\* Everyone always tries to show the master's video.
THEOREM TriesMaster == MapSpec => []EveryoneTriesMaster
BY MapInvariance, PTL DEF MapInv

\* The master is never left without a source, nor with itself in company.
THEOREM MasterSees == MapSpec => []MasterSeesAnother
BY MapInvariance, PTL DEF MapInv

\* The queues, which only see the events, are enabled exactly when looked at.
THEOREM EventsSuffice == MapSpec => []FlagsAgree
BY MapInvariance, PTL DEF MapInv

\* Nobody waits for a key frame that was not requested.
THEOREM WaitedForIsAsked == MapSpec => []ExpectedIsAsked
BY MapInvariance, PTL DEF MapInv

\* Everybody sees or waits for the right stream, and who is waited for was asked.
THEOREM NobodyWaits == MapSpec => []NobodyWaitsInVain
BY TriesMaster, MasterSees, WaitedForIsAsked, PTL DEF NobodyWaitsInVain

-------------------------------------------------------------------------------
(* VideoForward: each operation of the element and its queues is one         *)
(* operation of the map or leaves it alone.                                  *)

\* A queue tells the map of a key frame, or changes nothing of it.
LEMMA QueueStep ==
  ASSUME NEW id \in Ids, NEW f, NEW prepared, Queue(id, f, prepared)
  PROVE  SetPrepared(id) \/ UNCHANGED mapVars
BY DEF Queue

\* A packet that comes, and a packet that is popped.
LEMMA PacketStep ==
  ASSUME NEW id \in Ids,
         (\E seq \in 0..MaxSeq : OnIncomingPacket(id, seq)) \/ PopPacket(id)
  PROVE  SetPrepared(id) \/ UNCHANGED mapVars
<1>1. CASE \E seq \in 0..MaxSeq : OnIncomingPacket(id, seq)
  BY <1>1, QueueStep DEF OnIncomingPacket, PushPacketWhenHasLooker, PushPacketWhenNoLooker, CheckPrepared
<1>2. CASE PopPacket(id)
  BY <1>2, QueueStep DEF PopPacket, CheckPrepared
<1> QED
  BY <1>1, <1>2

\* An operation of the element is one of the map or none, so the map's theorems hold in
\* the room.
LEMMA ForwardUsesMap == Spec => MapSpec
<1>1. Init => MapInit
  BY DEF Init
<1>2. [Next]_vars => [MapNext]_(mapVars)
  <2> SUFFICES ASSUME [Next]_vars PROVE MapNext \/ UNCHANGED mapVars
    BY DEF mapVars, graph
  <2>1. CASE UNCHANGED vars
    BY <2>1 DEF vars, mapVars, graph
  <2>2. CASE ForwardData
    BY <2>2 DEF ForwardData, mapVars, graph
  <2>3. ASSUME NEW id \in Ids,
               \/ AddParticipant(id) \/ LinkVideoStream(id) \/ ChangeToSpeaker(id)
               \/ RemoveParticipant(id) \/ UnlinkVideoStream(id) \/ Stop(id)
        PROVE  MapNext \/ UNCHANGED mapVars
    BY <2>3 DEF AddParticipant, LinkVideoStream, ChangeToSpeaker, RemoveParticipant, UnlinkVideoStream,
                Stop, MapNext
  <2>4. ASSUME NEW id \in Ids, PopPacket(id) \/ \E seq \in 0..MaxSeq : OnIncomingPacket(id, seq)
        PROVE  MapNext \/ UNCHANGED mapVars
    BY <2>4, PacketStep DEF MapNext
  <2> QED
    BY <2>1, <2>2, <2>3, <2>4 DEF Next
<1> QED
  BY <1>1, <1>2, PTL DEF Spec, MapSpec

\* Whatever the transports, the network and the loop do, every stream of the
\* room tries to show the master, and the queues are enabled as they must be.
THEOREM RoomTriesMaster == Spec => [](EveryoneTriesMaster /\ FlagsAgree)
BY TriesMaster, EventsSuffice, ForwardUsesMap, PTL

-------------------------------------------------------------------------------
(* The switch.  MapOK is what the proof needs of the map: its edges are      *)
(* between linked streams, and a queue is enabled while somebody looks.      *)

MapOK == MapTypeOK /\ FlagsAgree

\* The inductive invariant of the element with its queues.
IInv == TypeOK /\ SrcChangedHasFrame /\ FreshHasKeyFrame

\* The map under the forwarder keeps its invariant.
LEMMA MapIsOK == Spec => []MapOK
<1>1. MapTypeOK /\ FlagsAgree => MapOK
  BY DEF MapOK
<1> QED
  BY <1>1, NothingDangles, EventsSuffice, ForwardUsesMap, PTL

\* TopPacket of a queue that is not empty is one of its packets, the lowest.
LEMMA TopPacket ==
  ASSUME NEW f \in SUBSET (0..MaxSeq), f # {}
  PROVE  First(f) \in f /\ \A y \in f : First(f) <= y
BY FirstOfNumbers, VideoForwardAssumption, IdsAssumption

\* Arithmetic of the sequence numbers.
LEMMA SeqModType == SeqMod \in Nat \ {0} /\ SeqMod - 1 = MaxSeq
BY VideoForwardAssumption, IdsAssumption DEF SeqMod

LEMMA SeqModRange ==
  ASSUME NEW x \in Int
  PROVE  /\ x % SeqMod \in 0..MaxSeq
         /\ x \in 0..MaxSeq => x % SeqMod = x
BY SeqModType

\* A queue that is looked at is not disabled.
LEMMA SourceStaysEnabled ==
  ASSUME MapOK, NEW n \in Ids, src[n] # NOID
  PROVE  src[n] \in Ids /\ src[n] \in enabled
BY DEF MapOK, MapTypeOK, FlagsAgree, Looked, HasCurLooker

\* The packets of a queue are replaced by f, f # {} starting with a key frame
\* if the map is told: who turns to id continues from it.  No viewer that
\* already shows id may be fresh, unless its key frame is kept.
LEMMA QueueKeeps ==
  ASSUME IInv, MapOK, MapOK', NEW id \in Ids, NEW f \in SUBSET (0..MaxSeq), NEW prepared \in BOOLEAN,
         Queue(id, f, prepared), id \in enabled, prepared => FirstIsKeyFrame(f),
         UNCHANGED <<stage, readies>>, popping' \subseteq popping, id \notin popping',
         \A n \in fresh : src[n] = id => ctx[n].base_seq \in f
  PROVE  IInv'
<1>1. all_node_' = all_node_ /\ all_node_ \subseteq Ids /\ all_node_ = all_node_'
  BY DEF Queue, mapVars, graph, SetPrepared, MapOK, MapTypeOK
<1>2. frames_' \in [Ids -> SUBSET (0..MaxSeq)]
  BY DEF Queue, IInv, TypeOK
<1>3. ASSUME NEW q \in Ids \ enabled' PROVE frames_'[q] = {}
  <2>1. CASE q \in enabled
    BY <2>1 DEF Queue
  <2>2. CASE q \notin enabled
    BY <2>2 DEF Queue, IInv, TypeOK
  <2> QED
    BY <2>1, <2>2
<1>4. ASSUME NEW q \in enabled', q \in Ids
      PROVE  frames_'[q] = IF q = id THEN f ELSE frames_[q]
  BY <1>4 DEF Queue
<1>5. CASE ~prepared
  <2>1. UNCHANGED <<mapVars, ctx, fresh, noFrame>>
    BY <1>5 DEF Queue
  <2>2. TypeOK'
    BY <2>1, <1>1, <1>2, <1>3 DEF IInv, TypeOK, mapVars, graph
  <2>3. ASSUME NEW n \in fresh, src[n] # NOID
        PROVE  /\ src[n] \notin popping' /\ ctx[n].base_seq \in frames_'[src[n]]
               /\ ctx[n].base_seq \in Key /\ ctx[n].last_seq = (ctx[n].seq + 1) % SeqMod
    <3>1. n \in Ids
      BY <1>1 DEF IInv, TypeOK
    <3>2. src[n] \in Ids /\ src[n] \in enabled'
      BY <3>1, <2>3, <2>1, SourceStaysEnabled DEF mapVars, graph
    <3>3. /\ src[n] \notin popping /\ ctx[n].base_seq \in frames_[src[n]]
          /\ ctx[n].base_seq \in Key /\ ctx[n].last_seq = (ctx[n].seq + 1) % SeqMod
      BY <2>3 DEF IInv, FreshHasKeyFrame
    <3> QED
      BY <3>2, <3>3, <1>4
  <2>4. FreshHasKeyFrame'
    BY <2>1, <2>3 DEF FreshHasKeyFrame, mapVars, graph, NOID, SeqMod
  <2> QED
    BY <2>1, <2>2, <2>4 DEF IInv, SrcChangedHasFrame
<1>6. CASE prepared
  <2> DEFINE switched == {n \in all_node_ : expected_src[n] = id /\ src[n] # id}
  <2>1. /\ First(f) \in f /\ First(f) \in Key /\ f # {} /\ First(f) \in 0..MaxSeq
    BY <1>6, TopPacket DEF FirstIsKeyFrame
  <2>2. /\ fresh' = fresh \cup switched
        /\ ctx' = [n \in Ids |->
                     IF n \in switched
                     THEN [seq |-> ctx[n].seq, base_seq |-> First(f), last_seq |-> (ctx[n].seq + 1) % SeqMod]
                     ELSE ctx[n]]
        /\ src' = [n \in Ids |-> IF expected_src[n] = id THEN id ELSE src[n]]
    BY <1>6, <2>1 DEF Queue, SrcChanged, SetPrepared
  <2>7. ~noFrame'
    BY <1>6, <2>1 DEF Queue, SrcChanged, IInv, SrcChangedHasFrame
  <2>3. ctx' \in [Ids -> [seq : 0..MaxSeq, base_seq : 0..MaxSeq, last_seq : 0..MaxSeq]]
    <3>1. \A n \in Ids : ctx[n] \in [seq : 0..MaxSeq, base_seq : 0..MaxSeq, last_seq : 0..MaxSeq]
      BY DEF IInv, TypeOK
    <3>2. \A n \in Ids : (ctx[n].seq + 1) % SeqMod \in 0..MaxSeq
      BY <3>1, SeqModRange
    <3> HIDE DEF switched
    <3> QED
      BY <2>1, <2>2, <3>1, <3>2
  <2>4. TypeOK'
    BY <2>2, <2>3, <1>1, <1>2, <1>3 DEF IInv, TypeOK
  <2>5. ASSUME NEW n \in fresh', src'[n] # NOID
        PROVE  /\ src'[n] \notin popping' /\ ctx'[n].base_seq \in frames_'[src'[n]]
               /\ ctx'[n].base_seq \in Key /\ ctx'[n].last_seq = (ctx'[n].seq + 1) % SeqMod
    <3>1. n \in Ids /\ n \in all_node_
      BY <1>1, <2>2 DEF IInv, TypeOK
    <3>2. src'[n] \in Ids /\ src'[n] \in enabled'
      BY <3>1, <2>5 DEF MapOK, MapTypeOK, FlagsAgree, Looked, HasCurLooker, NOID
    <3>3. frames_'[src'[n]] = IF src'[n] = id THEN f ELSE frames_[src'[n]]
      BY <3>2, <1>4
    <3>4. CASE n \in switched
      BY <3>1, <3>3, <3>4, <2>1, <2>2
    <3>5. CASE n \notin switched
      <4>1. ctx'[n] = ctx[n] /\ src'[n] = src[n] /\ n \in fresh
        BY <3>1, <3>5, <2>2
      <4>2. /\ src[n] \notin popping /\ ctx[n].base_seq \in frames_[src[n]]
            /\ ctx[n].base_seq \in Key /\ ctx[n].last_seq = (ctx[n].seq + 1) % SeqMod
        BY <4>1, <2>5 DEF IInv, FreshHasKeyFrame
      <4> QED
        BY <4>1, <4>2, <3>3
    <3> QED
      BY <3>4, <3>5
  <2>6. FreshHasKeyFrame'
    BY <2>5 DEF FreshHasKeyFrame, NOID, SeqMod
  <2> QED
    BY <2>7, <2>4, <2>6 DEF IInv, SrcChangedHasFrame
<1> QED
  BY <1>5, <1>6

\* A packet comes while the loop rests.
LEMMA IncomingKeeps ==
  ASSUME IInv, MapOK, MapOK', NEW id \in Ids, NEW seq \in 0..MaxSeq, OnIncomingPacket(id, seq)
  PROVE  IInv'
<1>1. popping = {} /\ popping' = {} /\ id \in all_node_ /\ id \in enabled /\ UNCHANGED <<stage, readies>>
  BY DEF OnIncomingPacket
<1>2. frames_[id] \in SUBSET (0..MaxSeq)
  BY DEF IInv, TypeOK
<1>3. \A n \in fresh : src[n] = id => ctx[n].base_seq \in frames_[id]
  BY VideoForwardAssumption, IdsAssumption DEF IInv, FreshHasKeyFrame, NOID
<1>4. CASE id \in has_looker
  <2>1. Queue(id, frames_[id] \cup {seq}, FirstIsKeyFrame(frames_[id] \cup {seq}))
    BY <1>4 DEF OnIncomingPacket, PushPacketWhenHasLooker, CheckPrepared
  <2>2. FirstIsKeyFrame(frames_[id] \cup {seq}) \in BOOLEAN
    BY DEF FirstIsKeyFrame
  <2> QED
    BY <1>1, <1>2, <1>3, <2>1, <2>2, QueueKeeps
<1>5. CASE id \notin has_looker
  <2>1. \A n \in fresh : src[n] # id
    BY <1>5, <1>1 DEF MapOK, FlagsAgree, HasCurLooker, IInv, TypeOK
  <2>2. CASE seq \in Key
    <3>1. Queue(id, {seq}, TRUE)
      BY <1>5, <2>2 DEF OnIncomingPacket, PushPacketWhenNoLooker
    <3>2. FirstIsKeyFrame({seq})
      BY <2>2, TopPacket DEF FirstIsKeyFrame
    <3> QED
      BY <1>1, <2>1, <3>1, <3>2, QueueKeeps
  <2>3. CASE seq \notin Key
    <3> DEFINE g == IF FirstIsKeyFrame(frames_[id]) THEN frames_[id] \cup {seq} ELSE frames_[id]
    <3>1. Queue(id, g, FALSE)
      BY <1>5, <2>3 DEF OnIncomingPacket, PushPacketWhenNoLooker
    <3>2. g \in SUBSET (0..MaxSeq)
      BY <1>2
    <3> HIDE DEF g
    <3> QED
      BY <1>1, <2>1, <3>1, <3>2, QueueKeeps
  <2> QED
    BY <2>2, <2>3
<1> QED
  BY <1>4, <1>5

\* The loop pops a queue: whoever is fresh shows another, popped before.
LEMMA PopKeeps ==
  ASSUME IInv, MapOK, MapOK', NEW id \in Ids, PopPacket(id)
  PROVE  IInv'
<1>1. /\ popping' = popping \ {id} /\ UNCHANGED <<stage, readies>> /\ popping \subseteq Nat /\ popping # {}
      /\ id = First(popping)
  BY VideoForwardAssumption, IdsAssumption DEF PopPacket, IInv, TypeOK, MapOK, MapTypeOK
<1>2. id \in popping
  <2>1. First(popping) \in popping
    BY <1>1, FirstOfNumbers, VideoForwardAssumption, IdsAssumption
  <2> QED
    BY <1>1, <2>1 DEF First
<1>3. CASE id \in enabled /\ frames_[id] # {}
  <2> DEFINE g == frames_[id] \ {First(frames_[id])}
  <2>1. g \in SUBSET (0..MaxSeq)
    BY DEF IInv, TypeOK
  <2>2. Queue(id, g, FirstIsKeyFrame(g))
    BY <1>3 DEF PopPacket, CheckPrepared
  <2>3. FirstIsKeyFrame(g) \in BOOLEAN
    BY DEF FirstIsKeyFrame
  <2>4. \A n \in fresh : src[n] # id
    BY <1>2, VideoForwardAssumption, IdsAssumption DEF IInv, FreshHasKeyFrame, NOID
  <2> HIDE DEF g
  <2> QED
    BY <1>1, <1>3, <2>1, <2>2, <2>3, <2>4, QueueKeeps
<1>4. CASE ~(id \in enabled /\ frames_[id] # {})
  <2>1. UNCHANGED <<mapVars, frames_, ctx, fresh, noFrame>>
    BY <1>4 DEF PopPacket
  <2> QED
    BY <1>1, <2>1 DEF IInv, TypeOK, SrcChangedHasFrame, FreshHasKeyFrame, mapVars, graph, NOID, SeqMod
<1> QED
  BY <1>3, <1>4

\* ForwardData serves everybody who is fresh and has a source.
LEMMA ForwardKeeps ==
  ASSUME IInv, MapOK, ForwardData
  PROVE  IInv'
<1> DEFINE viewers == {n \in all_node_ : src[n] \in enabled /\ frames_[src[n]] # {}}
           seqOf(n) == (First(frames_[src[n]]) - ctx[n].base_seq + ctx[n].last_seq) % SeqMod
<1>1. /\ ctx' = [n \in Ids |-> IF n \in viewers THEN [ctx[n] EXCEPT !.seq = seqOf(n)] ELSE ctx[n]]
      /\ fresh' = fresh \ viewers /\ popping' = all_node_
      /\ UNCHANGED <<mapVars, stage, readies, frames_, noFrame>>
  BY DEF ForwardData
<1>2. all_node_ \subseteq Ids
  BY DEF MapOK, MapTypeOK
<1>3. \A n \in Ids : ctx[n] \in [seq : 0..MaxSeq, base_seq : 0..MaxSeq, last_seq : 0..MaxSeq]
  BY DEF IInv, TypeOK
<1>4. ASSUME NEW n \in viewers PROVE seqOf(n) \in 0..MaxSeq
  <2>1. First(frames_[src[n]]) \in 0..MaxSeq
    <3>1. frames_[src[n]] \in SUBSET (0..MaxSeq) /\ frames_[src[n]] # {}
      BY DEF IInv, TypeOK, MapOK, MapTypeOK
    <3> QED
      BY <3>1, TopPacket
  <2>2. n \in Ids
    BY <1>2
  <2> QED
    BY <2>1, <2>2, <1>3, SeqModRange, VideoForwardAssumption, IdsAssumption
<1>5. ctx' \in [Ids -> [seq : 0..MaxSeq, base_seq : 0..MaxSeq, last_seq : 0..MaxSeq]]
  <2> HIDE DEF viewers, seqOf
  <2> QED
    BY <1>1, <1>3, <1>4
<1>6. TypeOK'
  BY <1>1, <1>5 DEF IInv, TypeOK, mapVars, graph
<1>7. \A n \in fresh' : src[n] = NOID
  <2> SUFFICES ASSUME NEW n \in fresh, src[n] # NOID PROVE n \in viewers
    BY <1>1
  <2>1. n \in all_node_ /\ n \in Ids
    BY <1>2 DEF IInv, TypeOK
  <2>2. src[n] \in enabled
    BY <2>1, SourceStaysEnabled
  <2>3. frames_[src[n]] # {}
    BY DEF IInv, FreshHasKeyFrame
  <2> QED
    BY <2>1, <2>2, <2>3
<1>8. FreshHasKeyFrame'
  BY <1>1, <1>7 DEF FreshHasKeyFrame, mapVars, graph, NOID
<1> QED
  BY <1>1, <1>6, <1>8 DEF IInv, SrcChangedHasFrame

\* A stream is linked: it has no viewer yet, and no queue is disabled.
LEMMA LinkKeeps ==
  ASSUME IInv, MapOK, MapOK', NEW id \in Ids, LinkVideoStream(id)
  PROVE  IInv'
<1>1. /\ UNCHANGED <<stage, popping, fresh, noFrame>> /\ readies < MaxReady /\ readies' = readies + 1
      /\ popping = {}
  BY DEF LinkVideoStream
<1>2. readies' \in 0..MaxReady
  BY <1>1, VideoForwardAssumption, IdsAssumption DEF IInv, TypeOK
<1>3. CASE id \in all_node_
  <2>1. UNCHANGED <<mapVars, frames_, ctx>>
    BY <1>3 DEF LinkVideoStream
  <2> QED
    BY <1>1, <1>2, <2>1 DEF IInv, TypeOK, SrcChangedHasFrame, FreshHasKeyFrame, mapVars, graph, NOID, SeqMod
<1>4. CASE id \notin all_node_
  <2>1. /\ Add(id) /\ frames_' = [frames_ EXCEPT ![id] = {}] /\ ctx' = [ctx EXCEPT ![id] = NewContext]
        /\ src' = src /\ all_node_' = all_node_ \cup {id}
    BY <1>4 DEF LinkVideoStream, Add
  <2>2. enabled \subseteq enabled'
    <3>1. CASE all_node_ = {}
      BY <3>1 DEF MapOK, FlagsAgree, Looked, HasCurLooker
    <3>2. CASE all_node_ # {}
      <4>1. /\ master_ \in all_node_ /\ id # master_
            /\ expected_src' = [expected_src EXCEPT ![id] = master_,
                                 ![master_] = IF all_node_ = {master_} THEN id ELSE @]
        BY <2>1, <3>2, <1>4 DEF Add, MapOK, MapTypeOK
      <4>2. /\ expected_src'[id] = master_ /\ id \in all_node_' /\ all_node_ \subseteq all_node_'
            /\ \A n \in all_node_ \ {master_} : expected_src'[n] = expected_src[n]
            /\ all_node_ # {master_} => expected_src'[master_] = expected_src[master_]
        BY <4>1, <2>1, <1>4 DEF MapOK, MapTypeOK
      <4>3. ASSUME NEW q \in enabled PROVE q \in Looked'
        <5>1. q \in all_node_ /\ \E m \in all_node_ : src[m] = q \/ expected_src[m] = q
          BY DEF MapOK, FlagsAgree, Looked, HasCurLooker
        <5>2. q = master_ => q \in Looked'
          BY <4>1, <4>2 DEF Looked, HasCurLooker
        <5>3. q # master_ => q \in Looked'
          BY <5>1, <4>2, <2>1 DEF Looked, HasCurLooker
        <5> QED
          BY <5>2, <5>3
      <4> QED
        BY <4>3 DEF MapOK, FlagsAgree
    <3> QED
      BY <3>1, <3>2
  <2>3. NewContext \in [seq : 0..MaxSeq, base_seq : 0..MaxSeq, last_seq : 0..MaxSeq]
    BY VideoForwardAssumption, IdsAssumption DEF NewContext, SeqMod
  <2>4. TypeOK'
    BY <1>1, <1>2, <2>1, <2>2, <2>3 DEF IInv, TypeOK
  <2>5. \A n \in fresh : n # id /\ src[n] # id /\ n \in Ids /\ (src[n] # NOID => src[n] \in Ids)
    <3>1. NOID \notin Ids
      BY VideoForwardAssumption, IdsAssumption DEF NOID
    <3>2. fresh \subseteq all_node_ /\ all_node_ \subseteq Ids /\ src \in [Ids -> all_node_ \cup {NOID}]
      BY DEF IInv, TypeOK, MapOK, MapTypeOK
    <3> QED
      BY <1>4, <3>1, <3>2
  <2>6. FreshHasKeyFrame'
    BY <1>1, <2>1, <2>5 DEF IInv, TypeOK, FreshHasKeyFrame, NOID, SeqMod
  <2> QED
    BY <1>1, <2>4, <2>6 DEF IInv, SrcChangedHasFrame
<1> QED
  BY <1>3, <1>4

\* Queues that nobody looks at any more are emptied, and a stream may go: what
\* the remaining viewers show is kept, or they show nothing.
LEMMA DisabledKeeps ==
  ASSUME IInv, MapOK', NEW gone \in SUBSET Ids,
         frames_' = [q \in Ids |-> IF q \in gone \/ q \in enabled \ enabled' THEN {} ELSE frames_[q]],
         fresh' = fresh \ gone, popping = {}, popping' = {}, all_node_' = all_node_ \ gone,
         \A n \in fresh' : src'[n] = src[n] \/ src'[n] = NOID,
         UNCHANGED <<readies, ctx, noFrame>>,
         stage' \in [Ids -> {"new", "joined", "left", "unlinked", "gone"}]
  PROVE  IInv'
<1>1. TypeOK'
  BY DEF IInv, TypeOK
<1>2. ASSUME NEW n \in fresh', src'[n] # NOID
      PROVE  /\ ctx[n].base_seq \in frames_'[src'[n]]
             /\ ctx[n].base_seq \in Key /\ ctx[n].last_seq = (ctx[n].seq + 1) % SeqMod
  <2>1. /\ src'[n] = src[n] /\ n \in fresh /\ ctx[n].base_seq \in frames_[src[n]]
        /\ ctx[n].base_seq \in Key /\ ctx[n].last_seq = (ctx[n].seq + 1) % SeqMod
    BY <1>2 DEF IInv, FreshHasKeyFrame
  <2>2. n \in all_node_' /\ n \in Ids
    BY DEF IInv, TypeOK, MapOK, MapTypeOK
  <2>3. src'[n] \in all_node_' /\ src'[n] \in enabled' /\ src'[n] \in Ids
    BY <1>2, <2>2 DEF MapOK, MapTypeOK, FlagsAgree, Looked, HasCurLooker, NOID
  <2> QED
    BY <2>1, <2>3
<1>3. FreshHasKeyFrame'
  BY <1>2 DEF FreshHasKeyFrame, NOID, SeqMod
<1> QED
  BY <1>1, <1>3 DEF IInv, SrcChangedHasFrame

\* A stream is unlinked.
LEMMA UnlinkKeeps ==
  ASSUME IInv, MapOK, MapOK', NEW id \in Ids, UnlinkVideoStream(id)
  PROVE  IInv'
<1>1. /\ popping = {} /\ popping' = {} /\ fresh' = fresh \ {id} /\ UNCHANGED <<readies, ctx, noFrame>>
      /\ frames_' = [q \in Ids |-> IF q \in {id} \/ q \in enabled \ enabled' THEN {} ELSE frames_[q]]
      /\ stage' \in [Ids -> {"new", "joined", "left", "unlinked", "gone"}]
  BY DEF UnlinkVideoStream, IInv, TypeOK
<1>2. all_node_' = all_node_ \ {id}
  BY DEF UnlinkVideoStream, Remove, mapVars, graph
<1>3. \A n \in fresh' : src'[n] = src[n] \/ src'[n] = NOID
  <2>1. CASE id \notin all_node_
    BY <2>1 DEF UnlinkVideoStream, mapVars, graph
  <2>2. CASE id \in all_node_
    <3>1. RemoveLast(id) \/ RemoveMaster(id) \/ RemoveOther(id)
      BY <2>2 DEF UnlinkVideoStream, Remove
    <3>2. CASE RemoveLast(id)
      BY <3>2, <1>1 DEF RemoveLast, IInv, TypeOK
    <3>3. CASE RemoveMaster(id) \/ RemoveOther(id)
      BY <3>3, <1>1 DEF RemoveMaster, RemoveOther, Unbind, IInv, TypeOK, MapOK, MapTypeOK
    <3> QED
      BY <3>1, <3>2, <3>3
  <2> QED
    BY <2>1, <2>2
<1> QED
  BY <1>1, <1>2, <1>3, DisabledKeeps

\* Another stream becomes the master.
LEMMA SpeakerKeeps ==
  ASSUME IInv, MapOK, MapOK', NEW id \in Ids, ChangeToSpeaker(id)
  PROVE  IInv'
<1>1. /\ popping = {} /\ popping' = {} /\ fresh' = fresh \ {} /\ UNCHANGED <<readies, ctx, noFrame>>
      /\ frames_' = [q \in Ids |-> IF q \in {} \/ q \in enabled \ enabled' THEN {} ELSE frames_[q]]
      /\ stage' \in [Ids -> {"new", "joined", "left", "unlinked", "gone"}]
  BY DEF ChangeToSpeaker, IInv, TypeOK
<1>2. all_node_' = all_node_ \ {} /\ src' = src
  BY DEF ChangeToSpeaker, SetMaster
<1> QED
  BY <1>1, <1>2, DisabledKeeps

\* The element, its queues and the room keep the invariant.
LEMMA NextKeeps ==
  ASSUME IInv, MapOK, MapOK', [Next]_vars
  PROVE  IInv'
<1>1. CASE UNCHANGED vars
  BY <1>1 DEF vars, mapVars, graph, IInv, TypeOK, SrcChangedHasFrame, FreshHasKeyFrame, NOID, SeqMod
<1>2. CASE ForwardData
  BY <1>2, ForwardKeeps
<1>3. ASSUME NEW id \in Ids, AddParticipant(id) \/ RemoveParticipant(id) \/ Stop(id)
      PROVE  IInv'
  BY <1>3 DEF AddParticipant, RemoveParticipant, Stop, mapVars, graph, IInv, TypeOK, SrcChangedHasFrame,
              FreshHasKeyFrame, NOID, SeqMod
<1>4. ASSUME NEW id \in Ids, LinkVideoStream(id) \/ UnlinkVideoStream(id) \/ ChangeToSpeaker(id)
      PROVE  IInv'
  BY <1>4, LinkKeeps, UnlinkKeeps, SpeakerKeeps
<1>5. ASSUME NEW id \in Ids, PopPacket(id) \/ \E seq \in 0..MaxSeq : OnIncomingPacket(id, seq)
      PROVE  IInv'
  BY <1>5, PopKeeps, IncomingKeeps
<1> QED
  BY <1>1, <1>2, <1>3, <1>4, <1>5 DEF Next

\* What a step that serves a fresh viewer sends it.
LEMMA FreshIsServed ==
  ASSUME IInv, MapOK, [Next]_vars, NEW n \in (fresh \ fresh') \cap all_node_'
  PROVE  LET f == First(frames_[src[n]])
         IN  f < ctx[n].base_seq
             \/ (f = ctx[n].base_seq /\ f \in Key /\ ctx'[n].seq = (ctx[n].seq + 1) % SeqMod)
<1> DEFINE f == First(frames_[src[n]])
<1>1. ForwardData
  <2>1. ASSUME NEW id \in Ids, NEW g, NEW p, Queue(id, g, p)
        PROVE  fresh \subseteq fresh'
    BY <2>1 DEF Queue, SrcChanged
  <2>2. ASSUME NEW id \in Ids, PopPacket(id) \/ \E seq \in 0..MaxSeq : OnIncomingPacket(id, seq)
        PROVE  fresh \subseteq fresh'
    BY <2>1, <2>2 DEF PopPacket, OnIncomingPacket, PushPacketWhenHasLooker, PushPacketWhenNoLooker, CheckPrepared
  <2>3. ASSUME NEW id \in Ids,
               \/ AddParticipant(id) \/ LinkVideoStream(id) \/ ChangeToSpeaker(id)
               \/ RemoveParticipant(id) \/ Stop(id)
        PROVE  fresh = fresh'
    BY <2>3 DEF AddParticipant, LinkVideoStream, ChangeToSpeaker, RemoveParticipant, Stop
  <2>4. ASSUME NEW id \in Ids, UnlinkVideoStream(id)
        PROVE  fresh' = fresh \ {id} /\ id \notin all_node_'
    BY <2>4 DEF UnlinkVideoStream, Remove, mapVars, graph
  <2>5. UNCHANGED vars => fresh = fresh'
    BY DEF vars
  <2> QED
    BY <2>2, <2>3, <2>4, <2>5 DEF Next
<1>2. /\ n \in all_node_ /\ src[n] \in enabled /\ frames_[src[n]] # {}
      /\ ctx'[n].seq = (f - ctx[n].base_seq + ctx[n].last_seq) % SeqMod /\ n \in Ids /\ src[n] \in Ids
  BY <1>1 DEF ForwardData, IInv, TypeOK, MapOK, MapTypeOK
<1>3. ctx[n] \in [seq : 0..MaxSeq, base_seq : 0..MaxSeq, last_seq : 0..MaxSeq]
  BY <1>2 DEF IInv, TypeOK
<1>4. /\ ctx[n].base_seq \in Key /\ ctx[n].base_seq \in frames_[src[n]]
      /\ ctx[n].last_seq = (ctx[n].seq + 1) % SeqMod
  BY <1>2, VideoForwardAssumption, IdsAssumption DEF IInv, FreshHasKeyFrame, NOID
<1>5. f \in 0..MaxSeq /\ f <= ctx[n].base_seq
  <2>1. frames_[src[n]] \in SUBSET (0..MaxSeq)
    BY <1>2 DEF IInv, TypeOK
  <2> QED
    BY <2>1, <1>2, <1>4, TopPacket
<1>6. CASE f = ctx[n].base_seq
  <2> HIDE DEF f
  <2>1. f - ctx[n].base_seq + ctx[n].last_seq = ctx[n].last_seq
    BY <1>3, <1>5, <1>6, VideoForwardAssumption, IdsAssumption
  <2>2. ctx[n].last_seq % SeqMod = ctx[n].last_seq
    BY <1>3, SeqModRange, VideoForwardAssumption, IdsAssumption
  <2> QED
    BY <1>2, <1>4, <1>6, <2>1, <2>2 DEF f
<1> QED
  BY <1>3, <1>5, <1>6, VideoForwardAssumption, IdsAssumption

\* After a change of source the viewer is given the key frame it was switched at,
\* with the next number: for every number of streams, every range of sequence
\* numbers and every order, loss and repetition of packets (SrcChanged,
\* ForwardData, PopPacket).
THEOREM SwitchSound == Spec => SwitchIsSound
<1>1. Init => IInv
  BY VideoForwardAssumption, IdsAssumption DEF Init, IInv, TypeOK, SrcChangedHasFrame, FreshHasKeyFrame, NewContext, SeqMod, MapInit
<1>2. IInv /\ MapOK /\ MapOK' /\ [Next]_vars => IInv'
  BY NextKeeps
<1>3. Spec => []IInv
  BY <1>1, <1>2, MapIsOK, PTL DEF Spec
<1>4. IInv /\ MapOK /\ [Next]_vars =>
        [\A n \in (fresh \ fresh') \cap all_node_' :
           LET f == First(frames_[src[n]])
           IN  f < ctx[n].base_seq
               \/ (f = ctx[n].base_seq /\ f \in Key /\ ctx'[n].seq = (ctx[n].seq + 1) % SeqMod)]_vars
  BY FreshIsServed
<1>5. Spec => SwitchStartsAtKeyFrame
  BY <1>3, <1>4, MapIsOK, PTL DEF Spec, SwitchStartsAtKeyFrame
<1>6. IInv => TypeOK /\ SrcChangedHasFrame
  BY DEF IInv
<1> QED
  BY <1>3, <1>5, <1>6, PTL DEF SwitchIsSound

-------------------------------------------------------------------------------
(* VideoForwardElement.                                                      *)

OldIdsOrNone == OldIds \cup {Old!None}
Buffers == [type : {"NORMAL", "STORAGE", "PLAY"}, q : Seq({"key", "delta"}), has_key_frame_ : BOOLEAN]
Contexts == [stream_id : OldIdsOrNone, new_stream_id : OldIdsOrNone, changing_ : BOOLEAN, based : BOOLEAN]
Elements == [linked : SUBSET OldIds, buffer : [OldIds -> Buffers], context : [OldIds -> Contexts],
             current_viewer_ : OldIdsOrNone, new_viewer_ : OldIdsOrNone, changing_ : BOOLEAN]

\* The variables of the element, with what is not linked untouched.
ElementType ==
  /\ Old!Element \in Elements /\ left \subseteq OldIds /\ IsFiniteSet(linked)
  /\ shown \in [OldIds -> {"none", "key", "delta"}]
  /\ \A n \in OldIds \ linked : context[n] = Old!NoContext /\ shown[n] = "none"

\* The viewer to come is there only while the element is changing.
PendingIsChanging == new_viewer_ # Old!None => changing_

\* Whoever sees somebody else has a base.
OthersAreBased == \A n \in linked : context[n].stream_id \notin {Old!None, n} => context[n].based

\* Whoever was given nothing yet of another stream, its source, waits until that
\* stream plays, and so until its buffer starts with a key frame.
UnshownWaits ==
  \A n \in linked : /\ shown[n] = "none"
                    /\ context[n].stream_id \notin {Old!None, n}
                    => buffer[context[n].stream_id].type # "PLAY"

\* The inductive invariant: the property with what keeps the viewer to come, the
\* bases and the first packets right.
ElementInv ==
  /\ ElementType /\ PendingIsChanging /\ OthersAreBased /\ UnshownWaits
  /\ ElementIsSound

LEMMA OldNone == Old!None \notin OldIds /\ OldIds \subseteq Nat /\ Old!None = -1
BY ConferenceAssumption DEF Old!ElementAssumption, Old!None

\* video_queues_.begin().
LEMMA OldFirst ==
  ASSUME NEW S \in SUBSET OldIds, S # {}
  PROVE  Old!First(S) \in S
<1>1. S \in SUBSET Nat
  BY OldNone
<1>2. First(S) \in S /\ \A y \in S : First(S) <= y
  BY <1>1, FirstOfNumbers
<1> QED
  BY <1>2 DEF Old!First

\* NewBuffer and an empty context have their types.
LEMMA NewTypes ==
  /\ \A t \in {"NORMAL", "STORAGE", "PLAY"} :
       Old!NewBuffer(t) \in Buffers /\ Old!NewBuffer(t).type = t /\ Old!NewBuffer(t).q = <<>>
  /\ Old!NoContext \in Contexts /\ Old!NoContext.stream_id = Old!None
  /\ ~Old!NoContext.changing_
BY DEF Old!NewBuffer, Buffers, Old!NoContext, Contexts, OldIdsOrNone

\* What SwitchPublisher(p) makes of the element e: nobody has another source, no
\* more buffers play, and whom it makes wait, waits for p.
Switched(s, e, p) ==
  /\ s \in Elements /\ s.linked = e.linked /\ s.current_viewer_ = e.current_viewer_
  /\ s.new_viewer_ = e.new_viewer_ \/ (s.new_viewer_ = p /\ s.changing_)
  /\ e.changing_ => s.changing_
  /\ \A n \in OldIds : s.buffer[n] = e.buffer[n] \/ s.buffer[n] = Old!NewBuffer("STORAGE")
  /\ \A n \in OldIds : /\ s.context[n].stream_id = e.context[n].stream_id
                       /\ s.context[n].based = e.context[n].based
                       /\ s.context[n] = e.context[n] \/ s.context[n].new_stream_id = p
                       /\ n \notin e.linked => s.context[n] = e.context[n]

LEMMA SwitchPublisherKeeps ==
  ASSUME NEW e \in Elements, NEW p \in OldIds
  PROVE  Switched(Old!SwitchPublisher(e, p), e, p)
<1>1. CASE p \in {e.current_viewer_, e.new_viewer_}
  <2>1. Old!SwitchPublisher(e, p) = e
    BY <1>1 DEF Old!SwitchPublisher
  <2> QED
    BY <2>1 DEF Switched
<1>2. CASE p \notin {e.current_viewer_, e.new_viewer_}
  <2> DEFINE b == [e.buffer EXCEPT ![p] = IF @.type = "NORMAL" THEN Old!NewBuffer("STORAGE") ELSE @]
             c == [n \in OldIds |-> IF n \in e.linked \ {p} /\ e.context[n].stream_id # p
                                    THEN [e.context[n] EXCEPT !.new_stream_id = p, !.changing_ = TRUE]
                                    ELSE e.context[n]]
             s == Old!SwitchPublisher(e, p)
  <2>1. s = [e EXCEPT !.new_viewer_ = p, !.changing_ = TRUE, !.buffer = b, !.context = c]
    BY <1>2 DEF Old!SwitchPublisher
  <2>2. b \in [OldIds -> Buffers] /\ \A n \in OldIds : b[n] = e.buffer[n] \/ b[n] = Old!NewBuffer("STORAGE")
    BY NewTypes DEF Elements
  <2>3. ASSUME NEW n \in OldIds
        PROVE  /\ c[n] \in Contexts /\ c[n].stream_id = e.context[n].stream_id
               /\ c[n].based = e.context[n].based
               /\ c[n] = e.context[n] \/ c[n].new_stream_id = p
               /\ n \notin e.linked => c[n] = e.context[n]
    <3>1. e.context[n] \in Contexts /\ p \in OldIdsOrNone
      BY DEF Elements, OldIdsOrNone
    <3> QED
      BY <3>1 DEF Contexts
  <2>4. c \in [OldIds -> Contexts]
    BY <2>3
  <2> HIDE DEF b, c
  <2>5. /\ s \in Elements /\ s.linked = e.linked /\ s.current_viewer_ = e.current_viewer_
        /\ s.new_viewer_ = p /\ s.changing_ = TRUE /\ s.buffer = b /\ s.context = c
    BY <2>1, <2>2, <2>4 DEF Elements, OldIdsOrNone
  <2> QED
    BY <2>5, <2>2, <2>3 DEF Switched
<1> QED
  BY <1>1, <1>2

\* Unlinked takes away one stream and, if it was to come, the viewer to come.
LEMMA UnlinkedIs ==
  ASSUME NEW e \in Elements, NEW id \in OldIds, e.new_viewer_ # Old!None => e.changing_
  PROVE  LET u == Old!Unlinked(e, id)
         IN  /\ u \in Elements /\ u.linked = e.linked \ {id} /\ u.current_viewer_ = e.current_viewer_
             /\ u.new_viewer_ = IF e.new_viewer_ = id THEN Old!None ELSE e.new_viewer_
             /\ u.new_viewer_ # Old!None => u.changing_
             /\ u.buffer = [e.buffer EXCEPT ![id] = Old!NewBuffer("NORMAL")]
             /\ u.context = [e.context EXCEPT ![id] = Old!NoContext]
<1> DEFINE pending == e.changing_ /\ e.new_viewer_ = id
           b == [e.buffer EXCEPT ![id] = Old!NewBuffer("NORMAL")]
           c == [e.context EXCEPT ![id] = Old!NoContext]
<1>1. Old!Unlinked(e, id) = [e EXCEPT !.linked = @ \ {id}, !.buffer = b, !.context = c,
                                      !.new_viewer_ = IF pending THEN Old!None ELSE @,
                                      !.changing_ = @ /\ ~pending]
  BY DEF Old!Unlinked
<1>2. b \in [OldIds -> Buffers] /\ c \in [OldIds -> Contexts]
  BY NewTypes DEF Elements
<1>3. pending <=> e.new_viewer_ = id
  BY OldNone
<1> HIDE DEF b, c, pending
<1>4. /\ Old!Unlinked(e, id) \in Elements
      /\ Old!Unlinked(e, id).linked = e.linked \ {id}
      /\ Old!Unlinked(e, id).current_viewer_ = e.current_viewer_
      /\ Old!Unlinked(e, id).new_viewer_ = IF e.new_viewer_ = id THEN Old!None ELSE e.new_viewer_
      /\ Old!Unlinked(e, id).changing_ = (e.changing_ /\ e.new_viewer_ # id)
      /\ Old!Unlinked(e, id).buffer = b /\ Old!Unlinked(e, id).context = c
  BY <1>1, <1>2, <1>3 DEF Elements, OldIdsOrNone
<1> QED
  BY <1>4 DEF b, c

\* A packet is queued, dropped or starts the queue anew; no buffer changes its type.
LEMMA PushedIs ==
  ASSUME NEW b \in Buffers, NEW p \in {"key", "delta"}
  PROVE  /\ Old!Pushed(b, p) \in Buffers /\ Old!Pushed(b, p).type = b.type
         /\ Len(Old!Pushed(b, p).q) <= Len(b.q) + 1
<1>1. b.type \in {"NORMAL", "STORAGE", "PLAY"} /\ b.q \in Seq({"key", "delta"}) /\ b.has_key_frame_ \in BOOLEAN
  BY DEF Buffers
<1>2. <<>> \in Seq({"key", "delta"}) /\ <<p>> \in Seq({"key", "delta"}) /\ Append(b.q, p) \in Seq({"key", "delta"})
      /\ Len(<<>>) = 0 /\ Len(<<p>>) = 1 /\ Len(Append(b.q, p)) = Len(b.q) + 1 /\ Len(b.q) \in Nat
  BY <1>1
<1>3. \/ Old!Pushed(b, p) = b
      \/ Old!Pushed(b, p) = [b EXCEPT !.q = <<>>]
      \/ Old!Pushed(b, p) = [b EXCEPT !.q = <<p>>, !.has_key_frame_ = TRUE]
      \/ Old!Pushed(b, p) = [b EXCEPT !.q = Append(b.q, p)]
  BY <1>1 DEF Old!Pushed
<1>4. ASSUME NEW x \in Seq({"key", "delta"}), NEW k \in BOOLEAN
      PROVE  /\ [b EXCEPT !.q = x] \in Buffers /\ [b EXCEPT !.q = x].type = b.type
             /\ [b EXCEPT !.q = x].q = x
             /\ [b EXCEPT !.q = x, !.has_key_frame_ = k] \in Buffers
             /\ [b EXCEPT !.q = x, !.has_key_frame_ = k].type = b.type
             /\ [b EXCEPT !.q = x, !.has_key_frame_ = k].q = x
  BY <1>1 DEF Buffers
<1>5. Len(b.q) <= Len(b.q) + 1 /\ 0 <= Len(b.q) + 1 /\ 1 <= Len(b.q) + 1
  BY <1>2
<1>6. CASE Old!Pushed(b, p) = b
  BY <1>5, <1>6
<1>7. CASE Old!Pushed(b, p) = [b EXCEPT !.q = <<>>]
  BY <1>2, <1>4, <1>5, <1>7
<1>8. CASE Old!Pushed(b, p) = [b EXCEPT !.q = <<p>>, !.has_key_frame_ = TRUE]
  BY <1>2, <1>4, <1>5, <1>8
<1>9. CASE Old!Pushed(b, p) = [b EXCEPT !.q = Append(b.q, p)]
  <2> DEFINE x == Append(b.q, p)
  <2>1. x \in Seq({"key", "delta"}) /\ Len(x) <= Len(b.q) + 1
    BY <1>2
  <2>2. Old!Pushed(b, p) = [b EXCEPT !.q = x]
    BY <1>9
  <2> HIDE DEF x
  <2> QED
    BY <2>1, <2>2, <1>4
<1> QED
  BY <1>3, <1>6, <1>7, <1>8, <1>9

LEMMA OldIncomingKeeps ==
  ASSUME ElementInv, NEW id \in OldIds, NEW p \in {"key", "delta"}, Old!OnIncomingPacket(id, p)
  PROVE  ElementInv'
<1>1. buffer \in [OldIds -> Buffers] /\ MaxOldQueue \in Nat
  BY ConferenceAssumption DEF ElementInv, ElementType, Elements, Old!Element, Old!ElementAssumption
<1>2. buffer' = [buffer EXCEPT ![id] = Old!Pushed(buffer[id], p)]
      /\ UNCHANGED <<linked, context, current_viewer_, new_viewer_, changing_, left, shown, baseless, switches>>
      /\ Len(buffer[id].q) < MaxOldQueue
  BY DEF Old!OnIncomingPacket, Old!viewers
<1>3. buffer' \in [OldIds -> Buffers] /\ \A n \in OldIds : buffer'[n].type = buffer[n].type
  BY <1>1, <1>2, PushedIs
<1>4. Len(Old!Pushed(buffer[id], p).q) <= MaxOldQueue
  <2>1. Len(Old!Pushed(buffer[id], p).q) <= Len(buffer[id].q) + 1
    BY <1>1, PushedIs
  <2>2. Old!Pushed(buffer[id], p).q \in Seq({"key", "delta"}) /\ buffer[id].q \in Seq({"key", "delta"})
    BY <1>1, PushedIs DEF Buffers
  <2>3. Len(Old!Pushed(buffer[id], p).q) \in Nat /\ Len(buffer[id].q) \in Nat
    BY <2>2
  <2> QED
    BY <2>1, <2>3, <1>1, <1>2
<1>5. ElementType'
  <2>1. Old!Element' \in Elements
    BY <1>2, <1>3 DEF ElementInv, ElementType, Elements, Old!Element
  <2> QED
    BY <2>1, <1>2 DEF ElementInv, ElementType
<1>6. PendingIsChanging' /\ OthersAreBased'
  BY <1>2 DEF ElementInv, PendingIsChanging, OthersAreBased
<1>7. UnshownWaits'
  <2>1. \A n \in linked : context[n].stream_id \in OldIds \cup {Old!None}
    BY DEF ElementInv, ElementIsSound, Old!SourceIsLinked, ElementType, Elements, Old!Element
  <2> QED
    BY <2>1, <1>2, <1>3 DEF ElementInv, UnshownWaits
<1>8. Old!TypeOK'
  <2>1. \A n \in OldIds : buffer'[n].type \in {"NORMAL", "STORAGE", "PLAY"}
    BY <1>3 DEF Buffers
  <2>2. \A n \in OldIds : Len(buffer'[n].q) <= MaxOldQueue
    BY <1>1, <1>2, <1>4 DEF ElementInv, ElementIsSound, Old!TypeOK
  <2> QED
    BY <2>1, <2>2, <1>2 DEF ElementInv, ElementIsSound, Old!TypeOK
<1>9. Old!ViewersAreLinked' /\ Old!SourceIsLinked' /\ Old!ShownFromKeyFrame' /\ Old!BaseIsSet'
  BY <1>2 DEF ElementInv, ElementIsSound, Old!ViewersAreLinked, Old!SourceIsLinked, Old!ShownFromKeyFrame, Old!BaseIsSet
<1> QED
  BY <1>5, <1>6, <1>7, <1>8, <1>9 DEF ElementInv, ElementIsSound

LEMMA OldLinkKeeps ==
  ASSUME ElementInv, NEW id \in OldIds, Old!LinkVideoStream(id)
  PROVE  ElementInv'
<1> DEFINE viewer == IF current_viewer_ = Old!None THEN id ELSE current_viewer_
           entry  == [Old!NoContext EXCEPT !.new_stream_id = viewer, !.changing_ = TRUE]
           start  == buffer'[id]
<1>1. /\ linked \subseteq OldIds /\ buffer \in [OldIds -> Buffers] /\ context \in [OldIds -> Contexts]
      /\ current_viewer_ \in OldIdsOrNone /\ new_viewer_ \in OldIdsOrNone /\ changing_ \in BOOLEAN
      /\ shown \in [OldIds -> {"none", "key", "delta"}] /\ IsFiniteSet(linked) /\ left \subseteq OldIds
      /\ MaxOldQueue \in Nat
  BY ConferenceAssumption DEF ElementInv, ElementType, Elements, Old!Element, Old!ElementAssumption
<1>2. id \notin linked
  BY DEF Old!LinkVideoStream
<1>3. /\ linked' = linked \cup {id} /\ current_viewer_' = viewer /\ changing_' = TRUE
      /\ UNCHANGED <<new_viewer_, left, shown, baseless, switches>>
  BY DEF Old!LinkVideoStream
<1>4. /\ buffer' \in [OldIds -> Buffers] /\ start.q = <<>>
      /\ \A n \in OldIds \ {id} : buffer'[n] = buffer[n]
  <2>1. PICK t \in {"NORMAL", "STORAGE", "PLAY"} : buffer' = [buffer EXCEPT ![id] = Old!NewBuffer(t)]
    BY DEF Old!LinkVideoStream
  <2> QED
    BY <2>1, <1>1, NewTypes
<1>5. viewer \in OldIds /\ viewer \in linked \cup {id} /\ viewer # Old!None /\ id # Old!None
  BY <1>1, OldNone DEF ElementInv, ElementIsSound, Old!ViewersAreLinked
<1>6. entry \in Contexts /\ entry.stream_id = Old!None /\ entry.new_stream_id = viewer /\ entry.changing_ = TRUE
  BY <1>5 DEF Old!NoContext, Contexts, OldIdsOrNone
<1> DEFINE alone == context[viewer].stream_id = viewer /\ context[viewer].new_stream_id = Old!None
           seen  == [context[viewer] EXCEPT !.new_stream_id = id, !.changing_ = TRUE]
<1>7. context' = [n \in OldIds |-> CASE n = id -> entry
                                     [] n = viewer /\ n # id /\ alone -> [context[n] EXCEPT !.new_stream_id = id, !.changing_ = TRUE]
                                     [] OTHER -> context[n]]
  BY DEF Old!LinkVideoStream
<1>8. seen \in Contexts /\ seen.stream_id = context[viewer].stream_id /\ seen.based = context[viewer].based
      /\ seen.new_stream_id = id
  BY <1>1, <1>5 DEF Contexts, OldIdsOrNone
<1>9. /\ context'[id] = entry
      /\ \A n \in OldIds \ {id} : context'[n] = context[n] \/ (n = viewer /\ context'[n] = seen)
  BY <1>7
<1> HIDE DEF viewer, entry, alone, seen, start
<1>10. /\ context' \in [OldIds -> Contexts]
       /\ \A n \in OldIds \ {id} : /\ context'[n].stream_id = context[n].stream_id
                                   /\ context'[n].based = context[n].based
                                   /\ context'[n] = context[n] \/ context'[n].new_stream_id = id
       /\ \A n \in OldIds \ linked' : context'[n] = context[n]
  <2>1. ASSUME NEW n \in OldIds \ {id}
        PROVE  /\ context'[n] \in Contexts /\ context'[n].stream_id = context[n].stream_id
               /\ context'[n].based = context[n].based
               /\ context'[n] = context[n] \/ context'[n].new_stream_id = id
               /\ n \notin linked => context'[n] = context[n]
    BY <1>1, <1>5, <1>8, <1>9
  <2>2. context' = [n \in OldIds |-> context'[n]]
    BY <1>7
  <2>3. \A n \in OldIds : context'[n] \in Contexts
    BY <2>1, <1>6, <1>9
  <2> QED
    BY <2>1, <2>2, <2>3, <1>3
<1>11. ElementType'
  <2>1. IsFiniteSet(linked')
    BY <1>1, <1>3, FS_AddElement
  <2>2. Old!Element' \in Elements
    BY <1>1, <1>3, <1>4, <1>5, <1>10 DEF Elements, Old!Element, OldIdsOrNone
  <2>3. shown' \in [OldIds -> {"none", "key", "delta"}] /\ left' \subseteq OldIds
    BY <1>1, <1>3
  <2>4. \A n \in OldIds \ linked' : context'[n] = Old!NoContext /\ shown'[n] = "none"
    BY <1>3, <1>10 DEF ElementInv, ElementType
  <2> QED
    BY <2>1, <2>2, <2>3, <2>4 DEF ElementType
<1>12. PendingIsChanging'
  BY <1>3 DEF PendingIsChanging
<1>13. ASSUME NEW n \in linked'
       PROVE  /\ n # id => n \in linked
              /\ n = id => context'[n].stream_id = Old!None /\ shown'[n] = "none"
              /\ n \in linked => context[n].stream_id \in linked \cup {Old!None} /\ n \in OldIds \ {id}
  BY <1>1, <1>2, <1>3, <1>6, <1>9 DEF ElementInv, ElementType, ElementIsSound, Old!SourceIsLinked
<1>14. OthersAreBased'
  BY <1>3, <1>10, <1>13 DEF ElementInv, OthersAreBased
<1>15. UnshownWaits'
  <2> SUFFICES ASSUME NEW n \in linked', shown'[n] = "none", context'[n].stream_id \notin {Old!None, n}
               PROVE  buffer'[context'[n].stream_id].type # "PLAY"
    BY DEF UnshownWaits
  <2>1. n \in linked /\ context'[n].stream_id = context[n].stream_id /\ context[n].stream_id \in linked
    BY <1>10, <1>13
  <2>2. context[n].stream_id \in OldIds \ {id}
    BY <2>1, <1>1, <1>2
  <2> QED
    BY <2>1, <2>2, <1>3, <1>4 DEF ElementInv, UnshownWaits
<1>16. Old!TypeOK'
  <2>1. linked' \subseteq OldIds /\ left' \subseteq OldIds
    BY <1>3 DEF ElementInv, ElementIsSound, Old!TypeOK
  <2>2. \A n \in OldIds : buffer'[n].type \in {"NORMAL", "STORAGE", "PLAY"}
    BY <1>4 DEF Buffers
  <2>3. Len(start.q) <= MaxOldQueue
    <3>1. Len(<<>>) = 0
      OBVIOUS
    <3> QED
      BY <3>1, <1>1, <1>4
  <2>4. \A n \in OldIds : Len(buffer'[n].q) <= MaxOldQueue
    BY <2>3, <1>4 DEF ElementInv, ElementIsSound, Old!TypeOK, start
  <2>5. \A n \in linked' : context'[n].changing_ => context'[n].new_stream_id # Old!None
    BY <1>5, <1>6, <1>9, <1>10, <1>13 DEF ElementInv, ElementIsSound, Old!TypeOK
  <2> QED
    BY <2>1, <2>2, <2>4, <2>5 DEF Old!TypeOK
<1>17. Old!ViewersAreLinked'
  BY <1>3, <1>5 DEF ElementInv, ElementIsSound, Old!ViewersAreLinked
<1>18. Old!SourceIsLinked' /\ Old!ShownFromKeyFrame' /\ Old!BaseIsSet'
  BY <1>3, <1>10, <1>13 DEF ElementInv, ElementIsSound, Old!SourceIsLinked, Old!ShownFromKeyFrame, Old!BaseIsSet
<1> QED
  BY <1>11, <1>12, <1>14, <1>15, <1>16, <1>17, <1>18 DEF ElementInv, ElementIsSound

LEMMA OldSpeakerKeeps ==
  ASSUME ElementInv, NEW id \in OldIds, Old!ChangeToSpeaker(id)
  PROVE  ElementInv'
<1> DEFINE s == Old!SwitchPublisher(Old!Element, id)
<1>1. /\ Old!Element \in Elements /\ linked \subseteq OldIds /\ id \in linked /\ id # Old!None
      /\ MaxOldQueue \in Nat
  BY ConferenceAssumption, OldNone DEF ElementInv, ElementType, Elements, Old!Element, Old!ElementAssumption, Old!ChangeToSpeaker
<1>2. /\ linked' = s.linked /\ buffer' = s.buffer /\ context' = s.context
      /\ current_viewer_' = s.current_viewer_ /\ new_viewer_' = s.new_viewer_ /\ changing_' = s.changing_
      /\ UNCHANGED <<left, shown, baseless>>
  BY DEF Old!ChangeToSpeaker, Old!Becomes
<1>3. /\ Old!Element.linked = linked /\ Old!Element.current_viewer_ = current_viewer_
      /\ Old!Element.new_viewer_ = new_viewer_ /\ Old!Element.changing_ = changing_
      /\ Old!Element.buffer = buffer /\ Old!Element.context = context
  BY DEF Old!Element
<1>4. /\ s \in Elements /\ linked' = linked /\ current_viewer_' = current_viewer_
      /\ new_viewer_' = new_viewer_ \/ (new_viewer_' = id /\ changing_')
      /\ changing_ => changing_'
      /\ \A n \in OldIds : buffer'[n] = buffer[n] \/ buffer'[n] = Old!NewBuffer("STORAGE")
      /\ \A n \in OldIds : /\ context'[n].stream_id = context[n].stream_id
                           /\ context'[n].based = context[n].based
                           /\ context'[n] = context[n] \/ context'[n].new_stream_id = id
                           /\ n \notin linked => context'[n] = context[n]
  <2>1. PICK e \in Elements : e = Old!Element
    BY <1>1
  <2>2. Switched(Old!SwitchPublisher(e, id), e, id)
    BY SwitchPublisherKeeps
  <2>3. Switched(s, Old!Element, id)
    BY <2>1, <2>2
  <2> HIDE DEF s
  <2> QED
    BY <2>3, <1>2, <1>3 DEF Switched
<1>5. Old!Element' \in Elements
  BY <1>2, <1>4 DEF Elements, Old!Element
<1> HIDE DEF s
<1>6. ElementType'
  BY <1>2, <1>4, <1>5 DEF ElementInv, ElementType
<1>7. PendingIsChanging'
  BY <1>4 DEF ElementInv, PendingIsChanging
<1>8. OthersAreBased'
  BY <1>1, <1>4 DEF ElementInv, OthersAreBased
<1>9. UnshownWaits'
  <2> SUFFICES ASSUME NEW n \in linked, shown[n] = "none", context[n].stream_id \notin {Old!None, n}
               PROVE  buffer'[context[n].stream_id].type # "PLAY"
    BY <1>1, <1>2, <1>4 DEF UnshownWaits
  <2>1. context[n].stream_id \in OldIds
    BY <1>1 DEF ElementInv, ElementIsSound, Old!SourceIsLinked
  <2>2. buffer[context[n].stream_id].type # "PLAY"
    BY DEF ElementInv, UnshownWaits
  <2> QED
    BY <2>1, <2>2, <1>4, NewTypes
<1>10. Old!TypeOK'
  <2>1. \A n \in OldIds : buffer'[n].type \in {"NORMAL", "STORAGE", "PLAY"}
    BY <1>5 DEF Elements, Old!Element, Buffers
  <2>2. \A n \in OldIds : Len(buffer'[n].q) <= MaxOldQueue
    <3>1. Len(<<>>) = 0
      OBVIOUS
    <3>2. Old!NewBuffer("STORAGE").q = <<>>
      BY NewTypes
    <3>3. Len(Old!NewBuffer("STORAGE").q) <= MaxOldQueue
      BY <3>1, <3>2, <1>1
    <3> QED
      BY <3>3, <1>4 DEF ElementInv, ElementIsSound, Old!TypeOK
  <2>3. linked' \subseteq OldIds /\ left' \subseteq OldIds
    BY <1>2, <1>4 DEF ElementInv, ElementIsSound, Old!TypeOK
  <2>4. \A n \in linked' : context'[n].changing_ => context'[n].new_stream_id # Old!None
    BY <1>1, <1>4 DEF ElementInv, ElementIsSound, Old!TypeOK
  <2> QED
    BY <2>1, <2>2, <2>3, <2>4 DEF Old!TypeOK
<1>11. Old!ViewersAreLinked' /\ Old!SourceIsLinked' /\ Old!ShownFromKeyFrame' /\ Old!BaseIsSet'
  BY <1>1, <1>2, <1>4 DEF ElementInv, ElementIsSound, Old!ViewersAreLinked, Old!SourceIsLinked, Old!ShownFromKeyFrame, Old!BaseIsSet
<1> QED
  BY <1>6, <1>7, <1>8, <1>9, <1>10, <1>11 DEF ElementInv, ElementIsSound

\* What UnlinkVideoStream leaves if somebody is left: the first stream is the
\* current viewer and nobody sees the one that left.
Left(id, first) ==
  /\ Old!Element' \in Elements /\ linked' = linked \ {id}
  /\ current_viewer_' = first /\ changing_' = TRUE
  /\ new_viewer_' \in {first, new_viewer_, Old!None} \ {id}
  /\ \A n \in OldIds : \/ buffer'[n] = buffer[n]
                       \/ buffer'[n].type # "PLAY" /\ buffer'[n].q = <<>>
  /\ \A n \in OldIds \ linked' : context'[n] = Old!NoContext
  /\ \A n \in linked' :
       /\ \/ context'[n].stream_id = n
          \/ context'[n].stream_id = Old!None /\ context[n].stream_id # n
          \/ context'[n].stream_id = context[n].stream_id /\ context[n].stream_id # id /\ context'[n].based = context[n].based
       /\ context'[n].changing_ => context'[n].new_stream_id # Old!None

LEMMA UnlinkLeaves ==
  ASSUME ElementInv, NEW id \in OldIds, Old!UnlinkVideoStream(id), linked \ {id} # {}
  PROVE  \E first \in linked \ {id} : Left(id, first)
<1>1. PICK e \in Elements : e = Old!Element
  BY DEF ElementInv, ElementType
<1>2. /\ e.linked = linked /\ e.current_viewer_ = current_viewer_ /\ e.new_viewer_ = new_viewer_
      /\ e.changing_ = changing_ /\ e.buffer = buffer /\ e.context = context
  BY <1>1 DEF Old!Element
<1>3. PICK u : u = Old!Unlinked(e, id)
  OBVIOUS
<1>4. e.new_viewer_ # Old!None => e.changing_
  BY <1>2 DEF ElementInv, PendingIsChanging
<1>5. /\ u \in Elements /\ u.linked = linked \ {id}
      /\ u.new_viewer_ = IF new_viewer_ = id THEN Old!None ELSE new_viewer_
      /\ u.buffer = [buffer EXCEPT ![id] = Old!NewBuffer("NORMAL")]
      /\ u.context = [context EXCEPT ![id] = Old!NoContext]
  BY <1>2, <1>3, <1>4, UnlinkedIs
<1>6. PICK first : first = Old!First(u.linked)
  OBVIOUS
<1>7. first \in linked \ {id} /\ first \in OldIds /\ first # Old!None /\ id # Old!None
  <2>1. u.linked \in SUBSET OldIds /\ u.linked # {}
    BY <1>5 DEF Elements
  <2> QED
    BY <2>1, <1>5, <1>6, OldFirst, OldNone
<1>8. PICK p : p = Old!SwitchPublisher(u, first)
  OBVIOUS
<1>9. /\ p \in Elements /\ p.linked = u.linked
      /\ p.new_viewer_ = u.new_viewer_ \/ (p.new_viewer_ = first /\ p.changing_)
      /\ \A n \in OldIds : p.buffer[n] = u.buffer[n] \/ p.buffer[n] = Old!NewBuffer("STORAGE")
      /\ \A n \in OldIds : /\ p.context[n].stream_id = u.context[n].stream_id
                           /\ p.context[n].based = u.context[n].based
                           /\ p.context[n] = u.context[n] \/ p.context[n].new_stream_id = first
                           /\ n \notin u.linked => p.context[n] = u.context[n]
  <2>1. u \in Elements /\ first \in OldIds
    BY <1>5, <1>7
  <2>2. Switched(p, u, first)
    BY <2>1, <1>8, SwitchPublisherKeeps
  <2> QED
    BY <2>2 DEF Switched
<1>10. PICK s : s = [p EXCEPT !.current_viewer_ = first, !.changing_ = TRUE]
  OBVIOUS
<1>11. /\ s \in Elements /\ s.linked = p.linked /\ s.new_viewer_ = p.new_viewer_ /\ s.buffer = p.buffer
       /\ s.context = p.context /\ s.current_viewer_ = first /\ s.changing_ = TRUE
  BY <1>7, <1>9, <1>10 DEF Elements, OldIdsOrNone
<1> DEFINE one == [s.context[first] EXCEPT !.stream_id = first, !.new_stream_id = first, !.changing_ = TRUE]
           last == [s EXCEPT !.new_viewer_ = first, !.context = [s.context EXCEPT ![first] = one]]
           others == Old!Replaced(s, id, first)
<1>12. /\ Cardinality(u.linked) \in Nat \ {0}
       /\ Cardinality(u.linked) = 1 => u.linked = {first}
  <2>1. IsFiniteSet(u.linked) /\ u.linked # {} /\ first \in u.linked
    <3>1. IsFiniteSet(linked)
      BY DEF ElementInv, ElementType
    <3> QED
      BY <3>1, <1>5, <1>7, FS_Subset
  <2>2. Cardinality(u.linked) \in Nat /\ Cardinality(u.linked) # 0
    BY <2>1, FS_CardinalityType, FS_EmptySet
  <2>3. ASSUME Cardinality(u.linked) = 1 PROVE u.linked = {first}
    <3>1. \E x : u.linked = {x}
      BY <2>1, <2>3, FS_Singleton
    <3> QED
      BY <3>1, <2>1
  <2> QED
    BY <2>2, <2>3
<1>13. Old!Becomes(IF Cardinality(u.linked) = 1 THEN last ELSE others)
  <2>1. Old!Cardinality(u.linked) = Cardinality(u.linked)
    BY DEF Old!Cardinality, Cardinality
  <2>2. Old!Becomes(CASE Old!Cardinality(u.linked) = 0 -> [u EXCEPT !.current_viewer_ = Old!None]
                      [] Old!Cardinality(u.linked) = 1 -> last
                      [] OTHER -> others)
    BY <1>1, <1>3, <1>6, <1>8, <1>10 DEF Old!UnlinkVideoStream
  <2> HIDE DEF last, others
  <2> QED
    BY <2>1, <2>2, <1>12
<1>14. \A n \in OldIds : \/ s.buffer[n] = buffer[n]
                         \/ s.buffer[n].type # "PLAY" /\ s.buffer[n].q = <<>>
  <2>1. buffer \in [OldIds -> Buffers]
    BY <1>2 DEF Elements
  <2> QED
    BY <2>1, <1>5, <1>9, <1>11, NewTypes
<1>15. \A n \in OldIds \ u.linked : s.context[n] = Old!NoContext
  <2>1. context \in [OldIds -> Contexts]
    BY <1>2 DEF Elements
  <2>2. \A n \in OldIds \ u.linked : u.context[n] = Old!NoContext
    BY <2>1, <1>5 DEF ElementInv, ElementType
  <2> QED
    BY <2>2, <1>9, <1>11
<1>16. ASSUME NEW n \in u.linked
       PROVE  /\ n \in OldIds /\ n # id /\ s.context[n] \in Contexts
              /\ s.context[n].stream_id = context[n].stream_id /\ s.context[n].based = context[n].based
              /\ s.context[n].changing_ => s.context[n].new_stream_id # Old!None
  <2>1. n \in OldIds /\ n # id /\ n \in linked
    BY <1>5 DEF Elements
  <2>2. u.context[n] = context[n]
    BY <2>1, <1>5
  <2>3. context[n].changing_ => context[n].new_stream_id # Old!None
    BY <2>1 DEF ElementInv, ElementIsSound, Old!TypeOK
  <2> QED
    BY <2>1, <2>2, <2>3, <1>7, <1>9, <1>11 DEF Elements
<1>17. CASE Cardinality(u.linked) = 1
  <2>1. one \in Contexts /\ one.stream_id = first /\ one.new_stream_id = first
    BY <1>7, <1>12, <1>16, <1>17 DEF Contexts, OldIdsOrNone
  <2>2. first \in OldIds /\ s.context \in [OldIds -> Contexts]
    BY <1>7, <1>11 DEF Elements
  <2> DEFINE c == [s.context EXCEPT ![first] = one]
  <2>3. c \in [OldIds -> Contexts] /\ c[first] = one /\ \A n \in OldIds \ {first} : c[n] = s.context[n]
    BY <2>1, <2>2
  <2>4. last = [s EXCEPT !.new_viewer_ = first, !.context = c]
    OBVIOUS
  <2> HIDE DEF c, last, one
  <2>5. /\ last \in Elements /\ last.linked = u.linked /\ last.buffer = s.buffer /\ last.context = c
        /\ last.current_viewer_ = first /\ last.new_viewer_ = first /\ last.changing_ = TRUE
    BY <2>3, <2>4, <1>7, <1>9, <1>11 DEF Elements, OldIdsOrNone
  <2>6. /\ linked' = u.linked /\ buffer' = s.buffer /\ context' = c
        /\ current_viewer_' = first /\ new_viewer_' = first /\ changing_' = TRUE
    BY <2>5, <1>13, <1>17 DEF Old!Becomes
  <2>7. Old!Element' \in Elements
    BY <2>5, <2>6 DEF Elements, Old!Element
  <2>8. \A n \in linked' : context'[n].stream_id = n /\ context'[n].new_stream_id # Old!None
    BY <2>1, <2>3, <2>6, <1>7, <1>12, <1>17
  <2>9. \A n \in OldIds \ linked' : context'[n] = Old!NoContext
    BY <2>3, <2>6, <1>5, <1>7, <1>15
  <2> QED
    BY <2>6, <2>7, <2>8, <2>9, <1>5, <1>7, <1>14 DEF Left
<1>18. CASE Cardinality(u.linked) # 1
  <2> DEFINE c == [n \in OldIds |-> IF s.context[n].stream_id = id
                     THEN [s.context[n] EXCEPT !.stream_id = Old!None, !.new_stream_id = first, !.changing_ = TRUE]
                     ELSE s.context[n]]
  <2>1. others = [s EXCEPT !.context = c]
    BY DEF Old!Replaced
  <2>2. ASSUME NEW n \in OldIds
        PROVE  /\ c[n] \in Contexts
               /\ s.context[n].stream_id = id => c[n].stream_id = Old!None /\ c[n].new_stream_id = first
               /\ s.context[n].stream_id # id => c[n] = s.context[n]
    <3>1. s.context[n] \in Contexts
      BY <1>11 DEF Elements
    <3> QED
      BY <3>1, <1>7 DEF Contexts, OldIdsOrNone
  <2>3. c \in [OldIds -> Contexts]
    BY <2>2
  <2> HIDE DEF c, others
  <2>4. /\ others \in Elements /\ others.linked = u.linked /\ others.buffer = s.buffer /\ others.context = c
        /\ others.current_viewer_ = first /\ others.new_viewer_ = p.new_viewer_ /\ others.changing_ = TRUE
    BY <2>1, <2>3, <1>7, <1>9, <1>11 DEF Elements, OldIdsOrNone
  <2>5. /\ linked' = u.linked /\ buffer' = s.buffer /\ context' = c
        /\ current_viewer_' = first /\ new_viewer_' = p.new_viewer_ /\ changing_' = TRUE
    BY <2>4, <1>13, <1>18 DEF Old!Becomes
  <2>6. Old!Element' \in Elements
    BY <2>4, <2>5 DEF Elements, Old!Element
  <2>7. ASSUME NEW n \in linked'
        PROVE  /\ \/ context'[n].stream_id = Old!None /\ context[n].stream_id # n
                  \/ context'[n].stream_id = context[n].stream_id /\ context[n].stream_id # id /\ context'[n].based = context[n].based
               /\ context'[n].changing_ => context'[n].new_stream_id # Old!None
    BY <2>2, <2>5, <1>7, <1>16
  <2>8. \A n \in OldIds \ linked' : context'[n] = Old!NoContext
    BY <2>2, <2>5, <1>7, <1>15, NewTypes
  <2>9. new_viewer_' \in {first, new_viewer_, Old!None} \ {id}
    BY <2>5, <1>5, <1>7, <1>9
  <2> QED
    BY <2>5, <2>6, <2>7, <2>8, <2>9, <1>5, <1>7, <1>14 DEF Left
<1> QED
  BY <1>7, <1>17, <1>18

LEMMA OldUnlinkKeeps ==
  ASSUME ElementInv, NEW id \in OldIds, Old!UnlinkVideoStream(id)
  PROVE  ElementInv'
<1>1. /\ linked \subseteq OldIds /\ IsFiniteSet(linked) /\ left \subseteq OldIds
      /\ shown \in [OldIds -> {"none", "key", "delta"}] /\ MaxOldQueue \in Nat /\ id # Old!None
  BY ConferenceAssumption, OldNone DEF ElementInv, ElementType, Elements, Old!Element, Old!ElementAssumption, ElementIsSound, Old!TypeOK
<1>2. left' = left \cup {id} /\ shown' = [shown EXCEPT ![id] = "none"] /\ UNCHANGED <<baseless, switches>>
  BY DEF Old!UnlinkVideoStream
<1>3. Len(<<>>) = 0
  OBVIOUS
<1>4. CASE linked \ {id} = {}
  <2>1. PICK e \in Elements : e = Old!Element
    BY DEF ElementInv, ElementType
  <2>2. /\ e.linked = linked /\ e.new_viewer_ = new_viewer_ /\ e.changing_ = changing_
        /\ e.buffer = buffer /\ e.context = context
    BY <2>1 DEF Old!Element
  <2>3. PICK u : u = Old!Unlinked(e, id)
    OBVIOUS
  <2>4. e.new_viewer_ # Old!None => e.changing_
    BY <2>2 DEF ElementInv, PendingIsChanging
  <2>5. /\ u \in Elements /\ u.linked = linked \ {id}
        /\ u.new_viewer_ = IF new_viewer_ = id THEN Old!None ELSE new_viewer_
        /\ u.buffer = [buffer EXCEPT ![id] = Old!NewBuffer("NORMAL")]
        /\ u.context = [context EXCEPT ![id] = Old!NoContext]
    BY <2>2, <2>3, <2>4, UnlinkedIs
  <2>6. Old!Cardinality(u.linked) = 0
    <3>1. u.linked = {} /\ Cardinality({}) = 0
      BY <2>5, <1>4, FS_EmptySet
    <3>2. Old!Cardinality({}) = Cardinality({})
      BY DEF Old!Cardinality, Cardinality
    <3> QED
      BY <3>1, <3>2
  <2>7. Old!Becomes([u EXCEPT !.current_viewer_ = Old!None])
    BY <2>1, <2>3, <2>6 DEF Old!UnlinkVideoStream
  <2>8. /\ linked' = {} /\ buffer' = u.buffer /\ context' = u.context /\ changing_' = u.changing_
        /\ current_viewer_' = Old!None /\ new_viewer_' = u.new_viewer_
    BY <2>5, <2>7, <1>4 DEF Old!Becomes, Elements
  <2>9. new_viewer_' = Old!None
    BY <2>5, <2>8, <1>4 DEF ElementInv, ElementIsSound, Old!ViewersAreLinked
  <2>10. Old!Element' \in Elements
    BY <2>5, <2>8 DEF Elements, Old!Element, OldIdsOrNone
  <2>11. \A n \in OldIds : buffer'[n].type \in {"NORMAL", "STORAGE", "PLAY"} /\ Len(buffer'[n].q) <= MaxOldQueue
    <3>1. Old!NewBuffer("NORMAL").q = <<>> /\ Old!NewBuffer("NORMAL").type = "NORMAL"
      BY NewTypes
    <3>2. Len(Old!NewBuffer("NORMAL").q) <= MaxOldQueue
      BY <3>1, <1>1, <1>3
    <3>3. buffer \in [OldIds -> Buffers]
      BY <2>2 DEF Elements
    <3> QED
      BY <3>1, <3>2, <3>3, <2>5, <2>8 DEF ElementInv, ElementIsSound, Old!TypeOK
  <2>12. \A n \in OldIds : context'[n] = Old!NoContext /\ shown'[n] = "none"
    <3>1. context \in [OldIds -> Contexts]
      BY <2>2 DEF Elements
    <3>2. \A n \in OldIds \ {id} : context[n] = Old!NoContext /\ shown[n] = "none"
      BY <1>4 DEF ElementInv, ElementType
    <3> QED
      BY <3>1, <3>2, <2>5, <2>8, <1>1, <1>2
  <2>13. IsFiniteSet(linked')
    BY <2>8, FS_EmptySet
  <2>14. ElementType'
    BY <2>8, <2>10, <2>12, <2>13, <1>1, <1>2 DEF ElementType
  <2>15. PendingIsChanging' /\ OthersAreBased' /\ UnshownWaits'
    BY <2>8, <2>9 DEF PendingIsChanging, OthersAreBased, UnshownWaits
  <2>16. ElementIsSound'
    BY <2>8, <2>9, <2>11, <1>2
    DEF ElementInv, ElementIsSound, Old!TypeOK, Old!ViewersAreLinked, Old!SourceIsLinked, Old!ShownFromKeyFrame, Old!BaseIsSet
  <2> QED
    BY <2>14, <2>15, <2>16 DEF ElementInv
<1>5. CASE linked \ {id} # {}
  <2>1. PICK first \in linked \ {id} : Left(id, first)
    BY <1>5, UnlinkLeaves
  <2>2. first \in OldIds /\ first # Old!None
    BY <2>1, <1>1, OldNone
  <2>3. ASSUME NEW n \in linked'
        PROVE  /\ n \in linked /\ n \in OldIds /\ n # id /\ shown'[n] = shown[n]
               /\ context[n].stream_id \in linked \cup {Old!None}
               /\ \/ context'[n].stream_id = n
                  \/ context'[n].stream_id = Old!None /\ context[n].stream_id # n
                  \/ /\ context'[n].stream_id = context[n].stream_id /\ context[n].stream_id # id
                     /\ context'[n].based = context[n].based
               /\ context'[n].changing_ => context'[n].new_stream_id # Old!None
    BY <2>1, <1>1, <1>2 DEF Left, ElementInv, ElementIsSound, Old!SourceIsLinked
  <2>4. linked' = linked \ {id} /\ IsFiniteSet(linked')
    BY <2>1, <1>1, FS_Subset DEF Left
  <2>5. ElementType'
    <3>1. \A n \in OldIds \ linked' : shown'[n] = "none"
      BY <2>4, <1>1, <1>2 DEF ElementInv, ElementType
    <3>2. shown' \in [OldIds -> {"none", "key", "delta"}]
      BY <1>1, <1>2
    <3> QED
      BY <3>1, <3>2, <2>1, <2>4, <1>1, <1>2 DEF ElementType, Left
  <2>6. PendingIsChanging'
    BY <2>1 DEF Left, PendingIsChanging
  <2>7. OthersAreBased'
    BY <2>3 DEF ElementInv, OthersAreBased
  <2>8. UnshownWaits'
    <3> SUFFICES ASSUME NEW n \in linked', shown'[n] = "none", context'[n].stream_id \notin {Old!None, n}
                 PROVE  buffer'[context'[n].stream_id].type # "PLAY"
      BY DEF UnshownWaits
    <3>1. n \in linked /\ shown[n] = "none" /\ context'[n].stream_id = context[n].stream_id
      BY <2>3
    <3>2. context[n].stream_id \in OldIds /\ buffer[context[n].stream_id].type # "PLAY"
      BY <3>1, <2>3, <1>1 DEF ElementInv, UnshownWaits
    <3> QED
      BY <3>1, <3>2, <2>1 DEF Left
  <2>9. Old!TypeOK'
    <3>1. \A n \in OldIds : buffer'[n].type \in {"NORMAL", "STORAGE", "PLAY"}
      BY <2>1 DEF Left, Elements, Old!Element, Buffers
    <3>2. \A n \in OldIds : Len(buffer'[n].q) <= MaxOldQueue
      BY <2>1, <1>1, <1>3 DEF Left, ElementInv, ElementIsSound, Old!TypeOK
    <3> QED
      BY <3>1, <3>2, <2>3, <2>4, <1>1, <1>2 DEF Old!TypeOK
  <2>10. Old!ViewersAreLinked'
    BY <2>1, <2>4 DEF Left, ElementInv, ElementIsSound, Old!ViewersAreLinked
  <2>11. Old!SourceIsLinked' /\ Old!ShownFromKeyFrame' /\ Old!BaseIsSet'
    BY <2>3, <2>4, <1>2 DEF ElementInv, ElementIsSound, Old!SourceIsLinked, Old!ShownFromKeyFrame, Old!BaseIsSet
  <2> QED
    BY <2>5, <2>6, <2>7, <2>8, <2>9, <2>10, <2>11 DEF ElementInv, ElementIsSound
<1> QED
  BY <1>4, <1>5

\* What the changing phase makes of the element if the streams T turn: a buffer that
\* plays after it holds what it held, and plays anew only with a key frame in front;
\* who turned has a source that had a key frame in front.
AfterChange(e, T) ==
  /\ e \in Elements /\ e.linked = linked /\ T \subseteq linked
  /\ e.new_viewer_ \in {new_viewer_, Old!None}
  /\ e.new_viewer_ # Old!None => e.changing_
  /\ e.current_viewer_ = current_viewer_ \/ (e.current_viewer_ = new_viewer_ /\ new_viewer_ # Old!None)
  /\ \A s \in OldIds : e.buffer[s].q \in {buffer[s].q, <<>>}
  /\ \A s \in OldIds : e.buffer[s].type = "PLAY" =>
       /\ e.buffer[s].q = buffer[s].q
       /\ buffer[s].type = "PLAY" \/ (Old!HasTop(buffer[s]) /\ Head(buffer[s].q) = "key")
  /\ \A n \in T : /\ context[n].changing_ /\ e.context[n] = Old!Turned(context[n])
                  /\ context[n].new_stream_id \in linked
                  /\ Old!HasTop(buffer[context[n].new_stream_id])
                  /\ Head(buffer[context[n].new_stream_id].q) = "key"
  /\ \A n \in OldIds \ T : e.context[n] = context[n]

LEMMA ChangedIs ==
  ASSUME ElementInv
  PROVE  \E T : AfterChange(Old!Changed(Old!Element), T)
<1>1. PICK o \in Elements : o = Old!Element
  BY DEF ElementInv, ElementType
<1>2. /\ o.linked = linked /\ o.new_viewer_ = new_viewer_ /\ o.current_viewer_ = current_viewer_
      /\ o.changing_ = changing_ /\ o.buffer = buffer /\ o.context = context
  BY <1>1 DEF Old!Element
<1>3. new_viewer_ # Old!None => changing_
  BY DEF ElementInv, PendingIsChanging
<1>4. PICK e : e = Old!Changed(o)
  OBVIOUS
<1>5. CASE ~changing_
  <2>1. e = o
    BY <1>2, <1>4, <1>5 DEF Old!Changed
  <2>2. AfterChange(e, {})
    BY <2>1, <1>2, <1>3 DEF AfterChange
  <2> QED
    BY <2>2, <1>1, <1>4
<1>6. CASE changing_
  <2>1. PICK T : T = Old!Turning(o)
    OBVIOUS
  <2>2. T \subseteq linked /\ \A n \in T : Old!Ready(o, n)
    BY <2>1, <1>2 DEF Old!Turning
  <2>3. ASSUME NEW n \in T
        PROVE  LET s == context[n].new_stream_id
               IN  context[n].changing_ /\ s \in linked /\ Old!HasTop(buffer[s]) /\ Head(buffer[s].q) = "key"
    BY <2>2, <1>2 DEF Old!Ready
  <2> DEFINE b == [s \in OldIds |->
                     IF s \in T \ {o.new_viewer_, o.current_viewer_} THEN [buffer[s] EXCEPT !.type = "NORMAL", !.q = <<>>]
                     ELSE IF \E n \in T : context[n].new_stream_id = s THEN [buffer[s] EXCEPT !.type = "PLAY"]
                     ELSE buffer[s]]
             c == [n \in OldIds |-> IF n \in T THEN Old!Turned(context[n]) ELSE context[n]]
             done == [o EXCEPT !.buffer = b, !.context = c]
  <2>4. \/ e = done
        \/ e = [done EXCEPT !.changing_ = FALSE,
                            !.current_viewer_ = IF done.new_viewer_ # Old!None THEN done.new_viewer_ ELSE @,
                            !.new_viewer_ = Old!None]
    BY <2>1, <1>2, <1>4, <1>6 DEF Old!Changed
  <2>5. ASSUME NEW s \in OldIds
        PROVE  /\ b[s] \in Buffers /\ b[s].q \in {buffer[s].q, <<>>}
               /\ b[s].type = "PLAY" =>
                    /\ b[s].q = buffer[s].q
                    /\ buffer[s].type = "PLAY" \/ (Old!HasTop(buffer[s]) /\ Head(buffer[s].q) = "key")
    <3>1. buffer[s] \in Buffers /\ <<>> \in Seq({"key", "delta"})
      BY <1>2 DEF Elements
    <3>2. CASE s \in T \ {o.new_viewer_, o.current_viewer_}
      <4>1. b[s] = [buffer[s] EXCEPT !.type = "NORMAL", !.q = <<>>]
        BY <3>2
      <4> HIDE DEF b
      <4> QED
        BY <4>1, <3>1 DEF Buffers
    <3>3. CASE s \notin T \ {o.new_viewer_, o.current_viewer_} /\ \E n \in T : context[n].new_stream_id = s
      <4>1. b[s] = [buffer[s] EXCEPT !.type = "PLAY"]
        BY <3>3
      <4>2. Old!HasTop(buffer[s]) /\ Head(buffer[s].q) = "key"
        BY <3>3, <2>3
      <4> HIDE DEF b
      <4> QED
        BY <4>1, <4>2, <3>1 DEF Buffers
    <3>4. CASE s \notin T \ {o.new_viewer_, o.current_viewer_} /\ ~ \E n \in T : context[n].new_stream_id = s
      <4>1. b[s] = buffer[s]
        BY <3>4
      <4> QED
        BY <4>1, <3>1
    <3> QED
      BY <3>2, <3>3, <3>4
  <2>6. ASSUME NEW n \in OldIds
        PROVE  c[n] \in Contexts /\ c[n] = IF n \in T THEN Old!Turned(context[n]) ELSE context[n]
    <3>1. context[n] \in Contexts
      BY <1>2 DEF Elements
    <3>2. Old!Turned(context[n]) \in Contexts
      BY <3>1 DEF Contexts, Old!Turned, OldIdsOrNone
    <3> QED
      BY <3>1, <3>2
  <2>7. b \in [OldIds -> Buffers] /\ c \in [OldIds -> Contexts]
    BY <2>5, <2>6
  <2> HIDE DEF b, c
  <2>8. /\ done \in Elements /\ done.linked = linked /\ done.buffer = b /\ done.context = c
        /\ done.new_viewer_ = new_viewer_ /\ done.current_viewer_ = current_viewer_ /\ done.changing_ = changing_
    BY <2>7, <1>1, <1>2 DEF Elements
  <2> HIDE DEF done
  <2>9. /\ e \in Elements /\ e.linked = linked /\ e.buffer = b /\ e.context = c
        /\ \/ e.new_viewer_ = new_viewer_ /\ e.current_viewer_ = current_viewer_ /\ e.changing_ = changing_
           \/ /\ e.new_viewer_ = Old!None
              /\ e.current_viewer_ = IF new_viewer_ # Old!None THEN new_viewer_ ELSE current_viewer_
    BY <2>4, <2>8 DEF Elements, OldIdsOrNone
  <2>10. /\ e.new_viewer_ \in {new_viewer_, Old!None}
         /\ e.new_viewer_ # Old!None => e.changing_
         /\ (e.current_viewer_ = current_viewer_ \/ (e.current_viewer_ = new_viewer_ /\ new_viewer_ # Old!None))
    BY <2>9, <1>3
  <2>11. \A s \in OldIds : e.buffer[s].q \in {buffer[s].q, <<>>}
    BY <2>5, <2>9
  <2>12. \A s \in OldIds : e.buffer[s].type = "PLAY" =>
           /\ e.buffer[s].q = buffer[s].q
           /\ buffer[s].type = "PLAY" \/ (Old!HasTop(buffer[s]) /\ Head(buffer[s].q) = "key")
    BY <2>5, <2>9
  <2>13. \A n \in T : e.context[n] = Old!Turned(context[n])
    BY <2>2, <2>6, <2>9, <1>2 DEF Elements
  <2>14. \A n \in OldIds \ T : e.context[n] = context[n]
    BY <2>6, <2>9
  <2>15. AfterChange(e, T)
    BY <2>2, <2>3, <2>9, <2>10, <2>11, <2>12, <2>13, <2>14 DEF AfterChange
  <2> QED
    BY <2>15, <1>1, <1>4
<1> QED
  BY <1>5, <1>6

\* The context of a stream that turned.
LEMMA TurnedIs ==
  ASSUME NEW c
  PROVE  /\ Old!Turned(c).stream_id = c.new_stream_id /\ ~Old!Turned(c).changing_
         /\ Old!Turned(c).based
BY DEF Old!Turned

\* A buffer that has a packet to give starts with it.
LEMMA TopOfBuffer ==
  ASSUME NEW b \in Buffers, Old!HasTop(b)
  PROVE  Head(b.q) \in {"key", "delta"} /\ Tail(b.q) \in Seq({"key", "delta"}) /\ Len(Tail(b.q)) <= Len(b.q)
<1>1. b.q \in Seq({"key", "delta"}) /\ OldPrebuffering \in Nat /\ Len(b.q) > OldPrebuffering
  BY ConferenceAssumption DEF Buffers, Old!HasTop, Old!ElementAssumption
<1> QED
  BY <1>1

\* A pass of the loop: who gets its first packet of another stream is either one that
\* turned or one that waited for its source to play; both get a key frame.
LEMMA OldLoopKeeps ==
  ASSUME ElementInv, Old!Loop
  PROVE  ElementInv'
<1>1. PICK e, T : e = Old!Changed(Old!Element) /\ AfterChange(e, T)
  BY ChangedIs
<1> DEFINE played == {s \in linked : e.buffer[s].type = "PLAY" /\ Old!HasTop(e.buffer[s])
                                     /\ \E n \in linked : e.context[n].stream_id = s}
           served == {n \in linked : e.context[n].stream_id \in played}
           turned == {n \in linked : context[n].changing_ /\ ~e.context[n].changing_}
           first(n) == IF n \in turned THEN "none" ELSE shown[n]
           b == [s \in OldIds |-> IF s \in played THEN [e.buffer[s] EXCEPT !.q = Tail(e.buffer[s].q)] ELSE e.buffer[s]]
<1>2. /\ linked \subseteq OldIds /\ IsFiniteSet(linked) /\ left \subseteq OldIds
      /\ buffer \in [OldIds -> Buffers] /\ context \in [OldIds -> Contexts]
      /\ shown \in [OldIds -> {"none", "key", "delta"}] /\ MaxOldQueue \in Nat /\ OldPrebuffering \in Nat
  BY ConferenceAssumption DEF ElementInv, ElementType, Elements, Old!Element, Old!ElementAssumption, ElementIsSound, Old!TypeOK
<1>3. /\ e \in Elements /\ e.linked = linked /\ T \subseteq linked
      /\ e.buffer \in [OldIds -> Buffers] /\ e.context \in [OldIds -> Contexts]
  BY <1>1 DEF AfterChange, Elements
<1>4. /\ Old!Becomes([e EXCEPT !.buffer = b])
      /\ shown' = [n \in OldIds |-> IF first(n) = "none" /\ n \in served
                                    THEN Head(e.buffer[e.context[n].stream_id].q) ELSE first(n)]
      /\ baseless' = (baseless \/ \E n \in served : ~e.context[n].based /\ e.context[n].stream_id # n)
      /\ linked # {} /\ UNCHANGED <<left, switches>>
  <2>1. Old!Forward(e) /\ linked # {} /\ UNCHANGED <<left, switches>>
    BY <1>1 DEF Old!Loop
  <2>2. Old!Becomes([e EXCEPT !.buffer = b])
    BY <2>1 DEF Old!Forward
  <2>3. shown' = [n \in OldIds |-> IF first(n) = "none" /\ n \in served
                                   THEN Head(e.buffer[e.context[n].stream_id].q) ELSE first(n)]
    BY <2>1 DEF Old!Forward
  <2>4. baseless' = (baseless \/ \E n \in served : ~e.context[n].based /\ e.context[n].stream_id # n)
    BY <2>1, Zenon DEF Old!Forward
  <2> QED
    BY <2>1, <2>2, <2>3, <2>4
<1>5. turned = T
  <2>1. \A n \in T : context[n].changing_ /\ ~e.context[n].changing_
    BY <1>1, TurnedIs DEF AfterChange
  <2>2. \A n \in linked \ T : e.context[n] = context[n]
    BY <1>1, <1>2 DEF AfterChange
  <2> QED
    BY <2>1, <2>2, <1>3
<1>6. ASSUME NEW s \in OldIds
      PROVE  /\ b[s] \in Buffers /\ b[s].type = e.buffer[s].type
             /\ Len(b[s].q) <= MaxOldQueue
  <2>1. Len(e.buffer[s].q) <= MaxOldQueue
    <3>1. e.buffer[s].q \in {buffer[s].q, <<>>}
      BY <1>1 DEF AfterChange
    <3>2. Len(buffer[s].q) <= MaxOldQueue /\ Len(<<>>) = 0
      BY DEF ElementInv, ElementIsSound, Old!TypeOK
    <3> QED
      BY <3>1, <3>2, <1>2
  <2>2. CASE s \in played
    <3>1. b[s] = [e.buffer[s] EXCEPT !.q = Tail(e.buffer[s].q)]
      BY <2>2
    <3>2. /\ Tail(e.buffer[s].q) \in Seq({"key", "delta"}) /\ Len(Tail(e.buffer[s].q)) <= Len(e.buffer[s].q)
          /\ e.buffer[s] \in Buffers
      BY <2>2, <1>3, TopOfBuffer
    <3>3. e.buffer[s].q \in Seq({"key", "delta"})
      BY <3>2 DEF Buffers
    <3>4. Len(Tail(e.buffer[s].q)) <= MaxOldQueue
      BY <3>2, <3>3, <2>1, <1>2
    <3> HIDE DEF b
    <3> QED
      BY <3>1, <3>2, <3>4 DEF Buffers
  <2>3. CASE s \notin played
    <3>1. b[s] = e.buffer[s]
      BY <2>3
    <3> QED
      BY <3>1, <2>1, <1>3
  <2> QED
    BY <2>2, <2>3
<1>7. b \in [OldIds -> Buffers]
  BY <1>6
<1>8. /\ linked' = linked /\ buffer' = b /\ context' = e.context /\ current_viewer_' = e.current_viewer_
      /\ new_viewer_' = e.new_viewer_ /\ changing_' = e.changing_ /\ Old!Element' \in Elements
  <2> HIDE DEF b
  <2>1. /\ linked' = linked /\ buffer' = b /\ context' = e.context /\ current_viewer_' = e.current_viewer_
        /\ new_viewer_' = e.new_viewer_ /\ changing_' = e.changing_
    BY <1>3, <1>4, <1>7 DEF Old!Becomes, Elements
  <2> QED
    BY <2>1, <1>3, <1>7 DEF Elements, Old!Element
\* The context of a stream, turned or not.
<1>9. ASSUME NEW n \in linked
      PROVE  /\ n \in OldIds /\ e.context[n].stream_id \in linked \cup {Old!None}
             /\ e.context[n].changing_ => e.context[n].new_stream_id # Old!None
             /\ e.context[n].stream_id \notin {Old!None, n} => e.context[n].based
  <2>1. CASE n \in T
    <3>1. e.context[n] = Old!Turned(context[n]) /\ context[n].new_stream_id \in linked
      BY <2>1, <1>1 DEF AfterChange
    <3> QED
      BY <3>1, <1>2 DEF Old!Turned
  <2>2. CASE n \notin T
    <3>1. e.context[n] = context[n]
      BY <2>2, <1>1, <1>2 DEF AfterChange
    <3> QED
      BY <3>1, <1>2 DEF ElementInv, ElementIsSound, Old!TypeOK, Old!SourceIsLinked, OthersAreBased
  <2> QED
    BY <2>1, <2>2
\* A stream without a first packet of another stream that plays is given a key frame.
<1>10. ASSUME NEW n \in linked, first(n) = "none", e.context[n].stream_id \notin {Old!None, n},
              e.buffer[e.context[n].stream_id].type = "PLAY"
       PROVE  n \in served /\ Head(e.buffer[e.context[n].stream_id].q) = "key"
  <2>1. PICK s : s = e.context[n].stream_id
    OBVIOUS
  <2>2. s \in linked /\ s \in OldIds /\ e.buffer[s].q = buffer[s].q
    BY <2>1, <1>1, <1>2, <1>9, <1>10 DEF AfterChange
  <2>3. Old!HasTop(buffer[s]) /\ Head(buffer[s].q) = "key"
    <3>1. CASE n \in T
      <4>1. s = context[n].new_stream_id
        BY <3>1, <2>1, <1>1, TurnedIs DEF AfterChange
      <4> QED
        BY <4>1, <3>1, <1>1 DEF AfterChange
    <3>2. CASE n \notin T
      <4>1. shown[n] = "none" /\ e.context[n] = context[n]
        BY <3>2, <1>1, <1>2, <1>5, <1>10 DEF AfterChange
      <4>2. buffer[s].type # "PLAY"
        BY <4>1, <2>1, <1>10 DEF ElementInv, UnshownWaits
      <4> QED
        BY <4>2, <2>1, <2>2, <1>1, <1>10 DEF AfterChange
    <3> QED
      BY <3>1, <3>2
  <2>4. Old!HasTop(e.buffer[s])
    BY <2>2, <2>3 DEF Old!HasTop
  <2> QED
    BY <2>1, <2>2, <2>3, <2>4, <1>10
<1>11. ASSUME NEW n \in served
       PROVE  /\ n \in linked /\ e.context[n].stream_id \in linked
              /\ e.buffer[e.context[n].stream_id].type = "PLAY"
              /\ Head(e.buffer[e.context[n].stream_id].q) \in {"key", "delta"}
  <2>1. n \in linked /\ e.context[n].stream_id \in linked /\ e.buffer[e.context[n].stream_id].type = "PLAY"
        /\ Old!HasTop(e.buffer[e.context[n].stream_id])
    OBVIOUS
  <2>2. e.buffer[e.context[n].stream_id] \in Buffers
    BY <2>1, <1>2, <1>3
  <2> QED
    BY <2>1, <2>2, TopOfBuffer
<1>12. \A n \in OldIds : /\ first(n) = "none" /\ n \in served => shown'[n] = Head(e.buffer[e.context[n].stream_id].q)
                         /\ ~(first(n) = "none" /\ n \in served) => shown'[n] = first(n)
                         /\ first(n) \in {"none", "key", "delta"}
                         /\ first(n) # "none" => n \notin T /\ first(n) = shown[n]
                         /\ n \notin linked => n \notin served /\ first(n) = shown[n]
  BY <1>2, <1>4, <1>5
<1>13. linked = linked' /\ T \subseteq linked /\ \A n \in served : n \in linked
  BY <1>3, <1>8
<1> HIDE DEF b, first, served, played, turned
<1>14. shown' \in [OldIds -> {"none", "key", "delta"}]
  <2>1. \A n \in OldIds : shown'[n] \in {"none", "key", "delta"}
    BY <1>11, <1>12
  <2>2. \E g \in {shown'} : g = [n \in OldIds |-> g[n]]
    BY <1>4
  <2> QED
    BY <2>1, <2>2
<1>15. ElementType'
  <2>1. \A n \in OldIds \ linked' : context'[n] = Old!NoContext /\ shown'[n] = "none"
    <3>1. \A n \in OldIds \ linked : e.context[n] = context[n]
      BY <1>1, <1>13 DEF AfterChange
    <3> QED
      BY <3>1, <1>8, <1>12 DEF ElementInv, ElementType
  <2> QED
    BY <2>1, <1>2, <1>4, <1>8, <1>14 DEF ElementType
<1>16. PendingIsChanging'
  BY <1>1, <1>8 DEF AfterChange, PendingIsChanging
<1>17. OthersAreBased' /\ Old!SourceIsLinked'
  BY <1>8, <1>9 DEF OthersAreBased, Old!SourceIsLinked
<1>18. UnshownWaits'
  <2> SUFFICES ASSUME NEW n \in linked, shown'[n] = "none", e.context[n].stream_id \notin {Old!None, n},
                      b[e.context[n].stream_id].type = "PLAY"
               PROVE  FALSE
    BY <1>8 DEF UnshownWaits
  <2>1. e.buffer[e.context[n].stream_id].type = "PLAY"
    BY <1>2, <1>6, <1>9
  <2>2. first(n) = "none"
    BY <1>9, <1>11, <1>12
  <2>3. n \in served /\ Head(e.buffer[e.context[n].stream_id].q) = "key"
    BY <2>1, <2>2, <1>10
  <2> QED
    BY <2>2, <2>3, <1>9, <1>12
<1>19. Old!ShownFromKeyFrame'
  <2> SUFFICES ASSUME NEW n \in linked, shown'[n] = "delta"
               PROVE  e.context[n].stream_id = n
    BY <1>8 DEF Old!ShownFromKeyFrame
  <2>1. CASE first(n) = "none"
    <3>1. n \in served
      BY <2>1, <1>9, <1>12
    <3>2. e.context[n].stream_id # Old!None /\ e.buffer[e.context[n].stream_id].type = "PLAY"
      BY <3>1, <1>2, <1>11, OldNone
    <3>3. Head(e.buffer[e.context[n].stream_id].q) = "delta"
      BY <2>1, <3>1, <1>9, <1>12
    <3> QED
      BY <2>1, <3>2, <3>3, <1>10
  <2>2. CASE first(n) # "none"
    <3>1. n \notin T /\ shown[n] = "delta"
      BY <2>2, <1>9, <1>12
    <3>2. e.context[n] = context[n]
      BY <3>1, <1>1, <1>9 DEF AfterChange
    <3> QED
      BY <3>1, <3>2 DEF ElementInv, ElementIsSound, Old!ShownFromKeyFrame
  <2> QED
    BY <2>1, <2>2
<1>20. Old!BaseIsSet'
  <2>1. \A n \in served : e.context[n].based \/ e.context[n].stream_id = n
    BY <1>2, <1>9, <1>11, OldNone
  <2> QED
    BY <2>1, <1>4 DEF ElementInv, ElementIsSound, Old!BaseIsSet
<1>21. Old!TypeOK'
  <2>1. \A n \in OldIds : buffer'[n].type \in {"NORMAL", "STORAGE", "PLAY"} /\ Len(buffer'[n].q) <= MaxOldQueue
    BY <1>6, <1>8 DEF Buffers
  <2>2. \A n \in linked' : context'[n].changing_ => context'[n].new_stream_id # Old!None
    BY <1>8, <1>9
  <2> QED
    BY <2>1, <2>2, <1>2, <1>4, <1>8 DEF Old!TypeOK
<1>22. Old!ViewersAreLinked'
  BY <1>1, <1>4, <1>8 DEF AfterChange, ElementInv, ElementIsSound, Old!ViewersAreLinked
<1> QED
  BY <1>15, <1>16, <1>17, <1>18, <1>19, <1>20, <1>21, <1>22 DEF ElementInv, ElementIsSound

\* What the old forwarder first gives a stream of a new source is a key frame, with
\* the base of its context set, and viewers and sources are linked streams: for
\* every number of streams, packets and switches, any prebuffering and any loss
\* (SelectiveVideoForwardLoop, LinkVideoStream, UnlinkVideoStream, SwitchPublisher).
THEOREM ElementStaysSound == AllSpec => []ElementIsSound
<1>1. Old!Init => ElementInv
  <2> SUFFICES ASSUME Old!Init PROVE ElementInv
    OBVIOUS
  <2>1. /\ linked = {} /\ left = {} /\ current_viewer_ = Old!None /\ new_viewer_ = Old!None /\ changing_ = FALSE
        /\ buffer = [n \in OldIds |-> Old!NewBuffer("NORMAL")] /\ context = [n \in OldIds |-> Old!NoContext]
        /\ shown = [n \in OldIds |-> "none"] /\ baseless = FALSE
    BY DEF Old!Init
  <2>2. IsFiniteSet(linked)
    BY <2>1, FS_EmptySet
  <2>3. Old!Element \in Elements
    BY <2>1, NewTypes DEF Elements, Old!Element, OldIdsOrNone
  <2>4. \A n \in OldIds : buffer[n].type = "NORMAL" /\ buffer[n].q = <<>>
    BY <2>1, NewTypes
  <2>5. MaxOldQueue \in Nat /\ Len(<<>>) = 0
    BY ConferenceAssumption DEF Old!ElementAssumption
  <2>6. \A n \in OldIds : Len(buffer[n].q) <= MaxOldQueue
    BY <2>4, <2>5
  <2> QED
    BY <2>1, <2>2, <2>3, <2>4, <2>6
    DEF ElementInv, ElementType, PendingIsChanging, OthersAreBased, UnshownWaits, ElementIsSound, Old!TypeOK,
        Old!ViewersAreLinked, Old!SourceIsLinked, Old!ShownFromKeyFrame, Old!BaseIsSet
<1>2. AllInit => ElementInv
  BY <1>1 DEF AllInit
<1>3. ElementInv /\ [AllNext]_allVars => ElementInv'
  <2> SUFFICES ASSUME ElementInv, [AllNext]_allVars PROVE ElementInv'
    OBVIOUS
  <2>1. CASE UNCHANGED oldVars
    BY <2>1 DEF oldVars, ElementInv, ElementType, PendingIsChanging, OthersAreBased, UnshownWaits, ElementIsSound,
      Old!TypeOK, Old!ViewersAreLinked, Old!SourceIsLinked, Old!ShownFromKeyFrame, Old!BaseIsSet, Old!Element
  <2>2. CASE Old!Next
    BY <2>2, OldLoopKeeps, OldLinkKeeps, OldUnlinkKeeps, OldSpeakerKeeps, OldIncomingKeeps DEF Old!Next
  <2> QED
    BY <2>1, <2>2 DEF AllNext, allVars
<1>4. ElementInv => ElementIsSound
  BY DEF ElementInv
<1> QED
  BY <1>2, <1>3, <1>4, PTL DEF AllSpec

===============================================================================
