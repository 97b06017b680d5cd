------------------------------ MODULE VideoForward ------------------------------
(***************************************************************************)
(* The video of a conference room: VideoForwardElementNew                  *)
(* (orbit/modules/video_forward_element_new.cc) with the packet queue of   *)
(* every stream (orbit/modules/video_frame_queue.cc) and the VideoMap,     *)
(* driven by the room (orbit/audio_conference_plugin.cc).                  *)
(*                                                                         *)
(* One mutex covers every operation of the element, so an operation is one *)
(* action, except the turn of the forward loop: its queues are popped one  *)
(* by one (popping) while everybody else waits.                            *)
(* A packet is its sequence number; Key are the numbers of key frames.     *)
(* The network may lose, repeat and reorder packets: any may come next.    *)
(***************************************************************************)
EXTENDS VideoMap

CONSTANTS MaxSeq, Key,
  MaxReady             \* READY notifications of a transport (bound)

ASSUME VideoForwardAssumption ==
  MaxSeq \in Nat /\ Key \subseteq 0..MaxSeq /\ MaxReady \in Nat

VARIABLES
  stage,      \* a stream: "new", "joined", "left", "unlinked", "gone"
  readies,    \* READY notifications so far
  frames_,    \* the packets in its queue
  ctx,        \* its VideoSwitchContext
  popping,    \* the queues the forward loop has still to pop
  \* history
  fresh,      \* viewers whose source changed since the last packet relayed to them
  noFrame     \* a source changed to a queue without a frame

vars == <<mapVars, stage, readies, frames_, ctx, popping, fresh, noFrame>>

SeqMod == MaxSeq + 1          \* uint16_t
FirstIsKeyFrame(f) == f # {} /\ First(f) \in Key

-------------------------------------------------------------------------------
(* The queue of a stream.                                                    *)

\* Mutant: the new source repeats the last sequence number.
SrcChangedRepeats(id, f) ==
  LET switched == {n \in all_node_ : expected_src[n] = id /\ src[n] # id}
  IN  /\ noFrame' = (noFrame \/ (switched # {} /\ (f = {} \/ id \notin enabled)))
      /\ fresh' = fresh \cup switched
      /\ ctx' = [n \in Ids |->
                   IF n \in switched /\ f # {}
                   THEN [seq |-> ctx[n].seq, base_seq |-> First(f), last_seq |-> ctx[n].seq]
                   ELSE ctx[n]]

\* The SrcChanged listener, for everybody who turns to id: the output goes on
\* from the first packet in the queue of id, f.
SrcChanged(id, f) ==
  LET switched == {n \in all_node_ : expected_src[n] = id /\ src[n] # id}
  IN  /\ noFrame' = (noFrame \/ (switched # {} /\ (f = {} \/ id \notin enabled)))
      /\ fresh' = fresh \cup switched
      /\ ctx' = [n \in Ids |->
                   IF n \in switched /\ f # {}
                   THEN [seq |-> ctx[n].seq, base_seq |-> First(f), last_seq |-> (ctx[n].seq + 1) % SeqMod]
                   ELSE ctx[n]]

\* The queue of id holds f; if it is prepared the map is told.  A queue that is
\* disabled loses its packets.
Queue(id, f, prepared) ==
  /\ IF prepared THEN SetPrepared(id) /\ SrcChanged(id, f) ELSE UNCHANGED <<mapVars, ctx, fresh, noFrame>>
  /\ frames_' = [q \in Ids |-> IF q \in enabled \ enabled' THEN {}
                               ELSE IF q = id THEN f ELSE frames_[q]]

\* Mutant: the listener is called for any first packet.
CheckPreparedAny(id, f) == Queue(id, f, TRUE)

CheckPrepared(id, f) == Queue(id, f, FirstIsKeyFrame(f))

PushPacketWhenHasLooker(id, seq) == CheckPrepared(id, frames_[id] \cup {seq})

PushPacketWhenNoLooker(id, seq) ==
  IF seq \in Key THEN Queue(id, {seq}, TRUE)
  ELSE Queue(id, IF FirstIsKeyFrame(frames_[id]) THEN frames_[id] \cup {seq} ELSE frames_[id], FALSE)

\* OnIncomingPacket, of the packet thread of a transport.
OnIncomingPacket(id, seq) ==
  /\ popping = {} /\ id \in all_node_ /\ stage[id] # "gone"
  /\ id \in enabled /\ seq \notin frames_[id]
  /\ IF id \in has_looker THEN PushPacketWhenHasLooker(id, seq) ELSE PushPacketWhenNoLooker(id, seq)
  /\ UNCHANGED <<stage, readies, popping>>

\* ForwardData: every viewer gets the first packet of its source ...
ForwardData ==
  LET viewers == {n \in all_node_ : src[n] \in enabled /\ frames_[src[n]] # {}}
      seqOf(n) == (First(frames_[src[n]]) - ctx[n].base_seq + ctx[n].last_seq) % SeqMod
  IN  /\ popping = {} /\ all_node_ # {}
      /\ ctx' = [n \in Ids |-> IF n \in viewers THEN [ctx[n] EXCEPT !.seq = seqOf(n)] ELSE ctx[n]]
      /\ fresh' = fresh \ viewers
      /\ popping' = all_node_
      /\ UNCHANGED <<mapVars, stage, readies, frames_, noFrame>>

\* ... and then every queue is popped.
PopPacket(id) ==
  /\ popping # {} /\ id = First(popping)
  /\ popping' = popping \ {id}
  /\ IF id \in enabled /\ frames_[id] # {}
     THEN CheckPrepared(id, frames_[id] \ {First(frames_[id])})
     ELSE UNCHANGED <<mapVars, frames_, ctx, fresh, noFrame>>
  /\ UNCHANGED <<stage, readies>>

-------------------------------------------------------------------------------
(* The room.                                                                 *)

NewContext == [seq |-> 0, base_seq |-> SeqMod - 1, last_seq |-> 0]

\* AddParticipant.
AddParticipant(id) ==
  /\ stage[id] = "new"
  /\ stage' = [stage EXCEPT ![id] = "joined"]
  /\ UNCHANGED <<mapVars, readies, frames_, ctx, popping, fresh, noFrame>>

\* OnTransportStateChange(TRANSPORT_READY): LinkVideoStream.  The transport
\* notifies until Stop, which follows RemoveParticipant.
LinkVideoStream(id) ==
  /\ popping = {} /\ stage[id] \in {"joined", "left", "unlinked"} /\ readies < MaxReady
  /\ readies' = readies + 1
  /\ IF id \in all_node_ THEN UNCHANGED <<mapVars, frames_, ctx>>
     ELSE /\ Add(id)
          /\ frames_' = [frames_ EXCEPT ![id] = {}]
          /\ ctx' = [ctx EXCEPT ![id] = NewContext]
  /\ UNCHANGED <<stage, popping, fresh, noFrame>>

\* RemoveParticipant takes the stream from the room ...
RemoveParticipant(id) ==
  /\ stage[id] = "joined"
  /\ stage' = [stage EXCEPT ![id] = "left"]
  /\ UNCHANGED <<mapVars, readies, frames_, ctx, popping, fresh, noFrame>>

\* Mutant: the queue of the stream is kept.
UnlinkVideoStreamKeeps(id) ==
  /\ popping = {} /\ stage[id] = "left"
  /\ stage' = [stage EXCEPT ![id] = "unlinked"]
  /\ IF id \in all_node_ THEN Remove(id) ELSE UNCHANGED mapVars
  /\ fresh' = fresh \ {id}
  /\ UNCHANGED <<readies, frames_, ctx, popping, noFrame>>

\* ... and then from the element.
UnlinkVideoStream(id) ==
  /\ popping = {} /\ stage[id] = "left"
  /\ stage' = [stage EXCEPT ![id] = "unlinked"]
  /\ IF id \in all_node_ THEN Remove(id) ELSE UNCHANGED mapVars
  /\ frames_' = [q \in Ids |-> IF q = id \/ q \in enabled \ enabled' THEN {} ELSE frames_[q]]
  /\ fresh' = fresh \ {id}
  /\ UNCHANGED <<readies, ctx, popping, noFrame>>

\* The stream's transport is stopped.
Stop(id) ==
  /\ stage[id] = "unlinked"
  /\ stage' = [stage EXCEPT ![id] = "gone"]
  /\ UNCHANGED <<mapVars, readies, frames_, ctx, popping, fresh, noFrame>>

\* OnSpeakerChanged or SwitchPublisher.
ChangeToSpeaker(id) ==
  /\ popping = {} /\ SetMaster(id)
  /\ frames_' = [q \in Ids |-> IF q \in enabled \ enabled' THEN {} ELSE frames_[q]]
  /\ UNCHANGED <<stage, readies, ctx, popping, fresh, noFrame>>

-------------------------------------------------------------------------------

Init ==
  /\ MapInit
  /\ stage = [n \in Ids |-> "new"] /\ readies = 0
  /\ frames_ = [n \in Ids |-> {}] /\ ctx = [n \in Ids |-> NewContext]
  /\ popping = {} /\ fresh = {} /\ noFrame = FALSE

Next ==
  \/ ForwardData
  \/ \E id \in Ids :
       \/ AddParticipant(id) \/ LinkVideoStream(id) \/ ChangeToSpeaker(id)
       \/ RemoveParticipant(id) \/ UnlinkVideoStream(id) \/ Stop(id)
       \/ PopPacket(id) \/ \E seq \in 0..MaxSeq : OnIncomingPacket(id, seq)

Spec == Init /\ [][Next]_vars

-------------------------------------------------------------------------------

\* Packets are only in the queues of linked streams that are enabled, so a
\* stream nobody looks at or waits for costs no memory.
TypeOK ==
  /\ stage \in [Ids -> {"new", "joined", "left", "unlinked", "gone"}]
  /\ readies \in 0..MaxReady
  /\ frames_ \in [Ids -> SUBSET (0..MaxSeq)] /\ \A n \in Ids \ enabled : frames_[n] = {}
  /\ ctx \in [Ids -> [seq : 0..MaxSeq, base_seq : 0..MaxSeq, last_seq : 0..MaxSeq]]
  /\ popping \subseteq all_node_ /\ fresh \subseteq all_node_

\* When a viewer turns to another source, the source's queue has a packet to
\* continue from (the listener follows the pointer TopPacket returns,
\* video_forward_element_new.cc:95, without a test).
SrcChangedHasFrame == ~noFrame

\* The inductive invariant behind the next property: as long as a viewer that
\* changed its source has been sent nothing of it, the key frame its context was
\* set from is in the source's queue, and the loop has popped that queue already.
FreshHasKeyFrame ==
  \A n \in fresh : src[n] # NOID =>
    /\ src[n] \notin popping
    /\ ctx[n].base_seq \in Key /\ ctx[n].base_seq \in frames_[src[n]]
    /\ ctx[n].last_seq = (ctx[n].seq + 1) % SeqMod

\* After a change of source the viewer first gets the very key frame the context
\* was set from, with the sequence number that follows the last one sent,
\* unless a packet with a lower number has come in between.
SwitchStartsAtKeyFrame ==
  [][\A n \in (fresh \ fresh') \cap all_node_' :
       LET f == First(frames_[src[n]])
       IN  f < ctx[n].base_seq
           \/ (f = ctx[n].base_seq /\ f \in Key /\ ctx'[n].seq = (ctx[n].seq + 1) % SeqMod)]_vars

\* A change of source (SrcChanged) finds its key frame in the queue, which is empty
\* when nobody looks, and the viewer is given that key frame first.
SwitchIsSound == SwitchStartsAtKeyFrame /\ [](TypeOK /\ SrcChangedHasFrame)

===============================================================================
