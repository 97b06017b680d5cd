--------------------------- MODULE VideoForwardElement ---------------------------
(***************************************************************************)
(* VideoForwardElement (orbit/modules/video_forward_element.cc), the       *)
(* forwarder a room uses without --video_forward_element_new, with the     *)
(* VideoAwareFrameBuffer of every stream                                   *)
(* (orbit/modules/rtp_packet_buffer.cc).  One mutex covers every operation *)
(* and every pass of the loop.                                             *)
(*                                                                         *)
(* A packet is "key" or "delta" and packets come in order, some lost; the  *)
(* numbers of the packets are modelled in RtpPacketBuffer (order) and      *)
(* VideoForward (rewriting).  A switch that comes less than two seconds    *)
(* after the last one is passed over: it is no step here.                  *)
(***************************************************************************)
EXTENDS Integers, Sequences, FiniteSets

CONSTANTS
  Ids,            \* stream ids; each leaves once
  Prebuffering,   \* VIDEO_FORWARD_PREBUFFERING_SIZE
  MaxQueue,       \* packets in a buffer (bound)
  MaxSwitches,    \* calls of ChangeToSpeaker (bound)
  MaxLate         \* streams linked after they have left (bound)

\* What the constants are, for a module that instantiates this one to assume.
ElementAssumption ==
  /\ Ids \subseteq Nat /\ Prebuffering \in Nat
  /\ MaxQueue \in Nat /\ MaxSwitches \in Nat /\ MaxLate \in Nat

VARIABLES
  linked,                         \* keys of video_queues_ and video_switch_contexts_
  buffer,                         \* video_queues_: [type, q, has_key_frame_]
  context,                        \* video_switch_contexts_: [stream_id, new_stream_id, changing_],
                                  \* and whether base_ts and base_seq are set (based)
  current_viewer_, new_viewer_, changing_,
  \* history
  left,                           \* streams that have left the room
  baseless,                       \* a packet of another stream was relayed with a context
                                  \* that was never set
  shown,                          \* the first packet relayed to a stream since its last switch
  \* bound
  switches

viewers == <<current_viewer_, new_viewer_, changing_>>
vars == <<linked, buffer, context, viewers, left, shown, baseless, switches>>

None == -1
NoContext == [stream_id |-> None, new_stream_id |-> None, changing_ |-> FALSE, based |-> FALSE]
NewBuffer(type) == [type |-> type, q |-> <<>>, has_key_frame_ |-> FALSE]
First(S) == CHOOSE n \in S : \A m \in S : n <= m

-------------------------------------------------------------------------------
(* VideoAwareFrameBuffer.                                                    *)

\* PushPacket.
Pushed(b, p) ==
  CASE b.type = "NORMAL"  -> [b EXCEPT !.q = <<>>]
    [] b.type = "STORAGE" -> IF p = "key" THEN [b EXCEPT !.q = <<p>>, !.has_key_frame_ = TRUE]
                             ELSE IF b.has_key_frame_ THEN [b EXCEPT !.q = Append(@, p)] ELSE b
    [] b.type = "PLAY"    -> [b EXCEPT !.q = Append(@, p)]

\* TopPacket has one to give, of whatever type the buffer is.
HasTop(b) == Len(b.q) > Prebuffering

OnIncomingPacket(id, p) ==
  /\ id \in linked /\ Len(buffer[id].q) < MaxQueue
  /\ buffer' = [buffer EXCEPT ![id] = Pushed(@, p)]
  /\ UNCHANGED <<linked, context, viewers, left, shown, baseless, switches>>

-------------------------------------------------------------------------------
(* Streams and speakers.                                                     *)

\* Mutant: the first stream waits for the viewer there was before it.
LinkVideoStreamStale(id) ==
  LET playing == {n \in linked : buffer[n].type \in {"PLAY", "STORAGE"}}
  IN  /\ id \notin linked /\ (id \in left => Cardinality(linked \cap left) < MaxLate)
      /\ linked' = linked \cup {id}
      /\ current_viewer_' = IF current_viewer_ = None THEN id ELSE current_viewer_
      /\ buffer' = [buffer EXCEPT ![id] = NewBuffer(IF Cardinality(playing) < 2 THEN "PLAY" ELSE "NORMAL")]
      /\ context' = [context EXCEPT ![id] = [NoContext EXCEPT !.new_stream_id = current_viewer_, !.changing_ = TRUE]]
      /\ changing_' = TRUE
      /\ UNCHANGED <<new_viewer_, left, shown, baseless, switches>>

\* A new stream will see the current viewer.  A current viewer that sees itself
\* will see the new stream.  A READY that comes late links a stream that has left.
LinkVideoStream(id) ==
  LET playing == {n \in linked : buffer[n].type \in {"PLAY", "STORAGE"}}
      viewer  == IF current_viewer_ = None THEN id ELSE current_viewer_
      alone   == context[viewer].stream_id = viewer /\ context[viewer].new_stream_id = None
  IN  /\ id \notin linked /\ (id \in left => Cardinality(linked \cap left) < MaxLate)
      /\ linked' = linked \cup {id}
      /\ current_viewer_' = viewer
      /\ buffer' = [buffer EXCEPT ![id] = NewBuffer(IF Cardinality(playing) < 2 THEN "PLAY" ELSE "NORMAL")]
      /\ context' = [n \in Ids |->
           CASE n = id -> [NoContext EXCEPT !.new_stream_id = viewer, !.changing_ = TRUE]
             [] n = viewer /\ n # id /\ alone -> [context[n] EXCEPT !.new_stream_id = id, !.changing_ = TRUE]
             [] OTHER -> context[n]]
      /\ changing_' = TRUE
      /\ UNCHANGED <<new_viewer_, left, shown, baseless, switches>>

\* SwitchPublisher(p) on the element e: all but p prepare to see p, whose
\* buffer starts to keep packets from a key frame on.
SwitchPublisher(e, p) ==
  IF p \in {e.current_viewer_, e.new_viewer_} THEN e
  ELSE [e EXCEPT
    !.new_viewer_ = p,
    !.changing_ = TRUE,
    !.buffer[p] = IF @.type = "NORMAL" THEN NewBuffer("STORAGE") ELSE @,
    !.context = [n \in Ids |-> IF n \in e.linked \ {p} /\ @[n].stream_id # p
                               THEN [@[n] EXCEPT !.new_stream_id = p, !.changing_ = TRUE] ELSE @[n]]]

Element == [linked |-> linked, buffer |-> buffer, context |-> context, current_viewer_ |-> current_viewer_,
            new_viewer_ |-> new_viewer_, changing_ |-> changing_]

\* The element becomes e.
Becomes(e) ==
  /\ linked' = e.linked /\ buffer' = e.buffer /\ context' = e.context
  /\ current_viewer_' = e.current_viewer_ /\ new_viewer_' = e.new_viewer_ /\ changing_' = e.changing_

\* Mutant: the viewer to come is kept.
UnlinkedPending(e, id) ==
  [e EXCEPT !.linked = @ \ {id}, !.buffer[id] = NewBuffer("NORMAL"), !.context[id] = NoContext]

\* A stream is gone: it is no longer the viewer to come.
Unlinked(e, id) ==
  LET pending == e.changing_ /\ e.new_viewer_ = id
  IN  [e EXCEPT !.linked = @ \ {id}, !.buffer[id] = NewBuffer("NORMAL"), !.context[id] = NoContext,
                !.new_viewer_ = IF pending THEN None ELSE @,
                !.changing_ = @ /\ ~pending]

\* Mutant: only the last stream left gets another source.
ReplacedNot(e, id, first) == e

\* Who was seeing the stream prepares to see the first one that is left.
Replaced(e, id, first) ==
  [e EXCEPT !.context = [n \in Ids |-> IF @[n].stream_id = id
                           THEN [@[n] EXCEPT !.stream_id = None, !.new_stream_id = first, !.changing_ = TRUE]
                           ELSE @[n]]]

\* A participant leaves.  One that was never connected was not linked, and the
\* viewers change all the same.
UnlinkVideoStream(id) ==
  LET e == Unlinked(Element, id)
      first == First(e.linked)
      s == [SwitchPublisher(e, first) EXCEPT !.current_viewer_ = first, !.changing_ = TRUE]
      n == Cardinality(e.linked)
  IN  /\ id \notin left
      /\ left' = left \cup {id}
      /\ Becomes(CASE n = 0 -> [e EXCEPT !.current_viewer_ = None]
                   [] n = 1 -> [s EXCEPT !.new_viewer_ = first,
                                  !.context[first] = [@ EXCEPT !.stream_id = first, !.new_stream_id = first, !.changing_ = TRUE]]
                   [] OTHER -> Replaced(s, id, first))
      /\ shown' = [shown EXCEPT ![id] = "none"]
      /\ UNCHANGED <<baseless, switches>>

ChangeToSpeaker(id) ==
  /\ id # current_viewer_ /\ id \in linked /\ switches < MaxSwitches
  /\ switches' = switches + 1
  /\ Becomes(SwitchPublisher(Element, id))
  /\ UNCHANGED <<left, shown, baseless>>

-------------------------------------------------------------------------------
(* A pass of SelectiveVideoForwardLoop.                                      *)

\* Mutant: the first packet of the new source may be of any kind.
ReadyAny(e, id) ==
  LET c == e.context[id]
  IN  c.changing_ /\ c.new_stream_id \in e.linked /\ HasTop(e.buffer[c.new_stream_id])

\* The stream is changing and the first packet of its new source is a key frame.
Ready(e, id) ==
  LET c == e.context[id]
  IN  /\ c.changing_ /\ c.new_stream_id \in e.linked /\ HasTop(e.buffer[c.new_stream_id])
      /\ Head(e.buffer[c.new_stream_id].q) = "key"

\* The streams that turn to their new source.  The changing phase takes them in
\* the order of their ids: one that turns and is no viewer empties its own buffer,
\* and those after it find no packet there.
Turning(e) ==
  LET src(id) == e.context[id].new_stream_id
      emptied[id \in Ids] ==
        /\ id \in e.linked \ {e.new_viewer_, e.current_viewer_} /\ Ready(e, id)
        /\ src(id) < id => ~emptied[src(id)]
  IN  {id \in e.linked : Ready(e, id) /\ (src(id) < id => ~emptied[src(id)])}

\* Mutant: the base of the new source is not set.
TurnedUnbased(c) == [c EXCEPT !.stream_id = c.new_stream_id, !.new_stream_id = None, !.changing_ = FALSE]

\* The context of a stream that turns.
Turned(c) == [stream_id |-> c.new_stream_id, new_stream_id |-> None, changing_ |-> FALSE, based |-> TRUE]

\* The changing phase: the new sources play, and when no stream is changing any
\* more the viewer to come is the current one.
Changed(e) ==
  LET T == Turning(e)
      done == [e EXCEPT
        !.buffer = [s \in Ids |->
           IF s \in T \ {e.new_viewer_, e.current_viewer_} THEN [@[s] EXCEPT !.type = "NORMAL", !.q = <<>>]
           ELSE IF \E n \in T : e.context[n].new_stream_id = s THEN [@[s] EXCEPT !.type = "PLAY"]
           ELSE @[s]],
        !.context = [n \in Ids |-> IF n \in T THEN Turned(@[n]) ELSE @[n]]]
  IN  IF ~e.changing_ THEN e
      ELSE IF \E n \in done.linked : done.context[n].changing_ THEN done
      ELSE [done EXCEPT !.changing_ = FALSE,
                        !.current_viewer_ = IF done.new_viewer_ # None THEN done.new_viewer_ ELSE @,
                        !.new_viewer_ = None]

\* The forward phase, when the changing phase has left e: one packet of every
\* source that plays goes to all who see it.
Forward(e) ==
  LET played == {s \in linked : e.buffer[s].type = "PLAY" /\ HasTop(e.buffer[s])
                                /\ \E n \in linked : e.context[n].stream_id = s}
      served == {n \in linked : e.context[n].stream_id \in played}
      turned == {n \in linked : context[n].changing_ /\ ~e.context[n].changing_}
  IN  /\ Becomes([e EXCEPT !.buffer = [s \in Ids |-> IF s \in played THEN [e.buffer[s] EXCEPT !.q = Tail(@)] ELSE e.buffer[s]]])
      /\ shown' = [n \in Ids |->
           LET first == IF n \in turned THEN "none" ELSE shown[n]
           IN  IF first = "none" /\ n \in served
               THEN Head(e.buffer[e.context[n].stream_id].q) ELSE first]
      /\ baseless' = (baseless \/ \E n \in served : ~e.context[n].based /\ e.context[n].stream_id # n)

Loop ==
  /\ linked # {}
  /\ \E e \in {Changed(Element)} : Forward(e)
  /\ UNCHANGED <<left, switches>>

-------------------------------------------------------------------------------

Init ==
  /\ linked = {} /\ left = {}
  /\ buffer = [n \in Ids |-> NewBuffer("NORMAL")] /\ context = [n \in Ids |-> NoContext]
  /\ current_viewer_ = None /\ new_viewer_ = None /\ changing_ = FALSE
  /\ shown = [n \in Ids |-> "none"] /\ baseless = FALSE /\ switches = 0

Next ==
  \/ Loop
  \/ \E id \in Ids :
       \/ LinkVideoStream(id) \/ UnlinkVideoStream(id) \/ ChangeToSpeaker(id)
       \/ \E p \in {"key", "delta"} : OnIncomingPacket(id, p)

Spec == Init /\ [][Next]_vars

-------------------------------------------------------------------------------

\* Buffers and contexts; whoever waits knows for whom: the assertion
\* new_stream_id != -1 (video_forward_element.cc:395) holds.
TypeOK ==
  /\ linked \subseteq Ids /\ left \subseteq Ids
  /\ \A n \in Ids : buffer[n].type \in {"NORMAL", "STORAGE", "PLAY"} /\ Len(buffer[n].q) <= MaxQueue
  /\ \A n \in linked : context[n].changing_ => context[n].new_stream_id # None

\* The viewers are streams that are linked: LinkVideoStream goes through the
\* context of the current one, and the map would make an empty entry for it.
ViewersAreLinked ==
  /\ current_viewer_ \in (IF linked = {} THEN {None} ELSE linked)
  /\ new_viewer_ \in linked \cup {None}

\* Nobody has a source that was unlinked.
SourceIsLinked == \A n \in linked : context[n].stream_id \in linked \cup {None}

\* What a stream gets first from a new source is a key frame, also when buffers
\* are cleaned, change their type or lose streams in the meantime.  The one that
\* is left alone sees itself at once.
ShownFromKeyFrame == \A n \in linked : shown[n] = "delta" => context[n].stream_id = n

\* assert (switch_context->base_ts != -1) (video_forward_element.cc:486): the
\* context of a stream is set before a packet is relayed to it.  Again the one
\* that is left alone is the exception: UnlinkVideoStream gives it itself as the
\* source without a base, and the assert fails with its next packet.
BaseIsSet == ~baseless

===============================================================================
