------------------------------- MODULE ClassRoom -------------------------------
(***************************************************************************)
(* ClassRoom and ClassRoomPlugin (orbit/classroom_plugin.cc): every        *)
(* participant has a fixed number of downstream video ssrcs ("slots"); the *)
(* room links the upstream ssrc of each other participant to one of them,  *)
(* and rewrites ssrc, sequence number and timestamp of a packet it         *)
(* forwards.  The threads are the service threads (join, leave, publish),  *)
(* the ICE and the packet thread of each stream (READY, packets).          *)
(*                                                                         *)
(* A stream makes one offer, so its upstream ssrc is named by the stream.  *)
(* room is who holds classroom_plugins_mutex_ and how far it is, publish   *)
(* who holds published_streams_mutex_ in PublishStreams; the other         *)
(* sections of that mutex are single steps.  A packet's sequence number    *)
(* and timestamp are one number, modulo Modulus (2^16 and 2^32 in the      *)
(* code).                                                                  *)
(***************************************************************************)
EXTENDS Integers, Sequences, FiniteSets, SequencesExt, FiniteSetsExt

CONSTANTS
  Streams,          \* stream ids, used once each
  Teachers,         \* the ones whose plugin has the role TEACHER
  Slots,            \* CLASSROOM_STUDENT_NUMBER
  Modulus,          \* of the numbers
  FirstNumbers,     \* the number of a stream's first packet
  PublishRequests,  \* the sets of stream ids PublishStreams is called with
  None,             \* ssrc 0, no holder of a mutex, no context
  MaxParticipants,  \* in the room at a time (bound)
  MaxLeaves,        \* participants that leave (bound)
  MaxInputs         \* packets, PublishStreams calls and second notifications (bound)

ASSUME ClassRoomAssumption ==
  /\ Teachers \subseteq Streams
  /\ Slots \in Nat /\ Modulus \in Nat \ {0, 1} /\ FirstNumbers \subseteq 0..(Modulus - 1)
  /\ PublishRequests \subseteq SUBSET Streams
  /\ MaxParticipants \in Nat /\ MaxLeaves \in Nat /\ MaxInputs \in Nat

VARIABLES
  plugins_,             \* the participants, in the order they joined
  joined,               \* streams that were ever added
  offered,              \* streams whose offer was processed
  extended_ssrc_vec_,   \* per plugin, the upstream ssrc linked to each slot
  video_switch_contexts_,
  active_,              \* plugins whose active flag is set
  published_streams_, master_streams_,
  notified,             \* per stream and thread: how far updateState(READY) is
  number,               \* per stream, the number of its next packet
  room,                 \* holder of classroom_plugins_mutex_, or None
  publish,              \* ids of a PublishStreams in its section, or None
  failed,               \* the assert that ended the process and its stream, or None
  inputs                \* bound

links == <<extended_ssrc_vec_, video_switch_contexts_>>
sets  == <<published_streams_, master_streams_>>
vars == <<plugins_, joined, offered, links, active_, sets, notified, number, room, publish,
          failed, inputs>>

\* The ICE thread and the packet thread of a stream can both find it READY:
\* Transport::updateTransportState tests and sets the state without a lock.
NotifyThreads == {"ice", "worker"}

Numbers == 0..(Modulus - 1)
MinusOne == Modulus - 1      \* -1 stored in an unsigned field
Gap == 2 % Modulus           \* stands for 2880, the step to a new source's timestamp

\* used and prev are history: whether a packet ever went through the slot, and
\* the number of the last one of the present source.
Contexts == [source : Streams, seq : Numbers, ts : Numbers, last_seq : Numbers, last_ts : Numbers,
             base_seq : Numbers, base_ts : Numbers, used : BOOLEAN, prev : Numbers \cup {-1}]

\* What a holder of classroom_plugins_mutex_ does, for which stream (of a packet: the
\* number, of a notification: the thread), and the participants still to visit.
Sections == [op : {"add", "remove"}, stream : Streams]
            \cup [op : {"mux"}, stream : Streams, n : Numbers, todo : Seq(Streams)]
            \cup [op : {"link"}, stream : Streams, thread : NotifyThreads, todo : Seq(Streams)]

Failures == {"new_plugin", "not_linked"} \X Streams

ASSUME NoneAssumption == None \notin Streams /\ None \notin Contexts /\ None \notin Sections /\ None \notin Failures

PluginsMutexFree   == room = None
PublishedMutexFree == publish = None

\* CreateStream, CloseStream, CloseSession, the watchdog and SendSessionMessage (an offer,
\* PublishStreams) hold the session's mutex for the whole call; the recycle thread removes
\* participants of a session that is closed, when such calls return at once.
SessionMutexFree == publish = None /\ (room # None => room.op \notin {"add", "remove"})

UpstreamSsrc(s) == IF s \in offered THEN s ELSE None

-------------------------------------------------------------------------------
(* The plugin.  vec is its extended_ssrc_vec_, ctx its switch contexts.      *)

UnlinkToSsrc(vec, other) == [k \in DOMAIN vec |-> IF vec[k] = other THEN None ELSE vec[k]]

FreeSlots(vec) == {k \in DOMAIN vec : vec[k] = None}

NewContext(other) ==
  [source |-> other, seq |-> 0, ts |-> 0, last_seq |-> 0, last_ts |-> 0,
   base_seq |-> MinusOne, base_ts |-> MinusOne, used |-> FALSE, prev |-> -1]

\* Mutant: the source of the old context is kept.
RenewContextSource(c, other) ==
  [c EXCEPT !.last_ts = (c.ts + Gap) % Modulus, !.last_seq = (c.seq + 1) % Modulus,
            !.base_ts = MinusOne, !.base_seq = MinusOne, !.prev = -1]

\* Mutant: the timestamp starts from zero again.
RenewContextTs(c, other) ==
  [c EXCEPT !.source = other, !.last_ts = 0, !.last_seq = (c.seq + 1) % Modulus,
            !.base_ts = MinusOne, !.base_seq = MinusOne, !.prev = -1]

RenewContext(c, other) ==
  [c EXCEPT !.source = other, !.last_ts = (c.ts + Gap) % Modulus,
            !.last_seq = (c.seq + 1) % Modulus,
            !.base_ts = MinusOne, !.base_seq = MinusOne, !.prev = -1]

\* Mutant: a slot that has the ssrc already is not freed.
LinkToSsrcTwice(vec, ctx, ssrc, other) ==
  LET k == Min(FreeSlots(vec))
  IN  IF FreeSlots(vec) = {} THEN <<vec, ctx>>
      ELSE <<[vec EXCEPT ![k] = ssrc],
             [ctx EXCEPT ![k] = IF @ = None THEN NewContext(other) ELSE RenewContext(@, other)]>>

\* <<vec, ctx>> after LinkToSsrc(ssrc, other): unlink, then the first free slot.
LinkToSsrc(vec, ctx, ssrc, other) ==
  LET v == UnlinkToSsrc(vec, ssrc)
      k == Min(FreeSlots(v))
  IN  IF FreeSlots(v) = {} THEN <<v, ctx>>
      ELSE <<[v EXCEPT ![k] = ssrc],
             [ctx EXCEPT ![k] = IF @ = None THEN NewContext(other) ELSE RenewContext(@, other)]>>

\* The context after the header of packet n was rewritten.  base_seq has 16
\* bits and is compared with the int -1; base_ts has 32 and is compared with
\* the unsigned value of -1.
RewriteRtpHeader(c, n) ==
  LET base_seq == IF c.base_seq = -1 THEN n ELSE c.base_seq
      base_ts  == IF c.base_ts = MinusOne THEN n ELSE c.base_ts
  IN  [c EXCEPT !.base_seq = base_seq, !.base_ts = base_ts,
                !.seq = (c.last_seq + n - base_seq) % Modulus,
                !.ts = (c.last_ts + n - base_ts) % Modulus,
                !.used = TRUE, !.prev = n]

-------------------------------------------------------------------------------
(* Joining, the offer, leaving.                                              *)

\* AddParticipant, up to the section of published_streams_mutex_.
AddParticipant(s) ==
  /\ SessionMutexFree /\ PluginsMutexFree /\ s \notin joined /\ Len(plugins_) < MaxParticipants
  /\ plugins_' = Append(plugins_, s) /\ joined' = joined \cup {s}
  /\ room' = [op |-> "add", stream |-> s]
  /\ UNCHANGED <<offered, links, active_, sets, notified, number, publish, failed, inputs>>

AddRole ==
  /\ room # None /\ room.op = "add" /\ PublishedMutexFree
  /\ IF room.stream \in Teachers
     THEN master_streams_' = master_streams_ \cup {room.stream} /\ UNCHANGED published_streams_
     ELSE published_streams_' = published_streams_ \cup {room.stream} /\ UNCHANGED master_streams_
  /\ room' = None
  /\ UNCHANGED <<plugins_, joined, offered, links, active_, notified, number, publish, failed, inputs>>

\* TransportDelegate::ProcessOffer sets the ssrcs of the plugin, without a lock of the room.
ProcessOffer(s, first) ==
  /\ SessionMutexFree /\ s \in joined \ offered
  /\ offered' = offered \cup {s}
  /\ extended_ssrc_vec_' = [extended_ssrc_vec_ EXCEPT ![s] = [k \in 1..Slots |-> None]]
  /\ number' = [number EXCEPT ![s] = first]
  /\ UNCHANGED <<plugins_, joined, video_switch_contexts_, active_, sets, notified, room, publish,
                 failed, inputs>>

\* Room::RemoveParticipant: the plugin is erased from the vector.
Erase(s) == RemoveAt(plugins_, CHOOSE i \in DOMAIN plugins_ : plugins_[i] = s)

\* The participants that have left (for the bound MaxLeaves).
Gone == Cardinality(joined) - Len(plugins_)

\* Mutant: the others keep their links.
RemoveParticipantLinked(s) ==
  /\ SessionMutexFree /\ PluginsMutexFree /\ s \in Range(plugins_) /\ Gone < MaxLeaves
  /\ plugins_' = Erase(s)
  /\ active_' = active_ \ {s}
  /\ room' = [op |-> "remove", stream |-> s]
  /\ UNCHANGED <<joined, offered, links, sets, notified, number, publish, failed, inputs>>

\* RemoveParticipant, up to the section of published_streams_mutex_.
RemoveParticipant(s) ==
  /\ SessionMutexFree /\ PluginsMutexFree /\ s \in Range(plugins_) /\ Gone < MaxLeaves
  /\ plugins_' = Erase(s)
  /\ active_' = active_ \ {s}
  /\ extended_ssrc_vec_' = [p \in Streams |->
       IF p \in Range(plugins_') THEN UnlinkToSsrc(extended_ssrc_vec_[p], UpstreamSsrc(s))
                                 ELSE extended_ssrc_vec_[p]]
  /\ room' = [op |-> "remove", stream |-> s]
  /\ UNCHANGED <<joined, offered, video_switch_contexts_, sets, notified, number, publish, failed,
                 inputs>>

RemoveRole ==
  /\ room # None /\ room.op = "remove" /\ PublishedMutexFree
  /\ master_streams_' = master_streams_ \ {room.stream}
  /\ published_streams_' = published_streams_ \ {room.stream}
  /\ room' = None
  /\ UNCHANGED <<plugins_, joined, offered, links, active_, notified, number, publish, failed, inputs>>

-------------------------------------------------------------------------------
(* TransportDelegate::updateState(READY), on thread t of stream s.           *)

\* OnTransportStateChange: the key frames are requested from all participants
\* under classroom_plugins_mutex_ (no state of the room changes).
RequestKeyFrameFromAllParticipants(s, t) ==
  /\ s \in offered /\ notified[s][t] = "no" /\ PluginsMutexFree
  /\ notified' = [notified EXCEPT ![s][t] = "link"]
  /\ \/ t = "ice" /\ UNCHANGED inputs
     \/ t = "worker" /\ inputs < MaxInputs /\ inputs' = inputs + 1
  /\ UNCHANGED <<plugins_, joined, offered, links, active_, sets, number, room, publish, failed>>

\* LinkSsrcsToParticipants: the new plugin is looked up ...
LinkSsrcsToParticipants(s, t) ==
  /\ notified[s][t] = "link" /\ PluginsMutexFree
  /\ IF s \in Range(plugins_)
     THEN /\ room' = [op |-> "link", stream |-> s, thread |-> t, todo |-> plugins_]
          /\ UNCHANGED failed
     ELSE failed' = <<"new_plugin", s>> /\ UNCHANGED room
  /\ UNCHANGED <<plugins_, joined, offered, links, active_, sets, notified, number, publish, inputs>>

\* The loop goes on with the next participant, or returns.
LinkAdvance ==
  /\ room' = IF Len(room.todo) = 1 THEN None ELSE [room EXCEPT !.todo = Tail(@)]
  /\ notified' = IF Len(room.todo) = 1 THEN [notified EXCEPT ![room.stream][room.thread] = "activate"]
                 ELSE notified

\* Mutant: only the participants that were there are linked to the new one.
LinkNextOneWay ==
  LET s == room.stream
      p == Head(room.todo)
      old == LinkToSsrc(extended_ssrc_vec_[p], video_switch_contexts_[p], UpstreamSsrc(s), s)
  IN  /\ room # None /\ room.op = "link"
      /\ IF p = s THEN UNCHANGED links
         ELSE /\ extended_ssrc_vec_' = [extended_ssrc_vec_ EXCEPT ![p] = old[1]]
              /\ video_switch_contexts_' = [video_switch_contexts_ EXCEPT ![p] = old[2]]
      /\ LinkAdvance
      /\ UNCHANGED <<plugins_, joined, offered, active_, sets, number, publish, failed, inputs>>

\* ... then each other participant is linked to it, and it to each of them, in
\* the order they joined.
LinkNext ==
  LET s == room.stream
      p == Head(room.todo)
      old == LinkToSsrc(extended_ssrc_vec_[p], video_switch_contexts_[p], UpstreamSsrc(s), s)
      new == LinkToSsrc(extended_ssrc_vec_[s], video_switch_contexts_[s], UpstreamSsrc(p), p)
  IN  /\ room # None /\ room.op = "link"
      /\ IF p = s THEN UNCHANGED links
         ELSE /\ extended_ssrc_vec_' = [extended_ssrc_vec_ EXCEPT ![p] = old[1], ![s] = new[1]]
              /\ video_switch_contexts_' = [video_switch_contexts_ EXCEPT ![p] = old[2], ![s] = new[2]]
      /\ LinkAdvance
      /\ UNCHANGED <<plugins_, joined, offered, active_, sets, number, publish, failed, inputs>>

\* set_active(true), after the plugin's callback returned; no lock.
SetActive(s, t) ==
  /\ notified[s][t] = "activate"
  /\ notified' = [notified EXCEPT ![s][t] = "done"]
  /\ active_' = active_ \cup {s}
  /\ UNCHANGED <<plugins_, joined, offered, links, sets, number, room, publish, failed, inputs>>

-------------------------------------------------------------------------------
(* Packets.                                                                  *)

\* When the transport is READY it hands over packets: state_ is set before the
\* notification, by either thread.
MediaFlows(s) == \E t \in NotifyThreads : notified[s][t] # "no"

\* IncomingRtpPacket of a video packet: MuxRtpPacket takes the mutex of the room.
MuxRtpPacket(s) ==
  /\ PluginsMutexFree /\ MediaFlows(s) /\ inputs < MaxInputs
  /\ inputs' = inputs + 1
  /\ number' = [number EXCEPT ![s] = (@ + 1) % Modulus]
  /\ room' = IF plugins_ = <<>> THEN None
             ELSE [op |-> "mux", stream |-> s, n |-> number[s], todo |-> plugins_]
  /\ UNCHANGED <<plugins_, joined, offered, links, active_, sets, notified, publish, failed>>

should_forward(r, s) ==
  r # s /\ (s \in master_streams_ \/ r \in master_streams_ \/ s \in published_streams_)

\* RelayRtpPacket to the next participant, under published_streams_mutex_.
MuxForward ==
  LET r == Head(room.todo)
      linked == {k \in DOMAIN extended_ssrc_vec_[r] : extended_ssrc_vec_[r][k] = room.stream}
      k == Min(linked)
  IN  /\ room # None /\ room.op = "mux" /\ PublishedMutexFree
      /\ room' = IF Len(room.todo) = 1 THEN None ELSE [room EXCEPT !.todo = Tail(@)]
      /\ IF ~should_forward(r, room.stream) \/ r \notin active_
         THEN UNCHANGED <<video_switch_contexts_, failed>>
         ELSE IF linked = {}
         THEN /\ failed' = <<"not_linked", room.stream>>
              /\ UNCHANGED video_switch_contexts_
         ELSE /\ video_switch_contexts_' =
                   [video_switch_contexts_ EXCEPT ![r][k] = RewriteRtpHeader(@, room.n)]
              /\ UNCHANGED failed
      /\ UNCHANGED <<plugins_, joined, offered, extended_ssrc_vec_, active_, sets, notified, number,
                     publish, inputs>>

-------------------------------------------------------------------------------
(* PublishStreams.                                                           *)

\* It takes published_streams_mutex_ and clears the set ...
PublishStreams(ids) ==
  /\ SessionMutexFree /\ PublishedMutexFree /\ inputs < MaxInputs
  /\ publish' = ids /\ inputs' = inputs + 1
  /\ published_streams_' = {}
  /\ UNCHANGED <<plugins_, joined, offered, links, active_, master_streams_, notified, number, room,
                 failed>>

\* ... and waits for classroom_plugins_mutex_ in RequestKeyFrameFromAllParticipants.
PublishFinish ==
  /\ publish # None /\ PluginsMutexFree
  /\ published_streams_' = publish
  /\ publish' = None
  /\ UNCHANGED <<plugins_, joined, offered, links, active_, master_streams_, notified, number, room,
                 failed, inputs>>

-------------------------------------------------------------------------------

Init ==
  /\ plugins_ = <<>> /\ joined = {} /\ offered = {}
  /\ extended_ssrc_vec_ = [s \in Streams |-> <<>>]
  /\ video_switch_contexts_ = [s \in Streams |-> [k \in 1..Slots |-> None]]
  /\ active_ = {} /\ published_streams_ = {} /\ master_streams_ = {}
  /\ notified = [s \in Streams |-> [t \in NotifyThreads |-> "no"]]
  /\ number = [s \in Streams |-> 0]
  /\ room = None /\ publish = None /\ failed = None /\ inputs = 0

\* Steps of a call that is inside a section.
InSection == AddRole \/ RemoveRole \/ LinkNext \/ MuxForward \/ PublishFinish

\* A failed assert ends the process.
Next ==
  /\ failed = None
  /\ \/ \E s \in Streams : AddParticipant(s) \/ RemoveParticipant(s) \/ MuxRtpPacket(s)
     \/ \E s \in Streams, first \in FirstNumbers : ProcessOffer(s, first)
     \/ \E s \in Streams, t \in NotifyThreads :
          \/ RequestKeyFrameFromAllParticipants(s, t)
          \/ LinkSsrcsToParticipants(s, t)
          \/ SetActive(s, t)
     \/ \E ids \in PublishRequests : PublishStreams(ids)
     \/ InSection

Spec == Init /\ [][Next]_vars

\* A call in a section goes on when the mutex it waits for is free.
FairSpec == Spec /\ WF_vars(failed = None /\ InSection)

-------------------------------------------------------------------------------
(* Properties.                                                               *)

\* The values of the fields.  A plugin has its slots from the offer on.
TypeOK ==
  /\ plugins_ \in Seq(joined) /\ Len(plugins_) <= MaxParticipants
  /\ joined \subseteq Streams /\ offered \subseteq joined
  /\ extended_ssrc_vec_ \in [Streams -> [1..Slots -> Streams \cup {None}] \cup {<<>>}]
  /\ \A s \in Streams : DOMAIN extended_ssrc_vec_[s] = IF s \in offered THEN 1..Slots ELSE {}
  /\ video_switch_contexts_ \in [Streams -> [1..Slots -> Contexts \cup {None}]]
  /\ active_ \subseteq Streams /\ master_streams_ \subseteq Teachers
  /\ published_streams_ \subseteq Streams
  /\ notified \in [Streams -> [NotifyThreads -> {"no", "link", "activate", "done"}]]
  /\ number \in [Streams -> Numbers]
  /\ room \in Sections \cup {None} /\ failed \in Failures \cup {None}
  /\ publish = None \/ publish \subseteq Streams

\* In a plugin an upstream ssrc is linked to one slot at most, even when both
\* threads notify READY; RewriteRtpHeader takes the first one.
LinkedOnce ==
  \A s \in Streams : \A j, k \in DOMAIN extended_ssrc_vec_[s] :
    j # k /\ extended_ssrc_vec_[s][j] # None => extended_ssrc_vec_[s][j] # extended_ssrc_vec_[s][k]

\* A participant's slots name participants only: the links to a stream that
\* left are gone, and none is made later by a READY notification on its way.
NoLinkToRemoved ==
  \A p \in Range(plugins_) : Range(extended_ssrc_vec_[p]) \subseteq Range(plugins_) \cup {None}

\* GetStreamVideoMap tells the client the truth: the context of a linked slot
\* exists (the asserts of lines 119 and 221) and names the stream linked to it.
VideoMapNamesSource ==
  \A s \in Streams : \A k \in DOMAIN extended_ssrc_vec_[s] :
    extended_ssrc_vec_[s][k] # None =>
      /\ video_switch_contexts_[s][k] # None
      /\ video_switch_contexts_[s][k].source = extended_ssrc_vec_[s][k]

\* The room has seen the READY of s.
LinkedUp(s) == \E t \in NotifyThreads : notified[s][t] \in {"activate", "done"}

\* The assert of RewriteRtpHeader (classroom_plugin.cc:127: "they should have been
\* linked") fails only for a stream that has left the room or whose READY is still
\* being handled: a packet of any other finds its link in every plugin it is
\* forwarded to, in a room with no more participants than the slots allow for.
ParticipantIsLinked ==
  MaxParticipants <= Slots + 1 =>
    \A s \in Streams :
      failed = <<"not_linked", s>> => s \notin Range(plugins_) \/ ~LinkedUp(s)

\* Two participants whose READY was handled see each other.
AllLinked ==
  failed = None /\ MaxParticipants <= Slots + 1 =>
    \A p, q \in Range(plugins_) :
      p # q /\ LinkedUp(p) /\ LinkedUp(q) => q \in Range(extended_ssrc_vec_[p])

\* What a slot sends to the browser when its context c becomes d by a packet.
Forwarded(c, d) == c # None /\ d # None /\ c # d /\ d.prev # -1

\* The packet that made d of c continues the numbers: the first one of a source is
\* Gap later than the last one sent, the others are as far on as the source's own.
Continues(c, d) ==
  Forwarded(c, d) =>
    /\ c.prev = -1 /\ c.used => d.ts = (c.ts + Gap) % Modulus
    /\ c.prev # -1 /\ c.base_ts # MinusOne => d.ts = (c.ts + (d.prev - c.prev)) % Modulus
    /\ c.prev # -1 => d.seq = (c.seq + (d.prev - c.prev)) % Modulus

\* The timestamps of a slot go on across a change of its source: Gap later for
\* the first packet, then as far as the source's own went.  The exception is a
\* source that starts at the largest timestamp, which reads as "no base yet".
\* Sequence numbers go on within a source; at a change they do not, although
\* classroom_plugin.cc:146 wants "the sequential next ones": the 16-bit base is
\* never equal to the int -1, so the source's first number is not its base.
NumbersContinue ==
  [][\A s \in Streams, k \in 1..Slots :
       Continues(video_switch_contexts_[s][k], video_switch_contexts_'[s][k])]_vars

\* classroom_plugin.h:163: PublishStreams makes the streams it was given
\* published; a call that has begun ends, unless an assert ends the process.
PublishEnds == publish # None ~> publish = None \/ failed # None

\* LinkToSsrc, UnlinkToSsrc and LinkSsrcsToParticipants keep slots and contexts
\* consistent: a source has one slot, nobody is linked to a stream that was removed,
\* a context is that of the slot's source, and ready participants are linked both ways.
LinksAreConsistent ==
  TypeOK /\ LinkedOnce /\ NoLinkToRemoved /\ VideoMapNamesSource /\ AllLinked

-------------------------------------------------------------------------------
(* What else is inductive.                                                   *)

\* A plugin is in the vector once; it is linked to others that made an offer.
OnceInRoom == \A i, j \in DOMAIN plugins_ : i # j => plugins_[i] # plugins_[j]

LinksToOthers == \A s \in Streams : Range(extended_ssrc_vec_[s]) \subseteq (offered \ {s}) \cup {None}

\* READY comes after the offer, and a plugin is active after the room handled it.
ReadyIsOffered == \A s \in Streams, t \in NotifyThreads : notified[s][t] # "no" => s \in offered

ActiveIsLinked == \A s \in active_ : LinkedUp(s)

\* A loop over the participants has participants to visit: the vector cannot
\* change while the mutex is held.
LoopIsInRoom ==
  room # None /\ room.op \in {"mux", "link"} =>
    room.todo # <<>> /\ Range(room.todo) \subseteq Range(plugins_)

\* The linking loop has linked the stream with everybody it has visited.
LoopHasLinked ==
  room # None /\ room.op = "link" =>
    /\ room.stream \in Range(plugins_) /\ notified[room.stream][room.thread] = "link"
    /\ MaxParticipants <= Slots + 1 =>
         \A p \in Range(plugins_) \ (Range(room.todo) \cup {room.stream}) :
           LinkedUp(p) => /\ room.stream \in Range(extended_ssrc_vec_[p])
                          /\ p \in Range(extended_ssrc_vec_[room.stream])

\* What a context c remembers of the packets sent through its slot.
Remembers(c) ==
  /\ c.base_seq = MinusOne
  /\ c.prev = -1 => c.base_ts = MinusOne /\ (c.used => c.last_ts = (c.ts + Gap) % Modulus)
  /\ c.prev # -1 => c.seq = (c.last_seq + c.prev - MinusOne) % Modulus
  /\ c.prev # -1 /\ c.base_ts # MinusOne => c.ts = (c.last_ts + c.prev - c.base_ts) % Modulus

ContextsRemember ==
  \A s \in Streams, k \in 1..Slots :
    video_switch_contexts_[s][k] # None => Remembers(video_switch_contexts_[s][k])

IInv ==
  /\ LinksAreConsistent /\ ParticipantIsLinked /\ OnceInRoom /\ LinksToOthers /\ ReadyIsOffered
  /\ ActiveIsLinked /\ LoopIsInRoom /\ LoopHasLinked /\ ContextsRemember

===============================================================================
