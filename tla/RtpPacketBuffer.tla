---------------------------- MODULE RtpPacketBuffer ----------------------------
(***************************************************************************)
(* RtpPacketBuffer and VideoAwareFrameBuffer                               *)
(* (orbit/modules/rtp_packet_buffer.cc): packets of one stream, sorted by  *)
(* a sequence number that wraps, and held back until more than             *)
(* prebuffering_size_ of them are there.                                   *)
(*                                                                         *)
(* Packet n carries the number SeqNumber(n).  It may come at any time,     *)
(* several times or never; the queue keeps every copy, as an entry <<n, i>>*)
(* of its own, and prebuffering_size_ counts entries.  The changes of type *)
(* are the ones video_forward_element.cc makes.                            *)
(***************************************************************************)
EXTENDS Integers, FiniteSets

CONSTANTS
  Wrap,             \* how many sequence numbers there are (2^16)
  FirstNumber,      \* the number of packet 0
  Prebuffering,     \* prebuffering_size_
  KeyFrames,        \* the packets that are key frames
  MaxPackets,       \* packets sent (bound)
  MaxCopies,        \* times a packet is pushed again (bound)
  MaxQueue          \* entries in the buffer (bound)

BufferAssumption ==
  /\ Wrap \in Nat /\ Wrap > 0 /\ FirstNumber \in 0..(Wrap - 1)
  /\ Prebuffering \in Nat /\ MaxPackets \in Nat /\ MaxCopies \in Nat /\ MaxQueue \in Nat

VARIABLES
  buffer_type_,     \* "NORMAL", "STORAGE" or "PLAY"
  queue_,           \* the entries of the priority queue
  has_key_frame_, key_frame_seq_,
  \* history
  pushed,           \* entries that were ever put in the queue
  late,             \* those that came after more than Prebuffering entries of later packets
  popped,           \* the last entry popped, None before
  reached,          \* the last packet, in sending order, of those popped, -1 before
  stored            \* the key frame a STORAGE_BUFFER was last emptied for, -1 when none

vars == <<buffer_type_, queue_, has_key_frame_, key_frame_seq_, pushed, late, popped, reached, stored>>

Packets == 0..(MaxPackets - 1)
Entries == Packets \X (0..MaxCopies)
None == <<-1, 0>>
SeqNumber(n) == (FirstNumber + n) % Wrap
Half == Wrap \div 2

\* Mutant: numbers are compared as they are.
ComparatorPlain(x, y) == x > y

\* dataPacketComparator: whether y goes before x.
Comparator(x, y) ==
  LET diff == x - y
  IN  (diff > 0 /\ diff < Half) \/ diff < -Half

\* queue_.top(): nothing goes before it.
Top == CHOOSE e \in queue_ : \A f \in queue_ : ~Comparator(SeqNumber(e[1]), SeqNumber(f[1]))

\* PopPacket and TopPacket have a packet to give.
PrebufferingDone == Cardinality(queue_) > Prebuffering

IsKeyFramePacket(n) == n \in KeyFrames

\* The entry of packet n that is made next.
Copies(n) == Cardinality({e \in pushed : e[1] = n})
Entry(n) == <<n, Copies(n)>>

\* The network gives packet n, for the first time or again; the buffer never holds
\* packets half of the numbers apart.
Arrives(n) ==
  /\ Copies(n) <= MaxCopies
  /\ \A e \in queue_ : e[1] - n < Half /\ n - e[1] < Half

-------------------------------------------------------------------------------

\* Mutant: a packet that is not a key frame is kept wherever it belongs.
PushStorageAny(n) ==
  IF IsKeyFramePacket(n)
  THEN /\ queue_' = {Entry(n)} /\ stored' = n
       /\ has_key_frame_' = TRUE /\ key_frame_seq_' = SeqNumber(n)
  ELSE /\ queue_' = IF has_key_frame_ THEN queue_ \cup {Entry(n)} ELSE queue_
       /\ UNCHANGED <<stored, has_key_frame_, key_frame_seq_>>

\* PushPacket of a STORAGE_BUFFER: a key frame empties it, others are kept
\* when their number is greater than that of the key frame.
PushStorage(n) ==
  IF IsKeyFramePacket(n)
  THEN /\ queue_' = {Entry(n)} /\ stored' = n
       /\ has_key_frame_' = TRUE /\ key_frame_seq_' = SeqNumber(n)
  ELSE /\ queue_' = IF has_key_frame_ /\ SeqNumber(n) > key_frame_seq_
                    THEN queue_ \cup {Entry(n)} ELSE queue_
       /\ UNCHANGED <<stored, has_key_frame_, key_frame_seq_>>

\* PushPacket of a NORMAL_BUFFER: the packet is dropped and the buffer emptied.
PushNormal(n) ==
  /\ queue_' = {}
  /\ UNCHANGED <<stored, has_key_frame_, key_frame_seq_>>

PushPlay(n) ==
  /\ queue_' = queue_ \cup {Entry(n)}
  /\ UNCHANGED <<stored, has_key_frame_, key_frame_seq_>>

\* The entries of later packets that were in the queue before packet n.
Later(n) == {e \in pushed : e[1] > n}

PushPacket(n) ==
  /\ Cardinality(queue_) < MaxQueue
  /\ Arrives(n)
  /\ \/ buffer_type_ = "NORMAL" /\ PushNormal(n)
     \/ buffer_type_ = "STORAGE" /\ PushStorage(n)
     \/ buffer_type_ = "PLAY" /\ PushPlay(n)
  /\ pushed' = pushed \cup queue_'
  /\ late' = IF Cardinality(Later(n)) > Prebuffering THEN late \cup (queue_' \ queue_) ELSE late
  /\ UNCHANGED <<buffer_type_, popped, reached>>

\* A buffer that does not play pops nothing: that call changes nothing.
PopPacket ==
  /\ buffer_type_ = "PLAY" /\ PrebufferingDone
  /\ popped' = Top /\ queue_' = queue_ \ {Top}
  /\ reached' = IF Top[1] > reached THEN Top[1] ELSE reached
  /\ UNCHANGED <<buffer_type_, has_key_frame_, key_frame_seq_, pushed, late, stored>>

\* SetBufferType(STORAGE_BUFFER) and ResetBuffer: the stream will be shown.
Store ==
  /\ buffer_type_ = "NORMAL" /\ buffer_type_' = "STORAGE"
  /\ queue_' = {} /\ has_key_frame_' = FALSE /\ stored' = -1
  /\ UNCHANGED <<key_frame_seq_, pushed, late, popped, reached>>

\* SetBufferType(PLAY_BUFFER) once the packet on top is a key frame.
Play ==
  /\ buffer_type_ # "PLAY" /\ PrebufferingDone /\ IsKeyFramePacket(Top[1])
  /\ buffer_type_' = "PLAY"
  /\ UNCHANGED <<queue_, has_key_frame_, key_frame_seq_, pushed, late, popped, reached, stored>>

\* CleanBuffer and SetBufferType(NORMAL_BUFFER): the stream is not shown any more.
Rest ==
  /\ buffer_type_ # "NORMAL" /\ buffer_type_' = "NORMAL"
  /\ queue_' = {} /\ stored' = -1
  /\ UNCHANGED <<has_key_frame_, key_frame_seq_, pushed, late, popped, reached>>

-------------------------------------------------------------------------------

\* A buffer is made for a stream that plays at once, or not.
Init ==
  /\ buffer_type_ \in {"NORMAL", "PLAY"}
  /\ queue_ = {} /\ has_key_frame_ = FALSE /\ key_frame_seq_ = 0
  /\ pushed = {} /\ late = {} /\ popped = None /\ reached = -1 /\ stored = -1

Next ==
  \/ \E n \in Packets : PushPacket(n)
  \/ PopPacket \/ Store \/ Play \/ Rest

Spec == Init /\ [][Next]_vars

-------------------------------------------------------------------------------

\* The state of a buffer; a NORMAL_BUFFER holds nothing.
TypeOK ==
  /\ buffer_type_ \in {"NORMAL", "STORAGE", "PLAY"}
  /\ queue_ \subseteq pushed /\ late \subseteq pushed /\ pushed \subseteq Entries
  /\ key_frame_seq_ \in 0..(Wrap - 1) /\ has_key_frame_ \in BOOLEAN
  /\ buffer_type_ = "NORMAL" => queue_ = {}
  /\ popped \in pushed \cup {None} /\ reached \in Packets \cup {-1} /\ stored \in Packets \cup {-1}

\* "use to wait for the late packet" (rtp_packet_buffer.h:18): packets are popped in
\* the order they were sent in, a packet and its copies at the same place, over the
\* wrap of the numbers, over losses, and also when the buffer was emptied and shown
\* again in between.  The one that goes back is an entry that came too late: more than
\* prebuffering_size_ entries of later packets, every copy counted, were pushed before
\* it.  (So two copies of packet 1 release it before packet 0 comes, with a
\* prebuffering of 1.)
PopsInOrder == [][popped' # popped => popped' \in late \/ popped'[1] >= reached]_vars

\* "the KF(keyframe) should be the first element of the queue"
\* (rtp_packet_buffer.h:26): a STORAGE_BUFFER has kept the key frame it was
\* emptied for, and holds nothing older, but for packets sent before a wrap of
\* the numbers that the key frame was sent after: PushPacket compares the numbers
\* as they are, the queue modulo Wrap.
KeyFrameIsFirst ==
  buffer_type_ = "STORAGE" /\ queue_ # {} =>
    /\ \E e \in queue_ : e[1] = stored
    /\ \A e \in queue_ :
         e[1] >= stored \/ (FirstNumber + e[1]) \div Wrap < (FirstNumber + stored) \div Wrap

================================================================================
