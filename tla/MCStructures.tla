----------------------------- MODULE MCStructures -----------------------------
(***************************************************************************)
(* The data structures that are guarded by a mutex of their own, checked   *)
(* in one model: the statusz vector (SessionInfo), the reordering queue    *)
(* (RtpPacketQueue), the two lists of the NACK processor (NackTracker,     *)
(* RetransmitBuffer) and the packet buffer of the video forwarder          *)
(* (RtpPacketBuffer).  They share no state, so a behaviour of the model is *)
(* one of a single structure, part, while the others rest where they       *)
(* started.                                                                *)
(***************************************************************************)
EXTENDS SessionInfo

CONSTANTS
  SeqSpace,                                                         \* 65536
  QueueSpace, Tolerance, TsMod, Depth, MaxDepth, QueueStarts, FirstTs, QueueWindow,
  MaxQueued,                                                        \* RtpPacketQueue
  MaxLen, MaxBack, MissingWait, NackedWait, MaxResend, Limit, KeyInterval, RequestFir,
  FirWait, TrackerSpan, MaxBlocks, TrackerStarts, TrackerWindow, Gap, MaxTracked,
  TrackerTime,                                                      \* NackTracker
  QueueSize, MaxRetries, RetryWait, ListSpan, ListStarts, MaxSent, MaxNacks,
  ListTime,                                                         \* RetransmitBuffer
  Wrap, FirstNumber, Prebuffering, KeyFrames, MaxPackets, MaxCopies,
  MaxQueue                                                          \* RtpPacketBuffer

VARIABLES
  part,                                                             \* the structure in use
  queue, last, timebase, pushing, queueFirst, highest, queued, skipOld, delivered,
  discarded,                                                        \* RtpPacketQueue
  last_seqs, lastFir, getFir, trackerNow, newest, tracked, received, asked,
  cleared,                                                          \* NackTracker
  retransmit_list, todo, started, listFirst, sent, listNow, nacks, lost_not_retrans, resent,
  wanted, split, answered,                                                  \* RetransmitBuffer
  buffer_type_, queue_, has_key_frame_, key_frame_seq_, pushed, late, popped, reached,
  stored                                                            \* RtpPacketBuffer

Queue == INSTANCE RtpPacketQueue WITH
  SeqSpace <- QueueSpace, NONE <- NULL, FirstSeqs <- QueueStarts, Window <- QueueWindow,
  MaxArrivals <- MaxQueued, first <- queueFirst, arrivals <- queued

Tracker == INSTANCE NackTracker WITH
  BlockSpan <- TrackerSpan, FirstSeqs <- TrackerStarts, Window <- TrackerWindow,
  MaxArrivals <- MaxTracked, MaxTime <- TrackerTime, now <- trackerNow, arrivals <- tracked

List == INSTANCE RetransmitBuffer WITH
  BlockSpan <- ListSpan, FirstSeqs <- ListStarts, MaxTime <- ListTime,
  first <- listFirst, now <- listNow

Buffer == INSTANCE RtpPacketBuffer

ASSUME StructuresAssumption ==
  /\ Queue!QueueAssumption /\ Tracker!TrackerAssumption
  /\ List!BufferAssumption /\ Buffer!BufferAssumption

queueVars == <<queue, last, timebase, pushing, queueFirst, highest, queued, skipOld,
  delivered, discarded>>
trackerVars == <<last_seqs, lastFir, getFir, trackerNow, newest, tracked, received,
  asked, cleared>>
listVars == <<retransmit_list, todo, started, listFirst, sent, listNow, nacks, lost_not_retrans,
  resent, wanted, split, answered>>
bufferVars == <<buffer_type_, queue_, has_key_frame_, key_frame_seq_, pushed, late,
  popped, reached, stored>>
allVars == <<vars, part, queueVars, trackerVars, listVars, bufferVars>>

\* A structure that is not in use has one initial state only.
AllInit ==
  /\ part \in {"info", "queue", "tracker", "list", "buffer"}
  /\ Init /\ Queue!Init /\ Tracker!Init /\ List!Init /\ Buffer!Init
  /\ part # "queue" => queueFirst = (CHOOSE s \in QueueStarts : TRUE) /\ skipOld
  /\ part # "tracker" => newest = SeqSpace + CHOOSE s \in TrackerStarts : TRUE
  /\ part # "list" => listFirst = CHOOSE s \in ListStarts : TRUE
  /\ part # "buffer" => buffer_type_ = "NORMAL"

AllNext ==
  /\ UNCHANGED part
  /\ \/ part = "info" /\ Next /\ UNCHANGED <<queueVars, trackerVars, listVars, bufferVars>>
     \/ part = "queue" /\ Queue!Next /\ UNCHANGED <<vars, trackerVars, listVars, bufferVars>>
     \/ part = "tracker" /\ Tracker!Next /\ UNCHANGED <<vars, queueVars, listVars, bufferVars>>
     \/ part = "list" /\ List!Next /\ UNCHANGED <<vars, queueVars, trackerVars, bufferVars>>
     \/ part = "buffer" /\ Buffer!Next /\ UNCHANGED <<vars, queueVars, trackerVars, listVars>>

AllSpec == AllInit /\ [][AllNext]_allVars

-------------------------------------------------------------------------------
(* The properties: one for each promise of a structure, made of the parts    *)
(* its module names; RefinesStatusz is SessionInfo's own.                    *)

\* AddSession and RemoveSession: the vector is shown in its order, an id is in it
\* once, and the count of sessions is never below what is shown as running.
VectorIsRight == TypeOK /\ ShownInOrder /\ IdsAreUnique /\ CountsNeverRemoved

\* pushPacket keeps the queue in sending order across the wrap, no number twice;
\* popPacket with ignore_old_packet never goes back and drops only what is older than
\* the packet given last (and numbers of the upper half before the first is given).
PacketsInOrder ==
  part = "queue" => /\ Queue!TypeOK /\ Queue!QueueInOrder
                    /\ Queue!NeverGoesBack /\ Queue!DiscardsOnlyOld

\* KeepTrackRtpSequenceNumber keeps consecutive numbers up to the newest packet
\* and, until the list is given up, calls missing what has not arrived and counts
\* the requests that were sent.
TrackerIsRight ==
  part = "tracker" => /\ Tracker!TypeOK /\ Tracker!ListIsWindow
                      /\ Tracker!MissingIsLost /\ Tracker!RequestsAreCounted

\* PushPacket keeps the last packets sent, with the retries they have left, and
\* ProcessRtcpNackPackets sends one of them when it is first asked for in a block
\* that does not wrap, once per message, and counts it as lost once, when it is first
\* sent again; a packet that is no longer in the list is never counted.
AnsweredOnce ==
  part = "list" => /\ List!TypeOK /\ List!ListIsLastSent /\ List!OncePerMessage
                   /\ List!LostCountedOnce /\ List!AnsweredBelowWrap

\* PopPacket gives packets in sending order but for those that come after more than
\* prebuffering_size_ entries of later packets, and a STORAGE_BUFFER starts with its
\* key frame but for a wrap.
FramesInOrder ==
  /\ Buffer!PopsInOrder
  /\ [](part = "buffer" => Buffer!TypeOK /\ Buffer!KeyFrameIsFirst)

===============================================================================
