---------------------------- MODULE RtpPacketQueue ----------------------------
(***************************************************************************)
(* The reordering queue of orbit/rtp/rtp_packet_queue.cc between the       *)
(* network thread of a stream (pushPacket) and the thread that plays it    *)
(* (popPacket, getNextPacket).                                             *)
(*                                                                         *)
(* The network is outside: a packet is the index the sender gave it, and   *)
(* packets arrive reordered within Window, lost, or more than once.  The   *)
(* code sees the index only as a sequence number modulo SeqSpace (2^16)    *)
(* and as a timestamp modulo TsMod (2^32), one tick a packet.  A stream    *)
(* may be of any length, its numbers come round again and again; but a     *)
(* packet that arrives is less than half the numbers from those that wait  *)
(* and from the one given last, beyond which numbers have no order.        *)
(***************************************************************************)
EXTENDS Integers, Sequences, FiniteSets, SequencesExt

CONSTANTS
  SeqSpace,    \* 65536: values of the 16-bit sequence number
  Tolerance,   \* 50: how far behind the last packet given a late one is kept
  TsMod,       \* 2^32: values of the timestamp
  Depth,       \* depthInSeconds_ * timebase_, in ticks
  MaxDepth,    \* maxDepthInSeconds_ * timebase_, in ticks
  FirstSeqs,   \* sequence numbers a sender may start at (RFC 3550: random)
  FirstTs,     \* the timestamp it starts at
  Window,      \* how far the network reorders (bound)
  MaxArrivals, \* packets that arrive (bound)
  NONE

QueueAssumption ==
  /\ SeqSpace \in Nat \ {0} /\ SeqSpace % 2 = 0 /\ Tolerance \in 0..(SeqSpace \div 2)
  /\ TsMod \in Nat \ {0}
  /\ Depth \in Nat /\ MaxDepth \in Nat /\ Depth < MaxDepth
  /\ FirstSeqs \subseteq 0..(SeqSpace - 1) /\ FirstTs \in Nat
  /\ Window \in Nat /\ MaxArrivals \in Nat
  /\ NONE \notin Nat

VARIABLES
  queue,      \* queue_, front first: the newest packet is at the front
  last,       \* lastSequenceNumberGiven_
  timebase,   \* timebase_ > 0
  pushing,    \* the packet that passed pushPacket's check, not inserted yet
  first,      \* sequence number of index 0
  highest,    \* highest index that arrived
  arrivals,   \* how many arrived
  skipOld,    \* whether this queue's consumer passes ignore_old_packet
  delivered,  \* history: the packets popPacket returned
  discarded   \* history: <<n, how many were delivered>>, n taken out and not returned

consumerVars == <<skipOld, delivered, discarded>>
networkVars  == <<first, highest, arrivals>>
vars == <<queue, last, timebase, pushing, first, highest, arrivals, skipOld, delivered, discarded>>

SeqNumber(n) == (first + n) % SeqSpace
Timestamp(n) == (FirstTs + n) % TsMod

-------------------------------------------------------------------------------

\* Mutant: numbers are compared as they are.
rtpSequenceLessThanPlain(x, y) == x < y

\* x < y with wrap; numbers half the space apart are not ordered.
rtpSequenceLessThan(x, y) ==
  LET diff == y - x
      half == SeqSpace \div 2
  IN  \/ diff > 0 /\ diff < half
      \/ diff < 0 /\ diff < -half

\* getDepthInSeconds of a queue, in ticks.
DepthOf(q) ==
  IF timebase /\ Len(q) > 1 THEN (Timestamp(q[1]) - Timestamp(Last(q))) % TsMod ELSE 0

\* pop_back while the depth exceeds the maximum.
Trim(q) ==
  LET fits == {j \in 0..Len(q) : DepthOf(SubSeq(q, 1, j)) <= MaxDepth}
  IN  SubSeq(q, 1, CHOOSE j \in fits : \A k \in fits : k <= j)

\* The first place, from the front, that holds the same or a lower number.
Places(q, n) ==
  {k \in DOMAIN q : \/ SeqNumber(q[k]) = SeqNumber(n)
                    \/ rtpSequenceLessThan(SeqNumber(q[k]), SeqNumber(n))}

Insert(q, n) ==
  LET places == Places(q, n)
      k == CHOOSE j \in places : \A i \in places : j <= i
  IN  IF places = {} THEN Append(q, n)
      ELSE IF SeqNumber(q[k]) = SeqNumber(n) THEN q ELSE InsertAt(q, k, n)

\* A late packet is kept if it is at most Tolerance behind.
TooLate(n) ==
  /\ last >= 0
  /\ \/ rtpSequenceLessThan(SeqNumber(n), (last - Tolerance) % SeqSpace)
     \/ SeqNumber(n) = last

\* A packet arrives.  pushPacket looks at lastSequenceNumberGiven_ before it
\* takes queueMutex_, so the consumer may move it before pushInsert.
pushCheck(n) ==
  /\ pushing = NONE
  /\ arrivals < MaxArrivals
  /\ arrivals' = arrivals + 1
  /\ highest' = IF n > highest THEN n ELSE highest
  /\ pushing' = IF TooLate(n) THEN NONE ELSE n
  /\ UNCHANGED <<queue, last, timebase, first, consumerVars>>

pushInsert ==
  /\ pushing # NONE
  /\ queue' = Trim(Insert(queue, pushing))
  /\ pushing' = NONE
  /\ UNCHANGED <<last, timebase, networkVars, consumerVars>>

\* The depth is not asked for (ignore_depth), or it is reached.
MayPop(ignore_depth) == queue # <<>> /\ (ignore_depth \/ DepthOf(queue) > Depth)

\* Mutant: the numbers are compared as they are.
IsOldPlain(n) == SeqNumber(n) < last % SeqSpace

\* Mutant: nothing is too old.
IsOldNever(n) == FALSE

\* lastSequenceNumberGiven_ is -1 at first; as a uint16_t that is SeqSpace - 1.
IsOld(n) == rtpSequenceLessThan(SeqNumber(n), last % SeqSpace)

\* Take the oldest packet out.  NULL comes back (nothing changes) when there
\* is none or the depth is not reached, and when the packet is old.
popPacket(ignore_depth) ==
  LET n == Last(queue)
  IN  IF ~MayPop(ignore_depth)
      THEN UNCHANGED vars
      ELSE /\ queue' = Front(queue)
           /\ IF skipOld /\ IsOld(n)
              THEN /\ discarded' = discarded \cup {<<n, Len(delivered)>>}
                   /\ UNCHANGED <<last, delivered>>
              ELSE /\ delivered' = Append(delivered, n)
                   /\ last' = SeqNumber(n)
                   /\ UNCHANGED discarded
           /\ UNCHANGED <<timebase, pushing, networkVars, skipOld>>

\* Look at the oldest packet and leave it.
getNextPacket(ignore_depth) ==
  /\ ~skipOld
  /\ last' = IF MayPop(ignore_depth) THEN SeqNumber(Last(queue)) ELSE last
  /\ UNCHANGED <<queue, timebase, pushing, networkVars, consumerVars>>

setTimebase ==
  /\ ~timebase /\ ~skipOld
  /\ timebase' = TRUE
  /\ UNCHANGED <<queue, last, pushing, networkVars, consumerVars>>

-------------------------------------------------------------------------------

\* The consumer of the video mixer passes ignore_old_packet; the ones of the
\* audio buffer set the timebase and use getNextPacket.
Init ==
  /\ queue = <<>> /\ last = -1 /\ timebase = FALSE /\ pushing = NONE
  /\ first \in FirstSeqs /\ highest = Window /\ arrivals = 0
  /\ skipOld \in BOOLEAN
  /\ delivered = <<>> /\ discarded = {}

\* The packets that an arriving one is compared with.
InPlay == ToSet(queue) \cup {delivered[k] : k \in {Len(delivered)} \ {0}}

Near(m, n) == m - n < SeqSpace \div 2 /\ n - m < SeqSpace \div 2

Arrive ==
  \E n \in (highest - Window)..(highest + Window) :
    (\A m \in InPlay : Near(m, n)) /\ pushCheck(n)

Next ==
  \/ Arrive \/ pushInsert
  \/ \E d \in BOOLEAN : popPacket(d) \/ getNextPacket(d)
  \/ setTimebase

Spec == Init /\ [][Next]_vars

-------------------------------------------------------------------------------
(* Properties.                                                               *)

Indices == 0..(Window * (MaxArrivals + 1))

\* The fields keep their types; lastSequenceNumberGiven_ is -1 or 16 bits.
TypeOK ==
  /\ queue \in Seq(Indices) /\ Len(queue) <= MaxArrivals
  /\ last \in -1..(SeqSpace - 1)
  /\ timebase \in BOOLEAN /\ skipOld \in BOOLEAN
  /\ pushing \in Indices \cup {NONE}
  /\ first \in FirstSeqs /\ highest \in Indices /\ arrivals \in 0..MaxArrivals
  /\ delivered \in Seq(Indices) /\ discarded \subseteq Indices \X (0..Len(delivered))

\* The queue is in sending order, newest at the front, without duplicates,
\* also where the sequence numbers wrap (claims 1 to 4 of rtp_packet_queue.h).  A
\* number that has left the queue may come in and be given again.
QueueInOrder ==
  \A m, n \in DOMAIN queue : m < n => queue[m] > queue[n]

\* A consumer that passes ignore_old_packet never goes back, although a packet
\* may be inserted behind the one just given (video_mixer_plugin.cc:334).
NeverGoesBack ==
  skipOld => \A m, n \in DOMAIN delivered : m < n => delivered[m] <= delivered[n]

\* With ignore_old_packet, popPacket drops a packet only if it is older than the one
\* given last (rtp_packet_queue.h:61), also across the wrap; before the first one is
\* given the numbers of the upper half are dropped, for they are compared with -1 as
\* 16 bits.
DiscardsOnlyOld ==
  \A d \in discarded :
    IF d[2] = 0 THEN SeqNumber(d[1]) \in (SeqSpace \div 2)..(SeqSpace - 2)
                ELSE d[1] < delivered[d[2]]

===============================================================================
