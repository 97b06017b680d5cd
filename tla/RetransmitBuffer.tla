--------------------------- MODULE RetransmitBuffer ---------------------------
(***************************************************************************)
(* The sending half of NackProcessor (orbit/rtp/nack_processor.cc): the    *)
(* last packets sent on a stream (PushPacket) and the answer to the NACK   *)
(* messages of the peer (ProcessRtcpNackPackets, janus_rtcp_get_nacks).    *)
(* Both hold retransmit_mutex_: a packet is pushed before the first turn   *)
(* or after the last turn of the loop over the numbers of a message; time  *)
(* passes in between.                                                      *)
(*                                                                         *)
(* The plugin numbers the packets of a stream one after the other; an      *)
(* index is a packet's place in it.  A NACK message is a set of blocks, a  *)
(* first number and a bit mask over the BlockSpan numbers after it; the    *)
(* peer (external) asks for packets that were sent.                        *)
(***************************************************************************)
EXTENDS Integers, Sequences, FiniteSets, SequencesExt, FiniteSetsExt

CONSTANTS
  SeqSpace,     \* 65536
  QueueSize,    \* MAX_RETRANSMIT_QUEUE_SIZE, 300
  MaxRetries,   \* 5
  RetryWait,    \* retransmit_wait_time, 30 ms
  BlockSpan,    \* 16 bits of blp
  FirstSeqs,    \* sequence numbers the stream may start at
  MaxSent,      \* packets sent (bound)
  MaxNacks,     \* NACK messages that arrive (bound)
  MaxTime       \* time that passes (bound)

BufferAssumption ==
  /\ SeqSpace \in Nat /\ QueueSize \in Nat \ {0} /\ QueueSize < SeqSpace
  /\ MaxRetries \in Nat \ {0} /\ RetryWait \in Nat /\ BlockSpan \in Nat \ {0}
  /\ FirstSeqs \subseteq 0..(SeqSpace - 1)
  /\ MaxSent \in Nat /\ MaxSent < SeqSpace /\ MaxNacks \in Nat /\ MaxTime \in Nat

VARIABLES
  retransmit_list,   \* oldest first: [seqn, ts, retries]
  todo,              \* the NACK being answered: what is left of its blocks; the mutex
                     \* is free if it is empty
  started,           \* now of ProcessRtcpNackPackets
  first,             \* sequence number of index 1
  sent,              \* how many packets were sent
  now,
  nacks,             \* how many NACK messages arrived
  lost_not_retrans,  \* sum of what ProcessRtcpNackPackets returned
  \* history
  resent,            \* per index, how often it was sent again
  wanted,            \* the last NACK: packets it named that were in the list
                     \* and had not been sent again before
  split,             \* the last NACK: some block crossed the end of the numbers
  answered           \* the last NACK: the numbers sent again so far, in order

nackVars == <<todo, started, lost_not_retrans, resent, wanted, split, answered, nacks>>
vars == <<retransmit_list, todo, started, first, sent, now, nacks, lost_not_retrans, resent, wanted,
          split, answered>>

Seqs == 0..(SeqSpace - 1)
SeqNumber(n) == (first + n - 1) % SeqSpace

-------------------------------------------------------------------------------

\* Mutant: the newest packet is dropped instead of the oldest.
KeepOldest(list) == IF Len(list) > QueueSize THEN SubSeq(list, 1, QueueSize) ELSE list

\* pop_front while the list is too long.
Keep(list) ==
  IF Len(list) > QueueSize THEN SubSeq(list, Len(list) - QueueSize + 1, Len(list)) ELSE list

\* queueData keeps a copy of each packet it sends, but not of one sent again.
PushPacket ==
  /\ todo = <<>> /\ sent < MaxSent
  /\ sent' = sent + 1
  /\ retransmit_list' =
       Keep(Append(retransmit_list, [seqn |-> SeqNumber(sent + 1), ts |-> now, retries |-> 0]))
  /\ UNCHANGED <<first, now, nackVars>>

\* janus_rtcp_get_nacks: the numbers of a block, taken in ascending order.  The
\* sums are not reduced to 16 bits.
GetNacks(block) == {block.pid} \cup {block.pid + j : j \in block.blp}

\* The peer's blocks: the packet n and those of n + 1 .. n + BlockSpan it has
\* not seen, with their numbers modulo the number space.
BlocksSent == {b \in [n : 1..sent, blp : SUBSET (1..BlockSpan)] : \A j \in b.blp : b.n + j <= sent}

\* A message with two blocks arrives.
ProcessRtcpNackPackets(b1, b2) ==
  LET decode(b) == GetNacks([pid |-> SeqNumber(b.n), blp |-> b.blp])
      named(b)  == {b.n} \cup {b.n + j : j \in b.blp}
      listed    == {retransmit_list[k].seqn : k \in DOMAIN retransmit_list}
  IN  /\ todo = <<>> /\ nacks < MaxNacks
      /\ nacks' = nacks + 1
      /\ todo' = <<decode(b1), decode(b2)>>
      /\ started' = now
      /\ answered' = <<>>
      /\ wanted' = {n \in named(b1) \cup named(b2) : resent[n] = 0 /\ SeqNumber(n) \in listed}
      /\ split' = \E b \in {b1, b2} : \E j \in b.blp : SeqNumber(b.n) + j >= SeqSpace
      /\ UNCHANGED <<retransmit_list, lost_not_retrans, resent, first, sent, now>>

\* Mutants of MayResend: no wait; a wait for the first time too.
MayResendAtOnce(rp) == rp.retries < MaxRetries

MayResendAfterWait(rp) == rp.retries < MaxRetries /\ started - rp.ts > RetryWait

\* Whether a packet in the list may be sent again.
MayResend(rp) == rp.retries < MaxRetries /\ (rp.retries = 0 \/ started - rp.ts > RetryWait)

\* Mutant: the packet is counted each time it is sent.
LostEachTime(rp) == 1

\* What a packet that is sent again adds to the lost ones.
Lost(rp) == IF rp.retries = 0 THEN 1 ELSE 0

\* One turn of the loop: the next number is looked up from the back of the list.
Answer ==
  LET seqn   == Min(Head(todo))
      rest   == Head(todo) \ {seqn}
      places == {k \in DOMAIN retransmit_list : retransmit_list[k].seqn = seqn}
      k      == Max(places)
      rp     == retransmit_list[k]
  IN  /\ todo # <<>>
      /\ todo' = IF rest = {} THEN Tail(todo) ELSE <<rest>> \o Tail(todo)
      /\ IF places = {} \/ ~MayResend(rp)
         THEN UNCHANGED <<retransmit_list, answered, resent, lost_not_retrans>>
         ELSE /\ retransmit_list' = [retransmit_list EXCEPT ![k] =
                   [rp EXCEPT !.ts = now, !.retries = rp.retries + 1]]
              /\ answered' = Append(answered, seqn)
              /\ resent' = [n \in 1..MaxSent |-> IF SeqNumber(n) = seqn THEN resent[n] + 1 ELSE resent[n]]
              /\ lost_not_retrans' = lost_not_retrans + Lost(rp)
      /\ UNCHANGED <<started, first, sent, now, nacks, wanted, split>>

Tick ==
  /\ now < MaxTime
  /\ now' = now + 1
  /\ UNCHANGED <<retransmit_list, first, sent, nackVars>>

Init ==
  /\ retransmit_list = <<>> /\ todo = <<>> /\ started = 0 /\ first \in FirstSeqs /\ sent = 0 /\ now = 0 /\ nacks = 0
  /\ lost_not_retrans = 0 /\ resent = [n \in 1..MaxSent |-> 0]
  /\ wanted = {} /\ split = FALSE /\ answered = <<>>

Next ==
  \/ PushPacket \/ Answer
  \/ \E b1, b2 \in BlocksSent : b1.n <= b2.n /\ ProcessRtcpNackPackets(b1, b2)
  \/ Tick

Spec == Init /\ [][Next]_vars

-------------------------------------------------------------------------------
(* Properties.                                                               *)

\* The values of the fields.
TypeOK ==
  /\ retransmit_list \in Seq([seqn : Seqs, ts : 0..MaxTime, retries : 0..MaxRetries])
  /\ first \in FirstSeqs /\ sent \in 0..MaxSent /\ now \in 0..MaxTime /\ nacks \in 0..MaxNacks
  /\ todo \in Seq(SUBSET (0..(SeqSpace + BlockSpan))) /\ started \in 0..MaxTime
  /\ lost_not_retrans \in Nat
  /\ resent \in [1..MaxSent -> Nat]
  /\ wanted \subseteq 1..MaxSent /\ split \in BOOLEAN /\ answered \in Seq(Seqs)

\* The list is the last packets sent, QueueSize of them at most, and the
\* retries of each are the times it was sent again.
ListIsLastSent ==
  /\ Len(retransmit_list) = Min({sent, QueueSize})
  /\ \A k \in DOMAIN retransmit_list :
       LET n == sent - Len(retransmit_list) + k
       IN  retransmit_list[k].seqn = SeqNumber(n) /\ retransmit_list[k].retries = resent[n]

\* One NACK message sends no packet twice, even if two blocks name it
\* (RelayPacket under the lock, with ts set to the present).
OncePerMessage == IsInjective(answered)

\* lost_not_retrans counts each lost packet once, however often it is asked
\* for (the comment on ProcessRtcpNackPackets, nack_processor.h:69).
LostCountedOnce == lost_not_retrans = Cardinality({n \in 1..MaxSent : resent[n] > 0})

\* A packet in the list is sent when it is first asked for, by a message whose
\* blocks do not cross the end of the sequence numbers.
AnsweredBelowWrap ==
  todo = <<>> /\ ~split => \A n \in wanted : \E k \in DOMAIN answered : answered[k] = SeqNumber(n)

===============================================================================
