------------------------------- MODULE RtpSender -------------------------------
(***************************************************************************)
(* RtpSender (orbit/rtp_sender.cc): the queue between the threads that     *)
(* produce packets (WriteAndSend) and the thread that writes them to the   *)
(* transport (SendThreadLoop), and its destructor.                         *)
(*                                                                         *)
(* send_pq_ is a std::priority_queue over RtpSendPacketComparator.  That   *)
(* is not an order (a packet of better priority and a packet of smaller    *)
(* number can each come before the other), so what the queue does is what  *)
(* the heap of the library does with it: push_heap and pop_heap of         *)
(* libstdc++ are modelled as they move elements (external).                *)
(***************************************************************************)
EXTENDS Integers, Sequences, FiniteSets, SequencesExt, FiniteSetsExt

CONSTANTS
  Priorities,   \* of the packets produced; the smaller one goes first
  SeqNumbers,   \* their sequence numbers
  MaxPackets    \* packets produced (bound)

\* What the constants are, for a module that instantiates this one to assume.
SenderAssumption ==
  Priorities \subseteq Nat /\ SeqNumbers \subseteq Nat /\ MaxPackets \in Nat

VARIABLES
  send_pq_,          \* the heap, root first: [id, priority, seqn]
  running_,
  transport_state_,  \* "READY" or another state (TransportDelegate)
  pc,                \* the thread: "check", "send", "end"
  closer,            \* the destructor: "no", "join", "clear", "done"
  \* history
  produced,          \* packets given to WriteAndSend
  written,           \* ids handed to Transport::write, in order
  freed              \* ids the destructor freed

vars == <<send_pq_, running_, transport_state_, pc, closer, produced, written, freed>>

Packets == [id : 1..MaxPackets, priority : Priorities, seqn : SeqNumbers]

-------------------------------------------------------------------------------
(* The heap.                                                                 *)

\* Mutant: the number is not looked at.
compareByPriority(a, b) == a.priority > b.priority

\* RtpSendPacketComparator: whether b goes before a.
compare(a, b) == a.priority > b.priority \/ a.seqn > b.seqn

\* The places that v, put into the place hole, moves through: up from there past
\* every parent that v goes before.
Climb(q, hole, v) ==
  CHOOSE path \in SUBSET (1..hole) :
    /\ hole \in path
    /\ \A h \in path \ {hole} : 2 * h \in path <=> 2 * h + 1 \notin path
    /\ \A h \in path \ {Min(path)} : h \div 2 \in path /\ compare(q[h \div 2], v)
    /\ Min(path) = 1 \/ ~compare(q[Min(path) \div 2], v)

\* The values of q with v moved up from the place hole.
SiftUp(q, hole, v) ==
  LET path == Climb(q, hole, v)
  IN  [i \in 1..Len(q) |->
         IF i \notin path THEN q[i] ELSE IF i = Min(path) THEN v ELSE q[i \div 2]]

\* std::push_heap.
Push(q, v) == SiftUp(Append(q, v), Len(q) + 1, v)

\* The child of h that goes first, of the first n elements.
Child(q, n, h) ==
  IF 2 * h + 1 > n \/ compare(q[2 * h + 1], q[2 * h]) THEN 2 * h ELSE 2 * h + 1

\* The places that the hole at the root goes through, down to a leaf.
Descent(q, n) ==
  CHOOSE path \in SUBSET (1..n) :
    /\ 1 \in path
    /\ \A h \in path \ {Max(path)} : Child(q, n, h) \in path
    /\ \A h \in path \ {1} : h \div 2 \in path /\ h = Child(q, n, h \div 2)
    /\ 2 * Max(path) > n

\* std::pop_heap and pop_back: the hole goes down, and the last element moves up
\* from where it ends.
Pop(q) ==
  LET n     == Len(q) - 1
      path  == Descent(q, n)
      moved == [i \in 1..n |-> IF i \in path \ {Max(path)} THEN q[Child(q, n, i)] ELSE q[i]]
  IN  IF n = 0 THEN <<>> ELSE SiftUp(moved, Max(path), q[n + 1])

-------------------------------------------------------------------------------
(* The producers.                                                            *)

\* The copy is made outside, the push inside send_pq_mutex_.
WriteAndSend(priority, seqn) ==
  LET p == [id |-> Len(produced) + 1, priority |-> priority, seqn |-> seqn]
  IN  /\ closer = "no"
      /\ Len(produced) < MaxPackets
      /\ send_pq_' = Push(send_pq_, p)
      /\ produced' = Append(produced, p)
      /\ UNCHANGED <<running_, transport_state_, pc, closer, written, freed>>

\* TransportDelegate::updateState, on the ICE or the handshake thread.
UpdateState(s) ==
  /\ transport_state_ # s
  /\ transport_state_' = s
  /\ UNCHANGED <<send_pq_, running_, pc, closer, produced, written, freed>>

-------------------------------------------------------------------------------
(* The thread.                                                               *)

\* Mutant: the queue is not looked at.
LoopCheckNotEmpty ==
  /\ pc = "check"
  /\ pc' = IF ~running_ THEN "end"
           ELSE IF transport_state_ # "READY" THEN "check" ELSE "send"
  /\ UNCHANGED <<send_pq_, running_, transport_state_, closer, produced, written, freed>>

\* Mutant: a thread that waits for the transport does not see running_.
LoopCheckNotRunning ==
  /\ pc = "check"
  /\ pc' = IF transport_state_ # "READY" \/ send_pq_ = <<>> THEN "check"
           ELSE IF ~running_ THEN "end" ELSE "send"
  /\ UNCHANGED <<send_pq_, running_, transport_state_, closer, produced, written, freed>>

\* The head of the loop reads running_, the state and empty() without the lock.
LoopCheck ==
  /\ pc = "check"
  /\ pc' = IF ~running_ THEN "end"
           ELSE IF transport_state_ # "READY" \/ send_pq_ = <<>> THEN "check" ELSE "send"
  /\ UNCHANGED <<send_pq_, running_, transport_state_, closer, produced, written, freed>>

\* Mutant: the packet stays in the queue.
LoopSendNoPop ==
  /\ pc = "send"
  /\ send_pq_ # <<>> /\ Len(written) < MaxPackets
  /\ written' = Append(written, Head(send_pq_).id)
  /\ pc' = "check"
  /\ UNCHANGED <<send_pq_, running_, transport_state_, closer, produced, freed>>

\* The body, under send_pq_mutex_: top, write, free, pop.
LoopSend ==
  /\ pc = "send"
  /\ send_pq_ # <<>>     \* top() of an empty queue is undefined: TopExists
  /\ written' = Append(written, Head(send_pq_).id)
  /\ send_pq_' = Pop(send_pq_)
  /\ pc' = "check"
  /\ UNCHANGED <<running_, transport_state_, closer, produced, freed>>

-------------------------------------------------------------------------------
(* The destructor.                                                           *)

DestructorStop ==
  /\ closer = "no"
  /\ running_' = FALSE
  /\ closer' = "join"
  /\ UNCHANGED <<send_pq_, transport_state_, pc, produced, written, freed>>

DestructorJoin ==
  /\ closer = "join" /\ pc = "end"
  /\ closer' = "clear"
  /\ UNCHANGED <<send_pq_, running_, transport_state_, pc, produced, written, freed>>

DestructorClear ==
  /\ closer = "clear"
  /\ freed' = {send_pq_[k].id : k \in DOMAIN send_pq_}
  /\ send_pq_' = <<>>
  /\ closer' = "done"
  /\ UNCHANGED <<running_, transport_state_, pc, produced, written>>

-------------------------------------------------------------------------------

Init ==
  /\ send_pq_ = <<>> /\ running_ = TRUE /\ transport_state_ = "INITIAL"
  /\ pc = "check" /\ closer = "no"
  /\ produced = <<>> /\ written = <<>> /\ freed = {}

Thread == LoopCheck \/ LoopSend
Destructor == DestructorStop \/ DestructorJoin \/ DestructorClear

Next ==
  \/ \E priority \in Priorities, seqn \in SeqNumbers : WriteAndSend(priority, seqn)
  \/ \E s \in {"READY", "FAILED"} : UpdateState(s)
  \/ Thread
  \/ Destructor

Spec == Init /\ [][Next]_vars

\* The thread runs, and a destructor that was called goes on.
FairSpec ==
  /\ Spec
  /\ WF_vars(Thread)
  /\ WF_vars(DestructorJoin \/ DestructorClear)

-------------------------------------------------------------------------------
(* Properties.                                                               *)

\* The values of the fields.
TypeOK ==
  /\ send_pq_ \in Seq(Packets)
  /\ running_ \in BOOLEAN
  /\ transport_state_ \in {"INITIAL", "READY", "FAILED"}
  /\ pc \in {"check", "send", "end"}
  /\ closer \in {"no", "join", "clear", "done"}
  /\ produced \in Seq(Packets) /\ written \in Seq(1..MaxPackets) /\ freed \subseteq 1..MaxPackets

\* top() finds a packet although empty() was read without the lock: only the
\* thread takes packets out, and the destructor does so after the join.
TopExists == pc = "send" => send_pq_ # <<>>

\* Each packet given to WriteAndSend is in the queue, or was written once, or
\* was freed by the destructor, and its buffer is never used twice.
LeavesOnce ==
  LET queued == {send_pq_[k].id : k \in DOMAIN send_pq_}
  IN  /\ IsInjective(written)
      /\ Cardinality(queued) = Len(send_pq_)
      /\ queued \cap Range(written) = {} /\ queued \cap freed = {} /\ Range(written) \cap freed = {}
      /\ queued \cup Range(written) \cup freed = 1..Len(produced)

\* While all packets are of one priority, the one about to be written has the
\* smallest number of those in the queue.  With two priorities compare is no
\* order and neither the priority nor the number decides, although rtp_sender.h:72
\* says "ordered by priority and sequence number".
FirstBySeqNumber ==
  (\A m, n \in DOMAIN produced : produced[m].priority = produced[n].priority) =>
    \A k \in DOMAIN send_pq_ : send_pq_[1].seqn <= send_pq_[k].seqn

\* The destructor comes to its end, whatever the state of the transport.
DestructorEnds == closer # "no" ~> closer = "done"

\* While the transport is READY the queue drains.
QueueDrains ==
  (transport_state_ = "READY" /\ running_ /\ send_pq_ # <<>>)
    ~> (send_pq_ = <<>> \/ transport_state_ # "READY" \/ ~running_)

===============================================================================
