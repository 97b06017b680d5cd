----------------------------- MODULE NackTracker -----------------------------
(***************************************************************************)
(* The receiving half of NackProcessor (orbit/rtp/nack_processor.cc):      *)
(* SendNackByCondition is called for each media packet, with the delegate's *)
(* plugin_mutex_ held (so its try_lock never fails), records the packets   *)
(* up to the newest one as received or missing, and asks for missing ones. *)
(*                                                                         *)
(* Packets arrive reordered within Window, lost or twice.  An index is the *)
(* packet's place in the sender's stream; the code sees it modulo SeqSpace. *)
(***************************************************************************)
EXTENDS Integers, Sequences, FiniteSets, SequencesExt, FiniteSetsExt

CONSTANTS
  SeqSpace,     \* 65536
  MaxLen,       \* LAST_SEQS_MAX_LEN, 160
  MaxBack,      \* 1000: how far behind a late packet may be
  MissingWait,  \* SEQ_MISSING_WAIT
  NackedWait,   \* SEQ_NACKED_WAIT
  MaxResend,    \* MAX_TIMES_OF_RESEND, 10
  Limit,        \* RETRANSMIT_PACKETS_LIMIT, 100
  KeyInterval,  \* KEY_FRAME_INTERVAL
  RequestFir,   \* FLAGS_enable_nack_request_fir
  FirWait,      \* FIR_PLI_WAIT of rtcp_processor.cc
  BlockSpan,    \* 16: numbers a block of a NACK message covers after its first
  MaxBlocks,    \* 27: blocks that fit the 120 bytes of nackbuf
  FirstSeqs,    \* sequence numbers a sender may start at
  Window,       \* how far the network reorders (bound)
  Gap,          \* longest run of lost packets, plus one (bound)
  MaxArrivals,  \* packets that arrive (bound)
  MaxTime       \* time that passes (bound)

TrackerAssumption ==
  /\ MaxLen \in Nat \ {0, 1} /\ MaxBack \in Nat /\ MaxLen + MaxBack < SeqSpace /\ SeqSpace \in Nat
  /\ MissingWait \in Nat /\ NackedWait \in Nat /\ MaxResend \in Nat /\ Limit \in Nat
  /\ KeyInterval \in Nat /\ FirWait \in Nat /\ RequestFir \in BOOLEAN
  /\ BlockSpan \in Nat \ {0} /\ MaxBlocks \in Nat \ {0}
  /\ FirstSeqs \subseteq 0..(SeqSpace - 1)
  /\ Window \in Nat /\ Gap \in Nat /\ MaxArrivals \in Nat /\ MaxTime \in Nat
  \* A late packet, and one after a run of lost ones, is not taken for the other.
  /\ Window < MaxBack /\ Gap + MaxBack <= SeqSpace
  \* An index is known by its sequence number.
  /\ Window + Gap * MaxArrivals < SeqSpace
  \* The blocks of a full list fit the message, wherever its numbers wrap.
  /\ 2 * ((MaxLen - 1) \div (BlockSpan + 1) + 1) <= MaxBlocks

VARIABLES
  last_seqs,    \* last_seqs_video_, head first: [seq, ts, times, state]
  lastFir,      \* last_fir_request_
  getFir,       \* get_fir_: no key frame is waited for
  now,          \* the clock
  newest,       \* the highest index that arrived (before the first: the one that will)
  arrivals,
  \* history
  received,     \* sequence numbers that arrived
  asked,        \* per sequence number, the NACK messages that carried it
  cleared       \* the list has been given up

vars == <<last_seqs, lastFir, getFir, now, newest, arrivals, received, asked, cleared>>

Seqs   == 0..(SeqSpace - 1)
States == {"MISSING", "NACKED", "GIVEUP", "RECVED"}

-------------------------------------------------------------------------------

janus_seq_in_range(seqn, start, len) ==
  \E n \in {seqn, SeqSpace + seqn} : start <= n /\ n < start + len

\* The first numbers of the NACK blocks that janus_rtcp_nacks makes of a set of
\* numbers: sorted as plain numbers, each block covers its first number and
\* BlockSpan after it, and the next number starts a block.
Pids(nacks) ==
  CHOOSE pids \in SUBSET nacks :
    /\ \A x \in nacks : \E p \in pids : p <= x /\ x - p <= BlockSpan
    /\ \A p, q \in pids : p < q => q - p > BlockSpan

\* Entries for the packets after cur, up to the one that arrived.
NewEntries(new, cur) ==
  IF janus_seq_in_range(new, cur, MaxLen)
  THEN [k \in 1..((new - cur) % SeqSpace) |->
          [seq |-> (cur + k) % SeqSpace, ts |-> now, times |-> 0,
           state |-> IF (cur + k) % SeqSpace = new THEN "RECVED" ELSE "MISSING"]]
  ELSE <<>>

\* Mutant: a packet that arrived late stays on the list of missing ones.
IsDueLate(e, new) ==
  \/ e.state = "MISSING" /\ now - e.ts > MissingWait
  \/ e.state = "NACKED" /\ now - e.ts > NackedWait /\ e.times <= MaxResend

\* Whether the scan asks for this entry.
IsDue(e, new) ==
  /\ e.seq # new
  /\ \/ e.state = "MISSING" /\ now - e.ts > MissingWait
     \/ e.state = "NACKED" /\ now - e.ts > NackedWait /\ e.times <= MaxResend

\* What the scan makes of it.
Scan(e, new) ==
  IF IsDue(e, new)
  THEN [e EXCEPT !.ts = now, !.times = e.times + 1,
                 !.state = IF e.state = "NACKED" /\ e.times + 1 > MaxResend
                           THEN "GIVEUP" ELSE "NACKED"]
  ELSE IF e.seq = new THEN [e EXCEPT !.state = "RECVED"] ELSE e

\* Mutant: one entry too many is kept.
TrimLong(list) == IF Len(list) <= MaxLen + 1 THEN list ELSE SubSeq(list, Len(list) - MaxLen, Len(list))

Trim(list) == IF Len(list) <= MaxLen THEN list ELSE SubSeq(list, Len(list) - MaxLen + 1, Len(list))

\* Mutant: the buffer has room for one block.
FitsOne(nacks) == Cardinality(Pids(nacks)) <= 1

\* RtcpNackCreate: a message that does not fit the buffer is not sent at all.
Fits(nacks) == Cardinality(Pids(nacks)) <= MaxBlocks

\* The list the packet finds: none if its number is too far from the newest.
Known(new) ==
  IF last_seqs # <<>> /\ ~janus_seq_in_range(new, Last(last_seqs).seq, MaxLen)
                      /\ ~janus_seq_in_range(Last(last_seqs).seq, new, MaxBack)
  THEN <<>> ELSE last_seqs

\* The numbers to ask for.
Nacks(new) == {e.seq : e \in {x \in Range(Known(new)) : IsDue(x, new)}}

\* Too many at once: the list is given up for a key frame.
GivesUp(new) == Cardinality(Nacks(new)) > Limit /\ now - lastFir >= KeyInterval

\* KeepTrackRtpSequenceNumber for a packet with this number.
KeepTrack(new) ==
  LET old   == Known(new)
      cur   == IF old = <<>> THEN (new - 1) % SeqSpace ELSE Last(old).seq
      nacks == Nacks(new)
  IN  IF GivesUp(new)
      THEN /\ last_seqs' = <<>>
           /\ cleared' = TRUE
           /\ UNCHANGED asked
      ELSE /\ last_seqs' = Trim([k \in DOMAIN old |-> Scan(old[k], new)] \o NewEntries(new, cur))
           /\ asked' = [s \in Seqs |-> IF s \in nacks /\ Fits(nacks) THEN asked[s] + 1 ELSE asked[s]]
           /\ UNCHANGED cleared

\* A key frame is requested with the list given up, if the flag is set, and
\* again by RtcpProcessIncomingRtp when none has come for FirWait.
RequestKeyFrame(new, key) ==
  LET request == GivesUp(new) /\ RequestFir
      waiting == ~key /\ (request \/ ~getFir)
      resend  == ~request /\ waiting /\ now - lastFir > FirWait
  IN  /\ getFir' = ~waiting
      /\ lastFir' = IF request \/ resend THEN now ELSE lastFir

\* A packet of a key frame or of another arrives, is tracked and processed.
SendNackByCondition(n, key) ==
  /\ arrivals < MaxArrivals
  /\ arrivals' = arrivals + 1
  /\ newest' = IF n > newest THEN n ELSE newest
  /\ received' = received \cup {n % SeqSpace}
  /\ KeepTrack(n % SeqSpace)
  /\ RequestKeyFrame(n % SeqSpace, key)
  /\ UNCHANGED now

Tick ==
  /\ now < MaxTime
  /\ now' = now + 1
  /\ UNCHANGED <<last_seqs, lastFir, getFir, newest, arrivals, received, asked, cleared>>

\* last_fir_request_ is 0 and the clock counts from 1970: long ago.
Init ==
  /\ last_seqs = <<>> /\ lastFir = -KeyInterval /\ getFir = TRUE /\ now = 0
  /\ newest \in {SeqSpace + s : s \in FirstSeqs} /\ arrivals = 0
  /\ received = {} /\ asked = [s \in Seqs |-> 0] /\ cleared = FALSE

Arrive == \E n \in (newest - Window)..(newest + Gap), key \in BOOLEAN :
            (arrivals = 0 => n = newest) /\ SendNackByCondition(n, key)

Next == Arrive \/ Tick

Spec == Init /\ [][Next]_vars

-------------------------------------------------------------------------------
(* Properties.                                                               *)

\* The values of the fields.
TypeOK ==
  /\ last_seqs \in Seq([seq : Seqs, ts : 0..MaxTime, times : 0..(MaxResend + 1), state : States])
  /\ lastFir \in {-KeyInterval} \cup 0..MaxTime
  /\ getFir \in BOOLEAN /\ now \in 0..MaxTime
  /\ newest \in Nat /\ arrivals \in 0..MaxArrivals
  /\ received \subseteq Seqs
  /\ asked \in [Seqs -> Nat]
  /\ cleared \in BOOLEAN

\* The list is a window of at most LAST_SEQS_MAX_LEN consecutive numbers, also
\* across the wrap, that ends in a packet that was received; unless the list
\* was given up, that is the newest one.
ListIsWindow ==
  /\ Len(last_seqs) <= MaxLen
  /\ \A k \in DOMAIN last_seqs : k > 1 => last_seqs[k].seq = (last_seqs[k - 1].seq + 1) % SeqSpace
  /\ last_seqs # <<>> => /\ Last(last_seqs).state = "RECVED"
                         /\ ~cleared => Last(last_seqs).seq = newest % SeqSpace

\* Until the list is given up, what it says is missing has not arrived.
MissingIsLost ==
  ~cleared =>
    \A e \in Range(last_seqs) : e.state = "RECVED" <=> e.seq \in received

\* Until the list is given up, an entry counts the NACK messages that carried
\* it (a message never outgrows its buffer), and after MAX_TIMES_OF_RESEND + 1
\* of them it is asked for no more.
RequestsAreCounted ==
  ~cleared =>
    /\ \A e \in Range(last_seqs) : e.times = asked[e.seq]
    /\ \A s \in Seqs : asked[s] <= MaxResend + 1

===============================================================================
