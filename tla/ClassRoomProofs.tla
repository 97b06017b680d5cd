------------------------------ MODULE ClassRoomProofs ------------------------------
(***************************************************************************)
(* Proofs about ClassRoom, for any number of participants, slots and       *)
(* threads: the links between the plugins are consistent, a packet of a    *)
(* participant finds its link, and the numbers a slot sends go on across   *)
(* a change of its source.                                                 *)
(***************************************************************************)
EXTENDS ClassRoom, FiniteSetTheorems, SequenceTheorems, WellFoundedInduction, TLAPS

-------------------------------------------------------------------------------
(* Numbers, slots and sequences.                                             *)

\* The range of % and its effect on a number that is in range.
LEMMA ModRange ==
  ASSUME NEW x \in Int
  PROVE  x % Modulus \in Numbers /\ (x \in Numbers => x % Modulus = x)
BY ClassRoomAssumption DEF Numbers

\* Reducing a summand first changes nothing.
LEMMA ModSum ==
  ASSUME NEW a \in Int, NEW b \in Int
  PROVE  ((a % Modulus) + b) % Modulus = (a + b) % Modulus
<1>1. Modulus \in Nat \ {0}
  BY ClassRoomAssumption
<1>2. \A M \in Nat \ {0} : \A q \in Int : \A r \in 0..(M - 1) : (M * q + r) % M = r
  OBVIOUS
<1>3. \A M \in Nat \ {0}, x \in Int :
         x \div M \in Int /\ x % M \in 0..(M - 1) /\ x = M * (x \div M) + (x % M)
  OBVIOUS
<1> DEFINE r == a % Modulus
           q == a \div Modulus
           y == (r + b) % Modulus
           z == (r + b) \div Modulus
<1>4. q \in Int /\ r \in 0..(Modulus - 1) /\ a = Modulus * q + r
  BY <1>1, <1>3
<1>5. r + b \in Int
  BY <1>1, <1>4
<1>6. z \in Int /\ y \in 0..(Modulus - 1) /\ r + b = Modulus * z + y
  BY <1>1, <1>3, <1>5
<1> HIDE DEF r, q, y, z
<1>7. a + b = Modulus * (q + z) + y
  BY <1>1, <1>4, <1>6
<1>8. q + z \in Int
  BY <1>4, <1>6
<1>9. (a + b) % Modulus = y
  BY <1>1, <1>2, <1>6, <1>7, <1>8
<1> QED
  BY <1>9 DEF r, y

\* The first of some slots.
LEMMA MinIsMember ==
  ASSUME NEW S \in SUBSET Nat, S # {}
  PROVE  Min(S) \in S
<1>1. PICK x \in S : \A y \in S : ~ (<<y, x>> \in OpToRel(<, Nat))
  BY NatLessThanWellFounded, WFMin
<1>2. ASSUME NEW y \in S PROVE x <= y
  <2>1. y < x => <<y, x>> \in {ss \in Nat \X Nat : ss[1] < ss[2]}
    OBVIOUS
  <2>2. ~ (y < x)
    BY <2>1, <1>1, Zenon DEF OpToRel
  <2> QED
    BY <2>2
<1> QED
  BY <1>2 DEF Min

\* Erasing an element from a vector.
LEMMA EraseAt ==
  ASSUME NEW S, NEW q \in Seq(S), NEW i \in DOMAIN q
  PROVE  /\ RemoveAt(q, i) \in Seq(S) /\ Len(RemoveAt(q, i)) = Len(q) - 1
         /\ \A k \in 1..(Len(q) - 1) : RemoveAt(q, i)[k] = IF k < i THEN q[k] ELSE q[k + 1]
<1> DEFINE a == SubSeq(q, 1, i - 1)
           b == SubSeq(q, i + 1, Len(q))
<1>1. i \in 1..Len(q) /\ Len(q) \in Nat
  OBVIOUS
<1>2. a \in Seq(S) /\ Len(a) = i - 1 /\ \A k \in 1..(i - 1) : a[k] = q[k]
  BY <1>1, SubSeqProperties
<1>3. b \in Seq(S) /\ Len(b) = Len(q) - i /\ \A k \in 1..(Len(q) - i) : b[k] = q[i + k]
  BY <1>1
<1> HIDE DEF a, b
<1>4. a \o b \in Seq(S) /\ Len(a \o b) = Len(q) - 1
  BY <1>1, <1>2, <1>3
<1>5. ASSUME NEW k \in 1..(Len(q) - 1)
      PROVE  (a \o b)[k] = IF k < i THEN q[k] ELSE q[k + 1]
  <2>1. (a \o b)[k] = IF k <= Len(a) THEN a[k] ELSE b[k - Len(a)]
    BY <1>1, <1>2, <1>3
  <2> QED
    BY <1>1, <1>2, <1>3, <2>1
<1> QED
  BY <1>4, <1>5 DEF RemoveAt, a, b

\* Elements of a sequence that is extended, or whose head is taken.
LEMMA RangeAppend ==
  ASSUME NEW S, NEW q \in Seq(S), NEW e \in S
  PROVE  Range(Append(q, e)) = Range(q) \cup {e}
<1>1. /\ Append(q, e) \in Seq(S) /\ Len(Append(q, e)) = Len(q) + 1 /\ Len(q) \in Nat
      /\ \A k \in 1..Len(q) : Append(q, e)[k] = q[k]
      /\ Append(q, e)[Len(q) + 1] = e
  OBVIOUS
<1>2. DOMAIN Append(q, e) = 1..(Len(q) + 1) /\ DOMAIN q = 1..Len(q)
  BY <1>1
<1>3. Range(q) \cup {e} \subseteq Range(Append(q, e))
  <2>1. Len(q) + 1 \in DOMAIN Append(q, e) /\ \A k \in DOMAIN q : k \in DOMAIN Append(q, e)
    BY <1>1, <1>2
  <2> QED
    BY <1>1, <1>2, <2>1 DEF Range
<1>4. Range(Append(q, e)) \subseteq Range(q) \cup {e}
  <2> SUFFICES ASSUME NEW k \in DOMAIN Append(q, e) PROVE Append(q, e)[k] \in Range(q) \cup {e}
    BY DEF Range
  <2>1. k \in 1..Len(q) \/ k = Len(q) + 1
    BY <1>1, <1>2
  <2> QED
    BY <2>1, <1>1, <1>2 DEF Range
<1> QED
  BY <1>3, <1>4

LEMMA RangeTail ==
  ASSUME NEW S, NEW q \in Seq(S), q # <<>>
  PROVE  /\ Head(q) \in S /\ Head(q) \in Range(q)
         /\ Len(q) = 1 => Range(q) = {Head(q)}
         /\ Len(q) # 1 => Tail(q) # <<>>
         /\ Tail(q) \in Seq(S) /\ Range(q) = Range(Tail(q)) \cup {Head(q)}
<1>1. /\ Len(q) \in Nat /\ Len(q) >= 1 /\ Head(q) = q[1] /\ Tail(q) \in Seq(S) /\ Len(Tail(q)) = Len(q) - 1
      /\ \A k \in 1..(Len(q) - 1) : Tail(q)[k] = q[k + 1]
  OBVIOUS
<1>2. DOMAIN q = 1..Len(q) /\ DOMAIN Tail(q) = 1..(Len(q) - 1)
  BY <1>1
<1>3. Head(q) \in Range(q) /\ Head(q) \in S
  BY <1>1, <1>2 DEF Range
<1>4. Len(q) = 1 => Range(q) = {Head(q)}
  BY <1>1, <1>2 DEF Range
<1>5. Range(Tail(q)) \subseteq Range(q)
  <2>1. \A k \in DOMAIN Tail(q) : k + 1 \in DOMAIN q /\ Tail(q)[k] = q[k + 1]
    BY <1>1, <1>2
  <2> QED
    BY <2>1 DEF Range
<1>6. Range(q) \subseteq Range(Tail(q)) \cup {Head(q)}
  <2> SUFFICES ASSUME NEW k \in DOMAIN q PROVE q[k] \in Range(Tail(q)) \cup {Head(q)}
    BY DEF Range
  <2>1. k = 1 \/ (k - 1 \in DOMAIN Tail(q) /\ Tail(q)[k - 1] = q[k])
    BY <1>1, <1>2
  <2> QED
    BY <2>1, <1>1 DEF Range
<1> QED
  BY <1>1, <1>3, <1>4, <1>5, <1>6

-------------------------------------------------------------------------------
(* The plugin.                                                               *)

\* None is not a context, and a record of a section is not None.
LEMMA NumberFacts ==
  /\ MinusOne \in Numbers /\ 0 \in Numbers /\ Gap \in Numbers /\ Numbers \subseteq Int
  /\ \A n \in Numbers : n # -1 /\ n >= 0
BY ClassRoomAssumption, ModRange DEF MinusOne, Numbers, Gap

LEMMA NewContextIsOne ==
  ASSUME NEW other \in Streams
  PROVE  /\ NewContext(other) \in Contexts /\ NewContext(other).source = other
         /\ NewContext(other).prev = -1 /\ Remembers(NewContext(other))
BY NumberFacts DEF NewContext, Contexts, Remembers

\* RenewContext keeps what was sent last and starts a new source from there.
LEMMA RenewContextIsOne ==
  ASSUME NEW c \in Contexts, NEW other \in Streams
  PROVE  /\ RenewContext(c, other) \in Contexts /\ RenewContext(c, other).source = other
         /\ RenewContext(c, other).prev = -1 /\ Remembers(RenewContext(c, other))
<1>1. /\ (c.ts + Gap) % Modulus \in Numbers /\ (c.seq + 1) % Modulus \in Numbers
  <2>1. c.ts \in Int /\ c.seq \in Int /\ Gap \in Int
    BY NumberFacts DEF Contexts
  <2>2. c.ts + Gap \in Int /\ c.seq + 1 \in Int
    BY <2>1
  <2> QED
    BY <2>2, ModRange
<1>2. RenewContext(c, other) \in Contexts
  BY <1>1, NumberFacts DEF RenewContext, Contexts
<1>3. /\ RenewContext(c, other).source = other /\ RenewContext(c, other).prev = -1
      /\ RenewContext(c, other).base_ts = MinusOne /\ RenewContext(c, other).base_seq = MinusOne
      /\ RenewContext(c, other).ts = c.ts
      /\ RenewContext(c, other).last_ts = (c.ts + Gap) % Modulus
  BY DEF RenewContext, Contexts
<1> QED
  BY <1>2, <1>3 DEF Remembers

\* RewriteRtpHeader: the base is set by the first packet, the numbers advance as
\* the source's do.
LEMMA RewriteIsRight ==
  ASSUME NEW c \in Contexts, Remembers(c), NEW n \in Numbers
  PROVE  LET d == RewriteRtpHeader(c, n)
         IN  /\ d \in Contexts /\ d.source = c.source /\ Remembers(d) /\ d.prev = n
             /\ c.prev = -1 /\ c.used => d.ts = (c.ts + Gap) % Modulus
             /\ c.prev # -1 /\ c.base_ts # MinusOne => d.ts = (c.ts + (d.prev - c.prev)) % Modulus
             /\ c.prev # -1 => d.seq = (c.seq + (d.prev - c.prev)) % Modulus
<1> DEFINE d == RewriteRtpHeader(c, n)
           bs == IF c.base_seq = -1 THEN n ELSE c.base_seq
           bt == IF c.base_ts = MinusOne THEN n ELSE c.base_ts
<1>1. /\ c.seq \in Numbers /\ c.ts \in Numbers /\ c.last_seq \in Numbers /\ c.last_ts \in Numbers
      /\ c.base_seq \in Numbers /\ c.base_ts \in Numbers /\ c.prev \in Numbers \cup {-1}
      /\ c.used \in BOOLEAN
  BY DEF Contexts
<1>2. bs = MinusOne /\ bs \in Numbers /\ bt \in Numbers
  BY <1>1, NumberFacts DEF Remembers
<1>10. /\ c.seq \in Int /\ c.ts \in Int /\ c.last_seq \in Int /\ c.last_ts \in Int /\ n \in Int
       /\ c.base_seq \in Int /\ c.base_ts \in Int /\ c.prev \in Int /\ bs \in Int /\ bt \in Int
       /\ MinusOne \in Int
  <2> HIDE DEF bs, bt
  <2>1. \A x \in Numbers : x \in Int
    BY NumberFacts
  <2>2. c.prev \in Int
    BY <1>1, <2>1
  <2> QED
    BY <1>1, <1>2, <2>1, <2>2, NumberFacts, Zenon
<1>3. /\ d.base_seq = bs /\ d.base_ts = bt /\ d.prev = n /\ d.source = c.source
      /\ d.last_seq = c.last_seq /\ d.last_ts = c.last_ts
      /\ d.seq = (c.last_seq + n - bs) % Modulus
      /\ d.ts = (c.last_ts + n - bt) % Modulus
  BY DEF RewriteRtpHeader, Contexts
<1>4. /\ (c.last_seq + n - bs) % Modulus \in Numbers
      /\ (c.last_ts + n - bt) % Modulus \in Numbers
  <2> HIDE DEF bs, bt
  <2>1. c.last_seq + n - bs \in Int /\ c.last_ts + n - bt \in Int
    BY <1>10
  <2> QED
    BY <2>1, ModRange
<1>5. d \in Contexts
  BY <1>1, <1>2, <1>4 DEF RewriteRtpHeader, Contexts
<1> HIDE DEF d, bs
<1>6. Remembers(d)
  BY <1>2, <1>3, NumberFacts DEF Remembers
<1>7. c.prev = -1 /\ c.used => d.ts = (c.ts + Gap) % Modulus
  <2> SUFFICES ASSUME c.prev = -1, c.used PROVE d.ts = (c.ts + Gap) % Modulus
    OBVIOUS
  <2>1. c.base_ts = MinusOne /\ c.last_ts = (c.ts + Gap) % Modulus
    BY DEF Remembers
  <2>2. c.last_ts + n - bt = c.last_ts
    BY <2>1, <1>10
  <2>3. c.last_ts % Modulus = c.last_ts
    BY <1>1, <1>10, ModRange
  <2> QED
    BY <2>1, <2>2, <2>3, <1>3
<1>8. c.prev # -1 /\ c.base_ts # MinusOne => d.ts = (c.ts + (d.prev - c.prev)) % Modulus
  <2> SUFFICES ASSUME c.prev # -1, c.base_ts # MinusOne PROVE d.ts = (c.ts + (n - c.prev)) % Modulus
    BY <1>3
  <2> DEFINE a == c.last_ts + c.prev - c.base_ts
             b == n - c.prev
  <2>1. c.ts = a % Modulus /\ bt = c.base_ts
    BY DEF Remembers
  <2>2. a \in Int /\ b \in Int /\ a + b = c.last_ts + n - c.base_ts
    BY <1>10
  <2>3. ((a % Modulus) + b) % Modulus = (a + b) % Modulus
    BY <2>2, ModSum
  <2> QED
    BY <2>1, <2>2, <2>3, <1>3
<1>9. c.prev # -1 => d.seq = (c.seq + (d.prev - c.prev)) % Modulus
  <2> SUFFICES ASSUME c.prev # -1 PROVE d.seq = (c.seq + (n - c.prev)) % Modulus
    BY <1>3
  <2> DEFINE a == c.last_seq + c.prev - MinusOne
             b == n - c.prev
  <2>1. c.seq = a % Modulus
    BY DEF Remembers
  <2>2. a \in Int /\ b \in Int /\ a + b = c.last_seq + n - MinusOne
    BY <1>10
  <2>3. ((a % Modulus) + b) % Modulus = (a + b) % Modulus
    BY <2>2, ModSum
  <2> QED
    BY <2>1, <2>2, <2>3, <1>3, <1>2
<1> QED
  BY <1>3, <1>5, <1>6, <1>7, <1>8, <1>9, Zenon DEF d

\* A plugin's slots vec and contexts ctx: what holds of each plugin.
Vectors == [1..Slots -> Streams \cup {None}] \cup {<<>>}
PluginOK(vec, ctx) ==
  /\ vec \in Vectors /\ ctx \in [1..Slots -> Contexts \cup {None}]
  /\ \A j, k \in DOMAIN vec : j # k /\ vec[j] # None => vec[j] # vec[k]
  /\ \A k \in DOMAIN vec : vec[k] # None => ctx[k] # None /\ ctx[k].source = vec[k]
  /\ \A k \in 1..Slots : ctx[k] # None => Remembers(ctx[k])

LEMMA VectorDomain ==
  ASSUME NEW vec \in Vectors
  PROVE  DOMAIN vec \subseteq 1..Slots /\ DOMAIN vec \subseteq Nat /\ \A k \in DOMAIN vec : vec[k] \in Streams \cup {None}
<1>1. CASE vec = <<>>
  BY <1>1
<1>2. CASE vec \in [1..Slots -> Streams \cup {None}]
  BY <1>2
<1> QED
  BY <1>1, <1>2 DEF Vectors

\* UnlinkToSsrc frees the slot of a stream and keeps the others.
LEMMA UnlinkKeeps ==
  ASSUME NEW vec, NEW ctx, PluginOK(vec, ctx), NEW ssrc
  PROVE  LET v == UnlinkToSsrc(vec, ssrc)
         IN  /\ PluginOK(v, ctx) /\ DOMAIN v = DOMAIN vec
             /\ Range(v) \subseteq (Range(vec) \ {ssrc}) \cup {None}
             /\ Range(vec) \subseteq Range(v) \cup {ssrc}
<1> DEFINE v == UnlinkToSsrc(vec, ssrc)
<1>1. DOMAIN v = DOMAIN vec /\ \A k \in DOMAIN vec : v[k] = IF vec[k] = ssrc THEN None ELSE vec[k]
  BY DEF UnlinkToSsrc
<1>2. v \in Vectors
  <2>1. CASE vec = <<>>
    <3>1. v = <<>>
      BY <2>1, <1>1 DEF UnlinkToSsrc
    <3> QED
      BY <3>1 DEF Vectors
  <2>2. CASE vec \in [1..Slots -> Streams \cup {None}]
    <3>1. v \in [1..Slots -> Streams \cup {None}]
      BY <2>2 DEF UnlinkToSsrc
    <3> QED
      BY <3>1 DEF Vectors
  <2> QED
    BY <2>1, <2>2 DEF PluginOK, Vectors
<1> HIDE DEF v
<1>3. PluginOK(v, ctx)
  BY <1>1, <1>2 DEF PluginOK
<1>4. Range(v) \subseteq (Range(vec) \ {ssrc}) \cup {None}
  BY <1>1 DEF Range
<1>5. Range(vec) \subseteq Range(v) \cup {ssrc}
  BY <1>1 DEF Range
<1> QED
  BY <1>1, <1>3, <1>4, <1>5 DEF v

\* What r = <<slots, contexts>> has to be after a link to ssrc.
LinkedTo(vec, ctx, ssrc, r) ==
  /\ PluginOK(r[1], r[2]) /\ DOMAIN r[1] = DOMAIN vec
  /\ Range(r[1]) \subseteq Range(vec) \cup {ssrc, None}
  /\ Range(vec) \ {None} \subseteq Range(r[1]) \cup {ssrc}
  /\ FreeSlots(UnlinkToSsrc(vec, ssrc)) # {} => ssrc \in Range(r[1])
  /\ \A k \in 1..Slots : r[2][k] # ctx[k] => r[2][k].prev = -1

\* LinkToSsrc: the first free slot gets the stream, with a context that starts
\* from what was sent last; the other links stay.
LEMMA LinkIsRight ==
  ASSUME NEW vec, NEW ctx, PluginOK(vec, ctx), NEW other \in Streams, NEW ssrc \in {other, None}
  PROVE  LinkedTo(vec, ctx, ssrc, LinkToSsrc(vec, ctx, ssrc, other))
<1> DEFINE r == LinkToSsrc(vec, ctx, ssrc, other)
           v == UnlinkToSsrc(vec, ssrc)
           k == Min(FreeSlots(v))
<1>1. /\ PluginOK(v, ctx) /\ DOMAIN v = DOMAIN vec
      /\ Range(v) \subseteq (Range(vec) \ {ssrc}) \cup {None}
      /\ Range(vec) \subseteq Range(v) \cup {ssrc}
  BY UnlinkKeeps
<1>2. CASE FreeSlots(v) = {}
  <2>1. r[1] = v /\ r[2] = ctx
    BY <1>2 DEF LinkToSsrc
  <2> HIDE DEF r, v
  <2> QED
    BY <2>1, <1>1, <1>2, Zenon DEF r, v, LinkedTo
<1>3. CASE FreeSlots(v) # {}
  <2> DEFINE c == IF ctx[k] = None THEN NewContext(other) ELSE RenewContext(ctx[k], other)
             w == [v EXCEPT ![k] = ssrc]
             e == [ctx EXCEPT ![k] = c]
  <2>1. r[1] = w /\ r[2] = e
    BY <1>3 DEF LinkToSsrc
  <2> HIDE DEF r, v
  <2>2. v \in Vectors /\ ctx \in [1..Slots -> Contexts \cup {None}]
    BY <1>1 DEF PluginOK
  <2>3. FreeSlots(v) \in SUBSET Nat
    BY <2>2, VectorDomain DEF FreeSlots
  <2>4. k \in DOMAIN v /\ k \in 1..Slots /\ v[k] = None
    <3>1. k \in FreeSlots(v)
      BY <1>3, <2>3, MinIsMember
    <3> HIDE DEF k
    <3> QED
      BY <3>1, <2>2, VectorDomain DEF FreeSlots
  <2> HIDE DEF k
  <2>5. c \in Contexts /\ c.source = other /\ c.prev = -1 /\ Remembers(c)
    BY <2>2, <2>4, NewContextIsOne, RenewContextIsOne
  <2> HIDE DEF c
  <2>6. DOMAIN w = DOMAIN v /\ \A j \in DOMAIN v : w[j] = IF j = k THEN ssrc ELSE v[j]
    <3>1. DOMAIN w = DOMAIN v
      BY Zenon
    <3> QED
      BY <2>4, <3>1
  <2>7. w \in Vectors
    <3>1. v # <<>>
      BY <2>4
    <3>2. v \in [1..Slots -> Streams \cup {None}]
      BY <3>1, <2>2 DEF Vectors
    <3>3. w \in [1..Slots -> Streams \cup {None}]
      BY <3>2
    <3> QED
      BY <3>3 DEF Vectors
  <2>8. e \in [1..Slots -> Contexts \cup {None}] /\ \A j \in 1..Slots : e[j] = IF j = k THEN c ELSE ctx[j]
    BY <2>2, <2>4, <2>5
  <2> HIDE DEF w, e
  <2>9. \A j \in DOMAIN v : v[j] # ssrc \/ ssrc = None
    BY <1>1 DEF Range
  <2>10. \A i, j \in DOMAIN w : i # j /\ w[i] # None => w[i] # w[j]
    BY <2>4, <2>6, <2>9, <1>1 DEF PluginOK
  <2>11. \A j \in DOMAIN w : w[j] # None => e[j] # None /\ e[j].source = w[j]
    <3> SUFFICES ASSUME NEW j \in DOMAIN w, w[j] # None PROVE e[j] # None /\ e[j].source = w[j]
      OBVIOUS
    <3>1. j \in 1..Slots /\ j \in DOMAIN v
      BY <2>2, <2>6, VectorDomain
    <3>2. CASE j = k
      BY <3>1, <3>2, <2>5, <2>6, <2>8, NoneAssumption
    <3>3. CASE j # k
      BY <3>1, <3>3, <2>6, <2>8, <1>1 DEF PluginOK
    <3> QED
      BY <3>2, <3>3
  <2>12. \A j \in 1..Slots : e[j] # None => Remembers(e[j])
    BY <2>5, <2>8, <1>1 DEF PluginOK
  <2>13. PluginOK(w, e)
    BY <2>7, <2>8, <2>10, <2>11, <2>12 DEF PluginOK
  <2>14. Range(w) \subseteq Range(v) \cup {ssrc} /\ Range(v) \subseteq Range(w) \cup {None} /\ ssrc \in Range(w)
    BY <2>4, <2>6 DEF Range
  <2>15. \A j \in 1..Slots : e[j] # ctx[j] => e[j].prev = -1
    BY <2>5, <2>8
  <2>16. DOMAIN w = DOMAIN vec /\ Range(w) \subseteq Range(vec) \cup {ssrc, None}
         /\ Range(vec) \ {None} \subseteq Range(w) \cup {ssrc}
    BY <2>6, <2>14, <1>1
  <2> QED
    BY <2>1, <2>13, <2>14, <2>15, <2>16, Zenon DEF r, LinkedTo
<1> QED
  BY <1>2, <1>3

\* A plugin has a slot for every other participant: with s unlinked one is free,
\* when the slots hold only other participants, each once.
LEMMA SlotIsFree ==
  ASSUME NEW vec \in [1..Slots -> Streams \cup {None}], NEW P, IsFiniteSet(P), NEW p \in P, NEW s \in P,
         p # s, Cardinality(P) <= Slots + 1,
         \A j, k \in DOMAIN vec : j # k /\ vec[j] # None => vec[j] # vec[k],
         Range(vec) \subseteq (P \ {p}) \cup {None}
  PROVE  FreeSlots(UnlinkToSsrc(vec, s)) # {}
<1> SUFFICES ASSUME FreeSlots(UnlinkToSsrc(vec, s)) = {} PROVE FALSE
  OBVIOUS
<1> DEFINE Q == (P \ {p}) \ {s}
<1>1. \A k \in 1..Slots : vec[k] # s /\ vec[k] # None
  BY DEF FreeSlots, UnlinkToSsrc
<1>2. vec \in [1..Slots -> Q]
  BY <1>1 DEF Range
<1>3. /\ IsFiniteSet(P \ {p}) /\ Cardinality(P \ {p}) = Cardinality(P) - 1
  BY FS_RemoveElement
<1>4. IsFiniteSet(Q) /\ Cardinality(Q) = Cardinality(P \ {p}) - 1
  BY <1>3, FS_RemoveElement
<1>5. IsFiniteSet(1..Slots) /\ Cardinality(1..Slots) = Slots
  BY FS_Interval, ClassRoomAssumption
<1>6. Cardinality(P) \in Nat
  BY FS_CardinalityType
<1> HIDE DEF Q
<1>8. vec \in Injection(1..Slots, Q)
  BY <1>1, <1>2 DEF Injection, IsInjective
<1>9. Cardinality(1..Slots) <= Cardinality(Q)
  BY <1>4, <1>8, FS_Injection
<1> QED
  BY <1>3, <1>4, <1>5, <1>6, <1>9, ClassRoomAssumption

\* There are no more participants than the vector is long.
LEMMA ParticipantsAreCounted ==
  ASSUME NEW S, NEW q \in Seq(S)
  PROVE  IsFiniteSet(Range(q)) /\ Cardinality(Range(q)) <= Len(q)
<1>1. Len(q) \in Nat /\ q \in [1..Len(q) -> Range(q)] /\ DOMAIN q = 1..Len(q)
  BY DEF Range
<1>2. q \in Surjection(1..Len(q), Range(q))
  BY <1>1 DEF Surjection, Range
<1>3. IsFiniteSet(1..Len(q)) /\ Cardinality(1..Len(q)) = Len(q)
  BY <1>1, FS_Interval
<1> QED
  BY <1>2, <1>3, FS_Surjection

-------------------------------------------------------------------------------
(* The inductive invariant in the parts an action disturbs together.         *)

TypeRest ==
  /\ plugins_ \in Seq(joined) /\ Len(plugins_) <= MaxParticipants
  /\ joined \subseteq Streams /\ offered \subseteq joined
  /\ active_ \subseteq Streams /\ master_streams_ \subseteq Teachers
  /\ published_streams_ \subseteq Streams
  /\ notified \in [Streams -> [NotifyThreads -> {"no", "link", "activate", "done"}]]
  /\ number \in [Streams -> Numbers]
  /\ room \in Sections \cup {None} /\ failed \in Failures \cup {None}
  /\ publish = None \/ publish \subseteq Streams

Plugins ==
  /\ extended_ssrc_vec_ \in [Streams -> Vectors]
  /\ video_switch_contexts_ \in [Streams -> [1..Slots -> Contexts \cup {None}]]
  /\ \A s \in Streams : /\ DOMAIN extended_ssrc_vec_[s] = IF s \in offered THEN 1..Slots ELSE {}
                        /\ PluginOK(extended_ssrc_vec_[s], video_switch_contexts_[s])

Links   == NoLinkToRemoved /\ LinksToOthers
Threads == ReadyIsOffered /\ ActiveIsLinked /\ OnceInRoom
Loops   == LoopIsInRoom /\ LoopHasLinked
Linked  == AllLinked /\ ParticipantIsLinked

LEMMA Parts == IInv <=> TypeRest /\ Plugins /\ Links /\ Threads /\ Loops /\ Linked
<1>1. IInv => TypeRest /\ Plugins /\ Links /\ Threads /\ Loops /\ Linked
  <2> SUFFICES ASSUME IInv PROVE TypeRest /\ Plugins /\ Links /\ Threads /\ Loops /\ Linked
    OBVIOUS
  <2>1. TypeOK /\ LinkedOnce /\ VideoMapNamesSource /\ ContextsRemember
    BY DEF IInv, LinksAreConsistent
  <2>2. TypeRest
    BY <2>1 DEF TypeOK, TypeRest
  <2>3. extended_ssrc_vec_ \in [Streams -> Vectors]
    BY <2>1 DEF TypeOK, Vectors
  <2>4. ASSUME NEW s \in Streams PROVE PluginOK(extended_ssrc_vec_[s], video_switch_contexts_[s])
    <3>1. extended_ssrc_vec_[s] \in Vectors /\ video_switch_contexts_[s] \in [1..Slots -> Contexts \cup {None}]
      BY <2>1, <2>3 DEF TypeOK
    <3>2. \A j, k \in DOMAIN extended_ssrc_vec_[s] :
             j # k /\ extended_ssrc_vec_[s][j] # None => extended_ssrc_vec_[s][j] # extended_ssrc_vec_[s][k]
      BY <2>1 DEF LinkedOnce
    <3>3. \A k \in DOMAIN extended_ssrc_vec_[s] : extended_ssrc_vec_[s][k] # None =>
             /\ video_switch_contexts_[s][k] # None
             /\ video_switch_contexts_[s][k].source = extended_ssrc_vec_[s][k]
      BY <2>1 DEF VideoMapNamesSource
    <3>4. \A k \in 1..Slots : video_switch_contexts_[s][k] # None => Remembers(video_switch_contexts_[s][k])
      BY <2>1 DEF ContextsRemember
    <3> QED
      BY <3>1, <3>2, <3>3, <3>4, Zenon DEF PluginOK
  <2>5. Plugins
    BY <2>1, <2>3, <2>4 DEF Plugins, TypeOK
  <2> QED
    BY <2>2, <2>5 DEF IInv, LinksAreConsistent, Links, Threads, Loops, Linked
<1>2. TypeRest /\ Plugins /\ Links /\ Threads /\ Loops /\ Linked => IInv
  <2> SUFFICES ASSUME TypeRest, Plugins, Links, Threads, Loops, Linked PROVE IInv
    OBVIOUS
  <2>1. TypeOK
    BY DEF TypeOK, TypeRest, Plugins, Vectors
  <2>2. LinkedOnce /\ VideoMapNamesSource /\ ContextsRemember
    BY Zenon DEF Plugins, PluginOK, LinkedOnce, VideoMapNamesSource, ContextsRemember
  <2> QED
    BY <2>1, <2>2 DEF IInv, LinksAreConsistent, Links, Threads, Loops, Linked
<1> QED
  BY <1>1, <1>2

LEMMA PartsNext == TypeRest' /\ Plugins' /\ Links' /\ Threads' /\ Loops' /\ Linked' => IInv'
BY Parts, PTL

\* An action that leaves the plugins, their links and the notifications alone.
LEMMA RoomStays ==
  ASSUME IInv, UNCHANGED <<plugins_, offered, links, active_, notified, failed>>
  PROVE  Plugins' /\ Links' /\ Threads' /\ Linked'
<1> USE Parts DEF links
<1>1. Plugins'
  BY DEF Plugins
<1>2. Links'
  BY DEF Links, NoLinkToRemoved, LinksToOthers
<1>3. Threads'
  BY DEF Threads, ReadyIsOffered, ActiveIsLinked, OnceInRoom, LinkedUp
<1>4. Linked'
  BY DEF Linked, AllLinked, ParticipantIsLinked, LinkedUp
<1> QED
  BY <1>1, <1>2, <1>3, <1>4

\* Sections of published_streams_mutex_ and the calls that only ask for them.
LEMMA RolesStep ==
  ASSUME IInv, AddRole \/ RemoveRole \/ PublishFinish \/ (\E ids \in PublishRequests : PublishStreams(ids))
  PROVE  IInv'
<1>1. TypeRest
  BY Parts
<1>2. /\ UNCHANGED <<plugins_, joined, offered, links, active_, notified, number, failed>>
      /\ room' = room \/ room' = None
  BY DEF AddRole, RemoveRole, PublishFinish, PublishStreams
<1>3. /\ master_streams_' \subseteq Teachers /\ published_streams_' \subseteq Streams
      /\ publish' = None \/ publish' \subseteq Streams
  <2>1. room # None => room.stream \in Streams
    BY <1>1 DEF TypeRest, Sections
  <2>2. CASE AddRole
    BY <1>1, <2>1, <2>2 DEF AddRole, TypeRest
  <2>3. CASE RemoveRole
    BY <1>1, <2>3 DEF RemoveRole, TypeRest
  <2>4. CASE PublishFinish
    BY <1>1, <2>4 DEF PublishFinish, TypeRest
  <2>5. CASE \E ids \in PublishRequests : PublishStreams(ids)
    BY <1>1, <2>5, ClassRoomAssumption DEF PublishStreams, TypeRest
  <2> QED
    BY <2>2, <2>3, <2>4, <2>5
<1>4. TypeRest'
  BY <1>1, <1>2, <1>3 DEF TypeRest
<1>5. Plugins' /\ Links' /\ Threads' /\ Linked'
  BY <1>2, RoomStays
<1>6. Loops'
  BY <1>2, Parts DEF Loops, LoopIsInRoom, LoopHasLinked, LinkedUp, links
<1> QED
  BY <1>4, <1>5, <1>6, PartsNext

\* A participant comes: it has made no offer, so nobody is linked to it.
LEMMA AddParticipantStep ==
  ASSUME IInv, NEW s \in Streams, AddParticipant(s)
  PROVE  IInv'
<1>1. TypeRest /\ Plugins /\ Links /\ Threads /\ Loops /\ Linked
  BY Parts
<1>2. /\ room = None /\ s \notin joined /\ Len(plugins_) < MaxParticipants
      /\ plugins_' = Append(plugins_, s) /\ joined' = joined \cup {s}
      /\ room' = [op |-> "add", stream |-> s]
      /\ UNCHANGED <<offered, links, active_, sets, notified, number, publish, failed, inputs>>
  BY DEF AddParticipant, PluginsMutexFree
<1>3. plugins_ \in Seq(joined) /\ plugins_ \in Seq(joined \cup {s}) /\ Len(plugins_) \in Nat
  BY <1>1 DEF TypeRest
<1>4. Range(plugins_') = Range(plugins_) \cup {s}
  BY <1>2, <1>3, RangeAppend
<1>5. /\ \A k \in DOMAIN plugins_ : plugins_[k] \in joined
      /\ s \notin offered /\ Range(plugins_) \subseteq joined
  BY <1>1, <1>2, <1>3 DEF TypeRest, Range
<1>6. TypeRest'
  <2>1. plugins_' \in Seq(joined') /\ Len(plugins_') <= MaxParticipants
    BY <1>2, <1>3, ClassRoomAssumption
  <2>2. room' \in Sections
    BY <1>2 DEF Sections
  <2> QED
    BY <1>1, <1>2, <2>1, <2>2 DEF TypeRest, sets
<1>7. Plugins'
  BY <1>1, <1>2 DEF Plugins, links
<1>8. Links'
  <2>1. extended_ssrc_vec_[s] = <<>> \/ DOMAIN extended_ssrc_vec_[s] = {}
    BY <1>1, <1>5 DEF Plugins
  <2>2. Range(extended_ssrc_vec_[s]) = {}
    BY <2>1 DEF Range
  <2>3. NoLinkToRemoved'
    BY <1>1, <1>2, <1>4, <2>2 DEF Links, NoLinkToRemoved, links
  <2> QED
    BY <1>1, <1>2, <2>3 DEF Links, LinksToOthers, links
<1>9. Threads'
  <2>1. OnceInRoom'
    <3>1. /\ DOMAIN plugins_' = 1..(Len(plugins_) + 1) /\ DOMAIN plugins_ = 1..Len(plugins_)
          /\ \A k \in 1..Len(plugins_) : plugins_'[k] = plugins_[k]
          /\ plugins_'[Len(plugins_) + 1] = s
      BY <1>2, <1>3
    <3>2. \A k \in 1..Len(plugins_) : plugins_'[k] # s
      BY <1>2, <1>5, <3>1
    <3>3. \A i \in DOMAIN plugins_' : i \in DOMAIN plugins_ \/ i = Len(plugins_) + 1
      BY <1>3, <3>1
    <3>4. \A i, j \in DOMAIN plugins_ : i # j => plugins_'[i] # plugins_'[j]
      BY <1>1, <3>1 DEF Threads, OnceInRoom
    <3> QED
      BY <3>1, <3>2, <3>3, <3>4 DEF OnceInRoom
  <2> QED
    BY <1>1, <1>2, <2>1 DEF Threads, ReadyIsOffered, ActiveIsLinked, LinkedUp
<1>10. Loops'
  BY <1>2 DEF Loops, LoopIsInRoom, LoopHasLinked
<1>11. Linked'
  <2>1. ~LinkedUp(s)
    BY <1>1, <1>5 DEF Threads, ReadyIsOffered, LinkedUp
  <2> QED
    BY <1>1, <1>2, <1>4, <2>1 DEF Linked, AllLinked, ParticipantIsLinked, LinkedUp, links
<1> QED
  BY <1>6, <1>7, <1>8, <1>9, <1>10, <1>11, PartsNext

\* An offer gives a plugin its slots, all free; its READY is still to come.
LEMMA ProcessOfferStep ==
  ASSUME IInv, NEW s \in Streams, NEW first \in FirstNumbers, ProcessOffer(s, first)
  PROVE  IInv'
<1>1. TypeRest /\ Plugins /\ Links /\ Threads /\ Loops /\ Linked
  BY Parts
<1> DEFINE new == [k \in 1..Slots |-> None]
<1>2. /\ s \in joined /\ s \notin offered /\ offered' = offered \cup {s}
      /\ extended_ssrc_vec_' = [extended_ssrc_vec_ EXCEPT ![s] = new]
      /\ number' = [number EXCEPT ![s] = first]
      /\ UNCHANGED <<plugins_, joined, video_switch_contexts_, active_, sets, notified, room, publish,
                     failed, inputs>>
  BY DEF ProcessOffer
<1>3. TypeRest'
  <2>1. number' \in [Streams -> Numbers]
    BY <1>1, <1>2, ClassRoomAssumption DEF TypeRest, Numbers
  <2> QED
    BY <1>1, <1>2, <2>1 DEF TypeRest, sets
<1>4. /\ new \in Vectors /\ DOMAIN new = 1..Slots /\ \A k \in 1..Slots : new[k] = None
  BY DEF Vectors
<1>5. Range(new) \subseteq {None}
  BY DEF Range
<1> HIDE DEF new
<1>6. /\ extended_ssrc_vec_' \in [Streams -> Vectors] /\ extended_ssrc_vec_'[s] = new
      /\ \A p \in Streams \ {s} : extended_ssrc_vec_'[p] = extended_ssrc_vec_[p]
  BY <1>1, <1>2, <1>4 DEF Plugins
<1>7. PluginOK(new, video_switch_contexts_[s])
  BY <1>1, <1>4 DEF Plugins, PluginOK
<1>8. Plugins'
  BY <1>1, <1>2, <1>4, <1>6, <1>7 DEF Plugins
<1>9. ~LinkedUp(s) /\ \A t \in NotifyThreads : notified[s][t] = "no"
  BY <1>1, <1>2 DEF Threads, ReadyIsOffered, LinkedUp
<1>10. Range(plugins_) \subseteq Streams
  BY <1>1 DEF TypeRest, Range
<1>11. Links'
  <2>1. NoLinkToRemoved'
    BY <1>1, <1>2, <1>5, <1>6, <1>10 DEF Links, NoLinkToRemoved
  <2>2. LinksToOthers'
    BY <1>1, <1>2, <1>5, <1>6 DEF Links, LinksToOthers
  <2> QED
    BY <2>1, <2>2 DEF Links
<1>12. Threads'
  BY <1>1, <1>2 DEF Threads, ReadyIsOffered, ActiveIsLinked, OnceInRoom, LinkedUp
<1>13. Loops'
  <2>1. LoopIsInRoom'
    BY <1>1, <1>2 DEF Loops, LoopIsInRoom
  <2>2. LoopHasLinked'
    <3>1. room # None /\ room.op = "link" => room.stream # s
      <4>1. room # None /\ room.op = "link" => room.stream \in Streams /\ room.thread \in NotifyThreads
        BY <1>1 DEF TypeRest, Sections
      <4> QED
        BY <1>1, <1>9, <4>1 DEF Loops, LoopHasLinked
    <3>2. room # None /\ room.op = "link" => room.stream \in Streams
      BY <1>1, <1>10 DEF Loops, LoopHasLinked
    <3> QED
      BY <1>1, <1>2, <1>6, <1>9, <1>10, <3>1, <3>2 DEF Loops, LoopHasLinked, LinkedUp
  <2> QED
    BY <2>1, <2>2 DEF Loops
<1>14. Linked'
  BY <1>1, <1>2, <1>6, <1>9, <1>10 DEF Linked, AllLinked, ParticipantIsLinked, LinkedUp
<1> QED
  BY <1>3, <1>8, <1>11, <1>12, <1>13, <1>14, PartsNext

\* A participant leaves: its slot is freed in every plugin that stays.
LEMMA RemoveParticipantStep ==
  ASSUME IInv, NEW s \in Streams, RemoveParticipant(s)
  PROVE  IInv'
<1>1. TypeRest /\ Plugins /\ Links /\ Threads /\ Loops /\ Linked
  BY Parts
<1>2. /\ room = None /\ s \in Range(plugins_) /\ plugins_' = Erase(s) /\ active_' = active_ \ {s}
      /\ extended_ssrc_vec_' = [p \in Streams |->
           IF p \in Range(plugins_') THEN UnlinkToSsrc(extended_ssrc_vec_[p], UpstreamSsrc(s))
                                     ELSE extended_ssrc_vec_[p]]
      /\ room' = [op |-> "remove", stream |-> s]
      /\ UNCHANGED <<joined, offered, video_switch_contexts_, sets, notified, number, publish, failed,
                     inputs>>
  BY DEF RemoveParticipant, PluginsMutexFree
<1>3. PICK i \in DOMAIN plugins_ : plugins_[i] = s /\ plugins_' = RemoveAt(plugins_, i)
  BY <1>2 DEF Erase, Range
<1>4. plugins_ \in Seq(joined) /\ Len(plugins_) \in Nat /\ DOMAIN plugins_ = 1..Len(plugins_) /\ i \in 1..Len(plugins_)
  BY <1>1 DEF TypeRest
<1>5. /\ plugins_' \in Seq(joined) /\ Len(plugins_') = Len(plugins_) - 1
      /\ \A k \in 1..(Len(plugins_) - 1) : plugins_'[k] = IF k < i THEN plugins_[k] ELSE plugins_[k + 1]
  BY <1>3, <1>4, EraseAt
<1>6. DOMAIN plugins_' = 1..(Len(plugins_) - 1)
  BY <1>4, <1>5
<1> DEFINE at(k) == IF k < i THEN k ELSE k + 1
<1>7. \A k \in DOMAIN plugins_' : at(k) \in DOMAIN plugins_ /\ at(k) # i /\ plugins_'[k] = plugins_[at(k)]
  BY <1>4, <1>5, <1>6
<1>8. Range(plugins_') \subseteq Range(plugins_) \ {s}
  BY <1>1, <1>3, <1>7 DEF Range, Threads, OnceInRoom
<1>9. Range(plugins_) \ {s} \subseteq Range(plugins_')
  <2> SUFFICES ASSUME NEW j \in DOMAIN plugins_, plugins_[j] # s PROVE plugins_[j] \in Range(plugins_')
    BY DEF Range
  <2>1. j # i /\ j \in 1..Len(plugins_)
    BY <1>3, <1>4
  <2>2. CASE j < i
    <3>1. j \in DOMAIN plugins_' /\ plugins_'[j] = plugins_[j]
      BY <2>1, <2>2, <1>4, <1>5, <1>6
    <3> QED
      BY <3>1 DEF Range
  <2>3. CASE j > i
    <3>1. j - 1 \in DOMAIN plugins_' /\ plugins_'[j - 1] = plugins_[j]
      BY <2>1, <2>3, <1>4, <1>5, <1>6
    <3> QED
      BY <3>1 DEF Range
  <2> QED
    BY <2>1, <2>2, <2>3, <1>4
<1>10. Range(plugins_) \subseteq Streams
  BY <1>1 DEF TypeRest, Range
<1>11. TypeRest'
  <2>1. room' \in Sections
    BY <1>2 DEF Sections
  <2> QED
    BY <1>1, <1>2, <1>4, <1>5, <2>1, ClassRoomAssumption DEF TypeRest, sets
<1> DEFINE u == UpstreamSsrc(s)
           V(p) == UnlinkToSsrc(extended_ssrc_vec_[p], u)
<1>12. ASSUME NEW p \in Streams
       PROVE  /\ PluginOK(V(p), video_switch_contexts_[p]) /\ DOMAIN V(p) = DOMAIN extended_ssrc_vec_[p]
              /\ Range(V(p)) \subseteq (Range(extended_ssrc_vec_[p]) \ {u}) \cup {None}
              /\ Range(extended_ssrc_vec_[p]) \subseteq Range(V(p)) \cup {u}
  <2>1. PluginOK(extended_ssrc_vec_[p], video_switch_contexts_[p])
    BY <1>1 DEF Plugins
  <2> QED
    BY <2>1, UnlinkKeeps
<1>13. /\ u = s \/ u = None
       /\ u = None => \A p \in Streams : s \notin Range(extended_ssrc_vec_[p])
  BY <1>1, NoneAssumption DEF UpstreamSsrc, Links, LinksToOthers
<1> HIDE DEF u, V, at
<1>14. \A p \in Streams : extended_ssrc_vec_'[p] = IF p \in Range(plugins_') THEN V(p) ELSE extended_ssrc_vec_[p]
  BY <1>2 DEF V, u
<1>15. Plugins'
  <2>1. \A p \in Streams : V(p) \in Vectors
    BY <1>12 DEF PluginOK
  <2>2. extended_ssrc_vec_' \in [Streams -> Vectors]
    <3>1. extended_ssrc_vec_' = [p \in Streams |-> IF p \in Range(plugins_') THEN V(p) ELSE extended_ssrc_vec_[p]]
      BY <1>2 DEF V, u
    <3> QED
      BY <1>1, <2>1, <3>1 DEF Plugins
  <2> QED
    BY <1>1, <1>2, <1>12, <1>14, <2>2 DEF Plugins
<1>16. Links'
  <2>1. NoLinkToRemoved'
    <3> SUFFICES ASSUME NEW p \in Range(plugins_') PROVE Range(V(p)) \subseteq Range(plugins_') \cup {None}
      BY <1>8, <1>10, <1>14 DEF NoLinkToRemoved
    <3>1. p \in Range(plugins_) /\ p \in Streams
      BY <1>8, <1>10
    <3>2. Range(extended_ssrc_vec_[p]) \subseteq Range(plugins_) \cup {None}
      BY <1>1, <3>1 DEF Links, NoLinkToRemoved
    <3> QED
      BY <1>9, <1>12, <1>13, <3>1, <3>2
  <2>2. LinksToOthers'
    BY <1>1, <1>2, <1>12, <1>14 DEF Links, LinksToOthers
  <2> QED
    BY <2>1, <2>2 DEF Links
<1>17. Threads'
  <2>1. OnceInRoom'
    <3> SUFFICES ASSUME NEW j \in DOMAIN plugins_', NEW k \in DOMAIN plugins_', j # k
                 PROVE  plugins_'[j] # plugins_'[k]
      BY DEF OnceInRoom
    <3>1. at(j) # at(k)
      BY <1>4, <1>6 DEF at
    <3> QED
      BY <1>1, <1>7, <3>1 DEF Threads, OnceInRoom
  <2> QED
    BY <1>1, <1>2, <2>1 DEF Threads, ReadyIsOffered, ActiveIsLinked, LinkedUp
<1>18. Loops'
  BY <1>2 DEF Loops, LoopIsInRoom, LoopHasLinked
<1>19. Linked'
  <2>1. AllLinked'
    <3> SUFFICES ASSUME failed = None, MaxParticipants <= Slots + 1,
                        NEW p \in Range(plugins_'), NEW q \in Range(plugins_'),
                        p # q, LinkedUp(p), LinkedUp(q)
                 PROVE  q \in Range(extended_ssrc_vec_'[p])
      BY <1>2 DEF AllLinked, LinkedUp
    <3>1. q \in Range(extended_ssrc_vec_[p]) /\ q # s /\ p \in Streams /\ q \in Streams
      BY <1>1, <1>8, <1>10 DEF Linked, AllLinked
    <3>2. q # u
      BY <3>1, <1>13, NoneAssumption
    <3> QED
      BY <3>1, <3>2, <1>12, <1>14
  <2>2. ParticipantIsLinked'
    BY <1>1, <1>2, <1>8 DEF Linked, ParticipantIsLinked, LinkedUp
  <2> QED
    BY <2>1, <2>2 DEF Linked
<1> QED
  BY <1>11, <1>15, <1>16, <1>17, <1>18, <1>19, PartsNext

\* A thread's notification advances; nobody becomes linked up by this, and nobody
\* who was ceases to be.
LEMMA NotifiedStep ==
  ASSUME TypeRest, NEW s \in Streams, NEW t \in NotifyThreads,
         NEW x \in {"link", "activate", "done"}, notified' = [notified EXCEPT ![s][t] = x]
  PROVE  /\ notified' \in [Streams -> [NotifyThreads -> {"no", "link", "activate", "done"}]]
         /\ notified'[s][t] = x
         /\ \A p \in Streams, r \in NotifyThreads : <<p, r>> # <<s, t>> => notified'[p][r] = notified[p][r]
BY DEF TypeRest

\* RequestKeyFrameFromAllParticipants: the first half of a READY.
LEMMA RequestStep ==
  ASSUME IInv, NEW s \in Streams, NEW t \in NotifyThreads, RequestKeyFrameFromAllParticipants(s, t)
  PROVE  IInv'
<1>1. TypeRest /\ Plugins /\ Links /\ Threads /\ Loops /\ Linked
  BY Parts
<1>2. /\ s \in offered /\ notified[s][t] = "no" /\ room = None
      /\ notified' = [notified EXCEPT ![s][t] = "link"]
      /\ UNCHANGED <<plugins_, joined, offered, links, active_, sets, number, room, publish, failed>>
  BY DEF RequestKeyFrameFromAllParticipants, PluginsMutexFree
<1>3. /\ notified' \in [Streams -> [NotifyThreads -> {"no", "link", "activate", "done"}]]
      /\ notified'[s][t] = "link"
      /\ \A p \in Streams, r \in NotifyThreads : <<p, r>> # <<s, t>> => notified'[p][r] = notified[p][r]
  BY <1>1, <1>2, NotifiedStep
<1>4. \A p \in Streams : LinkedUp(p)' <=> LinkedUp(p)
  BY <1>2, <1>3 DEF LinkedUp
<1>5. TypeRest'
  BY <1>1, <1>2, <1>3 DEF TypeRest, sets
<1>6. Plugins' /\ Links'
  BY <1>1, <1>2 DEF Plugins, Links, NoLinkToRemoved, LinksToOthers, links
<1>7. Threads'
  <2>1. ReadyIsOffered'
    BY <1>1, <1>2, <1>3 DEF Threads, ReadyIsOffered
  <2>2. ActiveIsLinked'
    BY <1>1, <1>2, <1>4 DEF Threads, ActiveIsLinked, TypeRest
  <2> QED
    BY <1>1, <1>2, <2>1, <2>2 DEF Threads, OnceInRoom
<1>8. Loops'
  BY <1>2 DEF Loops, LoopIsInRoom, LoopHasLinked
<1>9. Range(plugins_) \subseteq Streams
  BY <1>1 DEF TypeRest, Range
<1>10. Linked'
  <2>1. AllLinked'
    BY <1>1, <1>2, <1>4, <1>9 DEF Linked, AllLinked, links
  <2>2. ParticipantIsLinked'
    BY <1>1, <1>2, <1>4 DEF Linked, ParticipantIsLinked
  <2> QED
    BY <2>1, <2>2 DEF Linked
<1> QED
  BY <1>5, <1>6, <1>7, <1>8, <1>10, PartsNext

\* set_active(true): the room has handled the READY.
LEMMA SetActiveStep ==
  ASSUME IInv, NEW s \in Streams, NEW t \in NotifyThreads, SetActive(s, t)
  PROVE  IInv'
<1>1. TypeRest /\ Plugins /\ Links /\ Threads /\ Loops /\ Linked
  BY Parts
<1>2. /\ notified[s][t] = "activate" /\ active_' = active_ \cup {s}
      /\ notified' = [notified EXCEPT ![s][t] = "done"]
      /\ UNCHANGED <<plugins_, joined, offered, links, sets, number, room, publish, failed, inputs>>
  BY DEF SetActive
<1>3. /\ notified' \in [Streams -> [NotifyThreads -> {"no", "link", "activate", "done"}]]
      /\ notified'[s][t] = "done"
      /\ \A p \in Streams, r \in NotifyThreads : <<p, r>> # <<s, t>> => notified'[p][r] = notified[p][r]
  BY <1>1, <1>2, NotifiedStep
<1>4. (\A p \in Streams : LinkedUp(p)' <=> LinkedUp(p)) /\ LinkedUp(s)
  BY <1>2, <1>3 DEF LinkedUp
<1>5. TypeRest'
  BY <1>1, <1>2, <1>3 DEF TypeRest, sets
<1>6. Plugins' /\ Links'
  BY <1>1, <1>2 DEF Plugins, Links, NoLinkToRemoved, LinksToOthers, links
<1>7. Threads'
  <2>1. ReadyIsOffered'
    BY <1>1, <1>2, <1>3 DEF Threads, ReadyIsOffered
  <2>2. ActiveIsLinked'
    BY <1>1, <1>2, <1>4 DEF Threads, ActiveIsLinked, TypeRest
  <2> QED
    BY <1>1, <1>2, <2>1, <2>2 DEF Threads, OnceInRoom
<1>9. Range(plugins_) \subseteq Streams
  BY <1>1 DEF TypeRest, Range
<1>8. Loops'
  <2>1. room # None /\ room.op = "link" =>
          room.stream \in Streams /\ room.thread \in NotifyThreads /\ <<room.stream, room.thread>> # <<s, t>>
    <3>1. room # None /\ room.op = "link" => room.stream \in Streams /\ room.thread \in NotifyThreads
      BY <1>1 DEF TypeRest, Sections
    <3> QED
      BY <1>1, <1>2, <3>1 DEF Loops, LoopHasLinked
  <2>2. LoopIsInRoom'
    BY <1>1, <1>2 DEF Loops, LoopIsInRoom
  <2>3. LoopHasLinked'
    BY <1>1, <1>2, <1>3, <1>4, <1>9, <2>1 DEF Loops, LoopHasLinked, links
  <2> QED
    BY <2>2, <2>3 DEF Loops
<1>10. Linked'
  <2>1. AllLinked'
    BY <1>1, <1>2, <1>4, <1>9 DEF Linked, AllLinked, links
  <2>2. ParticipantIsLinked'
    BY <1>1, <1>2, <1>4 DEF Linked, ParticipantIsLinked
  <2> QED
    BY <2>1, <2>2 DEF Linked
<1> QED
  BY <1>5, <1>6, <1>7, <1>8, <1>10, PartsNext

\* The linking loop begins with every participant to visit, or the assert fails.
LEMMA LinkBeginStep ==
  ASSUME IInv, failed = None, NEW s \in Streams, NEW t \in NotifyThreads, LinkSsrcsToParticipants(s, t)
  PROVE  IInv'
<1>1. TypeRest /\ Plugins /\ Links /\ Threads /\ Loops /\ Linked
  BY Parts
<1>2. /\ notified[s][t] = "link" /\ room = None
      /\ UNCHANGED <<plugins_, joined, offered, links, active_, sets, notified, number, publish, inputs>>
  BY DEF LinkSsrcsToParticipants, PluginsMutexFree
<1>3. plugins_ \in Seq(Streams)
  BY <1>1 DEF TypeRest
<1>4. CASE s \in Range(plugins_)
  <2>1. room' = [op |-> "link", stream |-> s, thread |-> t, todo |-> plugins_] /\ failed' = failed
    BY <1>4 DEF LinkSsrcsToParticipants
  <2>2. room' \in Sections /\ room'.op = "link" /\ room'.stream = s /\ room'.thread = t /\ room'.todo = plugins_
    BY <1>3, <2>1 DEF Sections
  <2>3. TypeRest'
    BY <1>1, <1>2, <2>1, <2>2 DEF TypeRest, sets
  <2>4. Plugins' /\ Links' /\ Threads' /\ Linked'
    BY <1>2, <2>1, RoomStays
  <2>5. plugins_ # <<>>
    BY <1>4 DEF Range
  <2>6. Loops'
    BY <1>2, <1>4, <2>2, <2>5 DEF Loops, LoopIsInRoom, LoopHasLinked
  <2> QED
    BY <2>3, <2>4, <2>6, PartsNext
<1>5. CASE s \notin Range(plugins_)
  <2>1. room' = room /\ failed' = <<"new_plugin", s>>
    BY <1>5 DEF LinkSsrcsToParticipants
  <2>2. failed' \in Failures /\ \A p \in Streams : failed' # <<"not_linked", p>>
    BY <2>1 DEF Failures
  <2>3. failed' # None
    BY <2>2, NoneAssumption
  <2>4. TypeRest'
    BY <1>1, <1>2, <2>1, <2>2 DEF TypeRest, sets
  <2>5. Plugins' /\ Links' /\ Threads'
    BY <1>1, <1>2 DEF Plugins, Links, NoLinkToRemoved, LinksToOthers, Threads, ReadyIsOffered, ActiveIsLinked,
                      OnceInRoom, LinkedUp, links
  <2>6. Loops'
    BY <1>2, <2>1 DEF Loops, LoopIsInRoom, LoopHasLinked
  <2>7. Linked'
    BY <2>2, <2>3 DEF Linked, AllLinked, ParticipantIsLinked
  <2> QED
    BY <2>4, <2>5, <2>6, <2>7, PartsNext
<1> QED
  BY <1>4, <1>5

\* A packet comes and the forwarding loop begins.
LEMMA MuxBeginStep ==
  ASSUME IInv, NEW s \in Streams, MuxRtpPacket(s)
  PROVE  IInv'
<1>1. TypeRest /\ Plugins /\ Links /\ Threads /\ Loops /\ Linked
  BY Parts
<1>2. /\ number' = [number EXCEPT ![s] = (@ + 1) % Modulus]
      /\ room' = IF plugins_ = <<>> THEN None
                 ELSE [op |-> "mux", stream |-> s, n |-> number[s], todo |-> plugins_]
      /\ UNCHANGED <<plugins_, joined, offered, links, active_, sets, notified, publish, failed>>
  BY DEF MuxRtpPacket
<1>3. number[s] \in Numbers /\ (number[s] + 1) % Modulus \in Numbers
  <2>1. number[s] \in Numbers
    BY <1>1 DEF TypeRest
  <2>2. number[s] + 1 \in Int
    <3>1. number[s] \in Int
      BY <2>1, NumberFacts
    <3> QED
      BY <3>1
  <2> QED
    BY <2>1, <2>2, ModRange
<1>4. plugins_ \in Seq(Streams)
  BY <1>1 DEF TypeRest
<1>5. room' \in Sections \cup {None} /\ (room' # None => room'.op = "mux" /\ room'.todo = plugins_ /\ plugins_ # <<>>)
  BY <1>2, <1>3, <1>4 DEF Sections
<1>6. TypeRest'
  <2>1. number' \in [Streams -> Numbers]
    BY <1>1, <1>2, <1>3 DEF TypeRest
  <2> QED
    BY <1>1, <1>2, <1>5, <2>1 DEF TypeRest, sets
<1>7. Plugins' /\ Links' /\ Threads' /\ Linked'
  BY <1>2, RoomStays
<1>8. Loops'
  BY <1>2, <1>5 DEF Loops, LoopIsInRoom, LoopHasLinked
<1> QED
  BY <1>6, <1>7, <1>8, PartsNext

\* No assert has failed: the claim about a failed one is empty.
LEMMA NothingFailed ==
  ASSUME failed' = None
  PROVE  ParticipantIsLinked'
BY NoneAssumption DEF ParticipantIsLinked, Failures

\* What one turn of the linking loop does to the two plugins.
LEMMA LinkNextLinks ==
  ASSUME IInv, LinkNext
  PROVE  LET s == room.stream
             p == Head(room.todo)
         IN  /\ s \in Range(plugins_) /\ p \in Range(plugins_) /\ s \in Streams /\ p \in Streams /\ s \in offered
             /\ Plugins' /\ Links'
             /\ \A a \in Streams, k \in 1..Slots :
                  video_switch_contexts_'[a][k] # video_switch_contexts_[a][k] =>
                    video_switch_contexts_'[a][k].prev = -1
             /\ \A a \in Streams \ {p, s} : extended_ssrc_vec_'[a] = extended_ssrc_vec_[a]
             /\ Range(extended_ssrc_vec_[p]) \ {None} \subseteq Range(extended_ssrc_vec_'[p]) \cup {s}
             /\ Range(extended_ssrc_vec_[s]) \ {None} \subseteq Range(extended_ssrc_vec_'[s]) \cup {p}
             /\ p # s /\ p \in offered /\ MaxParticipants <= Slots + 1 =>
                  s \in Range(extended_ssrc_vec_'[p]) /\ p \in Range(extended_ssrc_vec_'[s])
<1> DEFINE s == room.stream
           p == Head(room.todo)
           u == UpstreamSsrc(p)
           old == LinkToSsrc(extended_ssrc_vec_[p], video_switch_contexts_[p], s, s)
           new == LinkToSsrc(extended_ssrc_vec_[s], video_switch_contexts_[s], u, p)
<1>1. TypeRest /\ Plugins /\ Links /\ Threads /\ Loops /\ Linked
  BY Parts
<1>2. /\ room # None /\ room.op = "link"
      /\ UNCHANGED <<plugins_, joined, offered, active_, sets, number, publish, failed, inputs>>
      /\ p = s => UNCHANGED links
  BY DEF LinkNext
<1>3. room.todo \in Seq(Streams) /\ s \in Streams /\ room.thread \in NotifyThreads
  BY <1>1, <1>2 DEF TypeRest, Sections
<1>4. /\ room.todo # <<>> /\ Range(room.todo) \subseteq Range(plugins_) /\ s \in Range(plugins_)
      /\ notified[s][room.thread] = "link"
  BY <1>1, <1>2 DEF Loops, LoopIsInRoom, LoopHasLinked
<1>5. p \in Range(plugins_) /\ p \in Streams
  BY <1>3, <1>4, RangeTail
<1>6. s \in offered /\ UpstreamSsrc(s) = s /\ (u = p \/ u = None) /\ (p \in offered => u = p) /\ (u = p => p \in offered)
  BY <1>1, <1>3, <1>4, <1>5, NoneAssumption DEF Threads, ReadyIsOffered, UpstreamSsrc
<1>10. p # s => /\ extended_ssrc_vec_' = [extended_ssrc_vec_ EXCEPT ![p] = old[1], ![s] = new[1]]
                /\ video_switch_contexts_' = [video_switch_contexts_ EXCEPT ![p] = old[2], ![s] = new[2]]
  BY <1>6 DEF LinkNext
<1> HIDE DEF s, p, u
<1>7. /\ PluginOK(extended_ssrc_vec_[p], video_switch_contexts_[p]) /\ PluginOK(extended_ssrc_vec_[s], video_switch_contexts_[s])
      /\ extended_ssrc_vec_ \in [Streams -> Vectors]
      /\ video_switch_contexts_ \in [Streams -> [1..Slots -> Contexts \cup {None}]]
  BY <1>1, <1>3, <1>5 DEF Plugins
<1>8. CASE p = s
  <2>1. UNCHANGED links
    BY <1>2, <1>8
  <2>2. Plugins' /\ Links'
    BY <1>1, <1>2, <2>1 DEF Plugins, Links, NoLinkToRemoved, LinksToOthers, links
  <2> QED
    BY <1>3, <1>4, <1>5, <1>6, <1>8, <2>1, <2>2, Zenon DEF s, p, links
<1>9. CASE p # s
  <2>1. /\ PluginOK(old[1], old[2]) /\ DOMAIN old[1] = DOMAIN extended_ssrc_vec_[p]
        /\ Range(old[1]) \subseteq Range(extended_ssrc_vec_[p]) \cup {s, None}
        /\ Range(extended_ssrc_vec_[p]) \ {None} \subseteq Range(old[1]) \cup {s}
        /\ FreeSlots(UnlinkToSsrc(extended_ssrc_vec_[p], s)) # {} => s \in Range(old[1])
        /\ \A k \in 1..Slots : old[2][k] # video_switch_contexts_[p][k] => old[2][k].prev = -1
    <3>1. s \in {s, None}
      OBVIOUS
    <3>2. LinkedTo(extended_ssrc_vec_[p], video_switch_contexts_[p], s, old)
      BY <1>3, <1>7, <3>1, LinkIsRight
    <3> HIDE DEF old
    <3> QED
      BY <3>2, Zenon DEF LinkedTo
  <2>2. /\ PluginOK(new[1], new[2]) /\ DOMAIN new[1] = DOMAIN extended_ssrc_vec_[s]
        /\ Range(new[1]) \subseteq Range(extended_ssrc_vec_[s]) \cup {u, None}
        /\ Range(extended_ssrc_vec_[s]) \ {None} \subseteq Range(new[1]) \cup {u}
        /\ FreeSlots(UnlinkToSsrc(extended_ssrc_vec_[s], u)) # {} => u \in Range(new[1])
        /\ \A k \in 1..Slots : new[2][k] # video_switch_contexts_[s][k] => new[2][k].prev = -1
    <3>1. u \in {p, None}
      BY <1>6
    <3>2. LinkedTo(extended_ssrc_vec_[s], video_switch_contexts_[s], u, new)
      BY <1>5, <1>7, <3>1, LinkIsRight
    <3> HIDE DEF new
    <3> QED
      BY <3>2, Zenon DEF LinkedTo
  <2> HIDE DEF old, new
  <2>3. /\ extended_ssrc_vec_' = [extended_ssrc_vec_ EXCEPT ![p] = old[1], ![s] = new[1]]
        /\ video_switch_contexts_' = [video_switch_contexts_ EXCEPT ![p] = old[2], ![s] = new[2]]
    BY <1>9, <1>10 DEF old, new
  <2>4. /\ old[1] \in Vectors /\ new[1] \in Vectors
        /\ old[2] \in [1..Slots -> Contexts \cup {None}] /\ new[2] \in [1..Slots -> Contexts \cup {None}]
    BY <2>1, <2>2 DEF PluginOK
  <2>5. /\ extended_ssrc_vec_' \in [Streams -> Vectors]
        /\ video_switch_contexts_' \in [Streams -> [1..Slots -> Contexts \cup {None}]]
        /\ extended_ssrc_vec_'[p] = old[1] /\ extended_ssrc_vec_'[s] = new[1]
        /\ video_switch_contexts_'[p] = old[2] /\ video_switch_contexts_'[s] = new[2]
        /\ \A a \in Streams \ {p, s} : /\ extended_ssrc_vec_'[a] = extended_ssrc_vec_[a]
                                       /\ video_switch_contexts_'[a] = video_switch_contexts_[a]
    <3>1. extended_ssrc_vec_' \in [Streams -> Vectors]
      BY <1>7, <2>3, <2>4
    <3>2. video_switch_contexts_' \in [Streams -> [1..Slots -> Contexts \cup {None}]]
      BY <1>7, <2>3, <2>4
    <3>3. /\ extended_ssrc_vec_'[p] = old[1] /\ extended_ssrc_vec_'[s] = new[1]
          /\ \A a \in Streams \ {p, s} : extended_ssrc_vec_'[a] = extended_ssrc_vec_[a]
      BY <1>3, <1>5, <1>7, <1>9, <2>3
    <3>4. /\ video_switch_contexts_'[p] = old[2] /\ video_switch_contexts_'[s] = new[2]
          /\ \A a \in Streams \ {p, s} : video_switch_contexts_'[a] = video_switch_contexts_[a]
      BY <1>3, <1>5, <1>7, <1>9, <2>3
    <3> QED
      BY <3>1, <3>2, <3>3, <3>4
  <2>6. Plugins'
    <3> SUFFICES ASSUME NEW a \in Streams
                 PROVE  /\ DOMAIN extended_ssrc_vec_'[a] = IF a \in offered THEN 1..Slots ELSE {}
                        /\ PluginOK(extended_ssrc_vec_'[a], video_switch_contexts_'[a])
      BY <1>2, <2>5 DEF Plugins
    <3>1. /\ DOMAIN extended_ssrc_vec_[a] = IF a \in offered THEN 1..Slots ELSE {}
          /\ PluginOK(extended_ssrc_vec_[a], video_switch_contexts_[a])
      BY <1>1 DEF Plugins
    <3>2. CASE a = p
      BY <3>1, <3>2, <2>1, <2>5
    <3>3. CASE a = s
      BY <3>1, <3>3, <2>2, <2>5
    <3>4. CASE a # p /\ a # s
      BY <3>1, <3>4, <2>5
    <3> QED
      BY <3>2, <3>3, <3>4
  <2>7. Range(plugins_) \subseteq Streams
    BY <1>1 DEF TypeRest, Range
  <2>8. Links'
    <3>1. NoLinkToRemoved'
      BY <1>1, <1>2, <1>4, <1>5, <1>6, <2>1, <2>2, <2>5, <2>7 DEF Links, NoLinkToRemoved
    <3>2. LinksToOthers'
      BY <1>1, <1>2, <1>5, <1>6, <1>9, <2>1, <2>2, <2>5 DEF Links, LinksToOthers
    <3> QED
      BY <3>1, <3>2 DEF Links
  <2>9. ASSUME NEW a \in Streams, NEW k \in 1..Slots,
               video_switch_contexts_'[a][k] # video_switch_contexts_[a][k]
        PROVE  video_switch_contexts_'[a][k].prev = -1
    BY <2>1, <2>2, <2>5, <2>9
  <2>10. /\ Range(extended_ssrc_vec_[p]) \ {None} \subseteq Range(extended_ssrc_vec_'[p]) \cup {s}
         /\ Range(extended_ssrc_vec_[s]) \ {None} \subseteq Range(extended_ssrc_vec_'[s]) \cup {p}
    <3>1. None \notin Range(extended_ssrc_vec_[s]) \ {None}
      OBVIOUS
    <3> QED
      BY <1>6, <2>1, <2>2, <2>5, <3>1
  <2>11. ASSUME p \in offered, MaxParticipants <= Slots + 1
         PROVE  s \in Range(extended_ssrc_vec_'[p]) /\ p \in Range(extended_ssrc_vec_'[s])
    <3>1. IsFiniteSet(Range(plugins_)) /\ Cardinality(Range(plugins_)) <= Slots + 1
      <4>1. plugins_ \in Seq(Streams) /\ Len(plugins_) \in Nat /\ Len(plugins_) <= MaxParticipants
        BY <1>1 DEF TypeRest
      <4>2. IsFiniteSet(Range(plugins_)) /\ Cardinality(Range(plugins_)) <= Len(plugins_)
        BY <4>1, ParticipantsAreCounted
      <4>3. Cardinality(Range(plugins_)) \in Nat
        BY <4>2, FS_CardinalityType
      <4> QED
        BY <4>1, <4>2, <4>3, <2>11, ClassRoomAssumption
    <3>2. ASSUME NEW a \in Range(plugins_), NEW b \in Range(plugins_), a # b, a \in offered
          PROVE  FreeSlots(UnlinkToSsrc(extended_ssrc_vec_[a], b)) # {}
      <4>1. a \in Streams /\ extended_ssrc_vec_[a] \in Vectors /\ DOMAIN extended_ssrc_vec_[a] = 1..Slots
        BY <1>1, <2>7, <3>2 DEF Plugins
      <4>2. extended_ssrc_vec_[a] \in [1..Slots -> Streams \cup {None}]
        <5>1. CASE extended_ssrc_vec_[a] = <<>>
          BY <5>1, <4>1
        <5> QED
          BY <4>1, <5>1 DEF Vectors
      <4>3. \A j, k \in DOMAIN extended_ssrc_vec_[a] :
              j # k /\ extended_ssrc_vec_[a][j] # None => extended_ssrc_vec_[a][j] # extended_ssrc_vec_[a][k]
        BY <1>1, <4>1 DEF Plugins, PluginOK
      <4>4. Range(extended_ssrc_vec_[a]) \subseteq (Range(plugins_) \ {a}) \cup {None}
        BY <1>1, <4>1 DEF Links, NoLinkToRemoved, LinksToOthers
      <4> QED
        BY <3>1, <3>2, <4>2, <4>3, <4>4, SlotIsFree
    <3>3. s \in Range(old[1])
      BY <1>4, <1>5, <1>9, <2>1, <2>11, <3>2
    <3>4. p \in Range(new[1])
      BY <1>4, <1>5, <1>6, <1>9, <2>2, <2>11, <3>2
    <3> QED
      BY <2>5, <3>3, <3>4
  <2> QED
    BY <1>3, <1>4, <1>5, <1>6, <2>5, <2>6, <2>8, <2>9, <2>10, <2>11, Zenon DEF s, p
<1> QED
  BY <1>8, <1>9

\* One turn of the linking loop.  The last one tells the thread to go on, and then
\* the stream is linked with everybody whose READY was handled.
LEMMA LinkNextStep ==
  ASSUME IInv, failed = None, LinkNext
  PROVE  IInv'
<1> DEFINE t == room.thread
           p == Head(room.todo)
           vec == extended_ssrc_vec_
           P == Range(plugins_)
<1>1. TypeRest /\ Plugins /\ Links /\ Threads /\ Loops /\ Linked
  BY Parts
<1>0. PICK s \in Streams : s = room.stream
  BY LinkNextLinks
<1>2. /\ room # None /\ room.op = "link" /\ LinkAdvance
      /\ UNCHANGED <<plugins_, joined, offered, active_, sets, number, publish, failed, inputs>>
  BY DEF LinkNext
<1>3. /\ s \in P /\ p \in P /\ s \in Streams /\ p \in Streams /\ s \in offered
      /\ Plugins' /\ Links'
      /\ \A a \in Streams \ {p, s} : vec'[a] = vec[a]
      /\ Range(vec[p]) \ {None} \subseteq Range(vec'[p]) \cup {s}
      /\ Range(vec[s]) \ {None} \subseteq Range(vec'[s]) \cup {p}
      /\ p # s /\ p \in offered /\ MaxParticipants <= Slots + 1 => s \in Range(vec'[p]) /\ p \in Range(vec'[s])
  BY <1>0, LinkNextLinks
<1>4. /\ room \in [op : {"link"}, stream : Streams, thread : NotifyThreads, todo : Seq(Streams)]
      /\ t \in NotifyThreads /\ room.todo \in Seq(Streams) /\ room.todo # <<>> /\ Range(room.todo) \subseteq P
      /\ notified[s][t] = "link"
  <2>1. room \in [op : {"link"}, stream : Streams, thread : NotifyThreads, todo : Seq(Streams)]
    BY <1>1, <1>2 DEF TypeRest, Sections
  <2> QED
    BY <1>0, <1>1, <1>2, <2>1 DEF Loops, LoopIsInRoom, LoopHasLinked
<1>5. /\ Len(room.todo) = 1 => Range(room.todo) = {p}
      /\ Len(room.todo) # 1 => Tail(room.todo) # <<>>
      /\ Tail(room.todo) \in Seq(Streams) /\ Range(room.todo) = Range(Tail(room.todo)) \cup {p}
  BY <1>4, RangeTail
<1>6. P \subseteq Streams
  BY <1>1 DEF TypeRest, Range
<1>7. Len(room.todo) = 1 => room' = None /\ notified' = [notified EXCEPT ![s][t] = "activate"]
  BY <1>0, <1>2 DEF LinkAdvance
<1>8. Len(room.todo) # 1 => /\ room' = [room EXCEPT !.todo = Tail(room.todo)] /\ notified' = notified
                            /\ room' \in Sections /\ room'.op = "link"
                            /\ room'.stream = s /\ room'.thread = t /\ room'.todo = Tail(room.todo)
  BY <1>0, <1>2, <1>4, <1>5 DEF LinkAdvance, Sections
<1> HIDE DEF t, p
<1>9. Len(room.todo) = 1 =>
        /\ notified' \in [Streams -> [NotifyThreads -> {"no", "link", "activate", "done"}]]
        /\ notified'[s][t] = "activate"
        /\ \A q \in Streams, r \in NotifyThreads : <<q, r>> # <<s, t>> => notified'[q][r] = notified[q][r]
  BY <1>1, <1>3, <1>4, <1>7, NotifiedStep
<1>10. \A a \in Streams : a # s => (LinkedUp(a)' <=> LinkedUp(a))
  BY <1>8, <1>9 DEF LinkedUp
<1>11. LinkedUp(s) => LinkedUp(s)'
  BY <1>4, <1>8, <1>9 DEF LinkedUp
<1>12. TypeRest'
  BY <1>1, <1>2, <1>7, <1>8, <1>9 DEF TypeRest, sets
<1>13. Threads'
  <2>1. ReadyIsOffered'
    BY <1>1, <1>2, <1>3, <1>8, <1>9 DEF Threads, ReadyIsOffered
  <2>2. ActiveIsLinked'
    BY <1>1, <1>2, <1>10, <1>11 DEF Threads, ActiveIsLinked, TypeRest
  <2> QED
    BY <1>1, <1>2, <2>1, <2>2 DEF Threads, OnceInRoom
<1>14. ASSUME MaxParticipants <= Slots + 1, NEW a \in P, a # s, LinkedUp(a),
              a = p \/ (s \in Range(vec[a]) /\ a \in Range(vec[s]))
       PROVE  s \in Range(vec'[a]) /\ a \in Range(vec'[s])
  <2>1. a \in offered /\ a \in Streams
    BY <1>1, <1>6, <1>14 DEF Threads, ReadyIsOffered, LinkedUp
  <2>2. CASE a = p
    BY <1>3, <1>14, <2>1, <2>2
  <2>3. CASE a # p
    <3>1. s \in Range(vec'[a])
      BY <1>3, <1>14, <2>1, <2>3
    <3>2. a \in Range(vec'[s])
      BY <1>3, <1>14, <2>1, <2>3, NoneAssumption
    <3> QED
      BY <3>1, <3>2
  <2> QED
    BY <2>2, <2>3
<1>15. ASSUME MaxParticipants <= Slots + 1, NEW a \in P, a # s, a \notin Range(room.todo) \/ a = p, LinkedUp(a)
       PROVE  s \in Range(vec'[a]) /\ a \in Range(vec'[s])
  <2>1. a = p \/ (s \in Range(vec[a]) /\ a \in Range(vec[s]))
    BY <1>0, <1>1, <1>2, <1>15 DEF Loops, LoopHasLinked
  <2> QED
    BY <1>14, <1>15, <2>1
<1>16. Loops'
  <2>1. CASE Len(room.todo) = 1
    BY <2>1, <1>7 DEF Loops, LoopIsInRoom, LoopHasLinked
  <2>2. CASE Len(room.todo) # 1
    <3>1. LoopIsInRoom'
      BY <2>2, <1>2, <1>4, <1>5, <1>8 DEF LoopIsInRoom
    <3>2. ASSUME MaxParticipants <= Slots + 1, NEW a \in P \ (Range(Tail(room.todo)) \cup {s}), LinkedUp(a)'
          PROVE  s \in Range(vec'[a]) /\ a \in Range(vec'[s])
      BY <3>2, <1>5, <1>6, <1>10, <1>15
    <3>3. LoopHasLinked'
      BY <1>0, <2>2, <3>2, <1>2, <1>3, <1>4, <1>8 DEF LoopHasLinked
    <3> QED
      BY <3>1, <3>3 DEF Loops
  <2> QED
    BY <2>1, <2>2
<1>17. AllLinked'
  <2> SUFFICES ASSUME MaxParticipants <= Slots + 1, NEW a \in P, NEW b \in P, a # b, LinkedUp(a)', LinkedUp(b)'
               PROVE  b \in Range(vec'[a])
    BY <1>2 DEF AllLinked
  <2>1. LinkedUp(a) /\ LinkedUp(b) => b \in Range(vec[a]) /\ a \in Range(vec[b])
    BY <1>1 DEF Linked, AllLinked
  <2>2. CASE a # s /\ b # s
    <3>1. b \in Range(vec[a]) /\ b # None
      BY <2>1, <2>2, <1>6, <1>10, NoneAssumption
    <3> QED
      BY <3>1, <2>2, <1>3, <1>6
  <2>3. ASSUME NEW c \in P, c # s, LinkedUp(c)', LinkedUp(s)'
        PROVE  s \in Range(vec'[c]) /\ c \in Range(vec'[s])
    <3>1. LinkedUp(c)
      BY <2>3, <1>6, <1>10
    <3>2. CASE LinkedUp(s)
      <4>1. s \in Range(vec[c]) /\ c \in Range(vec[s])
        BY <3>1, <3>2, <2>3, <1>1, <1>2, <1>3 DEF Linked, AllLinked
      <4> QED
        BY <4>1, <3>1, <2>3, <1>14
    <3>3. CASE ~LinkedUp(s)
      <4>1. Len(room.todo) = 1
        BY <3>3, <2>3, <1>8 DEF LinkedUp
      <4> QED
        BY <4>1, <3>1, <2>3, <1>5, <1>15
    <3> QED
      BY <3>2, <3>3
  <2> QED
    BY <2>2, <2>3
<1>18. Linked'
  BY <1>2, <1>17, NothingFailed DEF Linked
<1> QED
  BY <1>3, <1>12, <1>13, <1>16, <1>18, PartsNext

\* What one turn of the forwarding loop does to the contexts: the one of the slot
\* that is linked to the packet's stream is rewritten, or none.
LEMMA MuxContexts ==
  ASSUME IInv, MuxForward
  PROVE  \/ UNCHANGED video_switch_contexts_
         \/ \E r \in Streams, k \in 1..Slots, n \in Numbers :
              /\ video_switch_contexts_[r][k] \in Contexts /\ Remembers(video_switch_contexts_[r][k])
              /\ video_switch_contexts_' =
                   [video_switch_contexts_ EXCEPT ![r][k] = RewriteRtpHeader(@, n)]
<1> DEFINE r == Head(room.todo)
           linked == {k \in DOMAIN extended_ssrc_vec_[r] : extended_ssrc_vec_[r][k] = room.stream}
           k == Min(linked)
<1>1. TypeRest /\ Plugins /\ Links /\ Threads /\ Loops /\ Linked
  BY Parts
<1>2. SUFFICES ASSUME ~UNCHANGED video_switch_contexts_
               PROVE  /\ r \in Streams /\ k \in 1..Slots /\ room.n \in Numbers
                      /\ video_switch_contexts_[r][k] \in Contexts /\ Remembers(video_switch_contexts_[r][k])
                      /\ video_switch_contexts_' =
                           [video_switch_contexts_ EXCEPT ![r][k] = RewriteRtpHeader(@, room.n)]
  BY Zenon
<1>3. /\ room # None /\ room.op = "mux" /\ linked # {}
      /\ video_switch_contexts_' = [video_switch_contexts_ EXCEPT ![r][k] = RewriteRtpHeader(@, room.n)]
  BY <1>2 DEF MuxForward
<1>4. room.n \in Numbers /\ room.stream \in Streams /\ room.todo \in Seq(Streams) /\ room.todo # <<>>
  BY <1>1, <1>3 DEF TypeRest, Sections, Loops, LoopIsInRoom
<1>5. r \in Streams
  BY <1>4, RangeTail
<1>6. PluginOK(extended_ssrc_vec_[r], video_switch_contexts_[r])
  BY <1>1, <1>5 DEF Plugins
<1>7. linked \in SUBSET Nat /\ linked \subseteq 1..Slots
  BY <1>6, VectorDomain DEF PluginOK
<1>8. k \in linked
  BY <1>3, <1>7, MinIsMember
<1> HIDE DEF k, r
<1>9. k \in 1..Slots /\ k \in DOMAIN extended_ssrc_vec_[r] /\ extended_ssrc_vec_[r][k] # None
  BY <1>4, <1>7, <1>8, NoneAssumption
<1>10. video_switch_contexts_[r][k] \in Contexts /\ Remembers(video_switch_contexts_[r][k])
  BY <1>6, <1>9 DEF PluginOK
<1> QED
  BY <1>3, <1>4, <1>5, <1>9, <1>10 DEF k, r

\* One turn of the forwarding loop.
LEMMA MuxForwardStep ==
  ASSUME IInv, failed = None, MuxForward
  PROVE  IInv'
<1>1. TypeRest /\ Plugins /\ Links /\ Threads /\ Loops /\ Linked
  BY Parts
<1> DEFINE r == Head(room.todo)
<1>2. /\ room # None /\ room.op = "mux"
      /\ room' = IF Len(room.todo) = 1 THEN None ELSE [room EXCEPT !.todo = Tail(room.todo)]
      /\ UNCHANGED <<plugins_, joined, offered, extended_ssrc_vec_, active_, sets, notified, number,
                     publish, inputs>>
  BY DEF MuxForward
<1>3. /\ room \in [op : {"mux"}, stream : Streams, n : Numbers, todo : Seq(Streams)]
      /\ room.todo \in Seq(Streams) /\ room.todo # <<>> /\ Range(room.todo) \subseteq Range(plugins_)
      /\ room.stream \in Streams
  BY <1>1, <1>2 DEF TypeRest, Sections, Loops, LoopIsInRoom
<1>4. /\ Len(room.todo) # 1 => Tail(room.todo) # <<>>
      /\ Tail(room.todo) \in Seq(Streams) /\ Range(room.todo) = Range(Tail(room.todo)) \cup {r}
      /\ r \in Streams /\ r \in Range(plugins_)
  BY <1>3, RangeTail
<1>5. room' \in Sections \cup {None} /\ (room' # None => room'.op = "mux" /\ room'.todo = Tail(room.todo) /\ Tail(room.todo) # <<>>)
  BY <1>2, <1>3, <1>4 DEF Sections
<1>6. failed' = None \/ (/\ failed' = <<"not_linked", room.stream>> /\ r # room.stream /\ r \in active_
                         /\ room.stream \notin Range(extended_ssrc_vec_[r]))
  BY DEF MuxForward, should_forward, Range
<1>7. TypeRest'
  <2>1. failed' \in Failures \cup {None}
    BY <1>3, <1>6 DEF Failures
  <2> QED
    BY <1>1, <1>2, <1>5, <2>1 DEF TypeRest, sets
<1>8. Plugins'
  <2>1. CASE UNCHANGED video_switch_contexts_
    BY <1>1, <1>2, <2>1 DEF Plugins
  <2>2. ASSUME NEW q \in Streams, NEW k \in 1..Slots, NEW n \in Numbers,
               video_switch_contexts_[q][k] \in Contexts, Remembers(video_switch_contexts_[q][k]),
               video_switch_contexts_' = [video_switch_contexts_ EXCEPT ![q][k] = RewriteRtpHeader(@, n)]
        PROVE  Plugins'
    <3> DEFINE c == video_switch_contexts_[q][k]
               d == RewriteRtpHeader(c, n)
    <3>1. d \in Contexts /\ d.source = c.source /\ Remembers(d)
      BY <2>2, RewriteIsRight
    <3> HIDE DEF d
    <3>2. /\ video_switch_contexts_' = [video_switch_contexts_ EXCEPT ![q][k] = d]
          /\ video_switch_contexts_ \in [Streams -> [1..Slots -> Contexts \cup {None}]]
      BY <1>1, <2>2 DEF Plugins, d
    <3>3. /\ video_switch_contexts_' \in [Streams -> [1..Slots -> Contexts \cup {None}]]
          /\ \A a \in Streams \ {q} : video_switch_contexts_'[a] = video_switch_contexts_[a]
          /\ \A j \in 1..Slots : video_switch_contexts_'[q][j] = IF j = k THEN d ELSE video_switch_contexts_[q][j]
      BY <3>1, <3>2
    <3>4. PluginOK(extended_ssrc_vec_[q], video_switch_contexts_[q])
      BY <1>1 DEF Plugins
    <3>5. DOMAIN extended_ssrc_vec_[q] \subseteq 1..Slots
      BY <3>4, VectorDomain DEF PluginOK
    <3>6. d # None
      BY <3>1, NoneAssumption
    <3>7. PluginOK(extended_ssrc_vec_[q], video_switch_contexts_'[q])
      <4>1. \A j \in DOMAIN extended_ssrc_vec_[q] : extended_ssrc_vec_[q][j] # None =>
              /\ video_switch_contexts_'[q][j] # None
              /\ video_switch_contexts_'[q][j].source = extended_ssrc_vec_[q][j]
        BY <3>1, <3>3, <3>4, <3>5, <3>6 DEF PluginOK
      <4>2. \A j \in 1..Slots : video_switch_contexts_'[q][j] # None => Remembers(video_switch_contexts_'[q][j])
        BY <3>1, <3>3, <3>4 DEF PluginOK
      <4>3. video_switch_contexts_'[q] \in [1..Slots -> Contexts \cup {None}]
        BY <3>3
      <4> QED
        BY <3>4, <4>1, <4>2, <4>3 DEF PluginOK
    <3> QED
      BY <1>1, <1>2, <3>3, <3>7 DEF Plugins
  <2> QED
    BY <2>1, <2>2, MuxContexts
<1>9. Links' /\ Threads'
  BY <1>1, <1>2 DEF Links, NoLinkToRemoved, LinksToOthers, Threads, ReadyIsOffered, ActiveIsLinked, OnceInRoom, LinkedUp
<1>10. Loops'
  BY <1>2, <1>3, <1>4, <1>5 DEF Loops, LoopIsInRoom, LoopHasLinked
<1>11. Linked'
  <2>1. AllLinked'
    <3>1. \A a \in Streams : LinkedUp(a)' <=> LinkedUp(a)
      BY <1>2 DEF LinkedUp
    <3>2. Range(plugins_) \subseteq Streams
      BY <1>1 DEF TypeRest, Range
    <3> QED
      BY <1>1, <1>2, <3>1, <3>2 DEF Linked, AllLinked
  <2>2. ParticipantIsLinked'
    <3>1. CASE failed' = None
      BY <3>1, NothingFailed
    <3>2. CASE failed' # None
      <4>1. /\ failed' = <<"not_linked", room.stream>> /\ r # room.stream /\ LinkedUp(r)
            /\ room.stream \notin Range(extended_ssrc_vec_[r])
        BY <1>1, <1>6, <3>2 DEF Threads, ActiveIsLinked
      <4>2. MaxParticipants <= Slots + 1 => room.stream \notin Range(plugins_) \/ ~LinkedUp(room.stream)
        BY <1>1, <1>4, <4>1 DEF Linked, AllLinked
      <4> HIDE DEF r
      <4> QED
        BY <1>2, <4>1, <4>2 DEF ParticipantIsLinked, LinkedUp
    <3> QED
      BY <3>1, <3>2
  <2> QED
    BY <2>1, <2>2 DEF Linked
<1> QED
  BY <1>7, <1>8, <1>9, <1>10, <1>11, PartsNext

-------------------------------------------------------------------------------
(* The theorems.                                                             *)

\* A room without participants.
LEMMA InitHolds == Init => IInv
<1> SUFFICES ASSUME Init PROVE IInv
  OBVIOUS
<1>1. /\ plugins_ = <<>> /\ joined = {} /\ offered = {}
      /\ extended_ssrc_vec_ = [s \in Streams |-> <<>>]
      /\ video_switch_contexts_ = [s \in Streams |-> [k \in 1..Slots |-> None]]
      /\ active_ = {} /\ published_streams_ = {} /\ master_streams_ = {}
      /\ notified = [s \in Streams |-> [t \in NotifyThreads |-> "no"]]
      /\ number = [s \in Streams |-> 0]
      /\ room = None /\ publish = None /\ failed = None
  BY DEF Init
<1>2. Range(plugins_) = {}
  BY <1>1 DEF Range
<1>3. TypeRest
  BY <1>1, NumberFacts, ClassRoomAssumption DEF TypeRest
<1>4. ASSUME NEW s \in Streams
      PROVE  /\ extended_ssrc_vec_[s] = <<>> /\ DOMAIN extended_ssrc_vec_[s] = {}
             /\ Range(extended_ssrc_vec_[s]) = {}
             /\ PluginOK(extended_ssrc_vec_[s], video_switch_contexts_[s])
  <2>1. extended_ssrc_vec_[s] = <<>> /\ DOMAIN extended_ssrc_vec_[s] = {}
    BY <1>1
  <2>2. video_switch_contexts_[s] = [k \in 1..Slots |-> None]
    BY <1>1
  <2> QED
    BY <2>1, <2>2 DEF PluginOK, Vectors, Range
<1>5. Plugins
  BY <1>1, <1>4 DEF Plugins, Vectors
<1>6. Links
  BY <1>1, <1>2, <1>4 DEF Links, NoLinkToRemoved, LinksToOthers
<1>7. Threads
  BY <1>1 DEF Threads, ReadyIsOffered, ActiveIsLinked, OnceInRoom
<1>8. Loops
  BY <1>1 DEF Loops, LoopIsInRoom, LoopHasLinked
<1>9. Linked
  BY <1>1, <1>2, NoneAssumption DEF Linked, AllLinked, ParticipantIsLinked, Failures
<1> QED
  BY <1>3, <1>5, <1>6, <1>7, <1>8, <1>9, Parts

\* Every step keeps the invariant.
LEMMA NextHolds == IInv /\ [Next]_vars => IInv'
<1> SUFFICES ASSUME IInv, [Next]_vars PROVE IInv'
  OBVIOUS
<1>1. CASE UNCHANGED vars
  <2>1. TypeRest /\ Plugins /\ Links /\ Threads /\ Loops /\ Linked
    BY Parts
  <2>2. UNCHANGED <<plugins_, joined, offered, active_, notified, number, room, publish, failed>> /\ UNCHANGED sets /\ UNCHANGED links
    BY <1>1 DEF vars
  <2>3. Plugins' /\ Links' /\ Threads' /\ Linked'
    BY <2>2, RoomStays
  <2>4. TypeRest' /\ Loops'
    BY <2>1, <2>2 DEF TypeRest, Loops, LoopIsInRoom, LoopHasLinked, LinkedUp, sets, links
  <2> QED
    BY <2>3, <2>4, PartsNext
<1>2. CASE Next
  <2> USE <1>2
  <2>1. failed = None
    BY DEF Next
  <2>2. ASSUME NEW s \in Streams, AddParticipant(s) \/ RemoveParticipant(s) \/ MuxRtpPacket(s)
        PROVE  IInv'
    BY <2>2, AddParticipantStep, RemoveParticipantStep, MuxBeginStep
  <2>3. ASSUME NEW s \in Streams, NEW first \in FirstNumbers, ProcessOffer(s, first)
        PROVE  IInv'
    BY <2>3, ProcessOfferStep
  <2>4. ASSUME NEW s \in Streams, NEW t \in NotifyThreads,
               \/ RequestKeyFrameFromAllParticipants(s, t)
               \/ LinkSsrcsToParticipants(s, t)
               \/ SetActive(s, t)
        PROVE  IInv'
    BY <2>1, <2>4, RequestStep, LinkBeginStep, SetActiveStep
  <2>5. ASSUME NEW ids \in PublishRequests, PublishStreams(ids)
        PROVE  IInv'
    BY <2>5, RolesStep
  <2>6. CASE AddRole \/ RemoveRole \/ PublishFinish
    BY <2>6, RolesStep
  <2>7. CASE LinkNext
    BY <2>1, <2>7, LinkNextStep
  <2>8. CASE MuxForward
    BY <2>1, <2>8, MuxForwardStep
  <2> QED
    BY <2>2, <2>3, <2>4, <2>5, <2>6, <2>7, <2>8 DEF Next, InSection
<1> QED
  BY <1>1, <1>2

\* The inductive invariant.
THEOREM Invariance == Spec => []IInv
<1>1. Init => IInv
  BY InitHolds
<1>2. IInv /\ [Next]_vars => IInv'
  BY NextHolds
<1> QED
  BY <1>1, <1>2, PTL DEF Spec

\* LinkToSsrc, UnlinkToSsrc and the linking loop keep slots and contexts consistent,
\* with any number of participants and whatever thread notifies READY, and twice.
THEOREM LinksStayConsistent == Spec => []LinksAreConsistent
<1>1. IInv => LinksAreConsistent
  BY DEF IInv
<1> QED
  BY <1>1, Invariance, PTL

\* The assert of RewriteRtpHeader fails only for a stream that has left or whose READY
\* is still being handled, if there are slots for all participants but one.
THEOREM ParticipantsAreLinked == Spec => []ParticipantIsLinked
<1>1. IInv => ParticipantIsLinked
  BY DEF IInv
<1> QED
  BY <1>1, Invariance, PTL

\* The numbers a slot sends go on, whatever modulus, gap and packets.
LEMMA StepContinues ==
  ASSUME IInv, [Next]_vars, NEW s \in Streams, NEW k \in 1..Slots
  PROVE  Continues(video_switch_contexts_[s][k], video_switch_contexts_'[s][k])
<1> DEFINE c == video_switch_contexts_[s][k]
           d == video_switch_contexts_'[s][k]
<1>1. CASE UNCHANGED video_switch_contexts_
  BY <1>1 DEF Continues, Forwarded
<1>2. CASE LinkNext
  <2>1. d # c => d.prev = -1
    BY <1>2, LinkNextLinks
  <2> QED
    BY <2>1 DEF Continues, Forwarded
<1>3. CASE MuxForward
  <2> SUFFICES ASSUME ~UNCHANGED video_switch_contexts_ PROVE Continues(c, d)
    BY <1>1
  <2>1. PICK r \in Streams, j \in 1..Slots, n \in Numbers :
          /\ video_switch_contexts_[r][j] \in Contexts /\ Remembers(video_switch_contexts_[r][j])
          /\ video_switch_contexts_' = [video_switch_contexts_ EXCEPT ![r][j] = RewriteRtpHeader(@, n)]
    BY <1>3, MuxContexts
  <2>2. video_switch_contexts_ \in [Streams -> [1..Slots -> Contexts \cup {None}]]
    BY Parts DEF Plugins
  <2> DEFINE new == RewriteRtpHeader(video_switch_contexts_[r][j], n)
  <2>3. video_switch_contexts_' = [video_switch_contexts_ EXCEPT ![r][j] = new]
    BY <2>1
  <2>4. CASE r = s /\ j = k
    <3>1. c \in Contexts /\ Remembers(c) /\ new = RewriteRtpHeader(c, n)
      BY <2>1, <2>4
    <3>2. /\ c.prev = -1 /\ c.used => new.ts = (c.ts + Gap) % Modulus
          /\ c.prev # -1 /\ c.base_ts # MinusOne => new.ts = (c.ts + (new.prev - c.prev)) % Modulus
          /\ c.prev # -1 => new.seq = (c.seq + (new.prev - c.prev)) % Modulus
      BY <3>1, RewriteIsRight
    <3> HIDE DEF new
    <3>3. d = new
      BY <2>2, <2>3, <2>4
    <3> HIDE DEF c, d
    <3> QED
      BY <3>2, <3>3, Zenon DEF Continues
  <2>5. CASE ~(r = s /\ j = k)
    <3> HIDE DEF new
    <3>1. d = c
      BY <2>2, <2>3, <2>5
    <3> QED
      BY <3>1 DEF Continues, Forwarded
  <2> QED
    BY <2>4, <2>5
<1>4. ASSUME ~LinkNext, ~MuxForward
      PROVE  UNCHANGED video_switch_contexts_
  BY <1>4 DEF Next, InSection, vars, links, AddParticipant, RemoveParticipant, MuxRtpPacket, ProcessOffer,
       RequestKeyFrameFromAllParticipants, LinkSsrcsToParticipants, SetActive, PublishStreams,
       AddRole, RemoveRole, PublishFinish
<1> QED
  BY <1>1, <1>2, <1>3, <1>4

\* Across a change of the slot's source the timestamps go on by Gap, and within one
\* source timestamps and sequence numbers by what the source's own went.
THEOREM NumbersGoOn == Spec => NumbersContinue
<1>1. IInv /\ [Next]_vars => \A s \in Streams, k \in 1..Slots :
        Continues(video_switch_contexts_[s][k], video_switch_contexts_'[s][k])
  BY StepContinues
<1> QED
  BY <1>1, Invariance, PTL DEF Spec, NumbersContinue
===============================================================================
