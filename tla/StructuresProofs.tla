---------------------------- MODULE StructuresProofs ----------------------------
(***************************************************************************)
(* Proofs about the data structures that have a mutex of their own, for    *)
(* every length of the queues, every size of the number spaces and any     *)
(* number of packets, sessions and callers.                                *)
(***************************************************************************)
EXTENDS MCStructures, FiniteSetTheorems, SequenceTheorems, WellFoundedInduction, TLAPS

-------------------------------------------------------------------------------
(* What all structures need.                                                 *)

\* A set of numbers that is not empty has a least one.
LEMMA LeastOf ==
  ASSUME NEW S \in SUBSET Nat, S # {}
  PROVE  Min(S) \in S /\ \A y \in S : Min(S) <= y
<1>1. PICK x \in S : \A y \in S : ~ (<<y, x>> \in OpToRel(<, Nat))
  BY NatLessThanWellFounded, WFMin
<1>2. ASSUME NEW y \in S PROVE x <= y
  <2>1. y < x => <<y, x>> \in {ss \in Nat \X Nat : ss[1] < ss[2]}
    OBVIOUS
  <2>2. y < x => <<y, x>> \in OpToRel(<, Nat)
    BY <2>1, Zenon DEF OpToRel
  <2>3. ~ (y < x)
    BY <2>2, <1>1, Zenon
  <2> QED
    BY <2>3
<1> QED
  BY <1>2 DEF Min

\* A bounded set of numbers that is not empty has a greatest one.
LEMMA GreatestOf ==
  ASSUME NEW N \in Nat, NEW S \in SUBSET (0..N), S # {}
  PROVE  \E j \in S : \A k \in S : k <= j
<1> DEFINE L == {l \in 0..N : N - l \in S}
<1>1. PICK s \in S : s \in 0..N
  OBVIOUS
<1>2. L \in SUBSET Nat /\ N - s \in L
  BY <1>1
<1>3. Min(L) \in L /\ \A y \in L : Min(L) <= y
  BY <1>2, LeastOf
<1>4. PICK l \in L : \A y \in L : l <= y
  BY <1>3, Zenon
<1>5. ASSUME NEW k \in S PROVE k <= N - l
  <2>1. k \in 0..N /\ N - k \in 0..N /\ N - (N - k) = k
    OBVIOUS
  <2>2. N - k \in L
    BY <2>1
  <2>3. l <= N - k /\ l \in 0..N
    BY <1>4, <2>2
  <2> QED
    BY <2>1, <2>3
<1> QED
  BY <1>5

\* The numbers up to n are n numbers.
LEMMA UpTo == ASSUME NEW n \in Nat PROVE IsFiniteSet(1..n) /\ Cardinality(1..n) = n
<1>1. IsFiniteSet(1..n) /\ Cardinality(1..n) = IF 1 > n THEN 0 ELSE n - 1 + 1
  BY FS_Interval
<1> QED
  BY <1>1

-------------------------------------------------------------------------------
(* SessionInfo.                                                              *)

\* The objects that are shown or held were made, and the times are past ones.
MadeOnly ==
  /\ session_vector \in Seq(Infos) /\ Len(session_vector) <= MaxSave
  /\ \A k \in 1..Len(session_vector) : /\ status[session_vector[k]] # "none"
                                       /\ session_id[session_vector[k]] \in Ids
  /\ \A c \in Callers : held[c] # NULL => status[held[c]] # "none"
  /\ \A o \in Infos : status[o] = "none" => stream_map[o] = [st \in Streams |-> "none"]
  /\ \A o \in Infos : create_time[o] <= now

Live == {o \in Infos : status[o] = "live"}

VectorInv == TypeOK /\ MadeOnly /\ ShownInOrder /\ IdsAreUnique /\ CountsNeverRemoved /\ IsFiniteSet(Live)

\* A bounded sequence.
LEMMA Bounded == BoundedSeq(Infos, MaxSave) = {q \in Seq(Infos) : Len(q) <= MaxSave}
<1>1. MaxSave \in Nat
  BY SessionInfoAssumption
<1>2. ASSUME NEW q \in BoundedSeq(Infos, MaxSave) PROVE q \in Seq(Infos) /\ Len(q) <= MaxSave
  <2>1. PICK m \in 0..MaxSave : q \in [1..m -> Infos]
    BY DEF BoundedSeq, SeqOf
  <2> QED
    BY <2>1, <1>1
<1>3. ASSUME NEW q \in Seq(Infos), Len(q) <= MaxSave PROVE q \in BoundedSeq(Infos, MaxSave)
  <2>1. q \in [1..Len(q) -> Infos] /\ Len(q) \in 0..MaxSave
    BY <1>1, <1>3, LenProperties
  <2> QED
    BY <2>1 DEF BoundedSeq, SeqOf
<1> QED
  BY <1>2, <1>3

\* GetSessionInfoById finds the entry with the id, if there is one, now ...
LEMMA Found ==
  ASSUME session_vector \in Seq(Infos), NEW s \in Ids
  PROVE  \/ /\ GetSessionInfoById(s) = NULL
            /\ \A k \in 1..Len(session_vector) : session_id[session_vector[k]] # s
         \/ \E k \in 1..Len(session_vector) : /\ GetSessionInfoById(s) = session_vector[k]
                                              /\ session_id[session_vector[k]] = s
<1> DEFINE I == {k \in DOMAIN session_vector : session_id[session_vector[k]] = s}
<1>1. GetSessionInfoById(s) = IF I = {} THEN NULL ELSE session_vector[Min(I)]
  BY Zenon DEF GetSessionInfoById
<1>2. I \in SUBSET Nat /\ DOMAIN session_vector = 1..Len(session_vector)
  OBVIOUS
<1>3. I # {} => Min(I) \in I
  BY <1>2, LeastOf, Zenon
<1>4. CASE I = {}
  BY <1>1, <1>2, <1>4, Zenon
<1>5. CASE I # {}
  <2>1. GetSessionInfoById(s) = session_vector[Min(I)]
    BY <1>1, <1>5, Zenon
  <2> QED
    BY <2>1, <1>2, <1>3, <1>5, Zenon
<1> QED
  BY <1>4, <1>5

\* ... and after a step.
LEMMA FoundNext ==
  ASSUME session_vector' \in Seq(Infos), NEW s \in Ids
  PROVE  \/ /\ GetSessionInfoById(s)' = NULL
            /\ \A k \in 1..Len(session_vector') : session_id'[session_vector'[k]] # s
         \/ \E k \in 1..Len(session_vector') : /\ GetSessionInfoById(s)' = session_vector'[k]
                                               /\ session_id'[session_vector'[k]] = s
<1> DEFINE I == {k \in DOMAIN session_vector' : session_id'[session_vector'[k]] = s}
<1>1. GetSessionInfoById(s)' = IF I = {} THEN NULL ELSE session_vector'[Min(I)]
  BY Zenon DEF GetSessionInfoById
<1>2. I \in SUBSET Nat /\ DOMAIN session_vector' = 1..Len(session_vector')
  OBVIOUS
<1>3. I # {} => Min(I) \in I
  BY <1>2, LeastOf, Zenon
<1>4. CASE I = {}
  BY <1>1, <1>2, <1>4, Zenon
<1>5. CASE I # {}
  <2>1. GetSessionInfoById(s)' = session_vector'[Min(I)]
    BY <1>1, <1>5, Zenon
  <2> QED
    BY <2>1, <1>2, <1>3, <1>5, Zenon
<1> QED
  BY <1>4, <1>5

LEMMA VectorInit == Init => VectorInv
<1> SUFFICES ASSUME Init PROVE VectorInv
  OBVIOUS
<1>1. MaxSave \in Nat \ {0} /\ MaxTime \in Nat
  BY SessionInfoAssumption
<1>2. TypeOK
  BY <1>1, Bounded DEF Init, TypeOK
<1>3. MadeOnly
  BY <1>1 DEF Init, MadeOnly
<1>4. Live = {}
  BY DEF Init, Live
<1>5. CountsNeverRemoved /\ IsFiniteSet(Live)
  BY <1>4, FS_EmptySet DEF Init, CountsNeverRemoved, Live
<1> QED
  BY <1>2, <1>3, <1>5 DEF Init, VectorInv, ShownInOrder, IdsAreUnique

\* MakeRoom keeps the front of the vector.
LEMMA Room ==
  ASSUME NEW q \in Seq(Infos), Len(q) <= MaxSave
  PROVE  /\ MakeRoom(q) \in Seq(Infos) /\ Len(MakeRoom(q)) <= MaxSave - 1
         /\ Len(MakeRoom(q)) = (IF Len(q) < MaxSave THEN Len(q) ELSE MaxSave - 1)
         /\ Len(MakeRoom(q)) <= Len(q)
         /\ \A k \in 1..Len(MakeRoom(q)) : MakeRoom(q)[k] = q[k]
<1>1. MaxSave \in Nat \ {0} /\ Len(q) \in Nat
  BY SessionInfoAssumption
<1>2. CASE Len(q) < MaxSave
  BY <1>1, <1>2 DEF MakeRoom
<1>3. CASE ~(Len(q) < MaxSave)
  <2>1. MakeRoom(q) = SubSeq(q, 1, MaxSave - 1)
    BY <1>3 DEF MakeRoom
  <2>2. \A i \in 1..(MaxSave - 1) : q[i] \in Infos
    BY <1>1, <1>3
  <2>3. /\ SubSeq(q, 1, MaxSave - 1) \in Seq(Infos)
        /\ Len(SubSeq(q, 1, MaxSave - 1)) = MaxSave - 1
        /\ \A i \in 1..(MaxSave - 1) : SubSeq(q, 1, MaxSave - 1)[i] = q[i]
    BY <1>1, <1>3, <2>2, SubSeqProperties
  <2> QED
    BY <2>1, <2>3, <1>1, <1>3
<1> QED
  BY <1>2, <1>3

\* A vector with a new entry in front.
LEMMA InFront ==
  ASSUME NEW o \in Infos, NEW q \in Seq(Infos)
  PROVE  /\ <<o>> \o q \in Seq(Infos) /\ Len(<<o>> \o q) = Len(q) + 1
         /\ DOMAIN (<<o>> \o q) = 1..(Len(q) + 1)
         /\ (<<o>> \o q)[1] = o /\ \A k \in 2..(Len(q) + 1) : (<<o>> \o q)[k] = q[k - 1]
OBVIOUS

\* AddSession puts the newest of the live sessions in front.
LEMMA AddKeeps ==
  ASSUME VectorInv, NEW s \in Ids, AddSession(s)
  PROVE  VectorInv'
<1> DEFINE free == {x \in Infos : status[x] = "none"}
           o == CHOOSE x \in free : TRUE
           q == MakeRoom(session_vector)
<1>1. /\ o \in Infos /\ status[o] = "none" /\ GetSessionInfoById(s) = NULL
      /\ session_vector' = <<o>> \o q
      /\ session_id' = [session_id EXCEPT ![o] = s]
      /\ status' = [status EXCEPT ![o] = "live"]
      /\ create_time' = [create_time EXCEPT ![o] = now]
      /\ current_session_count' = current_session_count + 1
      /\ total_session_count' = total_session_count + 1
      /\ UNCHANGED <<destroyed_time, stream_map, held, now>>
  BY DEF AddSession, NewSession
<1> HIDE DEF o, q
<1>2. /\ q \in Seq(Infos) /\ Len(q) \in Nat /\ Len(q) <= MaxSave - 1 /\ Len(q) <= Len(session_vector)
      /\ \A k \in 1..Len(q) : q[k] = session_vector[k] /\ q[k] \in Infos
      /\ session_vector \in Seq(Infos) /\ DOMAIN session_vector = 1..Len(session_vector)
      /\ Len(session_vector) \in Nat /\ MaxSave \in Nat \ {0} /\ MaxTime \in Nat
  BY Room, SessionInfoAssumption DEF VectorInv, MadeOnly, q
<1>3. /\ session_vector' \in Seq(Infos) /\ Len(session_vector') = Len(q) + 1
      /\ DOMAIN session_vector' = 1..(Len(q) + 1)
      /\ session_vector'[1] = o
      /\ \A k \in 2..(Len(q) + 1) : session_vector'[k] = session_vector[k - 1] /\ k - 1 \in 1..Len(session_vector)
  <2>1. /\ session_vector' \in Seq(Infos) /\ Len(session_vector') = Len(q) + 1
        /\ DOMAIN session_vector' = 1..(Len(q) + 1)
        /\ session_vector'[1] = o
        /\ \A k \in 2..(Len(q) + 1) : session_vector'[k] = q[k - 1]
    BY <1>1, <1>2, InFront
  <2> QED
    BY <2>1, <1>2
<1>4. /\ status \in [Infos -> {"none", "live", "destroyed"}] /\ session_id \in [Infos -> Ids \cup {NULL}]
      /\ create_time \in [Infos -> 0..MaxTime] /\ now \in 0..MaxTime
      /\ held \in [Callers -> Infos \cup {NULL}]
      /\ current_session_count \in Nat /\ total_session_count \in Nat
  BY DEF VectorInv, TypeOK
<1>5. \A k \in 1..Len(session_vector) : session_vector[k] # o /\ session_vector[k] \in Infos
  BY <1>1, <1>2 DEF VectorInv, MadeOnly
<1>6. MadeOnly'
  <2>1. \A k \in 1..Len(session_vector') : status'[session_vector'[k]] # "none" /\ session_id'[session_vector'[k]] \in Ids
    BY <1>1, <1>2, <1>3, <1>4, <1>5 DEF VectorInv, MadeOnly
  <2>2. \A c \in Callers : held'[c] # NULL => status'[held'[c]] # "none"
    BY <1>1, <1>4, SessionInfoAssumption DEF VectorInv, MadeOnly
  <2>3. \A x \in Infos : status'[x] = "none" => stream_map'[x] = [st \in Streams |-> "none"]
    BY <1>1, <1>4 DEF VectorInv, MadeOnly
  <2>4. \A x \in Infos : create_time'[x] <= now'
    BY <1>1, <1>2, <1>4 DEF VectorInv, MadeOnly
  <2>5. session_vector' \in Seq(Infos) /\ Len(session_vector') <= MaxSave
    BY <1>2, <1>3
  <2> QED
    BY <2>1, <2>2, <2>3, <2>4, <2>5, Zenon DEF MadeOnly
<1>7. TypeOK'
  BY <1>1, <1>2, <1>3, <1>4, Bounded DEF VectorInv, TypeOK
<1>8. ShownInOrder'
  <2> SUFFICES ASSUME NEW m \in 1..(Len(q) + 1), NEW n \in 1..(Len(q) + 1), m < n
               PROVE  LET a == session_vector'[m]
                          b == session_vector'[n]
                      IN  \/ status'[a] = "live" /\ status'[b] = "destroyed"
                          \/ status'[a] = "live" /\ status'[b] = "live" /\ create_time'[a] >= create_time'[b]
                          \/ /\ status'[a] = "destroyed" /\ status'[b] = "destroyed"
                             /\ destroyed_time'[a] >= destroyed_time'[b]
    BY <1>3 DEF ShownInOrder
  <2>1. n \in 2..(Len(q) + 1) /\ session_vector'[n] = session_vector[n - 1] /\ n - 1 \in 1..Len(session_vector)
    BY <1>2, <1>3
  <2>2. CASE m = 1
    <3> DEFINE b == session_vector[n - 1]
    <3>1. b \in Infos /\ b # o /\ status[b] \in {"live", "destroyed"} /\ create_time[b] <= now
      BY <2>1, <1>4, <1>5 DEF VectorInv, MadeOnly
    <3>2. status'[o] = "live" /\ create_time'[o] = now /\ status'[b] = status[b] /\ create_time'[b] = create_time[b]
      BY <3>1, <1>1, <1>4
    <3> QED
      BY <2>1, <2>2, <3>1, <3>2, <1>3, <1>4
  <2>3. CASE m # 1
    <3>1. session_vector'[m] = session_vector[m - 1] /\ m - 1 \in 1..Len(session_vector) /\ m - 1 < n - 1
      BY <2>3, <1>2, <1>3
    <3> DEFINE a == session_vector[m - 1]
               b == session_vector[n - 1]
    <3>2. a \in Infos /\ b \in Infos /\ a # o /\ b # o
      BY <3>1, <2>1, <1>5
    <3>3. \/ status[a] = "live" /\ status[b] = "destroyed"
          \/ status[a] = "live" /\ status[b] = "live" /\ create_time[a] >= create_time[b]
          \/ status[a] = "destroyed" /\ status[b] = "destroyed" /\ destroyed_time[a] >= destroyed_time[b]
      BY <3>1, <2>1, <1>2 DEF VectorInv, ShownInOrder
    <3>4. /\ status'[a] = status[a] /\ status'[b] = status[b] /\ create_time'[a] = create_time[a]
          /\ create_time'[b] = create_time[b] /\ destroyed_time' = destroyed_time
      BY <3>2, <1>1, <1>4
    <3> QED
      BY <3>1, <3>3, <3>4, <2>1
  <2> QED
    BY <2>2, <2>3
<1>9. IdsAreUnique'
  <2>1. \A k \in 1..Len(session_vector) : session_id[session_vector[k]] # s
    <3>1. NULL \notin Infos
      BY SessionInfoAssumption
    <3> QED
      BY <3>1, <1>1, <1>2, <1>5, Found
  <2>2. \A k \in 2..(Len(q) + 1) : session_id'[session_vector'[k]] = session_id[session_vector[k - 1]]
    BY <1>1, <1>3, <1>4, <1>5
  <2>3. session_id'[session_vector'[1]] = s
    BY <1>1, <1>3, <1>4
  <2>4. \A m, n \in 1..(Len(q) + 1) : session_id'[session_vector'[m]] = session_id'[session_vector'[n]] => m = n
    <3> SUFFICES ASSUME NEW m \in 1..(Len(q) + 1), NEW n \in 1..(Len(q) + 1), m < n
                 PROVE  session_id'[session_vector'[m]] # session_id'[session_vector'[n]]
      BY <1>2
    <3>1. n \in 2..(Len(q) + 1) /\ n - 1 \in 1..Len(session_vector)
      BY <1>2, <1>3
    <3>2. CASE m = 1
      BY <3>1, <3>2, <2>1, <2>2, <2>3
    <3>3. CASE m # 1
      <4>1. m \in 2..(Len(q) + 1) /\ m - 1 \in 1..Len(session_vector) /\ m - 1 # n - 1
        BY <3>3, <1>2, <1>3
      <4> QED
        BY <4>1, <3>1, <2>2, <1>2 DEF VectorInv, IdsAreUnique
    <3> QED
      BY <3>2, <3>3
  <2> QED
    BY <2>4, <1>3 DEF IdsAreUnique
<1>10. CountsNeverRemoved' /\ IsFiniteSet(Live')
  <2>1. Live' = Live \cup {o} /\ o \notin Live
    BY <1>1, <1>4 DEF Live
  <2>2. IsFiniteSet(Live) /\ current_session_count = Cardinality(Live)
    BY DEF VectorInv, CountsNeverRemoved, Live
  <2>3. IsFiniteSet(Live') /\ Cardinality(Live') = Cardinality(Live) + 1
    BY <2>1, <2>2, FS_AddElement
  <2> QED
    BY <2>2, <2>3, <1>1 DEF CountsNeverRemoved, Live
<1> QED
  BY <1>6, <1>7, <1>8, <1>9, <1>10 DEF VectorInv

\* What RemoveSession sorts: a permutation of the vector.
LEMMA Permuted ==
  ASSUME VectorInv, NEW q \in SetToSeqs(Range(session_vector))
  PROVE  /\ q \in Seq(Infos) /\ Len(q) = Len(session_vector) /\ DOMAIN q = 1..Len(q)
         /\ \A k \in 1..Len(q) : \E j \in 1..Len(session_vector) : q[k] = session_vector[j]
         /\ \A j \in 1..Len(session_vector) : \E k \in 1..Len(q) : session_vector[j] = q[k]
         /\ \A m, n \in 1..Len(q) : m # n => q[m] # q[n]
<1> DEFINE R == Range(session_vector)
           N == Len(session_vector)
<1>1. /\ session_vector \in [1..N -> Infos] /\ N \in Nat
      /\ R = {session_vector[j] : j \in 1..N} /\ R \subseteq Infos
  BY DEF VectorInv, MadeOnly, Range
<1>2. \A m, n \in 1..N : session_vector[m] = session_vector[n] => m = n
  BY <1>1 DEF VectorInv, IdsAreUnique
<1>3. session_vector \in Bijection(1..N, R)
  BY <1>1, <1>2 DEF Bijection, Injection, Surjection, IsInjective
<1>9. IsFiniteSet(1..N) /\ Cardinality(1..N) = N
  BY <1>1, UpTo
<1>4. IsFiniteSet(R) /\ Cardinality(R) = N
  <2>1. ExistsBijection(1..N, R)
    BY <1>3 DEF ExistsBijection
  <2> QED
    BY <2>1, <1>9, FS_Bijection
<1>5. q \in [1..N -> R] /\ \A m, n \in 1..N : m # n => q[m] # q[n]
  BY <1>4 DEF SetToSeqs
<1>6. q \in Surjection(1..N, R)
  <2>1. q \in Injection(1..N, R)
    BY <1>5 DEF Injection, IsInjective
  <2> QED
    BY <2>1, <1>4, <1>9, FS_Injection
<1>7. \A x \in R : \E k \in 1..N : q[k] = x
  BY <1>6 DEF Surjection
<1>8. q \in Seq(Infos) /\ Len(q) = N /\ DOMAIN q = 1..N
  BY <1>1, <1>5
<1>10. \A k \in 1..N : \E j \in 1..N : q[k] = session_vector[j]
  BY <1>1, <1>5
<1>11. \A j \in 1..N : \E k \in 1..N : session_vector[j] = q[k]
  <2> TAKE j \in 1..N
  <2>1. session_vector[j] \in R
    BY <1>1
  <2> QED
    BY <2>1, <1>7
<1> QED
  BY <1>5, <1>8, <1>10, <1>11

\* RemoveSession moves the entry to the destroyed ones, unless it is there already.
LEMMA RemoveKeeps ==
  ASSUME VectorInv, NEW s \in Ids, RemoveSession(s)
  PROVE  VectorInv'
<1> DEFINE o == GetSessionInfoById(s)
<1>1. PICK q \in SetToSeqs(Range(session_vector)) : Sorted(q)' /\ session_vector' = q
  BY DEF RemoveSession
<1>2. /\ o # NULL
      /\ current_session_count' = IF status[o] = "live" THEN current_session_count - 1 ELSE current_session_count
      /\ status' = [status EXCEPT ![o] = "destroyed"]
      /\ destroyed_time' = [destroyed_time EXCEPT ![o] = IF status[o] = "live" THEN now ELSE destroyed_time[o]]
      /\ UNCHANGED <<session_id, create_time, stream_map, total_session_count, held, now>>
  BY DEF RemoveSession, CountDown
<1>3. PICK i \in 1..Len(session_vector) : o = session_vector[i] /\ session_id[o] = s
  BY <1>2, Found DEF VectorInv, MadeOnly
<1> HIDE DEF o
<1>4. /\ status \in [Infos -> {"none", "live", "destroyed"}] /\ session_id \in [Infos -> Ids \cup {NULL}]
      /\ create_time \in [Infos -> 0..MaxTime] /\ destroyed_time \in [Infos -> 0..MaxTime] /\ now \in 0..MaxTime
      /\ held \in [Callers -> Infos \cup {NULL}] /\ MaxTime \in Nat
      /\ session_vector \in Seq(Infos) /\ DOMAIN session_vector = 1..Len(session_vector) /\ Len(session_vector) \in Nat
  BY SessionInfoAssumption DEF VectorInv, TypeOK, MadeOnly
<1>5. o \in Infos /\ status[o] \in {"live", "destroyed"}
  <2>1. status[session_vector[i]] # "none"
    BY DEF VectorInv, MadeOnly
  <2>2. session_vector[i] \in Infos
    BY <1>4
  <2> QED
    BY <2>1, <2>2, <1>3, <1>4
<1>6. /\ q \in Seq(Infos) /\ Len(q) = Len(session_vector) /\ DOMAIN q = 1..Len(q)
      /\ \A k \in 1..Len(q) : \E j \in 1..Len(session_vector) : q[k] = session_vector[j]
      /\ \A m, n \in 1..Len(q) : m # n => q[m] # q[n]
  BY Permuted
<1>7. \A k \in 1..Len(q) : q[k] \in Infos /\ status[q[k]] # "none" /\ session_id[q[k]] \in Ids
  <2> TAKE k \in 1..Len(q)
  <2>1. PICK j \in 1..Len(session_vector) : q[k] = session_vector[j]
    BY <1>6
  <2> QED
    BY <2>1, <1>4 DEF VectorInv, MadeOnly
<1>8. \A x \in Infos : /\ status'[x] = IF x = o THEN "destroyed" ELSE status[x]
                       /\ destroyed_time'[x] \in 0..MaxTime
                       /\ x # o => destroyed_time'[x] = destroyed_time[x]
  BY <1>2, <1>4, <1>5
<1>9. MadeOnly'
  <2>1. \A k \in 1..Len(session_vector') : status'[session_vector'[k]] # "none" /\ session_id'[session_vector'[k]] \in Ids
    BY <1>1, <1>2, <1>7, <1>8
  <2>2. \A c \in Callers : held'[c] # NULL => status'[held'[c]] # "none"
    BY <1>2, <1>4, <1>8 DEF VectorInv, MadeOnly
  <2>3. \A x \in Infos : status'[x] = "none" => stream_map'[x] = [st \in Streams |-> "none"]
    BY <1>2, <1>8 DEF VectorInv, MadeOnly
  <2>4. \A x \in Infos : create_time'[x] <= now'
    BY <1>2 DEF VectorInv, MadeOnly
  <2>5. session_vector' \in Seq(Infos) /\ Len(session_vector') <= MaxSave
    BY <1>1, <1>6 DEF VectorInv, MadeOnly
  <2> QED
    BY <2>1, <2>2, <2>3, <2>4, <2>5, Zenon DEF MadeOnly
<1>10. IsFiniteSet(Live') /\ current_session_count' = Cardinality(Live')
  <2>1. Live' = Live \ {o} /\ (o \in Live <=> status[o] = "live")
    BY <1>5, <1>8 DEF Live
  <2>2. IsFiniteSet(Live) /\ current_session_count = Cardinality(Live)
    BY DEF VectorInv, CountsNeverRemoved, Live
  <2>3. /\ IsFiniteSet(Live')
        /\ Cardinality(Live') = IF o \in Live THEN Cardinality(Live) - 1 ELSE Cardinality(Live)
    BY <2>1, <2>2, FS_RemoveElement
  <2> QED
    BY <2>1, <2>2, <2>3, <1>2
<1>11. TypeOK'
  <2>1. current_session_count' \in Nat
    BY <1>10, FS_CardinalityType
  <2>2. session_vector' \in BoundedSeq(Infos, MaxSave)
    BY <1>9, Bounded DEF MadeOnly
  <2>3. status' \in [Infos -> {"none", "live", "destroyed"}] /\ destroyed_time' \in [Infos -> 0..MaxTime]
    BY <1>2, <1>4, <1>5
  <2> QED
    BY <2>1, <2>2, <2>3, <1>2 DEF VectorInv, TypeOK
<1>12. ShownInOrder'
  <2> SUFFICES ASSUME NEW m \in 1..Len(q), NEW n \in 1..Len(q), m < n
               PROVE  LET a == q[m]
                          b == q[n]
                      IN  \/ status'[a] = "live" /\ status'[b] = "destroyed"
                          \/ status'[a] = "live" /\ status'[b] = "live" /\ create_time'[a] >= create_time'[b]
                          \/ /\ status'[a] = "destroyed" /\ status'[b] = "destroyed"
                             /\ destroyed_time'[a] >= destroyed_time'[b]
    BY <1>1, <1>6 DEF ShownInOrder
  <2>1. ~comparator(q[n], q[m])'
    BY <1>1, <1>6 DEF Sorted
  <2>2. /\ q[m] \in Infos /\ q[n] \in Infos
        /\ status'[q[m]] \in {"live", "destroyed"} /\ status'[q[n]] \in {"live", "destroyed"}
        /\ create_time'[q[m]] \in Int /\ create_time'[q[n]] \in Int
        /\ destroyed_time'[q[m]] \in Int /\ destroyed_time'[q[n]] \in Int
    BY <1>2, <1>4, <1>7, <1>8
  <2> QED
    BY <2>1, <2>2 DEF comparator
<1>13. IdsAreUnique'
  <2> SUFFICES ASSUME NEW m \in 1..Len(q), NEW n \in 1..Len(q), session_id[q[m]] = session_id[q[n]]
               PROVE  m = n
    BY <1>1, <1>2, <1>6 DEF IdsAreUnique
  <2>1. PICK j \in 1..Len(session_vector), l \in 1..Len(session_vector) : q[m] = session_vector[j] /\ q[n] = session_vector[l]
    BY <1>6
  <2>2. j = l
    BY <2>1, <1>4 DEF VectorInv, IdsAreUnique
  <2> QED
    BY <2>1, <2>2, <1>6
<1> QED
  BY <1>9, <1>10, <1>11, <1>12, <1>13 DEF VectorInv, CountsNeverRemoved, Live

\* A caller gets or uses a pointer, or time passes: the vector is left alone.
LEMMA RestKeeps ==
  ASSUME VectorInv,
         \/ \E c \in Callers, s \in Ids : GetPointer(c, s)
         \/ \E c \in Callers, st \in Streams : AddStream(c, st) \/ RemoveStream(c, st)
         \/ Tick \/ UNCHANGED vars
  PROVE  VectorInv'
<1>1. /\ status \in [Infos -> {"none", "live", "destroyed"}] /\ now \in 0..MaxTime /\ MaxTime \in Nat
      /\ held \in [Callers -> Infos \cup {NULL}]
      /\ stream_map \in [Infos -> [Streams -> {"none", "live", "leave"}]]
      /\ session_vector \in Seq(Infos) /\ \A k \in 1..Len(session_vector) : session_vector[k] \in Infos
  BY SessionInfoAssumption DEF VectorInv, TypeOK, MadeOnly
<1>2. UNCHANGED <<session_vector, objVars, current_session_count, total_session_count>>
  BY DEF GetPointer, AddStream, RemoveStream, UseStream, Tick, vars, objVars
<1>3. /\ now' \in 0..MaxTime /\ now <= now'
      /\ held' \in [Callers -> Infos \cup {NULL}] /\ (\A c \in Callers : held'[c] # NULL => status[held'[c]] # "none")
      /\ stream_map' \in [Infos -> [Streams -> {"none", "live", "leave"}]]
      /\ \A o \in Infos : status[o] = "none" => stream_map'[o] = stream_map[o]
  <2>1. CASE \E c \in Callers, s \in Ids : GetPointer(c, s)
    <3>1. PICK c \in Callers, s \in Ids : GetPointer(c, s)
      BY <2>1
    <3>2. \/ GetSessionInfoById(s) = NULL
          \/ GetSessionInfoById(s) \in Infos /\ status[GetSessionInfoById(s)] # "none"
      BY <1>1, Found DEF VectorInv, MadeOnly
    <3> QED
      BY <3>1, <3>2, <1>1 DEF GetPointer, VectorInv, MadeOnly
  <2>2. CASE \E c \in Callers, st \in Streams : AddStream(c, st) \/ RemoveStream(c, st)
    <3>1. PICK c \in Callers, st \in Streams : AddStream(c, st) \/ RemoveStream(c, st)
      BY <2>2
    <3>2. PICK value \in {"none", "live", "leave"} :
            held[c] # NULL /\ stream_map' = [stream_map EXCEPT ![held[c]][st] = value]
            /\ held' = [held EXCEPT ![c] = NULL] /\ now' = now
      <4>1. held[c] # NULL => held[c] \in Infos /\ stream_map[held[c]][st] \in {"none", "live", "leave"}
        BY <1>1
      <4> QED
        BY <3>1, <4>1 DEF AddStream, RemoveStream, UseStream
    <3>3. held[c] \in Infos /\ status[held[c]] # "none"
      BY <3>2, <1>1 DEF VectorInv, MadeOnly
    <3> QED
      BY <3>2, <3>3, <1>1 DEF VectorInv, MadeOnly
  <2>3. CASE Tick \/ UNCHANGED vars
    BY <2>3, <1>1 DEF Tick, vars, VectorInv, MadeOnly
  <2> QED
    BY <2>1, <2>2, <2>3
<1>4. TypeOK'
  BY <1>2, <1>3 DEF VectorInv, TypeOK, objVars
<1>5. MadeOnly'
  <2>1. \A o \in Infos : create_time[o] <= now'
    BY <1>1, <1>3 DEF VectorInv, MadeOnly, TypeOK
  <2> QED
    BY <2>1, <1>2, <1>3 DEF VectorInv, MadeOnly, objVars
<1>6. ShownInOrder' /\ IdsAreUnique' /\ CountsNeverRemoved' /\ IsFiniteSet(Live)'
  BY <1>2 DEF VectorInv, ShownInOrder, IdsAreUnique, CountsNeverRemoved, Live, objVars
<1> QED
  BY <1>4, <1>5, <1>6 DEF VectorInv

\* The invariant of the vector is kept by every step.
LEMMA VectorStep == VectorInv /\ [AllNext]_allVars => VectorInv'
<1> SUFFICES ASSUME VectorInv, [AllNext]_allVars PROVE VectorInv'
  OBVIOUS
<1>1. Next \/ UNCHANGED vars
  BY DEF AllNext, allVars
<1> QED
  BY <1>1, AddKeeps, RemoveKeeps, RestKeeps DEF Next

\* AddSession and RemoveSession keep the vector in its order, an id in it once, and the
\* count of sessions right, for any number of sessions and of callers with pointers.
THEOREM VectorStaysRight == AllSpec => []VectorIsRight
<1>1. AllInit => VectorInv
  BY VectorInit DEF AllInit
<1>2. VectorInv => VectorIsRight
  BY DEF VectorInv, VectorIsRight
<1> QED
  BY <1>1, <1>2, VectorStep, PTL DEF AllSpec

\* What the statusz page shows of an id is what the one entry with that id has.
ShownAs(s) ==
  \/ \E k \in 1..Len(session_vector) : /\ session_id[session_vector[k]] = s
                                       /\ Status(s) = status[session_vector[k]]
                                       /\ StreamMap(s) = stream_map[session_vector[k]]
  \/ /\ \A k \in 1..Len(session_vector) : session_id[session_vector[k]] # s
     /\ Status(s) = "none" /\ StreamMap(s) = [st \in Streams |-> "none"]

LEMMA Shown == VectorInv => \A s \in Ids : ShownAs(s)
<1> SUFFICES ASSUME VectorInv, NEW s \in Ids PROVE ShownAs(s)
  OBVIOUS
<1>1. session_vector \in Seq(Infos) /\ NULL \notin Infos
  BY SessionInfoAssumption DEF VectorInv, MadeOnly
<1>2. \/ /\ GetSessionInfoById(s) = NULL
         /\ \A k \in 1..Len(session_vector) : session_id[session_vector[k]] # s
      \/ \E k \in 1..Len(session_vector) : /\ GetSessionInfoById(s) = session_vector[k]
                                           /\ session_id[session_vector[k]] = s
  BY <1>1, Found
<1>3. \A k \in 1..Len(session_vector) : session_vector[k] # NULL
  BY <1>1
<1> QED
  BY <1>2, <1>3, Zenon DEF ShownAs, Status, StreamMap

LEMMA ShownNext == ASSUME VectorInv' PROVE \A s \in Ids : ShownAs(s)'
<1>1. (VectorInv => \A s \in Ids : ShownAs(s))'
  BY Shown, PTL
<1> QED
  BY <1>1

\* The ids in the table are those of the vector, each once.
LEMMA SavedAre ==
  ASSUME VectorInv
  PROVE  /\ Table!Saved = {session_id[session_vector[k]] : k \in 1..Len(session_vector)}
         /\ IsFiniteSet(Table!Saved) /\ Cardinality(Table!Saved) = Len(session_vector)
<1> DEFINE N == Len(session_vector)
           id == [k \in 1..N |-> session_id[session_vector[k]]]
           S == {session_id[session_vector[k]] : k \in 1..N}
<1>1. \A k \in 1..N : session_id[session_vector[k]] \in Ids /\ status[session_vector[k]] # "none"
  BY DEF VectorInv, MadeOnly
<1>2. \A s \in Ids : ShownAs(s)
  BY Shown
<1>3. ASSUME NEW s \in Ids PROVE Status(s) # "none" <=> s \in S
  BY <1>1, <1>2, <1>3 DEF ShownAs
<1>4. Table!Saved = {s \in Ids : [x \in Ids |-> Status(x)][s] # "none"}
  BY DEF Table!Saved
<1>5. Table!Saved = S
  BY <1>1, <1>3, <1>4
<1>6. N \in Nat /\ DOMAIN session_vector = 1..N
  BY DEF VectorInv, MadeOnly
<1>7. id \in Bijection(1..N, S)
  <2>1. \A m, n \in 1..N : id[m] = id[n] => m = n
    BY <1>6 DEF VectorInv, IdsAreUnique
  <2>2. id \in [1..N -> S] /\ \A x \in S : \E k \in 1..N : id[k] = x
    OBVIOUS
  <2> QED
    BY <2>1, <2>2 DEF Bijection, Injection, Surjection, IsInjective
<1>8. IsFiniteSet(1..N) /\ Cardinality(1..N) = N
  BY <1>6, UpTo
<1>9. IsFiniteSet(S) /\ Cardinality(S) = N
  <2>1. ExistsBijection(1..N, S)
    BY <1>7 DEF ExistsBijection
  <2> QED
    BY <2>1, <1>8, FS_Bijection
<1> QED
  BY <1>5, <1>9

\* What the invariant says of the vector.
LEMMA Basics ==
  ASSUME VectorInv
  PROVE  /\ session_vector \in Seq(Infos) /\ Len(session_vector) \in Nat /\ Len(session_vector) <= MaxSave
         /\ DOMAIN session_vector = 1..Len(session_vector) /\ MaxSave \in Nat \ {0}
         /\ status \in [Infos -> {"none", "live", "destroyed"}] /\ session_id \in [Infos -> Ids \cup {NULL}]
         /\ \A x \in Infos : status[x] = "none" => stream_map[x] = [st \in Streams |-> "none"]
         /\ \A k \in 1..Len(session_vector) : /\ session_vector[k] \in Infos /\ status[session_vector[k]] # "none"
                                              /\ session_id[session_vector[k]] \in Ids
         /\ \A m, n \in 1..Len(session_vector) :
              session_id[session_vector[m]] = session_id[session_vector[n]] => m = n
         /\ \A m, n \in 1..Len(session_vector) :
              m < n => status[session_vector[m]] = "live" \/ status[session_vector[n]] = "destroyed"
<1>1. /\ session_vector \in Seq(Infos) /\ Len(session_vector) \in Nat /\ Len(session_vector) <= MaxSave
      /\ DOMAIN session_vector = 1..Len(session_vector) /\ MaxSave \in Nat \ {0}
      /\ \A k \in 1..Len(session_vector) : session_vector[k] \in Infos
  BY SessionInfoAssumption DEF VectorInv, MadeOnly
<1>2. /\ status \in [Infos -> {"none", "live", "destroyed"}] /\ session_id \in [Infos -> Ids \cup {NULL}]
      /\ \A x \in Infos : status[x] = "none" => stream_map[x] = [st \in Streams |-> "none"]
      /\ \A k \in 1..Len(session_vector) : /\ status[session_vector[k]] # "none"
                                           /\ session_id[session_vector[k]] \in Ids
  BY Zenon DEF VectorInv, MadeOnly, TypeOK
<1>3. \A m, n \in 1..Len(session_vector) :
        session_id[session_vector[m]] = session_id[session_vector[n]] => m = n
  BY <1>1, Zenon DEF VectorInv, IdsAreUnique
<1>4. \A m, n \in 1..Len(session_vector) :
        m < n => status[session_vector[m]] = "live" \/ status[session_vector[n]] = "destroyed"
  BY <1>1, Zenon DEF VectorInv, ShownInOrder
<1> QED
  BY <1>1, <1>2, <1>3, <1>4, Zenon

\* The table counts its entries as the vector does.
LEMMA TableCounts == ASSUME NEW S PROVE Table!Cardinality(S) = Cardinality(S)
BY DEF Table!Cardinality, Cardinality

\* AddSession drops the last entry of a full vector: a destroyed one, if there is any.
LEMMA AddIsAdd ==
  ASSUME VectorInv, VectorInv', NEW s \in Ids, AddSession(s)
  PROVE  Table!AddSessionInfo(s)
<1> DEFINE free == {x \in Infos : status[x] = "none"}
           o == CHOOSE x \in free : TRUE
           v == session_vector
           w == session_vector'
           N == Len(session_vector)
           L == Len(MakeRoom(session_vector))
           none == [st \in Streams |-> "none"]
           gone == IF N < MaxSave THEN NULL ELSE session_id[v[N]]
<1>1. /\ o \in Infos /\ status[o] = "none" /\ GetSessionInfoById(s) = NULL
      /\ session_vector' = <<o>> \o MakeRoom(v)
      /\ session_id' = [session_id EXCEPT ![o] = s]
      /\ status' = [status EXCEPT ![o] = "live"]
      /\ UNCHANGED stream_map
  BY DEF AddSession, NewSession
<1> HIDE DEF o
<1>2. /\ N \in Nat /\ N <= MaxSave /\ MaxSave \in Nat \ {0}
      /\ stream_map[o] = none
      /\ status \in [Infos -> {"none", "live", "destroyed"}] /\ session_id \in [Infos -> Ids \cup {NULL}]
      /\ \A k \in 1..N : v[k] \in Infos /\ v[k] # o /\ session_id[v[k]] \in Ids /\ status[v[k]] # "none"
      /\ \A m, n \in 1..N : session_id[v[m]] = session_id[v[n]] => m = n
      /\ \A m, n \in 1..N : m < n => status[v[m]] = "live" \/ status[v[n]] = "destroyed"
  BY <1>1, Basics, Zenon
<1>3. /\ MakeRoom(v) \in Seq(Infos) /\ L = (IF N < MaxSave THEN N ELSE MaxSave - 1) /\ L <= N
      /\ \A k \in 1..L : MakeRoom(v)[k] = v[k]
  BY Basics, Room, Zenon
<1>4. /\ Len(w) = L + 1 /\ w[1] = o
      /\ \A k \in 2..(L + 1) : w[k] = MakeRoom(v)[k - 1]
  BY <1>1, <1>3, InFront
<1>5. \A k \in 1..N : session_id[v[k]] # s
  <2>1. NULL \notin Infos
    BY SessionInfoAssumption
  <2>2. v \in Seq(Infos)
    BY Basics
  <2> QED
    <3>1. GetSessionInfoById(s) = NULL /\ \A k \in 1..N : v[k] # NULL
      BY <2>1, <1>1, <1>2
    <3>2. \/ GetSessionInfoById(s) = NULL /\ \A k \in 1..N : session_id[v[k]] # s
          \/ \E k \in 1..N : GetSessionInfoById(s) = v[k] /\ session_id[v[k]] = s
      BY <2>2, Found
    <3> QED
      BY <3>1, <3>2
<1>6. /\ \A x \in Ids : \/ \E k \in 1..N : session_id[v[k]] = x /\ Status(x) = status[v[k]] /\ StreamMap(x) = stream_map[v[k]]
                        \/ (\A k \in 1..N : session_id[v[k]] # x) /\ Status(x) = "none" /\ StreamMap(x) = none
      /\ \A x \in Ids : \/ \E k \in 1..Len(w) : /\ session_id'[w[k]] = x /\ Status(x)' = status'[w[k]]
                                                /\ StreamMap(x)' = stream_map'[w[k]]
                        \/ (\A k \in 1..Len(w) : session_id'[w[k]] # x) /\ Status(x)' = "none" /\ StreamMap(x)' = none
  BY Shown, ShownNext, Zenon DEF ShownAs
<1>7. /\ Cardinality(Table!Saved) = N /\ Table!Saved = {session_id[v[k]] : k \in 1..N}
  BY SavedAre
<1> HIDE DEF v, w, N, L
<1>8. /\ L \in Nat /\ (N < MaxSave => L = N) /\ (~(N < MaxSave) => N = MaxSave /\ L = N - 1)
      /\ \A k \in 1..L : k + 1 \in 1..Len(w) /\ w[k + 1] = v[k] /\ k \in 1..N
      /\ 1 \in 1..Len(w)
  <2>1. L \in Nat /\ (N < MaxSave => L = N) /\ (~(N < MaxSave) => N = MaxSave /\ L = N - 1)
    BY <1>2, <1>3
  <2>2. \A k \in 1..L : k + 1 \in 1..Len(w) /\ k + 1 \in 2..(L + 1) /\ (k + 1) - 1 = k /\ k \in 1..N
    BY <2>1, <1>2, <1>3, <1>4
  <2>3. \A k \in 1..L : w[k + 1] = MakeRoom(v)[(k + 1) - 1]
    BY <2>2, <1>4
  <2>4. 1 \in 1..Len(w)
    BY <2>1, <1>4
  <2> QED
    BY <2>1, <2>2, <2>3, <2>4, <1>3
<1>9. \A k \in 1..Len(w) : k = 1 \/ (k - 1 \in 1..L /\ w[k] = v[k - 1] /\ k - 1 \in 1..N)
  BY <1>2, <1>3, <1>4, <1>8
<1>10. /\ \A k \in 1..N : session_id'[v[k]] = session_id[v[k]] /\ status'[v[k]] = status[v[k]] /\ stream_map'[v[k]] = stream_map[v[k]]
       /\ session_id'[o] = s /\ status'[o] = "live" /\ stream_map'[o] = none
  BY <1>1, <1>2
<1>11. Status(s) = "none" /\ Status(s)' = "live" /\ StreamMap(s)' = none
  <2>1. Status(s) = "none"
    BY <1>5, <1>6
  <2>2. \A k \in 1..Len(w) : session_id'[w[k]] = s => w[k] = o
    <3> SUFFICES ASSUME NEW k \in 1..Len(w), k # 1 PROVE session_id'[w[k]] # s
      BY <1>4
    <3>1. w[k] = v[k - 1] /\ k - 1 \in 1..N
      BY <1>9
    <3> QED
      BY <3>1, <1>5, <1>10
  <2> QED
    BY <2>1, <2>2, <1>4, <1>6, <1>8, <1>10
<1>12. ASSUME NEW x \in Ids, x # s
       PROVE  /\ Status(x)' = IF x = gone THEN "none" ELSE Status(x)
              /\ StreamMap(x)' = IF x = gone THEN none ELSE StreamMap(x)
  <2>1. NULL \notin Ids
    BY SessionInfoAssumption
  <2>2. CASE \E k \in 1..L : session_id[v[k]] = x
    <3>1. PICK k \in 1..L : session_id[v[k]] = x
      BY <2>2
    <3>2. k \in 1..N /\ k + 1 \in 1..Len(w) /\ w[k + 1] = v[k]
      BY <1>8
    <3>3. x # gone
      <4>1. CASE N < MaxSave
        BY <4>1, <2>1
      <4>2. CASE ~(N < MaxSave)
        <5>1. N \in 1..N /\ k # N
          BY <4>2, <1>2, <1>8
        <5> QED
          BY <5>1, <4>2, <3>1, <3>2, <1>2
      <4> QED
        BY <4>1, <4>2
    <3>4. Status(x) = status[v[k]] /\ StreamMap(x) = stream_map[v[k]]
      BY <3>1, <3>2, <1>2, <1>6
    <3>5. \A j \in 1..Len(w) : session_id'[w[j]] = x => w[j] = v[k]
      <4> SUFFICES ASSUME NEW j \in 1..Len(w), session_id'[w[j]] = x
                   PROVE  w[j] = v[k]
        OBVIOUS
      <4>1. j # 1
        BY <1>4, <1>10, <1>12
      <4>2. w[j] = v[j - 1] /\ j - 1 \in 1..N
        BY <4>1, <1>9
      <4> QED
        BY <4>2, <3>1, <3>2, <1>2, <1>10
    <3>6. session_id'[w[k + 1]] = x
      BY <3>1, <3>2, <1>10
    <3>7. Status(x)' = status'[v[k]] /\ StreamMap(x)' = stream_map'[v[k]]
      BY <3>2, <3>5, <3>6, <1>6
    <3> QED
      BY <3>2, <3>3, <3>4, <3>7, <1>10
  <2>3. CASE \A k \in 1..L : session_id[v[k]] # x
    <3>1. \A j \in 1..Len(w) : session_id'[w[j]] # x
      <4> SUFFICES ASSUME NEW j \in 1..Len(w) PROVE session_id'[w[j]] # x
        OBVIOUS
      <4>1. CASE j = 1
        BY <4>1, <1>4, <1>10, <1>12
      <4>2. CASE j # 1
        <5>1. w[j] = v[j - 1] /\ j - 1 \in 1..N /\ j - 1 \in 1..L
          BY <4>2, <1>9
        <5> QED
          BY <5>1, <1>10, <2>3
      <4> QED
        BY <4>1, <4>2
    <3>2. Status(x)' = "none" /\ StreamMap(x)' = none
      BY <3>1, <1>6
    <3>3. ASSUME x # gone PROVE \A k \in 1..N : session_id[v[k]] # x
      <4> TAKE k \in 1..N
      <4>1. k \in 1..L \/ (~(N < MaxSave) /\ k = N)
        BY <1>2, <1>8
      <4> QED
        BY <4>1, <3>3, <2>3
    <3>4. x # gone => Status(x) = "none" /\ StreamMap(x) = none
      BY <3>3, <1>6
    <3> QED
      BY <3>2, <3>4
  <2> QED
    BY <2>2, <2>3
<1>13. gone \in Table!Evictable
  <2> DEFINE destroyed == {x \in Table!Saved : [y \in Ids |-> Status(y)][x] = "destroyed"}
  <2>1. Table!Evictable = IF N < MaxSave THEN {NULL} ELSE IF destroyed # {} THEN destroyed ELSE Table!Saved
    <3>1. Table!Cardinality(Table!Saved) = N
      BY TableCounts, <1>7
    <3> QED
      BY <3>1 DEF Table!Evictable
  <2>2. CASE N < MaxSave
    BY <2>1, <2>2
  <2>3. CASE ~(N < MaxSave)
    <3>1. N \in 1..N /\ gone = session_id[v[N]]
      BY <2>3, <1>2, <1>8
    <3>2. gone \in Table!Saved /\ gone \in Ids
      BY <3>1, <1>2, <1>7
    <3>3. \A k \in 1..N : Status(session_id[v[k]]) = status[v[k]]
      BY <1>2, <1>6
    <3>4. ASSUME destroyed # {} PROVE gone \in destroyed
      <4>1. PICK x \in Table!Saved : [y \in Ids |-> Status(y)][x] = "destroyed"
        BY <3>4
      <4>2. PICK k \in 1..N : x = session_id[v[k]]
        BY <1>7, <4>1
      <4>3. status[v[k]] = "destroyed"
        BY <4>1, <4>2, <3>3, <1>2
      <4>4. status[v[N]] = "destroyed"
        <5>1. k = N \/ k < N
          BY <1>2
        <5> QED
          BY <5>1, <4>3, <3>1, <1>2
      <4>5. Status(gone) = "destroyed"
        BY <4>4, <3>1, <3>3
      <4> QED
        BY <4>5, <3>2
    <3> QED
      BY <3>2, <3>4, <2>1, <2>3
  <2> QED
    BY <2>2, <2>3
<1> HIDE DEF gone
<1>14. [x \in Ids |-> Status(x)]' = [x \in Ids |-> CASE x = s -> "live"
                                                     [] x = gone -> "none"
                                                     [] OTHER -> [y \in Ids |-> Status(y)][x]]
  <2>1. ASSUME NEW x \in Ids
        PROVE  Status(x)' = CASE x = s -> "live" [] x = gone -> "none" [] OTHER -> [y \in Ids |-> Status(y)][x]
    <3>1. CASE x = s
      <4>1. s # gone
        BY <1>5, <1>8, <1>2, SessionInfoAssumption DEF gone
      <4> QED
        BY <3>1, <4>1, <1>11
    <3>2. CASE x # s
      BY <3>2, <1>12
    <3> QED
      BY <3>1, <3>2
  <2> QED
    BY <2>1
<1>15. [x \in Ids |-> StreamMap(x)]' = [x \in Ids |-> IF x = s \/ x = gone THEN none
                                                      ELSE [y \in Ids |-> StreamMap(y)][x]]
  <2>1. ASSUME NEW x \in Ids
        PROVE  StreamMap(x)' = IF x = s \/ x = gone THEN none ELSE [y \in Ids |-> StreamMap(y)][x]
    BY <1>11, <1>12
  <2> QED
    BY <2>1
<1> QED
  BY <1>11, <1>13, <1>14, <1>15, Zenon DEF Table!AddSessionInfo

\* RemoveSession marks the entry of the id; the sort is not seen in the table.
LEMMA RemoveIsRemove ==
  ASSUME VectorInv, VectorInv', NEW s \in Ids, RemoveSession(s)
  PROVE  Table!RemoveSessionInfo(s)
<1> DEFINE o == GetSessionInfoById(s)
           v == session_vector
           w == session_vector'
           N == Len(session_vector)
           none == [st \in Streams |-> "none"]
<1>1. PICK q \in SetToSeqs(Range(session_vector)) : session_vector' = q
  BY DEF RemoveSession
<1>2. /\ o # NULL /\ status' = [status EXCEPT ![o] = "destroyed"]
      /\ session_id' = session_id /\ stream_map' = stream_map
  BY DEF RemoveSession
<1>3. PICK i \in 1..N : o = v[i] /\ session_id[v[i]] = s
  BY <1>2, Basics, Found, Zenon
<1> HIDE DEF o
<1>4. /\ status \in [Infos -> {"none", "live", "destroyed"}]
      /\ \A k \in 1..N : v[k] \in Infos /\ session_id[v[k]] \in Ids /\ status[v[k]] # "none"
      /\ \A m, n \in 1..N : session_id[v[m]] = session_id[v[n]] => m = n
  BY Basics, Zenon
<1>5. /\ Len(w) = N
      /\ \A k \in 1..N : \E j \in 1..N : w[k] = v[j]
      /\ \A j \in 1..N : \E k \in 1..N : v[j] = w[k]
  <2>1. /\ Len(q) = N
        /\ \A k \in 1..Len(q) : \E j \in 1..N : q[k] = v[j]
        /\ \A j \in 1..N : \E k \in 1..Len(q) : v[j] = q[k]
    BY Permuted
  <2> QED
    BY <2>1, <1>1, Zenon
<1>6. /\ \A x \in Ids : \/ \E k \in 1..N : session_id[v[k]] = x /\ Status(x) = status[v[k]] /\ StreamMap(x) = stream_map[v[k]]
                        \/ (\A k \in 1..N : session_id[v[k]] # x) /\ Status(x) = "none" /\ StreamMap(x) = none
      /\ \A x \in Ids : \/ \E k \in 1..Len(w) : /\ session_id'[w[k]] = x /\ Status(x)' = status'[w[k]]
                                                /\ StreamMap(x)' = stream_map'[w[k]]
                        \/ (\A k \in 1..Len(w) : session_id'[w[k]] # x) /\ Status(x)' = "none" /\ StreamMap(x)' = none
  BY Shown, ShownNext, Zenon DEF ShownAs
<1> HIDE DEF v, w, N
<1>7. \A k \in 1..N : status'[v[k]] = IF k = i THEN "destroyed" ELSE status[v[k]]
  BY <1>2, <1>3, <1>4
<1>8. ASSUME NEW x \in Ids
      PROVE  /\ Status(x)' = IF x = s THEN "destroyed" ELSE Status(x)
             /\ StreamMap(x)' = StreamMap(x)
  <2>1. CASE \A k \in 1..N : session_id[v[k]] # x
    <3>1. \A k \in 1..N : session_id'[w[k]] # x
      <4> TAKE k \in 1..N
      <4>1. PICK j \in 1..N : w[k] = v[j]
        BY <1>5, Zenon
      <4> QED
        BY <4>1, <2>1, <1>2, Zenon
    <3>2. /\ Status(x) = "none" /\ StreamMap(x) = none
          /\ Status(x)' = "none" /\ StreamMap(x)' = none
      BY <3>1, <2>1, <1>5, <1>6, Zenon
    <3> QED
      BY <3>2, <2>1, <1>3
  <2>2. CASE \E k \in 1..N : session_id[v[k]] = x
    <3>1. PICK k \in 1..N : session_id[v[k]] = x
      BY <2>2
    <3>2. Status(x) = status[v[k]] /\ StreamMap(x) = stream_map[v[k]]
      BY <3>1, <1>4, <1>6
    <3>3. PICK j \in 1..N : w[j] = v[k]
      BY <1>5
    <3>4. \A l \in 1..N : session_id'[w[l]] = x => w[l] = v[k]
      <4> SUFFICES ASSUME NEW l \in 1..N, session_id'[w[l]] = x PROVE w[l] = v[k]
        OBVIOUS
      <4>1. PICK m \in 1..N : w[l] = v[m]
        BY <1>5, Zenon
      <4> QED
        BY <4>1, <3>1, <1>2, <1>4, Zenon
    <3>5. Status(x)' = status'[v[k]] /\ StreamMap(x)' = stream_map'[v[k]]
      <4>1. session_id'[w[j]] = x
        BY <3>1, <3>3, <1>2, Zenon
      <4>2. Len(w) = N
        BY <1>5
      <4>3. PICK l \in 1..N : session_id'[w[l]] = x /\ Status(x)' = status'[w[l]] /\ StreamMap(x)' = stream_map'[w[l]]
        BY <4>1, <4>2, <1>6, Zenon
      <4> QED
        BY <4>3, <3>4
    <3>6. k = i <=> x = s
      BY <3>1, <1>3, <1>4
    <3> QED
      BY <3>2, <3>5, <3>6, <1>2, <1>7
  <2> QED
    BY <2>1, <2>2
<1>9. Status(s) # "none"
  BY <1>3, <1>4, <1>6
<1>10. /\ [x \in Ids |-> Status(x)]' = [[x \in Ids |-> Status(x)] EXCEPT ![s] =
                                          IF @ = "none" THEN "none" ELSE "destroyed"]
       /\ [x \in Ids |-> StreamMap(x)]' = [x \in Ids |-> StreamMap(x)]
  BY <1>8, <1>9
<1> QED
  BY <1>10 DEF Table!RemoveSessionInfo

\* The vector and the fields of its entries are left alone: the table is.
LEMMA SameTable ==
  ASSUME VectorInv, VectorInv', UNCHANGED <<session_vector, session_id, status>>,
         \A k \in 1..Len(session_vector) : stream_map'[session_vector[k]] = stream_map[session_vector[k]]
  PROVE  UNCHANGED Table!infoVars
<1> DEFINE N == Len(session_vector)
           none == [st \in Streams |-> "none"]
<1>1. \A m, n \in 1..N : session_id[session_vector[m]] = session_id[session_vector[n]] => m = n
  BY Basics, Zenon
<1>2. ASSUME NEW x \in Ids PROVE Status(x)' = Status(x) /\ StreamMap(x)' = StreamMap(x)
  <2>1. ShownAs(x) /\ ShownAs(x)'
    BY Shown, ShownNext
  <2> QED
    BY <2>1, <1>1 DEF ShownAs
<1> QED
  BY <1>2 DEF Table!infoVars

InfoTable == [x \in Ids |-> Status(x)]
StreamTable == [x \in Ids |-> StreamMap(x)]

\* What a caller does to a pointer is done to the entry, if it is still in the vector.
LEMMA StreamIsStream ==
  ASSUME VectorInv, VectorInv', NEW c \in Callers, NEW st \in Streams, NEW value,
         held[c] # NULL, UseStream(c, st, value)
  PROVE  \/ UNCHANGED Table!infoVars
         \/ \E s \in Ids : /\ Status(s) # "none" /\ StreamMap(s) = stream_map[held[c]]
                           /\ InfoTable' = InfoTable /\ StreamTable' = [StreamTable EXCEPT ![s][st] = value]
<1> DEFINE N == Len(session_vector)
           v == session_vector
           o == held[c]
           none == [x \in Streams |-> "none"]
<1>1. /\ stream_map' = [stream_map EXCEPT ![o][st] = value]
      /\ UNCHANGED <<session_vector, session_id, status>>
  BY DEF UseStream, objVars
<1>2. /\ stream_map \in [Infos -> [Streams -> {"none", "live", "leave"}]]
      /\ held \in [Callers -> Infos \cup {NULL}]
  BY DEF VectorInv, TypeOK
<1>3. o \in Infos
  BY <1>2
<1>4. /\ \A k \in 1..N : v[k] \in Infos /\ session_id[v[k]] \in Ids /\ status[v[k]] # "none"
      /\ \A m, n \in 1..N : session_id[v[m]] = session_id[v[n]] => m = n
  BY Basics, Zenon
<1>5. CASE \A k \in 1..N : v[k] # o
  <2>1. \A k \in 1..N : stream_map'[v[k]] = stream_map[v[k]]
    BY <1>1, <1>2, <1>3, <1>4, <1>5
  <2> QED
    BY <2>1, <1>1, SameTable
<1>6. CASE \E k \in 1..N : v[k] = o
  <2>1. PICK k \in 1..N : v[k] = o
    BY <1>6
  <2>2. PICK s \in Ids : s = session_id[o] /\ status[o] # "none"
    BY <2>1, <1>4
  <2>3. \A x \in Ids : ShownAs(x) /\ ShownAs(x)'
    BY Shown, ShownNext
  <2>4. ASSUME NEW x \in Ids, x # s PROVE Status(x)' = Status(x) /\ StreamMap(x)' = StreamMap(x)
    <3>1. \A j \in 1..N : session_id[v[j]] = x => stream_map'[v[j]] = stream_map[v[j]]
      BY <2>2, <2>4, <1>1, <1>2, <1>3, <1>4
    <3>2. ShownAs(x) /\ ShownAs(x)'
      BY <2>3
    <3> QED
      BY <3>1, <3>2, <1>1, <1>4 DEF ShownAs
  <2>5. /\ Status(s)' = Status(s) /\ Status(s) = status[o]
        /\ StreamMap(s) = stream_map[o] /\ StreamMap(s)' = stream_map'[o]
    <3>1. \A j \in 1..N : session_id[v[j]] = s => v[j] = o
      BY <2>1, <2>2, <1>4
    <3>2. ShownAs(s) /\ ShownAs(s)'
      BY <2>3
    <3> QED
      BY <3>1, <3>2, <2>1, <2>2, <1>1 DEF ShownAs
  <2>6. stream_map'[o] = [stream_map[o] EXCEPT ![st] = value]
    BY <1>1, <1>2, <1>3
  <2>7. [x \in Ids |-> Status(x)]' = [x \in Ids |-> Status(x)]
    BY <2>4, <2>5
  <2>8. [x \in Ids |-> StreamMap(x)]' = [[x \in Ids |-> StreamMap(x)] EXCEPT ![s][st] = value]
    BY <2>2, <2>4, <2>5, <2>6
  <2> QED
    BY <2>2, <2>5, <2>7, <2>8 DEF InfoTable, StreamTable
<1> QED
  BY <1>5, <1>6

\* AddStream and RemoveStream of a pointer are steps of the table or change nothing in it.
LEMMA CallerSteps ==
  ASSUME VectorInv, VectorInv', NEW c \in Callers, NEW st \in Streams, AddStream(c, st) \/ RemoveStream(c, st)
  PROVE  Table!InfoNext \/ UNCHANGED Table!infoVars
<1> DEFINE o == held[c]
<1>1. CASE AddStream(c, st)
  <2>1. PICK value : value = (IF stream_map[o][st] = "none" THEN "live" ELSE stream_map[o][st]) /\ held[c] # NULL /\ UseStream(c, st, value)
    BY <1>1 DEF AddStream
  <2>2. CASE \E s \in Ids : Status(s) # "none" /\ StreamMap(s) = stream_map[o] /\ InfoTable' = InfoTable /\ StreamTable' = [StreamTable EXCEPT ![s][st] = value]
    <3>1. PICK s \in Ids : Status(s) # "none" /\ StreamMap(s) = stream_map[o] /\ InfoTable' = InfoTable /\ StreamTable' = [StreamTable EXCEPT ![s][st] = value]
      BY <2>2
    <3>2. InfoTable[s] = Status(s) /\ StreamTable[s] = StreamMap(s)
      BY DEF InfoTable, StreamTable
    <3>3. value = IF InfoTable[s] # "none" /\ StreamTable[s][st] = "none" THEN "live" ELSE StreamTable[s][st]
      BY <3>1, <3>2, <2>1
    <3>4. StreamTable' = [StreamTable EXCEPT ![s][st] = IF InfoTable[s] # "none" /\ @ = "none" THEN "live" ELSE @] /\ InfoTable' = InfoTable
      BY <3>1, <3>3
    <3>5. Table!AddStreamInfo(s, st)
      BY <3>4 DEF Table!AddStreamInfo, InfoTable, StreamTable
    <3> QED
      BY <3>5, Zenon DEF Table!InfoNext
  <2>3. \/ UNCHANGED Table!infoVars
        \/ \E s \in Ids : Status(s) # "none" /\ StreamMap(s) = stream_map[o] /\ InfoTable' = InfoTable /\ StreamTable' = [StreamTable EXCEPT ![s][st] = value]
    BY <2>1, StreamIsStream
  <2> QED
    BY <2>2, <2>3, Zenon
<1>2. CASE RemoveStream(c, st)
  <2>1. PICK value : value = (IF stream_map[o][st] = "none" THEN "none" ELSE "leave") /\ held[c] # NULL /\ UseStream(c, st, value)
    BY <1>2 DEF RemoveStream
  <2>2. CASE \E s \in Ids : Status(s) # "none" /\ StreamMap(s) = stream_map[o] /\ InfoTable' = InfoTable /\ StreamTable' = [StreamTable EXCEPT ![s][st] = value]
    <3>1. PICK s \in Ids : Status(s) # "none" /\ StreamMap(s) = stream_map[o] /\ InfoTable' = InfoTable /\ StreamTable' = [StreamTable EXCEPT ![s][st] = value]
      BY <2>2
    <3>2. StreamTable[s] = StreamMap(s)
      BY DEF StreamTable
    <3>3. value = IF StreamTable[s][st] = "none" THEN "none" ELSE "leave"
      BY <3>1, <3>2, <2>1
    <3>4. StreamTable' = [StreamTable EXCEPT ![s][st] = IF @ = "none" THEN "none" ELSE "leave"] /\ InfoTable' = InfoTable
      BY <3>1, <3>3
    <3>5. Table!RemoveStreamInfo(s, st)
      BY <3>4 DEF Table!RemoveStreamInfo, InfoTable, StreamTable
    <3> QED
      BY <3>5, Zenon DEF Table!InfoNext
  <2>3. \/ UNCHANGED Table!infoVars
        \/ \E s \in Ids : Status(s) # "none" /\ StreamMap(s) = stream_map[o] /\ InfoTable' = InfoTable /\ StreamTable' = [StreamTable EXCEPT ![s][st] = value]
    BY <2>1, StreamIsStream
  <2> QED
    BY <2>2, <2>3, Zenon
<1> QED
  BY <1>1, <1>2

\* Every step of the vector is one of the table or is not seen in it.
LEMMA VectorIsTable ==
  ASSUME VectorInv, VectorInv', [AllNext]_allVars
  PROVE  [Table!InfoNext]_(Table!infoVars)
<1>1. Next \/ UNCHANGED vars
  BY DEF AllNext, allVars
<1>2. CASE \E s \in Ids : AddSession(s)
  BY <1>2, AddIsAdd DEF Table!InfoNext
<1>3. CASE \E s \in Ids : RemoveSession(s)
  BY <1>3, RemoveIsRemove DEF Table!InfoNext
<1>4. CASE \E c \in Callers, st \in Streams : AddStream(c, st) \/ RemoveStream(c, st)
  BY <1>4, CallerSteps
<1>5. CASE (\E c \in Callers, s \in Ids : GetPointer(c, s)) \/ Tick \/ UNCHANGED vars
  <2>1. UNCHANGED <<session_vector, session_id, status, stream_map>>
    BY <1>5 DEF GetPointer, Tick, vars, objVars
  <2> QED
    BY <2>1, SameTable
<1> QED
  BY <1>1, <1>2, <1>3, <1>4, <1>5 DEF Next

\* The vector with its sort, its eviction and the pointers of its callers implements the
\* table that the stream service is modelled with: AddSession drops a destroyed entry
\* before a live one, and what is done through a pointer to an evicted entry is not seen.
THEOREM VectorRefinesTable == AllSpec => RefinesStatusz
<1>1. AllInit => VectorInv
  BY VectorInit DEF AllInit
<1>2. AllInit => Table!InfoInit
  <2> SUFFICES ASSUME AllInit PROVE Table!InfoInit
    OBVIOUS
  <2>1. VectorInv /\ session_vector = << >>
    BY <1>1 DEF AllInit, Init
  <2>2. \A s \in Ids : Status(s) = "none" /\ StreamMap(s) = [st \in Streams |-> "none"]
    BY <2>1, Shown DEF ShownAs
  <2> QED
    BY <2>2 DEF Table!InfoInit
<1>3. VectorInv /\ VectorInv' /\ [AllNext]_allVars => [Table!InfoNext]_(Table!infoVars)
  BY VectorIsTable
<1> QED
  BY <1>1, <1>2, <1>3, VectorStep, PTL DEF AllSpec, RefinesStatusz, Table!InfoSpec

-------------------------------------------------------------------------------
(* Numbers that wrap.                                                        *)

\* A number is its quotient and its remainder.
LEMMA Division ==
  ASSUME NEW W \in Nat \ {0}, NEW a \in Int
  PROVE  /\ a % W \in 0..(W - 1) /\ a \div W \in Int
         /\ a = W * (a \div W) + (a % W)
OBVIOUS

\* Of two numbers less than W apart the quotients differ by at most one.
LEMMA Quotients ==
  ASSUME NEW W \in Nat \ {0}, NEW a \in Int, NEW b \in Int, b <= a, a - b < W
  PROVE  \/ (a % W) - (b % W) = a - b /\ a \div W = b \div W
         \/ (a % W) - (b % W) = (a - b) - W /\ a \div W = (b \div W) + 1
<1> DEFINE qa == a \div W
           qb == b \div W
           d == qa - qb
<1>1. /\ a % W \in 0..(W - 1) /\ b % W \in 0..(W - 1) /\ qa \in Int /\ qb \in Int
      /\ a = W * qa + (a % W) /\ b = W * qb + (b % W)
  BY Division
<1> HIDE DEF qa, qb
<1>2. d \in Int /\ W * qa - W * qb = W * d
  BY <1>1
<1>3. W * d = (a - b) - ((a % W) - (b % W))
  BY <1>1, <1>2
<1> HIDE DEF d
<1>4. W * d > -W /\ W * d < 2 * W
  BY <1>1, <1>3
<1>5. d >= 2 => W * d >= 2 * W
  BY <1>2
<1>6. d <= -1 => W * d <= -W
  BY <1>2
<1>7. d = 0 \/ d = 1
  BY <1>2, <1>4, <1>5, <1>6
<1>8. (d = 0 => W * d = 0) /\ (d = 1 => W * d = W)
  OBVIOUS
<1>9. (d = 0 => qa = qb) /\ (d = 1 => qa = qb + 1)
  BY <1>1 DEF d
<1> QED
  BY <1>1, <1>3, <1>7, <1>8, <1>9 DEF qa, qb

\* Numbers less than half the space apart are ordered by their remainders: what
\* dataPacketComparator and rtpSequenceLessThan rely on.
LEMMA WrapOrder ==
  ASSUME NEW W \in Nat \ {0}, NEW a \in Int, NEW b \in Int,
         a - b < W \div 2, b - a < W \div 2
  PROVE  LET diff == (a % W) - (b % W)
         IN  /\ ((diff > 0 /\ diff < W \div 2) \/ diff < -(W \div 2)) <=> a > b
             /\ a % W = b % W => a = b
<1> DEFINE H == W \div 2
<1>1. H \in Nat /\ H + H <= W
  OBVIOUS
<1> HIDE DEF H
<1>2. a % W \in Int /\ b % W \in Int
  BY Division
<1>3. CASE b <= a
  <2>2. a - b < W
    BY <1>1 DEF H
  <2>1. (a % W) - (b % W) = a - b \/ (a % W) - (b % W) = (a - b) - W
    BY <2>2, <1>3, Quotients, Zenon
  <2> QED
    BY <2>1, <1>1, <1>2, <1>3 DEF H
<1>4. CASE a < b
  <2>2. a <= b /\ b - a < W
    BY <1>1, <1>4 DEF H
  <2>1. (b % W) - (a % W) = b - a \/ (b % W) - (a % W) = (b - a) - W
    BY <2>2, Quotients, Zenon
  <2> QED
    BY <2>1, <1>1, <1>2, <1>4 DEF H
<1> QED
  BY <1>3, <1>4

-------------------------------------------------------------------------------
(* RtpPacketBuffer.                                                          *)

\* What the proof of PopsInOrder and KeyFrameIsFirst needs.  A packet older than the one
\* that was reached has been overtaken by more than Prebuffering entries of later ones, so
\* that an entry that is not late is not older.
Overtaken ==
  \A m \in Buffer!Packets : m < reached => Cardinality({e \in pushed : e[1] > m}) > Prebuffering

Newer == \A e \in queue_ : e \in late \/ e[1] >= reached

Close == \A e, f \in queue_ : e[1] # f[1] => e[1] - f[1] < Buffer!Half

KeyStored ==
  buffer_type_ = "STORAGE" =>
    IF has_key_frame_
    THEN /\ \E e \in queue_ : e[1] = stored
         /\ key_frame_seq_ = Buffer!SeqNumber(stored)
         /\ \A e \in queue_ : \/ e[1] >= stored
                              \/ (FirstNumber + e[1]) \div Wrap < (FirstNumber + stored) \div Wrap
    ELSE queue_ = {}

BufferInv == Buffer!TypeOK /\ Overtaken /\ Newer /\ Close /\ KeyStored

LEMMA BufferCounts == ASSUME NEW S PROVE Buffer!Cardinality(S) = Cardinality(S)
BY DEF Buffer!Cardinality, Cardinality

\* The constants of the buffer, its packets and its entries.
LEMMA BufferFacts ==
  /\ Wrap \in Nat \ {0} /\ FirstNumber \in 0..(Wrap - 1) /\ MaxPackets \in Nat
  /\ Prebuffering \in Nat /\ MaxCopies \in Nat
  /\ Buffer!Packets \subseteq Nat
  /\ \A S \in SUBSET Buffer!Entries : IsFiniteSet(S) /\ Cardinality(S) \in Nat
  /\ \A e \in Buffer!Entries : e[1] \in Buffer!Packets /\ e[1] \in Nat
  /\ \A n \in Int : Buffer!SeqNumber(n) \in 0..(Wrap - 1)
<1>1. /\ Wrap \in Nat \ {0} /\ FirstNumber \in 0..(Wrap - 1) /\ MaxPackets \in Nat
      /\ Prebuffering \in Nat /\ MaxCopies \in Nat
  BY StructuresAssumption DEF Buffer!BufferAssumption
<1>2. IsFiniteSet(0..(MaxPackets - 1)) /\ IsFiniteSet(0..MaxCopies)
  BY <1>1, FS_Interval
<1>3. IsFiniteSet(Buffer!Entries)
  BY <1>2, FS_Product DEF Buffer!Entries, Buffer!Packets
<1>4. \A S \in SUBSET Buffer!Entries : IsFiniteSet(S) /\ Cardinality(S) \in Nat
  BY <1>3, FS_Subset, FS_CardinalityType
<1>5. Buffer!Packets \subseteq Nat
  BY <1>1 DEF Buffer!Packets
<1>6. \A e \in Buffer!Entries : e[1] \in Buffer!Packets /\ e[1] \in Nat
  BY <1>5 DEF Buffer!Entries
<1>7. \A n \in Int : Buffer!SeqNumber(n) \in 0..(Wrap - 1)
  BY <1>1 DEF Buffer!SeqNumber
<1> QED
  BY <1>1, <1>4, <1>5, <1>6, <1>7

\* The priority queue is in sending order: the packet on top is the oldest.
LEMMA TopIsOldest ==
  ASSUME \A e \in queue_ : e[1] \in Nat, queue_ # {}, Close
  PROVE  Buffer!Top \in queue_ /\ \A e \in queue_ : Buffer!Top[1] <= e[1]
<1> DEFINE C(n, m) == Buffer!Comparator(Buffer!SeqNumber(n), Buffer!SeqNumber(m))
           N == {e[1] : e \in queue_}
<1>1. ASSUME NEW e \in queue_, NEW f \in queue_ PROVE C(e[1], f[1]) <=> e[1] > f[1]
  <2> DEFINE n == e[1]
             m == f[1]
  <2>1. FirstNumber \in Int /\ Wrap \in Nat \ {0} /\ n \in Nat /\ m \in Nat
    BY BufferFacts
  <2>4. n # m => n - m < Buffer!Half /\ m - n < Buffer!Half
    BY DEF Close
  <2> HIDE DEF n, m
  <2>2. CASE n = m
    <3>1. ((FirstNumber + n) % Wrap) - ((FirstNumber + m) % Wrap) = 0
      BY <2>1, <2>2, Division
    <3>2. C(n, m) <=> n > m
      BY <2>2, <3>1, <2>1 DEF Buffer!Comparator, Buffer!SeqNumber, Buffer!Half
    <3> QED
      BY <3>2 DEF n, m
  <2>3. CASE n # m
    <3> DEFINE a == FirstNumber + n
               b == FirstNumber + m
    <3>1. a \in Int /\ b \in Int /\ a - b < Wrap \div 2 /\ b - a < Wrap \div 2
      BY <2>1, <2>3, <2>4 DEF Buffer!Half
    <3>2. ((((a % Wrap) - (b % Wrap) > 0 /\ (a % Wrap) - (b % Wrap) < Wrap \div 2)
             \/ (a % Wrap) - (b % Wrap) < -(Wrap \div 2)) <=> a > b)
      <4> HIDE DEF a, b
      <4> QED
        BY <3>1, <2>1, WrapOrder, Zenon
    <3>3. a > b <=> n > m
      BY <2>1
    <3>4. C(n, m) <=> n > m
      BY <3>2, <3>3 DEF Buffer!Comparator, Buffer!SeqNumber, Buffer!Half
    <3> QED
      BY <3>4 DEF n, m
  <2> QED
    BY <2>2, <2>3
<1>2. Min(N) \in N /\ \A y \in N : Min(N) <= y
  <2>1. N \subseteq Nat /\ N # {}
    OBVIOUS
  <2> HIDE DEF N
  <2> QED
    BY <2>1, LeastOf
<1>3. PICK o \in queue_ : o[1] = Min(N)
  BY <1>2
<1>4. \A f \in queue_ : o[1] <= f[1] /\ o[1] \in Nat /\ f[1] \in Nat
  BY <1>2, <1>3
<1> HIDE DEF C
<1>5. \A f \in queue_ : ~C(o[1], f[1])
  <2> TAKE f \in queue_
  <2>1. C(o[1], f[1]) <=> o[1] > f[1]
    BY <1>1, <1>3, Zenon
  <2>2. ~(o[1] > f[1])
    BY <1>4
  <2> QED
    BY <2>1, <2>2, Zenon
<1>6. Buffer!Top \in queue_ /\ \A f \in queue_ : ~C(Buffer!Top[1], f[1])
  BY <1>3, <1>5, Zenon DEF Buffer!Top, C
<1>7. ASSUME NEW f \in queue_ PROVE Buffer!Top[1] <= f[1]
  <2>1. ~(Buffer!Top[1] > f[1])
    BY <1>1, <1>6, Zenon
  <2>2. Buffer!Top[1] \in Nat /\ f[1] \in Nat
    BY <1>6, Zenon
  <2> QED
    BY <2>1, <2>2
<1> QED
  BY <1>6, <1>7

\* More entries are pushed: what was overtaken stays so.
LEMMA OvertakenStays ==
  ASSUME Overtaken, pushed \subseteq pushed', pushed' \subseteq Buffer!Entries, reached' = reached
  PROVE  Overtaken'
<1> SUFFICES ASSUME NEW m \in Buffer!Packets, m < reached
             PROVE  Cardinality({e \in pushed' : e[1] > m}) > Prebuffering
  BY DEF Overtaken
<1> DEFINE S == {e \in pushed : e[1] > m}
           T == {e \in pushed' : e[1] > m}
<1>1. Cardinality(S) > Prebuffering
  BY DEF Overtaken
<1>2. S \in SUBSET T /\ T \in SUBSET Buffer!Entries /\ S \in SUBSET Buffer!Entries
  OBVIOUS
<1> HIDE DEF S, T
<1>3. Cardinality(S) <= Cardinality(T) /\ Cardinality(S) \in Nat /\ Cardinality(T) \in Nat
  BY <1>2, BufferFacts, FS_Subset
<1>4. Cardinality(T) > Prebuffering
  BY <1>1, <1>3, BufferFacts
<1> QED
  BY <1>4 DEF T

\* PushPacket: an entry that is not late is not older than what was popped, and a key
\* frame stays in front.
LEMMA PushKeeps ==
  ASSUME BufferInv, NEW n \in Buffer!Packets, Buffer!PushPacket(n)
  PROVE  BufferInv'
<1> DEFINE new == Buffer!Entry(n)
<1>1. /\ Buffer!Arrives(n) /\ UNCHANGED <<buffer_type_, popped, reached>>
      /\ \/ buffer_type_ = "NORMAL" /\ Buffer!PushNormal(n)
         \/ buffer_type_ = "STORAGE" /\ Buffer!PushStorage(n)
         \/ buffer_type_ = "PLAY" /\ Buffer!PushPlay(n)
      /\ pushed' = pushed \cup queue_'
      /\ late' = IF Cardinality(Buffer!Later(n)) > Prebuffering THEN late \cup (queue_' \ queue_) ELSE late
  BY BufferCounts DEF Buffer!PushPacket
<1>2. \A e \in queue_ : e[1] - n < Buffer!Half /\ n - e[1] < Buffer!Half
  BY <1>1 DEF Buffer!Arrives
<1>3. /\ Buffer!Packets \subseteq Nat /\ Wrap \in Nat \ {0} /\ FirstNumber \in 0..(Wrap - 1)
      /\ Buffer!SeqNumber(n) \in 0..(Wrap - 1) /\ n \in Nat /\ Prebuffering \in Nat
  BY BufferFacts
<1>4. /\ Buffer!TypeOK /\ Overtaken /\ Newer /\ Close /\ KeyStored
      /\ queue_ \subseteq pushed /\ late \subseteq pushed /\ pushed \subseteq Buffer!Entries
      /\ \A e \in pushed : e[1] \in Nat
  BY BufferFacts DEF BufferInv, Buffer!TypeOK
<1>5. new \in Buffer!Entries /\ new[1] = n
  <2>1. {e \in pushed : e[1] = n} \in SUBSET Buffer!Entries
    BY <1>4
  <2>2. Buffer!Copies(n) \in Nat
    BY <2>1, BufferFacts, BufferCounts DEF Buffer!Copies
  <2>3. Buffer!Copies(n) \in 0..MaxCopies
    BY <2>2, <1>1, BufferFacts DEF Buffer!Arrives
  <2> QED
    BY <2>3 DEF Buffer!Entry, Buffer!Entries
<1>6. \/ queue_' = {} \/ queue_' = {new} \/ queue_' = queue_ \/ queue_' = queue_ \cup {new}
  BY <1>1 DEF Buffer!PushNormal, Buffer!PushStorage, Buffer!PushPlay
<1> HIDE DEF new
<1>7. queue_' \subseteq queue_ \cup {new}
  BY <1>6
<1>8. Newer'
  <2> SUFFICES ASSUME NEW e \in queue_', e \notin late' PROVE e[1] >= reached
    BY <1>1 DEF Newer
  <2>1. CASE e \in queue_
    BY <2>1, <1>1, <1>4 DEF Newer
  <2>2. CASE e \notin queue_
    <3>1. e = new /\ ~(Cardinality(Buffer!Later(n)) > Prebuffering)
      BY <2>2, <1>1, <1>7
    <3>2. ~(n < reached)
      BY <3>1, <1>4 DEF Overtaken, Buffer!Later
    <3>3. reached \in Int
      BY <1>3, <1>4 DEF Buffer!TypeOK
    <3> QED
      BY <3>1, <3>2, <3>3, <1>3, <1>5
  <2> QED
    BY <2>1, <2>2
<1>9. Close'
  BY <1>2, <1>3, <1>4, <1>5, <1>7 DEF Close
<1>10. pushed \subseteq pushed' /\ pushed' \subseteq Buffer!Entries /\ queue_' \subseteq pushed' /\ late' \subseteq pushed'
  BY <1>1, <1>4, <1>5, <1>7
<1>11. Overtaken'
  BY <1>1, <1>4, <1>10, OvertakenStays
<1>12. Buffer!TypeOK'
  <2>1. /\ stored' \in Buffer!Packets \cup {-1} /\ key_frame_seq_' \in 0..(Wrap - 1)
        /\ has_key_frame_' \in BOOLEAN
    BY <1>1, <1>3, <1>4 DEF Buffer!TypeOK, Buffer!PushNormal, Buffer!PushStorage, Buffer!PushPlay
  <2>2. buffer_type_' = "NORMAL" => queue_' = {}
    BY <1>1 DEF Buffer!PushNormal
  <2>3. popped' \in pushed' \cup {Buffer!None} /\ reached' \in Buffer!Packets \cup {-1}
        /\ buffer_type_' \in {"NORMAL", "STORAGE", "PLAY"}
    BY <1>1, <1>4, <1>10 DEF Buffer!TypeOK
  <2> QED
    BY <2>1, <2>2, <2>3, <1>10 DEF Buffer!TypeOK
<1>13. KeyStored'
  <2> SUFFICES ASSUME buffer_type_ = "STORAGE"
               PROVE  IF has_key_frame_'
                      THEN /\ \E e \in queue_' : e[1] = stored'
                           /\ key_frame_seq_' = Buffer!SeqNumber(stored')
                           /\ \A e \in queue_' : \/ e[1] >= stored'
                                                 \/ (FirstNumber + e[1]) \div Wrap < (FirstNumber + stored') \div Wrap
                      ELSE queue_' = {}
    BY <1>1 DEF KeyStored, Buffer!SeqNumber
  <2>1. Buffer!PushStorage(n)
    BY <1>1
  <2>2. CASE Buffer!IsKeyFramePacket(n)
    <3>1. queue_' = {new} /\ stored' = n /\ has_key_frame_' = TRUE /\ key_frame_seq_' = Buffer!SeqNumber(n)
      BY <2>1, <2>2 DEF Buffer!PushStorage, new
    <3> QED
      BY <3>1, <1>3, <1>5
  <2>3. CASE ~Buffer!IsKeyFramePacket(n)
    <3>1. /\ queue_' = IF has_key_frame_ /\ Buffer!SeqNumber(n) > key_frame_seq_ THEN queue_ \cup {new} ELSE queue_
          /\ UNCHANGED <<stored, has_key_frame_, key_frame_seq_>>
      BY <2>1, <2>3 DEF Buffer!PushStorage, new
    <3>2. CASE ~has_key_frame_
      BY <3>1, <3>2, <1>4 DEF KeyStored
    <3>3. CASE has_key_frame_
      <4>1. /\ \E e \in queue_ : e[1] = stored
            /\ key_frame_seq_ = Buffer!SeqNumber(stored)
            /\ \A e \in queue_ : e[1] >= stored \/ (FirstNumber + e[1]) \div Wrap < (FirstNumber + stored) \div Wrap
        BY <3>3, <1>4 DEF KeyStored
      <4>2. CASE queue_' = queue_
        BY <3>1, <3>3, <4>1, <4>2
      <4>3. CASE Buffer!SeqNumber(n) > key_frame_seq_
        <5> DEFINE a == FirstNumber + stored
                   b == FirstNumber + n
        <5>1. a \in Int /\ b \in Int /\ n \in Int /\ stored \in Int /\ FirstNumber \in Int
          BY <4>1, <1>3, <1>4
        <5>2. (b % Wrap) > (a % Wrap)
          BY <4>1, <4>3 DEF Buffer!SeqNumber
        <5>3. ASSUME n < stored PROVE b \div Wrap < a \div Wrap
          <6>1. stored - n < Buffer!Half
            BY <4>1, <1>2
          <6>2. b <= a /\ a - b < Wrap
            BY <5>1, <5>3, <6>1, <1>3 DEF Buffer!Half
          <6> HIDE DEF a, b
          <6>3. \/ (a % Wrap) - (b % Wrap) = a - b /\ a \div Wrap = b \div Wrap
                \/ (a % Wrap) - (b % Wrap) = (a - b) - Wrap /\ a \div Wrap = (b \div Wrap) + 1
            BY <5>1, <6>2, <1>3, Quotients, Zenon
          <6>4. a % Wrap \in Int /\ b % Wrap \in Int /\ b \div Wrap \in Int
            BY <5>1, <1>3, Division
          <6>5. ~((a % Wrap) - (b % Wrap) = a - b)
            BY <5>1, <5>2, <6>2, <6>4
          <6> QED
            BY <6>3, <6>4, <6>5
        <5>4. new[1] >= stored \/ (FirstNumber + new[1]) \div Wrap < a \div Wrap
          BY <5>1, <5>3, <1>5
        <5> QED
          BY <3>1, <3>3, <4>1, <4>3, <5>4
      <4> QED
        BY <3>1, <4>2, <4>3
    <3> QED
      BY <3>2, <3>3
  <2> QED
    BY <2>2, <2>3
<1> QED
  BY <1>8, <1>9, <1>11, <1>12, <1>13 DEF BufferInv

\* PopPacket gives the oldest entry there is, and goes back for a late one only.
LEMMA PopKeeps ==
  ASSUME BufferInv, Buffer!PopPacket
  PROVE  BufferInv' /\ (popped' \in late \/ popped'[1] >= reached)
<1> DEFINE top == Buffer!Top
<1>1. /\ Cardinality(queue_) > Prebuffering /\ buffer_type_ = "PLAY"
      /\ popped' = top /\ queue_' = queue_ \ {top}
      /\ reached' = IF top[1] > reached THEN top[1] ELSE reached
      /\ UNCHANGED <<buffer_type_, has_key_frame_, key_frame_seq_, pushed, late, stored>>
  BY BufferCounts DEF Buffer!PopPacket, Buffer!PrebufferingDone
<1>2. Buffer!Packets \subseteq Nat /\ Prebuffering \in Nat
  BY BufferFacts
<1>3. \A S \in SUBSET Buffer!Entries : IsFiniteSet(S) /\ Cardinality(S) \in Nat
  BY BufferFacts
<1>4. /\ Buffer!TypeOK /\ Overtaken /\ Newer /\ Close
      /\ queue_ \subseteq pushed /\ pushed \subseteq Buffer!Entries
      /\ \A e \in pushed : e[1] \in Nat /\ e[1] \in Buffer!Packets
      /\ reached \in Buffer!Packets \cup {-1} /\ reached \in Int
  BY BufferFacts DEF BufferInv, Buffer!TypeOK
<1>5. queue_ # {}
  BY <1>1, <1>2, FS_EmptySet
<1>6. top \in queue_ /\ \A e \in queue_ : top[1] <= e[1]
  BY <1>4, <1>5, TopIsOldest
<1> HIDE DEF top
<1>7. popped' \in late \/ popped'[1] >= reached
  BY <1>1, <1>4, <1>6 DEF Newer
<1>8. Newer'
  <2> SUFFICES ASSUME NEW e \in queue_, e \notin late PROVE e[1] >= reached'
    BY <1>1 DEF Newer
  <2>1. e[1] >= reached /\ e[1] >= top[1] /\ e[1] \in Nat /\ top[1] \in Nat
    BY <1>4, <1>6 DEF Newer
  <2> QED
    BY <2>1, <1>1
<1>9. Close'
  BY <1>1, <1>4 DEF Close
<1>10. Overtaken'
  <2> SUFFICES ASSUME NEW m \in Buffer!Packets, m < reached'
               PROVE  Cardinality({e \in pushed : e[1] > m}) > Prebuffering
    BY <1>1 DEF Overtaken
  <2>1. CASE m < reached
    BY <2>1, <1>4 DEF Overtaken
  <2>2. CASE ~(m < reached)
    <3> DEFINE T == {e \in pushed : e[1] > m}
    <3>1. m < top[1]
      BY <2>2, <1>1
    <3>2. \A e \in queue_ : e[1] > m
      <4> TAKE e \in queue_
      <4>1. top[1] <= e[1] /\ top[1] \in Nat /\ e[1] \in Nat /\ m \in Nat
        BY <1>2, <1>4, <1>6, Zenon
      <4> QED
        BY <4>1, <3>1
    <3>3. queue_ \in SUBSET T /\ T \in SUBSET Buffer!Entries /\ queue_ \in SUBSET Buffer!Entries
      BY <3>2, <1>4
    <3> HIDE DEF T
    <3>4. Cardinality(queue_) <= Cardinality(T) /\ Cardinality(T) \in Nat /\ Cardinality(queue_) \in Nat
      BY <3>3, <1>3, FS_Subset
    <3>5. Cardinality(T) > Prebuffering
      BY <3>4, <1>1, <1>2
    <3> QED
      BY <3>5 DEF T
  <2> QED
    BY <2>1, <2>2
<1>11. Buffer!TypeOK'
  BY <1>1, <1>4, <1>6 DEF Buffer!TypeOK
<1>12. KeyStored'
  BY <1>1 DEF KeyStored
<1> QED
  BY <1>7, <1>8, <1>9, <1>10, <1>11, <1>12 DEF BufferInv

\* Every step keeps the invariant, and PopPacket goes back for late entries only.
LEMMA BufferStep ==
  ASSUME BufferInv, [AllNext]_allVars
  PROVE  BufferInv' /\ (popped' # popped => popped' \in late \/ popped'[1] >= reached)
<1>1. CASE \E n \in Buffer!Packets : Buffer!PushPacket(n)
  <2>1. PICK n \in Buffer!Packets : Buffer!PushPacket(n)
    BY <1>1
  <2> QED
    BY <2>1, PushKeeps DEF Buffer!PushPacket
<1>2. CASE Buffer!PopPacket
  BY <1>2, PopKeeps
<1>3. CASE Buffer!Store \/ Buffer!Play \/ Buffer!Rest
  <2>1. UNCHANGED <<pushed, late, popped, reached>> /\ (queue_' = queue_ \/ queue_' = {})
    BY <1>3 DEF Buffer!Store, Buffer!Play, Buffer!Rest
  <2>2. Overtaken' /\ Newer' /\ Close'
    BY <2>1 DEF BufferInv, Overtaken, Newer, Close
  <2>3. Buffer!TypeOK'
    BY <2>1, <1>3 DEF BufferInv, Buffer!TypeOK, Buffer!Store, Buffer!Play, Buffer!Rest
  <2>4. KeyStored'
    BY <1>3 DEF KeyStored, Buffer!Store, Buffer!Play, Buffer!Rest
  <2> QED
    BY <2>1, <2>2, <2>3, <2>4 DEF BufferInv
<1>4. CASE UNCHANGED bufferVars
  BY <1>4 DEF bufferVars, BufferInv, Buffer!TypeOK, Overtaken, Newer, Close, KeyStored
<1> QED
  BY <1>1, <1>2, <1>3, <1>4 DEF AllNext, allVars, Buffer!Next

\* PopPacket gives the packets in the order they were sent in, with any number of copies
\* and losses, for every prebuffering, size of the number space and first number, and
\* whatever the buffer is used for in between; it goes back only for an entry that came
\* after more than prebuffering_size_ entries of later packets.  The key frame a
\* STORAGE_BUFFER was emptied for is the first in it but for a wrap.
THEOREM FramesStayInOrder == AllSpec => FramesInOrder
<1>1. AllInit => BufferInv
  <2> SUFFICES ASSUME AllInit PROVE BufferInv
    OBVIOUS
  <2>1. /\ buffer_type_ \in {"NORMAL", "PLAY"}
        /\ queue_ = {} /\ has_key_frame_ = FALSE /\ key_frame_seq_ = 0
        /\ pushed = {} /\ late = {} /\ popped = Buffer!None /\ reached = -1 /\ stored = -1
    BY DEF AllInit, Buffer!Init
  <2>2. Wrap \in Nat \ {0} /\ Buffer!Packets \subseteq Nat
    BY BufferFacts
  <2>3. Buffer!TypeOK
    <3>1. key_frame_seq_ \in 0..(Wrap - 1)
      BY <2>1, <2>2
    <3>2. reached \in Buffer!Packets \cup {-1} /\ stored \in Buffer!Packets \cup {-1}
      BY <2>1
    <3>3. /\ queue_ \subseteq pushed /\ late \subseteq pushed /\ pushed \subseteq Buffer!Entries
          /\ has_key_frame_ \in BOOLEAN /\ popped \in pushed \cup {Buffer!None}
      BY <2>1, Zenon
    <3> QED
      BY <2>1, <3>1, <3>2, <3>3, Zenon DEF Buffer!TypeOK
  <2>4. Overtaken
    BY <2>1, <2>2 DEF Overtaken
  <2>5. Newer /\ Close /\ KeyStored
    BY <2>1 DEF Newer, Close, KeyStored
  <2> QED
    BY <2>3, <2>4, <2>5 DEF BufferInv
<1>2. BufferInv /\ [AllNext]_allVars => BufferInv'
  BY BufferStep
<1>3. BufferInv /\ [AllNext]_allVars =>
        [popped' # popped => popped' \in late \/ popped'[1] >= reached]_(Buffer!vars)
  BY BufferStep
<1>4. BufferInv => (part = "buffer" => Buffer!TypeOK /\ Buffer!KeyFrameIsFirst)
  BY DEF BufferInv, KeyStored, Buffer!KeyFrameIsFirst
<1> QED
  BY <1>1, <1>2, <1>3, <1>4, PTL DEF AllSpec, FramesInOrder, Buffer!PopsInOrder

-------------------------------------------------------------------------------
(* RtpPacketQueue.                                                           *)

\* The packets of q go down from the front.
Down(q) == \A m, n \in 1..Len(q) : m < n => q[m] > q[n]

\* The number given last is that of the last packet delivered.
LastIsGiven ==
  skipOld => IF delivered = << >> THEN last = -1 ELSE last = Queue!SeqNumber(delivered[Len(delivered)])

\* No more packets are there than have arrived, none further than the window takes it.
FewArrived ==
  /\ Len(queue) + (IF pushing = NULL THEN 0 ELSE 1) <= queued
  /\ QueueWindow <= highest /\ highest <= QueueWindow * (queued + 1)

\* What waits, what is being pushed and what was given last are less than half the numbers
\* apart, however long the stream is: a packet that is given leaves its place to another
\* of them.
AllNear ==
  /\ \A i, j \in 1..Len(queue) : Queue!Near(queue[i], queue[j])
  /\ pushing # NULL => \A i \in 1..Len(queue) : Queue!Near(queue[i], pushing)
  /\ delivered # << >> =>
       /\ \A i \in 1..Len(queue) : Queue!Near(queue[i], delivered[Len(delivered)])
       /\ pushing # NULL => Queue!Near(pushing, delivered[Len(delivered)])

QueueInv == /\ Queue!TypeOK /\ Queue!QueueInOrder /\ Queue!NeverGoesBack /\ Queue!DiscardsOnlyOld
            /\ LastIsGiven /\ FewArrived /\ AllNear

\* The constants of the queue.
LEMMA QueueFacts ==
  /\ QueueSpace \in Nat \ {0} /\ QueueWindow \in Nat /\ MaxQueued \in Nat
  /\ QueueStarts \subseteq 0..(QueueSpace - 1)
  /\ Queue!Indices \subseteq Nat /\ QueueSpace \div 2 \in Nat \ {0}
  /\ NULL \notin Nat /\ MaxDepth \in Nat
<1>1. /\ QueueSpace \in Nat \ {0} /\ QueueSpace % 2 = 0 /\ QueueWindow \in Nat /\ MaxQueued \in Nat
      /\ QueueStarts \subseteq 0..(QueueSpace - 1) /\ NULL \notin Nat /\ MaxDepth \in Nat
  BY StructuresAssumption DEF Queue!QueueAssumption
<1>2. Queue!Indices \subseteq Nat
  BY <1>1 DEF Queue!Indices
<1>3. QueueSpace \div 2 \in Nat \ {0}
  BY <1>1
<1> QED
  BY <1>1, <1>2, <1>3

\* What Near says, and that the order of the two does not matter.
LEMMA NearIs ==
  ASSUME NEW a \in Nat, NEW b \in Nat
  PROVE  /\ Queue!Near(a, b) <=> Queue!Near(b, a)
         /\ Queue!Near(a, a)
BY QueueFacts DEF Queue!Near

LEMMA NumberIs ==
  ASSUME queueFirst \in QueueStarts, NEW a \in Queue!Indices
  PROVE  Queue!SeqNumber(a) \in 0..(QueueSpace - 1)
<1>1. queueFirst + a \in Int /\ QueueSpace \in Nat \ {0}
  BY QueueFacts
<1> QED
  BY <1>1, Division DEF Queue!SeqNumber

\* The sequence numbers of the packets in play are in the order of their indices.
LEMMA IndexOrder ==
  ASSUME queueFirst \in QueueStarts, NEW a \in Queue!Indices, NEW b \in Queue!Indices, Queue!Near(a, b)
  PROVE  /\ Queue!rtpSequenceLessThan(Queue!SeqNumber(a), Queue!SeqNumber(b)) <=> a < b
         /\ Queue!SeqNumber(a) = Queue!SeqNumber(b) <=> a = b
<1> DEFINE x == queueFirst + a
           y == queueFirst + b
           H == QueueSpace \div 2
<1>1. /\ queueFirst \in Nat /\ a \in Nat /\ b \in Nat /\ QueueSpace \in Nat \ {0}
      /\ a - b < H /\ b - a < H
  BY QueueFacts DEF Queue!Near
<1>2. x \in Int /\ y \in Int /\ x - y < QueueSpace \div 2 /\ y - x < QueueSpace \div 2 /\ (y > x <=> a < b) /\ (y = x <=> a = b)
  BY <1>1
<1>3. x % QueueSpace \in 0..(QueueSpace - 1) /\ y % QueueSpace \in 0..(QueueSpace - 1) /\ H \in Nat
  <2>1. H \in Nat
    BY <1>1
  <2> HIDE DEF H, x, y
  <2> QED
    BY <2>1, <1>1, <1>2, Division
<1>4. /\ Queue!SeqNumber(a) = x % QueueSpace /\ Queue!SeqNumber(b) = y % QueueSpace
  BY DEF Queue!SeqNumber
<1> HIDE DEF x, y
<1>5. /\ (((y % QueueSpace) - (x % QueueSpace) > 0 /\ (y % QueueSpace) - (x % QueueSpace) < QueueSpace \div 2)
           \/ (y % QueueSpace) - (x % QueueSpace) < -(QueueSpace \div 2)) <=> y > x
      /\ y % QueueSpace = x % QueueSpace => y = x
  BY <1>1, <1>2, WrapOrder, Zenon
<1>6. Queue!rtpSequenceLessThan(x % QueueSpace, y % QueueSpace) <=> y > x
  BY <1>3, <1>5 DEF Queue!rtpSequenceLessThan
<1>7. y % QueueSpace = x % QueueSpace <=> y = x
  BY <1>5
<1> QED
  BY <1>2, <1>3, <1>4, <1>6, <1>7

\* A packet is inserted before the one at place k.
LEMMA Inserted ==
  ASSUME NEW I, NEW q \in Seq(I), NEW k \in 1..Len(q), NEW n \in I
  PROVE  LET r == Queue!InsertAt(q, k, n)
         IN  /\ r \in Seq(I) /\ Len(r) = Len(q) + 1 /\ r[k] = n
             /\ \A i \in 1..(k - 1) : r[i] = q[i]
             /\ \A i \in (k + 1)..(Len(q) + 1) : r[i] = q[i - 1]
<1> DEFINE r == Queue!InsertAt(q, k, n)
           a == SubSeq(q, 1, k - 1)
           b == SubSeq(q, k, Len(q))
           c == a \o <<n>>
<1>1. r = (a \o <<n>>) \o b
  BY DEF Queue!InsertAt
<1>2. /\ k \in Nat /\ Len(q) \in Nat /\ 1 <= k /\ k <= Len(q)
      /\ \A i \in 1..Len(q) : q[i] \in I
  OBVIOUS
<1>3. a \in Seq(I) /\ Len(a) = k - 1 /\ \A i \in 1..(k - 1) : a[i] = q[i]
  OBVIOUS
<1>4. /\ b \in Seq(I) /\ Len(b) = Len(q) - k + 1 /\ \A i \in 1..(Len(q) - k + 1) : b[i] = q[k + i - 1]
  OBVIOUS
<1>5. <<n>> \in Seq(I) /\ Len(<<n>>) = 1 /\ <<n>>[1] = n
  OBVIOUS
<1> HIDE DEF a, b
<1>6. /\ c \in Seq(I) /\ Len(c) = k
      /\ \A i \in 1..k : c[i] = IF i <= k - 1 THEN a[i] ELSE <<n>>[i - (k - 1)]
  <2>1. /\ c \in Seq(I) /\ Len(c) = Len(a) + Len(<<n>>)
        /\ \A i \in 1..(Len(a) + Len(<<n>>)) : c[i] = IF i <= Len(a) THEN a[i] ELSE <<n>>[i - Len(a)]
    BY <1>3, <1>5, ConcatProperties, Zenon
  <2>2. Len(a) + Len(<<n>>) = k
    BY <1>2, <1>3, <1>5
  <2> QED
    BY <2>1, <2>2, <1>3, Zenon
<1>7. (\A i \in 1..(k - 1) : c[i] = q[i]) /\ c[k] = n
  <2>1. \A i \in 1..(k - 1) : i \in 1..k /\ i <= k - 1
    BY <1>2
  <2>2. \A i \in 1..(k - 1) : c[i] = q[i]
    BY <2>1, <1>3, <1>6, Zenon
  <2>3. k \in 1..k /\ ~(k <= k - 1) /\ k - (k - 1) = 1
    BY <1>2
  <2>4. c[k] = n
    BY <2>3, <1>5, <1>6, Zenon
  <2> QED
    BY <2>2, <2>4
<1>8. r = c \o b
  BY <1>1
<1> HIDE DEF c, r
<1>9. /\ r \in Seq(I) /\ Len(r) = k + (Len(q) - k + 1)
      /\ \A i \in 1..(k + (Len(q) - k + 1)) : r[i] = IF i <= k THEN c[i] ELSE b[i - k]
  <2>1. /\ r \in Seq(I) /\ Len(r) = Len(c) + Len(b)
        /\ \A i \in 1..(Len(c) + Len(b)) : r[i] = IF i <= Len(c) THEN c[i] ELSE b[i - Len(c)]
    BY <1>4, <1>6, <1>8, ConcatProperties, Zenon
  <2> QED
    BY <2>1, <1>4, <1>6, Zenon
<1>10. Len(r) = Len(q) + 1 /\ k + (Len(q) - k + 1) = Len(q) + 1
  BY <1>2, <1>9
<1>11. \A i \in 1..k : i \in 1..(Len(q) + 1) /\ i <= k
  BY <1>2
<1>12. \A i \in 1..k : r[i] = c[i]
  BY <1>9, <1>10, <1>11
<1>13. \A i \in (k + 1)..(Len(q) + 1) : /\ i \in 1..(Len(q) + 1) /\ ~(i <= k)
                                       /\ i - k \in 1..(Len(q) - k + 1) /\ k + (i - k) - 1 = i - 1
  BY <1>2
<1>14. \A i \in (k + 1)..(Len(q) + 1) : r[i] = q[i - 1]
  BY <1>4, <1>9, <1>10, <1>13
<1>15. \A i \in 1..(k - 1) : i \in 1..k
  BY <1>2
<1>16. k \in 1..k
  BY <1>2
<1> QED
  BY <1>7, <1>9, <1>10, <1>12, <1>14, <1>15, <1>16 DEF r

\* The insertion of pushPacket keeps the queue in order, over the wrap.
LEMMA InsertKeeps ==
  ASSUME queueFirst \in QueueStarts, NEW q \in Seq(Queue!Indices), Down(q), NEW n \in Queue!Indices,
         \A k \in 1..Len(q) : Queue!Near(q[k], n)
  PROVE  /\ Queue!Insert(q, n) \in Seq(Queue!Indices) /\ Down(Queue!Insert(q, n))
         /\ Len(Queue!Insert(q, n)) <= Len(q) + 1
         /\ \A i \in 1..Len(Queue!Insert(q, n)) :
              Queue!Insert(q, n)[i] = n \/ \E k \in 1..Len(q) : Queue!Insert(q, n)[i] = q[k]
<1> DEFINE P == Queue!Places(q, n)
           I == Queue!Indices
<1>1. /\ DOMAIN q = 1..Len(q) /\ Len(q) \in Nat /\ n \in Nat
      /\ \A k \in 1..Len(q) : q[k] \in I /\ q[k] \in Nat
  <2>1. I \subseteq Nat
    BY QueueFacts
  <2>2. DOMAIN q = 1..Len(q) /\ Len(q) \in Nat /\ \A k \in 1..Len(q) : q[k] \in I
    OBVIOUS
  <2> QED
    BY <2>1, <2>2, Zenon
<1>2. P = {k \in 1..Len(q) : q[k] <= n}
  <2>1. \A k \in 1..Len(q) : /\ Queue!SeqNumber(q[k]) = Queue!SeqNumber(n) <=> q[k] = n
                             /\ Queue!rtpSequenceLessThan(Queue!SeqNumber(q[k]), Queue!SeqNumber(n)) <=> q[k] < n
    BY <1>1, IndexOrder
  <2>2. \A k \in 1..Len(q) : q[k] <= n <=> (q[k] = n \/ q[k] < n)
    BY <1>1
  <2>3. P = {k \in 1..Len(q) : \/ Queue!SeqNumber(q[k]) = Queue!SeqNumber(n)
                               \/ Queue!rtpSequenceLessThan(Queue!SeqNumber(q[k]), Queue!SeqNumber(n))}
    BY <1>1 DEF Queue!Places
  <2> QED
    BY <2>1, <2>2, <2>3
<1> HIDE DEF P, I
<1>3. CASE P = {}
  <2>1. Queue!Insert(q, n) = Append(q, n)
    BY <1>3 DEF Queue!Insert, P
  <2>2. \A k \in 1..Len(q) : q[k] > n
    <3> TAKE k \in 1..Len(q)
    <3>1. ~(q[k] <= n)
      BY <1>2, <1>3
    <3> QED
      BY <3>1, <1>1
  <2>3. /\ Append(q, n) \in Seq(I) /\ Len(Append(q, n)) = Len(q) + 1
        /\ \A k \in 1..Len(q) : Append(q, n)[k] = q[k]
        /\ Append(q, n)[Len(q) + 1] = n
    BY DEF I
  <2>4. Down(Append(q, n))
    <3> DEFINE r == Append(q, n)
    <3>1. \A m, j \in 1..(Len(q) + 1) : m < j => m \in 1..Len(q) /\ (j \in 1..Len(q) \/ j = Len(q) + 1)
      BY <1>1
    <3>2. Len(r) = Len(q) + 1 /\ (\A k \in 1..Len(q) : r[k] = q[k]) /\ r[Len(q) + 1] = n
      BY <2>3
    <3> HIDE DEF r
    <3>3. \A m, j \in 1..Len(r) : m < j => r[m] > r[j]
      <4> SUFFICES ASSUME NEW m \in 1..(Len(q) + 1), NEW j \in 1..(Len(q) + 1), m < j PROVE r[m] > r[j]
        BY <3>2
      <4>1. m \in 1..Len(q) /\ r[m] = q[m]
        BY <3>1, <3>2
      <4>2. CASE j \in 1..Len(q)
        BY <4>1, <4>2, <3>2 DEF Down
      <4>3. CASE j = Len(q) + 1
        BY <4>1, <4>3, <3>2, <2>2
      <4> QED
        BY <4>2, <4>3, <3>1
    <3> QED
      BY <3>3 DEF r, Down
  <2>5. \A i \in 1..(Len(q) + 1) : i = Len(q) + 1 \/ i \in 1..Len(q)
    BY <1>1
  <2>6. \A i \in 1..Len(Append(q, n)) : Append(q, n)[i] = n \/ \E k \in 1..Len(q) : Append(q, n)[i] = q[k]
    BY <2>3, <2>5, Zenon
  <2>7. Len(q) + 1 <= Len(q) + 1
    BY <1>1
  <2> QED
    BY <2>1, <2>3, <2>4, <2>6, <2>7, Zenon DEF I
<1>4. CASE P # {}
  <2> DEFINE k == CHOOSE j \in P : \A i \in P : j <= i
  <2>1. k \in P /\ \A i \in P : k <= i
    <3>1. P \in SUBSET Nat
      BY <1>2
    <3>2. \E j \in P : \A i \in P : j <= i
      BY <3>1, <1>4, LeastOf
    <3> QED
      BY <3>2, Zenon
  <2>2. Queue!Insert(q, n) = IF Queue!SeqNumber(q[k]) = Queue!SeqNumber(n) THEN q ELSE Queue!InsertAt(q, k, n)
    BY <1>4, Zenon DEF Queue!Insert, P
  <2> HIDE DEF k
  <2>3. k \in 1..Len(q) /\ q[k] <= n /\ \A i \in 1..(k - 1) : q[i] > n
    <3>1. k \in 1..Len(q) /\ q[k] <= n
      BY <2>1, <1>2
    <3>2. ASSUME NEW i \in 1..(k - 1) PROVE q[i] > n
      <4>1. i \in 1..Len(q) /\ ~(k <= i) /\ q[i] \in Nat /\ n \in Nat
        BY <3>1, <1>1
      <4>2. i \notin P
        BY <4>1, <2>1
      <4> QED
        BY <4>1, <4>2, <1>2
    <3> QED
      BY <3>1, <3>2
  <2>4. CASE Queue!SeqNumber(q[k]) = Queue!SeqNumber(n)
    <3>1. Len(q) <= Len(q) + 1
      BY <1>1
    <3> QED
      BY <2>2, <2>4, <3>1, Zenon
  <2>5. CASE Queue!SeqNumber(q[k]) # Queue!SeqNumber(n)
    <3> DEFINE r == Queue!InsertAt(q, k, n)
    <3>1. q[k] < n
      <4>1. q[k] \in I /\ q[k] \in Nat /\ n \in Nat
        BY <2>3, <1>1 DEF I
      <4>2. q[k] # n
        BY <2>5
      <4> QED
        BY <4>1, <4>2, <2>3
    <3>5. q \in Seq(I) /\ n \in I
      BY DEF I
    <3>6. r \in Seq(I) /\ Len(r) = Len(q) + 1
      BY <3>5, <2>3, Inserted
    <3>7. /\ \A i \in 1..(k - 1) : r[i] = q[i]
          /\ r[k] = n
          /\ \A i \in (k + 1)..(Len(q) + 1) : r[i] = q[i - 1]
      BY <3>5, <2>3, Inserted
    <3> HIDE DEF r
    <3>8. Down(r)
      <4> SUFFICES ASSUME NEW i \in 1..(Len(q) + 1), NEW j \in 1..(Len(q) + 1), i < j PROVE r[i] > r[j]
        BY <3>6 DEF Down
      <4>1. CASE j < k
        BY <4>1, <3>7, <2>3, <1>1 DEF Down
      <4>2. CASE j = k
        BY <4>2, <3>7, <2>3, <1>1
      <4>3. CASE j > k /\ i < k
        <5>1. r[j] = q[j - 1] /\ r[i] = q[i] /\ j - 1 \in 1..Len(q) /\ i \in 1..Len(q) /\ i < j - 1
          BY <4>3, <3>7, <2>3, <1>1
        <5> QED
          BY <5>1 DEF Down
      <4>4. CASE j > k /\ i = k
        <5>1. r[j] = q[j - 1] /\ r[i] = n /\ j - 1 \in 1..Len(q) /\ (k = j - 1 \/ k < j - 1)
          BY <4>4, <3>7, <2>3, <1>1
        <5>2. q[j - 1] <= q[k]
          <6>1. k < j - 1 => q[k] > q[j - 1]
            BY <5>1, <2>3 DEF Down
          <6> QED
            BY <6>1, <5>1, <2>3, <1>1
        <5>3. q[k] \in Nat /\ q[j - 1] \in Nat /\ n \in Nat
          BY <5>1, <2>3, <1>1
        <5> QED
          BY <5>1, <5>2, <5>3, <3>1
      <4>5. CASE j > k /\ i > k
        <5>1. r[j] = q[j - 1] /\ r[i] = q[i - 1] /\ j - 1 \in 1..Len(q) /\ i - 1 \in 1..Len(q) /\ i - 1 < j - 1
          BY <4>5, <3>7, <2>3, <1>1
        <5> QED
          BY <5>1 DEF Down
      <4> QED
        BY <4>1, <4>2, <4>3, <4>4, <4>5, <2>3
    <3>9. \A i \in 1..Len(r) : r[i] = n \/ \E j \in 1..Len(q) : r[i] = q[j]
      <4> SUFFICES ASSUME NEW i \in 1..(Len(q) + 1) PROVE r[i] = n \/ \E j \in 1..Len(q) : r[i] = q[j]
        BY <3>6
      <4>1. \/ i \in 1..(k - 1) /\ i \in 1..Len(q)
            \/ i = k
            \/ i \in (k + 1)..(Len(q) + 1) /\ i - 1 \in 1..Len(q)
        BY <2>3, <1>1
      <4> QED
        BY <4>1, <3>7, Zenon
    <3>10. Len(q) + 1 <= Len(q) + 1
      BY <1>1
    <3> QED
      BY <2>2, <2>5, <3>6, <3>8, <3>9, <3>10, Zenon DEF r, I
  <2> QED
    BY <2>4, <2>5
<1> QED
  BY <1>3, <1>4

\* Trim keeps a front part of the queue.
LEMMA TrimKeeps ==
  ASSUME NEW q \in Seq(Queue!Indices), Down(q)
  PROVE  /\ Queue!Trim(q) \in Seq(Queue!Indices) /\ Down(Queue!Trim(q))
         /\ Len(Queue!Trim(q)) <= Len(q)
         /\ \A i \in 1..Len(Queue!Trim(q)) : i \in 1..Len(q) /\ Queue!Trim(q)[i] = q[i]
<1> DEFINE fits == {j \in 0..Len(q) : Queue!DepthOf(SubSeq(q, 1, j)) <= MaxDepth}
           J == CHOOSE j \in fits : \A k \in fits : k <= j
<1>1. Len(q) \in Nat /\ \A k \in 1..Len(q) : q[k] \in Queue!Indices
  OBVIOUS
<1>2. fits # {}
  <2>1. SubSeq(q, 1, 0) = << >>
    OBVIOUS
  <2>2. Queue!DepthOf(<< >>) = 0
    BY DEF Queue!DepthOf
  <2>3. 0 <= MaxDepth
    BY QueueFacts
  <2>4. 0 \in fits
    <3>1. 0 \in 0..Len(q)
      BY <1>1
    <3> QED
      BY <3>1, <2>1, <2>2, <2>3, Zenon
  <2> QED
    BY <2>4
<1>3. fits \subseteq 0..Len(q)
  OBVIOUS
<1>4. Queue!Trim(q) = SubSeq(q, 1, J)
  BY DEF Queue!Trim
<1> HIDE DEF fits
<1>5. J \in fits
  BY <1>1, <1>2, <1>3, GreatestOf, Zenon
<1> HIDE DEF J
<1>6. /\ SubSeq(q, 1, J) \in Seq(Queue!Indices) /\ Len(SubSeq(q, 1, J)) = J
      /\ \A k \in 1..J : SubSeq(q, 1, J)[k] = q[k] /\ k \in 1..Len(q)
      /\ J \in Nat /\ J <= Len(q)
  BY <1>1, <1>3, <1>5
<1>7. Down(SubSeq(q, 1, J))
  BY <1>6 DEF Down
<1> QED
  BY <1>4, <1>6, <1>7

\* A packet arrives, or is put in its place.
LEMMA PushQueueKeeps ==
  ASSUME QueueInv, Queue!Arrive \/ Queue!pushInsert
  PROVE  QueueInv'
<1>1. /\ queue \in Seq(Queue!Indices) /\ Len(queue) \in Nat /\ Down(queue)
      /\ queueFirst \in QueueStarts /\ queued \in 0..MaxQueued /\ highest \in Queue!Indices
      /\ pushing \in Queue!Indices \cup {NULL}
      /\ Len(queue) + (IF pushing = NULL THEN 0 ELSE 1) <= queued
      /\ QueueWindow <= highest /\ highest <= QueueWindow * (queued + 1)
      /\ delivered \in Seq(Queue!Indices) /\ AllNear
      /\ DOMAIN queue = 1..Len(queue) /\ \A k \in 1..Len(queue) : queue[k] \in Queue!Indices
  BY DEF QueueInv, Queue!TypeOK, Queue!QueueInOrder, FewArrived, Down
<1>2. /\ QueueWindow \in Nat /\ MaxQueued \in Nat /\ Queue!Indices \subseteq Nat /\ NULL \notin Nat
  BY QueueFacts
<1>3. CASE Queue!Arrive
  <2>1. PICK n \in (highest - QueueWindow)..(highest + QueueWindow) :
           (\A m \in Queue!InPlay : Queue!Near(m, n)) /\ Queue!pushCheck(n)
    BY <1>3 DEF Queue!Arrive
  <2>2. /\ pushing = NULL /\ queued < MaxQueued /\ queued' = queued + 1
        /\ highest' = IF n > highest THEN n ELSE highest
        /\ pushing' = IF Queue!TooLate(n) THEN NULL ELSE n
        /\ UNCHANGED <<queue, last, timebase, queueFirst, skipOld, delivered, discarded>>
    BY <2>1 DEF Queue!pushCheck, Queue!consumerVars
  <2> DEFINE T == QueueWindow * (MaxQueued + 1)
             A == QueueWindow * (queued + 1)
  <2>3. /\ T \in Nat /\ A \in Nat /\ A + QueueWindow = QueueWindow * (queued + 1 + 1)
        /\ A + QueueWindow <= T
    <3>1. queued + 1 + 1 <= MaxQueued + 1 /\ queued \in Nat
      BY <1>1, <1>2, <2>2
    <3>2. \A x, y \in Nat : x <= y => QueueWindow * x <= QueueWindow * y
      BY <1>2
    <3>3. QueueWindow * (queued + 1 + 1) <= QueueWindow * (MaxQueued + 1)
      BY <3>1, <3>2, <1>2
    <3>4. A + QueueWindow = QueueWindow * (queued + 1 + 1)
      BY <3>1, <1>2
    <3> QED
      BY <3>1, <3>3, <3>4, <1>2
  <2>4. Queue!Indices = 0..T
    BY DEF Queue!Indices
  <2> HIDE DEF T
  <2>5. highest \in Nat /\ highest <= A
    BY <1>1, <1>2
  <2> HIDE DEF A
  <2>6. n \in 0..T /\ n <= A + QueueWindow
    BY <1>1, <1>2, <2>3, <2>5
  <2>7. highest' \in Queue!Indices /\ QueueWindow <= highest' /\ highest' <= QueueWindow * (queued' + 1)
    BY <2>2, <2>3, <2>4, <2>5, <2>6, <1>1, <1>2
  <2>8. /\ pushing' \in Queue!Indices \cup {NULL} /\ queued' \in 0..MaxQueued
        /\ Len(queue') + (IF pushing' = NULL THEN 0 ELSE 1) <= queued'
    BY <2>2, <2>4, <2>6, <1>1, <1>2
  <2>9. Queue!TypeOK'
    BY <2>2, <2>7, <2>8 DEF QueueInv, Queue!TypeOK
  <2>10. /\ Queue!QueueInOrder' /\ Queue!NeverGoesBack' /\ Queue!DiscardsOnlyOld' /\ LastIsGiven'
    BY <2>2 DEF QueueInv, Queue!QueueInOrder, Queue!NeverGoesBack, Queue!DiscardsOnlyOld, Queue!SeqNumber, LastIsGiven
  <2>11. /\ \A i \in 1..Len(queue) : Queue!Near(queue[i], n)
         /\ delivered # << >> => Queue!Near(n, delivered[Len(delivered)])
    <3>1. \A i \in 1..Len(queue) : queue[i] \in Queue!InPlay
      BY <1>1, Zenon DEF Queue!InPlay, Queue!ToSet
    <3>2. ASSUME delivered # << >>
          PROVE  delivered[Len(delivered)] \in Queue!InPlay /\ delivered[Len(delivered)] \in Queue!Indices
      <4>1. Len(delivered) # 0 /\ delivered[Len(delivered)] \in Queue!Indices
        BY <3>2, <1>1
      <4> QED
        BY <4>1, Zenon DEF Queue!InPlay
    <3>3. n \in Nat /\ \A x \in Queue!Indices : x \in Nat
      BY <2>4, <2>6, <1>2
    <3> QED
      BY <3>1, <3>2, <3>3, <2>1, NearIs, Zenon
  <2>12. AllNear'
    BY <2>2, <2>11, <1>1 DEF AllNear, Queue!Near
  <2> QED
    BY <2>7, <2>8, <2>9, <2>10, <2>12 DEF QueueInv, FewArrived
<1>4. CASE Queue!pushInsert
  <2>1. /\ pushing # NULL /\ queue' = Queue!Trim(Queue!Insert(queue, pushing)) /\ pushing' = NULL
        /\ UNCHANGED <<last, timebase, queueFirst, highest, queued, skipOld, delivered, discarded>>
    BY <1>4 DEF Queue!pushInsert, Queue!networkVars, Queue!consumerVars
  <2> DEFINE q == Queue!Insert(queue, pushing)
  <2>2. /\ q \in Seq(Queue!Indices) /\ Down(q) /\ Len(q) <= Len(queue) + 1
        /\ \A i \in 1..Len(q) : q[i] = pushing \/ \E k \in 1..Len(queue) : q[i] = queue[k]
        /\ pushing \in Queue!Indices
    <3>1. pushing \in Queue!Indices /\ \A k \in 1..Len(queue) : Queue!Near(queue[k], pushing)
      BY <1>1, <2>1 DEF AllNear
    <3> QED
      BY <3>1, <1>1, InsertKeeps, Zenon
  <2> HIDE DEF q
  <2>3. /\ queue' \in Seq(Queue!Indices) /\ Down(queue') /\ Len(queue') <= Len(q)
        /\ \A i \in 1..Len(queue') : i \in 1..Len(q) /\ queue'[i] = q[i]
    BY <2>1, <2>2, TrimKeeps, Zenon DEF q
  <2>4. Len(queue') \in Nat /\ Len(q) \in Nat /\ DOMAIN queue' = 1..Len(queue')
    BY <2>2, <2>3
  <2>5. Len(queue') <= queued /\ queued <= MaxQueued /\ queued \in Nat
    BY <2>1, <2>2, <2>3, <2>4, <1>1, <1>2
  <2>6. Queue!QueueInOrder'
    BY <2>3, <2>4 DEF Queue!QueueInOrder, Down
  <2>7. Queue!TypeOK'
    <3>1. Len(queue') <= MaxQueued
      BY <2>4, <2>5, <1>2
    <3> QED
      BY <3>1, <2>1, <2>3, <1>1 DEF QueueInv, Queue!TypeOK
  <2>8. FewArrived'
    BY <2>1, <2>4, <2>5, <1>1 DEF FewArrived
  <2>9. Queue!NeverGoesBack' /\ Queue!DiscardsOnlyOld' /\ LastIsGiven'
    BY <2>1 DEF QueueInv, Queue!NeverGoesBack, Queue!DiscardsOnlyOld, Queue!SeqNumber, LastIsGiven
  <2>10. AllNear'
    <3>1. \A i \in 1..Len(queue') : queue'[i] = pushing \/ \E k \in 1..Len(queue) : queue'[i] = queue[k]
      BY <2>2, <2>3, Zenon
    <3>2. pushing \in Nat /\ \A k \in 1..Len(queue) : queue[k] \in Nat
      BY <2>2, <1>1, <1>2, Zenon
    <3>3. /\ \A k, l \in 1..Len(queue) : Queue!Near(queue[k], queue[l])
          /\ \A k \in 1..Len(queue) : Queue!Near(queue[k], pushing) /\ Queue!Near(pushing, queue[k])
          /\ Queue!Near(pushing, pushing)
      <4>1. \A k \in 1..Len(queue) : Queue!Near(queue[k], pushing) => Queue!Near(pushing, queue[k])
        BY <3>2, NearIs
      <4>2. Queue!Near(pushing, pushing)
        BY <3>2, NearIs
      <4>3. /\ \A k, l \in 1..Len(queue) : Queue!Near(queue[k], queue[l])
            /\ \A k \in 1..Len(queue) : Queue!Near(queue[k], pushing)
        BY <1>1, <2>1, Zenon DEF AllNear
      <4> QED
        BY <4>1, <4>2, <4>3
    <3>4. ASSUME NEW i \in 1..Len(queue'), NEW j \in 1..Len(queue')
          PROVE  Queue!Near(queue'[i], queue'[j])
      <4>1. /\ queue'[i] = pushing \/ \E k \in 1..Len(queue) : queue'[i] = queue[k]
            /\ queue'[j] = pushing \/ \E k \in 1..Len(queue) : queue'[j] = queue[k]
        BY <3>1
      <4>2. CASE queue'[i] = pushing
        BY <4>1, <4>2, <3>3
      <4>3. CASE \E k \in 1..Len(queue) : queue'[i] = queue[k]
        BY <4>1, <4>3, <3>3
      <4> QED
        BY <4>1, <4>2, <4>3
    <3>5. delivered # << >> => \A i \in 1..Len(queue') : Queue!Near(queue'[i], delivered[Len(delivered)])
      BY <3>1, <1>1, <2>1, Zenon DEF AllNear
    <3> QED
      BY <3>4, <3>5, <2>1 DEF AllNear, Queue!Near
  <2> QED
    BY <2>6, <2>7, <2>8, <2>9, <2>10 DEF QueueInv
<1> QED
  BY <1>3, <1>4

\* popPacket takes the oldest packet, and with ignore_old_packet gives none that is
\* older than the last one.
LEMMA PopQueueKeeps ==
  ASSUME QueueInv, NEW d \in BOOLEAN, Queue!popPacket(d)
  PROVE  QueueInv'
<1> DEFINE n == Queue!Last(queue)
           N == Len(queue)
           D == Len(delivered)
           I == Queue!Indices
<1>1. /\ queue \in Seq(I) /\ N \in Nat /\ Down(queue) /\ DOMAIN queue = 1..N
      /\ queueFirst \in QueueStarts /\ queued \in 0..MaxQueued
      /\ delivered \in Seq(I) /\ D \in Nat /\ DOMAIN delivered = 1..D
      /\ discarded \subseteq I \X (0..D)
      /\ last \in -1..(QueueSpace - 1) /\ skipOld \in BOOLEAN /\ N <= MaxQueued
      /\ N + (IF pushing = NULL THEN 0 ELSE 1) <= queued
      /\ pushing \in I \cup {NULL} /\ AllNear
  BY DEF QueueInv, Queue!TypeOK, Queue!QueueInOrder, FewArrived, Down
<1>2. /\ I \subseteq Nat /\ QueueSpace \in Nat \ {0} /\ MaxQueued \in Nat
  BY QueueFacts
<1>3. CASE ~Queue!MayPop(d)
  <2>1. UNCHANGED <<queue, last, timebase, pushing, queueFirst, highest, queued, skipOld, delivered, discarded>>
    BY <1>3 DEF Queue!popPacket, Queue!vars
  <2> QED
    BY <2>1 DEF QueueInv, Queue!TypeOK, Queue!QueueInOrder, Queue!NeverGoesBack, Queue!DiscardsOnlyOld,
                Queue!SeqNumber, LastIsGiven, FewArrived, AllNear, Queue!Near
<1>4. CASE Queue!MayPop(d)
  <2>1. /\ queue # << >> /\ queue' = Queue!Front(queue)
        /\ \/ /\ skipOld /\ Queue!IsOld(n) /\ discarded' = discarded \cup {<<n, D>>}
              /\ UNCHANGED <<last, delivered>>
           \/ /\ ~(skipOld /\ Queue!IsOld(n)) /\ delivered' = Append(delivered, n)
              /\ last' = Queue!SeqNumber(n) /\ UNCHANGED discarded
        /\ UNCHANGED <<timebase, pushing, queueFirst, highest, queued, skipOld>>
    BY <1>4 DEF Queue!popPacket, Queue!MayPop, Queue!networkVars
  <2>2. n = queue[N] /\ n \in I /\ N >= 1
    BY <2>1, <1>1 DEF Queue!Last
  <2>3. /\ queue' \in Seq(I) /\ Len(queue') = N - 1 /\ \A k \in 1..(N - 1) : queue'[k] = queue[k]
    <3>1. queue' = SubSeq(queue, 1, N - 1)
      BY <2>1 DEF Queue!Front
    <3>2. N - 1 \in Int /\ \A k \in 1..(N - 1) : queue[k] \in I
      BY <1>1
    <3> QED
      BY <3>1, <3>2, <2>2, <1>1
  <2> HIDE DEF n
  <2>4. Queue!QueueInOrder'
    BY <2>2, <2>3, <1>1 DEF Queue!QueueInOrder, Down
  <2>5. FewArrived'
    BY <2>1, <2>2, <2>3, <1>1 DEF FewArrived, QueueInv
  <2>6. Len(queue') <= MaxQueued
    BY <2>2, <2>3, <1>1, <1>2
  <2>7. Queue!SeqNumber(n) \in 0..(QueueSpace - 1)
    BY <2>2, <1>1, NumberIs
  <2>8. \A x \in I : Queue!SeqNumber(x)' = Queue!SeqNumber(x)
    BY <2>1 DEF Queue!SeqNumber
  <2>9. ASSUME delivered # << >>, skipOld
        PROVE  Queue!IsOld(n) <=> n < delivered[D]
    <3>1. delivered[D] \in I /\ last = Queue!SeqNumber(delivered[D])
      BY <2>9, <1>1 DEF QueueInv, LastIsGiven
    <3>2. last % QueueSpace = last
      <4>1. last \in 0..(QueueSpace - 1)
        BY <3>1, <1>1, NumberIs
      <4> QED
        BY <4>1, <1>2
    <3>3. Queue!rtpSequenceLessThan(Queue!SeqNumber(n), Queue!SeqNumber(delivered[D])) <=> n < delivered[D]
      <4>1. N \in 1..N /\ Queue!Near(queue[N], delivered[D])
        BY <2>2, <2>9, <1>1 DEF AllNear
      <4> QED
        BY <4>1, <3>1, <2>2, <1>1, IndexOrder
    <3> QED
      BY <3>1, <3>2, <3>3 DEF Queue!IsOld
  <2>10. CASE /\ skipOld /\ Queue!IsOld(n) /\ discarded' = discarded \cup {<<n, D>>}
              /\ UNCHANGED <<last, delivered>>
    <3>1. Queue!TypeOK'
      BY <2>1, <2>2, <2>3, <2>6, <2>10, <1>1 DEF QueueInv, Queue!TypeOK
    <3>2. Queue!NeverGoesBack'
      BY <2>1, <2>10 DEF QueueInv, Queue!NeverGoesBack
    <3>3. LastIsGiven'
      BY <2>1, <2>10 DEF QueueInv, LastIsGiven, Queue!SeqNumber
    <3>4. IF D = 0 THEN Queue!SeqNumber(n) \in (QueueSpace \div 2)..(QueueSpace - 2) ELSE n < delivered[D]
      <4>1. CASE delivered = << >>
        <5>1. last = -1
          BY <4>1, <2>10 DEF QueueInv, LastIsGiven
        <5>2. last % QueueSpace = QueueSpace - 1
          BY <5>1, <1>2
        <5> DEFINE x == Queue!SeqNumber(n)
        <5>3. Queue!rtpSequenceLessThan(x, QueueSpace - 1)
          BY <5>2, <2>10 DEF Queue!IsOld
        <5> HIDE DEF x
        <5>4. QueueSpace \div 2 \in Nat
          BY <1>2
        <5>5. x \in 0..(QueueSpace - 1)
          BY <2>7 DEF x
        <5>6. x \in (QueueSpace \div 2)..(QueueSpace - 2)
          BY <5>3, <5>4, <5>5, <1>2, StructuresAssumption DEF Queue!rtpSequenceLessThan, Queue!QueueAssumption
        <5>7. D = 0
          BY <4>1
        <5> QED
          BY <5>6, <5>7 DEF x
      <4>2. CASE delivered # << >>
        <5>1. n < delivered[D] /\ D # 0
          BY <4>2, <2>9, <2>10, <1>1
        <5> QED
          BY <5>1
      <4> QED
        BY <4>1, <4>2
    <3>5. Queue!DiscardsOnlyOld'
      <4>1. \A x \in discarded :
              IF x[2] = 0 THEN Queue!SeqNumber(x[1]) \in (QueueSpace \div 2)..(QueueSpace - 2)
                          ELSE x[1] < delivered[x[2]]
        BY DEF QueueInv, Queue!DiscardsOnlyOld
      <4>2. <<n, D>>[1] = n /\ <<n, D>>[2] = D
        OBVIOUS
      <4>3. \A x \in discarded' :
              IF x[2] = 0 THEN Queue!SeqNumber(x[1]) \in (QueueSpace \div 2)..(QueueSpace - 2)
                          ELSE x[1] < delivered[x[2]]
        BY <4>1, <4>2, <3>4, <2>10, Zenon
      <4> QED
        BY <4>3, <2>1, <2>10 DEF Queue!DiscardsOnlyOld, Queue!SeqNumber
    <3>6. AllNear'
      <4>1. \A i \in 1..(N - 1) : i \in 1..N
        BY <2>2, <1>1
      <4> QED
        BY <4>1, <2>1, <2>3, <2>10, <1>1 DEF AllNear, Queue!Near
    <3> QED
      BY <3>1, <3>2, <3>3, <3>5, <3>6, <2>4, <2>5 DEF QueueInv
  <2>11. CASE /\ ~(skipOld /\ Queue!IsOld(n)) /\ delivered' = Append(delivered, n)
              /\ last' = Queue!SeqNumber(n) /\ UNCHANGED discarded
    <3>1. /\ delivered' \in Seq(I) /\ Len(delivered') = D + 1 /\ delivered'[D + 1] = n
          /\ (\A k \in 1..D : delivered'[k] = delivered[k]) /\ DOMAIN delivered' = 1..(D + 1)
          /\ delivered' # << >>
      BY <2>2, <2>11, <1>1
    <3>2. Queue!TypeOK'
      <4>1. last' \in -1..(QueueSpace - 1)
        BY <2>7, <2>11
      <4>2. timebase \in BOOLEAN /\ pushing \in I \cup {NULL} /\ highest \in I
        BY DEF QueueInv, Queue!TypeOK
      <4>3. discarded' \subseteq I \X (0..Len(delivered'))
        <5>1. 0..D \subseteq 0..(D + 1) /\ Len(delivered') = D + 1 /\ discarded' = discarded
          BY <2>11, <3>1, <1>1
        <5> QED
          BY <5>1, <1>1
      <4>4. /\ queue' \in Seq(I) /\ Len(queue') <= MaxQueued /\ delivered' \in Seq(I)
            /\ queueFirst \in QueueStarts /\ queued \in 0..MaxQueued /\ skipOld \in BOOLEAN
        BY <2>3, <2>6, <3>1, <1>1
      <4>5. UNCHANGED <<timebase, pushing, queueFirst, highest, queued, skipOld>>
        BY <2>1
      <4> QED
        BY <4>1, <4>2, <4>3, <4>4, <4>5 DEF Queue!TypeOK
    <3>3. LastIsGiven'
      BY <3>1, <2>1, <2>11 DEF LastIsGiven, Queue!SeqNumber
    <3>4. Queue!NeverGoesBack'
      <4> SUFFICES ASSUME skipOld, NEW i \in 1..(D + 1), NEW j \in 1..(D + 1), i < j
                   PROVE  delivered'[i] <= delivered'[j]
        BY <2>1, <3>1 DEF Queue!NeverGoesBack
      <4>1. \A a, b \in 1..D : a < b => delivered[a] <= delivered[b]
        BY <1>1 DEF QueueInv, Queue!NeverGoesBack
      <4>2. i \in 1..D /\ delivered'[i] = delivered[i]
        BY <3>1, <1>1
      <4>3. CASE j \in 1..D
        BY <4>1, <4>2, <4>3, <3>1
      <4>4. CASE j = D + 1
        <5>1. delivered # << >> /\ D \in 1..D
          BY <4>2, <1>1
        <5>2. ~(n < delivered[D])
          BY <5>1, <2>9, <2>11
        <5>4. delivered[i] \in Nat /\ delivered[D] \in Nat /\ n \in Nat
          <6>1. \A k \in 1..D : delivered[k] \in I
            BY <1>1
          <6> QED
            BY <6>1, <4>2, <5>1, <2>2, <1>2, Zenon
        <5>3. delivered[i] <= delivered[D]
          <6>1. i = D \/ i < D
            <7>1. i \in 1..D /\ D \in Nat
              BY <4>2, <1>1, Zenon
            <7> HIDE DEF D
            <7> QED
              BY <7>1
          <6> QED
            BY <6>1, <5>4, <4>1, <4>2, <5>1
        <5> QED
          BY <5>2, <5>3, <5>4, <4>2, <4>4, <3>1
      <4> QED
        BY <4>3, <4>4, <1>1
    <3>5. Queue!DiscardsOnlyOld'
      <4>1. ASSUME NEW x \in discarded
            PROVE  IF x[2] = 0 THEN Queue!SeqNumber(x[1]) \in (QueueSpace \div 2)..(QueueSpace - 2)
                               ELSE x[1] < delivered'[x[2]]
        <5>1. x[2] \in 0..D
          BY <1>1
        <5>2. x[2] # 0 => delivered'[x[2]] = delivered[x[2]]
          BY <5>1, <3>1, <1>1
        <5> QED
          BY <5>2 DEF QueueInv, Queue!DiscardsOnlyOld
      <4> QED
        BY <4>1, <2>1, <2>11 DEF Queue!DiscardsOnlyOld, Queue!SeqNumber
    <3>6. AllNear'
      <4>1. N \in 1..N /\ \A i \in 1..(N - 1) : i \in 1..N
        BY <2>2, <1>1
      <4>2. \A i, j \in 1..N : queue[i] \in Nat /\ Queue!Near(queue[i], queue[j])
        <5>1. \A i \in 1..N : queue[i] \in I
          BY <1>1
        <5> QED
          BY <5>1, <1>1, <1>2, Zenon DEF AllNear
      <4>3. pushing # NULL => pushing \in Nat /\ Queue!Near(queue[N], pushing)
        BY <4>1, <1>1, <1>2 DEF AllNear
      <4>4. pushing # NULL => Queue!Near(pushing, queue[N])
        BY <4>1, <4>2, <4>3, NearIs
      <4>5. \A i, j \in 1..(N - 1) : Queue!Near(queue'[i], queue'[j])
        BY <4>1, <4>2, <2>3, Zenon
      <4>6. \A i \in 1..(N - 1) : /\ Queue!Near(queue'[i], delivered'[D + 1])
                                  /\ pushing # NULL => Queue!Near(queue'[i], pushing)
        BY <4>1, <4>2, <2>2, <2>3, <3>1, <1>1, Zenon DEF AllNear
      <4>8. pushing' # NULL => pushing # NULL /\ Queue!Near(pushing', delivered'[D + 1])
        BY <4>4, <2>1, <2>2, <3>1
      <4>9. Len(queue') = N - 1 /\ Len(delivered') = D + 1 /\ pushing' = pushing
        BY <2>1, <2>3, <3>1
      <4>7. \A i \in 1..Len(queue') : i \in 1..(N - 1)
        BY <4>9
      <4>10. ASSUME NEW i \in 1..Len(queue'), NEW j \in 1..Len(queue')
             PROVE  Queue!Near(queue'[i], queue'[j])
        <5>1. i \in 1..(N - 1) /\ j \in 1..(N - 1)
          BY <4>7
        <5> QED
          BY <5>1, <4>5, Zenon
      <4>11. ASSUME NEW i \in 1..Len(queue')
             PROVE  /\ Queue!Near(queue'[i], delivered'[Len(delivered')])
                    /\ pushing' # NULL => Queue!Near(queue'[i], pushing')
        <5>1. i \in 1..(N - 1)
          BY <4>7
        <5>2. /\ Queue!Near(queue'[i], delivered'[D + 1])
              /\ pushing # NULL => Queue!Near(queue'[i], pushing)
          BY <5>1, <4>6, Zenon
        <5> QED
          BY <5>2, <4>9, Zenon
      <4>12. pushing' # NULL => Queue!Near(pushing', delivered'[Len(delivered')])
        BY <4>8, <4>9, Zenon
      <4> QED
        BY <4>10, <4>11, <4>12 DEF AllNear, Queue!Near
    <3> QED
      BY <3>2, <3>3, <3>4, <3>5, <3>6, <2>4, <2>5 DEF QueueInv
  <2> QED
    BY <2>1, <2>10, <2>11
<1> QED
  BY <1>3, <1>4

\* Every step keeps the invariant of the queue.
LEMMA QueueStep ==
  ASSUME QueueInv, [AllNext]_allVars
  PROVE  QueueInv'
<1>1. CASE \E d \in BOOLEAN : Queue!getNextPacket(d)
  <2>1. PICK d \in BOOLEAN : Queue!getNextPacket(d)
    BY <1>1
  <2>2. /\ ~skipOld /\ last' = IF Queue!MayPop(d) THEN Queue!SeqNumber(Queue!Last(queue)) ELSE last
        /\ UNCHANGED <<queue, timebase, pushing, queueFirst, highest, queued, skipOld, delivered, discarded>>
    BY <2>1 DEF Queue!getNextPacket, Queue!networkVars, Queue!consumerVars
  <2>3. queue \in Seq(Queue!Indices) /\ queueFirst \in QueueStarts
    BY DEF QueueInv, Queue!TypeOK
  <2>4. last' \in -1..(QueueSpace - 1)
    <3>1. CASE Queue!MayPop(d)
      <4>1. Queue!Last(queue) \in Queue!Indices
        BY <3>1, <2>3 DEF Queue!MayPop, Queue!Last
      <4>2. Queue!SeqNumber(Queue!Last(queue)) \in 0..(QueueSpace - 1)
        BY <4>1, <2>3, NumberIs
      <4> QED
        BY <4>2, <3>1, <2>2, QueueFacts
    <3>2. CASE ~Queue!MayPop(d)
      BY <3>2, <2>2 DEF QueueInv, Queue!TypeOK
    <3> QED
      BY <3>1, <3>2
  <2> QED
    BY <2>2, <2>4 DEF QueueInv, Queue!TypeOK, Queue!QueueInOrder, Queue!NeverGoesBack, Queue!DiscardsOnlyOld,
                      Queue!SeqNumber, LastIsGiven, FewArrived, AllNear, Queue!Near
<1>2. CASE Queue!setTimebase
  BY <1>2 DEF Queue!setTimebase, Queue!networkVars, Queue!consumerVars, QueueInv, Queue!TypeOK, Queue!QueueInOrder,
              Queue!NeverGoesBack, Queue!DiscardsOnlyOld, Queue!SeqNumber, LastIsGiven, FewArrived, AllNear, Queue!Near
<1>3. CASE UNCHANGED queueVars
  BY <1>3 DEF queueVars, QueueInv, Queue!TypeOK, Queue!QueueInOrder, Queue!NeverGoesBack, Queue!DiscardsOnlyOld,
              Queue!SeqNumber, LastIsGiven, FewArrived, AllNear, Queue!Near
<1>4. CASE Queue!Arrive \/ Queue!pushInsert
  BY <1>4, PushQueueKeeps
<1>5. CASE \E d \in BOOLEAN : Queue!popPacket(d)
  BY <1>5, PopQueueKeeps
<1> QED
  BY <1>1, <1>2, <1>3, <1>4, <1>5 DEF AllNext, allVars, Queue!Next

\* pushPacket and popPacket keep the queue in sending order however often the numbers come
\* round, although the check of a packet and its insertion are two steps; a consumer that
\* ignores old packets (skipOld) never goes back and loses only packets older than the one
\* given last, or numbers of the upper half before the first.  Packets arrive less than half
\* the numbers from those that wait and from the one given last.
THEOREM PacketsStayInOrder == AllSpec => []PacketsInOrder
<1>1. AllInit => QueueInv
  <2> SUFFICES ASSUME AllInit PROVE QueueInv
    OBVIOUS
  <2>1. /\ queue = << >> /\ last = -1 /\ timebase = FALSE /\ pushing = NULL
        /\ queueFirst \in QueueStarts /\ highest = QueueWindow /\ queued = 0
        /\ skipOld \in BOOLEAN /\ delivered = << >> /\ discarded = {}
    BY DEF AllInit, Queue!Init
  <2>2. QueueSpace \in Nat \ {0} /\ QueueWindow \in Nat /\ MaxQueued \in Nat
    BY QueueFacts
  <2>3. QueueWindow \in Queue!Indices
    <3>1. QueueWindow <= QueueWindow * (MaxQueued + 1)
      <4>1. QueueWindow * (MaxQueued + 1) = QueueWindow * MaxQueued + QueueWindow /\ QueueWindow * MaxQueued \in Nat
        BY <2>2
      <4> QED
        BY <4>1, <2>2
    <3> QED
      BY <3>1, <2>2 DEF Queue!Indices
  <2>4. Queue!TypeOK
    <3>1. queue \in Seq(Queue!Indices) /\ Len(queue) <= MaxQueued /\ delivered \in Seq(Queue!Indices)
      BY <2>1, <2>2
    <3>2. last \in -1..(QueueSpace - 1) /\ queued \in 0..MaxQueued
      BY <2>1, <2>2
    <3>3. timebase \in BOOLEAN /\ pushing \in Queue!Indices \cup {NULL}
          /\ discarded \subseteq Queue!Indices \X (0..Len(delivered))
      BY <2>1, Zenon
    <3> QED
      BY <3>1, <3>2, <3>3, <2>1, <2>3, Zenon DEF Queue!TypeOK
  <2>5. Queue!QueueInOrder /\ Queue!NeverGoesBack /\ Queue!DiscardsOnlyOld /\ LastIsGiven
    BY <2>1 DEF Queue!QueueInOrder, Queue!NeverGoesBack, Queue!DiscardsOnlyOld, LastIsGiven
  <2>6. FewArrived /\ AllNear
    BY <2>1, <2>2 DEF FewArrived, AllNear
  <2> QED
    BY <2>4, <2>5, <2>6 DEF QueueInv
<1>2. QueueInv /\ [AllNext]_allVars => QueueInv'
  BY QueueStep
<1>3. QueueInv => PacketsInOrder
  BY DEF QueueInv, PacketsInOrder
<1> QED
  BY <1>1, <1>2, <1>3, PTL DEF AllSpec

-------------------------------------------------------------------------------
(* RetransmitBuffer.                                                         *)

Entries == [seqn : List!Seqs, ts : 0..ListTime, retries : 0..MaxRetries]
Blocks == SUBSET (0..(SeqSpace + ListSpan))

\* No block that is left is empty, and the message started in the past.
LoopIsRight == (\A j \in 1..Len(todo) : todo[j] # {}) /\ started <= listNow

\* What this message has sent was sent since it started.
AnsweredAreRecent ==
  todo # <<>> => \A i \in 1..Len(answered) : \E j \in 1..Len(retransmit_list) :
                   /\ retransmit_list[j].seqn = answered[i]
                   /\ retransmit_list[j].ts >= started /\ retransmit_list[j].retries > 0

\* The packet n is still to be looked up, and will be found.
IsComing(n) ==
  /\ n \in 1..sent /\ n > sent - Len(retransmit_list) /\ resent[n] = 0
  /\ \E j \in 1..Len(todo) : List!SeqNumber(n) \in todo[j]

\* What is asked for the first time is sent already or will be.
WantedAreComing ==
  todo # <<>> /\ ~split =>
    \A n \in wanted : IsComing(n) \/ \E k \in DOMAIN answered : answered[k] = List!SeqNumber(n)

\* Nothing is sent again before it is sent.
UnsentAreNot == \A n \in 1..MaxSent : n > sent => resent[n] = 0

\* The inductive invariant: the loop holds the mutex, so what it has sent and what it
\* has still to send are in the list until its last turn.
ListInv ==
  /\ List!TypeOK /\ List!ListIsLastSent /\ List!OncePerMessage /\ List!LostCountedOnce
  /\ List!AnsweredBelowWrap /\ LoopIsRight /\ AnsweredAreRecent /\ WantedAreComing /\ UnsentAreNot

\* The constants of the list.
LEMMA ListFacts ==
  /\ SeqSpace \in Nat \ {0} /\ QueueSize \in Nat \ {0} /\ QueueSize < SeqSpace /\ MaxRetries \in Nat \ {0}
  /\ RetryWait \in Nat /\ ListSpan \in Nat \ {0} /\ ListStarts \subseteq 0..(SeqSpace - 1)
  /\ MaxSent \in Nat /\ MaxSent < SeqSpace /\ MaxNacks \in Nat /\ ListTime \in Nat
BY StructuresAssumption DEF List!BufferAssumption

LEMMA ListCounts == ASSUME NEW S PROVE List!Cardinality(S) = Cardinality(S)
BY DEF List!Cardinality, Cardinality

LEMMA ListLeast == ASSUME NEW S PROVE List!Min(S) = Min(S)
BY DEF List!Min, Min

\* A packet that was sent is known by its number.
LEMMA SentNumbers ==
  ASSUME listFirst \in ListStarts, NEW a \in 1..MaxSent, NEW b \in 1..MaxSent
  PROVE  /\ List!SeqNumber(a) \in List!Seqs /\ List!SeqNumber(a) \in 0..(SeqSpace - 1)
         /\ List!SeqNumber(a) = List!SeqNumber(b) => a = b
<1>1. listFirst \in Nat /\ SeqSpace \in Nat \ {0} /\ MaxSent \in Nat /\ MaxSent < SeqSpace
  BY ListFacts
<1>2. ASSUME NEW x \in 1..MaxSent, NEW y \in 1..MaxSent, y <= x, List!SeqNumber(x) = List!SeqNumber(y)
      PROVE  x = y
  <2>1. PICK u \in Int, v \in Int : u = listFirst + x - 1 /\ v = listFirst + y - 1
    BY <1>1
  <2>2. u - v = x - y /\ u - v < SeqSpace /\ v <= u
    BY <2>1, <1>1, <1>2
  <2>3. u % SeqSpace = v % SeqSpace /\ u % SeqSpace \in Int
    BY <2>1, <1>1, <1>2, Division DEF List!SeqNumber
  <2>4. (u % SeqSpace) - (v % SeqSpace) = u - v \/ (u % SeqSpace) - (v % SeqSpace) = (u - v) - SeqSpace
    BY <2>2, <1>1, Quotients
  <2> QED
    BY <2>2, <2>3, <2>4, <1>1
<1>3. List!SeqNumber(a) \in 0..(SeqSpace - 1)
  BY <1>1, Division DEF List!SeqNumber
<1>4. a \in Int /\ b \in Int
  BY <1>1
<1> QED
  BY <1>2, <1>3, <1>4 DEF List!Seqs

\* A number of a block that does not cross the end is that of the packet it stands for.
LEMMA SentOffset ==
  ASSUME listFirst \in ListStarts, NEW n \in 1..MaxSent, NEW j \in Nat, n + j \in 1..MaxSent,
         List!SeqNumber(n) + j < SeqSpace
  PROVE  List!SeqNumber(n + j) = List!SeqNumber(n) + j
<1>1. listFirst \in Nat /\ SeqSpace \in Nat \ {0} /\ MaxSent \in Nat /\ MaxSent < SeqSpace
  BY ListFacts
<1>2. PICK x \in Int, y \in Int : x = listFirst + (n + j) - 1 /\ y = listFirst + n - 1
  BY <1>1
<1>3. x - y = j /\ x - y < SeqSpace /\ y <= x
  BY <1>1, <1>2
<1>4. x % SeqSpace \in 0..(SeqSpace - 1) /\ y % SeqSpace \in 0..(SeqSpace - 1)
  BY <1>1, Division
<1>5. (x % SeqSpace) - (y % SeqSpace) = x - y \/ (x % SeqSpace) - (y % SeqSpace) = (x - y) - SeqSpace
  BY <1>1, <1>3, Quotients
<1>6. List!SeqNumber(n + j) = x % SeqSpace /\ List!SeqNumber(n) = y % SeqSpace
  BY <1>2 DEF List!SeqNumber
<1> QED
  BY <1>1, <1>3, <1>4, <1>5, <1>6

\* Types of the list and places in it.
LEMMA ListBasics ==
  ASSUME ListInv
  PROVE  /\ retransmit_list \in Seq(Entries) /\ Len(retransmit_list) \in Nat
         /\ DOMAIN retransmit_list = 1..Len(retransmit_list)
         /\ sent \in Nat /\ sent <= MaxSent /\ Len(retransmit_list) <= sent
         /\ Len(retransmit_list) = IF sent <= QueueSize THEN sent ELSE QueueSize
         /\ listFirst \in ListStarts /\ todo \in Seq(Blocks) /\ answered \in Seq(List!Seqs)
         /\ resent \in [1..MaxSent -> Nat] /\ lost_not_retrans \in Nat
         /\ listNow \in 0..ListTime /\ started \in 0..ListTime
         /\ \A k \in 1..Len(retransmit_list) :
              /\ retransmit_list[k] \in Entries /\ sent - Len(retransmit_list) + k \in 1..MaxSent
              /\ retransmit_list[k].seqn = List!SeqNumber(sent - Len(retransmit_list) + k)
              /\ retransmit_list[k].retries = resent[sent - Len(retransmit_list) + k]
<1>1. /\ retransmit_list \in Seq(Entries) /\ sent \in 0..MaxSent /\ MaxSent \in Nat
      /\ listFirst \in ListStarts /\ todo \in Seq(Blocks) /\ answered \in Seq(List!Seqs)
      /\ resent \in [1..MaxSent -> Nat] /\ lost_not_retrans \in Nat
      /\ listNow \in 0..ListTime /\ started \in 0..ListTime
  BY ListFacts DEF ListInv, List!TypeOK, Entries, Blocks
<1>2. Len(retransmit_list) \in Nat /\ DOMAIN retransmit_list = 1..Len(retransmit_list)
  BY <1>1
<1>3. Len(retransmit_list) = IF sent <= QueueSize THEN sent ELSE QueueSize
  <2>1. QueueSize \in Nat /\ sent \in Nat
    BY <1>1, ListFacts
  <2>2. Min({sent, QueueSize}) \in {sent, QueueSize} /\ \A y \in {sent, QueueSize} : Min({sent, QueueSize}) <= y
    BY <2>1, LeastOf
  <2>3. Len(retransmit_list) = Min({sent, QueueSize})
    BY ListLeast DEF ListInv, List!ListIsLastSent
  <2> QED
    BY <2>1, <2>2, <2>3
<1>4. Len(retransmit_list) <= sent /\ sent \in Nat /\ sent <= MaxSent
  BY <1>1, <1>2, <1>3, ListFacts
<1>5. ASSUME NEW k \in 1..Len(retransmit_list)
      PROVE  /\ retransmit_list[k] \in Entries /\ sent - Len(retransmit_list) + k \in 1..MaxSent
             /\ retransmit_list[k].seqn = List!SeqNumber(sent - Len(retransmit_list) + k)
             /\ retransmit_list[k].retries = resent[sent - Len(retransmit_list) + k]
  <2>1. retransmit_list[k] \in Entries
    BY <1>1
  <2>2. sent - Len(retransmit_list) + k \in 1..MaxSent
    BY <1>1, <1>2, <1>4
  <2> QED
    BY <2>1, <2>2, <1>2 DEF ListInv, List!ListIsLastSent
<1> QED
  BY <1>1, <1>2, <1>3, <1>4, <1>5

\* A number is in the list once.
LEMMA ListOnce ==
  ASSUME ListInv, NEW i \in 1..Len(retransmit_list), NEW n \in 1..MaxSent,
         retransmit_list[i].seqn = List!SeqNumber(n)
  PROVE  n = sent - Len(retransmit_list) + i
<1>1. /\ sent - Len(retransmit_list) + i \in 1..MaxSent /\ listFirst \in ListStarts
      /\ retransmit_list[i].seqn = List!SeqNumber(sent - Len(retransmit_list) + i)
  BY ListBasics
<1> QED
  BY <1>1, SentNumbers

\* pop_front keeps the last entries.
LEMMA KeepIs ==
  ASSUME NEW q \in Seq(Entries)
  PROVE  /\ List!Keep(q) \in Seq(Entries)
         /\ Len(List!Keep(q)) = IF Len(q) <= QueueSize THEN Len(q) ELSE QueueSize
         /\ \A k \in 1..Len(List!Keep(q)) : List!Keep(q)[k] = q[Len(q) - Len(List!Keep(q)) + k]
<1>1. Len(q) \in Nat /\ QueueSize \in Nat \ {0} /\ \A k \in 1..Len(q) : q[k] \in Entries
  BY ListFacts
<1>2. CASE Len(q) <= QueueSize
  <2>1. List!Keep(q) = q
    BY <1>1, <1>2 DEF List!Keep
  <2> QED
    BY <2>1, <1>1, <1>2
<1>3. CASE Len(q) > QueueSize
  <2> DEFINE m == Len(q) - QueueSize + 1
  <2>1. m \in Int /\ m >= 1 /\ m <= Len(q) /\ Len(q) - m + 1 = QueueSize /\ \A k \in m..Len(q) : q[k] \in Entries
    BY <1>1, <1>3
  <2>2. List!Keep(q) = SubSeq(q, m, Len(q))
    BY <1>3 DEF List!Keep
  <2>3. /\ SubSeq(q, m, Len(q)) \in Seq(Entries) /\ Len(SubSeq(q, m, Len(q))) = Len(q) - m + 1
        /\ \A k \in 1..(Len(q) - m + 1) : SubSeq(q, m, Len(q))[k] = q[m + k - 1]
    <3> HIDE DEF m
    <3> QED
      BY <2>1, <1>1, SubSeqProperties
  <2>4. \A k \in 1..QueueSize : m + k - 1 = Len(q) - QueueSize + k
    BY <1>1
  <2> HIDE DEF m
  <2> QED
    BY <2>1, <2>2, <2>3, <2>4, <1>1, <1>3
<1> QED
  BY <1>1, <1>2, <1>3

\* PushPacket puts the next packet at the end and drops the oldest of a full list.
LEMMA PushListKeeps ==
  ASSUME ListInv, List!PushPacket
  PROVE  ListInv'
<1> DEFINE N == Len(retransmit_list)
           e == [seqn |-> List!SeqNumber(sent + 1), ts |-> listNow, retries |-> 0]
           q == Append(retransmit_list, e)
           K == Len(List!Keep(q))
<1>1. /\ retransmit_list \in Seq(Entries) /\ N \in Nat
      /\ sent \in Nat /\ sent <= MaxSent /\ N <= sent /\ N = IF sent <= QueueSize THEN sent ELSE QueueSize
      /\ listFirst \in ListStarts /\ resent \in [1..MaxSent -> Nat] /\ listNow \in 0..ListTime
      /\ \A k \in 1..N : /\ retransmit_list[k].seqn = List!SeqNumber(sent - N + k)
                         /\ retransmit_list[k].retries = resent[sent - N + k]
  BY ListBasics
<1>2. /\ todo = <<>> /\ sent < MaxSent /\ sent' = sent + 1 /\ retransmit_list' = List!Keep(q)
      /\ UNCHANGED <<listFirst, listNow, todo, started, lost_not_retrans, resent, wanted, split, answered, nacks>>
  BY DEF List!PushPacket, List!nackVars
<1>3. QueueSize \in Nat \ {0} /\ MaxSent \in Nat /\ MaxRetries \in Nat
  BY ListFacts
<1>4. sent + 1 \in 1..MaxSent /\ resent[sent + 1] = 0
  BY <1>1, <1>2, <1>3 DEF ListInv, UnsentAreNot
<1>5. e \in Entries
  BY <1>1, <1>3, <1>4, SentNumbers DEF Entries
<1>6. q \in Seq(Entries) /\ Len(q) = N + 1 /\ (\A k \in 1..N : q[k] = retransmit_list[k]) /\ q[N + 1] = e
  <2> HIDE DEF e
  <2> QED
    BY <1>1, <1>5, AppendProperties
<1>7. e.seqn = List!SeqNumber(sent + 1) /\ e.retries = 0
  OBVIOUS
<1> HIDE DEF q, e, N
<1>8. /\ List!Keep(q) \in Seq(Entries) /\ K = IF N + 1 <= QueueSize THEN N + 1 ELSE QueueSize
      /\ \A k \in 1..K : List!Keep(q)[k] = q[N + 1 - K + k]
  <2>1. /\ List!Keep(q) \in Seq(Entries) /\ Len(List!Keep(q)) = IF Len(q) <= QueueSize THEN Len(q) ELSE QueueSize
        /\ \A k \in 1..Len(List!Keep(q)) : List!Keep(q)[k] = q[Len(q) - Len(List!Keep(q)) + k]
    BY <1>6, KeepIs
  <2>2. Len(q) = N + 1
    BY <1>6
  <2> HIDE DEF K
  <2>3. K = Len(List!Keep(q))
    BY DEF K
  <2>4. N \in Nat /\ QueueSize \in Nat
    BY <1>1, <1>3
  <2>5. K = IF N + 1 <= QueueSize THEN N + 1 ELSE QueueSize
    BY <2>1, <2>2, <2>3, <2>4
  <2>6. ASSUME NEW k \in 1..K PROVE List!Keep(q)[k] = q[N + 1 - K + k]
    <3>1. Len(q) - Len(List!Keep(q)) + k = N + 1 - K + k
      BY <2>2, <2>3, <2>4, <2>5
    <3>2. List!Keep(q)[k] = q[Len(q) - Len(List!Keep(q)) + k]
      BY <2>1, <2>3
    <3> QED
      BY <3>1, <3>2, Zenon
  <2> QED
    BY <2>1, <2>5, <2>6
<1>9. retransmit_list' \in Seq(Entries) /\ Len(retransmit_list') = K /\ DOMAIN retransmit_list' = 1..K
  BY <1>2, <1>8
<1> HIDE DEF K
<1>10. K \in Nat /\ K <= N + 1 /\ K = IF sent + 1 <= QueueSize THEN sent + 1 ELSE QueueSize
  BY <1>1, <1>3, <1>8
<1>11. ASSUME NEW k \in 1..K
       PROVE  /\ retransmit_list'[k].seqn = List!SeqNumber(sent + 1 - K + k)
              /\ retransmit_list'[k].retries = resent[sent + 1 - K + k]
  <2>1. retransmit_list'[k] = q[N + 1 - K + k]
    BY <1>2, <1>8
  <2>2. CASE k = K
    <3>1. N + 1 - K + k = N + 1 /\ sent + 1 - K + k = sent + 1
      BY <2>2, <1>1, <1>10
    <3> QED
      BY <3>1, <2>1, <1>4, <1>6, <1>7
  <2>3. CASE k # K
    <3>0. N \in Nat /\ K \in Nat /\ K <= N + 1 /\ k \in 1..K /\ k # K
      BY <2>3, <1>1, <1>10
    <3>1. PICK j \in 1..N : j = N + 1 - K + k
      BY <3>0
    <3>2. sent \in Int /\ N \in Int /\ K \in Int /\ k \in Int
      BY <1>1, <1>10
    <3>3. sent - N + j = sent + 1 - K + k
      BY <3>1, <3>2
    <3>4. retransmit_list'[k] = retransmit_list[j]
      BY <3>1, <2>1, <1>6
    <3>5. retransmit_list[j].seqn = List!SeqNumber(sent - N + j) /\ retransmit_list[j].retries = resent[sent - N + j]
      BY <1>1
    <3> QED
      BY <3>3, <3>4, <3>5
  <2> QED
    BY <2>2, <2>3
<1>12. List!SeqNumber(1)' = List!SeqNumber(1) /\ \A n : (listFirst' + n - 1) % SeqSpace = (listFirst + n - 1) % SeqSpace
  BY <1>2 DEF List!SeqNumber
<1>13. List!ListIsLastSent'
  <2>1. Len(retransmit_list') = List!Min({sent', QueueSize})
    <3>1. sent + 1 \in Nat /\ QueueSize \in Nat
      BY <1>1, <1>3
    <3>2. Min({sent + 1, QueueSize}) \in {sent + 1, QueueSize} /\ \A y \in {sent + 1, QueueSize} : Min({sent + 1, QueueSize}) <= y
      BY <3>1, LeastOf
    <3>3. Min({sent + 1, QueueSize}) = K
      BY <3>1, <3>2, <1>10
    <3> QED
      BY <3>3, <1>2, <1>9, ListLeast
  <2>2. ASSUME NEW k \in DOMAIN retransmit_list'
        PROVE  /\ retransmit_list'[k].seqn = (listFirst' + (sent' - Len(retransmit_list') + k) - 1) % SeqSpace
               /\ retransmit_list'[k].retries = resent'[sent' - Len(retransmit_list') + k]
    <3>1. /\ retransmit_list'[k].seqn = List!SeqNumber(sent + 1 - K + k)
          /\ retransmit_list'[k].retries = resent[sent + 1 - K + k]
      BY <1>9, <1>11
    <3>2. sent' = sent + 1 /\ Len(retransmit_list') = K /\ listFirst' = listFirst /\ resent' = resent /\ k \in 1..K
      BY <1>2, <1>9
    <3>3. sent' - Len(retransmit_list') + k = sent + 1 - K + k
      BY <3>2, <1>1, <1>10
    <3>4. List!SeqNumber(sent + 1 - K + k) = (listFirst + (sent + 1 - K + k) - 1) % SeqSpace
      BY DEF List!SeqNumber
    <3> QED
      BY <3>1, <3>2, <3>3, <3>4, Zenon
  <2> QED
    BY <2>1, <2>2 DEF List!ListIsLastSent, List!SeqNumber
<1>14. List!TypeOK'
  <2>1. sent' \in 0..MaxSent
    BY <1>1, <1>2, <1>3
  <2> QED
    BY <2>1, <1>2, <1>9 DEF ListInv, List!TypeOK, Entries
<1>15. List!OncePerMessage' /\ List!LostCountedOnce' /\ List!AnsweredBelowWrap' /\ LoopIsRight'
  BY <1>2 DEF ListInv, List!OncePerMessage, List!LostCountedOnce, List!AnsweredBelowWrap, LoopIsRight, List!SeqNumber
<1>16. AnsweredAreRecent' /\ WantedAreComing'
  BY <1>2 DEF AnsweredAreRecent, WantedAreComing
<1>17. UnsentAreNot'
  BY <1>1, <1>2, <1>3 DEF ListInv, UnsentAreNot
<1> QED
  BY <1>13, <1>14, <1>15, <1>16, <1>17 DEF ListInv

\* A message arrives: every packet it names for the first time is in a block that is left.
LEMMA NackKeeps ==
  ASSUME ListInv, NEW b1 \in List!BlocksSent, NEW b2 \in List!BlocksSent, List!ProcessRtcpNackPackets(b1, b2)
  PROVE  ListInv'
<1> DEFINE named(b) == {b.n} \cup {b.n + j : j \in b.blp}
           numbers(b) == {List!SeqNumber(b.n)} \cup {List!SeqNumber(b.n) + j : j \in b.blp}
<1>1. /\ retransmit_list \in Seq(Entries) /\ Len(retransmit_list) \in Nat
      /\ DOMAIN retransmit_list = 1..Len(retransmit_list)
      /\ sent \in Nat /\ sent <= MaxSent /\ Len(retransmit_list) <= sent
      /\ listFirst \in ListStarts /\ listNow \in 0..ListTime
  BY ListBasics
<1>2. /\ SeqSpace \in Nat \ {0} /\ ListSpan \in Nat \ {0} /\ MaxSent \in Nat /\ MaxSent < SeqSpace
      /\ ListTime \in Nat /\ MaxNacks \in Nat
  BY ListFacts
<1>3. /\ todo = <<>> /\ nacks < MaxNacks /\ nacks' = nacks + 1 /\ started' = listNow /\ answered' = <<>>
      /\ todo' = <<numbers(b1), numbers(b2)>>
      /\ wanted' = {n \in named(b1) \cup named(b2) :
                      resent[n] = 0 /\ List!SeqNumber(n) \in {retransmit_list[k].seqn : k \in DOMAIN retransmit_list}}
      /\ split' = \E b \in {b1, b2} : \E j \in b.blp : List!SeqNumber(b.n) + j >= SeqSpace
      /\ UNCHANGED <<retransmit_list, lost_not_retrans, resent, listFirst, sent, listNow>>
  BY DEF List!ProcessRtcpNackPackets, List!GetNacks
<1>4. ASSUME NEW b \in List!BlocksSent
      PROVE  /\ b.n \in 1..sent /\ b.blp \subseteq 1..ListSpan /\ \A j \in b.blp : b.n + j <= sent
             /\ named(b) \subseteq 1..sent
             /\ numbers(b) \in Blocks /\ numbers(b) # {}
             /\ (\A j \in b.blp : List!SeqNumber(b.n) + j < SeqSpace)
                  => \A n \in named(b) : List!SeqNumber(n) \in numbers(b)
  <2>1. b.n \in 1..sent /\ b.blp \subseteq 1..ListSpan /\ \A j \in b.blp : b.n + j <= sent
    BY DEF List!BlocksSent
  <2>2. named(b) \subseteq 1..sent
    BY <2>1, <1>1, <1>2
  <2>3. b.n \in 1..MaxSent /\ List!SeqNumber(b.n) \in 0..(SeqSpace - 1)
    BY <2>1, <1>1, <1>2, SentNumbers
  <2>4. numbers(b) \in Blocks /\ numbers(b) # {}
    <3> DEFINE z == List!SeqNumber(b.n)
    <3>1. z \in 0..(SeqSpace + ListSpan) /\ \A j \in b.blp : z + j \in 0..(SeqSpace + ListSpan)
      BY <2>1, <2>3, <1>2
    <3> QED
      BY <3>1 DEF Blocks
  <2>5. ASSUME NEW n \in named(b), \A j \in b.blp : List!SeqNumber(b.n) + j < SeqSpace
        PROVE  List!SeqNumber(n) \in numbers(b)
    <3>1. CASE n = b.n
      BY <3>1
    <3>2. CASE n # b.n
      <4>1. PICK j \in b.blp : n = b.n + j
        BY <3>2
      <4>2. j \in Nat /\ b.n + j \in 1..MaxSent
        BY <4>1, <2>1, <1>1, <1>2
      <4>3. List!SeqNumber(b.n + j) = List!SeqNumber(b.n) + j
        BY <4>2, <2>3, <2>5, <1>1, SentOffset
      <4> QED
        BY <4>1, <4>3
    <3> QED
      BY <3>1, <3>2
  <2> QED
    BY <2>1, <2>2, <2>4, <2>5
<1> HIDE DEF numbers
<1>5. /\ todo' \in Seq(Blocks) /\ Len(todo') = 2 /\ todo'[1] = numbers(b1) /\ todo'[2] = numbers(b2)
      /\ \A j \in 1..Len(todo') : todo'[j] # {}
  BY <1>3, <1>4
<1>6. List!TypeOK'
  <2>1. wanted' \subseteq 1..MaxSent
    BY <1>1, <1>2, <1>3, <1>4
  <2>2. split' \in BOOLEAN /\ answered' \in Seq(List!Seqs) /\ nacks' \in 0..MaxNacks
    BY <1>2, <1>3 DEF ListInv, List!TypeOK
  <2> QED
    BY <2>1, <2>2, <1>1, <1>3, <1>5 DEF ListInv, List!TypeOK, Blocks
<1>7. List!ListIsLastSent' /\ List!LostCountedOnce' /\ UnsentAreNot'
  BY <1>3 DEF ListInv, List!ListIsLastSent, List!LostCountedOnce, List!SeqNumber, UnsentAreNot
<1>8. List!OncePerMessage' /\ AnsweredAreRecent'
  BY <1>3 DEF List!OncePerMessage, List!IsInjective, AnsweredAreRecent
<1>9. LoopIsRight'
  BY <1>1, <1>2, <1>3, <1>5 DEF LoopIsRight
<1>10. WantedAreComing'
  <2> SUFFICES ASSUME ~split', NEW n \in wanted' PROVE IsComing(n)'
    BY DEF WantedAreComing
  <2>1. PICK b \in {b1, b2} : n \in named(b)
    BY <1>3
  <2>2. ASSUME NEW j \in b.blp PROVE List!SeqNumber(b.n) + j < SeqSpace
    <3>1. ~(List!SeqNumber(b.n) + j >= SeqSpace)
      BY <1>3
    <3>2. b.n \in 1..sent /\ b.blp \subseteq 1..ListSpan
      BY <1>4
    <3>3. b.n \in 1..MaxSent /\ j \in Nat
      BY <3>2, <1>1, <1>2
    <3>4. List!SeqNumber(b.n) \in 0..(SeqSpace - 1)
      BY <3>3, <1>1, SentNumbers
    <3> QED
      BY <3>1, <3>3, <3>4, <1>2
  <2>3. List!SeqNumber(n) \in numbers(b) /\ n \in 1..sent
    BY <2>1, <2>2, <1>4
  <2>4. PICK k \in 1..Len(retransmit_list) : retransmit_list[k].seqn = List!SeqNumber(n)
    BY <1>1, <1>3
  <2>5. n = sent - Len(retransmit_list) + k
    BY <2>3, <2>4, <1>1, <1>2, ListOnce
  <2>6. n > sent - Len(retransmit_list) /\ resent[n] = 0
    BY <2>5, <1>1, <1>3
  <2>7. \E j \in 1..Len(todo') : List!SeqNumber(n) \in todo'[j]
    BY <2>1, <2>3, <1>5
  <2>8. List!SeqNumber(n) = (listFirst' + n - 1) % SeqSpace
    BY <1>3 DEF List!SeqNumber
  <2> QED
    BY <2>3, <2>6, <2>7, <2>8, <1>3 DEF IsComing, List!SeqNumber
<1>11. List!AnsweredBelowWrap'
  BY <1>5 DEF List!AnsweredBelowWrap
<1> QED
  BY <1>6, <1>7, <1>8, <1>9, <1>10, <1>11 DEF ListInv

\* A turn of the loop takes the least number out of the first block that is left.
LEMMA TodoStep ==
  ASSUME NEW t \in Seq(Blocks), t # <<>>, \A j \in 1..Len(t) : t[j] # {}, NEW s \in Head(t),
         NEW u, u = IF Head(t) \ {s} = {} THEN Tail(t) ELSE <<Head(t) \ {s}>> \o Tail(t)
  PROVE  /\ u \in Seq(Blocks) /\ \A j \in 1..Len(u) : u[j] # {}
         /\ \A x : x # s /\ (\E j \in 1..Len(t) : x \in t[j]) => \E i \in 1..Len(u) : x \in u[i]
<1> DEFINE r == Head(t) \ {s}
           tl == Tail(t)
<1>1. Len(t) \in Nat /\ Len(t) > 0 /\ Head(t) = t[1] /\ t[1] \in Blocks
  BY EmptySeq
<1>2. r \in Blocks
  BY <1>1 DEF Blocks
<1>3. tl \in Seq(Blocks) /\ Len(tl) = Len(t) - 1 /\ \A j \in 1..Len(tl) : tl[j] = t[j + 1]
  BY <1>1, HeadTailProperties
<1>4. CASE r = {}
  <2>1. u = tl
    BY <1>4
  <2> HIDE DEF tl
  <2>2. ASSUME NEW j \in 1..Len(u) PROVE u[j] # {}
    <3>1. j \in 1..Len(tl) /\ j + 1 \in 1..Len(t)
      BY <2>1, <1>1, <1>3
    <3> QED
      BY <3>1, <2>1, <1>3
  <2>3. ASSUME NEW x, x # s, NEW j \in 1..Len(t), x \in t[j] PROVE \E i \in 1..Len(u) : x \in u[i]
    <3>1. j # 1
      BY <2>3, <1>1, <1>4
    <3>2. j - 1 \in 1..Len(tl) /\ j - 1 + 1 = j
      BY <3>1, <1>1, <1>3
    <3> QED
      BY <3>2, <2>1, <2>3, <1>3
  <2> QED
    BY <2>1, <2>2, <2>3, <1>3
<1>5. CASE r # {}
  <2>1. u = <<r>> \o tl
    BY <1>5
  <2> HIDE DEF tl, r
  <2>2. <<r>> \in Seq(Blocks) /\ Len(<<r>>) = 1 /\ <<r>>[1] = r
    BY <1>2
  <2>3. /\ u \in Seq(Blocks) /\ Len(u) = 1 + Len(tl)
        /\ \A i \in 1..(1 + Len(tl)) : u[i] = IF i <= 1 THEN <<r>>[i] ELSE tl[i - 1]
    <3> DEFINE q == <<r>>
    <3>1. q \in Seq(Blocks) /\ Len(q) = 1 /\ u = q \o tl /\ tl \in Seq(Blocks)
      BY <2>1, <2>2, <1>3
    <3> HIDE DEF q
    <3>2. /\ q \o tl \in Seq(Blocks) /\ Len(q \o tl) = Len(q) + Len(tl)
          /\ \A i \in 1..(Len(q) + Len(tl)) : (q \o tl)[i] = IF i <= Len(q) THEN q[i] ELSE tl[i - Len(q)]
      BY <3>1, ConcatProperties
    <3>3. /\ u \in Seq(Blocks) /\ Len(u) = 1 + Len(tl)
          /\ \A i \in 1..(1 + Len(tl)) : u[i] = IF i <= 1 THEN q[i] ELSE tl[i - 1]
      BY <3>1, <3>2
    <3> QED
      BY <3>3 DEF q
  <2>4. u[1] = r /\ Len(u) = Len(t) /\ \A i \in 2..Len(u) : u[i] = t[i]
    <3>1. ASSUME NEW i \in 2..Len(u) PROVE u[i] = t[i]
      <4>1. i - 1 \in 1..Len(tl) /\ i - 1 + 1 = i /\ i \in 1..(1 + Len(tl)) /\ ~(i <= 1)
        BY <2>3, <1>1, <1>3
      <4> QED
        BY <4>1, <2>3, <1>3
    <3> QED
      BY <3>1, <2>2, <2>3, <1>1, <1>3
  <2>5. \A j \in 1..Len(u) : u[j] # {}
    BY <2>4, <1>1, <1>5
  <2>6. ASSUME NEW x, x # s, NEW j \in 1..Len(t), x \in t[j] PROVE \E i \in 1..Len(u) : x \in u[i]
    <3>1. CASE j = 1
      <4>1. x \in r
        BY <3>1, <2>6, <1>1 DEF r
      <4> QED
        BY <4>1, <2>4, <1>1
    <3>2. CASE j # 1
      BY <3>2, <2>4, <2>6, <1>1
    <3> QED
      BY <3>1, <3>2
  <2> QED
    BY <2>3, <2>5, <2>6
<1> QED
  BY <1>4, <1>5

\* The look-up from the back finds the one place of a number.
LEMMA PlaceIs ==
  ASSUME ListInv, NEW k \in 1..Len(retransmit_list)
  PROVE  LET places == {i \in DOMAIN retransmit_list : retransmit_list[i].seqn = retransmit_list[k].seqn}
         IN  places = {k} /\ List!Max(places) = k
<1>1. /\ DOMAIN retransmit_list = 1..Len(retransmit_list) /\ sent \in Nat /\ Len(retransmit_list) \in Nat
      /\ \A i \in 1..Len(retransmit_list) :
           /\ sent - Len(retransmit_list) + i \in 1..MaxSent
           /\ retransmit_list[i].seqn = List!SeqNumber(sent - Len(retransmit_list) + i)
  BY ListBasics
<1>2. ASSUME NEW i \in 1..Len(retransmit_list), retransmit_list[i].seqn = retransmit_list[k].seqn
      PROVE  i = k
  <2>1. sent - Len(retransmit_list) + i = sent - Len(retransmit_list) + k
    BY <1>1, <1>2, ListOnce
  <2> QED
    BY <2>1, <1>1
<1>3. {i \in DOMAIN retransmit_list : retransmit_list[i].seqn = retransmit_list[k].seqn} = {k}
  BY <1>1, <1>2
<1>4. List!Max({k}) = k
  BY DEF List!Max
<1> QED
  BY <1>3, <1>4

\* A packet that is still to come is found by the turn that looks for its number, and
\* it may be sent.
LEMMA ComingIsFound ==
  ASSUME ListInv, NEW n, IsComing(n)
  PROVE  LET places == {i \in DOMAIN retransmit_list : retransmit_list[i].seqn = List!SeqNumber(n)}
         IN  places # {} /\ List!MayResend(retransmit_list[List!Max(places)])
<1> DEFINE k == n - (sent - Len(retransmit_list))
<1>1. /\ sent \in Nat /\ Len(retransmit_list) \in Nat /\ Len(retransmit_list) <= sent /\ sent <= MaxSent
      /\ \A i \in 1..Len(retransmit_list) :
           /\ retransmit_list[i].seqn = List!SeqNumber(sent - Len(retransmit_list) + i)
           /\ retransmit_list[i].retries = resent[sent - Len(retransmit_list) + i]
  BY ListBasics
<1>2. n \in 1..sent /\ n > sent - Len(retransmit_list) /\ resent[n] = 0
  BY DEF IsComing
<1>3. k \in 1..Len(retransmit_list) /\ sent - Len(retransmit_list) + k = n
  BY <1>1, <1>2
<1> HIDE DEF k
<1>4. retransmit_list[k].seqn = List!SeqNumber(n) /\ retransmit_list[k].retries = 0
  BY <1>1, <1>2, <1>3
<1>5. List!MayResend(retransmit_list[k])
  BY <1>4, ListFacts DEF List!MayResend
<1> QED
  BY <1>3, <1>4, <1>5, PlaceIs

\* A turn of the loop: what is found and may be sent was not sent by this message yet.
LEMMA AnswerKeeps ==
  ASSUME ListInv, List!Answer
  PROVE  ListInv'
<1> DEFINE N == Len(retransmit_list)
           seqn == List!Min(Head(todo))
           places == {i \in DOMAIN retransmit_list : retransmit_list[i].seqn = seqn}
           said(a, n) == \E i \in DOMAIN a : a[i] = List!SeqNumber(n)
<1>1. /\ retransmit_list \in Seq(Entries) /\ N \in Nat /\ DOMAIN retransmit_list = 1..N
      /\ sent \in Nat /\ sent <= MaxSent /\ N <= sent
      /\ listFirst \in ListStarts /\ todo \in Seq(Blocks) /\ answered \in Seq(List!Seqs)
      /\ resent \in [1..MaxSent -> Nat] /\ lost_not_retrans \in Nat
      /\ listNow \in 0..ListTime /\ started \in 0..ListTime
      /\ \A k \in 1..N : /\ retransmit_list[k] \in Entries /\ sent - N + k \in 1..MaxSent
                         /\ retransmit_list[k].seqn = List!SeqNumber(sent - N + k)
                         /\ retransmit_list[k].retries = resent[sent - N + k]
  BY ListBasics
<1>2. /\ todo # <<>>
      /\ todo' = IF Head(todo) \ {seqn} = {} THEN Tail(todo) ELSE <<Head(todo) \ {seqn}>> \o Tail(todo)
      /\ UNCHANGED <<started, listFirst, sent, listNow, nacks, wanted, split>>
  BY DEF List!Answer
<1>3. seqn \in Head(todo)
  <2>1. Head(todo) \in Blocks /\ Head(todo) # {}
    <3>1. \A j \in 1..Len(todo) : todo[j] # {}
      BY DEF ListInv, LoopIsRight
    <3>2. todo \in Seq(Blocks) /\ todo # <<>>
      BY <1>1, <1>2
    <3>3. 1 \in 1..Len(todo) /\ Head(todo) = todo[1]
      BY <3>2
    <3> QED
      BY <3>1, <3>2, <3>3
  <2>2. Head(todo) \in SUBSET Nat
    BY <2>1, ListFacts DEF Blocks
  <2> QED
    BY <2>1, <2>2, LeastOf, ListLeast
<1>4. /\ todo' \in Seq(Blocks) /\ \A j \in 1..Len(todo') : todo'[j] # {}
      /\ \A x : x # seqn /\ (\E j \in 1..Len(todo) : x \in todo[j]) => \E i \in 1..Len(todo') : x \in todo'[i]
  <2>1. \A j \in 1..Len(todo) : todo[j] # {}
    BY DEF ListInv, LoopIsRight
  <2> HIDE DEF seqn
  <2> QED
    BY <2>1, <1>1, <1>2, <1>3, TodoStep
<1>5. LoopIsRight' /\ \A n : (listFirst' + n - 1) % SeqSpace = List!SeqNumber(n)
  BY <1>2, <1>4 DEF ListInv, LoopIsRight, List!SeqNumber
<1>6. ASSUME ~split, NEW n \in wanted PROVE IsComing(n) \/ said(answered, n)
  BY <1>2, <1>6 DEF ListInv, WantedAreComing
<1>7. ASSUME \A n \in wanted : ~split => IsComing(n)' \/ said(answered', n)
      PROVE  WantedAreComing' /\ List!AnsweredBelowWrap'
  <2>1. todo' = <<>> => \A n : ~IsComing(n)'
    BY DEF IsComing
  <2>2. \A n : said(answered', n) => \E i \in DOMAIN answered' : answered'[i] = List!SeqNumber(n)'
    BY <1>5 DEF List!SeqNumber
  <2> HIDE DEF said
  <2> QED
    BY <2>1, <2>2, <1>2, <1>7 DEF WantedAreComing, List!AnsweredBelowWrap
<1>8. CASE places = {} \/ ~List!MayResend(retransmit_list[List!Max(places)])
  <2>1. UNCHANGED <<retransmit_list, answered, resent, lost_not_retrans>>
    BY <1>8 DEF List!Answer
  <2>2. ASSUME ~split, NEW n \in wanted PROVE IsComing(n)' \/ said(answered', n)
    <3>1. CASE said(answered, n)
      BY <3>1, <2>1
    <3>2. CASE IsComing(n)
      <4>1. List!SeqNumber(n) # seqn
        BY <3>2, <1>8, ComingIsFound
      <4> HIDE DEF seqn
      <4>2. \E i \in 1..Len(todo') : List!SeqNumber(n) \in todo'[i]
        BY <4>1, <3>2, <1>4 DEF IsComing
      <4> QED
        BY <4>2, <3>2, <2>1, <1>2 DEF IsComing, List!SeqNumber
    <3> QED
      BY <3>1, <3>2, <2>2, <1>6
  <2>3. WantedAreComing' /\ List!AnsweredBelowWrap'
    BY <2>2, <1>7
  <2>4. List!ListIsLastSent' /\ List!OncePerMessage' /\ List!LostCountedOnce' /\ UnsentAreNot' /\ AnsweredAreRecent'
    BY <2>1, <1>2 DEF ListInv, List!ListIsLastSent, List!OncePerMessage, List!LostCountedOnce, UnsentAreNot,
       AnsweredAreRecent, List!SeqNumber
  <2>5. List!TypeOK'
    BY <2>1, <1>2, <1>4 DEF ListInv, List!TypeOK, Blocks
  <2> QED
    BY <2>3, <2>4, <2>5, <1>5 DEF ListInv
<1>9. CASE places # {} /\ List!MayResend(retransmit_list[List!Max(places)])
  <2>1. PICK k \in 1..N : retransmit_list[k].seqn = seqn
    BY <1>9, <1>1
  <2>2. places = {k} /\ List!Max(places) = k
    BY <2>1, PlaceIs
  <2> DEFINE rp == retransmit_list[k]
             m == sent - N + k
  <2>3. /\ retransmit_list' = [retransmit_list EXCEPT ![k] = [rp EXCEPT !.ts = listNow, !.retries = rp.retries + 1]]
        /\ answered' = Append(answered, seqn)
        /\ resent' = [n \in 1..MaxSent |-> IF List!SeqNumber(n) = seqn THEN resent[n] + 1 ELSE resent[n]]
        /\ lost_not_retrans' = lost_not_retrans + List!Lost(rp)
    BY <2>2, <1>9 DEF List!Answer
  <2>4. rp.retries < MaxRetries /\ (rp.retries = 0 \/ started - rp.ts > RetryWait)
    BY <2>2, <1>9 DEF List!MayResend
  <2> HIDE DEF seqn, places
  <2>5. /\ rp \in Entries /\ m \in 1..MaxSent /\ m <= sent /\ seqn = List!SeqNumber(m) /\ rp.retries = resent[m]
        /\ m > sent - N /\ seqn \in List!Seqs
    BY <2>1, <1>1, SentNumbers
  <2>6. \A n \in 1..MaxSent : List!SeqNumber(n) = seqn <=> n = m
    BY <2>5, <1>1, SentNumbers
  <2> DEFINE e == [rp EXCEPT !.ts = listNow, !.retries = rp.retries + 1]
  <2>7. e \in Entries /\ e.seqn = seqn /\ e.ts = listNow /\ e.retries = rp.retries + 1 /\ rp.retries \in Nat /\ rp.ts \in Nat
    <3>1. rp \in Entries /\ rp.seqn = seqn /\ rp.retries < MaxRetries /\ MaxRetries \in Nat /\ listNow \in 0..ListTime /\ ListTime \in Nat
      BY <2>1, <2>4, <2>5, <1>1, ListFacts
    <3> HIDE DEF rp
    <3>2. rp.retries \in Nat /\ rp.ts \in Nat /\ rp.retries + 1 \in 0..MaxRetries
      BY <3>1 DEF Entries
    <3> QED
      BY <3>1, <3>2 DEF Entries
  <2> HIDE DEF rp, e
  <2>8. /\ retransmit_list' \in Seq(Entries) /\ Len(retransmit_list') = N /\ DOMAIN retransmit_list' = 1..N
        /\ retransmit_list'[k] = e /\ \A i \in 1..N : i # k => retransmit_list'[i] = retransmit_list[i]
    <3>1. retransmit_list' = [retransmit_list EXCEPT ![k] = e]
      BY <2>3 DEF e
    <3> QED
      BY <3>1, <2>7, <1>1
  <2> HIDE DEF N
  <2>9. /\ resent' \in [1..MaxSent -> Nat] /\ resent'[m] = resent[m] + 1
        /\ \A n \in 1..MaxSent : n # m => resent'[n] = resent[n]
    <3> HIDE DEF m
    <3> QED
      BY <2>3, <2>5, <2>6, <1>1
  <2>10. /\ answered' \in Seq(List!Seqs) /\ Len(answered') = Len(answered) + 1 /\ answered'[Len(answered) + 1] = seqn
         /\ \A i \in 1..Len(answered) : answered'[i] = answered[i]
         /\ Len(answered) \in Nat
    BY <2>3, <2>5, <1>1
  <2>11. List!TypeOK'
    <3>1. lost_not_retrans' \in Nat
      BY <2>3, <1>1 DEF List!Lost
    <3> QED
      BY <3>1, <2>8, <2>9, <2>10, <1>2, <1>4 DEF ListInv, List!TypeOK, Entries, Blocks
  <2>12. List!ListIsLastSent'
    <3>1. Len(retransmit_list') = List!Min({sent', QueueSize})
      BY <2>8, <1>2 DEF ListInv, List!ListIsLastSent, N
    <3>2. ASSUME NEW i \in 1..N
          PROVE  retransmit_list'[i].seqn = List!SeqNumber(sent - N + i) /\ retransmit_list'[i].retries = resent'[sent - N + i]
      <4>1. CASE i = k
        BY <4>1, <2>5, <2>7, <2>8, <2>9
      <4>2. CASE i # k
        <5>1. sent - N + i # m
          BY <4>2, <1>1
        <5>2. sent - N + i \in 1..MaxSent
          BY <1>1
        <5> QED
          BY <5>1, <5>2, <4>2, <2>8, <2>9, <1>1
      <4> QED
        BY <4>1, <4>2
    <3>3. ASSUME NEW i \in DOMAIN retransmit_list'
          PROVE  /\ retransmit_list'[i].seqn = (listFirst' + (sent' - Len(retransmit_list') + i) - 1) % SeqSpace
                 /\ retransmit_list'[i].retries = resent'[sent' - Len(retransmit_list') + i]
      <4>1. sent' = sent /\ Len(retransmit_list') = N /\ i \in 1..N /\ listFirst' = listFirst
        BY <2>8, <1>2
      <4>2. (listFirst' + (sent' - Len(retransmit_list') + i) - 1) % SeqSpace = List!SeqNumber(sent - N + i)
        BY <4>1 DEF List!SeqNumber
      <4>3. retransmit_list'[i].seqn = List!SeqNumber(sent - N + i) /\ retransmit_list'[i].retries = resent'[sent - N + i]
        BY <4>1, <3>2
      <4> QED
        BY <4>1, <4>2, <4>3, Zenon
    <3> QED
      BY <3>1, <3>3 DEF List!ListIsLastSent, List!SeqNumber
  <2>13. ASSUME NEW i \in 1..Len(answered) PROVE answered[i] # seqn
    <3>1. SUFFICES ASSUME answered[i] = seqn PROVE FALSE
      OBVIOUS
    <3>2. PICK j \in 1..N : /\ retransmit_list[j].seqn = seqn
                            /\ retransmit_list[j].ts >= started /\ retransmit_list[j].retries > 0
      BY <3>1, <1>2 DEF ListInv, AnsweredAreRecent, N
    <3>3. j = k
      BY <3>2, <2>2, <1>1 DEF places
    <3>4. rp.ts >= started /\ rp.retries > 0
      BY <3>2, <3>3 DEF rp
    <3>5. started \in Nat /\ RetryWait \in Nat /\ rp.ts \in Nat
      BY <2>7, <1>1, ListFacts
    <3>6. started - rp.ts > RetryWait
      BY <3>4, <2>4, <2>7 DEF rp
    <3> QED
      BY <3>4, <3>5, <3>6
  <2>14. List!OncePerMessage'
    <3>1. \A i, j \in 1..Len(answered) : answered[i] = answered[j] => i = j
      BY <1>1 DEF ListInv, List!OncePerMessage, List!IsInjective
    <3>2. \A i, j \in 1..Len(answered') : answered'[i] = answered'[j] => i = j
      BY <3>1, <2>10, <2>13
    <3>3. DOMAIN answered' = 1..Len(answered')
      BY <2>10
    <3> QED
      BY <3>2, <3>3 DEF List!OncePerMessage, List!IsInjective
  <2>15. List!LostCountedOnce'
    <3> DEFINE A == {n \in 1..MaxSent : resent[n] > 0}
               B == {n \in 1..MaxSent : resent'[n] > 0}
    <3>1. lost_not_retrans = Cardinality(A)
      BY ListCounts DEF ListInv, List!LostCountedOnce
    <3>2. IsFiniteSet(A)
      BY UpTo, ListFacts, FS_Subset
    <3>3. B = A \cup {m}
      <4> HIDE DEF m
      <4> QED
        BY <2>5, <2>9, <1>1
    <3>4. CASE resent[m] = 0
      <4>1. m \notin A /\ List!Lost(rp) = 1
        BY <3>4, <2>5 DEF List!Lost, rp
      <4> HIDE DEF A, B, m
      <4>2. Cardinality(B) = Cardinality(A) + 1
        BY <4>1, <3>2, <3>3, FS_AddElement
      <4> QED
        BY <4>1, <4>2, <3>1, <2>3, ListCounts DEF List!LostCountedOnce, B, rp
    <3>5. CASE resent[m] # 0
      <4>1. m \in A /\ List!Lost(rp) = 0
        <5> HIDE DEF m
        <5>1. m \in 1..MaxSent /\ resent[m] \in Nat /\ rp.retries = resent[m]
          BY <2>5, <1>1 DEF rp
        <5> QED
          BY <5>1, <3>5 DEF List!Lost
      <4>2. B = A
        BY <4>1, <3>3
      <4>3. lost_not_retrans' = lost_not_retrans
        BY <4>1, <2>3, <1>1 DEF rp
      <4>4. lost_not_retrans' = List!Cardinality(B)
        BY <4>2, <4>3, <3>1, ListCounts
      <4> QED
        BY <4>4 DEF List!LostCountedOnce
    <3> QED
      BY <3>4, <3>5
  <2>16. AnsweredAreRecent'
    <3>1. started' <= listNow
      BY <1>2 DEF ListInv, LoopIsRight
    <3>2. retransmit_list'[k].seqn = seqn /\ retransmit_list'[k].ts >= started' /\ retransmit_list'[k].retries > 0
      <4>1. retransmit_list'[k] = e /\ e.seqn = seqn /\ e.ts = listNow /\ e.retries = rp.retries + 1 /\ rp.retries \in Nat
        BY <2>7, <2>8
      <4>2. listNow \in Nat /\ started' \in Nat
        BY <1>1, <1>2
      <4> QED
        BY <4>1, <4>2, <3>1
    <3>3. ASSUME NEW i \in 1..Len(answered')
          PROVE  \E j \in 1..N : /\ retransmit_list'[j].seqn = answered'[i]
                                 /\ retransmit_list'[j].ts >= started' /\ retransmit_list'[j].retries > 0
      <4>1. CASE i = Len(answered) + 1
        BY <4>1, <3>2, <2>10
      <4>2. CASE i # Len(answered) + 1
        <5>1. i \in 1..Len(answered) /\ answered'[i] = answered[i]
          BY <4>2, <2>10
        <5>2. PICK j \in 1..N : /\ retransmit_list[j].seqn = answered[i]
                                /\ retransmit_list[j].ts >= started /\ retransmit_list[j].retries > 0
          BY <5>1, <1>2 DEF ListInv, AnsweredAreRecent, N
        <5>3. j # k
          BY <5>1, <5>2, <2>1, <2>13
        <5> QED
          BY <5>1, <5>2, <5>3, <2>8, <1>2
      <4> QED
        BY <4>1, <4>2
    <3> QED
      BY <3>3, <2>8 DEF AnsweredAreRecent
  <2>17. UnsentAreNot'
    <3>1. \A n \in 1..MaxSent : n > sent => n # m
      BY <2>5, <1>1
    <3> HIDE DEF m
    <3> QED
      BY <3>1, <2>9, <1>2 DEF ListInv, UnsentAreNot
  <2>18. ASSUME ~split, NEW n \in wanted PROVE IsComing(n)' \/ said(answered', n)
    <3>1. DOMAIN answered = 1..Len(answered) /\ DOMAIN answered' = 1..Len(answered')
      BY <2>10, <1>1
    <3>2. CASE said(answered, n)
      BY <3>1, <3>2, <2>10
    <3>3. CASE List!SeqNumber(n) = seqn
      <4>1. Len(answered) + 1 \in DOMAIN answered' /\ answered'[Len(answered) + 1] = List!SeqNumber(n)
        BY <3>1, <3>3, <2>10
      <4> QED
        BY <4>1
    <3>4. CASE IsComing(n) /\ List!SeqNumber(n) # seqn
      <4>1. \E i \in 1..Len(todo') : List!SeqNumber(n) \in todo'[i]
        BY <3>4, <1>4 DEF IsComing
      <4>2. n \in 1..sent /\ n > sent - N /\ resent[n] = 0
        BY <3>4 DEF IsComing, N
      <4>3. n \in 1..MaxSent /\ n # m
        <5>1. n # m
          <6> HIDE DEF m
          <6> QED
            BY <3>4, <2>5
        <5>2. sent \in Nat /\ sent <= MaxSent /\ MaxSent \in Nat
          BY <1>1, ListFacts
        <5> QED
          BY <5>1, <5>2, <4>2
      <4>4. resent'[n] = 0
        <5> HIDE DEF m
        <5> QED
          BY <4>2, <4>3, <2>9
      <4>5. n > sent' - Len(retransmit_list')
        BY <4>2, <2>8, <1>2
      <4> QED
        BY <4>1, <4>2, <4>4, <4>5, <1>2, <1>5 DEF IsComing, List!SeqNumber
    <3> QED
      BY <3>2, <3>3, <3>4, <2>18, <1>6
  <2>19. WantedAreComing' /\ List!AnsweredBelowWrap'
    BY <2>18, <1>7
  <2> QED
    BY <2>11, <2>12, <2>14, <2>15, <2>16, <2>17, <2>19, <1>5 DEF ListInv
<1> QED
  BY <1>8, <1>9

\* The list as it starts.
LEMMA ListStart == AllInit => ListInv
<1> SUFFICES ASSUME AllInit PROVE ListInv
  OBVIOUS
<1>1. /\ retransmit_list = <<>> /\ todo = <<>> /\ started = 0 /\ listFirst \in ListStarts /\ sent = 0
      /\ listNow = 0 /\ nacks = 0 /\ lost_not_retrans = 0 /\ resent = [n \in 1..MaxSent |-> 0]
      /\ wanted = {} /\ split = FALSE /\ answered = <<>>
  BY DEF AllInit, List!Init
<1>2. List!TypeOK
  <2>1. /\ MaxSent \in Nat /\ ListTime \in Nat /\ MaxNacks \in Nat
    BY ListFacts
  <2>2. /\ sent \in 0..MaxSent /\ listNow \in 0..ListTime /\ nacks \in 0..MaxNacks /\ started \in 0..ListTime
        /\ resent \in [1..MaxSent -> Nat] /\ lost_not_retrans \in Nat /\ split \in BOOLEAN /\ wanted \subseteq 1..MaxSent
    <3>1. 0 \in 0..MaxSent /\ 0 \in 0..ListTime /\ 0 \in 0..MaxNacks /\ 0 \in Nat
      BY <2>1
    <3>2. [n \in 1..MaxSent |-> 0] \in [1..MaxSent -> Nat]
      OBVIOUS
    <3> QED
      BY <3>1, <3>2, <1>1, Zenon
  <2>3. \A S : <<>> \in Seq(S)
    OBVIOUS
  <2> QED
    BY <2>2, <2>3, <1>1 DEF List!TypeOK
<1>3. List!ListIsLastSent
  <2>1. 0 \in Nat /\ QueueSize \in Nat
    BY ListFacts
  <2>2. Min({0, QueueSize}) \in {0, QueueSize} /\ \A y \in {0, QueueSize} : Min({0, QueueSize}) <= y
    BY <2>1, LeastOf
  <2>3. Min({0, QueueSize}) = 0
    BY <2>1, <2>2
  <2> QED
    BY <2>3, <1>1, ListLeast DEF List!ListIsLastSent
<1>4. List!LostCountedOnce
  <2>1. {n \in 1..MaxSent : resent[n] > 0} = {}
    BY <1>1
  <2> QED
    BY <2>1, <1>1, ListCounts, FS_EmptySet DEF List!LostCountedOnce
<1>5. List!OncePerMessage /\ List!AnsweredBelowWrap /\ LoopIsRight /\ AnsweredAreRecent /\ WantedAreComing /\ UnsentAreNot
  BY <1>1 DEF List!OncePerMessage, List!IsInjective, List!AnsweredBelowWrap, LoopIsRight, AnsweredAreRecent,
     WantedAreComing, UnsentAreNot
<1> QED
  BY <1>2, <1>3, <1>4, <1>5 DEF ListInv

LEMMA ListStep == ListInv /\ [AllNext]_allVars => ListInv'
<1> SUFFICES ASSUME ListInv, [AllNext]_allVars PROVE ListInv'
  OBVIOUS
<1>1. CASE UNCHANGED listVars
  BY <1>1 DEF listVars, ListInv, List!TypeOK, List!ListIsLastSent, List!OncePerMessage, List!LostCountedOnce,
     List!AnsweredBelowWrap, LoopIsRight, AnsweredAreRecent, WantedAreComing, UnsentAreNot, IsComing, List!SeqNumber
<1>2. CASE List!Tick
  <2>1. /\ listNow < ListTime /\ listNow' = listNow + 1
        /\ UNCHANGED <<retransmit_list, listFirst, sent, todo, started, lost_not_retrans, resent, wanted, split, answered, nacks>>
    BY <1>2 DEF List!Tick, List!nackVars
  <2>2. listNow \in 0..ListTime /\ started \in 0..ListTime /\ ListTime \in Nat
    BY ListBasics, ListFacts
  <2>3. listNow' \in 0..ListTime /\ LoopIsRight'
    BY <2>1, <2>2 DEF ListInv, LoopIsRight
  <2>4. List!TypeOK'
    BY <2>1, <2>3 DEF ListInv, List!TypeOK
  <2> QED
    BY <2>1, <2>3, <2>4 DEF ListInv, List!ListIsLastSent, List!OncePerMessage, List!LostCountedOnce,
       List!AnsweredBelowWrap, AnsweredAreRecent, WantedAreComing, UnsentAreNot, IsComing, List!SeqNumber
<1>3. ASSUME NEW b1 \in List!BlocksSent, NEW b2 \in List!BlocksSent, List!ProcessRtcpNackPackets(b1, b2) PROVE ListInv'
  BY <1>3, NackKeeps
<1>4. CASE List!Next
  BY <1>2, <1>3, <1>4, PushListKeeps, AnswerKeeps DEF List!Next
<1> QED
  BY <1>1, <1>4 DEF AllNext, allVars

\* The retransmit list stays the last packets sent with the retries they have had, a NACK
\* message sends no packet twice however its blocks overlap, a packet is counted as lost
\* once, and a packet that is asked for the first time is sent by the message that names
\* it (PushPacket, ProcessRtcpNackPackets): for every length of the list, every number of
\* retries and waiting time, and any time passing while a message is answered.
THEOREM PacketsAreAnsweredOnce == AllSpec => []AnsweredOnce
<1>1. AllInit => ListInv
  BY ListStart
<1>2. ListInv /\ [AllNext]_allVars => ListInv'
  BY ListStep
<1>3. ListInv => AnsweredOnce
  BY DEF ListInv, AnsweredOnce
<1> QED
  BY <1>1, <1>2, <1>3, PTL DEF AllSpec

-------------------------------------------------------------------------------
(* NackTracker.                                                              *)

Tracked == [seq : Tracker!Seqs, ts : 0..TrackerTime, times : 0..(MaxResend + 1), state : Tracker!States]

\* What was not asked for counts no request.
FreshIsUnasked == \A k \in 1..Len(last_seqs) : last_seqs[k].state = "MISSING" => last_seqs[k].times = 0

\* The list holds the indices up to the newest.
PlacesAreIndices ==
  ~cleared => \A k \in 1..Len(last_seqs) : last_seqs[k].seq = (newest - Len(last_seqs) + k) % SeqSpace

EmptyIsNew == last_seqs = <<>> /\ ~cleared => tracked = 0 /\ received = {} /\ \A s \in Tracker!Seqs : asked[s] = 0

\* All that is remembered is of the indices from lo.
From(lo) ==
  /\ lo <= newest - TrackerWindow /\ newest - lo <= TrackerWindow + Gap * tracked
  /\ Len(last_seqs) <= newest - lo + 1
  /\ \A s \in Tracker!Seqs : s \in received \/ asked[s] > 0 => \E i \in lo..newest : s = i % SeqSpace

HistoryIsShort == ~cleared => \E lo \in Int : From(lo)

\* The inductive invariant: the places of the list are indices, and the indices seen so
\* far span less than the number space.
TrackerInv ==
  /\ Tracker!TypeOK /\ Tracker!ListIsWindow /\ Tracker!MissingIsLost /\ Tracker!RequestsAreCounted
  /\ FreshIsUnasked /\ PlacesAreIndices /\ EmptyIsNew /\ HistoryIsShort

\* The constants of the tracker.
LEMMA TrackerFacts ==
  /\ MaxLen \in Nat \ {0, 1} /\ MaxBack \in Nat /\ SeqSpace \in Nat \ {0} /\ MaxLen + MaxBack < SeqSpace
  /\ MissingWait \in Nat /\ NackedWait \in Nat /\ MaxResend \in Nat /\ KeyInterval \in Nat
  /\ TrackerSpan \in Nat \ {0} /\ MaxBlocks \in Nat /\ TrackerStarts \subseteq 0..(SeqSpace - 1)
  /\ TrackerWindow \in Nat /\ Gap \in Nat /\ MaxTracked \in Nat /\ TrackerTime \in Nat
  /\ TrackerWindow < MaxBack /\ Gap + MaxBack <= SeqSpace /\ TrackerWindow + Gap * MaxTracked < SeqSpace
  /\ 2 * ((MaxLen - 1) \div (TrackerSpan + 1) + 1) <= MaxBlocks
<1>1. SeqSpace \in Nat /\ MaxLen \in Nat /\ MaxBack \in Nat /\ MaxLen + MaxBack < SeqSpace
  BY StructuresAssumption DEF Tracker!TrackerAssumption
<1>2. SeqSpace # 0
  BY <1>1
<1> QED
  BY <1>1, <1>2, StructuresAssumption DEF Tracker!TrackerAssumption

LEMMA TrackerCounts == ASSUME NEW S PROVE Tracker!Cardinality(S) = Cardinality(S)
BY DEF Tracker!Cardinality, Cardinality

\* Numbers that differ by a multiple of W have the same remainder.
LEMMA Multiple ==
  ASSUME NEW W \in Nat \ {0}, NEW u \in Int, NEW v \in Int, NEW k \in Int, v = u + W * k
  PROVE  v % W = u % W
<1>1. PICK qu \in Int : u = W * qu + (u % W)
  BY Division
<1>2. PICK qv \in Int : v = W * qv + (v % W)
  BY Division
<1>3. u % W \in 0..(W - 1) /\ v % W \in 0..(W - 1)
  BY Division
<1> DEFINE ru == u % W
           rv == v % W
<1> HIDE DEF ru, rv
<1>4. ru \in 0..(W - 1) /\ rv \in 0..(W - 1) /\ u = W * qu + ru /\ v = W * qv + rv
  BY <1>1, <1>2, <1>3 DEF ru, rv
<1>5. PICK d \in Int : d = qu + k - qv
  OBVIOUS
<1>6. W * d = W * qu + W * k - W * qv
  BY <1>5
<1>7. W * d = rv - ru
  BY <1>4, <1>6
<1>8. W * d > -W /\ W * d < W
  BY <1>4, <1>7
<1>9. (d >= 1 => W * d >= W) /\ (d <= -1 => W * d <= -W)
  OBVIOUS
<1>10. d = 0
  BY <1>8, <1>9
<1> QED
  BY <1>4, <1>7, <1>10 DEF ru, rv

LEMMA SmallMod == ASSUME NEW W \in Nat \ {0}, NEW x \in 0..(W - 1) PROVE x % W = x
<1>1. x \in Int /\ x % W \in 0..(W - 1) /\ x \div W \in Int /\ x = W * (x \div W) + (x % W)
  BY Division
<1>2. PICK q \in Int, r \in 0..(W - 1) : r = x % W /\ x = W * q + r
  BY <1>1
<1>3. (q >= 1 => W * q >= W) /\ (q <= -1 => W * q <= -W) /\ (q = 0 => W * q = 0)
  OBVIOUS
<1>4. W * q = x - r
  BY <1>2
<1> QED
  BY <1>2, <1>3, <1>4

LEMMA ModShift ==
  ASSUME NEW W \in Nat \ {0}, NEW a \in Int, NEW c \in Int
  PROVE  ((a % W) + c) % W = (a + c) % W
<1>0. a % W \in Int /\ a \div W \in Int /\ a = W * (a \div W) + (a % W)
  BY Division
<1>1. PICK q \in Int, r \in Int : r = a % W /\ a = W * q + r
  BY <1>0
<1>2. PICK u \in Int, v \in Int : u = r + c /\ v = a + c
  BY <1>1
<1>3. v = u + W * q
  BY <1>1, <1>2
<1>4. v % W = u % W
  BY <1>3, Multiple
<1> QED
  BY <1>1, <1>2, <1>4

LEMMA ModDiff ==
  ASSUME NEW W \in Nat \ {0}, NEW a \in Int, NEW b \in Int
  PROVE  ((a % W) - (b % W)) % W = (a - b) % W
<1>0. b % W \in Int /\ b \div W \in Int /\ b = W * (b \div W) + (b % W)
  BY Division
<1>1. PICK q \in Int, r \in Int : r = b % W /\ b = W * q + r
  BY <1>0
<1>2. PICK c \in Int : c = -r
  BY <1>1
<1>3. a % W \in Int /\ (a % W) - (b % W) = (a % W) + c
  BY <1>1, <1>2, Division
<1>4. ((a % W) + c) % W = (a + c) % W
  BY ModShift
<1>5. PICK u \in Int, v \in Int : u = a - b /\ v = a + c
  BY <1>2
<1>6. v = u + W * q
  <2>1. PICK t \in Int : t = W * q
    OBVIOUS
  <2>2. b = t + r
    BY <2>1, <1>1
  <2>3. v = u + t
    BY <2>2, <1>2, <1>5
  <2> QED
    BY <2>1, <2>3
<1>7. v % W = u % W
  BY <1>6, Multiple
<1> QED
  BY <1>3, <1>4, <1>5, <1>7

\* janus_seq_in_range counts forward around the number space.
LEMMA InRange ==
  ASSUME NEW x \in 0..(SeqSpace - 1), NEW start \in 0..(SeqSpace - 1), NEW len \in Nat, len < SeqSpace
  PROVE  Tracker!janus_seq_in_range(x, start, len) <=> (x - start) % SeqSpace < len
<1>1. SeqSpace \in Nat \ {0}
  BY TrackerFacts
<1>2. Tracker!janus_seq_in_range(x, start, len)
        <=> (start <= x /\ x < start + len) \/ (start <= SeqSpace + x /\ SeqSpace + x < start + len)
  BY DEF Tracker!janus_seq_in_range
<1>3. CASE start <= x
  <2>1. x - start \in 0..(SeqSpace - 1)
    BY <1>1, <1>3
  <2>2. (x - start) % SeqSpace = x - start
    BY <2>1, <1>1, SmallMod
  <2> QED
    BY <2>2, <1>1, <1>2, <1>3
<1>4. CASE x < start
  <2>1. PICK u \in Int, v \in Int : u = x - start /\ v = x - start + SeqSpace
    BY <1>1
  <2>2. v = u + SeqSpace * 1 /\ v \in 0..(SeqSpace - 1)
    BY <2>1, <1>1, <1>4
  <2>3. v % SeqSpace = u % SeqSpace /\ v % SeqSpace = v
    BY <2>2, <1>1, Multiple, SmallMod
  <2> QED
    BY <2>1, <2>3, <1>1, <1>2, <1>4
<1> QED
  BY <1>1, <1>3, <1>4

\* The indices of less than a round are known by their numbers.
LEMMA OneRound ==
  ASSUME NEW a \in Int, NEW b \in Int, a - b < SeqSpace, b - a < SeqSpace, a % SeqSpace = b % SeqSpace
  PROVE  a = b
<1>1. SeqSpace \in Nat \ {0}
  BY TrackerFacts
<1>2. a % SeqSpace \in Int /\ b % SeqSpace \in Int
  BY <1>1, Division
<1>3. CASE b <= a
  <2>1. (a % SeqSpace) - (b % SeqSpace) = a - b \/ (a % SeqSpace) - (b % SeqSpace) = (a - b) - SeqSpace
    BY <1>1, <1>3, Quotients
  <2> QED
    BY <2>1, <1>1, <1>2
<1>4. CASE a <= b
  <2>1. (b % SeqSpace) - (a % SeqSpace) = b - a \/ (b % SeqSpace) - (a % SeqSpace) = (b - a) - SeqSpace
    BY <1>1, <1>4, Quotients
  <2> QED
    BY <2>1, <1>1, <1>2
<1> QED
  BY <1>3, <1>4

\* janus_rtcp_nacks finds its blocks, by taking the numbers one after the other.
LEMMA PidsExist ==
  ASSUME NEW X \in SUBSET Nat, NEW M \in Nat, \A x \in X : x < M
  PROVE  /\ Tracker!Pids(X) \in SUBSET X
         /\ \A p, q \in Tracker!Pids(X) : p < q => q - p > TrackerSpan
<1> DEFINE Good(P, m) == /\ \A x \in X : x < m => \E p \in P : p <= x /\ x - p <= TrackerSpan
                         /\ \A p, q \in P : p < q => q - p > TrackerSpan
                         /\ \A p \in P : p < m
           bad == {m \in Nat : ~ \E P \in SUBSET X : Good(P, m)}
<1>1. TrackerSpan \in Nat
  BY TrackerFacts
<1>2. bad = {}
  <2> SUFFICES ASSUME bad # {} PROVE FALSE
    OBVIOUS
  <2>1. bad \in SUBSET Nat
    OBVIOUS
  <2> HIDE DEF bad
  <2>2. PICK m \in bad : \A y \in bad : m <= y
    BY <2>1, LeastOf
  <2>3. m \in Nat /\ ~ \E P \in SUBSET X : Good(P, m)
    BY <2>2 DEF bad
  <2>4. m # 0
    <3>1. {} \in SUBSET X /\ Good({}, 0)
      OBVIOUS
    <3> HIDE DEF Good
    <3> QED
      BY <3>1, <2>3
  <2>5. m - 1 \in Nat /\ m - 1 \notin bad
    BY <2>2, <2>3, <2>4
  <2>6. PICK P \in SUBSET X : Good(P, m - 1)
    BY <2>5 DEF bad
  <2>7. CASE m - 1 \in X => \E p \in P : p <= m - 1 /\ (m - 1) - p <= TrackerSpan
    <3>1. \A x \in X : x < m => x < m - 1 \/ x = m - 1
      BY <2>3
    <3>2. \A p \in P : p < m - 1 => p < m
      BY <2>3
    <3>3. Good(P, m)
      BY <3>1, <3>2, <2>6, <2>7
    <3> HIDE DEF Good
    <3> QED
      BY <3>3, <2>3
  <2>8. CASE m - 1 \in X /\ \A p \in P : ~(p <= m - 1 /\ (m - 1) - p <= TrackerSpan)
    <3> DEFINE Q == P \cup {m - 1}
    <3>1. \A x \in X : x < m => x < m - 1 \/ x = m - 1
      BY <2>3
    <3>2. \A p \in P : p \in Nat /\ p < m - 1 /\ p < m /\ (m - 1) - p > TrackerSpan
      BY <2>3, <2>5, <2>6, <2>8, <1>1
    <3>3. m - 1 <= m - 1 /\ (m - 1) - (m - 1) <= TrackerSpan /\ m - 1 < m
      BY <2>3, <1>1
    <3>4. \A x \in X : x < m => \E p \in Q : p <= x /\ x - p <= TrackerSpan
      BY <3>1, <3>3, <2>6
    <3>5. \A p, q \in Q : p < q => q - p > TrackerSpan
      <4> SUFFICES ASSUME NEW p \in Q, NEW q \in Q, p < q PROVE q - p > TrackerSpan
        OBVIOUS
      <4>1. CASE p \in P /\ q \in P
        BY <4>1, <2>6
      <4>2. CASE p \in P /\ q = m - 1
        BY <4>2, <3>2
      <4>3. CASE p = m - 1 /\ q \in P
        BY <4>3, <3>2, <2>3
      <4>4. CASE p = m - 1 /\ q = m - 1
        BY <4>4, <2>3
      <4> QED
        BY <4>1, <4>2, <4>3, <4>4
    <3>6. \A p \in Q : p < m
      BY <3>2, <3>3
    <3>7. Q \in SUBSET X
      BY <2>8
    <3> HIDE DEF Q
    <3>8. Good(Q, m)
      BY <3>4, <3>5, <3>6
    <3> HIDE DEF Good
    <3> QED
      BY <3>7, <3>8, <2>3
  <2> QED
    BY <2>7, <2>8
<1>3. PICK P \in SUBSET X : Good(P, M)
  BY <1>2
<1>4. /\ \A x \in X : \E p \in P : p <= x /\ x - p <= TrackerSpan
      /\ \A p, q \in P : p < q => q - p > TrackerSpan
  BY <1>3
<1> QED
  BY <1>4 DEF Tracker!Pids

\* Quotients of numbers up to N, and of numbers with the same quotient.
LEMMA DivBound ==
  ASSUME NEW W \in Nat \ {0}, NEW N \in Nat, NEW x \in 0..N
  PROVE  x \div W \in 0..(N \div W) /\ N \div W \in Nat
<1>1. /\ x % W \in 0..(W - 1) /\ x \div W \in Int /\ x = W * (x \div W) + (x % W)
      /\ N % W \in 0..(W - 1) /\ N \div W \in Int /\ N = W * (N \div W) + (N % W)
  BY Division
<1>2. PICK qx \in Int, qn \in Int, rx \in 0..(W - 1), rn \in 0..(W - 1) :
        qx = x \div W /\ qn = N \div W /\ x = W * qx + rx /\ N = W * qn + rn
  BY <1>1
<1>3. qx >= 0 /\ qn >= 0
  <2>1. (qx <= -1 => W * qx <= -W) /\ (qn <= -1 => W * qn <= -W)
    OBVIOUS
  <2>2. W * qx > -W /\ W * qn > -W
    BY <1>2
  <2> QED
    BY <2>1, <2>2
<1>4. qx <= qn
  <2>1. PICK d \in Int : d = qx - qn
    OBVIOUS
  <2>2. W * d = W * qx - W * qn
    BY <2>1
  <2>3. W * d < W
    BY <2>2, <1>2
  <2>4. d >= 1 => W * d >= W
    OBVIOUS
  <2> QED
    BY <2>1, <2>3, <2>4
<1> QED
  BY <1>2, <1>3, <1>4

LEMMA SameQuotient ==
  ASSUME NEW W \in Nat \ {0}, NEW x \in Int, NEW y \in Int, x \div W = y \div W
  PROVE  x - y = (x % W) - (y % W) /\ x - y < W
<1>1. /\ x % W \in 0..(W - 1) /\ x \div W \in Int /\ x = W * (x \div W) + (x % W)
      /\ y % W \in 0..(W - 1) /\ y \div W \in Int /\ y = W * (y \div W) + (y % W)
  BY Division
<1>2. PICK t \in Int : t = W * (x \div W)
  BY <1>1
<1>3. x = t + (x % W) /\ y = t + (y % W)
  BY <1>1, <1>2
<1> QED
  BY <1>1, <1>3

\* The blocks for the numbers of a full list fit a message: of those on one side of the
\* wrap no two are in the same part of BlockSpan + 1 places.
LEMMA AllFit ==
  ASSUME NEW A \in 0..MaxLen, NEW c \in Int,
         NEW X, \A x \in X : \E k \in 1..A : x = (c + k) % SeqSpace
  PROVE  Tracker!Fits(X)
<1> DEFINE B == TrackerSpan + 1
           Q == (MaxLen - 1) \div B
           P == Tracker!Pids(X)
           T == {0, 1} \X (0..Q)
           pl == [p \in P |-> CHOOSE k \in 1..A : p = (c + k) % SeqSpace]
           side(k) == IF (c + k) \div SeqSpace = (c + 1) \div SeqSpace THEN 0 ELSE 1
           f == [p \in P |-> <<side(pl[p]), (pl[p] - 1) \div B>>]
<1>1. /\ SeqSpace \in Nat \ {0} /\ MaxLen \in Nat \ {0, 1} /\ MaxLen < SeqSpace /\ TrackerSpan \in Nat \ {0}
      /\ MaxBlocks \in Nat /\ 2 * (Q + 1) <= MaxBlocks /\ B \in Nat \ {0} /\ A \in Nat /\ A <= MaxLen
  BY TrackerFacts
<1>2. X \in SUBSET Nat /\ \A x \in X : x < SeqSpace
  <2>1. ASSUME NEW x \in X PROVE x \in 0..(SeqSpace - 1)
    <3>1. PICK k \in 1..A : x = (c + k) % SeqSpace
      OBVIOUS
    <3>2. c + k \in Int
      BY <1>1
    <3> QED
      BY <3>1, <3>2, <1>1, Division
  <2> QED
    BY <2>1, <1>1
<1>3. P \in SUBSET X /\ \A p, q \in P : p < q => q - p > TrackerSpan
  BY <1>1, <1>2, PidsExist
<1> HIDE DEF P
<1>4. \A p \in P : pl[p] \in 1..A /\ p = (c + pl[p]) % SeqSpace
  BY <1>3
<1> HIDE DEF pl
<1>5. Q \in Nat /\ \A x \in 0..(MaxLen - 1) : x \div B \in 0..Q
  <2>1. MaxLen - 1 \in Nat
    BY <1>1
  <2> HIDE DEF B
  <2> QED
    BY <2>1, <1>1, DivBound
<1> HIDE DEF B, Q
<1>6. f \in [P -> T]
  <2>1. ASSUME NEW p \in P PROVE pl[p] - 1 \in 0..(MaxLen - 1)
    BY <1>1, <1>4
  <2>2. ASSUME NEW p \in P PROVE <<side(pl[p]), (pl[p] - 1) \div B>> \in T
    BY <2>1, <1>5
  <2> HIDE DEF side, T
  <2> QED
    BY <2>2
<1>7. ASSUME NEW p \in P, NEW q \in P, p < q, f[p] = f[q] PROVE FALSE
  <2>1. PICK i \in 1..A, j \in 1..A : i = pl[p] /\ j = pl[q]
    BY <1>4
  <2>2. p = (c + i) % SeqSpace /\ q = (c + j) % SeqSpace /\ p \in Int /\ q \in Int /\ i \in Int /\ j \in Int
    BY <2>1, <1>1, <1>2, <1>3, <1>4
  <2>3. side(i) = side(j) /\ (i - 1) \div B = (j - 1) \div B
    <3> HIDE DEF side
    <3> QED
      BY <2>1, <1>7
  <2>4. \A k \in 1..A : (c + k) \div SeqSpace = (c + 1) \div SeqSpace \/ (c + k) \div SeqSpace = ((c + 1) \div SeqSpace) + 1
    <3> SUFFICES ASSUME NEW k \in 1..A
                 PROVE  (c + k) \div SeqSpace = (c + 1) \div SeqSpace \/ (c + k) \div SeqSpace = ((c + 1) \div SeqSpace) + 1
      OBVIOUS
    <3>1. PICK u \in Int, v \in Int : u = c + k /\ v = c + 1
      BY <1>1
    <3>2. v <= u /\ u - v < SeqSpace
      BY <3>1, <1>1
    <3>3. u \div SeqSpace = v \div SeqSpace \/ u \div SeqSpace = (v \div SeqSpace) + 1
      BY <3>2, <1>1, Quotients
    <3> QED
      BY <3>1, <3>3
  <2>5. (c + i) \div SeqSpace = (c + j) \div SeqSpace
    <3>1. (c + i) \div SeqSpace \in Int /\ (c + j) \div SeqSpace \in Int /\ (c + 1) \div SeqSpace \in Int
      BY <2>2, <1>1, Division
    <3> QED
      BY <3>1, <2>3, <2>4
  <2>6. q - p = j - i
    <3>1. PICK u \in Int, v \in Int : u = c + j /\ v = c + i
      BY <2>2
    <3>2. u - v = (u % SeqSpace) - (v % SeqSpace)
      BY <3>1, <2>5, <1>1, SameQuotient
    <3> QED
      BY <3>1, <3>2, <2>2
  <2>7. (j - 1) - (i - 1) < B
    <3>1. j - 1 \in Int /\ i - 1 \in Int
      BY <2>2
    <3> QED
      BY <3>1, <2>3, <1>1, SameQuotient
  <2>8. q - p > TrackerSpan
    BY <1>3, <1>7
  <2> QED
    BY <2>2, <2>6, <2>7, <2>8, <1>1 DEF B
<1>8. f \in Injection(P, T)
  <2>1. \A p \in P : p \in Int
    BY <1>2, <1>3
  <2> HIDE DEF f
  <2>2. ASSUME NEW p \in P, NEW q \in P, f[p] = f[q] PROVE p = q
    <3>1. ~(p < q) /\ ~(q < p)
      BY <2>2, <1>7
    <3> QED
      BY <3>1, <2>1
  <2> HIDE DEF T
  <2> QED
    BY <2>2, <1>6 DEF Injection, IsInjective
<1>9. IsFiniteSet(T) /\ Cardinality(T) = 2 * (Q + 1)
  <2>1. IsFiniteSet(0..1) /\ Cardinality(0..1) = 2 /\ IsFiniteSet(0..Q) /\ Cardinality(0..Q) = Q + 1
    <3>1. 0 \in Int /\ 1 \in Int /\ Q \in Int
      BY <1>5
    <3>2. /\ IsFiniteSet(0..1) /\ Cardinality(0..1) = IF 0 > 1 THEN 0 ELSE 1 - 0 + 1
          /\ IsFiniteSet(0..Q) /\ Cardinality(0..Q) = IF 0 > Q THEN 0 ELSE Q - 0 + 1
      BY <3>1, FS_Interval, Zenon
    <3> QED
      BY <3>2, <1>5
  <2>2. {0, 1} = 0..1
    OBVIOUS
  <2>3. IsFiniteSet(T) /\ Cardinality(T) = Cardinality({0, 1}) * Cardinality(0..Q)
    BY <2>1, <2>2, FS_Product, Zenon
  <2> QED
    BY <2>1, <2>2, <2>3
<1>10. IsFiniteSet(P) /\ Cardinality(P) <= Cardinality(T) /\ Cardinality(P) \in Nat
  <2> HIDE DEF T, f
  <2> QED
    BY <1>8, <1>9, FS_Injection, FS_CardinalityType
<1>11. Cardinality(P) <= MaxBlocks
  BY <1>1, <1>5, <1>9, <1>10
<1> QED
  BY <1>11, TrackerCounts DEF Tracker!Fits, P

\* What the scan makes of an entry.
LEMMA ScanIs ==
  ASSUME trackerNow \in 0..TrackerTime, NEW e \in Tracked, e.state = "MISSING" => e.times = 0, NEW new
  PROVE  LET f == Tracker!Scan(e, new)
         IN  /\ f \in Tracked /\ f.seq = e.seq
             /\ f.state = "RECVED" <=> (e.state = "RECVED" \/ e.seq = new)
             /\ f.times = IF Tracker!IsDue(e, new) THEN e.times + 1 ELSE e.times
             /\ f.state = "MISSING" => f.times = 0
             /\ Tracker!IsDue(e, new) => e.times <= MaxResend
<1>1. /\ e.seq \in Tracker!Seqs /\ e.ts \in 0..TrackerTime /\ e.times \in 0..(MaxResend + 1)
      /\ e.state \in {"MISSING", "NACKED", "GIVEUP", "RECVED"} /\ MaxResend \in Nat
  BY TrackerFacts DEF Tracked, Tracker!States
<1>2. CASE Tracker!IsDue(e, new)
  <2>1. e.seq # new /\ e.state # "RECVED" /\ e.times <= MaxResend
    BY <1>1, <1>2 DEF Tracker!IsDue
  <2>2. e.times + 1 \in 0..(MaxResend + 1)
    BY <2>1, <1>1
  <2> QED
    BY <2>1, <2>2, <1>1, <1>2 DEF Tracker!Scan, Tracked, Tracker!States
<1>3. CASE ~Tracker!IsDue(e, new) /\ e.seq = new
  BY <1>1, <1>3 DEF Tracker!Scan, Tracked, Tracker!States
<1>4. CASE ~Tracker!IsDue(e, new) /\ e.seq # new
  BY <1>1, <1>4 DEF Tracker!Scan
<1> QED
  BY <1>2, <1>3, <1>4

\* How many entries a packet adds.
Added(new, cur) == IF (new - cur) % SeqSpace < MaxLen THEN (new - cur) % SeqSpace ELSE 0

\* They are those of the numbers after cur, up to that of the packet.
LEMMA NewIs ==
  ASSUME trackerNow \in 0..TrackerTime, NEW new \in 0..(SeqSpace - 1), NEW cur \in 0..(SeqSpace - 1)
  PROVE  LET q == Tracker!NewEntries(new, cur)
             L == Added(new, cur)
         IN  /\ q \in Seq(Tracked) /\ Len(q) = L /\ L \in Nat /\ L < MaxLen
             /\ \A k \in 1..L : /\ q[k].seq = (cur + k) % SeqSpace /\ q[k].times = 0
                                /\ q[k].state = IF (cur + k) % SeqSpace = new THEN "RECVED" ELSE "MISSING"
             /\ L > 0 => (cur + L) % SeqSpace = new
<1> DEFINE d == (new - cur) % SeqSpace
           e(k) == [seq |-> (cur + k) % SeqSpace, ts |-> trackerNow, times |-> 0,
                    state |-> IF (cur + k) % SeqSpace = new THEN "RECVED" ELSE "MISSING"]
           q == Tracker!NewEntries(new, cur)
<1>1. SeqSpace \in Nat \ {0} /\ MaxLen \in Nat \ {0, 1} /\ MaxLen < SeqSpace /\ MaxResend \in Nat
  BY TrackerFacts
<1>2. d \in Nat /\ d < SeqSpace
  <2>1. new - cur \in Int
    BY <1>1
  <2> QED
    BY <2>1, <1>1, Division
<1>3. Tracker!janus_seq_in_range(new, cur, MaxLen) <=> d < MaxLen
  BY <1>1, InRange
<1>4. q = IF d < MaxLen THEN [k \in 1..d |-> e(k)] ELSE <<>>
  BY <1>3 DEF Tracker!NewEntries
<1>5. ASSUME NEW k \in Nat PROVE e(k) \in Tracked
  <2>1. cur + k \in Int
    BY <1>1
  <2>2. (cur + k) % SeqSpace \in 0..(SeqSpace - 1)
    BY <2>1, <1>1, Division
  <2> QED
    BY <2>2, <1>1 DEF Tracked, Tracker!Seqs, Tracker!States
<1>6. (cur + d) % SeqSpace = new
  <2>1. PICK c \in Int : c = new - cur
    BY <1>1
  <2>2. ((c % SeqSpace) + cur) % SeqSpace = (c + cur) % SeqSpace
    <3>1. cur \in Int
      BY <1>1
    <3> QED
      BY <3>1, <1>1, ModShift
  <2>3. c + cur = new /\ (c % SeqSpace) + cur = cur + d
    BY <2>1, <1>1, <1>2
  <2> QED
    BY <2>2, <2>3, <1>1, SmallMod
<1>7. CASE d < MaxLen
  <2>1. Added(new, cur) = d
    BY <1>7 DEF Added
  <2> HIDE DEF d
  <2>2. q = [k \in 1..d |-> e(k)]
    BY <1>4, <1>7
  <2>3. ASSUME NEW k \in 1..d PROVE q[k] = e(k) /\ e(k) \in Tracked
    <3>1. k \in Nat
      BY <1>2
    <3>2. e(k) \in Tracked
      BY <3>1, <1>5
    <3> HIDE DEF e, q
    <3> QED
      BY <3>2, <2>2
  <2>4. q \in Seq(Tracked) /\ Len(q) = d
    <3> HIDE DEF e, q
    <3> QED
      BY <2>2, <2>3, <1>2
  <2>5. ASSUME NEW k \in 1..d
        PROVE  /\ q[k].seq = (cur + k) % SeqSpace /\ q[k].times = 0
               /\ q[k].state = IF (cur + k) % SeqSpace = new THEN "RECVED" ELSE "MISSING"
    <3>1. /\ e(k).seq = (cur + k) % SeqSpace /\ e(k).times = 0
          /\ e(k).state = IF (cur + k) % SeqSpace = new THEN "RECVED" ELSE "MISSING"
      OBVIOUS
    <3>2. q[k] = e(k)
      BY <2>3
    <3> HIDE DEF e, q
    <3> QED
      BY <3>1, <3>2
  <2> HIDE DEF q
  <2> QED
    BY <2>1, <2>4, <2>5, <1>2, <1>6, <1>7 DEF q
<1>8. CASE ~(d < MaxLen)
  <2>1. Added(new, cur) = 0 /\ q = <<>>
    BY <1>4, <1>8 DEF Added
  <2> HIDE DEF q
  <2> QED
    BY <2>1, <1>1 DEF q
<1> QED
  BY <1>7, <1>8

\* The trim keeps the last entries.
LEMMA TrimIs ==
  ASSUME NEW q \in Seq(Tracked)
  PROVE  /\ Tracker!Trim(q) \in Seq(Tracked)
         /\ Len(Tracker!Trim(q)) = IF Len(q) <= MaxLen THEN Len(q) ELSE MaxLen
         /\ \A k \in 1..Len(Tracker!Trim(q)) : Tracker!Trim(q)[k] = q[Len(q) - Len(Tracker!Trim(q)) + k]
<1>1. Len(q) \in Nat /\ MaxLen \in Nat \ {0} /\ \A k \in 1..Len(q) : q[k] \in Tracked
  BY TrackerFacts
<1>2. CASE Len(q) <= MaxLen
  <2>1. Tracker!Trim(q) = q
    BY <1>1, <1>2 DEF Tracker!Trim
  <2> QED
    BY <2>1, <1>1, <1>2
<1>3. CASE Len(q) > MaxLen
  <2> DEFINE m == Len(q) - MaxLen + 1
  <2>1. m \in Int /\ m >= 1 /\ m <= Len(q) /\ Len(q) - m + 1 = MaxLen /\ \A k \in m..Len(q) : q[k] \in Tracked
    BY <1>1, <1>3
  <2>2. Tracker!Trim(q) = SubSeq(q, m, Len(q))
    BY <1>1, <1>3 DEF Tracker!Trim
  <2>3. /\ SubSeq(q, m, Len(q)) \in Seq(Tracked) /\ Len(SubSeq(q, m, Len(q))) = Len(q) - m + 1
        /\ \A k \in 1..(Len(q) - m + 1) : SubSeq(q, m, Len(q))[k] = q[m + k - 1]
    <3> HIDE DEF m
    <3> QED
      BY <2>1, <1>1, SubSeqProperties
  <2>4. \A k \in 1..MaxLen : m + k - 1 = Len(q) - MaxLen + k
    BY <1>1
  <2> HIDE DEF m
  <2> QED
    BY <2>1, <2>2, <2>3, <2>4, <1>1, <1>3
<1> QED
  BY <1>1, <1>2, <1>3

\* The list after a packet: the last entries of what the scan made of the old ones and
\* of the new ones.
Grown(old, cur, new) ==
  LET A == Len(old)
      L == Added(new, cur)
      T == Len(last_seqs')
  IN  /\ last_seqs' \in Seq(Tracked) /\ T = IF A + L <= MaxLen THEN A + L ELSE MaxLen
      /\ L \in Nat /\ (L > 0 => (cur + L) % SeqSpace = new)
      /\ \A k \in 1..T :
           /\ A + L - T + k <= A => last_seqs'[k] = Tracker!Scan(old[A + L - T + k], new)
           /\ A + L - T + k > A =>
                /\ last_seqs'[k].seq = (cur + (L - T + k)) % SeqSpace /\ last_seqs'[k].times = 0
                /\ last_seqs'[k].state = IF (cur + (L - T + k)) % SeqSpace = new THEN "RECVED" ELSE "MISSING"

\* Where the numbers of the new entries start.
CurOf(new) ==
  IF Tracker!Known(new) = <<>> THEN (new - 1) % SeqSpace ELSE Tracker!Known(new)[Len(Tracker!Known(new))].seq

LEMMA KnownIs ==
  ASSUME TrackerInv, NEW new \in 0..(SeqSpace - 1)
  PROVE  /\ Tracker!Known(new) = <<>> \/ Tracker!Known(new) = last_seqs
         /\ last_seqs \in Seq(Tracked) /\ Tracker!Known(new) \in Seq(Tracked)
         /\ Len(Tracker!Known(new)) \in Nat /\ Len(Tracker!Known(new)) <= MaxLen
         /\ \A k \in 1..Len(Tracker!Known(new)) :
              /\ Tracker!Known(new)[k] \in Tracked
              /\ Tracker!Known(new)[k].state = "MISSING" => Tracker!Known(new)[k].times = 0
         /\ CurOf(new) \in 0..(SeqSpace - 1)
<1> DEFINE old == Tracker!Known(new)
<1>1. old = <<>> \/ old = last_seqs
  BY DEF Tracker!Known
<1>2. last_seqs \in Seq(Tracked) /\ Len(last_seqs) \in Nat /\ Len(last_seqs) <= MaxLen
  BY DEF TrackerInv, Tracker!TypeOK, Tracker!ListIsWindow, Tracked
<1>3. MaxLen \in Nat /\ SeqSpace \in Nat \ {0}
  BY TrackerFacts
<1> HIDE DEF old
<1>4. old \in Seq(Tracked) /\ Len(old) \in Nat /\ Len(old) <= MaxLen
  <2>1. CASE old = <<>>
    BY <2>1, <1>3
  <2>2. CASE old = last_seqs
    BY <2>2, <1>2, Zenon
  <2> QED
    BY <2>1, <2>2, <1>1
<1>5. \A k \in 1..Len(old) : old[k] \in Tracked /\ (old[k].state = "MISSING" => old[k].times = 0)
  <2>1. \A k \in 1..Len(last_seqs) : last_seqs[k].state = "MISSING" => last_seqs[k].times = 0
    BY DEF TrackerInv, FreshIsUnasked
  <2> QED
    BY <2>1, <1>1, <1>4
<1>6. CurOf(new) \in 0..(SeqSpace - 1)
  <2>1. CASE old = <<>>
    <3>1. new - 1 \in Int
      BY <1>3
    <3> QED
      BY <3>1, <2>1, <1>3, Division DEF CurOf, old
  <2>2. CASE old # <<>>
    <3>1. Len(old) \in 1..Len(old)
      BY <2>2, <1>4, EmptySeq
    <3>2. old[Len(old)].seq \in Tracker!Seqs
      BY <3>1, <1>5 DEF Tracked
    <3> QED
      BY <3>2, <2>2 DEF CurOf, old, Tracker!Seqs
  <2> QED
    BY <2>1, <2>2
<1> QED
  BY <1>1, <1>2, <1>4, <1>5, <1>6 DEF old

LEMMA Grows ==
  ASSUME TrackerInv, NEW new \in 0..(SeqSpace - 1), ~Tracker!GivesUp(new), Tracker!KeepTrack(new)
  PROVE  Grown(Tracker!Known(new), CurOf(new), new)
<1> DEFINE old == Tracker!Known(new)
           cur == CurOf(new)
           A == Len(old)
           L == Added(new, cur)
           s == [k \in DOMAIN old |-> Tracker!Scan(old[k], new)]
           q == Tracker!NewEntries(new, cur)
           F == s \o q
           T == Len(Tracker!Trim(F))
<1>1. /\ old \in Seq(Tracked) /\ A \in Nat /\ cur \in 0..(SeqSpace - 1)
      /\ \A k \in 1..A : old[k] \in Tracked /\ (old[k].state = "MISSING" => old[k].times = 0)
  BY KnownIs
<1>2. trackerNow \in 0..TrackerTime /\ MaxLen \in Nat
  BY TrackerFacts DEF TrackerInv, Tracker!TypeOK
<1>3. last_seqs' = Tracker!Trim(F)
  <2>1. Tracker!Last(old) = old[Len(old)]
    BY DEF Tracker!Last
  <2> QED
    BY <2>1 DEF Tracker!KeepTrack, CurOf
<1> HIDE DEF old, cur
<1>4. /\ q \in Seq(Tracked) /\ Len(q) = L /\ L \in Nat
      /\ \A k \in 1..L : /\ q[k].seq = (cur + k) % SeqSpace /\ q[k].times = 0
                         /\ q[k].state = IF (cur + k) % SeqSpace = new THEN "RECVED" ELSE "MISSING"
      /\ L > 0 => (cur + L) % SeqSpace = new
  BY <1>1, <1>2, NewIs
<1> HIDE DEF q, L
<1>5. s \in Seq(Tracked) /\ Len(s) = A /\ \A k \in 1..A : s[k] = Tracker!Scan(old[k], new)
  <2>1. DOMAIN old = 1..A
    BY <1>1
  <2>2. \A k \in 1..A : Tracker!Scan(old[k], new) \in Tracked
    BY <1>1, <1>2, ScanIs
  <2> QED
    BY <2>1, <2>2, <1>1
<1> HIDE DEF s
<1>6. /\ F \in Seq(Tracked) /\ Len(F) = A + L
      /\ \A i \in 1..(A + L) : F[i] = IF i <= A THEN s[i] ELSE q[i - A]
  <2>1. /\ F \in Seq(Tracked) /\ Len(F) = Len(s) + Len(q)
        /\ \A i \in 1..(Len(s) + Len(q)) : F[i] = IF i <= Len(s) THEN s[i] ELSE q[i - Len(s)]
    BY <1>4, <1>5, ConcatProperties
  <2>2. Len(s) = A /\ Len(q) = L
    BY <1>4, <1>5
  <2> HIDE DEF F
  <2> QED
    BY <2>1, <2>2
<1> HIDE DEF F
<1>7. /\ Tracker!Trim(F) \in Seq(Tracked) /\ T = IF Len(F) <= MaxLen THEN Len(F) ELSE MaxLen
      /\ \A k \in 1..T : Tracker!Trim(F)[k] = F[Len(F) - T + k]
  BY <1>6, TrimIs
<1>8. last_seqs' \in Seq(Tracked) /\ Len(last_seqs') = T
  BY <1>3, <1>7
<1> HIDE DEF T
<1>9. T = (IF A + L <= MaxLen THEN A + L ELSE MaxLen) /\ T \in Nat /\ T <= A + L
  BY <1>1, <1>2, <1>4, <1>6, <1>7
<1>10. ASSUME NEW k \in 1..T
       PROVE  /\ A + L - T + k <= A => last_seqs'[k] = Tracker!Scan(old[A + L - T + k], new)
              /\ A + L - T + k > A =>
                   /\ last_seqs'[k].seq = (cur + (L - T + k)) % SeqSpace /\ last_seqs'[k].times = 0
                   /\ last_seqs'[k].state = IF (cur + (L - T + k)) % SeqSpace = new THEN "RECVED" ELSE "MISSING"
  <2>0. A \in Nat /\ L \in Nat /\ T \in Nat /\ T <= A + L
    BY <1>1, <1>4, <1>9
  <2> HIDE DEF A
  <2>1. PICK p \in 1..(A + L) : p = A + L - T + k
    BY <2>0
  <2>2. last_seqs'[k] = F[p]
    <3>1. Tracker!Trim(F)[k] = F[Len(F) - T + k] /\ Len(F) = A + L
      BY <1>6, <1>7
    <3>2. p = Len(F) - T + k
      BY <3>1, <2>0, <2>1
    <3> QED
      BY <3>1, <3>2, <1>3, Zenon
  <2>3. CASE p <= A
    <3>1. F[p] = s[p] /\ p \in 1..A
      BY <2>3, <1>1, <1>6
    <3>2. last_seqs'[k] = Tracker!Scan(old[p], new)
      BY <3>1, <2>2, <1>5
    <3>3. A + L - T + k = p /\ ~(A + L - T + k > A)
      BY <2>0, <2>1, <2>3
    <3> QED
      BY <3>2, <3>3, Zenon
  <2>4. CASE p > A
    <3>1. PICK j \in 1..L : j = p - A
      BY <2>0, <2>4
    <3>2. F[p] = q[j]
      BY <3>1, <2>4, <1>1, <1>6
    <3>3. j = L - T + k
      BY <3>1, <2>0, <2>1
    <3>4. /\ last_seqs'[k].seq = (cur + j) % SeqSpace /\ last_seqs'[k].times = 0
          /\ last_seqs'[k].state = IF (cur + j) % SeqSpace = new THEN "RECVED" ELSE "MISSING"
      BY <3>2, <2>2, <1>4
    <3>5. ~(A + L - T + k <= A)
      BY <2>0, <2>1, <2>4
    <3> QED
      BY <3>3, <3>4, <3>5, Zenon
  <2> QED
    BY <2>0, <2>1, <2>3, <2>4
<1> QED
  BY <1>4, <1>8, <1>9, <1>10 DEF Grown, old, cur, L

\* Where an entry of the new list comes from.
LEMMA GrownPlace ==
  ASSUME NEW old, NEW cur, NEW new, Grown(old, cur, new), Len(old) \in Nat, NEW k \in 1..Len(last_seqs')
  PROVE  LET A == Len(old)
             L == Added(new, cur)
         IN  \E p \in 1..(A + L) :
               /\ p = A + L - Len(last_seqs') + k
               /\ p <= A => last_seqs'[k] = Tracker!Scan(old[p], new)
               /\ p > A => /\ last_seqs'[k].seq = (cur + (p - A)) % SeqSpace /\ last_seqs'[k].times = 0
                           /\ last_seqs'[k].state = IF (cur + (p - A)) % SeqSpace = new THEN "RECVED" ELSE "MISSING"
<1> DEFINE A == Len(old)
           L == Added(new, cur)
           T == Len(last_seqs')
<1>1. /\ T = IF A + L <= MaxLen THEN A + L ELSE MaxLen
      /\ L \in Nat
      /\ A + L - T + k <= A => last_seqs'[k] = Tracker!Scan(old[A + L - T + k], new)
      /\ A + L - T + k > A =>
           /\ last_seqs'[k].seq = (cur + (L - T + k)) % SeqSpace /\ last_seqs'[k].times = 0
           /\ last_seqs'[k].state = IF (cur + (L - T + k)) % SeqSpace = new THEN "RECVED" ELSE "MISSING"
  BY DEF Grown
<1> HIDE DEF A, L, T
<1>2. A \in Nat /\ L \in Nat /\ MaxLen \in Nat /\ k \in 1..T
  BY <1>1, TrackerFacts DEF A, T
<1>3. T \in Nat /\ T <= A + L
  BY <1>1, <1>2
<1>4. PICK p \in 1..(A + L) : p = A + L - T + k
  BY <1>2, <1>3
<1>5. p - A = L - T + k
  BY <1>2, <1>3, <1>4
<1>6. /\ p <= A => last_seqs'[k] = Tracker!Scan(old[p], new)
      /\ p > A => /\ last_seqs'[k].seq = (cur + (p - A)) % SeqSpace /\ last_seqs'[k].times = 0
                  /\ last_seqs'[k].state = IF (cur + (p - A)) % SeqSpace = new THEN "RECVED" ELSE "MISSING"
  BY <1>1, <1>4, <1>5, Zenon
<1> QED
  BY <1>4, <1>6 DEF A, L, T

\* The list stays consecutive and ends in a packet that was received, whether or not it
\* was given up before.
LEMMA WindowKeeps ==
  ASSUME TrackerInv, NEW new \in 0..(SeqSpace - 1), Grown(Tracker!Known(new), CurOf(new), new)
  PROVE  /\ last_seqs' \in Seq(Tracked) /\ Len(last_seqs') \in Nat /\ Len(last_seqs') <= MaxLen /\ Len(last_seqs') >= 1
         /\ FreshIsUnasked'
         /\ \A k \in 1..Len(last_seqs') : k > 1 => last_seqs'[k].seq = (last_seqs'[k - 1].seq + 1) % SeqSpace
         /\ last_seqs'[Len(last_seqs')].state = "RECVED"
<1> DEFINE old == Tracker!Known(new)
           cur == CurOf(new)
           A == Len(old)
           L == Added(new, cur)
           T == Len(last_seqs')
<1>0. Len(Tracker!Known(new)) \in Nat
  BY KnownIs
<1>1. /\ old \in Seq(Tracked) /\ A \in Nat /\ A <= MaxLen /\ cur \in 0..(SeqSpace - 1)
      /\ \A k \in 1..A : old[k] \in Tracked /\ (old[k].state = "MISSING" => old[k].times = 0)
      /\ old = <<>> \/ old = last_seqs
  BY KnownIs
<1>2. trackerNow \in 0..TrackerTime /\ MaxLen \in Nat \ {0, 1} /\ SeqSpace \in Nat \ {0}
  BY TrackerFacts DEF TrackerInv, Tracker!TypeOK
<1>3. /\ last_seqs' \in Seq(Tracked) /\ T = IF A + L <= MaxLen THEN A + L ELSE MaxLen
      /\ L \in Nat /\ (L > 0 => (cur + L) % SeqSpace = new)
      /\ \A k \in 1..T :
           /\ A + L - T + k <= A => last_seqs'[k] = Tracker!Scan(old[A + L - T + k], new)
           /\ A + L - T + k > A =>
                /\ last_seqs'[k].seq = (cur + (L - T + k)) % SeqSpace /\ last_seqs'[k].times = 0
                /\ last_seqs'[k].state = IF (cur + (L - T + k)) % SeqSpace = new THEN "RECVED" ELSE "MISSING"
  BY DEF Grown
<1>4. A >= 1 => /\ cur = old[A].seq /\ old[A].state = "RECVED"
                /\ \A k \in 1..A : k > 1 => old[k].seq = (old[k - 1].seq + 1) % SeqSpace
  <2> SUFFICES ASSUME A >= 1
               PROVE  /\ cur = old[A].seq /\ old[A].state = "RECVED"
                      /\ \A k \in 1..A : k > 1 => old[k].seq = (old[k - 1].seq + 1) % SeqSpace
    OBVIOUS
  <2>1. old # <<>> /\ old = last_seqs
    BY <1>1
  <2>2. cur = old[A].seq
    BY <2>1 DEF CurOf
  <2>3. DOMAIN last_seqs = 1..Len(last_seqs)
    BY <2>1, <1>1
  <2> QED
    BY <2>1, <2>2, <2>3 DEF TrackerInv, Tracker!ListIsWindow, Tracker!Last
<1>5. A = 0 => L = 1
  <2> SUFFICES ASSUME A = 0 PROVE L = 1
    OBVIOUS
  <2>1. cur = (new - 1) % SeqSpace
    BY <1>1, EmptySeq DEF CurOf
  <2>2. PICK u \in Int : u = new - 1
    BY <1>2
  <2>3. PICK v \in Int : v = new
    BY <1>2
  <2>4. v % SeqSpace = new
    BY <2>3, <1>2, SmallMod
  <2>5. ((v % SeqSpace) - (u % SeqSpace)) % SeqSpace = (v - u) % SeqSpace
    BY <1>2, ModDiff
  <2>6. v - u = 1 /\ 1 \in 0..(SeqSpace - 1)
    BY <2>2, <2>3, <1>2, TrackerFacts
  <2>7. (new - cur) % SeqSpace = 1
    BY <2>1, <2>2, <2>4, <2>5, <2>6, <1>2, SmallMod
  <2> QED
    BY <2>7, <1>2 DEF Added
<1> HIDE DEF old, cur, A, L, T
<1>6. T \in Nat /\ T <= MaxLen /\ T >= 1 /\ T <= A + L /\ A \in Nat /\ L \in Nat
  BY <1>1, <1>2, <1>3, <1>5
<1>7. ASSUME NEW k \in 1..T
      PROVE  \E p \in 1..(A + L) :
               /\ p = A + L - T + k
               /\ p <= A => last_seqs'[k] = Tracker!Scan(old[p], new)
               /\ p > A => /\ last_seqs'[k].seq = (cur + (p - A)) % SeqSpace /\ last_seqs'[k].times = 0
                           /\ last_seqs'[k].state = IF (cur + (p - A)) % SeqSpace = new THEN "RECVED" ELSE "MISSING"
  BY <1>0, <1>7, GrownPlace DEF A, L, T, old, cur
<1>8. FreshIsUnasked'
  <2> SUFFICES ASSUME NEW k \in 1..T, last_seqs'[k].state = "MISSING" PROVE last_seqs'[k].times = 0
    BY DEF FreshIsUnasked, T
  <2>1. PICK p \in 1..(A + L) : /\ p <= A => last_seqs'[k] = Tracker!Scan(old[p], new)
                                /\ p > A => last_seqs'[k].times = 0
    BY <1>7
  <2>2. CASE p <= A
    <3>1. p \in 1..A
      BY <2>2, <1>1
    <3> QED
      BY <3>1, <2>1, <2>2, <1>1, <1>2, ScanIs
  <2>3. p \in Int /\ A \in Int
    BY <1>1, <1>3
  <2> QED
    BY <2>1, <2>2, <2>3
<1>9. ASSUME NEW k \in 1..T, k > 1 PROVE last_seqs'[k].seq = (last_seqs'[k - 1].seq + 1) % SeqSpace
  <2>1. PICK p \in 1..(A + L) :
               /\ p = A + L - T + k
               /\ p <= A => last_seqs'[k] = Tracker!Scan(old[p], new)
               /\ p > A => last_seqs'[k].seq = (cur + (p - A)) % SeqSpace
    BY <1>7
  <2>2. k - 1 \in 1..T
    BY <1>6, <1>9
  <2>3. PICK r \in 1..(A + L) :
               /\ r = A + L - T + (k - 1)
               /\ r <= A => last_seqs'[k - 1] = Tracker!Scan(old[r], new)
               /\ r > A => last_seqs'[k - 1].seq = (cur + (r - A)) % SeqSpace
    BY <2>2, <1>7
  <2>4. r = p - 1 /\ r >= 1 /\ p \in Int /\ A \in Int
    <3>1. p = A + L - T + k /\ r = A + L - T + (k - 1) /\ k \in Int
      BY <2>1, <2>3, <1>6
    <3> QED
      BY <3>1, <1>6
  <2>5. CASE p <= A
    <3>1. p \in 1..A /\ r \in 1..A /\ r <= A /\ p > 1 /\ A >= 1
      BY <2>4, <2>5, <1>1
    <3>2. last_seqs'[k].seq = old[p].seq /\ last_seqs'[k - 1].seq = old[r].seq
      BY <3>1, <2>1, <2>3, <2>5, <1>1, <1>2, ScanIs
    <3>3. old[p].seq = (old[p - 1].seq + 1) % SeqSpace
      BY <3>1, <1>4
    <3> QED
      BY <3>2, <3>3, <2>4, Zenon
  <2>6. CASE p > A /\ r <= A
    <3>1. r = A /\ p - A = 1 /\ A >= 1 /\ A \in 1..A
      BY <2>4, <2>6, <1>1
    <3>2. last_seqs'[k - 1].seq = cur
      BY <3>1, <2>3, <2>6, <1>1, <1>2, <1>4, ScanIs
    <3> QED
      BY <3>1, <3>2, <2>1, <2>6, Zenon
  <2>7. CASE p > A /\ r > A
    <3>1. PICK u \in Int, v \in Int : u = cur + (r - A) /\ v = cur + (p - A)
      BY <2>4, <1>1, <1>2
    <3>2. v = u + 1
      BY <3>1, <2>4, <1>1, <1>2
    <3>3. ((u % SeqSpace) + 1) % SeqSpace = (u + 1) % SeqSpace
      <4>1. 1 \in Int
        OBVIOUS
      <4> QED
        BY <4>1, <1>2, ModShift, Zenon
    <3> QED
      BY <3>1, <3>2, <3>3, <2>1, <2>3, <2>7, Zenon
  <2> QED
    BY <2>4, <2>5, <2>6, <2>7
<1>10. last_seqs'[T].state = "RECVED"
  <2>1. T \in 1..T
    BY <1>6
  <2>2. PICK p \in 1..(A + L) :
               /\ p = A + L - T + T
               /\ p <= A => last_seqs'[T] = Tracker!Scan(old[p], new)
               /\ p > A => last_seqs'[T].state = IF (cur + (p - A)) % SeqSpace = new THEN "RECVED" ELSE "MISSING"
    BY <2>1, <1>7
  <2>3. p = A + L /\ p - A = L
    BY <2>2, <1>1, <1>3, <1>6
  <2>4. CASE L = 0
    <3>1. p = A /\ p <= A /\ A >= 1 /\ A \in 1..A
      BY <2>3, <2>4, <1>1, <1>3
    <3> QED
      BY <3>1, <2>2, <1>1, <1>2, <1>4, ScanIs
  <2>5. CASE L > 0
    <3>1. p > A
      BY <2>3, <2>5, <1>1, <1>3
    <3> QED
      BY <3>1, <2>2, <2>3, <2>5, <1>3, Zenon
  <2> QED
    BY <2>4, <2>5, <1>3
<1> QED
  BY <1>3, <1>6, <1>8, <1>9, <1>10 DEF T

\* The indices seen so far, and the next, span less than a round.
LEMMA Horizon ==
  ASSUME TrackerInv, NEW lo \in Int, From(lo), tracked < MaxTracked, NEW n \in Int, n <= newest + Gap
  PROVE  n - lo < SeqSpace /\ newest - lo < SeqSpace /\ lo <= newest
         /\ n - lo <= TrackerWindow + Gap * (tracked + 1) /\ newest - lo <= TrackerWindow + Gap * (tracked + 1)
<1>1. /\ Gap \in Nat /\ TrackerWindow \in Nat /\ MaxTracked \in Nat /\ SeqSpace \in Nat
      /\ TrackerWindow + Gap * MaxTracked < SeqSpace
  BY TrackerFacts
<1>2. tracked \in Nat /\ newest \in Nat
  BY <1>1 DEF TrackerInv, Tracker!TypeOK
<1>3. newest - lo <= TrackerWindow + Gap * tracked /\ lo <= newest - TrackerWindow
  BY DEF From
<1>4. Gap * (tracked + 1) = Gap * tracked + Gap
  BY <1>1, <1>2
<1>5. PICK r \in Nat : MaxTracked = tracked + 1 + r
  <2>1. MaxTracked - tracked - 1 \in Nat
    BY <1>1, <1>2
  <2> QED
    BY <2>1, <1>1, <1>2
<1>6. Gap * MaxTracked = Gap * (tracked + 1) + Gap * r
  BY <1>1, <1>2, <1>5
<1>7. PICK x \in Int, y \in Int, z \in Int, w \in Int : x = Gap * tracked /\ y = Gap * (tracked + 1) /\ z = Gap * MaxTracked /\ w = Gap * r
  BY <1>1, <1>2
<1>8. w >= 0
  BY <1>1, <1>7
<1>9. y = x + Gap /\ z = y + w /\ TrackerWindow + z < SeqSpace /\ newest - lo <= TrackerWindow + x
  BY <1>1, <1>3, <1>4, <1>6, <1>7
<1>10. n - lo <= TrackerWindow + y /\ newest - lo <= TrackerWindow + y /\ lo <= newest
  BY <1>1, <1>2, <1>3, <1>9
<1>11. n - lo < SeqSpace /\ newest - lo < SeqSpace
  BY <1>1, <1>2, <1>8, <1>9, <1>10
<1> QED
  BY <1>7, <1>10, <1>11

\* A packet newer than all before has a number that none of them had.
LEMMA Unseen ==
  ASSUME TrackerInv, NEW lo \in Int, From(lo), NEW m \in Int, m > newest, m - lo < SeqSpace
  PROVE  m % SeqSpace \notin received /\ asked[m % SeqSpace] = 0
<1>1. SeqSpace \in Nat \ {0} /\ newest \in Nat /\ asked \in [Tracker!Seqs -> Nat]
  BY TrackerFacts DEF TrackerInv, Tracker!TypeOK
<1>2. m % SeqSpace \in Tracker!Seqs
  BY <1>1, Division DEF Tracker!Seqs
<1>3. asked[m % SeqSpace] \in Nat
  BY <1>1, <1>2
<1>4. ~ \E i \in lo..newest : m % SeqSpace = i % SeqSpace
  <2> SUFFICES ASSUME NEW i \in lo..newest, m % SeqSpace = i % SeqSpace PROVE FALSE
    OBVIOUS
  <2>1. i \in Int /\ m - i < SeqSpace /\ i - m < SeqSpace /\ m # i
    BY <1>1
  <2> QED
    BY <2>1, OneRound
<1>5. ~(m % SeqSpace \in received \/ asked[m % SeqSpace] > 0)
  BY <1>2, <1>4 DEF From
<1> QED
  BY <1>3, <1>5

\* The entries before the packet end at index c, and those it adds at the newest.
At(c, lo, n, new) ==
  LET old == Tracker!Known(new)
      A   == Len(old)
      L   == Added(new, CurOf(new))
  IN  /\ CurOf(new) = c % SeqSpace /\ newest' = c + L /\ L \in Nat /\ n <= c + L
      /\ A <= c - lo + 1 /\ c + L - lo < SeqSpace
      /\ \A k \in 1..A : old[k].seq = (c - A + k) % SeqSpace
      /\ \A j \in 1..L : /\ (c + j) % SeqSpace = new \/ (c + j) % SeqSpace \notin received
                         /\ asked[(c + j) % SeqSpace] = 0

LEMMA PacketIsAt ==
  ASSUME TrackerInv, ~cleared, NEW lo \in Int, From(lo), tracked < MaxTracked,
         NEW n \in (newest - TrackerWindow)..(newest + Gap), tracked = 0 => n = newest,
         newest' = IF n > newest THEN n ELSE newest
  PROVE  \E c \in Int : At(c, lo, n, n % SeqSpace)
<1> DEFINE new == n % SeqSpace
           old == Tracker!Known(new)
           cur == CurOf(new)
           A == Len(old)
           L == Added(new, cur)
           S == SeqSpace
<1>1. /\ S \in Nat \ {0} /\ MaxLen \in Nat \ {0, 1} /\ MaxBack \in Nat /\ MaxLen + MaxBack < S
      /\ TrackerWindow \in Nat /\ Gap \in Nat /\ TrackerWindow < MaxBack /\ Gap + MaxBack <= S
  BY TrackerFacts
<1>2. newest \in Nat /\ n \in Int /\ n <= newest + Gap /\ newest - n <= TrackerWindow
  BY <1>1 DEF TrackerInv, Tracker!TypeOK
<1>3. new \in 0..(S - 1)
  BY <1>1, <1>2, Division
<1>4. n - lo < S /\ newest - lo < S /\ lo <= newest
  BY <1>2, Horizon
<1>5. lo <= n
  BY <1>1, <1>2 DEF From
<1>6. /\ old = <<>> \/ old = last_seqs
      /\ last_seqs \in Seq(Tracked) /\ A \in Nat
  BY <1>3, KnownIs
<1>7. last_seqs # <<>> =>
        /\ last_seqs[Len(last_seqs)].seq = newest % S
        /\ old = IF ~((n - newest) % S < MaxLen) /\ ~((newest - n) % S < MaxBack) THEN <<>> ELSE last_seqs
  <2> SUFFICES ASSUME last_seqs # <<>>
               PROVE  /\ last_seqs[Len(last_seqs)].seq = newest % S
                      /\ old = IF ~((n - newest) % S < MaxLen) /\ ~((newest - n) % S < MaxBack) THEN <<>> ELSE last_seqs
    OBVIOUS
  <2>1. last_seqs[Len(last_seqs)].seq = newest % S
    BY DEF TrackerInv, Tracker!ListIsWindow, Tracker!Last
  <2>2. newest % S \in 0..(S - 1) /\ newest \in Int /\ MaxBack < S /\ MaxLen < S /\ MaxLen \in Nat
    BY <1>1, <1>2, Division
  <2>3. /\ Tracker!janus_seq_in_range(new, newest % S, MaxLen) <=> (new - (newest % S)) % S < MaxLen
        /\ Tracker!janus_seq_in_range(newest % S, new, MaxBack) <=> ((newest % S) - new) % S < MaxBack
    BY <2>2, <1>1, <1>3, InRange
  <2>4. (new - (newest % S)) % S = (n - newest) % S /\ ((newest % S) - new) % S = (newest - n) % S
    BY <2>2, <1>1, <1>2, ModDiff
  <2> QED
    BY <2>1, <2>3, <2>4 DEF Tracker!Known, Tracker!Last
<1>8. n <= newest => (newest - n) % S = newest - n
  <2> SUFFICES ASSUME n <= newest PROVE (newest - n) % S = newest - n
    OBVIOUS
  <2>1. newest - n \in 0..(S - 1)
    BY <1>1, <1>2
  <2> QED
    BY <2>1, <1>1, SmallMod
<1>9. n > newest => (n - newest) % S = n - newest
  <2> SUFFICES ASSUME n > newest PROVE (n - newest) % S = n - newest
    OBVIOUS
  <2>1. n - newest \in 0..(S - 1)
    BY <1>1, <1>2
  <2> QED
    BY <2>1, <1>1, SmallMod
<1>10. n < newest => (n - newest) % S = S - (newest - n)
  <2> SUFFICES ASSUME n < newest PROVE (n - newest) % S = S - (newest - n)
    OBVIOUS
  <2>1. PICK u \in Int, v \in Int : u = n - newest /\ v = S - (newest - n)
    BY <1>1, <1>2
  <2>2. v = u + S * 1 /\ v \in 0..(S - 1)
    BY <2>1, <1>1, <1>2
  <2>3. v % S = u % S
    <3>1. 1 \in Int /\ v = u + S * 1 /\ S \in Nat \ {0}
      BY <2>2, <1>1
    <3> HIDE DEF S
    <3> QED
      BY <3>1, Multiple
  <2>4. v % S = v
    BY <2>2, <1>1, SmallMod
  <2> QED
    BY <2>1, <2>3, <2>4
<1>11. n > newest => (newest - n) % S = S - (n - newest)
  <2> SUFFICES ASSUME n > newest PROVE (newest - n) % S = S - (n - newest)
    OBVIOUS
  <2>1. PICK u \in Int, v \in Int : u = newest - n /\ v = S - (n - newest)
    BY <1>1, <1>2
  <2>2. v = u + S * 1 /\ v \in 0..(S - 1)
    BY <2>1, <1>1, <1>2
  <2>3. v % S = u % S
    <3>1. 1 \in Int /\ v = u + S * 1 /\ S \in Nat \ {0}
      BY <2>2, <1>1
    <3> HIDE DEF S
    <3> QED
      BY <3>1, Multiple
  <2>4. v % S = v
    BY <2>2, <1>1, SmallMod
  <2> QED
    BY <2>1, <2>3, <2>4
<1>12. CASE old = <<>>
  <2>1. n >= newest /\ newest' = n
    <3>1. CASE last_seqs = <<>>
      BY <3>1, <1>2 DEF TrackerInv, EmptyIsNew
    <3>2. CASE last_seqs # <<>>
      <4>1. ~((newest - n) % S < MaxBack)
        BY <3>2, <1>1, <1>7, <1>12
      <4>2. n > newest
        BY <4>1, <1>1, <1>2, <1>8
      <4> QED
        BY <4>2, <1>2
    <3> QED
      BY <3>1, <3>2
  <2>2. A = 0
    BY <1>12
  <2>3. cur = (n - 1) % S
    <3>1. PICK c \in Int : c = -1
      OBVIOUS
    <3>2. ((n % S) + c) % S = (n + c) % S
      BY <1>1, <1>2, ModShift
    <3>3. new + c = new - 1 /\ n + c = n - 1
      BY <3>1, <1>1, <1>2, <1>3
    <3> QED
      BY <3>2, <3>3, <1>12 DEF CurOf
  <2>4. L = 1
    <3>1. PICK u \in Int : u = n - 1
      BY <1>2
    <3>2. ((n % S) - (u % S)) % S = (n - u) % S
      BY <1>1, <1>2, ModDiff
    <3>3. n - u = 1 /\ 1 \in 0..(S - 1) /\ 1 < MaxLen
      BY <3>1, <1>1, <1>2
    <3>4. (new - cur) % S = 1
      BY <3>1, <3>2, <3>3, <2>3, <1>1, SmallMod
    <3> QED
      BY <3>3, <3>4 DEF Added
  <2>5. asked[n % S] = 0
    <3>1. CASE last_seqs = <<>>
      BY <3>1, <1>3 DEF TrackerInv, EmptyIsNew, Tracker!Seqs
    <3>2. CASE last_seqs # <<>>
      <4>1. ~((newest - n) % S < MaxBack)
        BY <3>2, <1>1, <1>7, <1>12
      <4>2. n > newest
        BY <4>1, <1>1, <1>2, <1>8
      <4> QED
        BY <4>2, <1>2, <1>4, Unseen
    <3> QED
      BY <3>1, <3>2
  <2>6. PICK c \in Int : c = n - 1
    BY <1>2
  <2>7. c + L = n /\ c + 1 = n /\ n <= c + L /\ A <= c - lo + 1 /\ c + L - lo < S
    BY <2>2, <2>4, <2>6, <1>2, <1>4, <1>5
  <2> HIDE DEF L, A, cur, old
  <2>8. \A j \in 1..L : (c + j) % S = n % S
    BY <2>4, <2>7
  <2>9. cur = c % S /\ newest' = c + L /\ L \in Nat /\ \A k \in 1..A : FALSE
    BY <2>1, <2>2, <2>3, <2>4, <2>6, <2>7
  <2>10. At(c, lo, n, n % S)
    BY <2>5, <2>7, <2>8, <2>9 DEF At, L, A, cur, old
  <2> QED
    BY <2>10
<1>13. CASE old # <<>>
  <2>1. old = last_seqs /\ last_seqs # <<>> /\ cur = newest % S /\ A = Len(last_seqs)
    <3>1. old = last_seqs /\ last_seqs # <<>>
      BY <1>6, <1>13
    <3> QED
      BY <3>1, <1>7, <1>13 DEF CurOf
  <2>2. (new - cur) % S = (n - newest) % S
    <3>1. ((n % S) - (newest % S)) % S = (n - newest) % S
      <4>1. newest \in Int
        BY <1>2
      <4> QED
        BY <4>1, <1>1, <1>2, ModDiff
    <3>2. cur = newest % S
      BY <2>1
    <3> HIDE DEF cur
    <3> QED
      BY <3>1, <3>2
  <2>3. /\ n <= newest => L = 0
        /\ n > newest => L = n - newest
    <3>1. CASE n < newest
      <4>1. ~(S - (newest - n) < MaxLen)
        BY <1>1, <1>2
      <4> QED
        BY <4>1, <3>1, <2>2, <1>2, <1>10 DEF Added
    <3>2. CASE n = newest
      <4>1. (n - newest) % S = 0
        BY <3>2, <1>1, <1>2, SmallMod
      <4> QED
        BY <4>1, <3>2, <2>2, <1>1, <1>2 DEF Added
    <3>3. CASE n > newest
      <4>1. (n - newest) % S < MaxLen
        <5> SUFFICES ASSUME ~((n - newest) % S < MaxLen) PROVE FALSE
          OBVIOUS
        <5>1. (newest - n) % S < MaxBack
          BY <2>1, <1>7, <1>13
        <5> QED
          BY <5>1, <3>3, <1>1, <1>2, <1>11
      <4> QED
        BY <4>1, <3>3, <2>2, <1>2, <1>9 DEF Added
    <3> QED
      BY <3>1, <3>2, <3>3, <1>2
  <2> HIDE DEF L, A, cur, old
  <2>4. L \in Nat /\ newest' = newest + L /\ n <= newest + L /\ newest + L - lo < S /\ (L > 0 => n = newest + L)
    BY <2>3, <1>2, <1>4
  <2>5. A <= newest - lo + 1
    BY <2>1 DEF From
  <2>6. \A k \in 1..A : old[k].seq = (newest - A + k) % S
    BY <2>1 DEF TrackerInv, PlacesAreIndices
  <2>7. ASSUME NEW j \in 1..L PROVE (newest + j) % S \notin received /\ asked[(newest + j) % S] = 0
    <3>1. PICK m \in Int : m = newest + j
      BY <2>4, <1>2
    <3>2. m > newest /\ m - lo < S
      BY <3>1, <2>4, <1>1, <1>2
    <3> QED
      BY <3>1, <3>2, Unseen
  <2>8. At(newest, lo, n, n % S)
    BY <2>1, <2>4, <2>5, <2>6, <2>7 DEF At, L, A, cur, old
  <2> QED
    BY <2>8, <1>2
<1> QED
  BY <1>12, <1>13

\* Until the list is given up, it is the indices up to the newest, says of each whether
\* it has come, and counts the requests.
LEMMA TrackedKeeps ==
  ASSUME TrackerInv, ~cleared, NEW lo \in Int, From(lo), tracked < MaxTracked,
         NEW n \in (newest - TrackerWindow)..(newest + Gap),
         NEW c \in Int, At(c, lo, n, n % SeqSpace), Grown(Tracker!Known(n % SeqSpace), CurOf(n % SeqSpace), n % SeqSpace),
         newest' = IF n > newest THEN n ELSE newest, tracked' = tracked + 1, received' = received \cup {n % SeqSpace},
         asked' = [s \in Tracker!Seqs |-> IF s \in Tracker!Nacks(n % SeqSpace) /\ Tracker!Fits(Tracker!Nacks(n % SeqSpace))
                                          THEN asked[s] + 1 ELSE asked[s]]
  PROVE  /\ From(lo)'
         /\ \A k \in 1..Len(last_seqs') :
              /\ last_seqs'[k].seq = (newest' - Len(last_seqs') + k) % SeqSpace
              /\ last_seqs'[k].state = "RECVED" <=> last_seqs'[k].seq \in received'
              /\ last_seqs'[k].times = asked'[last_seqs'[k].seq]
         /\ asked' \in [Tracker!Seqs -> Nat] /\ \A s \in Tracker!Seqs : asked'[s] <= MaxResend + 1
<1> DEFINE S == SeqSpace
           new == n % S
           old == Tracker!Known(new)
           cur == CurOf(new)
           A == Len(old)
           L == Added(new, cur)
           T == Len(last_seqs')
           due == Tracker!Nacks(new)
<1>1. /\ S \in Nat \ {0} /\ MaxLen \in Nat \ {0, 1} /\ MaxLen < S /\ MaxBack \in Nat /\ MaxResend \in Nat
      /\ TrackerWindow \in Nat /\ Gap \in Nat
  BY TrackerFacts
<1>2. /\ newest \in Nat /\ n \in Int /\ n <= newest + Gap /\ newest - n <= TrackerWindow /\ trackerNow \in 0..TrackerTime
      /\ asked \in [Tracker!Seqs -> Nat] /\ received \subseteq Tracker!Seqs /\ tracked \in Nat
  BY <1>1 DEF TrackerInv, Tracker!TypeOK
<1>3. new \in 0..(S - 1) /\ new \in Tracker!Seqs
  BY <1>1, <1>2, Division DEF Tracker!Seqs
<1>4. /\ old = <<>> \/ old = last_seqs
      /\ old \in Seq(Tracked) /\ A \in Nat /\ A <= MaxLen
      /\ \A k \in 1..A : old[k] \in Tracked /\ (old[k].state = "MISSING" => old[k].times = 0)
  BY <1>3, KnownIs
<1>5. /\ cur = c % S /\ newest' = c + L /\ L \in Nat /\ n <= c + L
      /\ A <= c - lo + 1 /\ c + L - lo < S
      /\ \A k \in 1..A : old[k].seq = (c - A + k) % S
      /\ \A j \in 1..L : /\ (c + j) % S = new \/ (c + j) % S \notin received
                         /\ asked[(c + j) % S] = 0
  BY DEF At
<1>6. T = (IF A + L <= MaxLen THEN A + L ELSE MaxLen) /\ T \in Nat /\ T <= A + L
  <2>1. T = IF A + L <= MaxLen THEN A + L ELSE MaxLen
    BY DEF Grown
  <2>2. A \in Nat /\ L \in Nat /\ MaxLen \in Nat
    BY <1>1, <1>4, <1>5
  <2> HIDE DEF T, A, L
  <2> QED
    BY <2>1, <2>2
<1>7. ASSUME NEW k \in 1..T
      PROVE  \E p \in 1..(A + L) :
               /\ p = A + L - T + k
               /\ p <= A => last_seqs'[k] = Tracker!Scan(old[p], new)
               /\ p > A => /\ last_seqs'[k].seq = (cur + (p - A)) % S /\ last_seqs'[k].times = 0
                           /\ last_seqs'[k].state = IF (cur + (p - A)) % S = new THEN "RECVED" ELSE "MISSING"
  BY <1>4, <1>7, GrownPlace
<1>8. \A s : s \in due <=> \E k \in 1..A : s = old[k].seq /\ Tracker!IsDue(old[k], new)
  <2>1. Tracker!Range(old) = {old[k] : k \in 1..A}
    BY <1>4 DEF Tracker!Range
  <2> QED
    BY <2>1 DEF Tracker!Nacks
<1>9. \A k \in 1..A : old = last_seqs /\ k \in 1..Len(last_seqs) /\ last_seqs[k] \in Tracker!Range(last_seqs)
  <2> SUFFICES ASSUME NEW k \in 1..A PROVE old = last_seqs /\ k \in 1..Len(last_seqs) /\ last_seqs[k] \in Tracker!Range(last_seqs)
    OBVIOUS
  <2>1. old # <<>>
    OBVIOUS
  <2>2. old = last_seqs
    BY <2>1, <1>4
  <2> QED
    BY <2>2, <1>4 DEF Tracker!Range
<1>10. \A k \in 1..A : (old[k].state = "RECVED" <=> old[k].seq \in received) /\ old[k].times = asked[old[k].seq]
  BY <1>9 DEF TrackerInv, Tracker!MissingIsLost, Tracker!RequestsAreCounted
<1> HIDE DEF S, new, old, cur, A, L, T, due
<1>11. ASSUME NEW i \in 1..A, NEW k \in 1..A, old[i].seq = old[k].seq PROVE i = k
  <2>1. PICK u \in Int, v \in Int : u = c - A + i /\ v = c - A + k
    BY <1>4
  <2>2. u % S = v % S
    BY <2>1, <1>5, <1>11
  <2>3. u - v < S /\ v - u < S
    BY <2>1, <1>1, <1>4
  <2>4. u = v
    BY <2>2, <2>3, OneRound DEF S
  <2> QED
    BY <2>1, <2>4, <1>4
<1>12. Tracker!Fits(due)
  <2>1. PICK d \in Int : d = c - A
    BY <1>4
  <2>2. ASSUME NEW x \in due PROVE \E k \in 1..A : x = (d + k) % S
    <3>1. PICK k \in 1..A : x = old[k].seq
      BY <1>8
    <3> QED
      BY <3>1, <2>1, <1>5
  <2>3. A \in 0..MaxLen
    BY <1>1, <1>4
  <2> QED
    BY <2>2, <2>3, AllFit DEF S
<1>13. asked' = [s \in Tracker!Seqs |-> IF s \in due THEN asked[s] + 1 ELSE asked[s]]
  BY <1>12 DEF due, new, S
<1>14. ASSUME NEW k \in 1..T
       PROVE  /\ last_seqs'[k].seq = (newest' - T + k) % S /\ last_seqs'[k].seq \in Tracker!Seqs
              /\ last_seqs'[k].state = "RECVED" <=> last_seqs'[k].seq \in received \cup {new}
              /\ last_seqs'[k].times = asked'[last_seqs'[k].seq]
  <2>1. PICK p \in 1..(A + L) :
               /\ p = A + L - T + k
               /\ p <= A => last_seqs'[k] = Tracker!Scan(old[p], new)
               /\ p > A => /\ last_seqs'[k].seq = (cur + (p - A)) % S /\ last_seqs'[k].times = 0
                           /\ last_seqs'[k].state = IF (cur + (p - A)) % S = new THEN "RECVED" ELSE "MISSING"
    BY <1>7
  <2>2. A \in Nat /\ L \in Nat /\ T \in Nat /\ p = A + L - T + k
    BY <2>1, <1>4, <1>5, <1>6
  <2>3. CASE p <= A
    <3>1. p \in 1..A /\ c - A + p = c + L - T + k
      BY <2>2, <2>3
    <3> DEFINE e == old[p]
               f == Tracker!Scan(e, new)
    <3>2. /\ f \in Tracked /\ f.seq = e.seq
          /\ f.state = "RECVED" <=> (e.state = "RECVED" \/ e.seq = new)
          /\ f.times = IF Tracker!IsDue(e, new) THEN e.times + 1 ELSE e.times
      BY <3>1, <1>2, <1>4, ScanIs
    <3>3. last_seqs'[k] = f
      BY <2>1, <2>3
    <3> HIDE DEF f
    <3>4. e.seq \in Tracker!Seqs /\ e.seq = (c + L - T + k) % S
      <4>1. e \in Tracked /\ e.seq = (c - A + p) % S
        BY <3>1, <1>4, <1>5
      <4> HIDE DEF e
      <4> QED
        BY <4>1, <3>1 DEF Tracked
    <3>5. e.seq \in due <=> Tracker!IsDue(e, new)
      BY <3>1, <1>8, <1>11
    <3>6. (e.state = "RECVED" <=> e.seq \in received) /\ e.times = asked[e.seq]
      BY <3>1, <1>10
    <3> HIDE DEF e
    <3>7. f.times = asked'[e.seq]
      BY <3>2, <3>4, <3>5, <3>6, <1>13
    <3>8. newest' - T + k = c + L - T + k
      BY <2>2, <1>5
    <3>9. last_seqs'[k].seq = e.seq /\ last_seqs'[k].times = f.times /\ last_seqs'[k].state = f.state
      BY <3>2, <3>3
    <3>10. f.state = "RECVED" <=> e.seq \in received \cup {new}
      BY <3>2, <3>6
    <3> QED
      BY <3>4, <3>7, <3>8, <3>9, <3>10, Zenon
  <2>4. CASE p > A
    <3>1. PICK j \in 1..L : j = p - A
      BY <2>2, <2>4
    <3>2. c + j = c + L - T + k
      BY <3>1, <2>2
    <3>3. last_seqs'[k].seq = (c + j) % S
      <4>1. last_seqs'[k].seq = ((c % S) + j) % S
        BY <3>1, <2>1, <2>4, <1>5
      <4>2. j \in Int
        BY <2>2
      <4> QED
        BY <4>1, <4>2, <1>1, ModShift
    <3>4. (c + j) % S \in Tracker!Seqs
      <4>1. c + j \in Int
        BY <2>2
      <4> QED
        BY <4>1, <1>1, Division DEF Tracker!Seqs, S
    <3>5. (c + j) % S \notin due
      <4> SUFFICES ASSUME NEW i \in 1..A, (c + j) % S = (c - A + i) % S PROVE FALSE
        BY <1>5, <1>8
      <4>1. PICK u \in Int, v \in Int : u = c + j /\ v = c - A + i
        BY <2>2
      <4>2. u - v < S /\ v - u < S /\ u # v
        BY <4>1, <2>2, <1>1, <1>5
      <4> QED
        BY <4>1, <4>2, OneRound DEF S
    <3>6. asked'[(c + j) % S] = 0
      BY <3>4, <3>5, <1>5, <1>13
    <3>7. last_seqs'[k].times = 0 /\ last_seqs'[k].state = IF last_seqs'[k].seq = new THEN "RECVED" ELSE "MISSING"
      BY <2>1, <2>4
    <3>8. (c + j) % S = new \/ (c + j) % S \notin received
      BY <1>5
    <3>9. newest' - T + k = c + j
      BY <3>2, <2>2, <1>5
    <3> QED
      BY <3>3, <3>4, <3>6, <3>7, <3>8, <3>9, Zenon
  <2> QED
    BY <2>2, <2>3, <2>4
<1>15. asked' \in [Tracker!Seqs -> Nat]
  BY <1>2, <1>13
<1>16. ASSUME NEW s \in Tracker!Seqs PROVE asked'[s] <= MaxResend + 1
  <2>1. asked[s] <= MaxResend + 1 /\ asked[s] \in Nat
    BY <1>2 DEF TrackerInv, Tracker!RequestsAreCounted
  <2>2. CASE s \in due
    <3>1. PICK k \in 1..A : s = old[k].seq /\ Tracker!IsDue(old[k], new)
      BY <2>2, <1>8
    <3>2. old[k].times <= MaxResend
      BY <3>1, <1>2, <1>4, ScanIs
    <3>3. asked[s] <= MaxResend
      BY <3>1, <3>2, <1>10
    <3> QED
      BY <3>3, <2>1, <2>2, <1>1, <1>13
  <2>3. CASE s \notin due
    BY <2>1, <2>3, <1>13
  <2> QED
    BY <2>2, <2>3
<1>17. From(lo)'
  <2>1. /\ n - lo <= TrackerWindow + Gap * (tracked + 1) /\ newest - lo <= TrackerWindow + Gap * (tracked + 1)
        /\ lo <= newest
    BY <1>2, Horizon
  <2>2. lo <= newest - TrackerWindow
    BY DEF From
  <2>3. newest' \in Int /\ newest' >= newest /\ newest' >= n /\ lo <= n /\ newest' \in {n, newest}
    BY <2>2, <1>1, <1>2
  <2>4. lo <= newest' - TrackerWindow /\ newest' - lo <= TrackerWindow + Gap * tracked'
    <3>1. lo <= newest' - TrackerWindow
      BY <2>2, <2>3, <1>1, <1>2
    <3>2. newest' - lo <= TrackerWindow + Gap * (tracked + 1)
      BY <2>1, <2>3
    <3> QED
      BY <3>1, <3>2
  <2>5. T <= newest' - lo + 1
    <3>1. T \in Nat /\ A \in Nat /\ L \in Nat /\ T <= A + L /\ A <= c - lo + 1 /\ newest' = c + L
      BY <1>4, <1>5, <1>6
    <3> QED
      BY <3>1
  <2>6. ASSUME NEW s \in Tracker!Seqs, s \in received' \/ asked'[s] > 0
        PROVE  \E i \in lo..newest' : s = i % S
    <3>1. CASE s \in received \/ asked[s] > 0
      <4>1. PICK i \in lo..newest : s = i % S
        BY <3>1 DEF From, S
      <4>2. i \in lo..newest'
        BY <2>3, <1>2
      <4> QED
        BY <4>1, <4>2
    <3>2. CASE s = n % S
      <4>1. n \in lo..newest'
        BY <2>3, <1>2
      <4> QED
        BY <3>2, <4>1
    <3>3. CASE s \in due
      <4>1. PICK k \in 1..A : s = old[k].seq
        BY <3>3, <1>8
      <4>2. s = (c - A + k) % S
        BY <4>1, <1>5
      <4>3. c - A + k \in lo..newest'
        <5>1. A \in Nat /\ L \in Nat /\ A <= c - lo + 1 /\ newest' = c + L
          BY <1>4, <1>5
        <5>2. c - A + k \in lo..(c + L)
          BY <5>1
        <5> QED
          BY <5>1, <5>2, Zenon
      <4> QED
        BY <4>2, <4>3
    <3>4. s \in received \/ s = n % S \/ asked'[s] > 0
      BY <2>6 DEF S
    <3>5. asked'[s] > 0 => asked[s] > 0 \/ s \in due
      BY <1>13
    <3> QED
      BY <3>1, <3>2, <3>3, <3>4, <3>5
  <2> QED
    BY <2>4, <2>5, <2>6 DEF From, T, S
<1> QED
  BY <1>14, <1>15, <1>16, <1>17 DEF T, S, new


\* A packet that arrives keeps the invariant, whether the list is given up or grows.
LEMMA TrackKeeps ==
  ASSUME TrackerInv, NEW n \in (newest - TrackerWindow)..(newest + Gap), NEW k0 \in BOOLEAN, tracked = 0 => n = newest,
         Tracker!SendNackByCondition(n, k0)
  PROVE  TrackerInv'
<1> DEFINE new == n % SeqSpace
           due == Tracker!Nacks(new)
<1>1. /\ SeqSpace \in Nat \ {0} /\ MaxTracked \in Nat /\ TrackerTime \in Nat /\ TrackerWindow \in Nat /\ Gap \in Nat
      /\ KeyInterval \in Nat
  BY TrackerFacts
<1>2. /\ tracked < MaxTracked /\ tracked' = tracked + 1 /\ newest' = IF n > newest THEN n ELSE newest
      /\ received' = received \cup {n % SeqSpace} /\ Tracker!KeepTrack(n % SeqSpace)
      /\ Tracker!RequestKeyFrame(n % SeqSpace, k0) /\ trackerNow' = trackerNow
  BY DEF Tracker!SendNackByCondition
<1>3. /\ newest \in Nat /\ n \in Int /\ tracked \in 0..MaxTracked /\ received \subseteq Tracker!Seqs
      /\ lastFir \in {-KeyInterval} \cup 0..TrackerTime /\ getFir \in BOOLEAN /\ trackerNow \in 0..TrackerTime
      /\ asked \in [Tracker!Seqs -> Nat] /\ cleared \in BOOLEAN
  BY <1>1 DEF TrackerInv, Tracker!TypeOK
<1>4. new \in 0..(SeqSpace - 1) /\ new \in Tracker!Seqs
  BY <1>1, <1>3, Division DEF Tracker!Seqs
<1>5. /\ newest' \in Nat /\ tracked' \in 0..MaxTracked /\ received' \subseteq Tracker!Seqs /\ trackerNow' \in 0..TrackerTime
  <2>1. newest' \in Nat
    BY <1>2, <1>3
  <2>2. tracked' \in 0..MaxTracked
    BY <1>1, <1>2, <1>3
  <2> QED
    BY <2>1, <2>2, <1>2, <1>3, <1>4
<1>6. lastFir' \in {-KeyInterval} \cup 0..TrackerTime /\ getFir' \in BOOLEAN
  <2>1. \E b \in BOOLEAN : lastFir' = IF b THEN trackerNow ELSE lastFir
    <3>1. lastFir' = trackerNow \/ lastFir' = lastFir
      BY <1>2 DEF Tracker!RequestKeyFrame
    <3> QED
      BY <3>1
  <2>2. getFir' \in BOOLEAN
    BY <1>2 DEF Tracker!RequestKeyFrame
  <2> QED
    BY <2>1, <2>2, <1>3
<1>7. CASE Tracker!GivesUp(new)
  <2>1. last_seqs' = <<>> /\ cleared' = TRUE /\ asked' = asked
    BY <1>2, <1>7 DEF Tracker!KeepTrack
  <2>2. \A S : <<>> \in Seq(S)
    OBVIOUS
  <2>3. Tracker!TypeOK'
    BY <2>1, <2>2, <1>3, <1>5, <1>6 DEF Tracker!TypeOK
  <2>4. Tracker!ListIsWindow'
    <3>1. Len(<<>>) = 0 /\ 0 <= MaxLen /\ DOMAIN <<>> = {}
      BY TrackerFacts
    <3> QED
      BY <3>1, <2>1 DEF Tracker!ListIsWindow
  <2>5. FreshIsUnasked'
    <3>1. Len(<<>>) = 0
      OBVIOUS
    <3> QED
      BY <3>1, <2>1 DEF FreshIsUnasked
  <2> QED
    BY <2>1, <2>3, <2>4, <2>5 DEF TrackerInv, Tracker!MissingIsLost, Tracker!RequestsAreCounted,
       PlacesAreIndices, EmptyIsNew, HistoryIsShort
<1>8. CASE ~Tracker!GivesUp(new)
  <2>1. Grown(Tracker!Known(new), CurOf(new), new)
    BY <1>2, <1>4, <1>8, Grows
  <2>2. /\ last_seqs' \in Seq(Tracked) /\ Len(last_seqs') \in Nat /\ Len(last_seqs') <= MaxLen /\ Len(last_seqs') >= 1
        /\ FreshIsUnasked'
        /\ \A k \in 1..Len(last_seqs') : k > 1 => last_seqs'[k].seq = (last_seqs'[k - 1].seq + 1) % SeqSpace
        /\ last_seqs'[Len(last_seqs')].state = "RECVED"
    BY <2>1, <1>4, WindowKeeps
  <2>3. /\ asked' = [s \in Tracker!Seqs |-> IF s \in due /\ Tracker!Fits(due) THEN asked[s] + 1 ELSE asked[s]]
        /\ cleared' = cleared
    BY <1>2, <1>8 DEF Tracker!KeepTrack
  <2>4. asked' \in [Tracker!Seqs -> Nat]
    BY <2>3, <1>3
  <2>5. Tracker!TypeOK'
    BY <2>2, <2>3, <2>4, <1>3, <1>5, <1>6 DEF Tracker!TypeOK, Tracked
  <2>6. last_seqs' # <<>> /\ DOMAIN last_seqs' = 1..Len(last_seqs')
    BY <2>2
  <2>7. CASE cleared
    <3>1. Tracker!ListIsWindow'
      BY <2>2, <2>3, <2>6, <2>7 DEF Tracker!ListIsWindow, Tracker!Last
    <3> QED
      BY <3>1, <2>2, <2>3, <2>5, <2>7 DEF TrackerInv, Tracker!MissingIsLost, Tracker!RequestsAreCounted,
         PlacesAreIndices, EmptyIsNew, HistoryIsShort
  <2>8. CASE ~cleared
    <3>1. PICK lo \in Int : From(lo)
      BY <2>8 DEF TrackerInv, HistoryIsShort
    <3>2. PICK c \in Int : At(c, lo, n, n % SeqSpace)
      BY <3>1, <2>8, <1>2, PacketIsAt
    <3>3. /\ From(lo)'
          /\ \A k \in 1..Len(last_seqs') :
               /\ last_seqs'[k].seq = (newest' - Len(last_seqs') + k) % SeqSpace
               /\ last_seqs'[k].state = "RECVED" <=> last_seqs'[k].seq \in received'
               /\ last_seqs'[k].times = asked'[last_seqs'[k].seq]
          /\ \A s \in Tracker!Seqs : asked'[s] <= MaxResend + 1
      BY <3>1, <3>2, <2>1, <2>3, <2>8, <1>2, TrackedKeeps
    <3>4. last_seqs'[Len(last_seqs')].seq = newest' % SeqSpace
      <4>1. Len(last_seqs') \in 1..Len(last_seqs') /\ newest' - Len(last_seqs') + Len(last_seqs') = newest'
        BY <2>2, <1>5
      <4> QED
        BY <3>3, <4>1
    <3>5. Tracker!ListIsWindow'
      BY <3>4, <2>2, <2>3, <2>6 DEF Tracker!ListIsWindow, Tracker!Last
    <3>6. \A e : e \in {last_seqs'[k] : k \in 1..Len(last_seqs')} =>
                   (e.state = "RECVED" <=> e.seq \in received') /\ e.times = asked'[e.seq]
      BY <3>3
    <3>7. Tracker!MissingIsLost' /\ Tracker!RequestsAreCounted'
      BY <3>3, <3>6, <2>6 DEF Tracker!MissingIsLost, Tracker!RequestsAreCounted, Tracker!Range
    <3>8. PlacesAreIndices' /\ EmptyIsNew' /\ HistoryIsShort'
      BY <3>3, <2>6 DEF PlacesAreIndices, EmptyIsNew, HistoryIsShort
    <3> QED
      BY <3>5, <3>7, <3>8, <2>2, <2>5 DEF TrackerInv
  <2> QED
    BY <2>7, <2>8, <1>3
<1> QED
  BY <1>7, <1>8

LEMMA TrackerStart == AllInit => TrackerInv
<1> SUFFICES ASSUME AllInit PROVE TrackerInv
  OBVIOUS
<1>1. /\ last_seqs = <<>> /\ lastFir = -KeyInterval /\ getFir = TRUE /\ trackerNow = 0
      /\ newest \in {SeqSpace + s : s \in TrackerStarts} /\ tracked = 0
      /\ received = {} /\ asked = [s \in Tracker!Seqs |-> 0] /\ cleared = FALSE
  BY DEF AllInit, Tracker!Init
<1>2. /\ SeqSpace \in Nat /\ TrackerStarts \subseteq 0..(SeqSpace - 1) /\ MaxTracked \in Nat /\ TrackerTime \in Nat
      /\ KeyInterval \in Nat /\ MaxLen \in Nat /\ MaxResend \in Nat /\ TrackerWindow \in Nat /\ Gap \in Nat
  BY TrackerFacts
<1>3. newest \in Nat
  <2>1. PICK s \in TrackerStarts : newest = SeqSpace + s
    BY <1>1
  <2>2. s \in Nat
    BY <1>2
  <2> QED
    BY <2>1, <2>2, <1>2
<1>4. Len(<<>>) = 0 /\ DOMAIN <<>> = {} /\ \A S : <<>> \in Seq(S)
  OBVIOUS
<1>5. asked \in [Tracker!Seqs -> Nat] /\ \A s \in Tracker!Seqs : asked[s] = 0
  BY <1>1
<1>6. Tracker!TypeOK
  <2>1. trackerNow \in 0..TrackerTime /\ tracked \in 0..MaxTracked /\ lastFir \in {-KeyInterval} \cup 0..TrackerTime
    BY <1>1, <1>2
  <2>2. getFir \in BOOLEAN /\ cleared \in BOOLEAN /\ received \subseteq Tracker!Seqs
    BY <1>1
  <2> QED
    BY <2>1, <2>2, <1>1, <1>3, <1>4, <1>5 DEF Tracker!TypeOK
<1>7. Tracker!ListIsWindow /\ FreshIsUnasked /\ PlacesAreIndices /\ EmptyIsNew
  BY <1>1, <1>2, <1>4, <1>5 DEF Tracker!ListIsWindow, FreshIsUnasked, PlacesAreIndices, EmptyIsNew
<1>8. Tracker!MissingIsLost /\ Tracker!RequestsAreCounted
  <2>1. Tracker!Range(last_seqs) = {}
    BY <1>1, <1>4 DEF Tracker!Range
  <2>2. \A s \in Tracker!Seqs : asked[s] <= MaxResend + 1
    BY <1>2, <1>5
  <2> QED
    BY <2>1, <2>2 DEF Tracker!MissingIsLost, Tracker!RequestsAreCounted
<1>9. HistoryIsShort
  <2>1. PICK lo \in Int : lo = newest - TrackerWindow
    BY <1>2, <1>3
  <2>2. Gap * tracked = 0
    BY <1>1, <1>2
  <2>3. lo <= newest - TrackerWindow /\ newest - lo <= TrackerWindow + Gap * tracked /\ 0 <= newest - lo + 1
    BY <2>1, <2>2, <1>2, <1>3
  <2>4. From(lo)
    BY <2>3, <1>1, <1>4, <1>5 DEF From
  <2> QED
    BY <2>4 DEF HistoryIsShort
<1> QED
  BY <1>6, <1>7, <1>8, <1>9 DEF TrackerInv

LEMMA TrackerStep == TrackerInv /\ [AllNext]_allVars => TrackerInv'
<1> SUFFICES ASSUME TrackerInv, [AllNext]_allVars PROVE TrackerInv'
  OBVIOUS
<1>1. CASE UNCHANGED trackerVars
  BY <1>1 DEF trackerVars, TrackerInv, Tracker!TypeOK, Tracker!ListIsWindow, Tracker!MissingIsLost,
     Tracker!RequestsAreCounted, FreshIsUnasked, PlacesAreIndices, EmptyIsNew, HistoryIsShort, From
<1>2. CASE Tracker!Tick
  <2>1. /\ trackerNow < TrackerTime /\ trackerNow' = trackerNow + 1
        /\ UNCHANGED <<last_seqs, lastFir, getFir, newest, tracked, received, asked, cleared>>
    BY <1>2 DEF Tracker!Tick
  <2>2. trackerNow' \in 0..TrackerTime
    BY <2>1, TrackerFacts DEF TrackerInv, Tracker!TypeOK
  <2> QED
    BY <2>1, <2>2 DEF TrackerInv, Tracker!TypeOK, Tracker!ListIsWindow, Tracker!MissingIsLost,
       Tracker!RequestsAreCounted, FreshIsUnasked, PlacesAreIndices, EmptyIsNew, HistoryIsShort, From
<1>3. CASE Tracker!Arrive
  BY <1>3, TrackKeeps DEF Tracker!Arrive
<1>4. CASE Tracker!Next
  BY <1>2, <1>3, <1>4 DEF Tracker!Next
<1> QED
  BY <1>1, <1>4 DEF AllNext, allVars

\* The receiver's list stays a window of consecutive sequence numbers, across the wrap, that
\* ends in a packet that came; until it is given up that is the newest packet, the entries
\* call received what has come and nothing else, and they count the requests that were
\* sent, of which no number gets more than MAX_TIMES_OF_RESEND + 1
\* (KeepTrackRtpSequenceNumber): for every length of the list, every waiting time and
\* every order of arrival, loss and repetition that TrackerAssumption allows.
THEOREM TrackerStaysRight == AllSpec => []TrackerIsRight
<1>1. AllInit => TrackerInv
  BY TrackerStart
<1>2. TrackerInv /\ [AllNext]_allVars => TrackerInv'
  BY TrackerStep
<1>3. TrackerInv => TrackerIsRight
  BY DEF TrackerInv, TrackerIsRight
<1> QED
  BY <1>1, <1>2, <1>3, PTL DEF AllSpec

===============================================================================
