-------------------------- MODULE PipelineRunProofs --------------------------
(***************************************************************************)
(* Proofs about PipelineRun, for every number of inputs and sources, every *)
(* capacity and any number of crashes: no ticket is forgotten, a           *)
(* checkpoint on disk never moves backwards and covers only units that     *)
(* need not be read again, and a clean stop leaves nothing behind.         *)
(*                                                                         *)
(* What the functions that change the tracking state of one source promise *)
(* comes first, as in PipelineMachineProofs: the two modules declare       *)
(* different variables, so that neither can extend the other.              *)
(***************************************************************************)
EXTENDS PipelineRun, WellFoundedInduction, FiniteSetTheorems, SequenceTheorems, TLAPS

-----------------------------------------------------------------------------
(* Maxima of bounded sets of naturals.                                     *)

(* Every non-empty set of naturals has a least element.                    *)
LEMMA LeastNatural ==
  ASSUME NEW T \in SUBSET Nat, T # {}
  PROVE  \E x \in T : \A y \in T : x <= y
<1> DEFINE R == OpToRel(<, Nat)
<1>1. IsWellFoundedOn(R, Nat)
  BY NatLessThanWellFounded
<1>2. PICK x \in T : \A y \in T : ~(<<y, x>> \in R)
  <2> HIDE DEF R
  <2> QED BY <1>1, WFMin
<1>3. \A y \in T : ~(y < x)
  BY <1>2 DEF OpToRel
<1> QED BY <1>3

(* Max, which picks the last ack that the loop of record_ack_and_advance   *)
(* consumes, is well defined on every non-empty bounded set of batch ids.  *)
LEMMA MaxOfBounded ==
  ASSUME NEW n \in Nat, NEW S \in SUBSET (0 .. n), S # {}
  PROVE  /\ Max(S) \in S
         /\ \A y \in S : y <= Max(S)
<1> DEFINE T == {k \in 0 .. n : (n - k) \in S}
<1>1. T \in SUBSET Nat
  OBVIOUS
<1>2. T # {}
  <2>1. PICK x \in S : TRUE
    OBVIOUS
  <2>2. n - x \in T
    BY n - (n - x) = x
  <2> HIDE DEF T
  <2> QED BY <2>2
<1>3. PICK t \in T : \A u \in T : t <= u
  <2> HIDE DEF T
  <2> QED BY <1>1, <1>2, LeastNatural
<1>4. \A y \in S : n - t >= y
  <2> TAKE y \in S
  <2>1. n - y \in T
    BY n - (n - y) = y
  <2>2. t <= n - y
    BY <1>3, <2>1
  <2> QED BY <2>2
<1>5. n - t \in S
  BY <1>3
<1> QED BY <1>4, <1>5 DEF Max

(* The same for sets of batch ids.                                         *)
LEMMA MaxOfBatchIds ==
  ASSUME NEW S \in SUBSET BatchIds, S # {}
  PROVE  /\ Max(S) \in S
         /\ \A y \in S : y <= Max(S)
<1>1. MaxBatches - 1 \in Nat
  <2>1. PICK x \in S : x \in 0 .. (MaxBatches - 1)
    BY DEF BatchIds
  <2> QED BY <2>1, TrackingAssumptions
<1> QED BY <1>1, MaxOfBounded DEF BatchIds

-----------------------------------------------------------------------------
(* Batch maps.                                                             *)

(* The map of a source that tracks nothing is a batch map.                 *)
LEMMA EmptyMapType ==
  EmptyMap \in BatchMaps /\ DOMAIN EmptyMap = {}
  BY DEF EmptyMap, BatchMaps

(* BTreeMap::insert on a batch map: the domain gains the key, the other    *)
(* entries stay.                                                           *)
LEMMA InsertType ==
  ASSUME NEW map \in BatchMaps, NEW id \in BatchIds, NEW c \in Checkpoints
  PROVE  /\ Insert(map, id, c) \in BatchMaps
         /\ DOMAIN Insert(map, id, c) = DOMAIN map \cup {id}
         /\ Insert(map, id, c)[id] = c
         /\ \A x \in DOMAIN map : x # id => Insert(map, id, c)[x] = map[x]
<1>1. PICK ids \in SUBSET BatchIds : map \in [ids -> Checkpoints]
  BY DEF BatchMaps
<1>2. Insert(map, id, c) \in [ids \cup {id} -> Checkpoints]
  BY <1>1 DEF Insert
<1>3. ids \cup {id} \in SUBSET BatchIds
  OBVIOUS
<1>4. Insert(map, id, c) \in BatchMaps
  BY <1>2, <1>3 DEF BatchMaps
<1> QED BY <1>1, <1>4 DEF Insert

(* BTreeMap::remove, for a set of keys: the entries left are unchanged.    *)
LEMMA RemoveType ==
  ASSUME NEW map \in BatchMaps, NEW ks
  PROVE  /\ Remove(map, ks) \in BatchMaps
         /\ DOMAIN Remove(map, ks) = DOMAIN map \ ks
         /\ \A x \in DOMAIN map \ ks : Remove(map, ks)[x] = map[x]
<1>1. PICK ids \in SUBSET BatchIds : map \in [ids -> Checkpoints]
  BY DEF BatchMaps
<1>2. Remove(map, ks) \in [ids \ ks -> Checkpoints]
  BY <1>1 DEF Remove
<1>3. ids \ ks \in SUBSET BatchIds
  OBVIOUS
<1>4. Remove(map, ks) \in BatchMaps
  BY <1>2, <1>3 DEF BatchMaps
<1> QED BY <1>1, <1>4 DEF Remove

(* A batch map takes batch ids to checkpoints.                             *)
LEMMA BatchMapElements ==
  ASSUME NEW map \in BatchMaps
  PROVE  /\ DOMAIN map \in SUBSET BatchIds
         /\ \A id \in DOMAIN map : map[id] \in Checkpoints
  BY DEF BatchMaps

-----------------------------------------------------------------------------
(* What begin_send and record_ack_and_advance do to one source.            *)

(* begin_send puts one batch in flight and leaves the buffered acks and    *)
(* the committed checkpoint of the source alone.                           *)
LEMMA TrackFacts ==
  ASSUME NEW src \in SourceTracking, NEW id \in BatchIds, NEW c \in Checkpoints
  PROVE  /\ Track(src, id, c) \in SourceTracking
         /\ DOMAIN Track(src, id, c).in_flight = DOMAIN src.in_flight \cup {id}
         /\ Track(src, id, c).in_flight[id] = c
         /\ \A x \in DOMAIN src.in_flight :
                x # id => Track(src, id, c).in_flight[x] = src.in_flight[x]
         /\ Track(src, id, c).pending_acks = src.pending_acks
         /\ Track(src, id, c).committed = src.committed
<1>1. src.in_flight \in BatchMaps
  BY DEF SourceTracking
<1>2. /\ Track(src, id, c).in_flight = Insert(src.in_flight, id, c)
      /\ Track(src, id, c).pending_acks = src.pending_acks
      /\ Track(src, id, c).committed = src.committed
  BY DEF Track, SourceTracking
<1>3. /\ Insert(src.in_flight, id, c) \in BatchMaps
      /\ DOMAIN Insert(src.in_flight, id, c) = DOMAIN src.in_flight \cup {id}
      /\ Insert(src.in_flight, id, c)[id] = c
      /\ \A x \in DOMAIN src.in_flight :
             x # id => Insert(src.in_flight, id, c)[x] = src.in_flight[x]
  BY <1>1, InsertType, Zenon
<1>4. Track(src, id, c) \in SourceTracking
  BY <1>3 DEF Track, SourceTracking
<1> QED BY <1>2, <1>3, <1>4, Zenon

(* The acks that record_ack_and_advance looks at: the buffered ones and    *)
(* the one it was called for.                                              *)
Buffered(src, id) == Insert(src.pending_acks, id, src.in_flight[id])

(* The acks that remain buffered wait for an older batch in flight, and    *)
(* what is committed is the checkpoint of an acknowledged batch below      *)
(* which nothing is in flight.                                             *)
LEMMA RecordAckFacts ==
  ASSUME NEW src \in SourceTracking, NEW id \in DOMAIN src.in_flight
  PROVE  /\ RecordAckAndAdvance(src, id) \in SourceTracking
         /\ DOMAIN RecordAckAndAdvance(src, id).in_flight = DOMAIN src.in_flight \ {id}
         /\ \A x \in DOMAIN RecordAckAndAdvance(src, id).in_flight :
                RecordAckAndAdvance(src, id).in_flight[x] = src.in_flight[x]
         /\ DOMAIN RecordAckAndAdvance(src, id).pending_acks
                \subseteq DOMAIN Buffered(src, id)
         /\ \A x \in DOMAIN RecordAckAndAdvance(src, id).pending_acks :
                /\ RecordAckAndAdvance(src, id).pending_acks[x] = Buffered(src, id)[x]
                /\ \E older \in DOMAIN RecordAckAndAdvance(src, id).in_flight : older < x
         /\ RecordAckAndAdvance(src, id).committed # src.committed =>
               \E m \in DOMAIN Buffered(src, id) :
                   /\ RecordAckAndAdvance(src, id).committed = Buffered(src, id)[m]
                   /\ \A other \in DOMAIN RecordAckAndAdvance(src, id).in_flight :
                          ~(other < m)
<1> DEFINE r        == RecordAckAndAdvance(src, id)
           pending  == Buffered(src, id)
           flight   == Remove(src.in_flight, {id})
           consumed == Contiguous(flight, pending)
<1>1. /\ src.in_flight \in BatchMaps
      /\ src.pending_acks \in BatchMaps
      /\ src.committed \in Checkpoints \cup {None}
  BY DEF SourceTracking
<1>2. id \in BatchIds /\ src.in_flight[id] \in Checkpoints
  BY <1>1, BatchMapElements
<1>3. /\ flight \in BatchMaps
      /\ DOMAIN flight = DOMAIN src.in_flight \ {id}
      /\ \A x \in DOMAIN flight : flight[x] = src.in_flight[x]
  <2>1. /\ flight \in BatchMaps
        /\ DOMAIN flight = DOMAIN src.in_flight \ {id}
        /\ \A x \in DOMAIN src.in_flight \ {id} : flight[x] = src.in_flight[x]
    BY <1>1, RemoveType, Zenon
  <2> HIDE DEF flight
  <2> QED BY <2>1
<1>4. /\ pending \in BatchMaps
      /\ DOMAIN pending = DOMAIN src.pending_acks \cup {id}
  BY <1>1, <1>2, InsertType DEF Buffered
<1>5. /\ r.in_flight = flight
      /\ r.pending_acks = Remove(pending, consumed)
      /\ r.committed = IF consumed = {} THEN src.committed ELSE pending[Max(consumed)]
      /\ r = [committed |-> r.committed, in_flight |-> r.in_flight,
              pending_acks |-> r.pending_acks]
  BY DEF RecordAckAndAdvance, Buffered
<1>6. /\ consumed \subseteq DOMAIN pending
      /\ \A x \in consumed : \A other \in DOMAIN flight : ~(other < x)
      /\ \A x \in DOMAIN pending \ consumed : \E other \in DOMAIN flight : other < x
  BY DEF Contiguous
<1> HIDE DEF flight, consumed, r, pending
<1>7. /\ Remove(pending, consumed) \in BatchMaps
      /\ DOMAIN Remove(pending, consumed) = DOMAIN pending \ consumed
      /\ \A x \in DOMAIN pending \ consumed : Remove(pending, consumed)[x] = pending[x]
  BY <1>4, RemoveType
<1>8. consumed # {} => Max(consumed) \in consumed
  BY <1>4, <1>6, BatchMapElements, MaxOfBatchIds
<1>9. consumed # {} => pending[Max(consumed)] \in Checkpoints
  BY <1>4, <1>6, <1>8, BatchMapElements
<1>10. r.committed \in Checkpoints \cup {None}
  BY <1>1, <1>5, <1>9
<1>11. r \in SourceTracking
  BY <1>3, <1>5, <1>7, <1>10 DEF SourceTracking
<1>12. r.committed # src.committed =>
         \E m \in DOMAIN pending :
             /\ r.committed = pending[m]
             /\ \A other \in DOMAIN r.in_flight : ~(other < m)
  BY <1>5, <1>6, <1>8
<1>13. /\ DOMAIN r.in_flight = DOMAIN src.in_flight \ {id}
       /\ \A x \in DOMAIN r.in_flight : r.in_flight[x] = src.in_flight[x]
       /\ DOMAIN r.pending_acks \subseteq DOMAIN pending
       /\ \A x \in DOMAIN r.pending_acks : /\ r.pending_acks[x] = pending[x]
                                          /\ \E older \in DOMAIN r.in_flight : older < x
  BY <1>3, <1>5, <1>6, <1>7
<1> QED BY <1>11, <1>12, <1>13 DEF r, pending

-----------------------------------------------------------------------------
(* Tracking seen as one map: the ids in flight or acknowledged and         *)
(* buffered, each with its checkpoint.                                     *)

Tracked(src) == DOMAIN src.in_flight \cup DOMAIN src.pending_acks

Ckpt(src, id) == IF id \in DOMAIN src.in_flight THEN src.in_flight[id]
                                                ELSE src.pending_acks[id]

(* A batch is in flight or its ack is buffered, not both.                  *)
Exclusive(src) == DOMAIN src.in_flight \cap DOMAIN src.pending_acks = {}

(* Tracked ids are batch ids, with checkpoints.                            *)
LEMMA TrackedTypes ==
  ASSUME NEW src \in SourceTracking, NEW x \in Tracked(src)
  PROVE  x \in BatchIds /\ x \in Nat /\ Ckpt(src, x) \in Checkpoints
<1>1. src.in_flight \in BatchMaps /\ src.pending_acks \in BatchMaps
  BY DEF SourceTracking
<1>2. x \in BatchIds /\ Ckpt(src, x) \in Checkpoints
  BY <1>1, BatchMapElements DEF Tracked, Ckpt
<1> QED BY <1>2, TrackingAssumptions DEF BatchIds

(* begin_send of an id that is not tracked adds this id and nothing else.  *)
LEMMA TrackShape ==
  ASSUME NEW src \in SourceTracking, Exclusive(src),
         NEW id \in BatchIds, id \notin Tracked(src), NEW c \in Checkpoints
  PROVE  /\ Track(src, id, c) \in SourceTracking
         /\ Exclusive(Track(src, id, c))
         /\ DOMAIN Track(src, id, c).in_flight = DOMAIN src.in_flight \cup {id}
         /\ Tracked(Track(src, id, c)) = Tracked(src) \cup {id}
         /\ Ckpt(Track(src, id, c), id) = c
         /\ \A x \in Tracked(src) : Ckpt(Track(src, id, c), x) = Ckpt(src, x)
         /\ Track(src, id, c).committed = src.committed
<1> DEFINE r == Track(src, id, c)
<1>1. /\ r \in SourceTracking
      /\ DOMAIN r.in_flight = DOMAIN src.in_flight \cup {id}
      /\ r.in_flight[id] = c
      /\ \A x \in DOMAIN src.in_flight : x # id => r.in_flight[x] = src.in_flight[x]
      /\ r.pending_acks = src.pending_acks
      /\ r.committed = src.committed
  BY TrackFacts, Zenon
<1> HIDE DEF r
<1>2. Exclusive(r) /\ Tracked(r) = Tracked(src) \cup {id} /\ Ckpt(r, id) = c
  BY <1>1 DEF Exclusive, Tracked, Ckpt
<1>3. \A x \in Tracked(src) : Ckpt(r, x) = Ckpt(src, x)
  BY <1>1 DEF Tracked, Ckpt
<1> QED BY <1>1, <1>2, <1>3 DEF r

(* What an ack does to the tracked ids.  Either it is buffered, and they   *)
(* stay; or the loop of record_ack_and_advance runs up to some id m, the   *)
(* checkpoint of m is committed, exactly the ids above m stay tracked, and *)
(* the acked id is m or below.                                             *)
AckBuffered(src, id, r) ==
    /\ Tracked(r) = Tracked(src)
    /\ id \in DOMAIN r.pending_acks
    /\ r.committed = src.committed

AckCommits(src, id, r, m) ==
    /\ m \in Tracked(src)
    /\ Tracked(r) = {x \in Tracked(src) : m < x}
    /\ r.committed = Ckpt(src, m)
    /\ r.committed # None

(* record_ack_and_advance for a batch in flight does one of the two.       *)
LEMMA AckShape ==
  ASSUME NEW src \in SourceTracking, Exclusive(src), NEW id \in DOMAIN src.in_flight
  PROVE  /\ RecordAckAndAdvance(src, id) \in SourceTracking
         /\ Exclusive(RecordAckAndAdvance(src, id))
         /\ DOMAIN RecordAckAndAdvance(src, id).in_flight = DOMAIN src.in_flight \ {id}
         /\ \A x \in Tracked(RecordAckAndAdvance(src, id)) :
                Ckpt(RecordAckAndAdvance(src, id), x) = Ckpt(src, x)
         /\ \/ AckBuffered(src, id, RecordAckAndAdvance(src, id))
            \/ \E m \in Nat : AckCommits(src, id, RecordAckAndAdvance(src, id), m)
<1> DEFINE r        == RecordAckAndAdvance(src, id)
           pending  == Buffered(src, id)
           flight   == Remove(src.in_flight, {id})
           consumed == Contiguous(flight, pending)
<1>1. src.in_flight \in BatchMaps /\ src.pending_acks \in BatchMaps
  BY DEF SourceTracking
<1>2. id \in BatchIds /\ src.in_flight[id] \in Checkpoints
  BY <1>1, BatchMapElements
<1>3. /\ r \in SourceTracking
      /\ DOMAIN r.in_flight = DOMAIN src.in_flight \ {id}
      /\ \A x \in DOMAIN r.in_flight : r.in_flight[x] = src.in_flight[x]
  BY RecordAckFacts, Zenon
<1>4. /\ pending \in BatchMaps
      /\ DOMAIN pending = DOMAIN src.pending_acks \cup {id}
      /\ pending[id] = src.in_flight[id]
      /\ \A x \in DOMAIN src.pending_acks : x # id => pending[x] = src.pending_acks[x]
  BY <1>1, <1>2, InsertType DEF Buffered
<1>5. /\ r.in_flight = flight
      /\ r.pending_acks = Remove(pending, consumed)
      /\ r.committed = IF consumed = {} THEN src.committed ELSE pending[Max(consumed)]
  BY DEF RecordAckAndAdvance, Buffered
<1>6. /\ consumed \subseteq DOMAIN pending
      /\ \A x \in consumed : \A other \in DOMAIN flight : ~(other < x)
      /\ \A x \in DOMAIN pending \ consumed : \E other \in DOMAIN flight : other < x
  BY DEF Contiguous
<1> HIDE DEF flight, consumed, r, pending
<1>7. /\ DOMAIN r.pending_acks = DOMAIN pending \ consumed
      /\ \A x \in DOMAIN pending \ consumed : r.pending_acks[x] = pending[x]
  <2>1. /\ DOMAIN Remove(pending, consumed) = DOMAIN pending \ consumed
        /\ \A x \in DOMAIN pending \ consumed : Remove(pending, consumed)[x] = pending[x]
    BY <1>4, RemoveType
  <2> QED BY <2>1, <1>5
<1>8. \A x \in DOMAIN pending : pending[x] = Ckpt(src, x)
  BY <1>4 DEF Ckpt, Exclusive
<1>9. Tracked(r) = Tracked(src) \ consumed
  BY <1>3, <1>4, <1>6, <1>7 DEF Tracked, Exclusive
<1>10. Exclusive(r)
  BY <1>3, <1>4, <1>7 DEF Exclusive
<1>11. \A x \in Tracked(r) : Ckpt(r, x) = Ckpt(src, x)
  BY <1>3, <1>4, <1>7, <1>8 DEF Tracked, Ckpt, Exclusive
<1>12. CASE consumed = {}
  <2>1. AckBuffered(src, id, r)
    BY <1>4, <1>5, <1>7, <1>9, <1>12 DEF AckBuffered
  <2> QED BY <2>1, <1>3, <1>10, <1>11 DEF r
<1>13. CASE consumed # {}
  <2> DEFINE m == Max(consumed)
  <2>1. DOMAIN pending \subseteq BatchIds
    BY <1>4, BatchMapElements
  <2>2. m \in consumed /\ \A y \in consumed : y <= m
    BY <2>1, <1>6, <1>13, MaxOfBatchIds
  <2> HIDE DEF m
  <2>3. /\ m \in DOMAIN pending /\ m \in BatchIds
        /\ r.committed = Ckpt(src, m)
        /\ r.committed # None
    <3>1. m \in DOMAIN pending /\ m \in BatchIds
      BY <1>6, <2>1, <2>2
    <3>2. r.committed = pending[m]
      BY <1>5, <1>13 DEF m
    <3>3. pending[m] \in Checkpoints
      BY <1>4, <3>1, BatchMapElements
    <3> QED BY <3>1, <3>2, <3>3, <1>8, TrackingAssumptions
  <2>4. \A x \in Tracked(src) : x \in Nat
    BY TrackedTypes
  <2>5. m \in Tracked(src) /\ m \in Nat
    BY <1>4, <2>3, TrackingAssumptions DEF Tracked, BatchIds
  <2>6. \A x \in consumed : ~(m < x)
    BY <2>2, <2>4, <2>5, <1>4, <1>6 DEF Tracked
  <2>7. \A x \in DOMAIN flight : m < x
    <3> TAKE x \in DOMAIN flight
    <3>1. ~(x < m) /\ x # m /\ x \in Nat
      BY <1>3, <1>4, <1>5, <1>6, <2>2, <2>4 DEF Exclusive, Tracked
    <3> QED BY <3>1, <2>5
  <2>8. \A x \in DOMAIN pending \ consumed : m < x
    <3> TAKE x \in DOMAIN pending \ consumed
    <3>1. PICK other \in DOMAIN flight : other < x
      BY <1>6
    <3>2. m < other /\ other \in Nat /\ x \in Nat
      BY <2>4, <2>7, <1>3, <1>4, <1>5 DEF Tracked
    <3> QED BY <3>1, <3>2, <2>5
  <2>9. Tracked(r) = {x \in Tracked(src) : m < x}
    <3>1. \A x \in Tracked(r) : m < x
      BY <1>5, <1>7, <2>7, <2>8 DEF Tracked
    <3>2. \A x \in consumed : ~(m < x)
      BY <2>6
    <3> QED BY <3>1, <3>2, <1>9
  <2>10. AckCommits(src, id, r, m)
    BY <2>3, <2>5, <2>9 DEF AckCommits
  <2> QED BY <2>5, <2>10, <1>3, <1>10, <1>11 DEF r
<1> QED BY <1>12, <1>13

-----------------------------------------------------------------------------
(* Checkpoints that are numbers, handed out in ascending order of id.      *)

(* next is above every tracked id, checkpoints ascend with the ids, and    *)
(* neither lo (what is stored for the source) nor the committed checkpoint *)
(* is beyond a tracked one.                                                *)
Ascends(src, next, lo) ==
    /\ src \in SourceTracking
    /\ Exclusive(src)
    /\ \A x \in Tracked(src) : x < next /\ lo <= Ckpt(src, x)
    /\ \A x, y \in Tracked(src) : x < y => Ckpt(src, x) <= Ckpt(src, y)
    /\ src.committed # None => /\ lo <= src.committed
                               /\ \A x \in Tracked(src) : src.committed <= Ckpt(src, x)

(* No checkpoint of the source is beyond hi.                               *)
Within(src, hi) ==
    /\ \A x \in Tracked(src) : Ckpt(src, x) <= hi
    /\ src.committed # None => src.committed <= hi

(* A unit that the checkpoints of the source have reached: it is stored,   *)
(* committed or tracked.                                                   *)
Reached(src, lo, n) ==
    \/ n <= lo
    \/ src.committed # None /\ n <= src.committed
    \/ \E x \in Tracked(src) : n <= Ckpt(src, x)

(* Committed checkpoints are checkpoints.                                  *)
LEMMA CommittedType ==
  ASSUME NEW src \in SourceTracking, src.committed # None
  PROVE  src.committed \in Checkpoints
  BY DEF SourceTracking

(* begin_send of the next id with a checkpoint not below the others keeps  *)
(* the order.                                                              *)
LEMMA TrackAscends ==
  ASSUME Checkpoints \subseteq Nat, NEW src, NEW next \in BatchIds, NEW lo \in Nat,
         Ascends(src, next, lo), NEW c \in Checkpoints, Within(src, c), lo <= c
  PROVE  /\ Ascends(Track(src, next, c), next + 1, lo)
         /\ Within(Track(src, next, c), c)
         /\ \A n \in Nat : Reached(src, lo, n) => Reached(Track(src, next, c), lo, n)
         /\ \A n \in Nat : n <= c => Reached(Track(src, next, c), lo, n)
<1> DEFINE r == Track(src, next, c)
<1>0. next \in Nat /\ c \in Nat
  BY TrackingAssumptions DEF BatchIds
<1>1. src \in SourceTracking /\ Exclusive(src)
  BY DEF Ascends
<1>2. \A x \in Tracked(src) : x \in Nat /\ Ckpt(src, x) \in Nat
  BY <1>1, TrackedTypes
<1>2a. next \notin Tracked(src)
  BY <1>0, <1>2 DEF Ascends
<1>3. /\ r \in SourceTracking
      /\ Exclusive(r)
      /\ Tracked(r) = Tracked(src) \cup {next}
      /\ Ckpt(r, next) = c
      /\ \A x \in Tracked(src) : Ckpt(r, x) = Ckpt(src, x)
      /\ r.committed = src.committed
  BY <1>1, <1>2a, TrackShape
<1> HIDE DEF r
<1>4. \A x \in Tracked(r) : x < next + 1 /\ lo <= Ckpt(r, x)
  BY <1>0, <1>2, <1>3 DEF Ascends
<1>5. \A x, y \in Tracked(r) : x < y => Ckpt(r, x) <= Ckpt(r, y)
  BY <1>0, <1>2, <1>3 DEF Ascends, Within
<1>6. r.committed # None => /\ lo <= r.committed
                            /\ \A x \in Tracked(r) : r.committed <= Ckpt(r, x)
  BY <1>3 DEF Ascends, Within
<1>7. Ascends(r, next + 1, lo)
  BY <1>3, <1>4, <1>5, <1>6 DEF Ascends
<1>8. Within(r, c)
  BY <1>0, <1>3 DEF Within
<1>9. \A n \in Nat : Reached(src, lo, n) => Reached(r, lo, n)
  BY <1>3 DEF Reached
<1>10. \A n \in Nat : n <= c => Reached(r, lo, n)
  BY <1>3 DEF Reached
<1> QED BY <1>7, <1>8, <1>9, <1>10 DEF r

(* An ack keeps the order, and what the checkpoints have reached.  If the  *)
(* ack is not buffered, the committed checkpoint may be stored.            *)
LEMMA AckAscends ==
  ASSUME Checkpoints \subseteq Nat, NEW src, NEW next \in Nat, NEW lo \in Nat,
         Ascends(src, next, lo), NEW id \in DOMAIN src.in_flight
  PROVE  /\ Ascends(RecordAckAndAdvance(src, id), next, lo)
         /\ \A hi \in Nat : Within(src, hi) => Within(RecordAckAndAdvance(src, id), hi)
         /\ \A n \in Nat :
                Reached(src, lo, n) => Reached(RecordAckAndAdvance(src, id), lo, n)
         /\ id \notin DOMAIN RecordAckAndAdvance(src, id).pending_acks =>
               /\ RecordAckAndAdvance(src, id).committed \in Checkpoints
               /\ RecordAckAndAdvance(src, id).committed # None
               /\ lo <= RecordAckAndAdvance(src, id).committed
<1> DEFINE r == RecordAckAndAdvance(src, id)
<1>1. src \in SourceTracking /\ Exclusive(src)
  BY DEF Ascends
<1>2. \A x \in Tracked(src) : x \in Nat /\ Ckpt(src, x) \in Nat
  BY <1>1, TrackedTypes
<1>3. /\ r \in SourceTracking
      /\ Exclusive(r)
      /\ \A x \in Tracked(r) : Ckpt(r, x) = Ckpt(src, x)
      /\ \/ AckBuffered(src, id, r)
         \/ \E m \in Nat : AckCommits(src, id, r, m)
  BY <1>1, AckShape, Zenon
<1>4. src.committed # None => src.committed \in Nat
  BY <1>1, CommittedType
<1> HIDE DEF r
<1>5. CASE AckBuffered(src, id, r)
  <2>1. Ascends(r, next, lo)
    BY <1>3, <1>5 DEF AckBuffered, Ascends
  <2>2. \A hi \in Nat : Within(src, hi) => Within(r, hi)
    BY <1>3, <1>5 DEF AckBuffered, Within
  <2>3. \A n \in Nat : Reached(src, lo, n) => Reached(r, lo, n)
    BY <1>3, <1>5 DEF AckBuffered, Reached
  <2> QED BY <2>1, <2>2, <2>3, <1>5 DEF r, AckBuffered
<1>6. CASE \E m \in Nat : AckCommits(src, id, r, m)
  <2>1. PICK m \in Nat : AckCommits(src, id, r, m)
    BY <1>6
  <2>2. /\ m \in Tracked(src)
        /\ Tracked(r) = {x \in Tracked(src) : m < x}
        /\ r.committed = Ckpt(src, m)
        /\ r.committed # None
        /\ r.committed \in Nat
    BY <1>2, <2>1 DEF AckCommits
  <2>3. lo <= r.committed
    BY <2>2 DEF Ascends
  <2>4. \A x \in Tracked(r) : /\ x < next /\ lo <= Ckpt(r, x)
                             /\ r.committed <= Ckpt(r, x)
    BY <1>3, <2>2 DEF Ascends
  <2>5. \A x, y \in Tracked(r) : x < y => Ckpt(r, x) <= Ckpt(r, y)
    BY <1>3, <2>2 DEF Ascends
  <2>6. Ascends(r, next, lo)
    BY <1>3, <2>3, <2>4, <2>5 DEF Ascends
  <2>7. \A hi \in Nat : Within(src, hi) => Within(r, hi)
    BY <1>3, <2>2 DEF Within
  <2>8. \A n \in Nat : Reached(src, lo, n) => Reached(r, lo, n)
    <3> SUFFICES ASSUME NEW n \in Nat, Reached(src, lo, n) PROVE Reached(r, lo, n)
      OBVIOUS
    <3>1. CASE n <= lo
      BY <3>1 DEF Reached
    <3>2. CASE src.committed # None /\ n <= src.committed
      <4>1. src.committed <= r.committed
        BY <3>2, <2>2 DEF Ascends
      <4> QED BY <3>2, <4>1, <2>2, <1>4 DEF Reached
    <3>3. CASE \E x \in Tracked(src) : n <= Ckpt(src, x)
      <4>1. PICK x \in Tracked(src) : n <= Ckpt(src, x)
        BY <3>3
      <4>2. CASE m < x
        BY <4>1, <4>2, <1>3, <2>2 DEF Reached
      <4>3. CASE ~(m < x)
        <5>1. x = m \/ x < m
          BY <4>1, <4>3, <1>2
        <5>2. Ckpt(src, x) <= Ckpt(src, m)
          BY <5>1, <2>2, <1>2 DEF Ascends
        <5> QED BY <4>1, <5>2, <1>2, <2>2 DEF Reached
      <4> QED BY <4>2, <4>3
    <3> QED BY <3>1, <3>2, <3>3 DEF Reached
  <2>9. r.committed \in Checkpoints
    BY <1>3, <2>2, CommittedType
  <2> QED BY <2>2, <2>3, <2>6, <2>7, <2>8, <2>9 DEF r
<1> QED BY <1>3, <1>5, <1>6

(* Storing the committed checkpoint keeps the order too.                   *)
LEMMA StoreAscends ==
  ASSUME Checkpoints \subseteq Nat, NEW src, NEW next \in Nat, NEW lo \in Nat,
         Ascends(src, next, lo), src.committed # None
  PROVE  /\ Ascends(src, next, src.committed)
         /\ \A n \in Nat : Reached(src, lo, n) => Reached(src, src.committed, n)
<1>1. src \in SourceTracking /\ src.committed \in Nat /\ lo <= src.committed
  BY CommittedType DEF Ascends
<1>2. Ascends(src, next, src.committed)
  BY <1>1 DEF Ascends
<1>3. \A n \in Nat : Reached(src, lo, n) => Reached(src, src.committed, n)
  BY <1>1 DEF Reached
<1> QED BY <1>2, <1>3

-----------------------------------------------------------------------------
(* What checkpoints cover.  A unit of a source is a pair <<s, n>>; done is *)
(* the set of units that need not be read again, and owns has <<f, s, n>>  *)
(* if batch f will make <<s, n>> done when it is acknowledged.             *)

Accounted(src, s, done, owns, n) ==
    \/ <<s, n>> \in done
    \/ \E f \in DOMAIN src.in_flight : <<f, s, n>> \in owns

(* Up to a tracked checkpoint every unit is done or owned by a batch in    *)
(* flight that is not younger; up to the committed one every unit is done. *)
Covers(src, s, done, owns) ==
    /\ \A x \in Tracked(src) : \A n \in 1 .. Ckpt(src, x) :
           \/ <<s, n>> \in done
           \/ \E f \in DOMAIN src.in_flight : f <= x /\ <<f, s, n>> \in owns
    /\ src.committed # None => \A n \in 1 .. src.committed : <<s, n>> \in done

(* Coverage survives when units become done, and when owners change to     *)
(* something as good.                                                      *)
LEMMA CoversMonotone ==
  ASSUME Checkpoints \subseteq Nat, NEW src \in SourceTracking, NEW s,
         NEW done, NEW owns, NEW done2, NEW owns2, done \subseteq done2,
         \A f \in DOMAIN src.in_flight : \A n \in Nat :
             <<f, s, n>> \in owns => <<s, n>> \in done2 \/ <<f, s, n>> \in owns2
  PROVE  /\ Covers(src, s, done, owns) => Covers(src, s, done2, owns2)
         /\ \A n \in Nat : Accounted(src, s, done, owns, n)
                             => Accounted(src, s, done2, owns2, n)
<1>1. ASSUME Covers(src, s, done, owns)
      PROVE  Covers(src, s, done2, owns2)
  <2>1. \A x \in Tracked(src) : \A n \in 1 .. Ckpt(src, x) : n \in Nat
    BY TrackedTypes
  <2>2. \A x \in Tracked(src) : \A n \in 1 .. Ckpt(src, x) :
            \/ <<s, n>> \in done2
            \/ \E f \in DOMAIN src.in_flight : f <= x /\ <<f, s, n>> \in owns2
    BY <1>1, <2>1 DEF Covers
  <2> QED BY <1>1, <2>2 DEF Covers
<1>2. \A n \in Nat : Accounted(src, s, done, owns, n) => Accounted(src, s, done2, owns2, n)
  BY DEF Accounted
<1> QED BY <1>1, <1>2

(* begin_send of the next id keeps coverage if the units below its         *)
(* checkpoint are accounted for or owned by the new batch.                 *)
LEMMA TrackCovers ==
  ASSUME Checkpoints \subseteq Nat, NEW src, NEW next \in BatchIds, NEW lo \in Nat,
         Ascends(src, next, lo), NEW c \in Checkpoints,
         NEW s, NEW done, NEW owns, Covers(src, s, done, owns),
         \A n \in 1 .. c : Accounted(src, s, done, owns, n) \/ <<next, s, n>> \in owns
  PROVE  /\ Covers(Track(src, next, c), s, done, owns)
         /\ \A n \in Nat : Accounted(src, s, done, owns, n)
                             => Accounted(Track(src, next, c), s, done, owns, n)
         /\ \A n \in Nat : <<next, s, n>> \in owns
                             => Accounted(Track(src, next, c), s, done, owns, n)
<1> DEFINE r == Track(src, next, c)
<1>0. next \in Nat
  BY TrackingAssumptions DEF BatchIds
<1>1. src \in SourceTracking /\ Exclusive(src)
  BY DEF Ascends
<1>2. \A x \in Tracked(src) : x \in Nat /\ x < next
  BY <1>1, TrackedTypes DEF Ascends
<1>3. next \notin Tracked(src)
  BY <1>0, <1>2
<1>4. /\ DOMAIN r.in_flight = DOMAIN src.in_flight \cup {next}
      /\ Tracked(r) = Tracked(src) \cup {next}
      /\ Ckpt(r, next) = c
      /\ \A x \in Tracked(src) : Ckpt(r, x) = Ckpt(src, x)
      /\ r.committed = src.committed
  BY <1>1, <1>3, TrackShape
<1> HIDE DEF r
<1>5. \A x \in Tracked(src) : \A n \in 1 .. Ckpt(r, x) :
          \/ <<s, n>> \in done
          \/ \E f \in DOMAIN r.in_flight : f <= x /\ <<f, s, n>> \in owns
  BY <1>4 DEF Covers
<1>6. \A n \in 1 .. Ckpt(r, next) :
          \/ <<s, n>> \in done
          \/ \E f \in DOMAIN r.in_flight : f <= next /\ <<f, s, n>> \in owns
  <2> TAKE n \in 1 .. Ckpt(r, next)
  <2>1. n \in 1 .. c
    BY <1>4
  <2>2. \A f \in DOMAIN src.in_flight : f <= next
    BY <1>0, <1>2 DEF Tracked
  <2>3. next <= next
    BY <1>0
  <2> QED BY <2>1, <2>2, <2>3, <1>4 DEF Accounted
<1>7. Covers(r, s, done, owns)
  BY <1>4, <1>5, <1>6 DEF Covers
<1>8. \A n \in Nat : Accounted(src, s, done, owns, n) => Accounted(r, s, done, owns, n)
  BY <1>4 DEF Accounted
<1>9. \A n \in Nat : <<next, s, n>> \in owns => Accounted(r, s, done, owns, n)
  BY <1>4 DEF Accounted
<1> QED BY <1>7, <1>8, <1>9 DEF r

(* An ack keeps coverage if the units of the acknowledged batch are done:  *)
(* in particular the checkpoint that it commits covers done units only.    *)
LEMMA AckCovers ==
  ASSUME Checkpoints \subseteq Nat, NEW src, NEW next \in Nat, NEW lo \in Nat,
         Ascends(src, next, lo), NEW id \in DOMAIN src.in_flight,
         NEW s, NEW done, NEW owns, Covers(src, s, done, owns),
         \A n \in Nat : <<id, s, n>> \in owns => <<s, n>> \in done
  PROVE  /\ Covers(RecordAckAndAdvance(src, id), s, done, owns)
         /\ \A n \in Nat : Accounted(src, s, done, owns, n)
                             => Accounted(RecordAckAndAdvance(src, id), s, done, owns, n)
<1> DEFINE r == RecordAckAndAdvance(src, id)
<1>1. src \in SourceTracking /\ Exclusive(src)
  BY DEF Ascends
<1>2. \A x \in Tracked(src) : x \in Nat /\ Ckpt(src, x) \in Nat
  BY <1>1, TrackedTypes
<1>3. /\ DOMAIN r.in_flight = DOMAIN src.in_flight \ {id}
      /\ \A x \in Tracked(r) : Ckpt(r, x) = Ckpt(src, x)
      /\ \/ AckBuffered(src, id, r)
         \/ \E m \in Nat : AckCommits(src, id, r, m)
  BY <1>1, AckShape
<1> HIDE DEF r
<1>4. Tracked(r) \subseteq Tracked(src)
  BY <1>3 DEF AckBuffered, AckCommits
<1>5. \A x \in Tracked(src) : \A n \in 1 .. Ckpt(src, x) :
          \/ <<s, n>> \in done
          \/ \E f \in DOMAIN r.in_flight : f <= x /\ <<f, s, n>> \in owns
  <2> TAKE x \in Tracked(src)
  <2> TAKE n \in 1 .. Ckpt(src, x)
  <2>1. n \in Nat
    BY <1>2
  <2> QED BY <2>1, <1>3 DEF Covers
<1>6. \A x \in Tracked(r) : \A n \in 1 .. Ckpt(r, x) :
          \/ <<s, n>> \in done
          \/ \E f \in DOMAIN r.in_flight : f <= x /\ <<f, s, n>> \in owns
  BY <1>3, <1>4, <1>5
<1>7. r.committed # None => \A n \in 1 .. r.committed : <<s, n>> \in done
  <2>1. CASE AckBuffered(src, id, r)
    BY <2>1 DEF AckBuffered, Covers
  <2>2. CASE \E m \in Nat : AckCommits(src, id, r, m)
    <3>1. PICK m \in Nat : AckCommits(src, id, r, m)
      BY <2>2
    <3>2. /\ m \in Tracked(src) /\ r.committed = Ckpt(src, m)
          /\ \A f \in DOMAIN r.in_flight : m < f /\ f \in Nat
      BY <3>1, <1>2 DEF AckCommits, Tracked
    <3>3. \A f \in DOMAIN r.in_flight : ~(f <= m)
      BY <3>2
    <3>4. \A n \in 1 .. Ckpt(src, m) : <<s, n>> \in done
      BY ONLY <3>2, <3>3, <1>5
    <3> QED BY ONLY <3>2, <3>4
  <2> QED BY <1>3, <2>1, <2>2
<1>8. Covers(r, s, done, owns)
  BY <1>6, <1>7 DEF Covers
<1>9. \A n \in Nat : Accounted(src, s, done, owns, n) => Accounted(r, s, done, owns, n)
  BY <1>3 DEF Accounted
<1> QED BY <1>8, <1>9 DEF r

-----------------------------------------------------------------------------
(* The inductive invariant, layer by layer.                                *)

PCs == {"select", "drain", "join", "pool_drain", "ack_drain", "stopped"}

(* Types.  An ack is an item with the outcome the pool gave it.            *)
Acks == [id : BatchIds, batch : Batches, outcome : {"Delivered", "Rejected", "Held"}]

InputTypes ==
    /\ channel \in Seq(Batches) /\ Len(channel) <= ChannelCapacity
    /\ read \in [Sources -> Checkpoints]
    /\ flushed \in [Sources -> Checkpoints]
    /\ DOMAIN outbox = Inputs /\ DOMAIN io_queue = Inputs
    /\ \A i \in Inputs : /\ outbox[i] \in BatchesOf(i) \cup {None}
                         /\ io_queue[i] \in Seq(ChunksOf(i))
                         /\ Len(io_queue[i]) <= IoQueueCapacity
    /\ io_done \subseteq Inputs /\ cpu_done \subseteq Inputs

CoordinatorTypes ==
    /\ pc \in PCs
    /\ shutdown \in BOOLEAN /\ rx_open \in BOOLEAN /\ forced \in BOOLEAN
    /\ next_id \in 0 .. MaxBatches
    /\ tracking \in [Sources -> SourceTracking]
    /\ store \in [Sources -> Checkpoints]
    /\ durable \in [Sources -> Checkpoints]

PoolTypes ==
    /\ submitting \in Items \cup {None}
    /\ DOMAIN pool \subseteq BatchIds /\ IsFiniteSet(DOMAIN pool)
    /\ Cardinality(DOMAIN pool) <= PoolCapacity
    /\ \A id \in DOMAIN pool : pool[id] \in Batches
    /\ acks \in Seq(Acks)
    /\ parked \subseteq BatchIds

RunTypes == InputTypes /\ CoordinatorTypes /\ PoolTypes

(* Every item has one place.                                               *)
OnePlace ==
    /\ submitting # None => /\ submitting.id \notin DOMAIN pool
                            /\ \A k \in DOMAIN acks : acks[k].id # submitting.id
    /\ \A k \in DOMAIN acks : acks[k].id \notin DOMAIN pool
    /\ \A j, k \in DOMAIN acks : j # k => acks[j].id # acks[k].id

(* The items that will be answered, whatever their place.                  *)
Live(id, batch) ==
    \/ submitting # None /\ submitting.id = id /\ submitting.batch = batch
    \/ id \in DOMAIN pool /\ pool[id] = batch
    \/ \E k \in DOMAIN acks : acks[k].id = id /\ acks[k].batch = batch

InFlight(s) == DOMAIN tracking[s].in_flight

(* An item that will be answered has tickets in flight for all its         *)
(* sources; a ticket in flight belongs to such an item or is parked, and   *)
(* a parked id keeps a ticket in flight.                                   *)
LiveInFlight ==
    \A id \in BatchIds, batch \in Batches : Live(id, batch) =>
        /\ id < next_id /\ id \notin parked
        /\ DOMAIN batch.to # {}
        /\ \A s \in DOMAIN batch.to : id \in InFlight(s)

TicketsLive ==
    \A s \in Sources : \A id \in InFlight(s) :
        \/ id \in parked
        \/ \E batch \in Batches : Live(id, batch) /\ s \in DOMAIN batch.to

ParkedInFlight ==
    \A id \in parked : id < next_id /\ \E s \in Sources : id \in InFlight(s)

(* Channel and queues hold batches with units of some source.              *)
NothingEmpty ==
    /\ \A k \in DOMAIN channel : DOMAIN channel[k].to # {}
    /\ \A i \in Inputs : /\ outbox[i] # None => SourcesOf(i) # {}
                         /\ io_queue[i] # <<>> => SourcesOf(i) # {}

Tickets == LiveInFlight /\ TicketsLive /\ ParkedInFlight

(* Order.  Checkpoints ascend from the disk over the store and the machine *)
(* to the channel, the CPU worker, its queue and the I/O worker's buffer.  *)
SourceOrder ==
    \A s \in Sources : /\ Ascends(tracking[s], next_id, store[s])
                       /\ durable[s] <= store[s]

Top(s, c) == Within(tracking[s], c) /\ store[s] <= c

ChannelOrder ==
    \A k \in DOMAIN channel : \A s \in DOMAIN channel[k].to :
        /\ channel[k].from[s] <= channel[k].to[s]
        /\ Top(s, channel[k].from[s])
        /\ \A j \in DOMAIN channel : j < k /\ s \in DOMAIN channel[j].to =>
               channel[j].to[s] <= channel[k].from[s]

(* c is not below a checkpoint of the source in the channel.               *)
PastChannel(s, c) ==
    /\ Top(s, c)
    /\ \A k \in DOMAIN channel : s \in DOMAIN channel[k].to => channel[k].to[s] <= c

OutboxOrder ==
    \A i \in Inputs : outbox[i] # None =>
        \A s \in SourcesOf(i) : /\ outbox[i].from[s] <= outbox[i].to[s]
                                /\ PastChannel(s, outbox[i].from[s])

(* ... nor below one in the CPU worker.                                    *)
PastOutbox(i, s, c) ==
    /\ PastChannel(s, c)
    /\ outbox[i] # None => outbox[i].to[s] <= c

QueueOrder ==
    \A i \in Inputs : \A k \in DOMAIN io_queue[i] : \A s \in SourcesOf(i) :
        /\ io_queue[i][k].from[s] <= io_queue[i][k].to[s]
        /\ PastOutbox(i, s, io_queue[i][k].from[s])
        /\ \A j \in DOMAIN io_queue[i] :
               j < k => io_queue[i][j].to[s] <= io_queue[i][k].from[s]

BufferOrder ==
    \A i \in Inputs : \A s \in SourcesOf(i) :
        /\ PastOutbox(i, s, flushed[s])
        /\ \A k \in DOMAIN io_queue[i] : io_queue[i][k].to[s] <= flushed[s]
        /\ flushed[s] <= read[s]

InputOrder == ChannelOrder /\ OutboxOrder /\ QueueOrder /\ BufferOrder

(* Coverage.                                                               *)
Done == settled \cup skipped

Owns == {t \in BatchIds \X Sources \X Nat :
            \A batch \in Batches : Live(t[1], batch) => <<t[2], t[3]>> \in Units(batch)}

SourceCover ==
    \A s \in Sources : /\ Covers(tracking[s], s, Done, Owns)
                       /\ \A n \in 1 .. store[s] : <<s, n>> \in Done
                       /\ \A n \in 1 .. durable[s] : <<s, n>> \in Done

AcksSettled ==
    \A k \in DOMAIN acks : acks[k].outcome # "Held" => Units(acks[k].batch) \subseteq settled

(* A unit that has gone through submit_batch, or was dropped before.       *)
Passed(s, n) ==
    \/ <<s, n>> \in skipped
    \/ /\ Reached(tracking[s], store[s], n)
       /\ Accounted(tracking[s], s, Done, Owns, n)

InChannel(s, n) == \E k \in DOMAIN channel : <<s, n>> \in Units(channel[k])

InWorker(i, s, n) ==
    \/ outbox[i] # None /\ <<s, n>> \in Units(outbox[i])
    \/ \E k \in DOMAIN io_queue[i] : <<s, n>> \in Units(io_queue[i][k])

(* While the receiver exists no unit is lost between the I/O worker and    *)
(* the coordinator.                                                        *)
NothingLost ==
    rx_open => \A i \in Inputs : \A s \in SourcesOf(i) : \A n \in 1 .. flushed[s] :
                   Passed(s, n) \/ InChannel(s, n) \/ InWorker(i, s, n)

(* The end of run_async.                                                   *)
Places ==
    /\ pc \in {"select", "drain"} => rx_open
    /\ pc \notin {"select", "drain"} => submitting = None
    /\ pc \in {"ack_drain", "stopped"} => DOMAIN pool = {}
    /\ pc = "stopped" => acks = <<>>

WorkersExit ==
    /\ \A i \in cpu_done : outbox[i] = None /\ io_queue[i] = <<>>
    /\ rx_open => cpu_done \subseteq io_done
    /\ rx_open => \A i \in io_done : \A s \in SourcesOf(i) : read[s] = flushed[s]

DrainEnds ==
    rx_open /\ pc \notin {"select", "drain"} =>
        (channel = <<>> /\ cpu_done = Inputs) \/ parked # {}

CleanStop ==
    pc = "stopped" /\ ~forced =>
        \A s \in Sources : /\ InFlight(s) = {} /\ DOMAIN tracking[s].pending_acks = {}
                           /\ tracking[s].committed \in {None, store[s]}

(* The machine with the items it waits for.                                *)
MachineOK == Tickets /\ SourceOrder /\ SourceCover

RunInv ==
    /\ RunTypes
    /\ OnePlace /\ AcksSettled /\ MachineOK
    /\ NothingEmpty /\ InputOrder /\ NothingLost
    /\ Places /\ WorkersExit /\ DrainEnds /\ CleanStop

-----------------------------------------------------------------------------
(* Batches and their units.                                                *)

(* Checkpoints are numbers of units.                                       *)
LEMMA CheckpointsAreNat == Checkpoints \subseteq Nat
  BY RunAssumptions

(* A chunk of an input has a from and a to for each of its sources.        *)
LEMMA ChunkFacts ==
  ASSUME NEW i \in Inputs, NEW chunk \in ChunksOf(i)
  PROVE  /\ DOMAIN chunk.from = SourcesOf(i) /\ DOMAIN chunk.to = SourcesOf(i)
         /\ \A s \in SourcesOf(i) : chunk.from[s] \in Checkpoints /\ chunk.to[s] \in Checkpoints
         /\ \A s \in SourcesOf(i) : chunk.from[s] \in Nat /\ chunk.to[s] \in Nat
  BY CheckpointsAreNat DEF ChunksOf

(* So does a batch of the input.                                           *)
LEMMA BatchOfFacts ==
  ASSUME NEW i \in Inputs, NEW batch \in BatchesOf(i)
  PROVE  /\ DOMAIN batch.from = SourcesOf(i) /\ DOMAIN batch.to = SourcesOf(i)
         /\ \A s \in SourcesOf(i) : batch.from[s] \in Checkpoints /\ batch.to[s] \in Checkpoints
         /\ \A s \in SourcesOf(i) : batch.from[s] \in Nat /\ batch.to[s] \in Nat
         /\ batch.rows \in BOOLEAN
         /\ batch \in Batches
  BY CheckpointsAreNat DEF BatchesOf, Batches

(* A batch is a batch of some input.                                       *)
LEMMA BatchFacts ==
  ASSUME NEW batch \in Batches
  PROVE  /\ DOMAIN batch.to \subseteq Sources
         /\ \A s \in DOMAIN batch.to :
                /\ batch.from[s] \in Nat
                /\ batch.to[s] \in Nat
                /\ batch.to[s] \in Checkpoints
         /\ batch.rows \in BOOLEAN
         /\ batch # None
<1>1. PICK i \in Inputs : batch \in BatchesOf(i)
  BY DEF Batches
<1>2. SourcesOf(i) \subseteq Sources
  BY DEF SourcesOf
<1> QED BY <1>1, <1>2, BatchOfFacts, OptionAssumption

(* The units of a batch or chunk.                                          *)
LEMMA UnitsOf ==
  ASSUME NEW batch, NEW s, NEW n
  PROVE  <<s, n>> \in Units(batch) <=>
            s \in DOMAIN batch.to /\ n \in (batch.from[s] + 1) .. batch.to[s]
  BY DEF Units

-----------------------------------------------------------------------------
(* What the handling of a batch's tickets does to every source.            *)

(* What ack_all_tickets may rely on.                                       *)
Ordered(trk, next, st) ==
    /\ trk \in [Sources -> SourceTracking]
    /\ \A s \in Sources : st[s] \in Nat /\ Ascends(trk[s], next, st[s])

(* Applying the acks of a batch whose tickets are all in flight.           *)
LEMMA ApplyAckAllEffect ==
  ASSUME NEW trk, NEW next \in Nat, NEW st, Ordered(trk, next, st),
         NEW id, NEW batch \in Batches,
         \A s \in DOMAIN batch.to : id \in DOMAIN trk[s].in_flight,
         NEW s \in Sources
  PROVE  /\ ApplyAckAll(trk, id, batch)[s] \in SourceTracking
         /\ Ascends(ApplyAckAll(trk, id, batch)[s], next, st[s])
         /\ \A c \in Nat : Within(trk[s], c) => Within(ApplyAckAll(trk, id, batch)[s], c)
         /\ \A n \in Nat : Reached(trk[s], st[s], n)
                             => Reached(ApplyAckAll(trk, id, batch)[s], st[s], n)
         /\ s \in DOMAIN batch.to =>
              DOMAIN ApplyAckAll(trk, id, batch)[s].in_flight = DOMAIN trk[s].in_flight \ {id}
         /\ s \notin DOMAIN batch.to =>
              DOMAIN ApplyAckAll(trk, id, batch)[s].in_flight = DOMAIN trk[s].in_flight
         /\ s \in DOMAIN batch.to
              /\ id \notin DOMAIN ApplyAckAll(trk, id, batch)[s].pending_acks =>
                   /\ ApplyAckAll(trk, id, batch)[s].committed \in Checkpoints
                   /\ ApplyAckAll(trk, id, batch)[s].committed # None
                   /\ st[s] <= ApplyAckAll(trk, id, batch)[s].committed
<1> DEFINE r == ApplyAckAll(trk, id, batch)[s]
<1>1. /\ trk[s] \in SourceTracking /\ Exclusive(trk[s])
      /\ Ascends(trk[s], next, st[s])
      /\ st[s] \in Nat
  BY DEF Ordered, Ascends
<1>2. CASE s \in DOMAIN batch.to
  <2>1. id \in DOMAIN trk[s].in_flight
    BY <1>2
  <2>2. r = RecordAckAndAdvance(trk[s], id)
    BY <1>2 DEF ApplyAckAll
  <2> HIDE DEF r
  <2>3. r \in SourceTracking /\ DOMAIN r.in_flight = DOMAIN trk[s].in_flight \ {id}
    BY <1>1, <2>1, <2>2, AckShape
  <2>4. /\ Ascends(r, next, st[s])
        /\ \A c \in Nat : Within(trk[s], c) => Within(r, c)
        /\ \A n \in Nat : Reached(trk[s], st[s], n) => Reached(r, st[s], n)
        /\ id \notin DOMAIN r.pending_acks => /\ r.committed \in Checkpoints
                                              /\ r.committed # None
                                              /\ st[s] <= r.committed
    BY <1>1, <2>1, <2>2, AckAscends, CheckpointsAreNat
  <2> QED BY <1>2, <2>3, <2>4 DEF r
<1>3. CASE s \notin DOMAIN batch.to
  <2>1. r = trk[s]
    BY <1>3 DEF ApplyAckAll
  <2> HIDE DEF r
  <2> QED BY <1>1, <1>3, <2>1 DEF r
<1> QED BY <1>2, <1>3

(* The same acks keep coverage, if the units of the batch are done.        *)
LEMMA ApplyAckAllCovers ==
  ASSUME NEW trk, NEW next \in Nat, NEW st, Ordered(trk, next, st),
         NEW id, NEW batch \in Batches,
         \A s \in DOMAIN batch.to : id \in DOMAIN trk[s].in_flight,
         NEW done, NEW owns, NEW s \in Sources, Covers(trk[s], s, done, owns),
         s \in DOMAIN batch.to => \A n \in Nat : <<id, s, n>> \in owns => <<s, n>> \in done
  PROVE  /\ Covers(ApplyAckAll(trk, id, batch)[s], s, done, owns)
         /\ \A n \in Nat : Accounted(trk[s], s, done, owns, n)
                => Accounted(ApplyAckAll(trk, id, batch)[s], s, done, owns, n)
<1> DEFINE r == ApplyAckAll(trk, id, batch)[s]
<1>1. Ascends(trk[s], next, st[s]) /\ st[s] \in Nat
  BY DEF Ordered
<1>2. CASE s \in DOMAIN batch.to
  <2>1. id \in DOMAIN trk[s].in_flight
    BY <1>2
  <2>2. r = RecordAckAndAdvance(trk[s], id)
    BY <1>2 DEF ApplyAckAll
  <2> HIDE DEF r
  <2>3. /\ Covers(r, s, done, owns)
        /\ \A n \in Nat : Accounted(trk[s], s, done, owns, n) => Accounted(r, s, done, owns, n)
    BY <1>1, <1>2, <2>1, <2>2, AckCovers, CheckpointsAreNat
  <2> QED BY <2>3 DEF r
<1>3. CASE s \notin DOMAIN batch.to
  <2>1. r = trk[s]
    BY <1>3 DEF ApplyAckAll
  <2> HIDE DEF r
  <2> QED BY <2>1 DEF r
<1> QED BY <1>2, <1>3

(* The store may only be told what the machine has committed, and the disk *)
(* only what the store has.                                                *)
Persists(st, dur) ==
    /\ store' \in [Sources -> Checkpoints]
    /\ durable' \in [Sources -> Checkpoints]
    /\ \A s \in Sources : /\ store'[s] = st[s] \/ /\ tracking'[s].committed # None
                                                  /\ store'[s] = tracking'[s].committed
                          /\ st[s] <= store'[s]
                          /\ durable'[s] = dur[s] \/ durable'[s] = store'[s]
                          /\ durable'[s] <= store'[s]
                          /\ dur[s] <= durable'[s]

(* ack_all_tickets for a batch whose tickets are all in flight.            *)
LEMMA AckAllTicketsEffect ==
  ASSUME NEW trk, NEW next \in Nat, Ordered(trk, next, store),
         store \in [Sources -> Checkpoints], durable \in [Sources -> Checkpoints],
         \A s \in Sources : durable[s] <= store[s],
         NEW id, NEW batch \in Batches,
         \A s \in DOMAIN batch.to : id \in DOMAIN trk[s].in_flight,
         AckAllTickets(trk, id, batch)
  PROVE  /\ tracking' = ApplyAckAll(trk, id, batch)
         /\ Ordered(tracking', next, store')
         /\ Persists(store, durable)
         /\ parked' = parked
         /\ \A s \in Sources : \A c \in Nat :
                Within(trk[s], c) /\ store[s] <= c => Top(s, c)'
         /\ \A s \in Sources : \A n \in Nat :
                Reached(trk[s], store[s], n) => Reached(tracking'[s], store'[s], n)
<1> DEFINE new      == ApplyAckAll(trk, id, batch)
           advanced == {s \in DOMAIN batch.to : id \notin DOMAIN new[s].pending_acks}
           updated  == [s \in Sources |-> IF s \in advanced THEN new[s].committed ELSE store[s]]
<1>1. /\ tracking' = new
      /\ store' = updated
      /\ durable' \in {durable, updated}
      /\ parked' = parked
  BY DEF AckAllTickets, FlushResults
<1>2. new = [s \in Sources |-> new[s]]
  BY DEF ApplyAckAll
<1>3. ASSUME NEW s \in Sources
      PROVE  /\ new[s] \in SourceTracking
             /\ Ascends(new[s], next, store[s])
             /\ \A c \in Nat : Within(trk[s], c) => Within(new[s], c)
             /\ \A n \in Nat : Reached(trk[s], store[s], n) => Reached(new[s], store[s], n)
             /\ s \in advanced => /\ new[s].committed \in Checkpoints
                                  /\ new[s].committed # None
                                  /\ store[s] <= new[s].committed
  BY ApplyAckAllEffect, Zenon
<1> HIDE DEF new
<1>4. updated \in [Sources -> Checkpoints]
  BY <1>3
<1>5. \A s \in Sources : /\ s \in advanced => updated[s] = new[s].committed
                         /\ s \notin advanced => updated[s] = store[s]
  OBVIOUS
<1> HIDE DEF updated, advanced
<1>6. ASSUME NEW s \in Sources
      PROVE  /\ store[s] \in Nat /\ updated[s] \in Nat /\ durable[s] \in Nat
             /\ store[s] <= updated[s]
             /\ \/ updated[s] = store[s]
                \/ new[s].committed # None /\ updated[s] = new[s].committed
             /\ Ascends(new[s], next, updated[s])
             /\ \A n \in Nat : Reached(trk[s], store[s], n) => Reached(new[s], updated[s], n)
             /\ \A c \in Nat : Within(trk[s], c) /\ store[s] <= c
                                 => Within(new[s], c) /\ updated[s] <= c
  <2>1. store[s] \in Nat /\ updated[s] \in Nat /\ durable[s] \in Nat
    BY <1>4, CheckpointsAreNat
  <2>2. CASE s \in advanced
    <3>1. updated[s] = new[s].committed /\ new[s].committed # None
      BY <2>2, <1>3, <1>5
    <3>2. Ascends(new[s], next, store[s])
      BY <1>3
    <3>3. /\ Ascends(new[s], next, updated[s])
          /\ \A n \in Nat : Reached(new[s], store[s], n) => Reached(new[s], updated[s], n)
      BY <2>1, <3>1, <3>2, StoreAscends, CheckpointsAreNat
    <3>4. \A c \in Nat : Within(new[s], c) => updated[s] <= c
      BY <3>1 DEF Within
    <3> QED BY <2>1, <2>2, <3>1, <3>3, <3>4, <1>3
  <2>3. CASE s \notin advanced
    <3>1. updated[s] = store[s]
      BY <2>3, <1>5
    <3>2. store[s] <= updated[s]
      BY <2>1, <3>1
    <3>3. /\ Ascends(new[s], next, updated[s])
          /\ \A n \in Nat : Reached(trk[s], store[s], n) => Reached(new[s], updated[s], n)
          /\ \A c \in Nat : Within(trk[s], c) => Within(new[s], c)
      BY <3>1, <1>3
    <3>4. \A c \in Nat : Within(trk[s], c) /\ store[s] <= c
                           => Within(new[s], c) /\ updated[s] <= c
      BY <3>1, <3>3
    <3> QED BY <2>1, <3>1, <3>2, <3>3, <3>4
  <2> QED BY <2>2, <2>3
<1>7. Ordered(tracking', next, store')
  BY <1>1, <1>2, <1>3, <1>6 DEF Ordered
<1>8. Persists(store, durable)
  <2>1. \A s \in Sources : durable[s] <= updated[s]
    BY <1>6
  <2>2. store' = updated /\ \A s \in Sources : tracking'[s] = new[s]
    BY <1>1
  <2>3. CASE durable' = durable
    BY <2>1, <2>2, <2>3, <1>4, <1>6 DEF Persists
  <2>4. CASE durable' = updated
    BY <2>1, <2>2, <2>4, <1>4, <1>6 DEF Persists
  <2> QED BY <2>3, <2>4, <1>1
<1>9. \A s \in Sources : \A c \in Nat : Within(trk[s], c) /\ store[s] <= c => Top(s, c)'
  BY <1>1, <1>6 DEF Top
<1>10. \A s \in Sources : \A n \in Nat :
           Reached(trk[s], store[s], n) => Reached(tracking'[s], store'[s], n)
  BY <1>1, <1>6
<1> QED BY <1>1, <1>7, <1>8, <1>9, <1>10 DEF new

(* begin_send of the tickets of a batch, with checkpoints that are not     *)
(* below what is tracked and stored.                                       *)
LEMMA BeginSendAllEffect ==
  ASSUME NEW st, next_id \in BatchIds, Ordered(tracking, next_id, st),
         NEW batch \in Batches,
         \A s \in DOMAIN batch.to : Within(tracking[s], batch.to[s]) /\ st[s] <= batch.to[s]
  PROVE  /\ Ordered(BeginSendAll(next_id, batch), next_id + 1, st)
         /\ \A s \in Sources :
              /\ DOMAIN BeginSendAll(next_id, batch)[s].in_flight =
                    IF s \in DOMAIN batch.to THEN InFlight(s) \cup {next_id} ELSE InFlight(s)
              /\ \A c \in Nat : Within(tracking[s], c) /\ (s \in DOMAIN batch.to => batch.to[s] <= c)
                                  => Within(BeginSendAll(next_id, batch)[s], c)
              /\ \A n \in Nat : Reached(tracking[s], st[s], n)
                                  => Reached(BeginSendAll(next_id, batch)[s], st[s], n)
              /\ \A n \in Nat : s \in DOMAIN batch.to /\ n <= batch.to[s]
                                  => Reached(BeginSendAll(next_id, batch)[s], st[s], n)
<1> DEFINE new == BeginSendAll(next_id, batch)
<1>1. new = [s \in Sources |-> new[s]]
  BY DEF BeginSendAll
<1>2. ASSUME NEW s \in Sources
      PROVE  /\ new[s] \in SourceTracking
             /\ Ascends(new[s], next_id + 1, st[s])
             /\ DOMAIN new[s].in_flight =
                   IF s \in DOMAIN batch.to THEN InFlight(s) \cup {next_id} ELSE InFlight(s)
             /\ \A c \in Nat : Within(tracking[s], c) /\ (s \in DOMAIN batch.to => batch.to[s] <= c)
                                 => Within(new[s], c)
             /\ \A n \in Nat : Reached(tracking[s], st[s], n) => Reached(new[s], st[s], n)
             /\ \A n \in Nat : s \in DOMAIN batch.to /\ n <= batch.to[s]
                                 => Reached(new[s], st[s], n)
  <2>1. /\ tracking[s] \in SourceTracking /\ Exclusive(tracking[s])
        /\ Ascends(tracking[s], next_id, st[s])
        /\ st[s] \in Nat /\ next_id \in Nat
    BY TrackingAssumptions DEF Ordered, Ascends, BatchIds
  <2>2. \A x \in Tracked(tracking[s]) : x \in Nat /\ Ckpt(tracking[s], x) \in Nat
    BY <2>1, TrackedTypes, CheckpointsAreNat
  <2>3. next_id \notin Tracked(tracking[s])
    BY <2>1, <2>2 DEF Ascends
  <2>4. CASE s \in DOMAIN batch.to
    <3>1. batch.to[s] \in Checkpoints /\ batch.to[s] \in Nat
      BY <2>4, BatchFacts
    <3>2. new[s] = Track(tracking[s], next_id, batch.to[s])
      BY <2>4 DEF BeginSendAll
    <3> HIDE DEF new
    <3>3. /\ new[s] \in SourceTracking
          /\ DOMAIN new[s].in_flight = InFlight(s) \cup {next_id}
          /\ Tracked(new[s]) = Tracked(tracking[s]) \cup {next_id}
          /\ Ckpt(new[s], next_id) = batch.to[s]
          /\ \A x \in Tracked(tracking[s]) : Ckpt(new[s], x) = Ckpt(tracking[s], x)
          /\ new[s].committed = tracking[s].committed
      BY <2>1, <2>3, <3>1, <3>2, TrackShape DEF InFlight
    <3>4. /\ Ascends(new[s], next_id + 1, st[s])
          /\ \A n \in Nat : Reached(tracking[s], st[s], n) => Reached(new[s], st[s], n)
          /\ \A n \in Nat : n <= batch.to[s] => Reached(new[s], st[s], n)
      BY <2>1, <2>4, <3>1, <3>2, TrackAscends, CheckpointsAreNat
    <3>5. \A c \in Nat : Within(tracking[s], c) /\ batch.to[s] <= c => Within(new[s], c)
      BY <3>3 DEF Within
    <3> QED BY <2>4, <3>3, <3>4, <3>5
  <2>5. CASE s \notin DOMAIN batch.to
    <3>1. new[s] = tracking[s]
      BY <2>5 DEF BeginSendAll
    <3> HIDE DEF new
    <3>2. \A x \in Tracked(tracking[s]) : x < next_id + 1
      BY <2>1, <2>2 DEF Ascends
    <3>3. Ascends(new[s], next_id + 1, st[s])
      BY <2>1, <3>1, <3>2 DEF Ascends
    <3> QED BY <2>1, <2>5, <3>1, <3>3 DEF InFlight
  <2> QED BY <2>4, <2>5
<1> HIDE DEF new
<1>3. Ordered(new, next_id + 1, st)
  BY <1>1, <1>2 DEF Ordered
<1> QED BY <1>2, <1>3 DEF new

-----------------------------------------------------------------------------
(* The steps of the coordinator and the pool, by what they do to the       *)
(* items and tickets.                                                      *)

(* The items with an id in gone are no longer answered, the others are.    *)
Keeps(gone) ==
    \A id \in BatchIds, batch \in Batches :
        Live(id, batch)' <=> Live(id, batch) /\ id \notin gone

Grows == settled \subseteq settled' /\ skipped \subseteq skipped'

(* What the input threads may rely on: no unit is forgotten, and no        *)
(* checkpoint of a source passes one that it had not passed.               *)
Evolves ==
    /\ \A s \in Sources : \A n \in Nat : Passed(s, n) => Passed(s, n)'
    /\ \A s \in Sources : \A c \in Nat : Top(s, c) => Top(s, c)'

(* What the disk has stays: no checkpoint on it moves backwards.           *)
DurableGrows == \A s \in Sources : durable[s] <= durable'[s]

(* Membership in the ownership relation, before and after a step.          *)
LEMMA OwnsMember ==
  ASSUME NEW f \in BatchIds, NEW s \in Sources, NEW n \in Nat
  PROVE  /\ <<f, s, n>> \in Owns <=>
              \A batch \in Batches : Live(f, batch) => <<s, n>> \in Units(batch)
         /\ <<f, s, n>> \in Owns' <=>
              \A batch \in Batches : Live(f, batch)' => <<s, n>> \in Units(batch)
  BY DEF Owns

(* Units that the checkpoints cover stay covered when the store takes over *)
(* a committed checkpoint and the disk takes over the store.               *)
LEMMA PersistsCovers ==
  ASSUME SourceCover, store \in [Sources -> Checkpoints], durable \in [Sources -> Checkpoints],
         Grows, NEW s \in Sources, Persists(store, durable),
         Covers(tracking'[s], s, Done', Owns')
  PROVE  /\ \A n \in 1 .. store'[s] : <<s, n>> \in Done'
         /\ \A n \in 1 .. durable'[s] : <<s, n>> \in Done'
<1>1. Done \subseteq Done'
  BY DEF Grows, Done
<1>2. \A n \in 1 .. store'[s] : <<s, n>> \in Done'
  BY <1>1 DEF SourceCover, Persists, Covers
<1> QED BY <1>1, <1>2 DEF SourceCover, Persists

(* A step that leaves the machine alone and parks some items.              *)
LEMMA ParkStep ==
  ASSUME RunTypes, MachineOK, Grows, NEW ids \in SUBSET BatchIds, Keeps(ids),
         \A id \in ids : \E batch \in Batches : Live(id, batch),
         parked' = parked \cup ids,
         UNCHANGED <<next_id, tracking, store>>, durable' \in FlushResults(store)
  PROVE  MachineOK' /\ Evolves
<1>1. /\ next_id' = next_id /\ tracking' = tracking /\ store' = store
      /\ \A s \in Sources : InFlight(s)' = InFlight(s)
  BY DEF InFlight
<1>2. LiveInFlight'
  <2> SUFFICES ASSUME NEW id \in BatchIds, NEW batch \in Batches, Live(id, batch)'
               PROVE  /\ id < next_id' /\ id \notin parked'
                      /\ DOMAIN batch.to # {}
                      /\ \A s \in DOMAIN batch.to : id \in InFlight(s)'
    BY DEF LiveInFlight
  <2>1. Live(id, batch) /\ id \notin ids
    BY DEF Keeps
  <2>2. /\ id < next_id /\ id \notin parked
        /\ DOMAIN batch.to # {}
        /\ \A s \in DOMAIN batch.to : id \in InFlight(s)
    BY <2>1 DEF MachineOK, Tickets, LiveInFlight
  <2>3. DOMAIN batch.to \subseteq Sources
    BY BatchFacts
  <2> QED BY <1>1, <2>1, <2>2, <2>3
<1>3. TicketsLive'
  <2> SUFFICES ASSUME NEW s \in Sources, NEW id \in InFlight(s), id \notin parked'
               PROVE  \E batch \in Batches : Live(id, batch)' /\ s \in DOMAIN batch.to
    BY <1>1 DEF TicketsLive
  <2>1. PICK batch \in Batches : Live(id, batch) /\ s \in DOMAIN batch.to
    BY DEF MachineOK, Tickets, TicketsLive
  <2>2. id \in BatchIds
    BY BatchMapElements DEF InFlight, RunTypes, CoordinatorTypes, SourceTracking
  <2> QED BY <2>1, <2>2 DEF Keeps
<1>4. ParkedInFlight'
  <2>1. \A id \in parked : id < next_id /\ \E s \in Sources : id \in InFlight(s)
    BY DEF MachineOK, Tickets, ParkedInFlight
  <2>2. \A id \in ids : id < next_id /\ \E s \in Sources : id \in InFlight(s)
    <3> TAKE id \in ids
    <3>1. PICK batch \in Batches : Live(id, batch)
      OBVIOUS
    <3>2. /\ id < next_id /\ DOMAIN batch.to # {} /\ DOMAIN batch.to \subseteq Sources
          /\ \A s \in DOMAIN batch.to : id \in InFlight(s)
      BY <3>1, BatchFacts DEF MachineOK, Tickets, LiveInFlight
    <3> QED BY <3>2
  <2> QED BY <1>1, <2>1, <2>2 DEF ParkedInFlight
<1>5. /\ store \in [Sources -> Checkpoints] /\ durable \in [Sources -> Checkpoints]
      /\ \A s \in Sources : store[s] \in Nat /\ durable[s] \in Nat /\ durable[s] <= store[s]
  BY CheckpointsAreNat DEF RunTypes, CoordinatorTypes, MachineOK, SourceOrder
<1>6. Persists(store, durable)
  <2>1. CASE durable' = durable
    BY <2>1, <1>1, <1>5 DEF Persists
  <2>2. CASE durable' = store
    BY <2>2, <1>1, <1>5 DEF Persists
  <2> QED BY <2>1, <2>2 DEF FlushResults
<1>7. SourceOrder'
  BY <1>1, <1>6 DEF MachineOK, SourceOrder, Persists
<1>8. ASSUME NEW s \in Sources
      PROVE  /\ Covers(tracking'[s], s, Done', Owns')
             /\ \A n \in Nat : Accounted(tracking[s], s, Done, Owns, n)
                                 => Accounted(tracking'[s], s, Done', Owns', n)
  <2>1. tracking[s] \in SourceTracking /\ Covers(tracking[s], s, Done, Owns)
    BY DEF RunTypes, CoordinatorTypes, MachineOK, SourceCover
  <2>2. Done \subseteq Done'
    BY DEF Grows, Done
  <2>3. ASSUME NEW f \in DOMAIN tracking[s].in_flight, NEW n \in Nat, <<f, s, n>> \in Owns
        PROVE  <<f, s, n>> \in Owns'
    <3>1. f \in BatchIds
      BY <2>1, BatchMapElements DEF SourceTracking
    <3> QED BY <2>3, <3>1, OwnsMember DEF Keeps
  <2>4. /\ Covers(tracking[s], s, Done', Owns')
        /\ \A n \in Nat : Accounted(tracking[s], s, Done, Owns, n)
                            => Accounted(tracking[s], s, Done', Owns', n)
    BY <2>1, <2>2, <2>3, CoversMonotone, CheckpointsAreNat
  <2> QED BY <1>1, <2>4
<1>9. SourceCover'
  BY <1>5, <1>6, <1>8, PersistsCovers DEF MachineOK, SourceCover
<1>10. Evolves
  BY <1>1, <1>8 DEF Evolves, Passed, Top, Grows
<1> QED BY <1>2, <1>3, <1>4, <1>7, <1>9, <1>10 DEF MachineOK, Tickets

(* The items of an id are one item.                                        *)
LEMMA LiveIsUnique ==
  ASSUME OnePlace, NEW id, NEW b, NEW c, Live(id, b), Live(id, c)
  PROVE  b = c
  BY DEF OnePlace, Live

(* The state that the machine and the store are left in.                   *)
TrackingTypes ==
    /\ tracking \in [Sources -> SourceTracking]
    /\ store \in [Sources -> Checkpoints]
    /\ durable \in [Sources -> Checkpoints]

(* What the invariant says of the machine's checkpoints.                   *)
LEMMA MachineIsOrdered ==
  ASSUME RunTypes, MachineOK
  PROVE  /\ Ordered(tracking, next_id, store)
         /\ next_id \in Nat
         /\ store \in [Sources -> Checkpoints] /\ durable \in [Sources -> Checkpoints]
         /\ \A s \in Sources : durable[s] <= store[s]
<1>1. next_id \in Nat
  BY TrackingAssumptions DEF RunTypes, CoordinatorTypes
<1>2. /\ tracking \in [Sources -> SourceTracking]
      /\ store \in [Sources -> Checkpoints] /\ durable \in [Sources -> Checkpoints]
  BY DEF RunTypes, CoordinatorTypes
<1>3. \A s \in Sources : Ascends(tracking[s], next_id, store[s]) /\ durable[s] <= store[s]
  BY DEF MachineOK, SourceOrder
<1>4. \A s \in Sources : store[s] \in Nat
  BY <1>2, CheckpointsAreNat
<1> QED BY <1>1, <1>2, <1>3, <1>4 DEF Ordered

(* A step that acknowledges an item of which all units are done.           *)
LEMMA AckStep ==
  ASSUME RunTypes, OnePlace, MachineOK, Grows, NEW id \in BatchIds, NEW batch \in Batches,
         Live(id, batch), Keeps({id}), Units(batch) \subseteq settled,
         AckAllTickets(tracking, id, batch), next_id' = next_id
  PROVE  MachineOK' /\ Evolves /\ TrackingTypes' /\ DurableGrows
<1>1. /\ Ordered(tracking, next_id, store)
      /\ next_id \in Nat
      /\ store \in [Sources -> Checkpoints] /\ durable \in [Sources -> Checkpoints]
      /\ \A s \in Sources : durable[s] <= store[s]
  BY MachineIsOrdered
<1>2. /\ id < next_id /\ id \notin parked
      /\ \A s \in DOMAIN batch.to : id \in DOMAIN tracking[s].in_flight
  BY DEF MachineOK, Tickets, LiveInFlight, InFlight
<1>3. /\ tracking' = ApplyAckAll(tracking, id, batch)
      /\ Ordered(tracking', next_id, store')
      /\ Persists(store, durable)
      /\ parked' = parked
      /\ \A s \in Sources : \A c \in Nat :
             Within(tracking[s], c) /\ store[s] <= c => Top(s, c)'
      /\ \A s \in Sources : \A n \in Nat :
             Reached(tracking[s], store[s], n) => Reached(tracking'[s], store'[s], n)
  BY <1>1, <1>2, AckAllTicketsEffect
<1>4. \A s \in Sources : InFlight(s)' = IF s \in DOMAIN batch.to THEN InFlight(s) \ {id}
                                                                 ELSE InFlight(s)
  <2> TAKE s \in Sources
  <2>0. /\ Ordered(tracking, next_id, store) /\ next_id \in Nat
        /\ \A t \in DOMAIN batch.to : id \in DOMAIN tracking[t].in_flight
    BY <1>1, <1>2
  <2>1. LET r == ApplyAckAll(tracking, id, batch)
        IN  /\ s \in DOMAIN batch.to =>
                 DOMAIN r[s].in_flight = DOMAIN tracking[s].in_flight \ {id}
            /\ s \notin DOMAIN batch.to => DOMAIN r[s].in_flight = DOMAIN tracking[s].in_flight
    BY ONLY <2>0, s \in Sources, batch \in Batches, ApplyAckAllEffect
  <2> QED BY <1>3, <2>1 DEF InFlight
<1>5. LiveInFlight'
  <2> SUFFICES ASSUME NEW x \in BatchIds, NEW b \in Batches, Live(x, b)'
               PROVE  /\ x < next_id' /\ x \notin parked'
                      /\ DOMAIN b.to # {}
                      /\ \A s \in DOMAIN b.to : x \in InFlight(s)'
    BY DEF LiveInFlight
  <2>1. Live(x, b) /\ x # id
    BY DEF Keeps
  <2>2. /\ x < next_id /\ x \notin parked
        /\ DOMAIN b.to # {}
        /\ \A s \in DOMAIN b.to : x \in InFlight(s)
    BY <2>1 DEF MachineOK, Tickets, LiveInFlight
  <2>3. DOMAIN b.to \subseteq Sources
    BY BatchFacts
  <2> QED BY <1>3, <1>4, <2>1, <2>2, <2>3
<1>6. TicketsLive'
  <2> SUFFICES ASSUME NEW s \in Sources, NEW x \in InFlight(s)', x \notin parked'
               PROVE  \E b \in Batches : Live(x, b)' /\ s \in DOMAIN b.to
    BY DEF TicketsLive
  <2>1. x \in InFlight(s)
    BY <1>4
  <2>2. PICK b \in Batches : Live(x, b) /\ s \in DOMAIN b.to
    BY <1>3, <2>1 DEF MachineOK, Tickets, TicketsLive
  <2>3. x \in BatchIds
    BY <2>1, BatchMapElements DEF InFlight, RunTypes, CoordinatorTypes, SourceTracking
  <2>4. x # id
    <3> SUFFICES ASSUME x = id PROVE FALSE
      OBVIOUS
    <3>1. b = batch
      BY <2>2, LiveIsUnique
    <3> QED BY <1>4, <2>2, <3>1
  <2> QED BY <2>2, <2>3, <2>4 DEF Keeps
<1>7. ParkedInFlight'
  <2>1. \A x \in parked : x < next_id /\ \E s \in Sources : x \in InFlight(s)
    BY DEF MachineOK, Tickets, ParkedInFlight
  <2>2. \A x \in parked : x # id
    BY <1>2
  <2> QED BY <1>3, <1>4, <2>1, <2>2 DEF ParkedInFlight
<1>8. SourceOrder'
  BY <1>3 DEF SourceOrder, Ordered, Persists
<1>9. ASSUME NEW s \in Sources
      PROVE  /\ Covers(tracking'[s], s, Done', Owns')
             /\ \A n \in Nat : Accounted(tracking[s], s, Done, Owns, n)
                                 => Accounted(tracking'[s], s, Done', Owns', n)
  <2>1. Covers(tracking[s], s, Done, Owns)
    BY DEF MachineOK, SourceCover
  <2>2. s \in DOMAIN batch.to => \A n \in Nat : <<id, s, n>> \in Owns => <<s, n>> \in Done
    BY OwnsMember DEF Done
  <2>3. /\ Covers(tracking'[s], s, Done, Owns)
        /\ \A n \in Nat : Accounted(tracking[s], s, Done, Owns, n)
                            => Accounted(tracking'[s], s, Done, Owns, n)
    BY <1>1, <1>2, <1>3, <2>1, <2>2, ApplyAckAllCovers
  <2>4. tracking'[s] \in SourceTracking
    BY <1>3 DEF Ordered
  <2>5. Done \subseteq Done'
    BY DEF Grows, Done
  <2>6. ASSUME NEW f \in DOMAIN tracking'[s].in_flight, NEW n \in Nat, <<f, s, n>> \in Owns
        PROVE  <<f, s, n>> \in Owns'
    <3>1. f \in BatchIds
      BY <2>4, BatchMapElements DEF SourceTracking
    <3> QED BY <2>6, <3>1, OwnsMember DEF Keeps
  <2>7. /\ Covers(tracking'[s], s, Done', Owns')
        /\ \A n \in Nat : Accounted(tracking'[s], s, Done, Owns, n)
                            => Accounted(tracking'[s], s, Done', Owns', n)
    BY <2>3, <2>4, <2>5, <2>6, CoversMonotone, CheckpointsAreNat
  <2> QED BY <2>3, <2>7
<1>10. SourceCover'
  BY <1>1, <1>3, <1>9, PersistsCovers DEF MachineOK, SourceCover
<1>11. Evolves
  BY <1>3, <1>9 DEF Evolves, Passed, Top, Grows
<1>12. TrackingTypes' /\ DurableGrows
  BY <1>3 DEF TrackingTypes, Ordered, Persists, DurableGrows
<1> QED BY <1>5, <1>6, <1>7, <1>8, <1>10, <1>11, <1>12 DEF MachineOK, Tickets

-----------------------------------------------------------------------------
(* submit_batch.                                                           *)

(* The next batch of the channel: the machine has passed what is before    *)
(* it, and nothing beyond.                                                 *)
NextBatch(batch) ==
    /\ batch \in Batches
    /\ DOMAIN batch.to # {}
    /\ \A s \in DOMAIN batch.to : /\ Top(s, batch.to[s])
                                  /\ \A n \in 1 .. batch.from[s] : Passed(s, n)

(* What the rest of the channel and the input threads may rely on.         *)
Submits(batch) ==
    /\ \A s \in Sources : \A n \in Nat :
           Passed(s, n) \/ <<s, n>> \in Units(batch) => Passed(s, n)'
    /\ \A s \in Sources : \A c \in Nat :
           Top(s, c) /\ (s \in DOMAIN batch.to => batch.to[s] <= c) => Top(s, c)'

(* begin_send of the next batch keeps the coverage of every source, for    *)
(* owners that keep what they own and a new batch that owns its units.     *)
LEMMA BeginSendAllCovers ==
  ASSUME RunTypes, MachineOK, next_id < MaxBatches, NEW batch, NextBatch(batch),
         NEW done, NEW owns, Done \subseteq done,
         \A f \in BatchIds, s \in Sources, n \in Nat :
             f < next_id /\ <<f, s, n>> \in Owns => <<f, s, n>> \in owns,
         \A s \in Sources, n \in Nat : <<s, n>> \in Units(batch) => <<next_id, s, n>> \in owns,
         NEW s \in Sources
  PROVE  /\ Covers(BeginSendAll(next_id, batch)[s], s, done, owns)
         /\ \A n \in Nat : Accounted(tracking[s], s, Done, Owns, n)
                => Accounted(BeginSendAll(next_id, batch)[s], s, done, owns, n)
         /\ \A n \in Nat : <<s, n>> \in Units(batch)
                => Accounted(BeginSendAll(next_id, batch)[s], s, done, owns, n)
<1> DEFINE r == BeginSendAll(next_id, batch)[s]
<1>1. /\ Ordered(tracking, next_id, store) /\ next_id \in Nat
      /\ tracking[s] \in SourceTracking
      /\ Ascends(tracking[s], next_id, store[s]) /\ store[s] \in Nat
      /\ next_id \in BatchIds
  BY MachineIsOrdered, TrackingAssumptions DEF Ordered, BatchIds
<1>2. \A f \in DOMAIN tracking[s].in_flight : f \in BatchIds /\ f < next_id
  BY <1>1, TrackedTypes DEF Ascends, Tracked
<1>3. \A f \in DOMAIN tracking[s].in_flight : \A n \in Nat :
          <<f, s, n>> \in Owns => <<s, n>> \in done \/ <<f, s, n>> \in owns
  BY <1>2
<1>4. Covers(tracking[s], s, Done, Owns)
  BY DEF MachineOK, SourceCover
<1>5. /\ Covers(tracking[s], s, done, owns)
      /\ \A n \in Nat : Accounted(tracking[s], s, Done, Owns, n)
                          => Accounted(tracking[s], s, done, owns, n)
  BY <1>1, <1>3, <1>4, CoversMonotone, CheckpointsAreNat
<1>6. CASE s \in DOMAIN batch.to
  <2>1. batch.to[s] \in Checkpoints /\ batch.to[s] \in Nat /\ batch.from[s] \in Nat
    BY <1>6, BatchFacts DEF NextBatch
  <2>2. r = Track(tracking[s], next_id, batch.to[s])
    BY <1>6 DEF BeginSendAll
  <2> HIDE DEF r
  <2>3. \A n \in 1 .. batch.to[s] :
            Accounted(tracking[s], s, done, owns, n) \/ <<next_id, s, n>> \in owns
    <3> TAKE n \in 1 .. batch.to[s]
    <3>1. n \in Nat
      BY <2>1
    <3>2. CASE n \in 1 .. batch.from[s]
      <4>1. Passed(s, n)
        BY <1>6, <3>2 DEF NextBatch
      <4>2. Accounted(tracking[s], s, Done, Owns, n)
        BY <4>1 DEF Passed, Accounted, Done
      <4> QED BY <1>5, <3>1, <4>2
    <3>3. CASE n \notin 1 .. batch.from[s]
      <4>1. <<s, n>> \in Units(batch)
        BY <1>6, <2>1, <3>1, <3>3, UnitsOf
      <4> QED BY <3>1, <4>1
    <3> QED BY <3>2, <3>3
  <2>4. /\ Covers(r, s, done, owns)
        /\ \A n \in Nat : Accounted(tracking[s], s, done, owns, n)
                            => Accounted(r, s, done, owns, n)
        /\ \A n \in Nat : <<next_id, s, n>> \in owns => Accounted(r, s, done, owns, n)
    BY <1>1, <1>5, <2>1, <2>2, <2>3, TrackCovers, CheckpointsAreNat
  <2> QED BY <1>5, <2>4 DEF r
<1>7. CASE s \notin DOMAIN batch.to
  <2>1. r = tracking[s]
    BY <1>7 DEF BeginSendAll
  <2>2. \A n \in Nat : <<s, n>> \notin Units(batch)
    BY <1>7, UnitsOf
  <2> HIDE DEF r
  <2> QED BY <1>5, <2>1, <2>2 DEF r
<1> QED BY <1>6, <1>7

(* The tickets of the next batch are in flight and the others unchanged.   *)
LEMMA BeginSendAllTickets ==
  ASSUME RunTypes, MachineOK, next_id < MaxBatches, NEW batch, NextBatch(batch)
  PROVE  /\ Ordered(BeginSendAll(next_id, batch), next_id + 1, store)
         /\ \A s \in Sources : \A c \in Nat :
              Top(s, c) /\ (s \in DOMAIN batch.to => batch.to[s] <= c)
                => Within(BeginSendAll(next_id, batch)[s], c) /\ store[s] <= c
         /\ \A s \in Sources : \A n \in Nat :
              Reached(tracking[s], store[s], n) \/ <<s, n>> \in Units(batch)
                => Reached(BeginSendAll(next_id, batch)[s], store[s], n)
         /\ \A s \in Sources :
              /\ s \in DOMAIN batch.to =>
                   DOMAIN BeginSendAll(next_id, batch)[s].in_flight = InFlight(s) \cup {next_id}
              /\ s \notin DOMAIN batch.to =>
                   DOMAIN BeginSendAll(next_id, batch)[s].in_flight = InFlight(s)
<1>1. Ordered(tracking, next_id, store) /\ next_id \in Nat
  BY MachineIsOrdered
<1>2. next_id \in BatchIds
  BY <1>1, TrackingAssumptions DEF BatchIds
<1>3. /\ batch \in Batches
      /\ \A s \in DOMAIN batch.to :
             Within(tracking[s], batch.to[s]) /\ store[s] <= batch.to[s]
  BY DEF NextBatch, Top
<1> DEFINE new == BeginSendAll(next_id, batch)
<1>4. /\ Ordered(new, next_id + 1, store)
      /\ \A s \in Sources :
           /\ DOMAIN new[s].in_flight =
                 IF s \in DOMAIN batch.to THEN InFlight(s) \cup {next_id} ELSE InFlight(s)
           /\ \A c \in Nat : Within(tracking[s], c) /\ (s \in DOMAIN batch.to => batch.to[s] <= c)
                               => Within(new[s], c)
           /\ \A n \in Nat : Reached(tracking[s], store[s], n) => Reached(new[s], store[s], n)
           /\ \A n \in Nat : s \in DOMAIN batch.to /\ n <= batch.to[s]
                               => Reached(new[s], store[s], n)
  BY ONLY <1>1, <1>2, <1>3, BeginSendAllEffect
<1> HIDE DEF new
<1>5. \A s \in Sources : \A n \in Nat :
          <<s, n>> \in Units(batch) => s \in DOMAIN batch.to /\ n <= batch.to[s]
  BY <1>3, BatchFacts, UnitsOf
<1>6. \A s \in Sources : \A n \in Nat :
         Reached(tracking[s], store[s], n) \/ <<s, n>> \in Units(batch)
           => Reached(new[s], store[s], n)
  BY <1>4, <1>5
<1>7. \A s \in Sources : \A c \in Nat :
         Top(s, c) /\ (s \in DOMAIN batch.to => batch.to[s] <= c)
           => Within(new[s], c) /\ store[s] <= c
  BY <1>4 DEF Top
<1> QED BY <1>4, <1>6, <1>7 DEF new

(* What is known of the items when the next batch is numbered.             *)
LEMMA NextIdIsFresh ==
  ASSUME RunTypes, MachineOK, next_id < MaxBatches
  PROVE  /\ next_id \in BatchIds /\ next_id \in Nat
         /\ \A id \in BatchIds, batch \in Batches :
                Live(id, batch) => id < next_id /\ id # next_id
         /\ \A s \in Sources : \A id \in InFlight(s) : id \in BatchIds /\ id # next_id
         /\ next_id \notin parked
<1>1. /\ Ordered(tracking, next_id, store) /\ next_id \in Nat
      /\ next_id \in BatchIds
  BY MachineIsOrdered, TrackingAssumptions DEF BatchIds
<1>2. \A x \in Nat : x < next_id => x # next_id
  BY <1>1
<1>3. \A id \in BatchIds : id \in Nat
  BY TrackingAssumptions DEF BatchIds
<1>4. \A id \in BatchIds, batch \in Batches : Live(id, batch) => id < next_id
  BY DEF MachineOK, Tickets, LiveInFlight
<1>5. \A s \in Sources : \A id \in InFlight(s) : id \in BatchIds /\ id < next_id
  <2> TAKE s \in Sources
  <2>1. tracking[s] \in SourceTracking /\ Ascends(tracking[s], next_id, store[s])
    BY <1>1 DEF Ordered
  <2> QED BY <2>1, TrackedTypes DEF InFlight, Ascends, Tracked
<1>6. next_id \notin parked
  BY <1>1 DEF MachineOK, Tickets, ParkedInFlight
<1> QED BY <1>1, <1>2, <1>3, <1>4, <1>5, <1>6

(* The tickets after begin_send, for a batch that is forwarded to the pool *)
(* or whose tickets are held.                                              *)
LEMMA SubmitTickets ==
  ASSUME RunTypes, MachineOK, next_id < MaxBatches, NEW batch, NextBatch(batch),
         NEW forward \in BOOLEAN, next_id' = next_id + 1,
         tracking' = BeginSendAll(next_id, batch),
         parked' = IF forward THEN parked ELSE parked \cup {next_id},
         \A id \in BatchIds, b \in Batches :
             Live(id, b)' <=> Live(id, b) \/ (forward /\ id = next_id /\ b = batch)
  PROVE  Tickets'
<1>1. /\ next_id \in BatchIds /\ next_id \in Nat
      /\ \A id \in BatchIds, b \in Batches : Live(id, b) => id < next_id /\ id # next_id
      /\ \A s \in Sources : \A id \in InFlight(s) : id \in BatchIds /\ id # next_id
      /\ next_id \notin parked
  BY NextIdIsFresh
<1>2. \A s \in Sources :
          /\ s \in DOMAIN batch.to => InFlight(s)' = InFlight(s) \cup {next_id}
          /\ s \notin DOMAIN batch.to => InFlight(s)' = InFlight(s)
  BY BeginSendAllTickets DEF InFlight
<1>3. /\ batch \in Batches /\ DOMAIN batch.to # {} /\ DOMAIN batch.to \subseteq Sources
  BY BatchFacts DEF NextBatch
<1>4. LiveInFlight'
  <2> SUFFICES ASSUME NEW id \in BatchIds, NEW b \in Batches, Live(id, b)'
               PROVE  /\ id < next_id' /\ id \notin parked'
                      /\ DOMAIN b.to # {}
                      /\ \A s \in DOMAIN b.to : id \in InFlight(s)'
    BY DEF LiveInFlight
  <2>1. CASE Live(id, b)
    <3>1. /\ id < next_id /\ id # next_id /\ id \notin parked /\ DOMAIN b.to # {}
          /\ \A s \in DOMAIN b.to : id \in InFlight(s)
      BY <1>1, <2>1 DEF MachineOK, Tickets, LiveInFlight
    <3>2. id \in Nat /\ DOMAIN b.to \subseteq Sources
      BY BatchFacts, TrackingAssumptions DEF BatchIds
    <3> QED BY <1>1, <1>2, <3>1, <3>2
  <2>2. CASE forward /\ id = next_id /\ b = batch
    BY <1>1, <1>2, <1>3, <2>2
  <2> QED BY <2>1, <2>2
<1>5. TicketsLive'
  <2> SUFFICES ASSUME NEW s \in Sources, NEW id \in InFlight(s)', id \notin parked'
               PROVE  \E b \in Batches : Live(id, b)' /\ s \in DOMAIN b.to
    BY DEF TicketsLive
  <2>1. CASE id \in InFlight(s)
    <3>1. PICK b \in Batches : Live(id, b) /\ s \in DOMAIN b.to
      BY <2>1 DEF MachineOK, Tickets, TicketsLive
    <3> QED BY <1>1, <2>1, <3>1
  <2>2. CASE id \notin InFlight(s)
    <3>1. s \in DOMAIN batch.to /\ id = next_id /\ forward
      BY <1>2, <2>2
    <3> QED BY <1>1, <1>3, <3>1
  <2> QED BY <2>1, <2>2
<1>6. ParkedInFlight'
  <2>1. \A id \in parked : id < next_id /\ \E s \in Sources : id \in InFlight(s)
    BY DEF MachineOK, Tickets, ParkedInFlight
  <2>2. \A id \in parked : id \in Nat
    BY TrackingAssumptions DEF RunTypes, PoolTypes, BatchIds
  <2>3. \A id \in parked : id < next_id + 1 /\ \E s \in Sources : id \in InFlight(s)'
    BY <1>1, <1>2, <2>1, <2>2
  <2>4. next_id < next_id + 1 /\ \E s \in Sources : next_id \in InFlight(s)'
    BY <1>1, <1>2, <1>3
  <2> QED BY <2>3, <2>4 DEF ParkedInFlight
<1> QED BY <1>4, <1>5, <1>6 DEF Tickets

(* submit_batch of a batch that is forwarded or held keeps the invariant.  *)
LEMMA SubmitStep ==
  ASSUME RunTypes, MachineOK, Grows, next_id < MaxBatches, NEW batch, NextBatch(batch),
         NEW forward \in BOOLEAN, next_id' = next_id + 1,
         tracking' = BeginSendAll(next_id, batch), UNCHANGED <<store, durable>>,
         parked' = IF forward THEN parked ELSE parked \cup {next_id},
         \A id \in BatchIds, b \in Batches :
             Live(id, b)' <=> Live(id, b) \/ (forward /\ id = next_id /\ b = batch)
  PROVE  MachineOK' /\ Submits(batch) /\ TrackingTypes' /\ DurableGrows
<1>1. Tickets'
  BY SubmitTickets
<1>2. /\ Ordered(tracking', next_id', store')
      /\ \A s \in Sources : \A c \in Nat :
           Top(s, c) /\ (s \in DOMAIN batch.to => batch.to[s] <= c) => Top(s, c)'
      /\ \A s \in Sources : \A n \in Nat :
           Reached(tracking[s], store[s], n) \/ <<s, n>> \in Units(batch)
             => Reached(tracking'[s], store'[s], n)
  BY BeginSendAllTickets DEF Top
<1>3. /\ store \in [Sources -> Checkpoints] /\ durable \in [Sources -> Checkpoints]
      /\ \A s \in Sources : durable[s] <= store[s]
  BY MachineIsOrdered
<1>4. SourceOrder' /\ TrackingTypes' /\ DurableGrows
  <2>1. SourceOrder' /\ TrackingTypes'
    BY <1>2, <1>3 DEF SourceOrder, TrackingTypes, Ordered
  <2>2. \A s \in Sources : durable[s] \in Nat /\ durable'[s] = durable[s]
    BY <1>3, CheckpointsAreNat
  <2> QED BY <2>1, <2>2 DEF DurableGrows
<1>5. /\ next_id \in BatchIds /\ next_id \in Nat
      /\ \A id \in BatchIds, b \in Batches : Live(id, b) => id < next_id /\ id # next_id
  BY NextIdIsFresh
<1>6. \A f \in BatchIds, s \in Sources, n \in Nat :
          f < next_id /\ <<f, s, n>> \in Owns => <<f, s, n>> \in Owns'
  <2> SUFFICES ASSUME NEW f \in BatchIds, NEW s \in Sources, NEW n \in Nat,
                      f < next_id, <<f, s, n>> \in Owns
               PROVE  <<f, s, n>> \in Owns'
    OBVIOUS
  <2>1. f # next_id
    BY <1>5
  <2> QED BY <2>1, OwnsMember
<1>7. \A s \in Sources, n \in Nat : <<s, n>> \in Units(batch) => <<next_id, s, n>> \in Owns'
  BY <1>5, OwnsMember
<1>8. Done \subseteq Done'
  BY DEF Grows, Done
<1>9. ASSUME NEW s \in Sources
      PROVE  /\ Covers(tracking'[s], s, Done', Owns')
             /\ \A n \in Nat : Accounted(tracking[s], s, Done, Owns, n)
                    => Accounted(tracking'[s], s, Done', Owns', n)
             /\ \A n \in Nat : <<s, n>> \in Units(batch)
                    => Accounted(tracking'[s], s, Done', Owns', n)
  BY <1>6, <1>7, <1>8, BeginSendAllCovers
<1>10. SourceCover'
  BY <1>8, <1>9 DEF SourceCover, MachineOK
<1>11. Submits(batch)
  BY <1>2, <1>9 DEF Submits, Passed, Grows
<1> QED BY <1>1, <1>4, <1>10, <1>11 DEF MachineOK

(* submit_batch of a batch that leaves no rows, or that a processor        *)
(* rejects: begin_send and ack in one step.                                *)
LEMMA SubmitAckStep ==
  ASSUME RunTypes, MachineOK, Grows, next_id < MaxBatches, NEW batch, NextBatch(batch),
         next_id' = next_id + 1, AckAllTickets(BeginSendAll(next_id, batch), next_id, batch),
         Keeps({}), Units(batch) \subseteq settled'
  PROVE  MachineOK' /\ Submits(batch) /\ TrackingTypes' /\ DurableGrows
<1> DEFINE mid == BeginSendAll(next_id, batch)
<1>1. /\ Ordered(mid, next_id + 1, store)
      /\ \A s \in Sources : \A c \in Nat :
           Top(s, c) /\ (s \in DOMAIN batch.to => batch.to[s] <= c)
             => Within(mid[s], c) /\ store[s] <= c
      /\ \A s \in Sources : \A n \in Nat :
           Reached(tracking[s], store[s], n) \/ <<s, n>> \in Units(batch)
             => Reached(mid[s], store[s], n)
      /\ \A s \in Sources :
           /\ s \in DOMAIN batch.to => DOMAIN mid[s].in_flight = InFlight(s) \cup {next_id}
           /\ s \notin DOMAIN batch.to => DOMAIN mid[s].in_flight = InFlight(s)
  BY BeginSendAllTickets
<1>2. AckAllTickets(mid, next_id, batch)
  OBVIOUS
<1>3. /\ next_id \in BatchIds /\ next_id \in Nat /\ next_id + 1 \in Nat
      /\ \A id \in BatchIds, b \in Batches : Live(id, b) => id < next_id /\ id # next_id
      /\ \A s \in Sources : \A id \in InFlight(s) : id \in BatchIds /\ id # next_id
      /\ next_id \notin parked
  BY NextIdIsFresh
<1>4. /\ store \in [Sources -> Checkpoints] /\ durable \in [Sources -> Checkpoints]
      /\ \A s \in Sources : durable[s] <= store[s]
  BY MachineIsOrdered
<1>5. /\ batch \in Batches /\ DOMAIN batch.to \subseteq Sources
      /\ \A s \in DOMAIN batch.to : next_id \in DOMAIN mid[s].in_flight
  BY <1>1, BatchFacts DEF NextBatch
<1>6. ASSUME NEW s \in Sources
      PROVE  /\ Covers(tracking'[s], s, Done', Owns')
             /\ \A n \in Nat : Accounted(tracking[s], s, Done, Owns, n)
                    => Accounted(tracking'[s], s, Done', Owns', n)
             /\ \A n \in Nat : <<s, n>> \in Units(batch)
                    => Accounted(tracking'[s], s, Done', Owns', n)
  <2> DEFINE owns == {t \in BatchIds \X Sources \X Nat :
                        /\ t[1] = next_id => <<t[2], t[3]>> \in Units(batch)
                        /\ t[1] # next_id => t \in Owns'}
  <2>1. \A f \in BatchIds, t \in Sources, n \in Nat :
            f < next_id /\ <<f, t, n>> \in Owns => <<f, t, n>> \in owns
    <3> SUFFICES ASSUME NEW f \in BatchIds, NEW t \in Sources, NEW n \in Nat,
                        f < next_id, <<f, t, n>> \in Owns
                 PROVE  <<f, t, n>> \in owns
      OBVIOUS
    <3>1. f # next_id
      BY <1>3
    <3>2. <<f, t, n>> \in Owns'
      BY OwnsMember DEF Keeps
    <3> QED BY <3>1, <3>2
  <2>2. \A t \in Sources, n \in Nat : <<t, n>> \in Units(batch) => <<next_id, t, n>> \in owns
    BY <1>3
  <2>3. Done \subseteq Done'
    BY DEF Grows, Done
  <2>4. \A n \in Nat : <<next_id, s, n>> \in owns => <<s, n>> \in Done'
    BY DEF Done
  <2>5. \A f \in BatchIds : \A n \in Nat :
            f # next_id /\ <<f, s, n>> \in owns => <<f, s, n>> \in Owns'
    OBVIOUS
  <2> HIDE DEF owns, mid
  <2>6. /\ Covers(mid[s], s, Done', owns)
        /\ \A n \in Nat : Accounted(tracking[s], s, Done, Owns, n)
               => Accounted(mid[s], s, Done', owns, n)
        /\ \A n \in Nat : <<s, n>> \in Units(batch) => Accounted(mid[s], s, Done', owns, n)
    BY <2>1, <2>2, <2>3, BeginSendAllCovers DEF mid
  <2>7. tracking' = ApplyAckAll(mid, next_id, batch)
    BY <1>2 DEF AckAllTickets
  <2>8. /\ Covers(tracking'[s], s, Done', owns)
        /\ \A n \in Nat : Accounted(mid[s], s, Done', owns, n)
               => Accounted(tracking'[s], s, Done', owns, n)
    BY ONLY <1>1, <1>3, <1>5, <2>4, <2>6, <2>7, s \in Sources, ApplyAckAllCovers
  <2>9. /\ tracking'[s] \in SourceTracking
        /\ \A f \in DOMAIN tracking'[s].in_flight : f \in BatchIds /\ f # next_id
    <3>1. LET r == ApplyAckAll(mid, next_id, batch)
          IN  /\ r[s] \in SourceTracking
              /\ s \in DOMAIN batch.to =>
                   DOMAIN r[s].in_flight = DOMAIN mid[s].in_flight \ {next_id}
              /\ s \notin DOMAIN batch.to => DOMAIN r[s].in_flight = DOMAIN mid[s].in_flight
      BY ONLY <1>1, <1>3, <1>5, s \in Sources, ApplyAckAllEffect
    <3> QED BY <1>1, <1>3, <2>7, <3>1
  <2>10. /\ Covers(tracking'[s], s, Done', Owns')
         /\ \A n \in Nat : Accounted(tracking'[s], s, Done', owns, n)
                => Accounted(tracking'[s], s, Done', Owns', n)
    BY <2>5, <2>8, <2>9, CoversMonotone, CheckpointsAreNat
  <2> QED BY <2>6, <2>8, <2>10
<1> HIDE DEF mid
<1>7. /\ tracking' = ApplyAckAll(mid, next_id, batch)
      /\ Ordered(tracking', next_id + 1, store')
      /\ Persists(store, durable)
      /\ parked' = parked
      /\ \A s \in Sources : \A c \in Nat :
             Within(mid[s], c) /\ store[s] <= c => Top(s, c)'
      /\ \A s \in Sources : \A n \in Nat :
             Reached(mid[s], store[s], n) => Reached(tracking'[s], store'[s], n)
  BY <1>1, <1>2, <1>3, <1>4, <1>5, AckAllTicketsEffect
<1>8. \A s \in Sources : InFlight(s)' = InFlight(s)
  <2> TAKE s \in Sources
  <2>1. LET r == ApplyAckAll(mid, next_id, batch)
        IN  /\ s \in DOMAIN batch.to =>
                 DOMAIN r[s].in_flight = DOMAIN mid[s].in_flight \ {next_id}
            /\ s \notin DOMAIN batch.to => DOMAIN r[s].in_flight = DOMAIN mid[s].in_flight
    BY ONLY <1>1, <1>3, <1>5, s \in Sources, ApplyAckAllEffect
  <2> QED BY <1>1, <1>3, <1>7, <2>1 DEF InFlight
<1>9. LiveInFlight'
  <2>1. \A id \in BatchIds, b \in Batches : Live(id, b)' <=> Live(id, b)
    BY DEF Keeps
  <2>2. \A id \in BatchIds : id < next_id => id < next_id'
    BY <1>3, TrackingAssumptions DEF BatchIds
  <2>3. \A b \in Batches : DOMAIN b.to \subseteq Sources
    BY BatchFacts
  <2> QED BY <1>7, <1>8, <2>1, <2>2, <2>3 DEF LiveInFlight, MachineOK, Tickets
<1>10. TicketsLive'
  <2>1. \A id \in BatchIds, b \in Batches : Live(id, b)' <=> Live(id, b)
    BY DEF Keeps
  <2> QED BY <1>3, <1>7, <1>8, <2>1 DEF TicketsLive, MachineOK, Tickets
<1>11. ParkedInFlight'
  <2>1. \A id \in parked : id < next_id => id < next_id'
    BY <1>3, TrackingAssumptions DEF RunTypes, PoolTypes, BatchIds
  <2> QED BY <1>7, <1>8, <2>1 DEF ParkedInFlight, MachineOK, Tickets
<1>12. SourceOrder' /\ TrackingTypes' /\ DurableGrows
  BY <1>7 DEF SourceOrder, TrackingTypes, Ordered, Persists, DurableGrows
<1>13. SourceCover'
  BY <1>4, <1>6, <1>7, PersistsCovers DEF MachineOK, SourceCover
<1>14. \A s \in Sources : \A c \in Nat :
           Top(s, c) /\ (s \in DOMAIN batch.to => batch.to[s] <= c) => Top(s, c)'
  BY <1>1, <1>7
<1>15. \A s \in Sources : \A n \in Nat :
           Passed(s, n) \/ <<s, n>> \in Units(batch) => Passed(s, n)'
  BY <1>1, <1>6, <1>7 DEF Passed, Grows
<1>16. Submits(batch)
  BY <1>14, <1>15 DEF Submits
<1> QED BY <1>9, <1>10, <1>11, <1>12, <1>13, <1>16 DEF MachineOK, Tickets

-----------------------------------------------------------------------------
(* The channel and the input threads.                                      *)

(* The from and to of everything between an input and the machine.         *)
LEMMA ChainTypes ==
  ASSUME InputTypes
  PROVE  /\ \A k \in DOMAIN channel : /\ channel[k] \in Batches
                                      /\ \A s \in DOMAIN channel[k].to :
                                            /\ s \in Sources
                                            /\ channel[k].from[s] \in Nat
                                            /\ channel[k].to[s] \in Nat
         /\ \A i \in Inputs : outbox[i] # None =>
               /\ outbox[i] \in BatchesOf(i)
               /\ \A s \in SourcesOf(i) : outbox[i].from[s] \in Nat /\ outbox[i].to[s] \in Nat
         /\ \A i \in Inputs : \A k \in DOMAIN io_queue[i] :
               /\ io_queue[i][k] \in ChunksOf(i)
               /\ \A s \in SourcesOf(i) : /\ io_queue[i][k].from[s] \in Nat
                                          /\ io_queue[i][k].to[s] \in Nat
         /\ \A s \in Sources : flushed[s] \in Nat /\ read[s] \in Nat
         /\ \A i \in Inputs : SourcesOf(i) \subseteq Sources
<1>1. \A k \in DOMAIN channel : /\ channel[k] \in Batches
                                /\ \A s \in DOMAIN channel[k].to :
                                      /\ s \in Sources
                                      /\ channel[k].from[s] \in Nat
                                      /\ channel[k].to[s] \in Nat
  <2> TAKE k \in DOMAIN channel
  <2>1. channel[k] \in Batches
    BY ElementOfSeq, LenProperties DEF InputTypes
  <2> QED BY <2>1, BatchFacts
<1>2. \A i \in Inputs : outbox[i] # None =>
         /\ outbox[i] \in BatchesOf(i)
         /\ \A s \in SourcesOf(i) : outbox[i].from[s] \in Nat /\ outbox[i].to[s] \in Nat
  BY BatchOfFacts DEF InputTypes
<1>3. \A i \in Inputs : \A k \in DOMAIN io_queue[i] :
         /\ io_queue[i][k] \in ChunksOf(i)
         /\ \A s \in SourcesOf(i) : /\ io_queue[i][k].from[s] \in Nat
                                    /\ io_queue[i][k].to[s] \in Nat
  <2> TAKE i \in Inputs
  <2> TAKE k \in DOMAIN io_queue[i]
  <2>1. io_queue[i][k] \in ChunksOf(i)
    BY ElementOfSeq, LenProperties DEF InputTypes
  <2> QED BY <2>1, ChunkFacts
<1>4. \A s \in Sources : flushed[s] \in Nat /\ read[s] \in Nat
  BY CheckpointsAreNat DEF InputTypes
<1>5. \A i \in Inputs : SourcesOf(i) \subseteq Sources
  BY DEF SourcesOf
<1> QED BY <1>1, <1>2, <1>3, <1>4, <1>5

(* The input threads do no more than read.                                 *)
ReadsOn ==
    /\ UNCHANGED <<flushed, io_queue, outbox>>
    /\ \A s \in Sources : read'[s] \in Nat /\ read[s] <= read'[s]

(* Less still, they do nothing.                                            *)
LEMMA InputsIdle ==
  ASSUME InputTypes, UNCHANGED inputVars
  PROVE  ReadsOn
  BY ChainTypes DEF ReadsOn, inputVars

(* The input side of the order only looks at the channel from above.       *)
LEMMA InputOrderFollows ==
  ASSUME InputTypes, InputOrder, ReadsOn, ChannelOrder',
         \A s \in Sources : \A c \in Nat : PastChannel(s, c) => PastChannel(s, c)'
  PROVE  InputOrder'
<1>1. /\ flushed' = flushed /\ io_queue' = io_queue /\ outbox' = outbox
      /\ \A s \in Sources : read'[s] \in Nat /\ read[s] <= read'[s]
  BY DEF ReadsOn
<1>2. /\ \A i \in Inputs : outbox[i] # None =>
            \A s \in SourcesOf(i) : outbox[i].from[s] \in Nat /\ outbox[i].to[s] \in Nat
      /\ \A i \in Inputs : \A k \in DOMAIN io_queue[i] : \A s \in SourcesOf(i) :
            io_queue[i][k].from[s] \in Nat /\ io_queue[i][k].to[s] \in Nat
      /\ \A s \in Sources : flushed[s] \in Nat /\ read[s] \in Nat
      /\ \A i \in Inputs : SourcesOf(i) \subseteq Sources
  BY ChainTypes
<1>3. \A i \in Inputs : \A s \in SourcesOf(i) : \A c \in Nat :
          PastOutbox(i, s, c) => PastOutbox(i, s, c)'
  BY <1>1, <1>2 DEF PastOutbox
<1>4. OutboxOrder'
  BY <1>1, <1>2 DEF InputOrder, OutboxOrder
<1>5. QueueOrder'
  BY <1>1, <1>2, <1>3 DEF InputOrder, QueueOrder
<1>6. BufferOrder'
  BY <1>1, <1>2, <1>3 DEF InputOrder, BufferOrder
<1> QED BY <1>4, <1>5, <1>6 DEF InputOrder

(* Steps that leave the channel alone.                                     *)
LEMMA ChainKept ==
  ASSUME InputTypes, InputOrder, NothingLost, Evolves,
         UNCHANGED channel, ReadsOn, rx_open' => rx_open
  PROVE  InputOrder' /\ NothingLost'
<1>1. \A s \in Sources : \A c \in Nat : PastChannel(s, c) => PastChannel(s, c)'
  BY DEF PastChannel, Evolves
<1>2. ChannelOrder'
  BY ChainTypes DEF InputOrder, ChannelOrder, Evolves
<1>3. InputOrder'
  BY <1>1, <1>2, InputOrderFollows
<1>4. NothingLost'
  <2> SUFFICES ASSUME rx_open, NEW i \in Inputs, NEW s \in SourcesOf(i),
                      NEW n \in 1 .. flushed[s]
               PROVE  Passed(s, n)' \/ InChannel(s, n)' \/ InWorker(i, s, n)'
    BY DEF NothingLost, ReadsOn
  <2>1. s \in Sources /\ n \in Nat
    BY ChainTypes
  <2>2. Passed(s, n) \/ InChannel(s, n) \/ InWorker(i, s, n)
    BY DEF NothingLost
  <2> QED BY <2>1, <2>2 DEF Evolves, InChannel, InWorker, ReadsOn
<1> QED BY <1>3, <1>4

(* Steps that drop the receiver with what it holds.                        *)
LEMMA ChainCut ==
  ASSUME InputTypes, InputOrder, ReadsOn, channel' = <<>>, rx_open' = FALSE,
         \A s \in Sources : \A c \in Nat : PastChannel(s, c) => Top(s, c)'
  PROVE  InputOrder' /\ NothingLost'
<1>1. DOMAIN channel' = {}
  OBVIOUS
<1>2. \A s \in Sources : \A c \in Nat : PastChannel(s, c) => PastChannel(s, c)'
  BY <1>1 DEF PastChannel
<1>3. ChannelOrder'
  BY <1>1 DEF ChannelOrder
<1> QED BY <1>2, <1>3, InputOrderFollows DEF NothingLost

(* The head of the channel.                                                *)
LEMMA HeadOfChannel ==
  ASSUME InputTypes, channel # <<>>
  PROVE  /\ 1 \in DOMAIN channel /\ Head(channel) = channel[1]
         /\ DOMAIN channel = 1 .. Len(channel) /\ Len(channel) \in Nat
         /\ DOMAIN Tail(channel) = 1 .. (Len(channel) - 1)
         /\ Len(Tail(channel)) = Len(channel) - 1
         /\ Tail(channel) \in Seq(Batches)
         /\ \A k \in DOMAIN Tail(channel) :
                k + 1 \in DOMAIN channel /\ Tail(channel)[k] = channel[k + 1]
  BY HeadTailProperties, LenProperties, ElementOfSeq DEF InputTypes

(* What is not below the checkpoints of a source may be moved up.          *)
LEMMA TopMonotone ==
  ASSUME CoordinatorTypes, NEW s \in Sources, NEW c \in Nat, NEW d \in Nat, Top(s, c), c <= d
  PROVE  Top(s, d)
<1>1. tracking[s] \in SourceTracking /\ store[s] \in Nat
  BY CheckpointsAreNat DEF CoordinatorTypes
<1>2. \A x \in Tracked(tracking[s]) : Ckpt(tracking[s], x) \in Nat
  BY <1>1, TrackedTypes, CheckpointsAreNat
<1>3. tracking[s].committed # None => tracking[s].committed \in Nat
  BY <1>1, CommittedType, CheckpointsAreNat
<1> QED BY <1>1, <1>2, <1>3 DEF Top, Within

(* Head(channel) is the batch that the machine is ready for.               *)
LEMMA HeadIsNext ==
  ASSUME RunTypes, NothingEmpty, InputOrder, NothingLost, rx_open, channel # <<>>
  PROVE  NextBatch(Head(channel))
<1> DEFINE batch == channel[1]
<1>1. /\ 1 \in DOMAIN channel /\ Head(channel) = batch
      /\ DOMAIN channel = 1 .. Len(channel) /\ Len(channel) \in Nat
  BY HeadOfChannel DEF RunTypes
<1>2. batch \in Batches /\ DOMAIN batch.to # {}
  BY <1>1, ChainTypes DEF RunTypes, NothingEmpty
<1>3. ASSUME NEW s \in DOMAIN batch.to
      PROVE  /\ Top(s, batch.to[s])
             /\ \A n \in 1 .. batch.from[s] : Passed(s, n)
  <2>1. /\ s \in Sources /\ batch.from[s] \in Nat /\ batch.to[s] \in Nat
        /\ batch.from[s] <= batch.to[s]
        /\ Top(s, batch.from[s])
    BY <1>1, ChainTypes DEF RunTypes, InputOrder, ChannelOrder
  <2>2. Top(s, batch.to[s])
    BY <2>1, TopMonotone DEF RunTypes
  <2>3. PICK i \in Inputs : batch \in BatchesOf(i)
    BY <1>2 DEF Batches
  <2>4. s \in SourcesOf(i) /\ DOMAIN batch.to = SourcesOf(i)
    BY <2>3, BatchOfFacts
  <2>5. /\ batch.to[s] <= flushed[s] /\ flushed[s] \in Nat
        /\ PastOutbox(i, s, flushed[s])
    BY <1>1, <2>1, <2>4, ChainTypes
    DEF RunTypes, InputOrder, BufferOrder, PastOutbox, PastChannel
  <2>6. ASSUME NEW n \in 1 .. batch.from[s]
        PROVE  Passed(s, n)
    <3>1. n \in 1 .. flushed[s] /\ n \in Nat /\ n <= batch.from[s]
      BY <2>1, <2>5
    <3>2. Passed(s, n) \/ InChannel(s, n) \/ InWorker(i, s, n)
      BY <2>4, <3>1 DEF NothingLost
    <3>3. ~InChannel(s, n)
      <4> SUFFICES ASSUME NEW k \in DOMAIN channel, <<s, n>> \in Units(channel[k])
                   PROVE  FALSE
        BY DEF InChannel
      <4>1. /\ s \in DOMAIN channel[k].to /\ channel[k].from[s] \in Nat
            /\ channel[k].to[s] \in Nat /\ channel[k].from[s] < n
        BY <3>1, UnitsOf, ChainTypes DEF RunTypes
      <4>2. k # 1
        BY <2>1, <3>1, <4>1
      <4>3. 1 < k
        BY <1>1, <4>2
      <4>4. batch.to[s] <= channel[k].from[s]
        BY <1>1, <4>1, <4>3 DEF InputOrder, ChannelOrder
      <4> QED BY <2>1, <3>1, <4>1, <4>4
    <3>4. ~(outbox[i] # None /\ <<s, n>> \in Units(outbox[i]))
      <4> SUFFICES ASSUME outbox[i] # None, <<s, n>> \in Units(outbox[i]) PROVE FALSE
        OBVIOUS
      <4>1. outbox[i].from[s] \in Nat /\ outbox[i].to[s] \in Nat
        BY <2>4, ChainTypes DEF RunTypes
      <4>2. outbox[i].from[s] < n
        BY <3>1, <4>1, UnitsOf
      <4>3. batch.to[s] <= outbox[i].from[s]
        BY <1>1, <2>4 DEF InputOrder, OutboxOrder, PastChannel
      <4> QED BY <2>1, <3>1, <4>1, <4>2, <4>3
    <3>5. ~(\E k \in DOMAIN io_queue[i] : <<s, n>> \in Units(io_queue[i][k]))
      <4> SUFFICES ASSUME NEW k \in DOMAIN io_queue[i], <<s, n>> \in Units(io_queue[i][k])
                   PROVE  FALSE
        OBVIOUS
      <4>1. io_queue[i][k].from[s] \in Nat /\ io_queue[i][k].to[s] \in Nat
        BY <2>4, ChainTypes DEF RunTypes
      <4>2. io_queue[i][k].from[s] < n
        BY <3>1, <4>1, UnitsOf
      <4>3. batch.to[s] <= io_queue[i][k].from[s]
        BY <1>1, <2>4 DEF InputOrder, QueueOrder, PastOutbox, PastChannel
      <4> QED BY <2>1, <3>1, <4>1, <4>2, <4>3
    <3> QED BY <3>2, <3>3, <3>4, <3>5 DEF InWorker
  <2> QED BY <2>2, <2>6
<1> QED BY <1>1, <1>2, <1>3 DEF NextBatch

(* A checkpoint past the channel is past the batch that is submitted.      *)
LEMMA SubmitsPast ==
  ASSUME InputTypes, channel # <<>>, Submits(Head(channel))
  PROVE  \A s \in Sources : \A c \in Nat : PastChannel(s, c) => Top(s, c)'
  BY HeadOfChannel DEF Submits, PastChannel

(* The batch at the head is submitted, the others move up.                 *)
LEMMA ChainReceives ==
  ASSUME InputTypes, InputOrder, NothingLost, channel # <<>>, Submits(Head(channel)),
         channel' = Tail(channel), ReadsOn, rx_open' => rx_open
  PROVE  InputOrder' /\ NothingLost'
<1> DEFINE batch == channel[1]
<1>1. /\ 1 \in DOMAIN channel /\ Head(channel) = batch
      /\ DOMAIN channel = 1 .. Len(channel) /\ Len(channel) \in Nat
      /\ DOMAIN channel' = 1 .. (Len(channel) - 1)
      /\ \A k \in DOMAIN channel' : k + 1 \in DOMAIN channel /\ channel'[k] = channel[k + 1]
  BY HeadOfChannel
<1>2. \A s \in Sources : \A c \in Nat : PastChannel(s, c) => PastChannel(s, c)'
  <2>1. \A s \in Sources : \A c \in Nat : PastChannel(s, c) => Top(s, c)'
    BY SubmitsPast
  <2> QED BY <1>1, <2>1 DEF PastChannel
<1>3. ChannelOrder'
  <2>1. ASSUME NEW k \in DOMAIN channel, k # 1, NEW s \in DOMAIN channel[k].to
        PROVE  /\ channel[k].from[s] <= channel[k].to[s]
               /\ \A c \in Nat : c = channel[k].from[s] => Top(s, c)'
               /\ \A j \in DOMAIN channel : j < k /\ s \in DOMAIN channel[j].to =>
                      channel[j].to[s] <= channel[k].from[s]
    <3>1. /\ channel[k].from[s] <= channel[k].to[s]
          /\ Top(s, channel[k].from[s])
          /\ \A j \in DOMAIN channel : j < k /\ s \in DOMAIN channel[j].to =>
                 channel[j].to[s] <= channel[k].from[s]
      BY DEF InputOrder, ChannelOrder
    <3>2. s \in DOMAIN batch.to => batch.to[s] <= channel[k].from[s]
      BY <1>1, <2>1, <3>1
    <3>3. s \in Sources
      BY ChainTypes
    <3> QED BY <1>1, <3>1, <3>2, <3>3 DEF Submits
  <2>2. \A k \in DOMAIN channel' : /\ k + 1 \in DOMAIN channel /\ k + 1 # 1
                                   /\ channel'[k] = channel[k + 1]
    BY <1>1
  <2>3. \A j, k \in DOMAIN channel' : j < k => j + 1 < k + 1
    BY <1>1
  <2>4. \A k \in DOMAIN channel' : \A s \in DOMAIN channel'[k].to :
            channel'[k].from[s] \in Nat
    BY <2>2, ChainTypes
  <2> QED BY <2>1, <2>2, <2>3, <2>4 DEF ChannelOrder
<1>4. InputOrder'
  BY <1>2, <1>3, InputOrderFollows
<1>5. NothingLost'
  <2> SUFFICES ASSUME rx_open, NEW i \in Inputs, NEW s \in SourcesOf(i),
                      NEW n \in 1 .. flushed[s]
               PROVE  Passed(s, n)' \/ InChannel(s, n)' \/ InWorker(i, s, n)'
    BY DEF NothingLost, ReadsOn
  <2>1. s \in Sources /\ n \in Nat
    BY ChainTypes
  <2>2. Passed(s, n) \/ InChannel(s, n) \/ InWorker(i, s, n)
    BY DEF NothingLost
  <2>3. CASE Passed(s, n)
    BY <1>1, <2>1, <2>3 DEF Submits
  <2>4. CASE InWorker(i, s, n)
    BY <2>4 DEF InWorker, ReadsOn
  <2>5. CASE InChannel(s, n)
    <3>1. PICK k \in DOMAIN channel : <<s, n>> \in Units(channel[k])
      BY <2>5 DEF InChannel
    <3>2. CASE k = 1
      BY <1>1, <2>1, <3>1, <3>2 DEF Submits
    <3>3. CASE k # 1
      <4>1. k - 1 \in DOMAIN channel' /\ (k - 1) + 1 = k
        BY <1>1, <3>3
      <4>2. channel'[k - 1] = channel[k]
        BY <1>1, <4>1
      <4> QED BY <3>1, <4>1, <4>2 DEF InChannel
    <3> QED BY <3>2, <3>3
  <2> QED BY <2>2, <2>3, <2>4, <2>5
<1> QED BY <1>4, <1>5

-----------------------------------------------------------------------------
(* The steps of the input threads.                                         *)

InputInv == InputTypes /\ NothingEmpty /\ InputOrder /\ NothingLost /\ WorkersExit /\ DrainEnds

(* What the coordinator's variables do while an input thread moves.        *)
CoordinatorIdle ==
    /\ Evolves
    /\ rx_open \in BOOLEAN
    /\ rx_open' = rx_open /\ pc' = pc /\ parked' = parked

(* Sources have one input.                                                 *)
LEMMA OneInput ==
  ASSUME NEW i \in Inputs, NEW j \in Inputs, NEW s \in SourcesOf(i), s \in SourcesOf(j)
  PROVE  i = j
  BY DEF SourcesOf

(* poll_into keeps the invariant of the inputs.                            *)
LEMMA IoPollKeeps ==
  ASSUME InputInv, CoordinatorIdle, NEW s \in Sources, IoPoll(s), UNCHANGED channel
  PROVE  InputInv'
<1>1. /\ InputOf[s] \notin io_done /\ read[s] < Length[s]
      /\ read' = [read EXCEPT ![s] = @ + 1]
      /\ flushed' = flushed /\ io_queue' = io_queue /\ outbox' = outbox
      /\ io_done' = io_done /\ cpu_done' = cpu_done /\ channel' = channel
  BY DEF IoPoll
<1>2. read \in [Sources -> Checkpoints] /\ \A t \in Sources : read[t] \in Nat
  BY CheckpointsAreNat DEF InputInv, InputTypes
<1>3. /\ read' \in [Sources -> Checkpoints]
      /\ read'[s] = read[s] + 1
      /\ \A t \in Sources : t # s => read'[t] = read[t]
  <2>1. read[s] + 1 \in 0 .. Length[s] /\ Length[s] \in Nat
    BY <1>1, <1>2, RunAssumptions
  <2>2. read[s] + 1 \in Checkpoints
    BY <2>1, RunAssumptions
  <2> QED BY <1>1, <1>2, <2>2
<1>4. InputTypes'
  BY <1>1, <1>3 DEF InputInv, InputTypes
<1>5. ReadsOn
  BY <1>1, <1>2, <1>3 DEF ReadsOn
<1>6. InputOrder' /\ NothingLost'
  BY <1>1, <1>5, ChainKept DEF InputInv, CoordinatorIdle
<1>7. NothingEmpty' /\ DrainEnds'
  BY <1>1 DEF InputInv, NothingEmpty, DrainEnds, CoordinatorIdle
<1>8. WorkersExit'
  <2>1. \A i \in io_done : s \notin SourcesOf(i)
    BY <1>1 DEF SourcesOf
  <2>2. \A i \in io_done : \A t \in SourcesOf(i) : t \in Sources /\ t # s
    BY <2>1 DEF SourcesOf
  <2> QED BY <1>1, <1>3, <2>2 DEF InputInv, WorkersExit, CoordinatorIdle
<1> QED BY <1>4, <1>6, <1>7, <1>8 DEF InputInv

(* The exit of an I/O worker: it has flushed what it read, or nobody would *)
(* receive it.                                                             *)
LEMMA IoExitKeeps ==
  ASSUME InputInv, CoordinatorIdle, NEW i \in Inputs, IoExit(i), UNCHANGED channel
  PROVE  InputInv'
<1>1. /\ i \notin io_done
      /\ i \in cpu_done \/ ~Unflushed(i)
      /\ io_done' = io_done \cup {i}
      /\ read' = read /\ flushed' = flushed /\ io_queue' = io_queue /\ outbox' = outbox
      /\ cpu_done' = cpu_done /\ channel' = channel
  BY DEF IoExit
<1>2. /\ \A s \in Sources : read[s] \in Nat /\ flushed[s] \in Nat
      /\ SourcesOf(i) \subseteq Sources
  BY ChainTypes DEF InputInv
<1>3. InputTypes'
  BY <1>1 DEF InputInv, InputTypes
<1>4. ReadsOn
  BY <1>1, <1>2 DEF ReadsOn
<1>5. InputOrder' /\ NothingLost'
  BY <1>1, <1>4, ChainKept DEF InputInv, CoordinatorIdle
<1>6. NothingEmpty' /\ DrainEnds'
  BY <1>1 DEF InputInv, NothingEmpty, DrainEnds, CoordinatorIdle
<1>7. rx_open => \A s \in SourcesOf(i) : read[s] = flushed[s]
  <2> SUFFICES ASSUME rx_open, NEW s \in SourcesOf(i) PROVE read[s] = flushed[s]
    OBVIOUS
  <2>1. ~Unflushed(i)
    BY <1>1 DEF InputInv, WorkersExit
  <2>2. flushed[s] <= read[s] /\ ~(read[s] > flushed[s])
    BY <2>1 DEF InputInv, InputOrder, BufferOrder, Unflushed
  <2> QED BY <1>2, <2>2
<1>8. WorkersExit'
  BY <1>1, <1>7 DEF InputInv, WorkersExit, CoordinatorIdle
<1> QED BY <1>3, <1>5, <1>6, <1>8 DEF InputInv

(* flush_buf: a chunk that starts where the last one ended.                *)
LEMMA IoFlushKeeps ==
  ASSUME InputInv, CoordinatorTypes, CoordinatorIdle,
         NEW i \in Inputs, IoFlush(i), UNCHANGED channel
  PROVE  InputInv'
<1> DEFINE chunk == [from |-> [s \in SourcesOf(i) |-> flushed[s]],
                     to   |-> [s \in SourcesOf(i) |-> read[s]]]
           q == Append(io_queue[i], chunk)
<1>1. /\ i \notin io_done /\ i \notin cpu_done
      /\ Unflushed(i)
      /\ Len(io_queue[i]) < IoQueueCapacity
      /\ io_queue' = [io_queue EXCEPT ![i] = q]
      /\ flushed' = [s \in Sources |-> IF s \in SourcesOf(i) THEN read[s] ELSE flushed[s]]
      /\ read' = read /\ outbox' = outbox /\ io_done' = io_done /\ cpu_done' = cpu_done
      /\ channel' = channel
  BY DEF IoFlush
<1>2. /\ read \in [Sources -> Checkpoints] /\ flushed \in [Sources -> Checkpoints]
      /\ \A s \in Sources : read[s] \in Nat /\ flushed[s] \in Nat
      /\ SourcesOf(i) \subseteq Sources
      /\ DOMAIN io_queue = Inputs /\ io_queue[i] \in Seq(ChunksOf(i))
  BY ChainTypes DEF InputInv, InputTypes
<1>3. /\ chunk \in ChunksOf(i)
      /\ \A s \in SourcesOf(i) : chunk.from[s] = flushed[s] /\ chunk.to[s] = read[s]
  BY <1>2 DEF ChunksOf
<1>3a. DOMAIN chunk.to = SourcesOf(i)
  OBVIOUS
<1> HIDE DEF chunk
<1>4. /\ q \in Seq(ChunksOf(i)) /\ Len(q) = Len(io_queue[i]) + 1
      /\ Len(io_queue[i]) \in Nat
      /\ DOMAIN io_queue[i] = 1 .. Len(io_queue[i])
      /\ DOMAIN q = 1 .. (Len(io_queue[i]) + 1)
      /\ q[Len(io_queue[i]) + 1] = chunk
      /\ \A k \in DOMAIN io_queue[i] : q[k] = io_queue[i][k]
  BY <1>2, <1>3, AppendProperties, LenProperties
<1> HIDE DEF q
<1>5. /\ DOMAIN io_queue' = Inputs /\ io_queue'[i] = q
      /\ \A j \in Inputs : j # i => io_queue'[j] = io_queue[j]
      /\ flushed' \in [Sources -> Checkpoints]
      /\ \A s \in SourcesOf(i) : flushed'[s] = read[s]
      /\ \A j \in Inputs : j # i => \A s \in SourcesOf(j) : flushed'[s] = flushed[s]
  <2>1. \A j \in Inputs : j # i => \A s \in SourcesOf(j) : s \in Sources /\ s \notin SourcesOf(i)
    BY DEF SourcesOf
  <2> QED BY <1>1, <1>2, <2>1
<1>6. Len(q) <= IoQueueCapacity
  BY <1>1, <1>4, RunAssumptions
<1>7. InputTypes'
  BY <1>1, <1>2, <1>4, <1>5, <1>6 DEF InputInv, InputTypes
<1>8. NothingEmpty' /\ DrainEnds'
  <2>1. SourcesOf(i) # {}
    BY <1>1 DEF Unflushed
  <2> QED BY <1>1, <1>5, <2>1 DEF InputInv, NothingEmpty, DrainEnds, CoordinatorIdle
<1>9. WorkersExit'
  <2>1. \A j \in cpu_done : j \in Inputs /\ j # i
    BY <1>1 DEF InputInv, InputTypes
  <2>2. \A j \in io_done : j \in Inputs /\ j # i
    BY <1>1 DEF InputInv, InputTypes
  <2> QED BY <1>1, <1>5, <2>1, <2>2 DEF InputInv, WorkersExit, CoordinatorIdle
<1>10. \A j \in Inputs : \A s \in SourcesOf(j) : s \in Sources /\ \A c \in Nat :
          /\ PastChannel(s, c) => PastChannel(s, c)'
          /\ PastOutbox(j, s, c) => PastOutbox(j, s, c)'
  <2>1. \A s \in Sources : \A c \in Nat : PastChannel(s, c) => PastChannel(s, c)'
    BY <1>1 DEF PastChannel, CoordinatorIdle, Evolves
  <2> QED BY <1>1, <2>1 DEF PastOutbox, SourcesOf
<1>11. ChannelOrder'
  BY <1>1, ChainTypes DEF InputInv, InputOrder, ChannelOrder, CoordinatorIdle, Evolves
<1>12. OutboxOrder'
  BY <1>1, <1>10, ChainTypes DEF InputInv, InputOrder, OutboxOrder
<1>13. QueueOrder'
  <2> SUFFICES ASSUME NEW j \in Inputs, NEW k \in DOMAIN io_queue'[j], NEW s \in SourcesOf(j)
               PROVE  /\ io_queue'[j][k].from[s] <= io_queue'[j][k].to[s]
                      /\ PastOutbox(j, s, io_queue[j][k].from[s])'
                      /\ \A l \in DOMAIN io_queue'[j] :
                             l < k => io_queue'[j][l].to[s] <= io_queue'[j][k].from[s]
    BY DEF QueueOrder
  <2>0. /\ \A l \in DOMAIN io_queue[j] : /\ io_queue[j][l].from[s] \in Nat
                                         /\ io_queue[j][l].to[s] \in Nat
        /\ s \in Sources
    BY ChainTypes DEF InputInv
  <2>1. CASE j # i \/ k # Len(io_queue[i]) + 1
    <3>1. k \in DOMAIN io_queue[j] /\ io_queue'[j][k] = io_queue[j][k]
      BY <1>4, <1>5, <2>1
    <3>2. /\ io_queue[j][k].from[s] <= io_queue[j][k].to[s]
          /\ PastOutbox(j, s, io_queue[j][k].from[s])
          /\ \A l \in DOMAIN io_queue[j] :
                 l < k => io_queue[j][l].to[s] <= io_queue[j][k].from[s]
      BY <3>1 DEF InputInv, InputOrder, QueueOrder
    <3>3. \A l \in DOMAIN io_queue'[j] :
              l < k => l \in DOMAIN io_queue[j] /\ io_queue'[j][l] = io_queue[j][l]
      BY <1>4, <1>5, <2>1, <3>1
    <3>4. \A c \in Nat : c = io_queue[j][k].from[s] => PastOutbox(j, s, c)'
      BY <1>10, <3>2
    <3> QED BY <2>0, <3>1, <3>2, <3>3, <3>4
  <2>2. CASE j = i /\ k = Len(io_queue[i]) + 1
    <3>1. io_queue'[j][k] = chunk
      BY <1>4, <1>5, <2>2
    <3>2. /\ PastOutbox(i, s, flushed[s])
          /\ \A l \in DOMAIN io_queue[i] : io_queue[i][l].to[s] <= flushed[s]
          /\ flushed[s] <= read[s]
      BY <2>2 DEF InputInv, InputOrder, BufferOrder
    <3>3. \A l \in DOMAIN io_queue'[j] :
              l < k => l \in DOMAIN io_queue[i] /\ io_queue'[j][l] = io_queue[i][l]
      BY <1>4, <1>5, <2>2
    <3>4. \A c \in Nat : c = flushed[s] => PastOutbox(j, s, c)'
      BY <1>10, <2>2, <3>2
    <3> QED BY <1>2, <1>3, <2>0, <2>2, <3>1, <3>2, <3>3, <3>4
  <2> QED BY <2>1, <2>2
<1>14. BufferOrder'
  <2> SUFFICES ASSUME NEW j \in Inputs, NEW s \in SourcesOf(j)
               PROVE  /\ PastOutbox(j, s, flushed[s])'
                      /\ \A k \in DOMAIN io_queue'[j] : io_queue'[j][k].to[s] <= flushed'[s]
                      /\ flushed'[s] <= read'[s]
    BY DEF BufferOrder
  <2>0. /\ \A l \in DOMAIN io_queue[j] : /\ io_queue[j][l].from[s] \in Nat
                                         /\ io_queue[j][l].to[s] \in Nat
        /\ s \in Sources /\ flushed[s] \in Nat /\ read[s] \in Nat
    BY ChainTypes DEF InputInv
  <2>1. /\ PastOutbox(j, s, flushed[s])
        /\ \A k \in DOMAIN io_queue[j] : io_queue[j][k].to[s] <= flushed[s]
        /\ flushed[s] <= read[s]
    BY DEF InputInv, InputOrder, BufferOrder
  <2>2. CASE j # i
    <3>1. \A c \in Nat : c = flushed[s] => PastOutbox(j, s, c)'
      BY <1>10, <2>1
    <3> QED BY <1>1, <1>5, <2>0, <2>1, <2>2, <3>1
  <2>3. CASE j = i
    <3>1. flushed'[s] = read[s]
      BY <1>5, <2>3
    <3>2. PastOutbox(i, s, read[s])
      <4>1. Top(s, read[s])
        BY <2>0, <2>1, TopMonotone DEF PastOutbox, PastChannel
      <4>2. \A k \in DOMAIN channel : s \in DOMAIN channel[k].to => channel[k].to[s] <= read[s]
        BY <2>0, <2>1, ChainTypes DEF InputInv, PastOutbox, PastChannel
      <4>3. outbox[i] # None => outbox[i].to[s] <= read[s]
        BY <2>0, <2>1, <2>3, ChainTypes DEF InputInv, PastOutbox
      <4> QED BY <4>1, <4>2, <4>3 DEF PastOutbox, PastChannel
    <3>3. \A c \in Nat : c = read[s] => PastOutbox(j, s, c)'
      BY <1>10, <2>3, <3>2
    <3>4. \A k \in DOMAIN io_queue'[i] : io_queue'[i][k].to[s] <= read[s]
      BY <1>3, <1>4, <1>5, <2>0, <2>1, <2>3
    <3> QED BY <1>1, <2>0, <2>3, <3>1, <3>3, <3>4
  <2> QED BY <2>2, <2>3
<1>15. NothingLost'
  <2> SUFFICES ASSUME rx_open, NEW j \in Inputs, NEW s \in SourcesOf(j),
                      NEW n \in 1 .. flushed'[s]
               PROVE  Passed(s, n)' \/ InChannel(s, n)' \/ InWorker(j, s, n)'
    BY DEF NothingLost, CoordinatorIdle
  <2>1. s \in Sources /\ n \in Nat /\ flushed[s] \in Nat /\ read[s] \in Nat
    BY <1>2, <1>5, CheckpointsAreNat DEF SourcesOf
  <2>2. CASE n \in 1 .. flushed[s]
    <3>1. Passed(s, n) \/ InChannel(s, n) \/ InWorker(j, s, n)
      BY <2>2 DEF InputInv, NothingLost
    <3>2. \A k \in DOMAIN io_queue[j] :
              k \in DOMAIN io_queue'[j] /\ io_queue'[j][k] = io_queue[j][k]
      BY <1>4, <1>5
    <3>2a. InWorker(j, s, n) => InWorker(j, s, n)'
      BY <1>1, <3>2 DEF InWorker
    <3> QED BY <1>1, <2>1, <3>1, <3>2a DEF CoordinatorIdle, Evolves, InChannel
  <2>3. CASE n \notin 1 .. flushed[s]
    <3>1. j = i
      BY <1>5, <2>3
    <3>2. <<s, n>> \in Units(chunk)
      BY <1>3, <1>3a, <1>5, <2>1, <2>3, <3>1, UnitsOf
    <3>3. Len(io_queue[i]) + 1 \in DOMAIN io_queue'[i]
          /\ io_queue'[i][Len(io_queue[i]) + 1] = chunk
      BY <1>4, <1>5
    <3> QED BY <3>1, <3>2, <3>3 DEF InWorker
  <2> QED BY <2>2, <2>3
<1> QED BY <1>7, <1>8, <1>9, <1>11, <1>12, <1>13, <1>14, <1>15 DEF InputInv, InputOrder

(* The head of the queue of a CPU worker.                                  *)
LEMMA HeadOfQueue ==
  ASSUME InputTypes, NEW i \in Inputs, io_queue[i] # <<>>
  PROVE  /\ 1 \in DOMAIN io_queue[i] /\ Head(io_queue[i]) = io_queue[i][1]
         /\ DOMAIN io_queue[i] = 1 .. Len(io_queue[i]) /\ Len(io_queue[i]) \in Nat
         /\ Tail(io_queue[i]) \in Seq(ChunksOf(i))
         /\ DOMAIN Tail(io_queue[i]) = 1 .. (Len(io_queue[i]) - 1)
         /\ Len(Tail(io_queue[i])) = Len(io_queue[i]) - 1
         /\ \A k \in DOMAIN Tail(io_queue[i]) :
                /\ k + 1 \in DOMAIN io_queue[i]
                /\ Tail(io_queue[i])[k] = io_queue[i][k + 1]
         /\ io_queue[i][1] \in ChunksOf(i)
<1>1. io_queue[i] \in Seq(ChunksOf(i))
  BY DEF InputTypes
<1> HIDE DEF InputTypes
<1> QED BY <1>1, HeadTailProperties, LenProperties, ElementOfSeq

(* A CPU worker takes the head of its queue: either it holds the batch     *)
(* made of it, or the units are skipped.                                   *)
TakesHead(i) ==
    /\ i \notin cpu_done
    /\ io_queue[i] # <<>>
    /\ outbox[i] = None
    /\ io_queue' = [io_queue EXCEPT ![i] = Tail(@)]
    /\ UNCHANGED <<channel, read, flushed, io_done, cpu_done>>
    /\ DOMAIN outbox' = Inputs
    /\ \A j \in Inputs : j # i => outbox'[j] = outbox[j]
    /\ \/ /\ outbox'[i] \in BatchesOf(i)
          /\ outbox'[i].from = io_queue[i][1].from
          /\ outbox'[i].to = io_queue[i][1].to
       \/ outbox'[i] = None /\ Units(io_queue[i][1]) \subseteq skipped'

(* Either way the chunks that follow still start where it ended.           *)
LEMMA TakesHeadKeeps ==
  ASSUME InputInv, CoordinatorIdle, NEW i \in Inputs, TakesHead(i)
  PROVE  InputInv'
<1> DEFINE q == io_queue[i]
           chunk == io_queue[i][1]
<1>1. /\ 1 \in DOMAIN q
      /\ DOMAIN q = 1 .. Len(q) /\ Len(q) \in Nat
      /\ Tail(q) \in Seq(ChunksOf(i))
      /\ DOMAIN Tail(q) = 1 .. (Len(q) - 1)
      /\ Len(Tail(q)) = Len(q) - 1
      /\ \A k \in DOMAIN Tail(q) : k + 1 \in DOMAIN q /\ Tail(q)[k] = q[k + 1]
      /\ chunk \in ChunksOf(i)
  BY HeadOfQueue DEF InputInv, TakesHead
<1>2. /\ DOMAIN io_queue' = Inputs
      /\ io_queue'[i] = Tail(q)
      /\ \A j \in Inputs : j # i => io_queue'[j] = io_queue[j] /\ outbox'[j] = outbox[j]
      /\ channel' = channel /\ read' = read /\ flushed' = flushed
      /\ io_done' = io_done /\ cpu_done' = cpu_done
      /\ outbox[i] = None /\ i \notin cpu_done
      /\ DOMAIN outbox' = Inputs
      /\ outbox'[i] \in BatchesOf(i) \cup {None}
      /\ outbox'[i] # None => /\ outbox'[i].from = chunk.from
                              /\ outbox'[i].to = chunk.to
      /\ outbox'[i] = None => Units(chunk) \subseteq skipped'
  <2>1. None \notin BatchesOf(i)
    BY OptionAssumption DEF Batches
  <2> QED BY <2>1 DEF TakesHead, InputInv, InputTypes
<1>3. /\ \A s \in SourcesOf(i) : chunk.from[s] \in Nat /\ chunk.to[s] \in Nat
      /\ DOMAIN chunk.to = SourcesOf(i)
      /\ \A j \in Inputs : SourcesOf(j) \subseteq Sources
      /\ \A s \in Sources : flushed[s] \in Nat /\ read[s] \in Nat
      /\ \A j \in Inputs : \A k \in DOMAIN io_queue[j] : \A s \in SourcesOf(j) :
            io_queue[j][k].from[s] \in Nat /\ io_queue[j][k].to[s] \in Nat
      /\ \A j \in Inputs : outbox[j] # None => \A s \in SourcesOf(j) :
            outbox[j].from[s] \in Nat /\ outbox[j].to[s] \in Nat
  BY <1>1, ChunkFacts, ChainTypes DEF InputInv
<1>4. Len(Tail(q)) <= IoQueueCapacity
  BY <1>1, RunAssumptions DEF InputInv, InputTypes
<1> HIDE DEF q, chunk
<1>5. InputTypes'
  BY <1>1, <1>2, <1>4 DEF InputInv, InputTypes
<1>6. NothingEmpty' /\ DrainEnds'
  <2>1. SourcesOf(i) # {}
    BY DEF InputInv, NothingEmpty, TakesHead
  <2> QED BY <1>2, <2>1 DEF InputInv, NothingEmpty, DrainEnds, CoordinatorIdle
<1>7. WorkersExit'
  <2>1. \A j \in cpu_done : j \in Inputs /\ j # i
    BY <1>2 DEF InputInv, InputTypes
  <2> QED BY <1>2, <2>1 DEF InputInv, WorkersExit, CoordinatorIdle
<1>8. \A s \in Sources : \A c \in Nat : PastChannel(s, c) => PastChannel(s, c)'
  BY <1>2 DEF PastChannel, CoordinatorIdle, Evolves
<1>9. ChannelOrder'
  BY <1>2, ChainTypes DEF InputInv, InputOrder, ChannelOrder, CoordinatorIdle, Evolves
<1>10. \A j \in Inputs : \A s \in SourcesOf(j) : \A c \in Nat :
           PastOutbox(j, s, c) /\ (j = i => chunk.to[s] <= c) => PastOutbox(j, s, c)'
  BY <1>2, <1>3, <1>8 DEF PastOutbox
<1>11. ASSUME NEW s \in SourcesOf(i)
       PROVE  /\ chunk.from[s] <= chunk.to[s]
              /\ PastOutbox(i, s, chunk.from[s])
              /\ chunk.to[s] <= flushed[s]
              /\ \A k \in DOMAIN Tail(q) : chunk.to[s] <= Tail(q)[k].from[s]
  <2>1. /\ chunk.from[s] <= chunk.to[s] /\ PastOutbox(i, s, chunk.from[s])
        /\ chunk.to[s] <= flushed[s]
    BY <1>1 DEF q, chunk, InputInv, InputOrder, QueueOrder, BufferOrder
  <2>2. \A k \in DOMAIN q : 1 < k => chunk.to[s] <= q[k].from[s]
    BY <1>1 DEF q, chunk, InputInv, InputOrder, QueueOrder
  <2>3. \A k \in DOMAIN Tail(q) : 1 < k + 1
    BY <1>1
  <2> QED BY <1>1, <2>1, <2>2, <2>3
<1>12. OutboxOrder'
  <2> SUFFICES ASSUME NEW j \in Inputs, outbox'[j] # None, NEW s \in SourcesOf(j)
               PROVE  /\ outbox'[j].from[s] <= outbox'[j].to[s]
                      /\ PastChannel(s, outbox[j].from[s])'
    BY DEF OutboxOrder
  <2>1. CASE j # i
    <3>1. outbox'[j] = outbox[j] /\ s \in Sources /\ outbox[j].from[s] \in Nat
      BY <1>2, <1>3, <2>1
    <3>2. outbox[j].from[s] <= outbox[j].to[s] /\ PastChannel(s, outbox[j].from[s])
      BY <3>1 DEF InputInv, InputOrder, OutboxOrder
    <3> QED BY <1>8, <3>1, <3>2
  <2>2. CASE j = i
    <3>1. /\ outbox'[j].from[s] = chunk.from[s] /\ outbox'[j].to[s] = chunk.to[s]
          /\ s \in Sources /\ chunk.from[s] \in Nat
      BY <1>2, <1>3, <2>2
    <3>2. PastChannel(s, chunk.from[s])
      BY <1>11, <2>2 DEF PastOutbox
    <3> QED BY <1>8, <1>11, <2>2, <3>1, <3>2
  <2> QED BY <2>1, <2>2
<1>13. QueueOrder'
  <2> SUFFICES ASSUME NEW j \in Inputs, NEW k \in DOMAIN io_queue'[j], NEW s \in SourcesOf(j)
               PROVE  /\ io_queue'[j][k].from[s] <= io_queue'[j][k].to[s]
                      /\ PastOutbox(j, s, io_queue[j][k].from[s])'
                      /\ \A l \in DOMAIN io_queue'[j] :
                             l < k => io_queue'[j][l].to[s] <= io_queue'[j][k].from[s]
    BY DEF QueueOrder
  <2>1. CASE j # i
    <3>1. io_queue'[j] = io_queue[j] /\ io_queue[j][k].from[s] \in Nat
      BY <1>2, <1>3, <2>1
    <3>2. /\ io_queue[j][k].from[s] <= io_queue[j][k].to[s]
          /\ PastOutbox(j, s, io_queue[j][k].from[s])
          /\ \A l \in DOMAIN io_queue[j] :
                 l < k => io_queue[j][l].to[s] <= io_queue[j][k].from[s]
      BY <3>1 DEF InputInv, InputOrder, QueueOrder
    <3> QED BY <1>10, <2>1, <3>1, <3>2
  <2>2. CASE j = i
    <3>1. /\ k + 1 \in DOMAIN q /\ io_queue'[j][k] = q[k + 1] /\ k \in DOMAIN Tail(q)
          /\ \A l \in DOMAIN io_queue'[j] : l + 1 \in DOMAIN q /\ io_queue'[j][l] = q[l + 1]
          /\ \A l \in DOMAIN io_queue'[j] : l < k => l + 1 < k + 1
      BY <1>1, <1>2, <2>2
    <3>2. /\ q[k + 1].from[s] <= q[k + 1].to[s]
          /\ PastOutbox(i, s, q[k + 1].from[s])
          /\ \A l \in DOMAIN q : l < k + 1 => q[l].to[s] <= q[k + 1].from[s]
          /\ q[k + 1].from[s] \in Nat
      BY <1>3, <2>2, <3>1 DEF q, InputInv, InputOrder, QueueOrder
    <3>3. chunk.to[s] <= q[k + 1].from[s]
      BY <1>1, <1>11, <2>2, <3>1
    <3>4. \A c \in Nat : c = q[k + 1].from[s] => PastOutbox(j, s, c)'
      BY <1>10, <2>2, <3>2, <3>3
    <3> QED BY <3>1, <3>2, <3>4
  <2> QED BY <2>1, <2>2
<1>14. BufferOrder'
  <2> SUFFICES ASSUME NEW j \in Inputs, NEW s \in SourcesOf(j)
               PROVE  /\ PastOutbox(j, s, flushed[s])'
                      /\ \A k \in DOMAIN io_queue'[j] : io_queue'[j][k].to[s] <= flushed'[s]
                      /\ flushed'[s] <= read'[s]
    BY DEF BufferOrder
  <2>1. /\ PastOutbox(j, s, flushed[s]) /\ flushed[s] \in Nat
        /\ \A k \in DOMAIN io_queue[j] : io_queue[j][k].to[s] <= flushed[s]
        /\ flushed[s] <= read[s]
    BY <1>3 DEF InputInv, InputOrder, BufferOrder
  <2>2. \A c \in Nat : c = flushed[s] => PastOutbox(j, s, c)'
    BY <1>10, <1>11, <2>1
  <2>3. ASSUME NEW k \in DOMAIN io_queue'[j] PROVE io_queue'[j][k].to[s] <= flushed[s]
    <3>1. CASE j # i
      BY <1>2, <2>1, <2>3, <3>1
    <3>2. CASE j = i
      <4>1. k + 1 \in DOMAIN q /\ io_queue'[j][k] = q[k + 1]
        BY <1>1, <1>2, <2>3, <3>2
      <4>2. q[k + 1].to[s] <= flushed[s]
        BY <2>1, <3>2, <4>1 DEF q
      <4> QED BY <4>1, <4>2
    <3> QED BY <3>1, <3>2
  <2> QED BY <1>2, <2>1, <2>2, <2>3
<1>15. NothingLost'
  <2> SUFFICES ASSUME rx_open, NEW j \in Inputs, NEW s \in SourcesOf(j), NEW n \in 1 .. flushed[s]
               PROVE  Passed(s, n)' \/ InChannel(s, n)' \/ InWorker(j, s, n)'
    BY <1>2 DEF NothingLost, CoordinatorIdle
  <2>1. s \in Sources /\ n \in Nat
    BY <1>3
  <2>2. Passed(s, n) \/ InChannel(s, n) \/ InWorker(j, s, n)
    BY DEF InputInv, NothingLost
  <2>3. CASE Passed(s, n) \/ InChannel(s, n)
    BY <1>2, <2>1, <2>3 DEF CoordinatorIdle, Evolves, InChannel
  <2>4. CASE InWorker(j, s, n) /\ j # i
    BY <1>2, <2>4 DEF InWorker
  <2>5. CASE InWorker(j, s, n) /\ j = i
    <3>1. PICK k \in DOMAIN q : <<s, n>> \in Units(q[k])
      BY <1>2, <2>5 DEF InWorker, q
    <3>2. CASE k = 1
      <4>1. <<s, n>> \in Units(chunk)
        BY <3>1, <3>2 DEF q, chunk
      <4>2. CASE outbox'[i] = None
        BY <1>2, <4>1, <4>2 DEF Passed
      <4>3. CASE outbox'[i] # None
        <5>1. <<s, n>> \in Units(outbox'[i])
          BY <1>2, <4>1, <4>3, UnitsOf
        <5> QED BY <2>5, <4>3, <5>1 DEF InWorker
      <4> QED BY <4>2, <4>3
    <3>3. CASE k # 1
      <4>1. k - 1 \in DOMAIN Tail(q) /\ (k - 1) + 1 = k
        BY <1>1, <3>3
      <4>2. Tail(q)[k - 1] = q[k]
        BY <1>1, <4>1
      <4> QED BY <1>2, <2>5, <3>1, <4>1, <4>2 DEF InWorker
    <3> QED BY <3>2, <3>3
  <2> QED BY <2>2, <2>3, <2>4, <2>5
<1> QED BY <1>5, <1>6, <1>7, <1>9, <1>12, <1>13, <1>14, <1>15 DEF InputInv, InputOrder

(* The CPU worker makes a batch of a chunk, or drops the chunk.            *)
LEMMA CpuTakes ==
  ASSUME InputInv, CoordinatorIdle, NEW i \in Inputs, UNCHANGED channel,
         (\E rows \in BOOLEAN : CpuProcess(i, rows)) \/ CpuDrop(i)
  PROVE  InputInv'
<1>1. io_queue[i] # <<>> /\ outbox[i] = None /\ i \notin cpu_done
  BY DEF CpuProcess, CpuDrop
<1>2. /\ Head(io_queue[i]) = io_queue[i][1]
      /\ io_queue[i][1] \in ChunksOf(i)
  BY <1>1, HeadOfQueue DEF InputInv
<1>3. DOMAIN outbox = Inputs
  BY DEF InputInv, InputTypes
<1>4. ASSUME NEW rows \in BOOLEAN, CpuProcess(i, rows)
      PROVE  TakesHead(i)
  <2>1. outbox' = [outbox EXCEPT ![i] = [from |-> io_queue[i][1].from,
                                         to |-> io_queue[i][1].to, rows |-> rows]]
    BY <1>2, <1>4 DEF CpuProcess
  <2>2. /\ outbox'[i] = [from |-> io_queue[i][1].from, to |-> io_queue[i][1].to, rows |-> rows]
        /\ DOMAIN outbox' = Inputs
        /\ \A j \in Inputs : j # i => outbox'[j] = outbox[j]
    BY <1>3, <2>1
  <2>3. /\ outbox'[i] \in BatchesOf(i)
        /\ outbox'[i].from = io_queue[i][1].from
        /\ outbox'[i].to = io_queue[i][1].to
    BY <1>2, <2>2 DEF ChunksOf, BatchesOf
  <2> QED BY <1>1, <1>4, <2>2, <2>3 DEF TakesHead, CpuProcess
<1>5. CpuDrop(i) => TakesHead(i)
  BY <1>1, <1>2, <1>3 DEF TakesHead, CpuDrop
<1> QED BY <1>4, <1>5, TakesHeadKeeps

(* blocking_send: the batch is the youngest of its sources in the channel. *)
LEMMA CpuSendKeeps ==
  ASSUME InputInv, CoordinatorIdle, NEW i \in Inputs, CpuSend(i)
  PROVE  InputInv'
<1> DEFINE batch == outbox[i]
           last == Len(channel) + 1
<1>1. /\ batch # None /\ rx_open /\ Len(channel) < ChannelCapacity
      /\ channel' = Append(channel, batch)
      /\ outbox' = [outbox EXCEPT ![i] = None]
      /\ read' = read /\ flushed' = flushed /\ io_queue' = io_queue
      /\ io_done' = io_done /\ cpu_done' = cpu_done
  BY DEF CpuSend
<1>2. /\ batch \in BatchesOf(i) /\ batch \in Batches
      /\ DOMAIN batch.to = SourcesOf(i)
      /\ \A s \in SourcesOf(i) : batch.from[s] \in Nat /\ batch.to[s] \in Nat
      /\ DOMAIN outbox = Inputs
      /\ channel \in Seq(Batches)
  BY <1>1, BatchOfFacts DEF InputInv, InputTypes
<1>3. /\ \A s \in Sources : flushed[s] \in Nat /\ read[s] \in Nat
      /\ \A j \in Inputs : SourcesOf(j) \subseteq Sources
      /\ \A j \in Inputs : \A k \in DOMAIN io_queue[j] : \A s \in SourcesOf(j) :
            io_queue[j][k].from[s] \in Nat /\ io_queue[j][k].to[s] \in Nat
      /\ \A j \in Inputs : outbox[j] # None => \A s \in SourcesOf(j) :
            outbox[j].from[s] \in Nat /\ outbox[j].to[s] \in Nat
      /\ \A k \in DOMAIN channel : \A s \in DOMAIN channel[k].to :
            s \in Sources /\ channel[k].from[s] \in Nat
  BY ChainTypes DEF InputInv
<1>4. /\ outbox'[i] = None /\ DOMAIN outbox' = Inputs
      /\ \A j \in Inputs : j # i => outbox'[j] = outbox[j]
  BY <1>1, <1>2
<1>5. i \notin cpu_done
  BY <1>1 DEF InputInv, WorkersExit
<1> HIDE DEF batch
<1>6. /\ channel' \in Seq(Batches) /\ Len(channel') = Len(channel) + 1
      /\ Len(channel) \in Nat
      /\ DOMAIN channel = 1 .. Len(channel)
      /\ DOMAIN channel' = 1 .. (Len(channel) + 1)
      /\ channel'[last] = batch
      /\ \A k \in DOMAIN channel : channel'[k] = channel[k]
  BY <1>1, <1>2, AppendProperties, LenProperties
<1>7. Len(channel') <= ChannelCapacity
  BY <1>1, <1>6, RunAssumptions
<1>8. InputTypes'
  BY <1>1, <1>4, <1>6, <1>7 DEF InputInv, InputTypes
<1>9. NothingEmpty'
  <2>1. SourcesOf(i) # {}
    BY <1>1 DEF InputInv, NothingEmpty, batch
  <2>2. \A k \in DOMAIN channel' : DOMAIN channel'[k].to # {}
    BY <1>2, <1>6, <2>1 DEF InputInv, NothingEmpty
  <2> QED BY <1>1, <1>4, <2>2 DEF InputInv, NothingEmpty
<1>10. DrainEnds'
  <2>1. cpu_done # Inputs
    BY <1>5
  <2> QED BY <1>1, <2>1 DEF InputInv, DrainEnds, CoordinatorIdle
<1>11. WorkersExit'
  BY <1>1, <1>4 DEF InputInv, InputTypes, WorkersExit, CoordinatorIdle
<1>12. ASSUME NEW j \in Inputs, NEW s \in SourcesOf(j), NEW c \in Nat
       PROVE  /\ j # i /\ PastChannel(s, c) => PastChannel(s, c)'
              /\ PastOutbox(j, s, c) => PastOutbox(j, s, c)'
  <2>1. s \in Sources
    BY <1>3
  <2>2. Top(s, c) => Top(s, c)'
    BY <2>1 DEF CoordinatorIdle, Evolves
  <2>3. \A k \in DOMAIN channel' : \/ k \in DOMAIN channel /\ channel'[k] = channel[k]
                                   \/ k = last /\ channel'[k] = batch
    BY <1>6
  <2>4. CASE j # i
    <3>1. s \notin DOMAIN batch.to
      BY <1>2, <2>4, OneInput
    <3>2. PastChannel(s, c) => PastChannel(s, c)'
      BY <2>2, <2>3, <3>1 DEF PastChannel
    <3> QED BY <1>4, <2>4, <3>2 DEF PastOutbox
  <2>5. CASE j = i
    <3>1. PastChannel(s, c) /\ batch.to[s] <= c => PastChannel(s, c)'
      BY <2>2, <2>3 DEF PastChannel
    <3> QED BY <1>1, <1>4, <2>5, <3>1 DEF PastOutbox, batch
  <2> QED BY <2>4, <2>5
<1>13. ChannelOrder'
  <2> SUFFICES ASSUME NEW k \in DOMAIN channel', NEW s \in DOMAIN channel'[k].to
               PROVE  /\ channel'[k].from[s] <= channel'[k].to[s]
                      /\ Top(s, channel[k].from[s])'
                      /\ \A l \in DOMAIN channel' : l < k /\ s \in DOMAIN channel'[l].to =>
                             channel'[l].to[s] <= channel'[k].from[s]
    BY DEF ChannelOrder
  <2>1. CASE k \in DOMAIN channel
    <3>1. /\ channel'[k] = channel[k]
          /\ \A l \in DOMAIN channel' : l < k => l \in DOMAIN channel /\ channel'[l] = channel[l]
      BY <1>6, <2>1
    <3>2. /\ channel[k].from[s] <= channel[k].to[s]
          /\ Top(s, channel[k].from[s])
          /\ \A l \in DOMAIN channel : l < k /\ s \in DOMAIN channel[l].to =>
                 channel[l].to[s] <= channel[k].from[s]
      BY <2>1, <3>1 DEF InputInv, InputOrder, ChannelOrder
    <3>3. \A c \in Nat : c = channel[k].from[s] => Top(s, c)'
      BY <1>3, <2>1, <3>1, <3>2 DEF CoordinatorIdle, Evolves
    <3>4. s \in DOMAIN channel[k].to /\ channel[k].from[s] \in Nat
      BY <1>3, <2>1, <3>1
    <3> QED BY <3>1, <3>2, <3>3, <3>4
  <2>2. CASE k \notin DOMAIN channel
    <3>1. /\ channel'[k] = batch /\ s \in SourcesOf(i) /\ s \in Sources
          /\ \A l \in DOMAIN channel' : l < k => l \in DOMAIN channel /\ channel'[l] = channel[l]
      BY <1>2, <1>3, <1>6, <2>2
    <3>2. batch.from[s] <= batch.to[s] /\ PastChannel(s, batch.from[s])
      BY <1>1, <3>1 DEF InputInv, InputOrder, OutboxOrder, batch
    <3>3. \A c \in Nat : c = batch.from[s] => Top(s, c)'
      BY <3>1, <3>2 DEF CoordinatorIdle, Evolves, PastChannel
    <3> QED BY <1>2, <3>1, <3>2, <3>3 DEF PastChannel
  <2> QED BY <2>1, <2>2
<1>14. OutboxOrder'
  <2> SUFFICES ASSUME NEW j \in Inputs, j # i, outbox[j] # None, NEW s \in SourcesOf(j)
               PROVE  /\ outbox[j].from[s] <= outbox[j].to[s]
                      /\ \A c \in Nat : c = outbox[j].from[s] => PastChannel(s, c)'
    BY <1>3, <1>4 DEF OutboxOrder
  <2> QED BY <1>12 DEF InputInv, InputOrder, OutboxOrder
<1>15. QueueOrder'
  BY <1>1, <1>3, <1>12 DEF InputInv, InputOrder, QueueOrder
<1>16. BufferOrder'
  BY <1>1, <1>3, <1>12 DEF InputInv, InputOrder, BufferOrder
<1>17. NothingLost'
  <2> SUFFICES ASSUME rx_open, NEW j \in Inputs, NEW s \in SourcesOf(j), NEW n \in 1 .. flushed[s]
               PROVE  Passed(s, n)' \/ InChannel(s, n)' \/ InWorker(j, s, n)'
    BY <1>1 DEF NothingLost, CoordinatorIdle
  <2>1. s \in Sources /\ n \in Nat
    BY <1>3
  <2>2. Passed(s, n) \/ InChannel(s, n) \/ InWorker(j, s, n)
    BY DEF InputInv, NothingLost
  <2>3. CASE Passed(s, n) \/ InChannel(s, n)
    BY <1>6, <2>1, <2>3 DEF CoordinatorIdle, Evolves, InChannel
  <2>4. CASE InWorker(j, s, n)
    <3>1. last \in DOMAIN channel'
      BY <1>6
    <3> QED BY <1>1, <1>4, <1>6, <2>4, <3>1 DEF InWorker, InChannel, batch
  <2> QED BY <2>2, <2>3, <2>4
<1> QED BY <1>8, <1>9, <1>10, <1>11, <1>13, <1>14, <1>15, <1>16, <1>17 DEF InputInv, InputOrder

(* The exit of a CPU worker: it holds nothing, or nobody receives it.      *)
LEMMA CpuExitKeeps ==
  ASSUME InputInv, CoordinatorIdle, NEW i \in Inputs, CpuExit(i), UNCHANGED channel
  PROVE  InputInv'
<1>1. /\ i \notin cpu_done
      /\ \/ i \in io_done /\ io_queue[i] = <<>> /\ outbox[i] = None
         \/ outbox[i] # None /\ ~rx_open
      /\ cpu_done' = cpu_done \cup {i}
      /\ read' = read /\ flushed' = flushed /\ io_done' = io_done /\ channel' = channel
  BY DEF CpuExit
<1>2. /\ DOMAIN outbox' = Inputs /\ outbox'[i] = None
      /\ DOMAIN io_queue' = Inputs /\ io_queue'[i] = <<>>
      /\ \A j \in Inputs : j # i => outbox'[j] = outbox[j] /\ io_queue'[j] = io_queue[j]
  BY DEF CpuExit, InputInv, InputTypes
<1>3. /\ \A s \in Sources : flushed[s] \in Nat /\ read[s] \in Nat
      /\ \A j \in Inputs : SourcesOf(j) \subseteq Sources
      /\ \A j \in Inputs : \A k \in DOMAIN io_queue[j] : \A s \in SourcesOf(j) :
            io_queue[j][k].from[s] \in Nat /\ io_queue[j][k].to[s] \in Nat
      /\ \A j \in Inputs : outbox[j] # None => \A s \in SourcesOf(j) :
            outbox[j].from[s] \in Nat /\ outbox[j].to[s] \in Nat
  BY ChainTypes DEF InputInv
<1>4. /\ io_queue'[i] \in Seq(ChunksOf(i)) /\ Len(io_queue'[i]) <= IoQueueCapacity
      /\ DOMAIN io_queue'[i] = {}
  BY <1>2, EmptySeq, RunAssumptions
<1>5. InputTypes'
  BY <1>1, <1>2, <1>4 DEF InputInv, InputTypes
<1>6. NothingEmpty'
  BY <1>1, <1>2 DEF InputInv, NothingEmpty
<1>7. DrainEnds'
  <2>1. cpu_done # Inputs
    BY <1>1
  <2> QED BY <1>1, <2>1 DEF InputInv, DrainEnds, CoordinatorIdle
<1>8. WorkersExit'
  BY <1>1, <1>2 DEF InputInv, InputTypes, WorkersExit, CoordinatorIdle
<1>9. \A s \in Sources : \A c \in Nat : PastChannel(s, c) => PastChannel(s, c)'
  BY <1>1 DEF PastChannel, CoordinatorIdle, Evolves
<1>10. \A j \in Inputs : \A s \in SourcesOf(j) : \A c \in Nat :
           PastOutbox(j, s, c) => PastOutbox(j, s, c)'
  BY <1>2, <1>3, <1>9 DEF PastOutbox
<1>11. ChannelOrder'
  BY <1>1, ChainTypes DEF InputInv, InputOrder, ChannelOrder, CoordinatorIdle, Evolves
<1>12. OutboxOrder'
  <2> SUFFICES ASSUME NEW j \in Inputs, j # i, outbox[j] # None, NEW s \in SourcesOf(j)
               PROVE  /\ outbox[j].from[s] <= outbox[j].to[s]
                      /\ \A c \in Nat : c = outbox[j].from[s] => PastChannel(s, c)'
    BY <1>2, <1>3 DEF OutboxOrder
  <2> QED BY <1>3, <1>9 DEF InputInv, InputOrder, OutboxOrder
<1>13. QueueOrder'
  <2> SUFFICES ASSUME NEW j \in Inputs, j # i, NEW k \in DOMAIN io_queue[j], NEW s \in SourcesOf(j)
               PROVE  /\ io_queue[j][k].from[s] <= io_queue[j][k].to[s]
                      /\ \A c \in Nat : c = io_queue[j][k].from[s] => PastOutbox(j, s, c)'
                      /\ \A l \in DOMAIN io_queue[j] :
                             l < k => io_queue[j][l].to[s] <= io_queue[j][k].from[s]
    BY <1>2, <1>3, <1>4 DEF QueueOrder
  <2> QED BY <1>10 DEF InputInv, InputOrder, QueueOrder
<1>14. BufferOrder'
  BY <1>1, <1>2, <1>3, <1>4, <1>10 DEF InputInv, InputOrder, BufferOrder
<1>15. NothingLost'
  <2> SUFFICES ASSUME rx_open, NEW j \in Inputs, NEW s \in SourcesOf(j), NEW n \in 1 .. flushed[s]
               PROVE  Passed(s, n)' \/ InChannel(s, n)' \/ InWorker(j, s, n)'
    BY <1>1 DEF NothingLost, CoordinatorIdle
  <2>1. s \in Sources /\ n \in Nat
    BY <1>3
  <2>2. Passed(s, n) \/ InChannel(s, n) \/ InWorker(j, s, n)
    BY DEF InputInv, NothingLost
  <2>3. CASE Passed(s, n) \/ InChannel(s, n)
    BY <1>1, <2>1, <2>3 DEF CoordinatorIdle, Evolves, InChannel
  <2>4. CASE InWorker(j, s, n)
    <3>1. j # i
      BY <1>1, <2>4 DEF InWorker
    <3> QED BY <1>2, <2>4, <3>1 DEF InWorker
  <2> QED BY <2>2, <2>3, <2>4
<1> QED BY <1>5, <1>6, <1>7, <1>8, <1>11, <1>12, <1>13, <1>14, <1>15 DEF InputInv, InputOrder

-----------------------------------------------------------------------------
(* Every step keeps the invariant.                                         *)

(* Items that nobody touches.                                              *)
LEMMA ItemsKept ==
  ASSUME PoolTypes, OnePlace, AcksSettled, UNCHANGED <<submitting, pool, acks, parked>>,
         settled \subseteq settled'
  PROVE  PoolTypes' /\ OnePlace' /\ AcksSettled' /\ Keeps({})
<1>1. PoolTypes' /\ OnePlace'
  BY DEF PoolTypes, OnePlace
<1>2. AcksSettled'
  BY DEF AcksSettled
<1>3. Keeps({})
  BY DEF Keeps, Live
<1> QED BY <1>1, <1>2, <1>3

(* A step that touches neither the items nor the machine: with ParkStep.   *)
LEMMA MachineIdle ==
  ASSUME RunInv, UNCHANGED <<submitting, pool, acks, parked, next_id, tracking, store>>,
         Grows, durable' \in FlushResults(store)
  PROVE  /\ PoolTypes' /\ OnePlace' /\ AcksSettled'
         /\ MachineOK' /\ Evolves
<1>1. PoolTypes' /\ OnePlace' /\ AcksSettled' /\ Keeps({})
  BY ItemsKept DEF RunInv, RunTypes, Grows
<1>2. parked' = parked \cup {}
  OBVIOUS
<1>3. MachineOK' /\ Evolves
  <2>1. {} \in SUBSET BatchIds
    OBVIOUS
  <2>2. \A id \in {} : \E batch \in Batches : Live(id, batch)
    OBVIOUS
  <2> QED BY <1>1, <1>2, <2>1, <2>2, ParkStep DEF RunInv
<1> QED BY <1>1, <1>3

(* The input threads.                                                      *)
LEMMA InputStepKeeps == RunInv /\ InputStep => RunInv'
<1> SUFFICES ASSUME RunInv, InputStep PROVE RunInv'
  OBVIOUS
<1>1. /\ UNCHANGED <<pc, shutdown, rx_open, submitting, pool, acks>>
      /\ UNCHANGED <<next_id, tracking, store, durable, forced>>
      /\ UNCHANGED <<settled, parked>>
  BY DEF InputStep, ckptVars
<1>2. Grows
  BY <1>1 DEF InputStep, CpuDrop, Grows
<1>3. durable' \in FlushResults(store)
  BY <1>1 DEF FlushResults
<1>4. PoolTypes' /\ OnePlace' /\ AcksSettled' /\ MachineOK' /\ Evolves
  BY <1>1, <1>2, <1>3, MachineIdle
<1>5. CoordinatorTypes' /\ Places' /\ CleanStop'
  <2>1. \A s \in Sources : InFlight(s)' = InFlight(s)
    BY <1>1 DEF InFlight
  <2> QED BY <1>1, <2>1 DEF RunInv, RunTypes, CoordinatorTypes, Places, CleanStop
<1>6. InputInv /\ CoordinatorIdle /\ CoordinatorTypes
  BY <1>1, <1>4 DEF RunInv, RunTypes, InputInv, CoordinatorIdle, CoordinatorTypes
<1>7. InputInv'
  <2>1. ASSUME NEW s \in Sources, IoPoll(s), UNCHANGED channel PROVE InputInv'
    BY <1>6, <2>1, IoPollKeeps
  <2>2. ASSUME NEW i \in Inputs, UNCHANGED channel,
               IoFlush(i) \/ IoExit(i) \/ CpuExit(i)
        PROVE  InputInv'
    BY <1>6, <2>2, IoFlushKeeps, IoExitKeeps, CpuExitKeeps
  <2>3. ASSUME NEW i \in Inputs, UNCHANGED channel,
               (\E rows \in BOOLEAN : CpuProcess(i, rows)) \/ CpuDrop(i)
        PROVE  InputInv'
    BY <1>6, <2>3, CpuTakes
  <2>4. ASSUME NEW i \in Inputs, CpuSend(i) PROVE InputInv'
    BY <1>6, <2>4, CpuSendKeeps
  <2> QED BY <2>1, <2>2, <2>3, <2>4 DEF InputStep
<1> QED BY <1>4, <1>5, <1>7 DEF RunInv, RunTypes, InputInv

(* Steps that touch neither items nor machine, and at most close the       *)
(* channel.                                                                *)
Quiet ==
    /\ UNCHANGED inputVars
    /\ UNCHANGED <<submitting, pool, acks, parked, next_id, tracking, store, forced>>
    /\ UNCHANGED <<settled, skipped>>
    /\ durable' \in FlushResults(store)
    /\ \/ UNCHANGED <<channel, rx_open>>
       \/ channel' = <<>> /\ rx_open' = FALSE

(* What is left to show of such a step.                                    *)
LEMMA QuietKeeps ==
  ASSUME RunInv, Quiet, pc' \in PCs, shutdown' \in BOOLEAN, Places', DrainEnds', CleanStop'
  PROVE  RunInv'
<1>1. Grows
  BY DEF Quiet, Grows
<1>2. PoolTypes' /\ OnePlace' /\ AcksSettled' /\ MachineOK' /\ Evolves
  BY <1>1, MachineIdle DEF Quiet
<1>3. CoordinatorTypes'
  BY DEF Quiet, FlushResults, RunInv, RunTypes, CoordinatorTypes
<1>4. InputTypes /\ InputOrder /\ NothingLost
  BY DEF RunInv, RunTypes
<1>5. ReadsOn
  BY <1>4, InputsIdle DEF Quiet
<1>6. /\ read' = read /\ flushed' = flushed /\ io_queue' = io_queue /\ outbox' = outbox
      /\ io_done' = io_done /\ cpu_done' = cpu_done
  BY DEF Quiet, inputVars
<1>7. CASE UNCHANGED <<channel, rx_open>>
  <2>1. InputOrder' /\ NothingLost'
    BY <1>2, <1>4, <1>5, <1>7, ChainKept
  <2>2. InputTypes' /\ NothingEmpty' /\ WorkersExit'
    BY <1>6, <1>7 DEF RunInv, RunTypes, InputTypes, NothingEmpty, WorkersExit
  <2> QED BY <1>2, <1>3, <2>1, <2>2 DEF RunInv, RunTypes
<1>8. CASE channel' = <<>> /\ rx_open' = FALSE
  <2>1. \A s \in Sources : \A c \in Nat : PastChannel(s, c) => Top(s, c)'
    BY <1>2 DEF Evolves, PastChannel
  <2>2. InputOrder' /\ NothingLost'
    BY <1>4, <1>5, <1>8, <2>1, ChainCut
  <2>3. channel' \in Seq(Batches) /\ Len(channel') <= ChannelCapacity /\ DOMAIN channel' = {}
    BY <1>8, EmptySeq, RunAssumptions
  <2>4. InputTypes' /\ NothingEmpty' /\ WorkersExit'
    BY <1>6, <1>8, <2>3 DEF RunInv, RunTypes, InputTypes, NothingEmpty, WorkersExit
  <2> QED BY <1>2, <1>3, <2>2, <2>4 DEF RunInv, RunTypes
<1> QED BY <1>7, <1>8 DEF Quiet

(* The arms and requests that only move the coordinator on.                *)
LEMMA QuietStepsKeep ==
  RunInv /\ (\/ ShutdownArm \/ ControlShutdown \/ ControlFlush \/ ClosedArm
             \/ DrainEnd \/ Join \/ ShutdownRequest) => RunInv'
<1> SUFFICES ASSUME RunInv,
                    \/ ShutdownArm \/ ControlShutdown \/ ControlFlush \/ ClosedArm
                    \/ DrainEnd \/ Join \/ ShutdownRequest
             PROVE  RunInv'
  OBVIOUS
<1> USE DEF ckptVars
<1>1. Quiet
  BY DEF Quiet, FlushResults, ShutdownArm, ControlShutdown, ControlFlush, ClosedArm,
         DrainEnd, Join, ShutdownRequest
<1>2. pc' \in PCs /\ shutdown' \in BOOLEAN
  BY DEF RunInv, RunTypes, CoordinatorTypes, PCs, ShutdownArm, ControlShutdown,
         ControlFlush, ClosedArm, DrainEnd, Join, ShutdownRequest
<1>3. pc \in PCs /\ Places /\ DrainEnds /\ CleanStop
  BY DEF RunInv, RunTypes, CoordinatorTypes
<1>4. Places'
  BY <1>3 DEF Places, PCs, Selecting, ShutdownArm, ControlShutdown,
              ControlFlush, ClosedArm, DrainEnd, Join, ShutdownRequest
<1>5. DrainEnds'
  BY <1>3 DEF DrainEnds, PCs, Selecting, inputVars, ShutdownArm, ControlShutdown,
              ControlFlush, ClosedArm, DrainEnd, Join, ShutdownRequest
<1>6. CleanStop'
  BY <1>3 DEF CleanStop, InFlight, Selecting, ShutdownArm, ControlShutdown,
              ControlFlush, ClosedArm, DrainEnd, Join, ShutdownRequest
<1> QED BY <1>1, <1>2, <1>4, <1>5, <1>6, QuietKeeps

(* What is left of the invariant when a step leaves the input threads      *)
(* alone and takes from the channel only.                                  *)
LEMMA InputsFollow ==
  ASSUME RunInv, UNCHANGED inputVars, rx_open' => rx_open,
         \/ channel' = channel
         \/ channel' = <<>>
         \/ channel # <<>> /\ channel' = Tail(channel)
  PROVE  InputTypes' /\ NothingEmpty' /\ WorkersExit'
<1>1. /\ read' = read /\ flushed' = flushed /\ io_queue' = io_queue /\ outbox' = outbox
      /\ io_done' = io_done /\ cpu_done' = cpu_done
  BY DEF inputVars
<1>2. InputTypes /\ NothingEmpty /\ WorkersExit
  BY DEF RunInv, RunTypes
<1>3. WorkersExit'
  BY <1>1, <1>2 DEF WorkersExit
<1>4. /\ channel' \in Seq(Batches) /\ Len(channel') <= ChannelCapacity
      /\ \A k \in DOMAIN channel' : DOMAIN channel'[k].to # {}
  <2>1. CASE channel' = channel
    BY <1>2, <2>1 DEF InputTypes, NothingEmpty
  <2>2. CASE channel' = <<>>
    <3>1. channel' \in Seq(Batches) /\ Len(channel') <= ChannelCapacity /\ DOMAIN channel' = {}
      BY <2>2, EmptySeq, RunAssumptions
    <3> QED BY <3>1
  <2>3. CASE channel # <<>> /\ channel' = Tail(channel)
    <3>1. /\ Len(channel) \in Nat /\ Len(channel') = Len(channel) - 1
          /\ channel' \in Seq(Batches)
          /\ \A k \in DOMAIN channel' : k + 1 \in DOMAIN channel /\ channel'[k] = channel[k + 1]
      BY <1>2, <2>3, HeadOfChannel
    <3>2. Len(channel') <= ChannelCapacity
      BY <1>2, <3>1, RunAssumptions DEF InputTypes
    <3> QED BY <1>2, <3>1, <3>2 DEF NothingEmpty
  <2> QED BY <2>1, <2>2, <2>3
<1>5. InputTypes' /\ NothingEmpty'
  BY <1>1, <1>2, <1>4 DEF InputTypes, NothingEmpty
<1> QED BY <1>3, <1>5

(* An item that leaves the pool.                                           *)
LEMMA PoolWithout ==
  ASSUME PoolTypes, NEW id \in DOMAIN pool, pool' = Remove(pool, {id})
  PROVE  /\ DOMAIN pool' = DOMAIN pool \ {id}
         /\ \A x \in DOMAIN pool' : x \in DOMAIN pool /\ pool'[x] = pool[x]
         /\ DOMAIN pool' \subseteq BatchIds /\ IsFiniteSet(DOMAIN pool')
         /\ Cardinality(DOMAIN pool') <= PoolCapacity
         /\ \A x \in DOMAIN pool' : pool'[x] \in Batches
<1>1. /\ DOMAIN pool' = DOMAIN pool \ {id}
      /\ \A x \in DOMAIN pool' : x \in DOMAIN pool /\ pool'[x] = pool[x]
  BY DEF Remove
<1>2. /\ IsFiniteSet(DOMAIN pool) /\ Cardinality(DOMAIN pool) <= PoolCapacity
      /\ DOMAIN pool \subseteq BatchIds
      /\ \A x \in DOMAIN pool : pool[x] \in Batches
  BY DEF PoolTypes
<1>3. /\ IsFiniteSet(DOMAIN pool')
      /\ Cardinality(DOMAIN pool') = Cardinality(DOMAIN pool) - 1
      /\ Cardinality(DOMAIN pool) \in Nat
  BY <1>1, <1>2, FS_RemoveElement, FS_CardinalityType
<1>4. Cardinality(DOMAIN pool') <= PoolCapacity
  BY <1>2, <1>3, RunAssumptions
<1> QED BY <1>1, <1>2, <1>3, <1>4

(* An ack that joins the ack channel.                                      *)
LEMMA AckAppended ==
  ASSUME acks \in Seq(Acks), NEW ack \in Acks, acks' = Append(acks, ack)
  PROVE  /\ acks' \in Seq(Acks)
         /\ DOMAIN acks' = DOMAIN acks \cup {Len(acks) + 1}
         /\ Len(acks) + 1 \notin DOMAIN acks
         /\ acks'[Len(acks) + 1] = ack
         /\ \A k \in DOMAIN acks : acks'[k] = acks[k]
<1>1. /\ Len(acks) \in Nat /\ DOMAIN acks = 1 .. Len(acks)
      /\ acks' \in Seq(Acks) /\ Len(acks') = Len(acks) + 1
      /\ DOMAIN acks' = 1 .. Len(acks')
      /\ \A k \in 1 .. Len(acks) : acks'[k] = acks[k]
      /\ acks'[Len(acks) + 1] = ack
  BY AppendProperties, LenProperties
<1> QED BY <1>1

(* Steps that leave the machine alone, park some items and move others.    *)
LEMMA ParkKeeps ==
  ASSUME RunInv, UNCHANGED inputVars, UNCHANGED <<next_id, tracking, store, durable, forced>>,
         UNCHANGED skipped, settled \subseteq settled', PoolTypes', OnePlace', AcksSettled',
         NEW ids \in SUBSET BatchIds, Keeps(ids), parked' = parked \cup ids,
         \A id \in ids : \E batch \in Batches : Live(id, batch),
         pc' \in PCs, shutdown' \in BOOLEAN,
         \/ UNCHANGED <<channel, rx_open>>
         \/ channel' = <<>> /\ rx_open' = FALSE,
         Places', DrainEnds', CleanStop'
  PROVE  RunInv'
<1>1. MachineOK' /\ Evolves
  BY ParkStep DEF RunInv, Grows, FlushResults
<1>2. CoordinatorTypes'
  BY DEF RunInv, RunTypes, CoordinatorTypes
<1>3. InputTypes /\ InputOrder /\ NothingLost
  BY DEF RunInv, RunTypes
<1>4. ReadsOn
  BY <1>3, InputsIdle
<1>5. InputTypes' /\ NothingEmpty' /\ WorkersExit'
  BY InputsFollow
<1>6. InputOrder' /\ NothingLost'
  <2>1. CASE UNCHANGED <<channel, rx_open>>
    BY <1>1, <1>3, <1>4, <2>1, ChainKept
  <2>2. CASE channel' = <<>> /\ rx_open' = FALSE
    <3>1. \A s \in Sources : \A c \in Nat : PastChannel(s, c) => Top(s, c)'
      BY <1>1 DEF Evolves, PastChannel
    <3> QED BY <1>3, <1>4, <2>2, <3>1, ChainCut
  <2> QED BY <2>1, <2>2
<1> QED BY <1>1, <1>2, <1>5, <1>6 DEF RunInv, RunTypes

(* pool.submit finds room.                                                 *)
LEMMA PoolAcceptKeeps == RunInv /\ PoolAccept => RunInv'
<1> SUFFICES ASSUME RunInv, PoolAccept PROVE RunInv'
  OBVIOUS
<1>1. /\ submitting # None /\ Cardinality(DOMAIN pool) < PoolCapacity
      /\ pool' = Insert(pool, submitting.id, submitting.batch)
      /\ submitting' = None /\ UNCHANGED inputVars
      /\ UNCHANGED <<pc, shutdown, rx_open, channel, acks>>
      /\ UNCHANGED <<next_id, tracking, store, durable, forced>>
      /\ UNCHANGED <<settled, skipped, parked>>
  BY DEF PoolAccept, ckptVars
<1>2. /\ PoolTypes /\ OnePlace /\ AcksSettled /\ Places /\ DrainEnds /\ CleanStop
      /\ CoordinatorTypes
  BY DEF RunInv, RunTypes
<1>3. /\ submitting.id \in BatchIds /\ submitting.batch \in Batches
      /\ submitting.id \notin DOMAIN pool
  BY <1>1, <1>2 DEF PoolTypes, Items, OnePlace
<1>4. /\ DOMAIN pool' = DOMAIN pool \cup {submitting.id}
      /\ pool'[submitting.id] = submitting.batch
      /\ \A x \in DOMAIN pool : pool'[x] = pool[x]
  BY <1>1, <1>3 DEF Insert
<1>5. /\ IsFiniteSet(DOMAIN pool')
      /\ Cardinality(DOMAIN pool') = Cardinality(DOMAIN pool) + 1
      /\ Cardinality(DOMAIN pool) \in Nat
  BY <1>2, <1>3, <1>4, FS_AddElement, FS_CardinalityType DEF PoolTypes
<1>6. Cardinality(DOMAIN pool') <= PoolCapacity
  BY <1>1, <1>5, RunAssumptions
<1>7. PoolTypes'
  BY <1>1, <1>2, <1>3, <1>4, <1>5, <1>6 DEF PoolTypes
<1>8. OnePlace'
  BY <1>1, <1>2, <1>4 DEF OnePlace
<1>9. AcksSettled'
  BY <1>1, <1>2 DEF AcksSettled
<1>10. Keeps({})
  BY <1>1, <1>3, <1>4 DEF Keeps, Live
<1>11. Places'
  BY <1>1, <1>2 DEF Places
<1>12. DrainEnds' /\ CleanStop'
  BY <1>1, <1>2 DEF DrainEnds, CleanStop, InFlight, inputVars
<1>13. parked' = parked \cup {} /\ {} \in SUBSET BatchIds
  BY <1>1
<1> QED BY <1>1, <1>2, <1>7, <1>8, <1>9, <1>10, <1>11, <1>12, <1>13, ParkKeeps
    DEF CoordinatorTypes

(* An answer joins the ack channel: the pool, or submit itself, answers an *)
(* item that was in the pool or with the coordinator.                      *)
LEMMA AnswerKeeps ==
  ASSUME RunInv, UNCHANGED inputVars, UNCHANGED <<next_id, tracking, store, durable, forced>>,
         UNCHANGED <<pc, shutdown, rx_open, channel, skipped, parked>>,
         settled \subseteq settled', NEW ack \in Acks, acks' = Append(acks, ack),
         ack.outcome # "Held" => Units(ack.batch) \subseteq settled',
         \/ /\ submitting # None /\ ack.id = submitting.id /\ ack.batch = submitting.batch
            /\ submitting' = None /\ pool' = pool
         \/ /\ ack.id \in DOMAIN pool /\ ack.batch = pool[ack.id]
            /\ submitting' = submitting /\ pool' = Remove(pool, {ack.id})
  PROVE  RunInv'
<1>1. /\ PoolTypes /\ OnePlace /\ AcksSettled /\ Places /\ DrainEnds /\ CleanStop
      /\ CoordinatorTypes
  BY DEF RunInv, RunTypes
<1>2. /\ acks' \in Seq(Acks)
      /\ DOMAIN acks' = DOMAIN acks \cup {Len(acks) + 1}
      /\ Len(acks) + 1 \notin DOMAIN acks
      /\ acks'[Len(acks) + 1] = ack
      /\ \A k \in DOMAIN acks : acks'[k] = acks[k]
  BY <1>1, AckAppended DEF PoolTypes
<1> DEFINE last == Len(acks) + 1
<1> HIDE DEF last
<1>3. /\ last \in DOMAIN acks' /\ acks'[last] = ack
      /\ \A k \in DOMAIN acks : k \in DOMAIN acks' /\ acks'[k] = acks[k]
      /\ \A k \in DOMAIN acks' : k = last \/ (k \in DOMAIN acks /\ acks'[k] = acks[k])
  BY <1>2 DEF last
<1>4. /\ submitting' \in Items \cup {None}
      /\ DOMAIN pool' \subseteq DOMAIN pool /\ ack.id \notin DOMAIN pool'
      /\ \A x \in DOMAIN pool' : pool'[x] = pool[x]
      /\ \A x \in DOMAIN pool : x # ack.id => x \in DOMAIN pool'
      /\ PoolTypes'
      /\ submitting' # None => submitting' = submitting /\ submitting.id # ack.id
      /\ submitting # None /\ submitting.id # ack.id => submitting' = submitting
      /\ \A k \in DOMAIN acks : acks[k].id # ack.id
  <2>1. CASE /\ submitting # None /\ ack.id = submitting.id /\ ack.batch = submitting.batch
             /\ submitting' = None /\ pool' = pool
    BY <1>1, <1>2, <2>1 DEF PoolTypes, OnePlace
  <2>2. CASE /\ ack.id \in DOMAIN pool /\ ack.batch = pool[ack.id]
             /\ submitting' = submitting /\ pool' = Remove(pool, {ack.id})
    <3>1. /\ DOMAIN pool' = DOMAIN pool \ {ack.id}
          /\ \A x \in DOMAIN pool' : x \in DOMAIN pool /\ pool'[x] = pool[x]
          /\ DOMAIN pool' \subseteq BatchIds /\ IsFiniteSet(DOMAIN pool')
          /\ Cardinality(DOMAIN pool') <= PoolCapacity
          /\ \A x \in DOMAIN pool' : pool'[x] \in Batches
      BY <1>1, <2>2, PoolWithout
    <3> QED BY <1>1, <1>2, <2>2, <3>1 DEF PoolTypes, OnePlace
  <2> QED BY <2>1, <2>2
<1>5. OnePlace'
  BY <1>1, <1>3, <1>4 DEF OnePlace
<1>6. AcksSettled'
  BY <1>1, <1>3 DEF AcksSettled
<1>7. Keeps({})
  <2> SUFFICES ASSUME NEW x \in BatchIds, NEW b \in Batches
               PROVE  Live(x, b)' <=> Live(x, b)
    BY DEF Keeps
  <2>1. CASE x = ack.id
    <3>1. Live(x, ack.batch) /\ Live(x, ack.batch)'
      BY <1>3, <2>1 DEF Live
    <3>2. Live(x, b) <=> b = ack.batch
      BY <1>1, <3>1, LiveIsUnique
    <3>3. Live(x, b)' <=> b = ack.batch
      BY <1>3, <1>4, <2>1 DEF Live
    <3> QED BY <3>2, <3>3
  <2>2. CASE x # ack.id
    BY <1>3, <1>4, <2>2 DEF Live
  <2> QED BY <2>1, <2>2
<1>8. pc # "stopped"
  BY <1>1, EmptySeq DEF Places
<1>9. Places'
  BY <1>1, <1>4, <1>8 DEF Places
<1>10. DrainEnds' /\ CleanStop'
  BY <1>1 DEF DrainEnds, CleanStop, InFlight, inputVars
<1>11. parked' = parked \cup {} /\ {} \in SUBSET BatchIds
  OBVIOUS
<1> QED BY <1>1, <1>4, <1>5, <1>6, <1>7, <1>9, <1>10, <1>11, ParkKeeps DEF CoordinatorTypes

(* pool.submit answers by itself.                                          *)
LEMMA PoolRefuseKeeps == RunInv /\ PoolRefuse => RunInv'
<1> SUFFICES ASSUME RunInv, PoolRefuse PROVE RunInv'
  OBVIOUS
<1> DEFINE ack == [id |-> submitting.id, batch |-> submitting.batch, outcome |-> "Held"]
<1>1. submitting # None /\ submitting \in Items
  BY DEF PoolRefuse, RunInv, RunTypes, PoolTypes
<1>2. ack \in Acks
  BY <1>1 DEF Items, Acks
<1> QED BY <1>1, <1>2, AnswerKeeps DEF PoolRefuse, ckptVars

(* A worker answers.                                                       *)
LEMMA PoolAnswerKeeps ==
  ASSUME RunInv, NEW id \in DOMAIN pool, NEW outcome \in {"Delivered", "Rejected", "Held"},
         PoolAnswer(id, outcome)
  PROVE  RunInv'
<1> DEFINE ack == [id |-> id, batch |-> pool[id], outcome |-> outcome]
<1>1. ack \in Acks
  BY DEF RunInv, RunTypes, PoolTypes, Acks
<1>2. /\ settled \subseteq settled'
      /\ outcome # "Held" => Units(pool[id]) \subseteq settled'
  BY DEF PoolAnswer
<1> QED BY <1>1, <1>2, AnswerKeeps DEF PoolAnswer, ckptVars

(* Items of the pool are lost: one with its worker, or all that are left   *)
(* when the drain of the pool times out.                                   *)
LEMMA LossKeeps ==
  ASSUME RunInv, UNCHANGED inputVars, UNCHANGED <<next_id, tracking, store, durable, forced>>,
         UNCHANGED <<shutdown, rx_open, channel, submitting, acks, settled, skipped>>,
         NEW ids \in SUBSET DOMAIN pool, parked' = parked \cup ids,
         DOMAIN pool' = DOMAIN pool \ ids, \A x \in DOMAIN pool' : pool'[x] = pool[x],
         IsFiniteSet(DOMAIN pool'), Cardinality(DOMAIN pool') <= PoolCapacity,
         pc' \in PCs, Places', DrainEnds', CleanStop'
  PROVE  RunInv'
<1>1. PoolTypes /\ OnePlace /\ AcksSettled /\ CoordinatorTypes
  BY DEF RunInv, RunTypes
<1>2. ids \in SUBSET BatchIds
  BY <1>1 DEF PoolTypes
<1>3. PoolTypes'
  BY <1>1, <1>2 DEF PoolTypes
<1>4. OnePlace' /\ AcksSettled'
  BY <1>1 DEF OnePlace, AcksSettled
<1>5. Keeps(ids)
  BY <1>1 DEF Keeps, Live, OnePlace
<1>6. \A id \in ids : \E batch \in Batches : Live(id, batch)
  BY <1>1 DEF PoolTypes, Live
<1> QED BY <1>1, <1>2, <1>3, <1>4, <1>5, <1>6, ParkKeeps DEF CoordinatorTypes

(* One item is lost.                                                       *)
LEMMA PoolLoseKeeps ==
  ASSUME RunInv, NEW id \in DOMAIN pool, PoolLose(id)
  PROVE  RunInv'
<1>1. /\ pool' = Remove(pool, {id}) /\ parked' = parked \cup {id}
      /\ UNCHANGED inputVars /\ UNCHANGED <<next_id, tracking, store, durable, forced>>
      /\ UNCHANGED <<pc, shutdown, rx_open, channel, submitting, acks, settled, skipped>>
  BY DEF PoolLose, ckptVars
<1>2. PoolTypes /\ Places /\ DrainEnds /\ CleanStop /\ CoordinatorTypes
  BY DEF RunInv, RunTypes
<1>3. /\ DOMAIN pool' = DOMAIN pool \ {id}
      /\ \A x \in DOMAIN pool' : x \in DOMAIN pool /\ pool'[x] = pool[x]
      /\ IsFiniteSet(DOMAIN pool') /\ Cardinality(DOMAIN pool') <= PoolCapacity
  BY <1>1, <1>2, PoolWithout
<1>4. Places'
  BY <1>1, <1>2, <1>3 DEF Places
<1>5. DrainEnds' /\ CleanStop'
  BY <1>1, <1>2 DEF DrainEnds, CleanStop, InFlight, inputVars
<1>6. pc' \in PCs
  BY <1>1, <1>2 DEF CoordinatorTypes
<1> QED BY <1>1, <1>3, <1>4, <1>5, <1>6, LossKeeps

(* The drain of the pool ends.                                             *)
LEMMA PoolDrainedKeeps == RunInv /\ PoolDrained => RunInv'
<1> SUFFICES ASSUME RunInv, PoolDrained PROVE RunInv'
  OBVIOUS
<1>1. /\ pc = "pool_drain" /\ pc' = "ack_drain"
      /\ pool' = EmptyMap /\ parked' = parked \cup DOMAIN pool
      /\ UNCHANGED inputVars /\ UNCHANGED <<next_id, tracking, store, durable, forced>>
      /\ UNCHANGED <<shutdown, rx_open, channel, submitting, acks, settled, skipped>>
  BY DEF PoolDrained, ckptVars
<1>2. Places /\ DrainEnds
  BY DEF RunInv
<1>3. /\ DOMAIN pool' = DOMAIN pool \ DOMAIN pool
      /\ IsFiniteSet(DOMAIN pool') /\ Cardinality(DOMAIN pool') <= PoolCapacity
  <2>1. DOMAIN pool' = {}
    BY <1>1, EmptyMapType
  <2> QED BY <2>1, FS_EmptySet, RunAssumptions
<1>4. Places' /\ CleanStop'
  BY <1>1, <1>2, <1>3 DEF Places, CleanStop
<1>5. DrainEnds'
  BY <1>1, <1>2 DEF DrainEnds, inputVars
<1>6. pc' \in PCs
  BY <1>1 DEF PCs
<1> QED BY <1>1, <1>3, <1>4, <1>5, <1>6, LossKeeps

(* The future of run_async is dropped.                                     *)
LEMMA DropRunKeeps == RunInv /\ DropRun => RunInv'
<1> SUFFICES ASSUME RunInv, DropRun PROVE RunInv'
  OBVIOUS
<1> DEFINE ids == IF submitting = None THEN {} ELSE {submitting.id}
<1>1. /\ shutdown' = TRUE /\ rx_open' = FALSE /\ channel' = <<>> /\ submitting' = None
      /\ pc \in {"select", "drain", "pool_drain"} /\ pc' = "pool_drain" /\ parked' = parked \cup ids
      /\ UNCHANGED inputVars /\ UNCHANGED <<next_id, tracking, store, durable, forced>>
      /\ UNCHANGED <<pool, acks, settled, skipped>>
  BY DEF DropRun, ckptVars
<1>2. PoolTypes /\ OnePlace /\ AcksSettled /\ Places
  BY DEF RunInv, RunTypes
<1>3. /\ ids \in SUBSET BatchIds
      /\ \A id \in ids : \E batch \in Batches : Live(id, batch)
  BY <1>2 DEF PoolTypes, Items, Live
<1>4. submitting = None => ids = {}
  OBVIOUS
<1>5. submitting # None => ids = {submitting.id}
  OBVIOUS
<1> HIDE DEF ids
<1>6. PoolTypes'
  BY <1>1, <1>2, <1>3 DEF PoolTypes
<1>7. OnePlace' /\ AcksSettled'
  BY <1>1, <1>2 DEF OnePlace, AcksSettled
<1>8. Keeps(ids)
  BY <1>1, <1>2, <1>4, <1>5 DEF Keeps, Live, OnePlace
<1>9. Places' /\ DrainEnds' /\ CleanStop'
  BY <1>1 DEF Places, DrainEnds, CleanStop
<1>10. pc' \in PCs /\ shutdown' \in BOOLEAN
  BY <1>1 DEF PCs
<1> QED BY <1>1, <1>3, <1>6, <1>7, <1>8, <1>9, <1>10, ParkKeeps

(* The coordinator takes an ack from the ack channel.                      *)
LEMMA AckTaken ==
  ASSUME RunInv, acks # <<>>, acks' = Tail(acks), UNCHANGED <<submitting, pool, settled>>
  PROVE  /\ Head(acks).id \in BatchIds /\ Head(acks).batch \in Batches
         /\ Live(Head(acks).id, Head(acks).batch)
         /\ Keeps({Head(acks).id})
         /\ Head(acks).outcome # "Held" => Units(Head(acks).batch) \subseteq settled
         /\ acks' \in Seq(Acks) /\ OnePlace' /\ AcksSettled'
<1>1. PoolTypes /\ OnePlace /\ AcksSettled
  BY DEF RunInv, RunTypes
<1>2. /\ Len(acks) \in Nat /\ DOMAIN acks = 1 .. Len(acks) /\ 1 \in DOMAIN acks
      /\ Head(acks) = acks[1] /\ acks[1] \in Acks
      /\ acks' \in Seq(Acks)
      /\ DOMAIN acks' = 1 .. (Len(acks) - 1)
      /\ \A k \in DOMAIN acks' : k + 1 \in DOMAIN acks /\ acks'[k] = acks[k + 1]
  BY <1>1, HeadTailProperties, LenProperties, ElementOfSeq DEF PoolTypes
<1> DEFINE ack == acks[1]
<1>3. ack.id \in BatchIds /\ ack.batch \in Batches
  BY <1>2 DEF Acks
<1>4. Live(ack.id, ack.batch)
  BY <1>2 DEF Live
<1>5. /\ \A k \in DOMAIN acks' : \E j \in DOMAIN acks : j # 1 /\ acks'[k] = acks[j]
      /\ \A j \in DOMAIN acks : j # 1 => \E k \in DOMAIN acks' : acks'[k] = acks[j]
  <2>1. \A k \in DOMAIN acks' : k + 1 # 1
    BY <1>2
  <2>2. \A j \in DOMAIN acks : j # 1 => j - 1 \in DOMAIN acks' /\ (j - 1) + 1 = j
    BY <1>2
  <2> QED BY <1>2, <2>1, <2>2
<1>6. OnePlace'
  <2>1. \A j, k \in DOMAIN acks' : j # k => acks'[j].id # acks'[k].id
    <3> TAKE j, k \in DOMAIN acks'
    <3>1. j # k => j + 1 # k + 1
      BY <1>2
    <3> QED BY <1>1, <1>2, <3>1 DEF OnePlace
  <2> QED BY <1>1, <1>2, <2>1 DEF OnePlace
<1>7. AcksSettled'
  BY <1>1, <1>2 DEF AcksSettled
<1>8. Keeps({ack.id})
  <2> SUFFICES ASSUME NEW id \in BatchIds, NEW batch \in Batches
               PROVE  Live(id, batch)' <=> Live(id, batch) /\ id # ack.id
    BY DEF Keeps
  <2>1. \A j \in DOMAIN acks : acks[j].id # ack.id <=> j # 1
    BY <1>1, <1>2 DEF OnePlace
  <2>2. /\ ack.id \notin DOMAIN pool
        /\ submitting # None => submitting.id # ack.id
    BY <1>1, <1>2 DEF OnePlace
  <2> HIDE DEF ack
  <2> QED BY <1>5, <2>1, <2>2 DEF Live
<1>9. ack.outcome # "Held" => Units(ack.batch) \subseteq settled
  BY <1>1, <1>2 DEF AcksSettled
<1> QED BY <1>2, <1>3, <1>4, <1>6, <1>7, <1>8, <1>9

(* apply_pool_ack, whatever the coordinator does next.                     *)
LEMMA ApplyPoolAckKeeps ==
  ASSUME RunInv, ApplyPoolAck, UNCHANGED inputVars,
         UNCHANGED <<submitting, pool, next_id, forced, settled, skipped>>,
         pc' \in PCs, shutdown' \in BOOLEAN,
         \/ UNCHANGED <<channel, rx_open>>
         \/ Head(acks).outcome = "Held" /\ channel' = <<>> /\ rx_open' = FALSE,
         Places', pc' # "stopped",
         pc' = pc \/ rx_open' = FALSE
  PROVE  RunInv'
<1>1. acks # <<>> /\ acks' = Tail(acks)
  BY DEF ApplyPoolAck
<1> DEFINE ack == Head(acks)
<1>2. /\ ack.id \in BatchIds /\ ack.batch \in Batches
      /\ Live(ack.id, ack.batch)
      /\ Keeps({ack.id})
      /\ ack.outcome # "Held" => Units(ack.batch) \subseteq settled
      /\ acks' \in Seq(Acks) /\ OnePlace' /\ AcksSettled'
  BY <1>1, AckTaken
<1>3. RunTypes /\ OnePlace /\ MachineOK /\ InputOrder /\ NothingLost /\ DrainEnds
  BY DEF RunInv
<1>4. CleanStop'
  BY DEF CleanStop
<1>5. CASE ack.outcome = "Held"
  <2>1. UNCHANGED <<tracking, store, durable>> /\ parked' = parked \cup {ack.id}
    BY <1>5 DEF ApplyPoolAck, HoldAllTickets
  <2>2. PoolTypes'
    BY <1>2, <1>3, <2>1 DEF RunTypes, PoolTypes
  <2>3. DrainEnds'
    BY <2>1 DEF DrainEnds
  <2>4. \A id \in {ack.id} : \E batch \in Batches : Live(id, batch)
    BY <1>2
  <2>5. {ack.id} \in SUBSET BatchIds
    BY <1>2
  <2> HIDE DEF ack
  <2> QED BY <1>2, <1>4, <2>1, <2>2, <2>3, <2>4, <2>5, ParkKeeps
<1>6. CASE ack.outcome # "Held"
  <2>1. AckAllTickets(tracking, ack.id, ack.batch)
    BY <1>6 DEF ApplyPoolAck
  <2>2. Grows
    BY DEF Grows
  <2>3. parked' = parked
    BY <2>1 DEF AckAllTickets
  <2> HIDE DEF ack
  <2>4. MachineOK' /\ Evolves /\ TrackingTypes'
    BY <1>2, <1>3, <1>6, <2>1, <2>2, AckStep
  <2>5. UNCHANGED <<channel, rx_open>>
    BY <1>6 DEF ack
  <2>6. PoolTypes'
    BY <1>2, <1>3, <2>3 DEF RunTypes, PoolTypes
  <2>7. CoordinatorTypes'
    BY <1>3, <2>4, <2>5 DEF RunTypes, CoordinatorTypes, TrackingTypes
  <2>8. InputTypes' /\ NothingEmpty' /\ WorkersExit'
    BY <2>5, InputsFollow
  <2>9. InputTypes /\ ReadsOn
    BY <1>3, InputsIdle DEF RunTypes
  <2>10. InputOrder' /\ NothingLost'
    BY <1>3, <2>4, <2>5, <2>9, ChainKept
  <2>11. DrainEnds'
    BY <1>3, <2>3, <2>5 DEF DrainEnds, inputVars
  <2> QED BY <1>2, <1>4, <2>4, <2>6, <2>7, <2>8, <2>10, <2>11 DEF RunInv, RunTypes
<1> QED BY <1>5, <1>6

(* Acks in the select loop, and after the drain of the pool.               *)
LEMMA AckArmsKeep == RunInv /\ (AckArm \/ DrainAck) => RunInv'
<1> SUFFICES ASSUME RunInv, AckArm \/ DrainAck PROVE RunInv'
  OBVIOUS
<1>1. CoordinatorTypes /\ Places
  BY DEF RunInv, RunTypes
<1>2. CASE AckArm
  <2>1. /\ pc = "select" /\ submitting = None /\ ApplyPoolAck
        /\ UNCHANGED inputVars
        /\ UNCHANGED <<submitting, pool, next_id, forced, settled, skipped>>
    BY <1>2 DEF AckArm, Selecting
  <2>2. \/ /\ Head(acks).outcome = "Held"
           /\ shutdown' = TRUE /\ rx_open' = FALSE /\ channel' = <<>> /\ pc' = "join"
        \/ UNCHANGED <<shutdown, rx_open, channel, pc>>
    BY <1>2 DEF AckArm
  <2>3. /\ pc' \in PCs /\ shutdown' \in BOOLEAN
        /\ Places' /\ pc' # "stopped" /\ (pc' = pc \/ rx_open' = FALSE)
    BY <1>1, <2>1, <2>2 DEF Places, CoordinatorTypes, PCs
  <2> QED BY <2>1, <2>2, <2>3, ApplyPoolAckKeeps
<1>3. CASE DrainAck
  <2>1. /\ pc = "ack_drain" /\ ApplyPoolAck
        /\ UNCHANGED inputVars
        /\ UNCHANGED <<submitting, pool, next_id, forced, settled, skipped>>
        /\ UNCHANGED <<pc, shutdown, rx_open, channel>>
    BY <1>3 DEF DrainAck
  <2>2. pc' \in PCs /\ shutdown' \in BOOLEAN /\ Places'
    BY <1>1, <2>1 DEF Places, CoordinatorTypes, PCs
  <2> QED BY <2>1, <2>2, ApplyPoolAckKeeps
<1> QED BY <1>2, <1>3

(* submit_batch of the batch at the head of the channel.                   *)
LEMMA SubmitBatchKeeps ==
  ASSUME RunInv, rx_open, channel # <<>>, submitting = None,
         NEW result, NEW stop \in BOOLEAN, SubmitBatch(Head(channel), result, stop),
         UNCHANGED <<pool, acks>>, UNCHANGED skipped
  PROVE  /\ PoolTypes' /\ OnePlace' /\ AcksSettled' /\ MachineOK'
         /\ Submits(Head(channel)) /\ TrackingTypes' /\ DurableGrows
         /\ next_id' \in 0 .. MaxBatches /\ shutdown' \in BOOLEAN
         /\ stop => parked' # {} /\ submitting' = None
<1> DEFINE batch == Head(channel)
<1>1. /\ RunTypes /\ PoolTypes /\ OnePlace /\ AcksSettled /\ MachineOK
      /\ NothingEmpty /\ InputOrder /\ NothingLost
  BY DEF RunInv, RunTypes
<1>2. NextBatch(batch)
  BY <1>1, HeadIsNext
<1>3. next_id < MaxBatches /\ next_id' = next_id + 1
  BY DEF SubmitBatch
<1>4. /\ next_id \in BatchIds /\ next_id \in Nat
      /\ \A id \in BatchIds, b \in Batches : Live(id, b) => id < next_id /\ id # next_id
  BY <1>1, <1>3, NextIdIsFresh
<1>5. next_id' \in 0 .. MaxBatches
  BY <1>3, <1>4, TrackingAssumptions
<1>6. batch \in Batches
  BY <1>2 DEF NextBatch
<1>7. settled \subseteq settled' /\ Grows
  BY DEF SubmitBatch, Grows
<1>8. AcksSettled'
  BY <1>1, <1>7 DEF AcksSettled
<1>9. shutdown' \in BOOLEAN
  BY <1>1 DEF SubmitBatch, RunTypes, CoordinatorTypes
<1> HIDE DEF batch
<1>10. CASE /\ stop = FALSE
            /\ AckAllTickets(BeginSendAll(next_id, batch), next_id, batch)
            /\ settled' = settled \cup Units(batch)
            /\ UNCHANGED <<submitting, shutdown>>
  <2>1. parked' = parked
    BY <1>10 DEF AckAllTickets
  <2>2. PoolTypes' /\ OnePlace' /\ Keeps({})
    BY <1>1, <1>7, <1>10, <2>1, ItemsKept
  <2>3. Units(batch) \subseteq settled'
    BY <1>10
  <2>4. MachineOK' /\ Submits(batch) /\ TrackingTypes' /\ DurableGrows
    BY <1>1, <1>2, <1>3, <1>7, <1>10, <2>2, <2>3, SubmitAckStep
  <2> QED BY <1>5, <1>8, <1>9, <1>10, <2>2, <2>4 DEF batch
<1>11. CASE /\ stop = TRUE
            /\ HoldAllTickets(BeginSendAll(next_id, batch), next_id)
            /\ shutdown' = TRUE
            /\ UNCHANGED <<submitting, settled>>
  <2>1. /\ tracking' = BeginSendAll(next_id, batch) /\ parked' = parked \cup {next_id}
        /\ UNCHANGED <<store, durable>>
    BY <1>11 DEF HoldAllTickets
  <2>2. PoolTypes' /\ OnePlace'
    BY <1>1, <1>4, <1>11, <2>1 DEF PoolTypes, OnePlace
  <2> DEFINE forward == FALSE
  <2>3. \A id \in BatchIds, b \in Batches :
            Live(id, b)' <=> Live(id, b) \/ (forward /\ id = next_id /\ b = batch)
    BY <1>11 DEF Live
  <2>4. MachineOK' /\ Submits(batch) /\ TrackingTypes' /\ DurableGrows
    <3>1. parked' = IF forward THEN parked ELSE parked \cup {next_id}
      BY <2>1
    <3>2. forward \in BOOLEAN
      OBVIOUS
    <3> HIDE DEF forward
    <3> QED BY <1>1, <1>2, <1>3, <1>7, <2>1, <2>3, <3>1, <3>2, SubmitStep
  <2> QED BY <1>5, <1>8, <1>9, <1>11, <2>1, <2>2, <2>4 DEF batch
<1>12. CASE /\ stop = FALSE
            /\ tracking' = BeginSendAll(next_id, batch)
            /\ submitting' = [id |-> next_id, batch |-> batch]
            /\ UNCHANGED <<shutdown, store, durable, settled, parked>>
  <2>1. /\ submitting' \in Items /\ submitting' # None
        /\ submitting'.id = next_id /\ submitting'.batch = batch
    BY <1>4, <1>6, <1>12, OptionAssumption DEF Items
  <2>2. PoolTypes'
    BY <1>1, <1>12, <2>1 DEF PoolTypes
  <2>3. /\ next_id \notin DOMAIN pool
        /\ \A k \in DOMAIN acks : acks[k].id # next_id
    <3>1. \A id \in DOMAIN pool : id \in BatchIds /\ pool[id] \in Batches
      BY <1>1 DEF PoolTypes
    <3>2. \A k \in DOMAIN acks : acks[k] \in Acks
      BY <1>1, ElementOfSeq, LenProperties DEF PoolTypes
    <3>3. \A k \in DOMAIN acks : acks[k].id \in BatchIds /\ acks[k].batch \in Batches
      BY <3>2 DEF Acks
    <3> QED BY <1>4, <3>1, <3>3 DEF Live
  <2>4. OnePlace'
    BY <1>1, <2>1, <2>3 DEF OnePlace
  <2> DEFINE forward == TRUE
  <2>5. \A id \in BatchIds, b \in Batches :
            Live(id, b)' <=> Live(id, b) \/ (forward /\ id = next_id /\ b = batch)
    BY <2>1 DEF Live
  <2>6. MachineOK' /\ Submits(batch) /\ TrackingTypes' /\ DurableGrows
    <3>1. parked' = IF forward THEN parked ELSE parked \cup {next_id}
      BY <1>12
    <3>2. forward \in BOOLEAN
      OBVIOUS
    <3> HIDE DEF forward
    <3>3. tracking' = BeginSendAll(next_id, batch) /\ UNCHANGED <<store, durable>>
      BY <1>12
    <3>4. RunTypes /\ MachineOK /\ Grows
      BY <1>1, <1>7
    <3> QED BY ONLY <1>2, <1>3, <2>5, <3>1, <3>2, <3>3, <3>4, SubmitStep
  <2> QED BY <1>5, <1>8, <1>9, <1>12, <2>2, <2>4, <2>6 DEF batch
<1> QED BY <1>10, <1>11, <1>12 DEF SubmitBatch, batch

(* A batch in the select loop, or in the drain of the channel.             *)
LEMMA ReceiveKeeps ==
  ASSUME RunInv, pc \in {"select", "drain"}, submitting = None, channel # <<>>,
         NEW result, NEW stop \in BOOLEAN, SubmitBatch(Head(channel), result, stop),
         UNCHANGED inputVars, UNCHANGED <<pool, acks, forced>>, UNCHANGED skipped,
         \/ /\ channel' = Tail(channel) /\ rx_open' = rx_open
            /\ \/ ~stop /\ pc' = pc
               \/ stop /\ pc' = "join"
         \/ /\ stop /\ channel' = <<>> /\ rx_open' = FALSE /\ pc' = "join"
  PROVE  RunInv'
<1>1. /\ RunTypes /\ InputTypes /\ CoordinatorTypes /\ InputOrder /\ NothingLost
      /\ Places /\ DrainEnds
  BY DEF RunInv, RunTypes
<1>2. rx_open
  BY <1>1 DEF Places
<1>3. /\ PoolTypes' /\ OnePlace' /\ AcksSettled' /\ MachineOK'
      /\ Submits(Head(channel)) /\ TrackingTypes'
      /\ next_id' \in 0 .. MaxBatches /\ shutdown' \in BOOLEAN
      /\ stop => parked' # {} /\ submitting' = None
  BY <1>2, SubmitBatchKeeps
<1>4. CoordinatorTypes'
  BY <1>1, <1>3 DEF CoordinatorTypes, TrackingTypes, PCs
<1>5. InputTypes' /\ NothingEmpty' /\ WorkersExit'
  BY <1>2, InputsFollow
<1>6. ReadsOn
  BY <1>1, InputsIdle
<1>7. InputOrder' /\ NothingLost'
  <2>1. CASE channel' = Tail(channel) /\ rx_open' = rx_open
    BY <1>1, <1>2, <1>3, <1>6, <2>1, ChainReceives
  <2>2. CASE channel' = <<>> /\ rx_open' = FALSE
    <3>1. \A s \in Sources : \A c \in Nat : PastChannel(s, c) => Top(s, c)'
      BY <1>1, <1>3, SubmitsPast
    <3> QED BY <1>1, <1>6, <2>2, <3>1, ChainCut
  <2> QED BY <2>1, <2>2
<1>8. Places' /\ DrainEnds' /\ CleanStop'
  BY <1>1, <1>3 DEF Places, DrainEnds, CleanStop
<1> QED BY <1>3, <1>4, <1>5, <1>7, <1>8 DEF RunInv, RunTypes

(* The receive arm and the drain loop.                                     *)
LEMMA ReceiveArmsKeep ==
  ASSUME RunInv, NEW result, ReceiveArm(result) \/ DrainChannel(result)
  PROVE  RunInv'
<1>1. CASE ReceiveArm(result)
  <2>1. /\ pc = "select" /\ submitting = None /\ channel # <<>>
        /\ UNCHANGED inputVars /\ UNCHANGED <<pool, acks, forced>> /\ UNCHANGED skipped
    BY <1>1 DEF ReceiveArm, Selecting
  <2>2. PICK stop \in BOOLEAN :
          /\ SubmitBatch(Head(channel), result, stop)
          /\ IF stop
             THEN rx_open' = FALSE /\ channel' = <<>> /\ pc' = "join"
             ELSE channel' = Tail(channel) /\ UNCHANGED <<rx_open, pc>>
    BY <1>1 DEF ReceiveArm
  <2> QED BY <2>1, <2>2, ReceiveKeeps
<1>2. CASE DrainChannel(result)
  <2>1. /\ pc = "drain" /\ submitting = None /\ channel # <<>> /\ channel' = Tail(channel)
        /\ UNCHANGED inputVars /\ UNCHANGED <<pool, acks, forced>> /\ UNCHANGED skipped
        /\ rx_open' = rx_open
    BY <1>2 DEF DrainChannel
  <2>2. PICK stop \in BOOLEAN :
          /\ SubmitBatch(Head(channel), result, stop)
          /\ pc' = IF stop THEN "join" ELSE pc
    BY <1>2 DEF DrainChannel
  <2> QED BY <2>1, <2>2, ReceiveKeeps
<1> QED BY <1>1, <1>2

(* The end of run_async: the store gets what the machine has committed.    *)
LEMMA StopMachineKeeps == RunInv /\ StopMachine => RunInv' /\ DurableGrows
<1> SUFFICES ASSUME RunInv, StopMachine PROVE RunInv' /\ DurableGrows
  OBVIOUS
<1>1. /\ pc = "ack_drain" /\ pc' = "stopped" /\ acks = <<>>
      /\ store' = [s \in Sources |-> IF tracking[s].committed = None
                                     THEN store[s] ELSE tracking[s].committed]
      /\ durable' \in {durable, store'}
      /\ UNCHANGED inputVars
      /\ UNCHANGED <<shutdown, rx_open, channel, submitting, pool, acks>>
      /\ UNCHANGED <<next_id, tracking, settled, skipped, parked>>
  BY DEF StopMachine, FlushResults
<1>2. forced' = \E s \in Sources : \/ DOMAIN tracking[s].in_flight # {}
                                   \/ DOMAIN tracking[s].pending_acks # {}
  BY DEF StopMachine
<1>3. /\ RunTypes /\ InputTypes /\ CoordinatorTypes /\ PoolTypes
      /\ OnePlace /\ AcksSettled /\ MachineOK
      /\ InputOrder /\ NothingLost /\ Places /\ DrainEnds
  BY DEF RunInv, RunTypes
<1>4. /\ Ordered(tracking, next_id, store) /\ next_id \in Nat
      /\ store \in [Sources -> Checkpoints] /\ durable \in [Sources -> Checkpoints]
      /\ \A s \in Sources : durable[s] <= store[s]
  BY <1>3, MachineIsOrdered
<1>5. PoolTypes' /\ OnePlace' /\ AcksSettled' /\ Keeps({})
  BY <1>1, <1>3, ItemsKept
<1>6. ASSUME NEW s \in Sources
      PROVE  /\ store'[s] \in Checkpoints /\ store[s] \in Nat /\ store'[s] \in Nat
             /\ durable[s] \in Nat
             /\ \/ store'[s] = store[s]
                \/ tracking[s].committed # None /\ store'[s] = tracking[s].committed
             /\ store[s] <= store'[s]
             /\ Ascends(tracking[s], next_id, store'[s])
             /\ \A n \in Nat : Reached(tracking[s], store[s], n)
                                 => Reached(tracking[s], store'[s], n)
             /\ \A c \in Nat : Within(tracking[s], c) /\ store[s] <= c => store'[s] <= c
             /\ tracking[s].committed \in {None, store'[s]}
  <2>1. /\ tracking[s] \in SourceTracking /\ store[s] \in Nat /\ store[s] \in Checkpoints
        /\ durable[s] \in Nat
        /\ Ascends(tracking[s], next_id, store[s])
    BY <1>4, CheckpointsAreNat DEF Ordered
  <2>2. CASE tracking[s].committed = None
    <3>1. store'[s] = store[s]
      BY <1>1, <2>2
    <3> QED BY <2>1, <2>2, <3>1
  <2>3. CASE tracking[s].committed # None
    <3>1. store'[s] = tracking[s].committed
      BY <1>1, <2>3
    <3>2. store'[s] \in Checkpoints /\ store'[s] \in Nat
      BY <2>1, <2>3, <3>1, CommittedType, CheckpointsAreNat
    <3>3. /\ Ascends(tracking[s], next_id, store'[s])
          /\ \A n \in Nat : Reached(tracking[s], store[s], n)
                              => Reached(tracking[s], store'[s], n)
      BY <1>4, <2>1, <2>3, <3>1, StoreAscends, CheckpointsAreNat
    <3>4. store[s] <= store'[s]
      BY <2>1, <2>3, <3>1 DEF Ascends
    <3>5. \A c \in Nat : Within(tracking[s], c) => store'[s] <= c
      BY <2>3, <3>1 DEF Within
    <3> QED BY <2>1, <2>3, <3>1, <3>2, <3>3, <3>4, <3>5
  <2> QED BY <2>2, <2>3
<1>7. store' \in [Sources -> Checkpoints] /\ durable' \in [Sources -> Checkpoints]
  <2>1. store' = [s \in Sources |-> store'[s]]
    BY <1>1
  <2>2. store' \in [Sources -> Checkpoints]
    BY <1>6, <2>1
  <2> QED BY <1>1, <1>4, <2>2
<1>8. Persists(store, durable)
  <2>1. CASE durable' = durable
    BY <1>1, <1>4, <1>6, <1>7, <2>1 DEF Persists
  <2>2. CASE durable' = store'
    BY <1>1, <1>4, <1>6, <1>7, <2>2 DEF Persists
  <2> QED BY <1>1, <2>1, <2>2
<1>9. Tickets'
  <2>1. \A s \in Sources : InFlight(s)' = InFlight(s)
    BY <1>1 DEF InFlight
  <2>2. \A id \in BatchIds, b \in Batches : Live(id, b)' <=> Live(id, b)
    BY <1>5 DEF Keeps
  <2>3. \A b \in Batches : DOMAIN b.to \subseteq Sources
    BY BatchFacts
  <2>4. LiveInFlight' /\ ParkedInFlight'
    BY <1>1, <1>3, <2>1, <2>2, <2>3 DEF MachineOK, Tickets, LiveInFlight, ParkedInFlight
  <2>5. \A s \in Sources : \A id \in InFlight(s) : id \in BatchIds
    BY <1>4, BatchMapElements DEF InFlight, Ordered, SourceTracking
  <2>6. TicketsLive'
    BY <1>1, <1>3, <2>1, <2>2, <2>5 DEF MachineOK, Tickets, TicketsLive
  <2> QED BY <2>4, <2>6 DEF Tickets
<1>10. SourceOrder'
  BY <1>1, <1>6, <1>8 DEF SourceOrder, Persists
<1>11. Owns' = Owns /\ Done' = Done
  BY <1>1 DEF Owns, Live, Done
<1>12. SourceCover'
  <2>1. Grows
    BY <1>1 DEF Grows
  <2>2. \A s \in Sources : Covers(tracking'[s], s, Done', Owns')
    BY <1>1, <1>3, <1>11 DEF MachineOK, SourceCover
  <2> QED BY <1>3, <1>4, <1>8, <2>1, <2>2, PersistsCovers DEF MachineOK, SourceCover
<1>13. Evolves
  BY <1>1, <1>6, <1>11 DEF Evolves, Passed, Top
<1>14. InputTypes' /\ NothingEmpty' /\ WorkersExit'
  BY <1>1, InputsFollow
<1>15. InputOrder' /\ NothingLost'
  <2>1. ReadsOn
    BY <1>1, <1>3, InputsIdle
  <2> QED BY <1>1, <1>3, <1>13, <2>1, ChainKept
<1>16. Places' /\ DrainEnds'
  BY <1>1, <1>3 DEF Places, DrainEnds, inputVars
<1>17. CleanStop'
  BY <1>1, <1>2, <1>6 DEF CleanStop, InFlight
<1>18. CoordinatorTypes'
  <2>1. forced' \in BOOLEAN
    BY <1>2
  <2> QED BY <1>1, <1>3, <1>7, <2>1 DEF CoordinatorTypes, PCs
<1>19. DurableGrows
  BY <1>8 DEF Persists, DurableGrows
<1> QED BY <1>5, <1>9, <1>10, <1>12, <1>14, <1>15, <1>16, <1>17, <1>18, <1>19
    DEF RunInv, RunTypes, MachineOK

(* The state in which the process starts: the inputs continue from the     *)
(* stored checkpoints and the machine is empty.                            *)
Fresh ==
    /\ pc = "select" /\ shutdown = FALSE /\ rx_open = TRUE /\ forced = FALSE
    /\ channel = <<>> /\ acks = <<>>
    /\ read = durable /\ flushed = durable /\ store = durable
    /\ io_queue = [i \in Inputs |-> <<>>]
    /\ outbox = [i \in Inputs |-> None]
    /\ io_done = {} /\ cpu_done = {}
    /\ next_id = 0 /\ tracking = [s \in Sources |-> Untracked]
    /\ submitting = None /\ pool = EmptyMap /\ parked = {}
    /\ durable \in [Sources -> Checkpoints]
    /\ \A s \in Sources : \A n \in 1 .. durable[s] : <<s, n>> \in Done

(* A fresh start satisfies the invariant.                                  *)
LEMMA FreshIsSound == Fresh => RunInv
<1> SUFFICES ASSUME Fresh PROVE RunInv
  OBVIOUS
<1>1. /\ DOMAIN channel = {} /\ channel \in Seq(Batches) /\ Len(channel) <= ChannelCapacity
      /\ DOMAIN acks = {} /\ acks \in Seq(Acks)
  BY EmptySeq, RunAssumptions DEF Fresh
<1>2. /\ DOMAIN io_queue = Inputs /\ DOMAIN outbox = Inputs
      /\ \A i \in Inputs : /\ outbox[i] = None /\ io_queue[i] = <<>>
                           /\ DOMAIN io_queue[i] = {}
                           /\ io_queue[i] \in Seq(ChunksOf(i))
                           /\ Len(io_queue[i]) <= IoQueueCapacity
  BY EmptySeq, RunAssumptions DEF Fresh
<1>3. InputTypes
  BY <1>1, <1>2 DEF InputTypes, Fresh
<1>4. /\ Untracked \in SourceTracking /\ Untracked.committed = None
      /\ DOMAIN Untracked.in_flight = {} /\ DOMAIN Untracked.pending_acks = {}
      /\ Tracked(Untracked) = {} /\ Exclusive(Untracked)
  BY EmptyMapType DEF Untracked, SourceTracking, Tracked, Exclusive
<1>5. CoordinatorTypes
  <2>1. tracking \in [Sources -> SourceTracking]
    BY <1>4 DEF Fresh
  <2>2. next_id \in 0 .. MaxBatches
    BY TrackingAssumptions DEF Fresh
  <2>3. pc \in PCs /\ shutdown \in BOOLEAN /\ rx_open \in BOOLEAN /\ forced \in BOOLEAN
    BY DEF Fresh, PCs
  <2>4. store \in [Sources -> Checkpoints] /\ durable \in [Sources -> Checkpoints]
    BY DEF Fresh
  <2> QED BY <2>1, <2>2, <2>3, <2>4 DEF CoordinatorTypes
<1>6. PoolTypes
  <2>1. DOMAIN pool = {}
    BY EmptyMapType DEF Fresh
  <2> QED BY <1>1, <2>1, FS_EmptySet, RunAssumptions DEF PoolTypes, Fresh
<1>7. \A id, batch : ~Live(id, batch)
  BY <1>1, EmptyMapType DEF Live, Fresh
<1>8. OnePlace /\ AcksSettled
  BY <1>1 DEF OnePlace, AcksSettled, Fresh
<1>9. /\ \A s \in Sources : tracking[s] = Untracked /\ InFlight(s) = {}
      /\ next_id = 0
      /\ \A s \in Sources : /\ store[s] = durable[s] /\ flushed[s] = durable[s]
                            /\ read[s] = durable[s] /\ durable[s] \in Nat
  BY <1>4, CheckpointsAreNat DEF Fresh, InFlight
<1>10. Tickets
  BY <1>7, <1>9 DEF Tickets, LiveInFlight, TicketsLive, ParkedInFlight, Fresh
<1>11. SourceOrder
  BY <1>4, <1>9 DEF SourceOrder, Ascends
<1>12. SourceCover
  BY <1>4, <1>9 DEF SourceCover, Covers, Fresh
<1>13. \A i \in Inputs : SourcesOf(i) \subseteq Sources
  BY DEF SourcesOf
<1>14. InputOrder
  <2>1. \A s \in Sources : Top(s, flushed[s])
    BY <1>4, <1>9 DEF Top, Within
  <2>2. \A i \in Inputs : \A s \in SourcesOf(i) : PastOutbox(i, s, flushed[s])
    BY <1>1, <1>2, <1>13, <2>1 DEF PastOutbox, PastChannel
  <2> QED BY <1>1, <1>2, <1>9, <1>13, <2>2
      DEF InputOrder, ChannelOrder, OutboxOrder, QueueOrder, BufferOrder
<1>15. NothingLost
  <2> SUFFICES ASSUME NEW s \in Sources, NEW n \in 1 .. flushed[s]
               PROVE  Passed(s, n)
    BY <1>13 DEF NothingLost
  <2>1. <<s, n>> \in Done
    BY <1>9 DEF Fresh
  <2>2. n <= store[s]
    BY <1>9
  <2> QED BY <2>1, <2>2 DEF Passed, Reached, Accounted
<1>16. NothingEmpty /\ WorkersExit
  BY <1>1, <1>2 DEF NothingEmpty, WorkersExit, Fresh
<1>17. Places /\ DrainEnds /\ CleanStop
  BY DEF Places, DrainEnds, CleanStop, Fresh
<1> QED BY <1>3, <1>5, <1>6, <1>8, <1>10, <1>11, <1>12, <1>14, <1>15, <1>16, <1>17
    DEF RunInv, RunTypes, MachineOK

(* The first start.                                                        *)
LEMMA InitIsFresh == Init => Fresh
<1> SUFFICES ASSUME Init PROVE Fresh
  OBVIOUS
<1>1. \A s \in Sources : 0 \in Checkpoints
  BY RunAssumptions
<1>2. durable \in [Sources -> Checkpoints] /\ \A s \in Sources : durable[s] = 0
  BY <1>1 DEF Init
<1>3. read = durable /\ flushed = durable /\ store = durable
  BY DEF Init
<1> QED BY <1>2, <1>3 DEF Init, Fresh

(* A restart, at any point.                                                *)
LEMMA RestartIsFresh == RunInv /\ Restart => Fresh'
<1> SUFFICES ASSUME RunInv, Restart PROVE Fresh'
  OBVIOUS
<1>1. durable \in [Sources -> Checkpoints]
  BY DEF RunInv, RunTypes, CoordinatorTypes
<1>2. \A s \in Sources : \A n \in 1 .. durable[s] : <<s, n>> \in Done
  BY DEF RunInv, MachineOK, SourceCover
<1> QED BY <1>1, <1>2 DEF Restart, Fresh, Done

(* A step of the output pool.                                              *)
LEMMA PoolStepKeeps == RunInv /\ PoolStep => RunInv'
  BY PoolAnswerKeeps, PoolLoseKeeps DEF PoolStep

(* Steps that leave the machine, and all its items, as they are.           *)
LEMMA RunStutters == RunInv /\ UNCHANGED vars => RunInv'
<1> SUFFICES ASSUME RunInv, UNCHANGED vars PROVE RunInv'
  OBVIOUS
<1>1. UNCHANGED inputVars /\ UNCHANGED <<next_id, tracking, store, durable, forced>>
  BY DEF vars, ckptVars
<1>2. /\ UNCHANGED <<pc, shutdown, rx_open, channel, submitting, pool, acks>>
      /\ UNCHANGED <<settled, skipped, parked>>
  BY DEF vars
<1>3. Quiet
  BY <1>1, <1>2 DEF Quiet, FlushResults
<1>4. Places' /\ DrainEnds' /\ CleanStop'
  BY <1>1, <1>2 DEF RunInv, Places, DrainEnds, CleanStop, InFlight, inputVars
<1> QED BY <1>2, <1>3, <1>4, QuietKeeps DEF RunInv, RunTypes, CoordinatorTypes

(* A step of the coordinator.                                              *)
LEMMA CoordinatorStepKeeps == RunInv /\ CoordinatorStep => RunInv'
<1> SUFFICES ASSUME RunInv, CoordinatorStep PROVE RunInv'
  OBVIOUS
<1>1. CASE AckArm \/ DrainAck
  BY <1>1, AckArmsKeep
<1>2. CASE ShutdownArm \/ ClosedArm \/ DrainEnd \/ Join
  BY <1>2, QuietStepsKeep
<1>3. CASE \E result \in StageResults : ReceiveArm(result) \/ DrainChannel(result)
  BY <1>3, ReceiveArmsKeep
<1>4. CASE PoolAccept \/ PoolDrained
  BY <1>4, PoolAcceptKeeps, PoolDrainedKeeps
<1>5. CASE StopMachine
  BY <1>5, StopMachineKeeps
<1> QED BY <1>1, <1>2, <1>3, <1>4, <1>5 DEF CoordinatorStep

(* The inductive invariant of run_async with its inputs, its pool and its  *)
(* checkpoint store holds in every state of the pipeline.                  *)
THEOREM RunInvariant == Spec => []RunInv
<1>1. Init => RunInv
  BY InitIsFresh, FreshIsSound
<1>2. RunInv /\ [Next]_vars => RunInv'
  <2>1. RunInv /\ InputStep => RunInv'
    BY InputStepKeeps
  <2>2. RunInv /\ CoordinatorStep => RunInv'
    BY CoordinatorStepKeeps
  <2>3. RunInv /\ (PoolRefuse \/ PoolStep) => RunInv'
    BY PoolRefuseKeeps, PoolStepKeeps
  <2>4. RunInv /\ (ControlShutdown \/ ControlFlush \/ ShutdownRequest) => RunInv'
    BY QuietStepsKeep
  <2>5. RunInv /\ DropRun => RunInv'
    BY DropRunKeeps
  <2>6. RunInv /\ Restart => RunInv'
    <3>1. Fresh' => RunInv'
      BY FreshIsSound, PTL
    <3> QED BY <3>1, RestartIsFresh
  <2>7. RunInv /\ UNCHANGED vars => RunInv'
    BY RunStutters
  <2> QED BY <2>1, <2>2, <2>3, <2>4, <2>5, <2>6, <2>7 DEF Next
<1> QED BY <1>1, <1>2, PTL DEF Spec

-----------------------------------------------------------------------------
(* What follows.                                                           *)

(* The types of the pipeline's state: queues and pool keep to their        *)
(* capacities and every checkpoint is one that the source can have.        *)
THEOREM PipelineTypes == Spec => []TypeOK
<1>1. RunInv => TypeOK
  <2> SUFFICES ASSUME RunInv PROVE TypeOK
    OBVIOUS
  <2>1. InputTypes /\ CoordinatorTypes /\ PoolTypes
    BY DEF RunInv, RunTypes
  <2>2. \A k \in DOMAIN channel : channel[k] \in Batches
    BY <2>1, ChainTypes
  <2>3. \A i \in Inputs : \A k \in DOMAIN io_queue[i] : io_queue[i][k] \in ChunksOf(i)
    BY <2>1, ChainTypes
  <2>4. {read, flushed, store, durable} \subseteq [Sources -> Checkpoints]
    BY <2>1 DEF InputTypes, CoordinatorTypes
  <2> QED BY <2>1, <2>2, <2>3, <2>4 DEF TypeOK, InputTypes, CoordinatorTypes, PoolTypes, PCs
<1> QED BY <1>1, RunInvariant, PTL

(* No path of submit_batch or run_async forgets a ticket: every batch that *)
(* the machine has in flight is with the coordinator, in the pool, in the  *)
(* ack channel, held, or lost with its worker.                             *)
THEOREM TicketsNeverForgotten == Spec => []TicketsAccountedFor
<1>1. RunInv => TicketsAccountedFor
  BY DEF RunInv, MachineOK, Tickets, TicketsLive, InFlight, Live, TicketsAccountedFor
<1> QED BY <1>1, RunInvariant, PTL

(* At-least-once: whatever acks, holds, failed flushes and crashes come    *)
(* when, a checkpoint on disk covers no unit that was not delivered,       *)
(* rejected, filtered out or dropped by a CPU worker on an error.          *)
THEOREM CheckpointsCoverDone == Spec => []DurableCovered
<1>1. RunInv => DurableCovered
  BY DEF RunInv, MachineOK, SourceCover, Done, DurableCovered, AllUnits
<1> QED BY <1>1, RunInvariant, PTL

(* A stop that drained the channel and did not force the machine leaves    *)
(* nothing behind: the store covers what the inputs have read, except for  *)
(* what a CPU worker dropped on an error.                                  *)
THEOREM CleanStopLeavesNothing == Spec => []CleanStopCoversReads
<1>1. RunInv => CleanStopCoversReads
  <2> SUFFICES ASSUME RunInv, pc = "stopped", ~forced, rx_open,
                      NEW s \in Sources, NEW n \in 1 .. read[s]
               PROVE  <<s, n>> \in skipped \/ n \in 1 .. store[s]
    BY DEF CleanStopCoversReads, AllUnits
  <2>1. /\ InputTypes /\ MachineOK /\ NothingLost /\ WorkersExit /\ DrainEnds /\ CleanStop
        /\ CoordinatorTypes
    BY DEF RunInv, RunTypes
  <2>2. /\ \A t \in Sources : InFlight(t) = {} /\ DOMAIN tracking[t].pending_acks = {}
        /\ tracking[s].committed \in {None, store[s]}
    BY <2>1 DEF CleanStop
  <2>3. parked = {}
    BY <2>1, <2>2 DEF MachineOK, Tickets, ParkedInFlight
  <2>4. channel = <<>> /\ cpu_done = Inputs
    BY <2>1, <2>3 DEF DrainEnds
  <2>5. PICK i \in Inputs : s \in SourcesOf(i)
    BY RunAssumptions DEF SourcesOf
  <2>6. read[s] = flushed[s] /\ outbox[i] = None /\ io_queue[i] = <<>>
    BY <2>1, <2>4, <2>5 DEF WorkersExit
  <2>7. Passed(s, n)
    <3>1. ~InChannel(s, n) /\ ~InWorker(i, s, n)
      BY <2>4, <2>6 DEF InChannel, InWorker
    <3> QED BY <2>1, <2>5, <2>6, <3>1 DEF NothingLost
  <2>8. Tracked(tracking[s]) = {}
    BY <2>2 DEF Tracked, InFlight
  <2>9. store[s] \in Nat /\ read[s] \in Nat
    BY <2>1, CheckpointsAreNat DEF InputTypes, CoordinatorTypes
  <2>10. n \in Nat /\ 1 <= n
    BY <2>9
  <2>11. <<s, n>> \in skipped \/ n <= store[s]
    BY <2>2, <2>7, <2>8 DEF Passed, Reached
  <2> QED BY <2>9, <2>10, <2>11
<1> QED BY <1>1, RunInvariant, PTL

(* No step moves a checkpoint on disk backwards.                           *)
LEMMA StepsKeepDurable == RunInv /\ Next => DurableGrows
<1> SUFFICES ASSUME RunInv, Next PROVE DurableGrows
  OBVIOUS
<1>1. /\ RunTypes /\ OnePlace /\ MachineOK /\ Places
      /\ \A s \in Sources : /\ durable[s] \in Nat /\ store[s] \in Nat
                            /\ durable[s] <= store[s]
  BY MachineIsOrdered, CheckpointsAreNat DEF RunInv
<1>2. CASE durable' = durable
  BY <1>1, <1>2 DEF DurableGrows
<1>3. CASE ControlFlush
  BY <1>1, <1>3 DEF DurableGrows, ControlFlush, FlushResults
<1>4. CASE AckArm \/ DrainAck
  <2>1. /\ ApplyPoolAck /\ UNCHANGED <<submitting, pool, settled>>
        /\ next_id' = next_id /\ UNCHANGED skipped
    BY <1>4 DEF AckArm, DrainAck
  <2>2. CASE Head(acks).outcome = "Held"
    BY <1>2, <2>1, <2>2 DEF ApplyPoolAck, HoldAllTickets
  <2>3. CASE Head(acks).outcome # "Held"
    <3> DEFINE ack == Head(acks)
    <3>1. /\ AckAllTickets(tracking, ack.id, ack.batch)
          /\ acks # <<>> /\ acks' = Tail(acks)
      BY <2>1, <2>3 DEF ApplyPoolAck
    <3>2. /\ ack.id \in BatchIds /\ ack.batch \in Batches
          /\ Live(ack.id, ack.batch) /\ Keeps({ack.id})
          /\ Units(ack.batch) \subseteq settled
      BY <2>1, <2>3, <3>1, AckTaken
    <3>3. Grows
      BY <2>1 DEF Grows
    <3> HIDE DEF ack
    <3> QED BY <1>1, <2>1, <3>1, <3>2, <3>3, AckStep
  <2> QED BY <2>2, <2>3
<1>5. CASE \E result \in StageResults : ReceiveArm(result) \/ DrainChannel(result)
  <2>1. PICK result \in StageResults : ReceiveArm(result) \/ DrainChannel(result)
    BY <1>5
  <2>2. PICK stop \in BOOLEAN : SubmitBatch(Head(channel), result, stop)
    BY <2>1 DEF ReceiveArm, DrainChannel
  <2>3. /\ pc \in {"select", "drain"} /\ submitting = None /\ channel # <<>>
        /\ UNCHANGED <<pool, acks>> /\ UNCHANGED skipped
    BY <2>1 DEF ReceiveArm, DrainChannel, Selecting
  <2>4. rx_open
    BY <1>1, <2>3 DEF Places
  <2> QED BY <2>2, <2>3, <2>4, SubmitBatchKeeps
<1>6. CASE StopMachine
  BY <1>6, StopMachineKeeps
<1>7. CASE InputStep \/ PoolRefuse \/ PoolStep
  BY <1>2, <1>7 DEF InputStep, PoolRefuse, PoolStep, PoolAnswer, PoolLose, ckptVars
<1>8. CASE ControlShutdown \/ ShutdownRequest \/ DropRun \/ Restart
  BY <1>2, <1>8 DEF ControlShutdown, ShutdownRequest, DropRun, Restart, ckptVars
<1>9. CASE ShutdownArm \/ ClosedArm \/ PoolAccept \/ DrainEnd \/ Join \/ PoolDrained
  BY <1>2, <1>9 DEF ShutdownArm, ClosedArm, PoolAccept, DrainEnd, Join, PoolDrained, ckptVars
<1> QED BY <1>3, <1>4, <1>5, <1>6, <1>7, <1>8, <1>9 DEF Next, CoordinatorStep

(* Neither an ack, a flush, a stop, a failed write nor a restart moves a   *)
(* checkpoint on disk backwards.                                           *)
THEOREM DiskNeverRegresses == Spec => DurableNeverRegresses
<1>1. RunInv /\ [Next]_vars => [\A s \in Sources : durable'[s] >= durable[s]]_vars
  <2> SUFFICES ASSUME RunInv, Next PROVE \A s \in Sources : durable'[s] >= durable[s]
    OBVIOUS
  <2>1. DurableGrows
    BY StepsKeepDurable
  <2> QED BY <2>1 DEF DurableGrows
<1> QED BY <1>1, RunInvariant, PTL DEF Spec, DurableNeverRegresses
=============================================================================
