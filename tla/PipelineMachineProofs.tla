------------------------ MODULE PipelineMachineProofs ------------------------
(***************************************************************************)
(* Proofs about PipelineMachine, for every set of sources, every type of   *)
(* checkpoints and every bound.  What the two functions that change the    *)
(* tracking state of one source promise comes first.                       *)
(***************************************************************************)
EXTENDS PipelineMachine, WellFoundedInduction, TLAPS

-----------------------------------------------------------------------------
(* Maxima of bounded sets of naturals.                                     *)

(* Every non-empty set of naturals has a least element.                    *)
LEMMA LeastNatural ==
  ASSUME NEW T \in SUBSET Nat, T # {}
  PROVE  \E x \in T : \A y \in T : x <= y
<1> DEFINE R == OpToRel(<, Nat)
<1>1. IsWellFoundedOn(R, Nat)
  BY NatLessThanWellFounded
<1>2. PICK x \in T : \A y \in T : ~(<<y, x>> \in R)
  <2> HIDE DEF R
  <2> QED BY <1>1, WFMin
<1>3. \A y \in T : ~(y < x)
  BY <1>2 DEF OpToRel
<1> QED BY <1>3

(* Max, which picks the last ack that the loop of record_ack_and_advance   *)
(* consumes, is well defined on every non-empty bounded set of batch ids.  *)
LEMMA MaxOfBounded ==
  ASSUME NEW n \in Nat, NEW S \in SUBSET (0 .. n), S # {}
  PROVE  /\ Max(S) \in S
         /\ \A y \in S : y <= Max(S)
<1> DEFINE T == {k \in 0 .. n : (n - k) \in S}
<1>1. T \in SUBSET Nat
  OBVIOUS
<1>2. T # {}
  <2>1. PICK x \in S : TRUE
    OBVIOUS
  <2>2. n - x \in T
    BY n - (n - x) = x
  <2> HIDE DEF T
  <2> QED BY <2>2
<1>3. PICK t \in T : \A u \in T : t <= u
  <2> HIDE DEF T
  <2> QED BY <1>1, <1>2, LeastNatural
<1>4. \A y \in S : n - t >= y
  <2> TAKE y \in S
  <2>1. n - y \in T
    BY n - (n - y) = y
  <2>2. t <= n - y
    BY <1>3, <2>1
  <2> QED BY <2>2
<1>5. n - t \in S
  BY <1>3
<1> QED BY <1>4, <1>5 DEF Max

(* The same for sets of batch ids.                                         *)
LEMMA MaxOfBatchIds ==
  ASSUME NEW S \in SUBSET BatchIds, S # {}
  PROVE  /\ Max(S) \in S
         /\ \A y \in S : y <= Max(S)
<1>1. MaxBatches - 1 \in Nat
  <2>1. PICK x \in S : x \in 0 .. (MaxBatches - 1)
    BY DEF BatchIds
  <2> QED BY <2>1, TrackingAssumptions
<1> QED BY <1>1, MaxOfBounded DEF BatchIds

-----------------------------------------------------------------------------
(* Batch maps.                                                             *)

(* The map of a source that tracks nothing is a batch map.                 *)
LEMMA EmptyMapType ==
  EmptyMap \in BatchMaps /\ DOMAIN EmptyMap = {}
  BY DEF EmptyMap, BatchMaps

(* BTreeMap::insert on a batch map: the domain gains the key, the other    *)
(* entries stay.                                                           *)
LEMMA InsertType ==
  ASSUME NEW map \in BatchMaps, NEW id \in BatchIds, NEW c \in Checkpoints
  PROVE  /\ Insert(map, id, c) \in BatchMaps
         /\ DOMAIN Insert(map, id, c) = DOMAIN map \cup {id}
         /\ Insert(map, id, c)[id] = c
         /\ \A x \in DOMAIN map : x # id => Insert(map, id, c)[x] = map[x]
<1>1. PICK ids \in SUBSET BatchIds : map \in [ids -> Checkpoints]
  BY DEF BatchMaps
<1>2. Insert(map, id, c) \in [ids \cup {id} -> Checkpoints]
  BY <1>1 DEF Insert
<1>3. ids \cup {id} \in SUBSET BatchIds
  OBVIOUS
<1>4. Insert(map, id, c) \in BatchMaps
  BY <1>2, <1>3 DEF BatchMaps
<1> QED BY <1>1, <1>4 DEF Insert

(* BTreeMap::remove, for a set of keys: the entries left are unchanged.    *)
LEMMA RemoveType ==
  ASSUME NEW map \in BatchMaps, NEW ks
  PROVE  /\ Remove(map, ks) \in BatchMaps
         /\ DOMAIN Remove(map, ks) = DOMAIN map \ ks
         /\ \A x \in DOMAIN map \ ks : Remove(map, ks)[x] = map[x]
<1>1. PICK ids \in SUBSET BatchIds : map \in [ids -> Checkpoints]
  BY DEF BatchMaps
<1>2. Remove(map, ks) \in [ids \ ks -> Checkpoints]
  BY <1>1 DEF Remove
<1>3. ids \ ks \in SUBSET BatchIds
  OBVIOUS
<1>4. Remove(map, ks) \in BatchMaps
  BY <1>2, <1>3 DEF BatchMaps
<1> QED BY <1>1, <1>4 DEF Remove

(* A batch map takes batch ids to checkpoints.                             *)
LEMMA BatchMapElements ==
  ASSUME NEW map \in BatchMaps
  PROVE  /\ DOMAIN map \in SUBSET BatchIds
         /\ \A id \in DOMAIN map : map[id] \in Checkpoints
  BY DEF BatchMaps

-----------------------------------------------------------------------------
(* What begin_send and record_ack_and_advance do to one source.            *)

(* begin_send puts one batch in flight and leaves the buffered acks and    *)
(* the committed checkpoint of the source alone.                           *)
LEMMA TrackFacts ==
  ASSUME NEW src \in SourceTracking, NEW id \in BatchIds, NEW c \in Checkpoints
  PROVE  /\ Track(src, id, c) \in SourceTracking
         /\ DOMAIN Track(src, id, c).in_flight = DOMAIN src.in_flight \cup {id}
         /\ Track(src, id, c).in_flight[id] = c
         /\ \A x \in DOMAIN src.in_flight :
                x # id => Track(src, id, c).in_flight[x] = src.in_flight[x]
         /\ Track(src, id, c).pending_acks = src.pending_acks
         /\ Track(src, id, c).committed = src.committed
<1>1. src.in_flight \in BatchMaps
  BY DEF SourceTracking
<1>2. /\ Track(src, id, c).in_flight = Insert(src.in_flight, id, c)
      /\ Track(src, id, c).pending_acks = src.pending_acks
      /\ Track(src, id, c).committed = src.committed
  BY DEF Track, SourceTracking
<1>3. /\ Insert(src.in_flight, id, c) \in BatchMaps
      /\ DOMAIN Insert(src.in_flight, id, c) = DOMAIN src.in_flight \cup {id}
      /\ Insert(src.in_flight, id, c)[id] = c
      /\ \A x \in DOMAIN src.in_flight :
             x # id => Insert(src.in_flight, id, c)[x] = src.in_flight[x]
  BY <1>1, InsertType, Zenon
<1>4. Track(src, id, c) \in SourceTracking
  BY <1>3 DEF Track, SourceTracking
<1> QED BY <1>2, <1>3, <1>4, Zenon

(* The acks that record_ack_and_advance looks at: the buffered ones and    *)
(* the one it was called for.                                              *)
Buffered(src, id) == Insert(src.pending_acks, id, src.in_flight[id])

(* The acks that remain buffered wait for an older batch in flight, and    *)
(* what is committed is the checkpoint of an acknowledged batch below      *)
(* which nothing is in flight.                                             *)
LEMMA RecordAckFacts ==
  ASSUME NEW src \in SourceTracking, NEW id \in DOMAIN src.in_flight
  PROVE  /\ RecordAckAndAdvance(src, id) \in SourceTracking
         /\ DOMAIN RecordAckAndAdvance(src, id).in_flight = DOMAIN src.in_flight \ {id}
         /\ \A x \in DOMAIN RecordAckAndAdvance(src, id).in_flight :
                RecordAckAndAdvance(src, id).in_flight[x] = src.in_flight[x]
         /\ DOMAIN RecordAckAndAdvance(src, id).pending_acks
                \subseteq DOMAIN Buffered(src, id)
         /\ \A x \in DOMAIN RecordAckAndAdvance(src, id).pending_acks :
                /\ RecordAckAndAdvance(src, id).pending_acks[x] = Buffered(src, id)[x]
                /\ \E older \in DOMAIN RecordAckAndAdvance(src, id).in_flight : older < x
         /\ RecordAckAndAdvance(src, id).committed # src.committed =>
               \E m \in DOMAIN Buffered(src, id) :
                   /\ RecordAckAndAdvance(src, id).committed = Buffered(src, id)[m]
                   /\ \A other \in DOMAIN RecordAckAndAdvance(src, id).in_flight :
                          ~(other < m)
<1> DEFINE r        == RecordAckAndAdvance(src, id)
           pending  == Buffered(src, id)
           flight   == Remove(src.in_flight, {id})
           consumed == Contiguous(flight, pending)
<1>1. /\ src.in_flight \in BatchMaps
      /\ src.pending_acks \in BatchMaps
      /\ src.committed \in Checkpoints \cup {None}
  BY DEF SourceTracking
<1>2. id \in BatchIds /\ src.in_flight[id] \in Checkpoints
  BY <1>1, BatchMapElements
<1>3. /\ flight \in BatchMaps
      /\ DOMAIN flight = DOMAIN src.in_flight \ {id}
      /\ \A x \in DOMAIN flight : flight[x] = src.in_flight[x]
  <2>1. /\ flight \in BatchMaps
        /\ DOMAIN flight = DOMAIN src.in_flight \ {id}
        /\ \A x \in DOMAIN src.in_flight \ {id} : flight[x] = src.in_flight[x]
    BY <1>1, RemoveType, Zenon
  <2> HIDE DEF flight
  <2> QED BY <2>1
<1>4. /\ pending \in BatchMaps
      /\ DOMAIN pending = DOMAIN src.pending_acks \cup {id}
  BY <1>1, <1>2, InsertType DEF Buffered
<1>5. /\ r.in_flight = flight
      /\ r.pending_acks = Remove(pending, consumed)
      /\ r.committed = IF consumed = {} THEN src.committed ELSE pending[Max(consumed)]
      /\ r = [committed |-> r.committed, in_flight |-> r.in_flight,
              pending_acks |-> r.pending_acks]
  BY DEF RecordAckAndAdvance, Buffered
<1>6. /\ consumed \subseteq DOMAIN pending
      /\ \A x \in consumed : \A other \in DOMAIN flight : ~(other < x)
      /\ \A x \in DOMAIN pending \ consumed : \E other \in DOMAIN flight : other < x
  BY DEF Contiguous
<1> HIDE DEF flight, consumed, r, pending
<1>7. /\ Remove(pending, consumed) \in BatchMaps
      /\ DOMAIN Remove(pending, consumed) = DOMAIN pending \ consumed
      /\ \A x \in DOMAIN pending \ consumed : Remove(pending, consumed)[x] = pending[x]
  BY <1>4, RemoveType
<1>8. consumed # {} => Max(consumed) \in consumed
  BY <1>4, <1>6, BatchMapElements, MaxOfBatchIds
<1>9. consumed # {} => pending[Max(consumed)] \in Checkpoints
  BY <1>4, <1>6, <1>8, BatchMapElements
<1>10. r.committed \in Checkpoints \cup {None}
  BY <1>1, <1>5, <1>9
<1>11. r \in SourceTracking
  BY <1>3, <1>5, <1>7, <1>10 DEF SourceTracking
<1>12. r.committed # src.committed =>
         \E m \in DOMAIN pending :
             /\ r.committed = pending[m]
             /\ \A other \in DOMAIN r.in_flight : ~(other < m)
  BY <1>5, <1>6, <1>8
<1>13. /\ DOMAIN r.in_flight = DOMAIN src.in_flight \ {id}
       /\ \A x \in DOMAIN r.in_flight : r.in_flight[x] = src.in_flight[x]
       /\ DOMAIN r.pending_acks \subseteq DOMAIN pending
       /\ \A x \in DOMAIN r.pending_acks : /\ r.pending_acks[x] = pending[x]
                                          /\ \E older \in DOMAIN r.in_flight : older < x
  BY <1>3, <1>5, <1>6, <1>7
<1> QED BY <1>11, <1>12, <1>13 DEF r, pending

-----------------------------------------------------------------------------
(* Tracking seen as one map: the ids in flight or acknowledged and         *)
(* buffered, each with its checkpoint.                                     *)

Tracked(src) == DOMAIN src.in_flight \cup DOMAIN src.pending_acks

Ckpt(src, id) == IF id \in DOMAIN src.in_flight THEN src.in_flight[id]
                                                ELSE src.pending_acks[id]

(* A batch is in flight or its ack is buffered, not both.                  *)
Exclusive(src) == DOMAIN src.in_flight \cap DOMAIN src.pending_acks = {}

(* Tracked ids are batch ids, with checkpoints.                            *)
LEMMA TrackedTypes ==
  ASSUME NEW src \in SourceTracking, NEW x \in Tracked(src)
  PROVE  x \in BatchIds /\ x \in Nat /\ Ckpt(src, x) \in Checkpoints
<1>1. src.in_flight \in BatchMaps /\ src.pending_acks \in BatchMaps
  BY DEF SourceTracking
<1>2. x \in BatchIds /\ Ckpt(src, x) \in Checkpoints
  BY <1>1, BatchMapElements DEF Tracked, Ckpt
<1> QED BY <1>2, TrackingAssumptions DEF BatchIds

(* What an ack does to the tracked ids.  Either it is buffered, and they   *)
(* stay; or the loop of record_ack_and_advance runs up to some id m, the   *)
(* checkpoint of m is committed, exactly the ids above m stay tracked, and *)
(* the acked id is m or below.                                             *)
AckBuffered(src, id, r) ==
    /\ Tracked(r) = Tracked(src)
    /\ id \in DOMAIN r.pending_acks
    /\ r.committed = src.committed

AckCommits(src, id, r, m) ==
    /\ m \in Tracked(src)
    /\ Tracked(r) = {x \in Tracked(src) : m < x}
    /\ r.committed = Ckpt(src, m)
    /\ r.committed # None

(* record_ack_and_advance for a batch in flight does one of the two.       *)
LEMMA AckShape ==
  ASSUME NEW src \in SourceTracking, Exclusive(src), NEW id \in DOMAIN src.in_flight
  PROVE  /\ RecordAckAndAdvance(src, id) \in SourceTracking
         /\ Exclusive(RecordAckAndAdvance(src, id))
         /\ DOMAIN RecordAckAndAdvance(src, id).in_flight = DOMAIN src.in_flight \ {id}
         /\ \A x \in Tracked(RecordAckAndAdvance(src, id)) :
                Ckpt(RecordAckAndAdvance(src, id), x) = Ckpt(src, x)
         /\ \/ AckBuffered(src, id, RecordAckAndAdvance(src, id))
            \/ \E m \in Nat : AckCommits(src, id, RecordAckAndAdvance(src, id), m)
<1> DEFINE r        == RecordAckAndAdvance(src, id)
           pending  == Buffered(src, id)
           flight   == Remove(src.in_flight, {id})
           consumed == Contiguous(flight, pending)
<1>1. src.in_flight \in BatchMaps /\ src.pending_acks \in BatchMaps
  BY DEF SourceTracking
<1>2. id \in BatchIds /\ src.in_flight[id] \in Checkpoints
  BY <1>1, BatchMapElements
<1>3. /\ r \in SourceTracking
      /\ DOMAIN r.in_flight = DOMAIN src.in_flight \ {id}
      /\ \A x \in DOMAIN r.in_flight : r.in_flight[x] = src.in_flight[x]
  BY RecordAckFacts, Zenon
<1>4. /\ pending \in BatchMaps
      /\ DOMAIN pending = DOMAIN src.pending_acks \cup {id}
      /\ pending[id] = src.in_flight[id]
      /\ \A x \in DOMAIN src.pending_acks : x # id => pending[x] = src.pending_acks[x]
  BY <1>1, <1>2, InsertType DEF Buffered
<1>5. /\ r.in_flight = flight
      /\ r.pending_acks = Remove(pending, consumed)
      /\ r.committed = IF consumed = {} THEN src.committed ELSE pending[Max(consumed)]
  BY DEF RecordAckAndAdvance, Buffered
<1>6. /\ consumed \subseteq DOMAIN pending
      /\ \A x \in consumed : \A other \in DOMAIN flight : ~(other < x)
      /\ \A x \in DOMAIN pending \ consumed : \E other \in DOMAIN flight : other < x
  BY DEF Contiguous
<1> HIDE DEF flight, consumed, r, pending
<1>7. /\ DOMAIN r.pending_acks = DOMAIN pending \ consumed
      /\ \A x \in DOMAIN pending \ consumed : r.pending_acks[x] = pending[x]
  <2>1. /\ DOMAIN Remove(pending, consumed) = DOMAIN pending \ consumed
        /\ \A x \in DOMAIN pending \ consumed : Remove(pending, consumed)[x] = pending[x]
    BY <1>4, RemoveType
  <2> QED BY <2>1, <1>5
<1>8. \A x \in DOMAIN pending : pending[x] = Ckpt(src, x)
  BY <1>4 DEF Ckpt, Exclusive
<1>9. Tracked(r) = Tracked(src) \ consumed
  BY <1>3, <1>4, <1>6, <1>7 DEF Tracked, Exclusive
<1>10. Exclusive(r)
  BY <1>3, <1>4, <1>7 DEF Exclusive
<1>11. \A x \in Tracked(r) : Ckpt(r, x) = Ckpt(src, x)
  BY <1>3, <1>4, <1>7, <1>8 DEF Tracked, Ckpt, Exclusive
<1>12. CASE consumed = {}
  <2>1. AckBuffered(src, id, r)
    BY <1>4, <1>5, <1>7, <1>9, <1>12 DEF AckBuffered
  <2> QED BY <2>1, <1>3, <1>10, <1>11 DEF r
<1>13. CASE consumed # {}
  <2> DEFINE m == Max(consumed)
  <2>1. DOMAIN pending \subseteq BatchIds
    BY <1>4, BatchMapElements
  <2>2. m \in consumed /\ \A y \in consumed : y <= m
    BY <2>1, <1>6, <1>13, MaxOfBatchIds
  <2> HIDE DEF m
  <2>3. /\ m \in DOMAIN pending /\ m \in BatchIds
        /\ r.committed = Ckpt(src, m)
        /\ r.committed # None
    <3>1. m \in DOMAIN pending /\ m \in BatchIds
      BY <1>6, <2>1, <2>2
    <3>2. r.committed = pending[m]
      BY <1>5, <1>13 DEF m
    <3>3. pending[m] \in Checkpoints
      BY <1>4, <3>1, BatchMapElements
    <3> QED BY <3>1, <3>2, <3>3, <1>8, TrackingAssumptions
  <2>4. \A x \in Tracked(src) : x \in Nat
    BY TrackedTypes
  <2>5. m \in Tracked(src) /\ m \in Nat
    BY <1>4, <2>3, TrackingAssumptions DEF Tracked, BatchIds
  <2>6. \A x \in consumed : ~(m < x)
    BY <2>2, <2>4, <2>5, <1>4, <1>6 DEF Tracked
  <2>7. \A x \in DOMAIN flight : m < x
    <3> TAKE x \in DOMAIN flight
    <3>1. ~(x < m) /\ x # m /\ x \in Nat
      BY <1>3, <1>4, <1>5, <1>6, <2>2, <2>4 DEF Exclusive, Tracked
    <3> QED BY <3>1, <2>5
  <2>8. \A x \in DOMAIN pending \ consumed : m < x
    <3> TAKE x \in DOMAIN pending \ consumed
    <3>1. PICK other \in DOMAIN flight : other < x
      BY <1>6
    <3>2. m < other /\ other \in Nat /\ x \in Nat
      BY <2>4, <2>7, <1>3, <1>4, <1>5 DEF Tracked
    <3> QED BY <3>1, <3>2, <2>5
  <2>9. Tracked(r) = {x \in Tracked(src) : m < x}
    <3>1. \A x \in Tracked(r) : m < x
      BY <1>5, <1>7, <2>7, <2>8 DEF Tracked
    <3>2. \A x \in consumed : ~(m < x)
      BY <2>6
    <3> QED BY <3>1, <3>2, <1>9
  <2>10. AckCommits(src, id, r, m)
    BY <2>3, <2>5, <2>9 DEF AckCommits
  <2> QED BY <2>5, <2>10, <1>3, <1>10, <1>11 DEF r
<1> QED BY <1>12, <1>13

-----------------------------------------------------------------------------
(* The inductive invariant.                                                *)

(* PipelineMachine::new satisfies the invariant.                           *)
LEMMA InitEstablishesInv == Init => MachineInv
<1> SUFFICES ASSUME Init PROVE MachineInv
  OBVIOUS
<1>1. Untracked \in SourceTracking
  BY EmptyMapType DEF Untracked, SourceTracking
<1>2. DOMAIN tickets = {} /\ tickets \in [0 .. (next_batch_id - 1) -> Ticket]
  BY DEF Init, EmptyMap
<1>3. TypeOK
  <2>1. next_batch_id \in 0 .. MaxBatches /\ tracking \in [Sources -> SourceTracking]
    BY <1>1, MachineAssumptions, TrackingAssumptions DEF Init
  <2>2. phase \in {"Starting", "Running", "Draining", "Stopped"} /\ forced \in BOOLEAN
    BY DEF Init
  <2> QED BY <1>2, <2>1, <2>2 DEF TypeOK
<1>4. \A s \in Sources : /\ DOMAIN tracking[s].in_flight = {}
                        /\ DOMAIN tracking[s].pending_acks = {}
  BY EmptyMapType DEF Init, Untracked
<1>5. NoStrandedAck /\ InFlightUntilApplied
  BY <1>2, <1>4 DEF NoStrandedAck, InFlightUntilApplied
<1>6. BegunWhenSent
  BY <1>2 DEF BegunWhenSent
<1> QED BY <1>3, <1>5, <1>6 DEF MachineInv

(* A ticket has a batch id below the bound.                                *)
LEMMA TicketIds ==
  ASSUME TypeOK, NEW id \in DOMAIN tickets
  PROVE  /\ id \in BatchIds
         /\ tickets[id] \in Ticket
         /\ DOMAIN tickets = 0 .. (next_batch_id - 1)
  BY MachineAssumptions, TrackingAssumptions DEF TypeOK, BatchIds

(* create_batch keeps the invariant: the new id is above all others and    *)
(* is not in flight yet.                                                   *)
LEMMA CreateBatchKeepsInv ==
  ASSUME MachineInv, NEW s \in Sources, NEW c \in Checkpoints, CreateBatch(s, c)
  PROVE  MachineInv'
<1> DEFINE new == NewTicket(s, c)
<1>1. new \in Ticket /\ new.state = "Queued" /\ new.begun = FALSE
  BY MachineAssumptions, TrackingAssumptions DEF NewTicket, Ticket, TicketStates
<1>2. /\ next_batch_id \in Nat
      /\ next_batch_id' = next_batch_id + 1
      /\ next_batch_id' \in 0 .. MaxBatches
      /\ DOMAIN tickets = 0 .. (next_batch_id - 1)
  BY MachineAssumptions, TrackingAssumptions DEF MachineInv, TypeOK, CreateBatch
<1>3. /\ DOMAIN tickets' = DOMAIN tickets \cup {next_batch_id}
      /\ tickets'[next_batch_id] = new
      /\ next_batch_id \notin DOMAIN tickets
      /\ \A id \in DOMAIN tickets : tickets'[id] = tickets[id]
  BY <1>2 DEF CreateBatch, Insert
<1> HIDE DEF new
<1>4. tickets' \in [0 .. (next_batch_id' - 1) -> Ticket]
  <2>1. 0 .. (next_batch_id' - 1) = DOMAIN tickets'
    BY <1>2, <1>3
  <2>2. \A id \in DOMAIN tickets' : tickets'[id] \in Ticket
    BY <1>1, <1>3 DEF MachineInv, TypeOK
  <2>3. tickets' = [id \in DOMAIN tickets' |-> tickets'[id]]
    BY DEF CreateBatch, Insert
  <2> QED BY <2>1, <2>2, <2>3
<1>5. TypeOK'
  BY <1>2, <1>4 DEF MachineInv, TypeOK, CreateBatch
<1>6. NoStrandedAck'
  BY DEF MachineInv, NoStrandedAck, CreateBatch
<1>7. InFlightUntilApplied'
  <2>1. tracking' = tracking
    BY DEF CreateBatch
  <2> QED BY <1>1, <1>3, <2>1 DEF MachineInv, InFlightUntilApplied
<1>8. BegunWhenSent'
  BY <1>1, <1>3 DEF MachineInv, BegunWhenSent
<1> QED BY <1>5, <1>6, <1>7, <1>8 DEF MachineInv

(* begin_send keeps the invariant, for a new ticket and for one that       *)
(* failed and is already in flight.                                        *)
LEMMA BeginSendKeepsInv ==
  ASSUME MachineInv, NEW id \in DOMAIN tickets, BeginSend(id)
  PROVE  MachineInv'
<1> DEFINE src == tickets[id].source
           cp  == tickets[id].checkpoint
<1>1. /\ id \in BatchIds
      /\ tickets[id] \in Ticket
      /\ tickets \in [0 .. (next_batch_id - 1) -> Ticket]
      /\ tracking \in [Sources -> SourceTracking]
  BY TicketIds DEF MachineInv, TypeOK
<1>2. src \in Sources /\ cp \in Checkpoints
  BY <1>1 DEF Ticket
<1>3. /\ tickets' \in [0 .. (next_batch_id - 1) -> Ticket]
      /\ DOMAIN tickets' = DOMAIN tickets
      /\ tickets'[id].state = "Sending"
      /\ tickets'[id].begun = TRUE
      /\ tickets'[id].source = src
      /\ tickets'[id].checkpoint = cp
      /\ \A other \in DOMAIN tickets : other # id => tickets'[other] = tickets[other]
  BY <1>1 DEF BeginSend, Ticket, TicketStates
<1>4. /\ tracking'[src] = Track(tracking[src], id, cp)
      /\ tracking' = [tracking EXCEPT ![src] = Track(tracking[src], id, cp)]
      /\ \A s \in Sources : s # src => tracking'[s] = tracking[s]
  BY <1>1, <1>2 DEF BeginSend
<1>5. /\ Track(tracking[src], id, cp) \in SourceTracking
      /\ DOMAIN tracking'[src].in_flight = DOMAIN tracking[src].in_flight \cup {id}
      /\ tracking'[src].in_flight[id] = cp
      /\ \A x \in DOMAIN tracking[src].in_flight :
             x # id => tracking'[src].in_flight[x] = tracking[src].in_flight[x]
      /\ tracking'[src].pending_acks = tracking[src].pending_acks
  BY <1>1, <1>2, <1>4, TrackFacts
<1>6. tickets[id].state = "Queued"
  BY DEF BeginSend
<1> HIDE DEF src, cp
<1>7. TypeOK'
  <2>1. tracking' \in [Sources -> SourceTracking]
    BY <1>1, <1>4, <1>5
  <2>2. UNCHANGED <<phase, next_batch_id, forced>>
    BY DEF BeginSend
  <2> QED BY <1>3, <2>1, <2>2 DEF MachineInv, TypeOK
<1>8. NoStrandedAck'
  BY <1>2, <1>4, <1>5 DEF MachineInv, NoStrandedAck
<1>9. InFlightUntilApplied'
  <2> SUFFICES ASSUME NEW s \in Sources
               PROVE  InFlightUntilApplied!(s)'
    BY DEF InFlightUntilApplied
  <2>1. CASE s = src
    BY <1>2, <1>3, <1>4, <1>5, <1>6, <2>1 DEF MachineInv, InFlightUntilApplied, src, cp
  <2>2. CASE s # src
    BY <1>2, <1>3, <1>4, <1>6, <2>2 DEF MachineInv, InFlightUntilApplied, src
  <2> QED BY <2>1, <2>2
<1>10. BegunWhenSent'
  BY <1>3 DEF MachineInv, BegunWhenSent
<1> QED BY <1>7, <1>8, <1>9, <1>10 DEF MachineInv

(* ack, reject, fail and the drop of a ticket change only the state of one *)
(* ticket, and never to or from "Applied".                                 *)
LEMMA TicketStepKeepsInv ==
  ASSUME MachineInv, NEW id \in DOMAIN tickets,
         Resolve(id) \/ Fail(id) \/ Drop(id)
  PROVE  MachineInv'
<1>1. /\ tickets[id] \in Ticket
      /\ tickets \in [0 .. (next_batch_id - 1) -> Ticket]
  BY DEF MachineInv, TypeOK
<1>2. tracking' = tracking /\ UNCHANGED <<phase, next_batch_id, forced>>
  BY DEF Resolve, Fail, Drop
<1>3. /\ tickets' \in [0 .. (next_batch_id - 1) -> Ticket]
      /\ DOMAIN tickets' = DOMAIN tickets
      /\ tickets'[id].source = tickets[id].source
      /\ tickets'[id].checkpoint = tickets[id].checkpoint
      /\ tickets'[id].begun = tickets[id].begun
      /\ tickets[id].state # "Applied"
      /\ tickets'[id].state # "Applied"
      /\ tickets'[id].state \in {"Sending", "Receipt"} =>
            tickets[id].state \in {"Sending", "Receipt"}
      /\ \A other \in DOMAIN tickets : other # id => tickets'[other] = tickets[other]
  <2>1. CASE Resolve(id)
    BY <1>1, <2>1 DEF Resolve, Ticket, TicketStates
  <2>2. CASE Fail(id)
    <3>1. tickets[id].attempts + 1 \in 0 .. MaxAttempts
      BY <1>1, <2>2, MachineAssumptions, TrackingAssumptions DEF Fail, Ticket
    <3> QED BY <1>1, <2>2, <3>1 DEF Fail, Ticket, TicketStates
  <2>3. CASE Drop(id)
    BY <1>1, <2>3 DEF Drop, Ticket, TicketStates
  <2> QED BY <2>1, <2>2, <2>3
<1>4. TypeOK'
  BY <1>2, <1>3 DEF MachineInv, TypeOK
<1>5. NoStrandedAck'
  BY <1>2 DEF MachineInv, NoStrandedAck
<1>6. InFlightUntilApplied'
  BY <1>2, <1>3 DEF MachineInv, InFlightUntilApplied
<1>7. BegunWhenSent'
  BY <1>3 DEF MachineInv, BegunWhenSent
<1> QED BY <1>4, <1>5, <1>6, <1>7 DEF MachineInv

(* What apply_ack does to source src and ticket id: the batch leaves       *)
(* in_flight, what stays buffered is waiting for an older batch, and what  *)
(* is committed is the checkpoint of a buffered ack below which nothing is *)
(* in flight.                                                              *)
AckStep(src, id) ==
    /\ src \in Sources
    /\ id \in DOMAIN tracking[src].in_flight
    /\ \A x \in DOMAIN Buffered(tracking[src], id) :
           /\ x \in DOMAIN tickets
           /\ tickets[x].source = src
           /\ x # id => tickets[x].state = "Applied"
           /\ Buffered(tracking[src], id)[x] = tickets[x].checkpoint
    /\ DOMAIN tracking'[src].in_flight = DOMAIN tracking[src].in_flight \ {id}
    /\ \A x \in DOMAIN tracking'[src].in_flight :
           tracking'[src].in_flight[x] = tracking[src].in_flight[x]
    /\ DOMAIN tracking'[src].pending_acks \subseteq DOMAIN Buffered(tracking[src], id)
    /\ \A x \in DOMAIN tracking'[src].pending_acks :
           /\ tracking'[src].pending_acks[x] = Buffered(tracking[src], id)[x]
           /\ \E older \in DOMAIN tracking'[src].in_flight : older < x
    /\ tracking'[src].committed # tracking[src].committed =>
           \E m \in DOMAIN Buffered(tracking[src], id) :
               /\ tracking'[src].committed = Buffered(tracking[src], id)[m]
               /\ \A other \in DOMAIN tracking'[src].in_flight : ~(other < m)
    /\ \A s \in Sources : s # src => tracking'[s] = tracking[s]
    /\ tracking' \in [Sources -> SourceTracking]
    /\ tickets' \in [0 .. (next_batch_id - 1) -> Ticket]
    /\ DOMAIN tickets' = DOMAIN tickets
    /\ tickets[id].source = src
    /\ tickets[id].state = "Receipt"
    /\ tickets[id].begun
    /\ tickets'[id].state = "Applied"
    /\ tickets'[id].source = src
    /\ tickets'[id].checkpoint = tickets[id].checkpoint
    /\ tickets'[id].begun
    /\ \A other \in DOMAIN tickets : other # id => tickets'[other] = tickets[other]

(* A receipt is applied only to a batch that is in flight, so apply_ack    *)
(* never takes the early return for spurious acks and AckStep holds.       *)
LEMMA ApplyAckStep ==
  ASSUME MachineInv, NEW id \in DOMAIN tickets, ApplyAck(id)
  PROVE  AckStep(tickets[id].source, id)
<1> DEFINE src == tickets[id].source
           new == RecordAckAndAdvance(tracking[src], id)
<1>1. /\ id \in BatchIds
      /\ tickets[id] \in Ticket
      /\ tickets \in [0 .. (next_batch_id - 1) -> Ticket]
      /\ tracking \in [Sources -> SourceTracking]
  BY TicketIds DEF MachineInv, TypeOK
<1>2. src \in Sources /\ tickets[id].checkpoint \in Checkpoints
  BY <1>1 DEF Ticket
<1>3. tickets[id].state = "Receipt" /\ tickets[id].begun
  BY DEF ApplyAck, MachineInv, BegunWhenSent
<1>4. /\ id \in DOMAIN tracking[src].in_flight
      /\ tracking[src].in_flight[id] = tickets[id].checkpoint
  BY <1>2, <1>3 DEF MachineInv, InFlightUntilApplied
<1>5. /\ tracking[src] \in SourceTracking
      /\ tracking[src].pending_acks \in BatchMaps
  BY <1>1, <1>2 DEF SourceTracking
<1>6. /\ tracking' = [tracking EXCEPT ![src] = new]
      /\ tickets' = [tickets EXCEPT ![id].state = "Applied"]
  BY DEF ApplyAck
<1>7. /\ tickets' \in [0 .. (next_batch_id - 1) -> Ticket]
      /\ DOMAIN tickets' = DOMAIN tickets
      /\ tickets'[id].state = "Applied"
      /\ tickets'[id].source = src
      /\ tickets'[id].checkpoint = tickets[id].checkpoint
      /\ tickets'[id].begun = tickets[id].begun
      /\ \A other \in DOMAIN tickets : other # id => tickets'[other] = tickets[other]
  BY <1>1, <1>6 DEF Ticket, TicketStates
<1>8. /\ new \in SourceTracking
      /\ DOMAIN new.in_flight = DOMAIN tracking[src].in_flight \ {id}
      /\ \A x \in DOMAIN new.in_flight : new.in_flight[x] = tracking[src].in_flight[x]
      /\ DOMAIN new.pending_acks \subseteq DOMAIN Buffered(tracking[src], id)
      /\ \A x \in DOMAIN new.pending_acks :
             /\ new.pending_acks[x] = Buffered(tracking[src], id)[x]
             /\ \E older \in DOMAIN new.in_flight : older < x
      /\ new.committed # tracking[src].committed =>
             \E m \in DOMAIN Buffered(tracking[src], id) :
                 /\ new.committed = Buffered(tracking[src], id)[m]
                 /\ \A other \in DOMAIN new.in_flight : ~(other < m)
  <2> HIDE DEF src
  <2> QED BY <1>4, <1>5, RecordAckFacts, Zenon
<1>9. \A x \in DOMAIN Buffered(tracking[src], id) :
         /\ x \in DOMAIN tickets
         /\ tickets[x].source = src
         /\ x # id => tickets[x].state = "Applied"
         /\ Buffered(tracking[src], id)[x] = tickets[x].checkpoint
  <2>1. Buffered(tracking[src], id) =
           Insert(tracking[src].pending_acks, id, tickets[id].checkpoint)
    BY <1>4 DEF Buffered
  <2>2. \A x \in DOMAIN tracking[src].pending_acks :
           /\ x \in DOMAIN tickets
           /\ tickets[x].source = src
           /\ tickets[x].state = "Applied"
           /\ tracking[src].pending_acks[x] = tickets[x].checkpoint
    BY <1>2 DEF MachineInv, InFlightUntilApplied
  <2> QED BY <2>1, <2>2 DEF Insert
<1> HIDE DEF src, new
<1>10. tracking'[src] = new /\ (\A s \in Sources : s # src => tracking'[s] = tracking[s])
  BY <1>1, <1>2, <1>6
<1>11. tracking' \in [Sources -> SourceTracking]
  BY <1>1, <1>2, <1>6, <1>8
<1>12. AckStep(src, id)
  BY <1>2, <1>3, <1>4, <1>7, <1>8, <1>9, <1>10, <1>11, Zenon DEF AckStep, src
<1> QED BY <1>12 DEF src

(* apply_ack keeps the invariant.                                          *)
LEMMA ApplyAckKeepsInv ==
  ASSUME MachineInv, NEW id \in DOMAIN tickets, ApplyAck(id)
  PROVE  MachineInv'
<1>1. PICK src : AckStep(src, id)
  BY ApplyAckStep, Zenon
<1> DEFINE pending == Buffered(tracking[src], id)
<1> HIDE DEF pending
<1>2. /\ \A x \in DOMAIN pending : /\ x \in DOMAIN tickets
                                  /\ tickets[x].source = src
                                  /\ x # id => tickets[x].state = "Applied"
                                  /\ pending[x] = tickets[x].checkpoint
      /\ \A x \in DOMAIN tracking'[src].pending_acks :
            x \in DOMAIN pending /\ tracking'[src].pending_acks[x] = pending[x]
  BY <1>1 DEF AckStep, pending
<1>3. TypeOK'
  <2>1. UNCHANGED <<phase, next_batch_id, forced>>
    BY DEF ApplyAck
  <2>2. /\ tracking' \in [Sources -> SourceTracking]
        /\ tickets' \in [0 .. (next_batch_id - 1) -> Ticket]
    BY <1>1 DEF AckStep
  <2> QED BY <2>1, <2>2 DEF MachineInv, TypeOK
<1>4. NoStrandedAck'
  BY <1>1 DEF MachineInv, NoStrandedAck, AckStep
<1>5. InFlightUntilApplied'
  <2> SUFFICES ASSUME NEW s \in Sources
               PROVE  InFlightUntilApplied!(s)'
    BY DEF InFlightUntilApplied
  <2>1. CASE s = src
    <3>1. DOMAIN tracking'[s].in_flight =
             {x \in DOMAIN tickets' : /\ tickets'[x].source = s
                                      /\ tickets'[x].begun
                                      /\ tickets'[x].state # "Applied"}
      BY <1>1, <2>1 DEF MachineInv, InFlightUntilApplied, AckStep
    <3>2. \A x \in DOMAIN tracking'[s].in_flight :
             tracking'[s].in_flight[x] = tickets'[x].checkpoint
      BY <1>1, <2>1 DEF MachineInv, InFlightUntilApplied, AckStep
    <3>3. ASSUME NEW x \in DOMAIN tracking'[s].pending_acks
          PROVE  /\ x \in DOMAIN tickets'
                 /\ tickets'[x].source = s
                 /\ tickets'[x].state = "Applied"
                 /\ tracking'[s].pending_acks[x] = tickets'[x].checkpoint
      <4>1. x \in DOMAIN pending /\ tracking'[s].pending_acks[x] = pending[x]
        BY <1>2, <2>1, <3>3
      <4>2. CASE x = id
        BY <1>1, <1>2, <2>1, <4>1, <4>2 DEF AckStep
      <4>3. CASE x # id
        BY <1>1, <1>2, <2>1, <4>1, <4>3 DEF AckStep
      <4> QED BY <4>2, <4>3
    <3> QED BY <3>1, <3>2, <3>3
  <2>2. CASE s # src
    BY <1>1, <2>2 DEF MachineInv, InFlightUntilApplied, AckStep
  <2> QED BY <2>1, <2>2
<1>6. BegunWhenSent'
  BY <1>1 DEF MachineInv, BegunWhenSent, AckStep
<1> QED BY <1>3, <1>4, <1>5, <1>6 DEF MachineInv

(* start, begin_drain, stop and force_stop change the phase only.          *)
LEMMA PhaseStepKeepsInv ==
  ASSUME MachineInv, Start \/ BeginDrain \/ Stop \/ ForceStop
  PROVE  MachineInv'
<1>1. UNCHANGED <<next_batch_id, tracking, tickets>>
  BY DEF Start, BeginDrain, Stop, ForceStop
<1>2. phase' \in {"Starting", "Running", "Draining", "Stopped"}
  BY DEF Start, BeginDrain, Stop, ForceStop
<1>3. forced' \in BOOLEAN
  BY DEF Start, BeginDrain, Stop, ForceStop
<1>4. TypeOK'
  BY <1>1, <1>2, <1>3 DEF MachineInv, TypeOK
<1>5. NoStrandedAck' /\ InFlightUntilApplied' /\ BegunWhenSent'
  BY <1>1 DEF MachineInv, NoStrandedAck, InFlightUntilApplied, BegunWhenSent
<1> QED BY <1>4, <1>5 DEF MachineInv

(* MachineInv is inductive: every step of the machine, and a stuttering    *)
(* step, keeps it.                                                         *)
LEMMA NextKeepsInv == MachineInv /\ [Next]_vars => MachineInv'
<1> SUFFICES ASSUME MachineInv, [Next]_vars PROVE MachineInv'
  OBVIOUS
<1>1. CASE Start \/ BeginDrain \/ Stop \/ ForceStop
  BY <1>1, PhaseStepKeepsInv
<1>2. ASSUME NEW s \in Sources, NEW c \in Checkpoints, CreateBatch(s, c) PROVE MachineInv'
  BY <1>2, CreateBatchKeepsInv
<1>3. ASSUME NEW id \in DOMAIN tickets, BeginSend(id) PROVE MachineInv'
  BY <1>3, BeginSendKeepsInv
<1>4. ASSUME NEW id \in DOMAIN tickets, Resolve(id) \/ Fail(id) \/ Drop(id)
      PROVE  MachineInv'
  BY <1>4, TicketStepKeepsInv
<1>5. ASSUME NEW id \in DOMAIN tickets, ApplyAck(id) PROVE MachineInv'
  BY <1>5, ApplyAckKeepsInv
<1>6. CASE UNCHANGED vars
  <2>1. UNCHANGED <<next_batch_id, tracking, tickets>> /\ UNCHANGED <<phase, forced>>
    BY <1>6 DEF vars
  <2>2. TypeOK'
    BY <2>1 DEF MachineInv, TypeOK
  <2> QED BY <2>1, <2>2 DEF MachineInv, NoStrandedAck, InFlightUntilApplied, BegunWhenSent
<1> QED BY <1>1, <1>2, <1>3, <1>4, <1>5, <1>6 DEF Next

(* The machine's state has its type, no acknowledged batch is stranded and *)
(* a batch stays in flight until its receipt is applied, under any caller. *)
THEOREM MachineInvariant == Spec => []MachineInv
<1>1. Init => MachineInv
  BY InitEstablishesInv
<1>2. MachineInv /\ [Next]_vars => MachineInv'
  BY NextKeepsInv
<1> QED BY <1>1, <1>2, PTL DEF Spec

(* The state has its type.                                                 *)
THEOREM TypeCorrect == Spec => []TypeOK
<1>1. MachineInv => TypeOK
  BY DEF MachineInv
<1> QED BY <1>1, MachineInvariant, PTL

(* record_ack_and_advance never leaves an ack buffered that nothing older  *)
(* holds back.                                                             *)
THEOREM NothingStranded == Spec => []NoStrandedAck
<1>1. MachineInv => NoStrandedAck
  BY DEF MachineInv
<1> QED BY <1>1, MachineInvariant, PTL

(* fail(), dropped tickets and dropped receipts never take a batch out of  *)
(* in_flight, and the tracked checkpoint is the ticket's.                  *)
THEOREM InFlightExact == Spec => []InFlightUntilApplied
<1>1. MachineInv => InFlightUntilApplied
  BY DEF MachineInv
<1> QED BY <1>1, MachineInvariant, PTL

(* stop() succeeds only on a machine that has applied the receipt of every *)
(* batch it put in flight.                                                 *)
THEOREM CleanStop == Spec => []CleanStopIsComplete
<1>1. Init => CleanStopIsComplete
  BY DEF Init, CleanStopIsComplete
<1>2. MachineInv /\ CleanStopIsComplete /\ [Next]_vars => CleanStopIsComplete'
  <2> SUFFICES ASSUME MachineInv, CleanStopIsComplete, [Next]_vars
               PROVE  CleanStopIsComplete'
    OBVIOUS
  <2>1. CASE Stop
    <3>1. \A s \in Sources : DOMAIN tracking[s].in_flight = {}
      BY <2>1 DEF Stop, IsDrained
    <3>2. \A id \in DOMAIN tickets : tickets[id].source \in Sources
      BY DEF MachineInv, TypeOK, Ticket
    <3>3. \A id \in DOMAIN tickets : tickets[id].begun => tickets[id].state = "Applied"
      BY <3>1, <3>2 DEF MachineInv, InFlightUntilApplied
    <3>4. tickets' = tickets
      BY <2>1 DEF Stop
    <3> QED BY <3>3, <3>4 DEF CleanStopIsComplete
  <2>2. CASE Start \/ BeginDrain
    BY <2>2 DEF Start, BeginDrain, CleanStopIsComplete
  <2>3. CASE ForceStop
    BY <2>3 DEF ForceStop, CleanStopIsComplete
  <2>4. ASSUME NEW s \in Sources, NEW c \in Checkpoints, CreateBatch(s, c)
        PROVE  CleanStopIsComplete'
    BY <2>4 DEF CreateBatch, CleanStopIsComplete
  <2>5. ASSUME NEW id \in DOMAIN tickets,
               BeginSend(id) \/ ApplyAck(id)
        PROVE  CleanStopIsComplete'
    BY <2>5 DEF BeginSend, ApplyAck, CleanStopIsComplete
  <2>6. ASSUME NEW id \in DOMAIN tickets, Resolve(id) \/ Fail(id) \/ Drop(id)
        PROVE  CleanStopIsComplete'
    <3>1. /\ phase' = phase /\ forced' = forced
          /\ DOMAIN tickets' = DOMAIN tickets
          /\ tickets[id].state # "Applied"
          /\ tickets'[id].begun = tickets[id].begun
          /\ \A x \in DOMAIN tickets : x # id => tickets'[x] = tickets[x]
      BY <2>6 DEF Resolve, Fail, Drop, MachineInv, TypeOK, Ticket
    <3> QED BY <3>1 DEF CleanStopIsComplete
  <2>7. CASE UNCHANGED vars
    BY <2>7 DEF vars, CleanStopIsComplete
  <2> QED BY <2>1, <2>2, <2>3, <2>4, <2>5, <2>6, <2>7 DEF Next
<1> QED BY <1>1, <1>2, MachineInvariant, PTL DEF Spec

(* A checkpoint is committed only for a source below whose batch nothing   *)
(* of that source is in flight, whatever the order of the acks.            *)
THEOREM CommitOrder == Spec => CommitsInOrder
<1> DEFINE Step == \A s \in Sources :
          tracking'[s].committed # tracking[s].committed =>
              \E id \in DOMAIN tickets' :
                  /\ tickets'[id].source = s
                  /\ tickets'[id].state = "Applied"
                  /\ tracking'[s].committed = tickets'[id].checkpoint
                  /\ \A other \in DOMAIN tracking'[s].in_flight : other > id
<1>1. MachineInv /\ MachineInv' /\ [Next]_vars => [Step]_vars
  <2> SUFFICES ASSUME MachineInv, MachineInv', Next PROVE Step
    BY DEF vars
  <2>1. CASE \E id \in DOMAIN tickets : ApplyAck(id)
    <3> SUFFICES ASSUME NEW s \in Sources,
                        tracking'[s].committed # tracking[s].committed
                 PROVE  \E id \in DOMAIN tickets' :
                           /\ tickets'[id].source = s
                           /\ tickets'[id].state = "Applied"
                           /\ tracking'[s].committed = tickets'[id].checkpoint
                           /\ \A other \in DOMAIN tracking'[s].in_flight : other > id
      OBVIOUS
    <3>1. PICK id \in DOMAIN tickets : ApplyAck(id)
      BY <2>1
    <3>2. PICK src : AckStep(src, id)
      BY <3>1, ApplyAckStep, Zenon
    <3>3. s = src
      BY <3>2 DEF AckStep
    <3>4. PICK m \in DOMAIN Buffered(tracking[s], id) :
             /\ tracking'[s].committed = Buffered(tracking[s], id)[m]
             /\ \A other \in DOMAIN tracking'[s].in_flight : ~(other < m)
      BY <3>2, <3>3 DEF AckStep
    <3>5. /\ m \in DOMAIN tickets'
          /\ tickets'[m].source = s
          /\ tickets'[m].state = "Applied"
          /\ tracking'[s].committed = tickets'[m].checkpoint
      <4>1. /\ m \in DOMAIN tickets
            /\ tickets[m].source = s
            /\ m # id => tickets[m].state = "Applied"
            /\ tracking'[s].committed = tickets[m].checkpoint
        BY <3>2, <3>3, <3>4 DEF AckStep
      <4>2. CASE m = id
        BY <3>2, <3>3, <4>1, <4>2 DEF AckStep
      <4>3. CASE m # id
        BY <3>2, <4>1, <4>3 DEF AckStep
      <4> QED BY <4>2, <4>3
    <3>6. \A other \in DOMAIN tracking'[s].in_flight : other > m
      <4>1. \A other \in DOMAIN tracking'[s].in_flight :
              /\ other \in DOMAIN tickets'
              /\ tickets'[other].state # "Applied"
        BY DEF MachineInv, InFlightUntilApplied
      <4>2. DOMAIN tickets' \subseteq Nat
        <5>1. /\ tickets' \in [0 .. (next_batch_id' - 1) -> Ticket]
              /\ next_batch_id' \in 0 .. MaxBatches
          BY Zenon DEF MachineInv, TypeOK
        <5> QED BY <5>1, MachineAssumptions, TrackingAssumptions
      <4> QED BY <3>4, <3>5, <4>1, <4>2
    <3> QED BY <3>5, <3>6
  <2>2. CASE \E id \in DOMAIN tickets : BeginSend(id)
    <3>1. PICK id \in DOMAIN tickets : BeginSend(id)
      BY <2>2
    <3>2. tracking' = [tracking EXCEPT ![tickets[id].source] =
                          Track(tracking[tickets[id].source], id, tickets[id].checkpoint)]
      BY <3>1 DEF BeginSend
    <3>3. \A src \in SourceTracking, c \in Checkpoints :
             Track(src, id, c).committed = src.committed
      BY DEF Track, SourceTracking
    <3>4. tickets[id].checkpoint \in Checkpoints /\ tracking \in [Sources -> SourceTracking]
      BY DEF MachineInv, TypeOK, Ticket
    <3>5. \A s \in Sources : tracking'[s].committed = tracking[s].committed
      BY <3>2, <3>3, <3>4
    <3> QED BY <3>5
  <2>3. CASE tracking' = tracking
    BY <2>3
  <2> QED BY <2>1, <2>2, <2>3
       DEF Next, Start, CreateBatch, Resolve, Fail, Drop, BeginDrain, Stop, ForceStop
<1>2. Spec => [][Step]_vars
  BY <1>1, MachineInvariant, PTL DEF Spec
<1> QED BY <1>2 DEF CommitsInOrder

-----------------------------------------------------------------------------
(* Ordered commit.  Under InOrderSpec the applied ids that are no longer   *)
(* buffered are the longest acknowledged prefix of what was sent.          *)

SettledIds(s) ==
    {id \in DOMAIN tickets : /\ tickets[id].source = s /\ tickets[id].state = "Applied"
                             /\ id \notin DOMAIN tracking[s].pending_acks}

(* Every settled id is below every tracked one, and the committed          *)
(* checkpoint is that of the highest settled id.                           *)
Frontier(s) ==
    /\ \A x \in SettledIds(s), y \in Tracked(tracking[s]) : x < y
    /\ SettledIds(s) = {} => tracking[s].committed = None
    /\ SettledIds(s) # {} =>
          \E m \in SettledIds(s) : /\ \A x \in SettledIds(s) : x <= m
                                   /\ tracking[s].committed = tickets[m].checkpoint

InOrderInv == MachineInv /\ \A s \in Sources : Frontier(s)

(* Tracked and settled ids of a source are ids of its tickets, and no id   *)
(* is in flight and buffered at once.                                      *)
LEMMA TrackedIds ==
  ASSUME MachineInv, NEW s \in Sources
  PROVE  /\ tracking[s] \in SourceTracking /\ Exclusive(tracking[s])
         /\ \A x \in Tracked(tracking[s]) :
                /\ x \in DOMAIN tickets /\ x \in Nat /\ tickets[x].source = s
                /\ tickets[x].begun /\ Ckpt(tracking[s], x) = tickets[x].checkpoint
         /\ \A x \in SettledIds(s) : x \in BatchIds /\ x \in Nat /\ x \notin Tracked(tracking[s])
<1>1. tracking[s] \in SourceTracking
  BY DEF MachineInv, TypeOK
<1>2. \A x \in DOMAIN tickets : x \in BatchIds /\ x \in Nat
  BY TicketIds, TrackingAssumptions DEF MachineInv, BatchIds
<1>3. Exclusive(tracking[s])
  BY DEF MachineInv, InFlightUntilApplied, Exclusive
<1>4. \A x \in DOMAIN tracking[s].in_flight :
          /\ x \in DOMAIN tickets /\ tickets[x].source = s /\ tickets[x].begun
          /\ tickets[x].state # "Applied"
          /\ tracking[s].in_flight[x] = tickets[x].checkpoint
  BY DEF MachineInv, InFlightUntilApplied
<1>5. \A x \in DOMAIN tracking[s].pending_acks :
          /\ x \in DOMAIN tickets /\ tickets[x].source = s /\ tickets[x].begun
          /\ tracking[s].pending_acks[x] = tickets[x].checkpoint
  BY DEF MachineInv, InFlightUntilApplied, BegunWhenSent
<1>6. \A x \in Tracked(tracking[s]) :
          /\ x \in DOMAIN tickets /\ tickets[x].source = s
          /\ tickets[x].begun /\ Ckpt(tracking[s], x) = tickets[x].checkpoint
  BY <1>4, <1>5 DEF Tracked, Ckpt
<1>7. \A x \in SettledIds(s) : x \in DOMAIN tickets /\ x \notin Tracked(tracking[s])
  BY <1>4 DEF SettledIds, Tracked
<1> QED BY <1>1, <1>2, <1>3, <1>6, <1>7

(* A step that neither tracks nor applies a batch of the source.           *)
LEMMA FrontierKept ==
  ASSUME MachineInv, NEW s \in Sources, Frontier(s), tracking'[s] = tracking[s],
         DOMAIN tickets \subseteq DOMAIN tickets',
         \A x \in DOMAIN tickets : /\ tickets'[x].source = tickets[x].source
                                   /\ tickets'[x].checkpoint = tickets[x].checkpoint,
         \A x \in DOMAIN tickets' : tickets'[x].source = s =>
             (tickets'[x].state = "Applied" <=> x \in DOMAIN tickets /\ tickets[x].state = "Applied")
  PROVE  Frontier(s)'
<1>1. SettledIds(s)' = SettledIds(s)
  BY DEF SettledIds
<1>2. \A x \in SettledIds(s) : tickets'[x].checkpoint = tickets[x].checkpoint
  BY DEF SettledIds
<1> QED BY <1>1, <1>2 DEF Frontier

(* begin_send in order: a new batch of the source is above all others.     *)
LEMMA BeginSendFrontier ==
  ASSUME InOrderInv, NEW id \in DOMAIN tickets, SendsInOrder(id), BeginSend(id),
         NEW s \in Sources
  PROVE  Frontier(s)'
<1> DEFINE src == tickets[id].source
           cp  == tickets[id].checkpoint
<1>1. /\ id \in BatchIds /\ id \in Nat /\ tickets[id] \in Ticket
      /\ tickets \in [0 .. (next_batch_id - 1) -> Ticket]
      /\ tracking \in [Sources -> SourceTracking]
  BY TicketIds, TrackingAssumptions DEF InOrderInv, MachineInv, TypeOK, BatchIds
<1>2. src \in Sources /\ cp \in Checkpoints
  BY <1>1 DEF Ticket
<1>3. /\ DOMAIN tickets' = DOMAIN tickets
      /\ tickets[id].state # "Applied" /\ tickets'[id].state # "Applied"
      /\ \A x \in DOMAIN tickets :
            /\ tickets'[x].source = tickets[x].source
            /\ tickets'[x].checkpoint = tickets[x].checkpoint
            /\ x # id => tickets'[x] = tickets[x]
  BY <1>1 DEF BeginSend, Ticket
<1>4. CASE s # src
  <2>1. tracking'[s] = tracking[s]
    BY <1>1, <1>4 DEF BeginSend
  <2> QED BY <1>3, <2>1, FrontierKept DEF InOrderInv
<1>5. CASE s = src
  <2>1. tracking'[s] = Track(tracking[s], id, cp)
    BY <1>1, <1>2, <1>5 DEF BeginSend
  <2> HIDE DEF src, cp
  <2>2. /\ DOMAIN tracking'[s].in_flight = DOMAIN tracking[s].in_flight \cup {id}
        /\ tracking'[s].pending_acks = tracking[s].pending_acks
        /\ tracking'[s].committed = tracking[s].committed
    BY <1>1, <1>2, <2>1, TrackFacts
  <2>3. SettledIds(s)' = SettledIds(s)
    BY <1>3, <2>2 DEF SettledIds
  <2>4. Tracked(tracking'[s]) = Tracked(tracking[s]) \cup {id}
    BY <2>2 DEF Tracked
  <2>5. \A x \in SettledIds(s) : x < id
    <3> TAKE x \in SettledIds(s)
    <3>1. x \in Nat /\ x # id /\ x \in DOMAIN tickets /\ tickets[x].source = tickets[id].source
      BY <1>3, <1>5, TrackedIds DEF InOrderInv, SettledIds, src
    <3>2. tickets[x].begun
      BY DEF InOrderInv, MachineInv, BegunWhenSent, SettledIds
    <3>3. CASE tickets[id].begun
      <4>1. id \in Tracked(tracking[s])
        BY <1>3, <1>5, <3>3 DEF InOrderInv, MachineInv, InFlightUntilApplied, Tracked, src
      <4> QED BY <4>1 DEF InOrderInv, Frontier
    <3>4. CASE ~tickets[id].begun
      <4>1. ~(x > id)
        BY <3>1, <3>2, <3>4 DEF SendsInOrder
      <4> QED BY <1>1, <3>1, <4>1
    <3> QED BY <3>3, <3>4
  <2>6. Frontier(s)
    BY DEF InOrderInv
  <2>7. \A x \in SettledIds(s) : tickets'[x].checkpoint = tickets[x].checkpoint
    BY <1>3 DEF SettledIds
  <2> QED BY <2>2, <2>3, <2>4, <2>5, <2>6, <2>7 DEF Frontier
<1> QED BY <1>4, <1>5

(* apply_ack: a buffered ack settles nothing; otherwise what was tracked   *)
(* up to some id m settles and the checkpoint of m is committed.           *)
LEMMA ApplyAckFrontier ==
  ASSUME InOrderInv, NEW id \in DOMAIN tickets, ApplyAck(id), NEW s \in Sources
  PROVE  Frontier(s)'
<1> DEFINE src == tickets[id].source
           r   == tracking'[s]
<1>1. AckStep(src, id) /\ MachineInv'
  BY ApplyAckStep, ApplyAckKeepsInv DEF InOrderInv
<1>2. /\ src \in Sources /\ DOMAIN tickets' = DOMAIN tickets
      /\ id \in DOMAIN tracking[src].in_flight
      /\ DOMAIN tracking'[src].in_flight = DOMAIN tracking[src].in_flight \ {id}
      /\ tickets[id].state # "Applied" /\ tickets'[id].state = "Applied"
      /\ \A x \in Sources : x # src => tracking'[x] = tracking[x]
      /\ \A x \in DOMAIN tickets :
            /\ tickets'[x].source = tickets[x].source
            /\ tickets'[x].checkpoint = tickets[x].checkpoint
            /\ x # id => tickets'[x] = tickets[x]
  BY <1>1 DEF AckStep
<1> HIDE DEF src
<1>3. CASE s # src
  BY <1>2, <1>3, FrontierKept DEF InOrderInv, src
<1>4. CASE s = src
  <2>1. r = RecordAckAndAdvance(tracking[s], id)
    BY <1>2, <1>4 DEF ApplyAck, InOrderInv, MachineInv, TypeOK, src
  <2>2. /\ tracking[s] \in SourceTracking /\ Exclusive(tracking[s])
        /\ \A x \in Tracked(tracking[s]) :
              /\ x \in DOMAIN tickets /\ x \in Nat /\ tickets[x].source = s
              /\ Ckpt(tracking[s], x) = tickets[x].checkpoint
        /\ \A x \in SettledIds(s) : x \in Nat /\ x \notin Tracked(tracking[s])
    BY TrackedIds DEF InOrderInv
  <2>3. AckBuffered(tracking[s], id, r) \/ (\E m \in Nat : AckCommits(tracking[s], id, r, m))
    BY <1>2, <1>4, <2>1, <2>2, AckShape
  <2>4. \A x \in DOMAIN tickets :
           tickets'[x].source = s /\ tickets'[x].state = "Applied"
             <=> (x \in SettledIds(s) \/ x \in DOMAIN tracking[s].pending_acks \/ x = id)
    <3>1. \A x \in DOMAIN tracking[s].pending_acks :
             x \in DOMAIN tickets /\ tickets[x].source = s /\ tickets[x].state = "Applied"
      BY DEF InOrderInv, MachineInv, InFlightUntilApplied
    <3> QED BY <1>2, <1>4, <3>1 DEF SettledIds, src
  <2>5. \A x \in DOMAIN r.in_flight : x \in DOMAIN tracking[s].in_flight /\ x # id
    BY <1>2, <1>4
  <2>6. Frontier(s)
    BY DEF InOrderInv
  <2>7. SettledIds(s)' = {x \in DOMAIN tickets : /\ x \in SettledIds(s) \/ x \in Tracked(tracking[s])
                                                 /\ x \notin Tracked(r)}
    <3>1. ASSUME NEW x \in DOMAIN tickets
          PROVE  (x \in SettledIds(s) \/ x \in Tracked(tracking[s])) /\ x \notin Tracked(r)
                 <=> /\ tickets'[x].source = s /\ tickets'[x].state = "Applied"
                     /\ x \notin DOMAIN r.pending_acks
      <4>1. DOMAIN r.in_flight = DOMAIN tracking[s].in_flight \ {id}
        BY <1>2, <1>4
      <4>2. x \in DOMAIN r.in_flight => x \notin SettledIds(s)
        BY <2>2, <4>1 DEF Tracked
      <4>3. id \in Tracked(tracking[s]) /\ id \notin DOMAIN tracking[s].pending_acks
        BY <1>2, <1>4, <2>2 DEF Tracked, Exclusive
      <4> QED BY <2>2, <2>4, <4>1, <4>2, <4>3 DEF Tracked, Exclusive
    <3>2. SettledIds(s)' = {x \in DOMAIN tickets : /\ tickets'[x].source = s
                                                   /\ tickets'[x].state = "Applied"
                                                   /\ x \notin DOMAIN r.pending_acks}
      BY <1>2 DEF SettledIds
    <3> QED BY <3>1, <3>2
  <2>8. SettledIds(s) \subseteq DOMAIN tickets
    BY DEF SettledIds
  <2>9. \A x \in SettledIds(s) : tickets'[x].checkpoint = tickets[x].checkpoint
    BY <1>2, <2>8
  <2> HIDE DEF r
  <2>10. CASE AckBuffered(tracking[s], id, r)
    <3>1. Tracked(r) = Tracked(tracking[s]) /\ r.committed = tracking[s].committed
      BY <2>10 DEF AckBuffered
    <3>2. SettledIds(s)' = SettledIds(s)
      BY <2>2, <2>7, <2>8, <3>1
    <3> QED BY <2>6, <2>9, <3>1, <3>2 DEF Frontier, r
  <2>11. ASSUME NEW m \in Nat, AckCommits(tracking[s], id, r, m) PROVE Frontier(s)'
    <3>1. /\ m \in Tracked(tracking[s]) /\ Tracked(r) = {x \in Tracked(tracking[s]) : m < x}
          /\ r.committed = Ckpt(tracking[s], m)
      BY <2>11 DEF AckCommits
    <3>2. \A x \in SettledIds(s)' : x \in Nat /\ x <= m
      <4> TAKE x \in SettledIds(s)'
      <4>1. CASE x \in SettledIds(s)
        BY <2>2, <2>6, <3>1, <4>1 DEF Frontier
      <4>2. CASE x \in Tracked(tracking[s]) /\ x \notin Tracked(r)
        BY <2>2, <2>11, <3>1, <4>2
      <4> QED BY <2>7, <4>1, <4>2
    <3>3. m \in SettledIds(s)' /\ r.committed = tickets'[m].checkpoint
      BY <1>2, <2>2, <2>7, <3>1
    <3>4. \A y \in Tracked(r) : y \in Nat /\ m < y
      BY <2>2, <3>1
    <3>5. \A x \in SettledIds(s)', y \in Tracked(r) : x < y
      BY <3>2, <3>4
    <3> QED BY <3>2, <3>3, <3>5 DEF Frontier, r
  <2> QED BY <2>3, <2>10, <2>11
<1> QED BY <1>3, <1>4

(* The tickets a step of the machine does not send or apply.               *)
LEMMA QuietFrontier ==
  ASSUME InOrderInv, NEW s \in Sources,
         \/ Start \/ BeginDrain \/ Stop \/ ForceStop \/ UNCHANGED vars
         \/ \E t \in Sources, c \in Checkpoints : CreateBatch(t, c)
         \/ \E id \in DOMAIN tickets : Resolve(id) \/ Fail(id) \/ Drop(id)
  PROVE  Frontier(s)'
<1>1. /\ tickets \in [0 .. (next_batch_id - 1) -> Ticket] /\ next_batch_id \in Nat
      /\ MachineInv /\ Frontier(s)
  BY TrackingAssumptions DEF InOrderInv, MachineInv, TypeOK
<1>2. CASE Start \/ BeginDrain \/ Stop \/ ForceStop \/ UNCHANGED vars
  <2>1. tracking' = tracking /\ tickets' = tickets
    BY <1>2 DEF Start, BeginDrain, Stop, ForceStop, vars
  <2> QED BY <1>1, <2>1, FrontierKept
<1>3. ASSUME NEW t \in Sources, NEW c \in Checkpoints, CreateBatch(t, c) PROVE Frontier(s)'
  <2>1. tracking' = tracking
    BY <1>3 DEF CreateBatch
  <2>2. /\ DOMAIN tickets' = DOMAIN tickets \cup {next_batch_id}
        /\ next_batch_id \notin DOMAIN tickets
        /\ tickets'[next_batch_id].state = "Queued"
        /\ \A x \in DOMAIN tickets : tickets'[x] = tickets[x]
    BY <1>1, <1>3 DEF CreateBatch, Insert, NewTicket
  <2> QED BY <1>1, <2>1, <2>2, FrontierKept
<1>4. ASSUME NEW id \in DOMAIN tickets, Resolve(id) \/ Fail(id) \/ Drop(id) PROVE Frontier(s)'
  <2>1. tracking' = tracking /\ DOMAIN tickets' = DOMAIN tickets
    BY <1>1, <1>4 DEF Resolve, Fail, Drop
  <2>2. \A x \in DOMAIN tickets :
           /\ tickets'[x].source = tickets[x].source
           /\ tickets'[x].checkpoint = tickets[x].checkpoint
           /\ tickets'[x].state = "Applied" <=> tickets[x].state = "Applied"
    <3>1. CASE Resolve(id)
      BY <1>1, <3>1 DEF Resolve, Ticket
    <3>2. CASE Fail(id)
      BY <1>1, <3>2 DEF Fail, Ticket
    <3>3. CASE Drop(id)
      BY <1>1, <3>3 DEF Drop, Ticket
    <3> QED BY <1>4, <3>1, <3>2, <3>3
  <2> QED BY <1>1, <2>1, <2>2, FrontierKept
<1> QED BY <1>2, <1>3, <1>4

(* InOrderInv is inductive under in-order sends.                           *)
LEMMA InOrderNextKeepsInv == InOrderInv /\ [InOrderNext]_vars => InOrderInv'
<1> SUFFICES ASSUME InOrderInv, [InOrderNext]_vars PROVE InOrderInv'
  OBVIOUS
<1>1. MachineInv'
  <2>1. [Next]_vars
    BY DEF InOrderNext, Next
  <2> QED BY <2>1, NextKeepsInv DEF InOrderInv
<1>2. ASSUME NEW s \in Sources PROVE Frontier(s)'
  <2>1. ASSUME NEW id \in DOMAIN tickets, SendsInOrder(id), BeginSend(id) PROVE Frontier(s)'
    BY <2>1, BeginSendFrontier
  <2>2. ASSUME NEW id \in DOMAIN tickets, ApplyAck(id) PROVE Frontier(s)'
    BY <2>2, ApplyAckFrontier
  <2>3. CASE \/ Start \/ BeginDrain \/ Stop \/ ForceStop \/ UNCHANGED vars
             \/ \E t \in Sources, c \in Checkpoints : CreateBatch(t, c)
             \/ \E id \in DOMAIN tickets : Resolve(id) \/ Fail(id) \/ Drop(id)
    BY <2>3, QuietFrontier
  <2> QED BY <2>1, <2>2, <2>3 DEF InOrderNext
<1> QED BY <1>1, <1>2 DEF InOrderInv

(* A machine fed in order keeps what is settled below what is tracked, and *)
(* its committed checkpoint is that of the highest settled batch.          *)
THEOREM InOrderInvariant == InOrderSpec => []InOrderInv
<1>1. Init => InOrderInv
  <2> SUFFICES ASSUME Init PROVE InOrderInv
    OBVIOUS
  <2>1. MachineInv
    BY InitEstablishesInv
  <2>2. ASSUME NEW s \in Sources PROVE Frontier(s)
    <3>1. DOMAIN tickets = {} /\ tracking[s].committed = None
      BY DEF Init, EmptyMap, Untracked
    <3>2. SettledIds(s) = {}
      BY <3>1 DEF SettledIds
    <3> QED BY <3>1, <3>2 DEF Frontier
  <2> QED BY <2>1, <2>2 DEF InOrderInv
<1> QED BY <1>1, InOrderNextKeepsInv, PTL DEF InOrderSpec

-----------------------------------------------------------------------------
(* The refinement mapping.                                                 *)

(* The ids sent and acknowledged for a source, read off the tickets.       *)
LEMMA MappedState ==
  ASSUME NEW s \in Sources
  PROVE  /\ DOMAIN SentBatches[s] =
                {i \in DOMAIN tickets : tickets[i].source = s /\ tickets[i].begun}
         /\ \A i \in DOMAIN SentBatches[s] : SentBatches[s][i] = tickets[i].checkpoint
         /\ AckedBatches[s] =
                {i \in DOMAIN tickets : tickets[i].source = s /\ tickets[i].state = "Applied"}
         /\ Committed[s] = tracking[s].committed
  BY DEF SentBatches, AckedBatches, Committed

(* The settled ids are the acknowledged prefix of what was sent.           *)
LEMMA PrefixIsSettled ==
  ASSUME InOrderInv, NEW s \in Sources
  PROVE  OC!Prefix(SentBatches[s], AckedBatches[s]) = SettledIds(s)
<1> DEFINE sentIds == DOMAIN SentBatches[s]
           ackedIds == AckedBatches[s]
<1>1. \A i : i \in sentIds <=> i \in DOMAIN tickets /\ tickets[i].source = s /\ tickets[i].begun
  BY MappedState
<1>2. \A i : i \in ackedIds <=>
                i \in DOMAIN tickets /\ tickets[i].source = s /\ tickets[i].state = "Applied"
  BY MappedState
<1>3. \A i : i \in SettledIds(s) <=> i \in ackedIds /\ i \notin DOMAIN tracking[s].pending_acks
  BY <1>2 DEF SettledIds
<1>4. \A i : i \in DOMAIN tracking[s].in_flight <=> i \in sentIds /\ i \notin ackedIds
  BY <1>1, <1>2 DEF InOrderInv, MachineInv, InFlightUntilApplied
<1>5. \A i \in ackedIds : i \in sentIds
  BY <1>1, <1>2 DEF InOrderInv, MachineInv, BegunWhenSent
<1>6. \A i \in DOMAIN tickets : i \in Nat
  BY TicketIds, TrackingAssumptions DEF InOrderInv, MachineInv, BatchIds
<1>7. \A x \in SettledIds(s), y \in Tracked(tracking[s]) : x < y
  BY DEF InOrderInv, Frontier
<1>8. \A x \in DOMAIN tracking[s].pending_acks :
          \E older \in DOMAIN tracking[s].in_flight : older < x
  BY DEF InOrderInv, MachineInv, NoStrandedAck
<1>9. OC!Prefix(SentBatches[s], ackedIds) =
          {i \in sentIds : \A other \in sentIds : other <= i => other \in ackedIds}
  BY DEF OC!Prefix
<1>10. \A i \in sentIds : i \in Nat
  BY <1>1, <1>6
<1> HIDE DEF sentIds, ackedIds
<1>11. ASSUME NEW i \in SettledIds(s)
       PROVE  i \in sentIds /\ \A other \in sentIds : other <= i => other \in ackedIds
  <2>1. i \in sentIds
    BY <1>3, <1>5
  <2>2. ASSUME NEW other \in sentIds, other <= i, other \notin ackedIds PROVE FALSE
    <3>1. other \in Tracked(tracking[s])
      BY <1>4, <2>2 DEF Tracked
    <3>2. i < other
      BY <1>7, <3>1
    <3> QED BY <1>10, <2>1, <2>2, <3>2
  <2> QED BY <2>1, <2>2
<1>12. ASSUME NEW i \in sentIds, \A other \in sentIds : other <= i => other \in ackedIds
       PROVE  i \in SettledIds(s)
  <2>1. i \in ackedIds
    BY <1>10, <1>12
  <2>2. ASSUME i \in DOMAIN tracking[s].pending_acks PROVE FALSE
    <3>1. PICK older \in DOMAIN tracking[s].in_flight : older < i
      BY <1>8, <2>2
    <3>2. older \in sentIds /\ older \notin ackedIds
      BY <1>4
    <3>3. older <= i
      BY <1>10, <1>12, <3>1, <3>2
    <3> QED BY <1>12, <3>2, <3>3
  <2> QED BY <1>3, <2>1, <2>2
<1> QED BY <1>9, <1>11, <1>12 DEF ackedIds

(* committed is the checkpoint at the frontier of the abstract             *)
(* specification.                                                          *)
LEMMA CommittedIsFrontier ==
  ASSUME InOrderInv, NEW s \in Sources
  PROVE  Committed[s] = OC!Frontier(SentBatches[s], AckedBatches[s])
<1> DEFINE P == SettledIds(s)
<1>1. OC!Prefix(SentBatches[s], AckedBatches[s]) = P
  BY PrefixIsSettled
<1>2. OC!Frontier(SentBatches[s], AckedBatches[s]) =
         IF P = {} THEN None ELSE SentBatches[s][Max(P)]
  BY <1>1 DEF OC!Frontier, OC!Max, Max
<1>3. Committed[s] = tracking[s].committed
  BY MappedState
<1>4. Frontier(s)
  BY DEF InOrderInv
<1>5. CASE P = {}
  BY <1>2, <1>3, <1>4, <1>5 DEF Frontier
<1>6. CASE P # {}
  <2>1. \A x \in P : x \in BatchIds /\ x \in Nat
    BY TrackedIds DEF InOrderInv
  <2>2. PICK m \in P : /\ \A x \in P : x <= m
                       /\ tracking[s].committed = tickets[m].checkpoint
    BY <1>4, <1>6 DEF Frontier
  <2>3. P \in SUBSET BatchIds
    BY <2>1
  <2>4. m \in DOMAIN SentBatches[s]
    <3>1. m \in DOMAIN tickets /\ tickets[m].source = s /\ tickets[m].begun
      BY DEF SettledIds, InOrderInv, MachineInv, BegunWhenSent
    <3> QED BY <3>1, MappedState
  <2>5. SentBatches[s][m] = tickets[m].checkpoint
    BY <2>4, MappedState
  <2> HIDE DEF P
  <2>6. Max(P) \in P /\ \A y \in P : y <= Max(P)
    BY <1>6, <2>3, MaxOfBatchIds
  <2>7. Max(P) = m
    BY <2>1, <2>2, <2>6
  <2> QED BY <1>2, <1>3, <1>6, <2>2, <2>5, <2>7
<1> QED BY <1>5, <1>6

(* A step that begins no new batch and applies no receipt stutters in the  *)
(* abstract specification.                                                 *)
LEMMA MapKept ==
  ASSUME DOMAIN tickets \subseteq DOMAIN tickets',
         \A s \in Sources : tracking'[s].committed = tracking[s].committed,
         \A x \in DOMAIN tickets : /\ tickets'[x].source = tickets[x].source
                                   /\ tickets'[x].checkpoint = tickets[x].checkpoint,
         \A x \in DOMAIN tickets' :
            /\ tickets'[x].begun <=> x \in DOMAIN tickets /\ tickets[x].begun
            /\ tickets'[x].state = "Applied" <=> x \in DOMAIN tickets /\ tickets[x].state = "Applied"
  PROVE  UNCHANGED OC!vars
<1>1. SentBatches' = SentBatches
  <2> DEFINE ids(s) == {i \in DOMAIN tickets : tickets[i].source = s /\ tickets[i].begun}
  <2>1. ASSUME NEW s \in Sources
        PROVE  {i \in DOMAIN tickets' : tickets'[i].source = s /\ tickets'[i].begun} = ids(s)
    OBVIOUS
  <2>2. ASSUME NEW s \in Sources
        PROVE  [id \in ids(s) |-> tickets'[id].checkpoint] = [id \in ids(s) |-> tickets[id].checkpoint]
    OBVIOUS
  <2>3. SentBatches = [s \in Sources |-> [id \in ids(s) |-> tickets[id].checkpoint]]
    BY DEF SentBatches
  <2>4. SentBatches' = [s \in Sources |->
           [id \in {i \in DOMAIN tickets' : tickets'[i].source = s /\ tickets'[i].begun}
               |-> tickets'[id].checkpoint]]
    BY DEF SentBatches
  <2> HIDE DEF ids
  <2> QED BY <2>1, <2>2, <2>3, <2>4
<1>2. AckedBatches' = AckedBatches
  <2>1. ASSUME NEW s \in Sources
        PROVE  {i \in DOMAIN tickets' : tickets'[i].source = s /\ tickets'[i].state = "Applied"} =
               {i \in DOMAIN tickets : tickets[i].source = s /\ tickets[i].state = "Applied"}
    OBVIOUS
  <2> QED BY <2>1 DEF AckedBatches
<1>3. Committed' = Committed
  BY DEF Committed
<1> QED BY <1>1, <1>2, <1>3 DEF OC!vars

(* The first begin_send of a ticket is Send, a retry stutters.             *)
LEMMA BeginSendSimulates ==
  ASSUME InOrderInv, NEW id \in DOMAIN tickets, SendsInOrder(id), BeginSend(id)
  PROVE  [OC!Next]_(OC!vars)
<1> DEFINE src == tickets[id].source
           cp  == tickets[id].checkpoint
<1>1. /\ id \in BatchIds /\ tickets[id] \in Ticket
      /\ tickets \in [0 .. (next_batch_id - 1) -> Ticket]
      /\ tracking \in [Sources -> SourceTracking]
  BY TicketIds DEF InOrderInv, MachineInv, TypeOK
<1>2. \A x \in DOMAIN tickets : x \in Nat
  BY TicketIds, TrackingAssumptions DEF InOrderInv, MachineInv, BatchIds
<1>3. src \in Sources /\ cp \in Checkpoints
  BY <1>1 DEF Ticket
<1>4. /\ DOMAIN tickets' = DOMAIN tickets
      /\ tickets[id].state # "Applied" /\ tickets'[id].state # "Applied"
      /\ tickets'[id].begun
      /\ \A x \in DOMAIN tickets :
            /\ tickets'[x].source = tickets[x].source
            /\ tickets'[x].checkpoint = tickets[x].checkpoint
            /\ x # id => tickets'[x] = tickets[x]
  BY <1>1 DEF BeginSend, Ticket
<1>5. \A s \in Sources : tracking'[s].committed = tracking[s].committed
  <2>1. tracking' = [tracking EXCEPT ![src] = Track(tracking[src], id, cp)]
    BY DEF BeginSend
  <2>2. Track(tracking[src], id, cp).committed = tracking[src].committed
    BY <1>1, <1>3, TrackFacts
  <2> HIDE DEF src, cp
  <2> QED BY <1>1, <1>3, <2>1, <2>2
<1>6. CASE tickets[id].begun
  BY <1>4, <1>5, <1>6, MapKept
<1>7. CASE ~tickets[id].begun
  <2>1. \A other \in DOMAIN SentBatches[src] : other < id
    <3> TAKE other \in DOMAIN SentBatches[src]
    <3>1. other \in DOMAIN tickets /\ tickets[other].source = tickets[id].source /\ tickets[other].begun
      BY <1>3, MappedState
    <3> QED BY <1>2, <1>7, <3>1 DEF SendsInOrder
  <2>2. SentBatches' = [SentBatches EXCEPT ![src] =
                          [x \in DOMAIN @ \cup {id} |-> IF x = id THEN cp ELSE SentBatches[src][x]]]
    <3> DEFINE ids(s) == {i \in DOMAIN tickets : tickets[i].source = s /\ tickets[i].begun}
               new(s) == {i \in DOMAIN tickets' : tickets'[i].source = s /\ tickets'[i].begun}
    <3>1. /\ new(src) = ids(src) \cup {id} /\ id \notin ids(src)
          /\ \A s \in Sources : s # src => new(s) = ids(s)
      BY <1>4, <1>7
    <3>2. /\ SentBatches = [s \in Sources |-> [x \in ids(s) |-> tickets[x].checkpoint]]
          /\ SentBatches' = [s \in Sources |-> [x \in new(s) |-> tickets'[x].checkpoint]]
      BY DEF SentBatches
    <3>3. \A s \in Sources : \A x \in new(s) : tickets'[x].checkpoint = tickets[x].checkpoint
      BY <1>4
    <3> HIDE DEF ids, new
    <3>4. ASSUME NEW s \in Sources, s # src PROVE SentBatches'[s] = SentBatches[s]
      BY <3>1, <3>2, <3>3, <3>4
    <3>5. SentBatches'[src] =
             [x \in DOMAIN SentBatches[src] \cup {id} |-> IF x = id THEN cp ELSE SentBatches[src][x]]
      <4>1. DOMAIN SentBatches[src] = ids(src)
            /\ \A x \in ids(src) : SentBatches[src][x] = tickets[x].checkpoint
        BY <1>3, <3>2
      <4>2. SentBatches'[src] = [x \in ids(src) \cup {id} |-> tickets'[x].checkpoint]
        BY <1>3, <3>1, <3>2
      <4>3. \A x \in ids(src) \cup {id} : tickets'[x].checkpoint =
                IF x = id THEN cp ELSE SentBatches[src][x]
        BY <1>3, <3>1, <3>3, <4>1
      <4> QED BY <4>1, <4>2, <4>3
    <3>6. SentBatches = [s \in Sources |-> SentBatches[s]]
          /\ SentBatches' = [s \in Sources |-> SentBatches'[s]]
      BY <3>2
    <3> HIDE DEF src, cp
    <3> QED BY <1>3, <3>4, <3>5, <3>6
  <2>3. AckedBatches' = AckedBatches
    <3>1. ASSUME NEW s \in Sources
          PROVE  {i \in DOMAIN tickets' : tickets'[i].source = s /\ tickets'[i].state = "Applied"} =
                 {i \in DOMAIN tickets : tickets[i].source = s /\ tickets[i].state = "Applied"}
      BY <1>4
    <3> QED BY <3>1 DEF AckedBatches
  <2>4. Committed' = Committed
    BY <1>5 DEF Committed
  <2>5. OC!Send(src, id, cp)
    BY <2>1, <2>2, <2>3, <2>4 DEF OC!Send
  <2> HIDE DEF src, cp
  <2> QED BY <1>1, <1>3, <2>5 DEF OC!Next
<1> QED BY <1>6, <1>7

(* apply_ack is Acknowledge: the checkpoint it commits is the one at the   *)
(* frontier of the ids acknowledged with it.                               *)
LEMMA ApplyAckSimulates ==
  ASSUME InOrderInv, InOrderInv', NEW id \in DOMAIN tickets, ApplyAck(id),
         \A s \in Sources : Committed'[s] = OC!Frontier(SentBatches'[s], AckedBatches'[s])
  PROVE  OC!Next
<1> DEFINE src == tickets[id].source
<1>1. AckStep(src, id)
  BY ApplyAckStep DEF InOrderInv
<1>2. id \in BatchIds
  BY TicketIds DEF InOrderInv, MachineInv
<1>3. /\ src \in Sources /\ DOMAIN tickets' = DOMAIN tickets
      /\ tickets[id].state # "Applied" /\ tickets'[id].state = "Applied"
      /\ tickets[id].begun /\ tickets'[id].begun
      /\ \A x \in Sources : x # src => tracking'[x] = tracking[x]
      /\ \A x \in DOMAIN tickets :
            /\ tickets'[x].source = tickets[x].source
            /\ tickets'[x].checkpoint = tickets[x].checkpoint
            /\ x # id => tickets'[x] = tickets[x]
  BY <1>1 DEF AckStep
<1>4. id \in DOMAIN SentBatches[src] \ AckedBatches[src]
  BY <1>3, MappedState
<1>5. SentBatches' = SentBatches
  <2> DEFINE ids(s) == {i \in DOMAIN tickets : tickets[i].source = s /\ tickets[i].begun}
             new(s) == {i \in DOMAIN tickets' : tickets'[i].source = s /\ tickets'[i].begun}
  <2>1. ASSUME NEW s \in Sources
        PROVE  new(s) = ids(s) /\ \A x \in ids(s) : tickets'[x].checkpoint = tickets[x].checkpoint
    BY <1>3
  <2>2. /\ SentBatches = [s \in Sources |-> [x \in ids(s) |-> tickets[x].checkpoint]]
        /\ SentBatches' = [s \in Sources |-> [x \in new(s) |-> tickets'[x].checkpoint]]
    BY DEF SentBatches
  <2> HIDE DEF ids, new
  <2> QED BY <2>1, <2>2
<1>6. AckedBatches' = [AckedBatches EXCEPT ![src] = @ \cup {id}]
  <2> DEFINE ids(s) == {i \in DOMAIN tickets : tickets[i].source = s /\ tickets[i].state = "Applied"}
             new(s) == {i \in DOMAIN tickets' : tickets'[i].source = s /\ tickets'[i].state = "Applied"}
  <2>1. new(src) = ids(src) \cup {id} /\ \A s \in Sources : s # src => new(s) = ids(s)
    BY <1>3
  <2>2. AckedBatches = [s \in Sources |-> ids(s)] /\ AckedBatches' = [s \in Sources |-> new(s)]
    BY DEF AckedBatches
  <2> HIDE DEF ids, new, src
  <2> QED BY <1>3, <2>1, <2>2
<1>7. Committed' = [Committed EXCEPT ![src] = OC!Frontier(SentBatches[src], AckedBatches[src] \cup {id})]
  <2>1. AckedBatches'[src] = AckedBatches[src] \cup {id}
    <3>1. AckedBatches \in [Sources -> SUBSET DOMAIN tickets]
      BY DEF AckedBatches
    <3> QED BY <1>3, <1>6, <3>1
  <2>2. Committed'[src] = OC!Frontier(SentBatches[src], AckedBatches[src] \cup {id})
    BY <1>3, <1>5, <2>1
  <2>3. \A s \in Sources : s # src => Committed'[s] = Committed[s]
    BY <1>3 DEF Committed
  <2>4. /\ Committed = [s \in Sources |-> Committed[s]]
        /\ Committed' = [s \in Sources |-> Committed'[s]]
    BY DEF Committed
  <2> HIDE DEF src
  <2> QED BY <1>3, <2>2, <2>3, <2>4
<1>8. OC!Acknowledge(src, id)
  BY <1>4, <1>5, <1>6, <1>7 DEF OC!Acknowledge
<1> HIDE DEF src
<1> QED BY <1>2, <1>3, <1>8 DEF OC!Next

(* Every other step stutters: the abstract specification does not see      *)
(* tickets that are created, resolved, failed or dropped, nor the phase.   *)
LEMMA QuietSimulates ==
  ASSUME InOrderInv,
         \/ Start \/ BeginDrain \/ Stop \/ ForceStop \/ UNCHANGED vars
         \/ \E t \in Sources, c \in Checkpoints : CreateBatch(t, c)
         \/ \E id \in DOMAIN tickets : Resolve(id) \/ Fail(id) \/ Drop(id)
  PROVE  UNCHANGED OC!vars
<1>1. tickets \in [0 .. (next_batch_id - 1) -> Ticket] /\ next_batch_id \in Nat
  BY TrackingAssumptions DEF InOrderInv, MachineInv, TypeOK
<1>2. CASE Start \/ BeginDrain \/ Stop \/ ForceStop \/ UNCHANGED vars
  <2>1. tracking' = tracking /\ tickets' = tickets
    BY <1>2 DEF Start, BeginDrain, Stop, ForceStop, vars
  <2> QED BY <2>1, MapKept
<1>3. ASSUME NEW t \in Sources, NEW c \in Checkpoints, CreateBatch(t, c) PROVE UNCHANGED OC!vars
  <2>1. tracking' = tracking
    BY <1>3 DEF CreateBatch
  <2>2. /\ DOMAIN tickets' = DOMAIN tickets \cup {next_batch_id}
        /\ next_batch_id \notin DOMAIN tickets
        /\ tickets'[next_batch_id].state = "Queued" /\ ~tickets'[next_batch_id].begun
        /\ \A x \in DOMAIN tickets : tickets'[x] = tickets[x]
    BY <1>1, <1>3 DEF CreateBatch, Insert, NewTicket
  <2> QED BY <2>1, <2>2, MapKept
<1>4. ASSUME NEW id \in DOMAIN tickets, Resolve(id) \/ Fail(id) \/ Drop(id)
      PROVE  UNCHANGED OC!vars
  <2>1. tracking' = tracking /\ DOMAIN tickets' = DOMAIN tickets
    BY <1>1, <1>4 DEF Resolve, Fail, Drop
  <2>2. \A x \in DOMAIN tickets :
           /\ tickets'[x].source = tickets[x].source
           /\ tickets'[x].checkpoint = tickets[x].checkpoint
           /\ tickets'[x].begun = tickets[x].begun
           /\ tickets'[x].state = "Applied" <=> tickets[x].state = "Applied"
    <3>1. CASE Resolve(id)
      BY <1>1, <3>1 DEF Resolve, Ticket
    <3>2. CASE Fail(id)
      BY <1>1, <3>2 DEF Fail, Ticket
    <3>3. CASE Drop(id)
      BY <1>1, <3>3 DEF Drop, Ticket
    <3> QED BY <1>4, <3>1, <3>2, <3>3
  <2> QED BY <2>1, <2>2, MapKept
<1> QED BY <1>2, <1>3, <1>4

(* A machine that is fed in order implements OrderedCommit: the committed  *)
(* checkpoint of a source is always the one of the longest prefix of its   *)
(* sent batches that is acknowledged completely, whatever the order of the *)
(* acks, the retries and the dropped tickets.                              *)
THEOREM ImplementsOrder == InOrderSpec => ImplementsOrderedCommit
<1> DEFINE AtFrontier == \A s \in Sources :
                            Committed[s] = OC!Frontier(SentBatches[s], AckedBatches[s])
<1>1. Init => OC!Init
  <2> SUFFICES ASSUME Init PROVE OC!Init
    OBVIOUS
  <2>1. DOMAIN tickets = {} /\ \A s \in Sources : tracking[s].committed = None
    BY DEF Init, EmptyMap, Untracked
  <2>2. \A s \in Sources : {i \in DOMAIN tickets : tickets[i].source = s /\ tickets[i].begun} = {}
    BY <2>1
  <2>3. SentBatches = [s \in Sources |-> [id \in {} |-> None]]
    BY <2>2 DEF SentBatches
  <2>4. AckedBatches = [s \in Sources |-> {}]
    BY <2>1 DEF AckedBatches
  <2>5. Committed = [s \in Sources |-> None]
    BY <2>1 DEF Committed
  <2> QED BY <2>3, <2>4, <2>5 DEF OC!Init
<1>2. InOrderInv => AtFrontier
  BY CommittedIsFrontier
<1>3. InOrderInv /\ InOrderInv' /\ AtFrontier' /\ [InOrderNext]_vars => [OC!Next]_(OC!vars)
  <2> SUFFICES ASSUME InOrderInv, InOrderInv', AtFrontier', [InOrderNext]_vars
               PROVE  [OC!Next]_(OC!vars)
    OBVIOUS
  <2>1. ASSUME NEW id \in DOMAIN tickets, SendsInOrder(id), BeginSend(id)
        PROVE  [OC!Next]_(OC!vars)
    BY <2>1, BeginSendSimulates
  <2>2. ASSUME NEW id \in DOMAIN tickets, ApplyAck(id) PROVE [OC!Next]_(OC!vars)
    BY <2>2, ApplyAckSimulates
  <2>3. CASE \/ Start \/ BeginDrain \/ Stop \/ ForceStop \/ UNCHANGED vars
             \/ \E t \in Sources, c \in Checkpoints : CreateBatch(t, c)
             \/ \E id \in DOMAIN tickets : Resolve(id) \/ Fail(id) \/ Drop(id)
    BY <2>3, QuietSimulates
  <2> QED BY <2>1, <2>2, <2>3 DEF InOrderNext
<1> HIDE DEF AtFrontier
<1>4. InOrderSpec => OC!Spec
  BY <1>1, <1>2, <1>3, InOrderInvariant, PTL DEF InOrderSpec, OC!Spec
<1> QED BY <1>4 DEF ImplementsOrderedCommit
=============================================================================
