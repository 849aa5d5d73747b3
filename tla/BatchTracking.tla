---------------------------- MODULE BatchTracking ----------------------------
(***************************************************************************)
(* The checkpoint tracking of one source, as PipelineMachine<S, C> keeps   *)
(* it (crates/ffwd-types/src/pipeline/lifecycle.rs): the batches in        *)
(* flight, the acknowledgements buffered because an older batch is still   *)
(* in flight, and the committed checkpoint.                                *)
(*                                                                         *)
(* The maps of the code that are keyed by source are total functions in    *)
(* the modules that use this one: a source whose inner map was removed has *)
(* the empty inner function.                                               *)
(***************************************************************************)
EXTENDS Naturals, FiniteSetsExt

CONSTANTS
    Checkpoints,    \* the opaque type C
    None,           \* Option::None: the source was never committed
    MaxBatches      \* bound: batch ids handed out by create_batch

ASSUME TrackingAssumptions ==
    /\ None \notin Checkpoints
    /\ MaxBatches \in Nat

BatchIds == 0 .. (MaxBatches - 1)

-----------------------------------------------------------------------------
(* Maps.                                                                   *)

EmptyMap == [x \in {} |-> {}]

Insert(map, k, v) == [x \in DOMAIN map \cup {k} |-> IF x = k THEN v ELSE map[x]]

Remove(map, ks) == [x \in DOMAIN map \ ks |-> map[x]]

(* All maps from a set of batch ids to checkpoints.                        *)
BatchMaps == UNION {[ids -> Checkpoints] : ids \in SUBSET BatchIds}

-----------------------------------------------------------------------------
(* The tracking state of one source and the two functions that change it.  *)

SourceTracking == [committed    : Checkpoints \cup {None},
                   in_flight    : BatchMaps,
                   pending_acks : BatchMaps]

Untracked == [committed |-> None, in_flight |-> EmptyMap, pending_acks |-> EmptyMap]

(* begin_send: the batch enters in_flight with the ticket's checkpoint.    *)
Track(src, id, checkpoint) ==
    [src EXCEPT !.in_flight = Insert(@, id, checkpoint)]

(* Faulty variants: the loop runs once only; the order of ids is ignored.  *)
ContiguousOnce(in_flight, pending) ==
    {id \in DOMAIN pending : \A other \in DOMAIN in_flight \cup DOMAIN pending : ~(other < id)}

ContiguousUnordered(in_flight, pending) == DOMAIN pending

(* The pending acks that the loop of record_ack_and_advance consumes: it   *)
(* takes the lowest one as long as no batch with a lower id is in flight.  *)
Contiguous(in_flight, pending) ==
    {id \in DOMAIN pending : \A other \in DOMAIN in_flight : ~(other < id)}

(* Faulty variant: the first checkpoint of the run of acks is committed,   *)
(* not the last one.                                                       *)
RecordAckFirst(src, id) ==
    LET in_flight == Remove(src.in_flight, {id})
        pending   == Insert(src.pending_acks, id, src.in_flight[id])
        consumed  == Contiguous(in_flight, pending)
    IN  IF id \notin DOMAIN src.in_flight
        THEN src
        ELSE [committed    |-> IF consumed = {} THEN src.committed
                                                ELSE pending[Min(consumed)],
              in_flight    |-> in_flight,
              pending_acks |-> Remove(pending, consumed)]

(* A spurious or duplicate ack (not in flight) changes nothing.  Otherwise *)
(* the batch moves from in_flight to pending_acks with the checkpoint that *)
(* was tracked, and the contiguous pending acks are committed in order of  *)
(* id: the last one consumed is the one that stays in committed.           *)
RecordAckAndAdvance(src, id) ==
    LET in_flight == Remove(src.in_flight, {id})
        pending   == Insert(src.pending_acks, id, src.in_flight[id])
        consumed  == Contiguous(in_flight, pending)
    IN  IF id \notin DOMAIN src.in_flight
        THEN src
        ELSE [committed    |-> IF consumed = {} THEN src.committed
                                                ELSE pending[Max(consumed)],
              in_flight    |-> in_flight,
              pending_acks |-> Remove(pending, consumed)]
=============================================================================
