--------------------------- MODULE PipelineMachine ---------------------------
(***************************************************************************)
(* The batch lifecycle machine of crates/ffwd-types/src/pipeline:          *)
(* PipelineMachine<S, C> (lifecycle.rs) and its BatchTicket (batch.rs).    *)
(*                                                                         *)
(* The machine hands out batch ids, tracks per source which batches are in *)
(* flight, buffers acknowledgements that arrive out of order, and commits  *)
(* a checkpoint only when nothing older is still in flight.  The typestate *)
(* of the Rust code (the marker S, and the tickets consumed by value) is   *)
(* the variable phase and the field state of a ticket.                     *)
(* Module BatchTracking has the part of the state that belongs to one      *)
(* source.                                                                 *)
(***************************************************************************)
EXTENDS BatchTracking

CONSTANTS
    Sources,        \* the sources (files, partitions...) that feed the pipeline
    MaxAttempts     \* bound: fail() calls on one ticket

ASSUME MachineAssumptions == MaxAttempts \in Nat

VARIABLES
    phase,          \* typestate marker: Starting, Running, Draining, Stopped
    next_batch_id,  \* ids are handed out in this order, never reused
    tracking,       \* per source: committed, in_flight and pending_acks
    forced,         \* force_stop() bypassed the drain guard
    tickets         \* the tickets the callers of the machine hold, by batch id

vars == <<phase, next_batch_id, tracking, forced, tickets>>

-----------------------------------------------------------------------------
(* Tickets.  "Receipt" is the AckReceipt that ack() and reject() return    *)
(* (they differ in a flag that apply_ack does not read); "Applied" is a    *)
(* receipt consumed by apply_ack; "Dropped" is a ticket or a receipt that  *)
(* went out of scope.  begun records that begin_send saw the ticket.       *)

TicketStates == {"Queued", "Sending", "Receipt", "Applied", "Dropped"}

NewTicket(source, checkpoint) ==
    [source |-> source, checkpoint |-> checkpoint, attempts |-> 0,
     state |-> "Queued", begun |-> FALSE]

Ticket == [source : Sources, checkpoint : Checkpoints, attempts : 0 .. MaxAttempts,
           state : TicketStates, begun : BOOLEAN]

Init ==
    /\ phase = "Starting"
    /\ next_batch_id = 0
    /\ tracking = [s \in Sources |-> Untracked]
    /\ forced = FALSE
    /\ tickets = EmptyMap

Start ==
    /\ phase = "Starting"
    /\ phase' = "Running"
    /\ forced' = FALSE
    /\ UNCHANGED <<next_batch_id, tracking, tickets>>

(* Faulty variant: the id is handed out again.                             *)
CreateBatchReusesId(source, checkpoint) ==
    /\ phase = "Running"
    /\ next_batch_id < MaxBatches
    /\ tickets' = Insert(tickets, next_batch_id, NewTicket(source, checkpoint))
    /\ UNCHANGED <<phase, next_batch_id, tracking, forced>>

CreateBatch(source, checkpoint) ==
    /\ phase = "Running"
    /\ next_batch_id < MaxBatches
    /\ tickets' = Insert(tickets, next_batch_id, NewTicket(source, checkpoint))
    /\ next_batch_id' = next_batch_id + 1
    /\ UNCHANGED <<phase, tracking, forced>>

BeginSend(id) ==
    /\ phase = "Running"
    /\ tickets[id].state = "Queued"
    /\ tracking' = [tracking EXCEPT ![tickets[id].source] =
                        Track(@, id, tickets[id].checkpoint)]
    /\ tickets' = [tickets EXCEPT ![id].state = "Sending", ![id].begun = TRUE]
    /\ UNCHANGED <<phase, next_batch_id, forced>>

(* BatchTicket<Sending>::ack and ::reject.                                 *)
Resolve(id) ==
    /\ tickets[id].state = "Sending"
    /\ tickets' = [tickets EXCEPT ![id].state = "Receipt"]
    /\ UNCHANGED <<phase, next_batch_id, tracking, forced>>

(* Faulty variant: a failed batch is taken out of in_flight.               *)
FailUntracks(id) ==
    /\ tickets[id].state = "Sending"
    /\ tickets[id].attempts < MaxAttempts
    /\ tickets' = [tickets EXCEPT ![id].state = "Queued", ![id].attempts = @ + 1]
    /\ tracking' = [tracking EXCEPT ![tickets[id].source].in_flight = Remove(@, {id})]
    /\ UNCHANGED <<phase, next_batch_id, forced>>

(* BatchTicket<Sending>::fail: back to Queued, still in flight.            *)
Fail(id) ==
    /\ tickets[id].state = "Sending"
    /\ tickets[id].attempts < MaxAttempts
    /\ tickets' = [tickets EXCEPT ![id].state = "Queued", ![id].attempts = @ + 1]
    /\ UNCHANGED <<phase, next_batch_id, tracking, forced>>

(* apply_ack exists on the Running and on the Draining machine.            *)
ApplyAck(id) ==
    /\ phase \in {"Running", "Draining"}
    /\ tickets[id].state = "Receipt"
    /\ tracking' = [tracking EXCEPT ![tickets[id].source] = RecordAckAndAdvance(@, id)]
    /\ tickets' = [tickets EXCEPT ![id].state = "Applied"]
    /\ UNCHANGED <<phase, next_batch_id, forced>>

(* A ticket or a receipt goes out of scope: the machine does not notice.   *)
Drop(id) ==
    /\ tickets[id].state \in {"Queued", "Sending", "Receipt"}
    /\ tickets' = [tickets EXCEPT ![id].state = "Dropped"]
    /\ UNCHANGED <<phase, next_batch_id, tracking, forced>>

BeginDrain ==
    /\ phase = "Running"
    /\ phase' = "Draining"
    /\ forced' = FALSE
    /\ UNCHANGED <<next_batch_id, tracking, tickets>>

(* Faulty variant: only the buffered acks are looked at.                   *)
IsDrainedOfAcks == \A s \in Sources : DOMAIN tracking[s].pending_acks = {}

IsDrained ==
    \A s \in Sources : /\ DOMAIN tracking[s].in_flight = {}
                       /\ DOMAIN tracking[s].pending_acks = {}

(* stop() returns Err(self), the machine unchanged, unless it is drained.  *)
Stop ==
    /\ phase = "Draining"
    /\ IsDrained
    /\ phase' = "Stopped"
    /\ forced' = FALSE
    /\ UNCHANGED <<next_batch_id, tracking, tickets>>

ForceStop ==
    /\ phase = "Draining"
    /\ phase' = "Stopped"
    /\ forced' = TRUE
    /\ UNCHANGED <<next_batch_id, tracking, tickets>>

Next ==
    \/ Start
    \/ \E s \in Sources, c \in Checkpoints : CreateBatch(s, c)
    \/ \E id \in DOMAIN tickets : \/ BeginSend(id)
                                  \/ Resolve(id)
                                  \/ Fail(id)
                                  \/ ApplyAck(id)
                                  \/ Drop(id)
    \/ BeginDrain
    \/ Stop
    \/ ForceStop

Spec == Init /\ [][Next]_vars

-----------------------------------------------------------------------------
(* The only caller in the runtime, Pipeline::submit_batch, begins to send  *)
(* a ticket right after creating it, so for each source tickets enter      *)
(* in_flight in the order of their ids.  InOrderSpec keeps to that         *)
(* discipline; Spec is the machine under any caller.                       *)
SendsInOrder(id) ==
    \A other \in DOMAIN tickets :
        other > id /\ tickets[other].source = tickets[id].source /\ tickets[other].begun
            => tickets[id].begun

InOrderNext ==
    \/ Start
    \/ \E s \in Sources, c \in Checkpoints : CreateBatch(s, c)
    \/ \E id \in DOMAIN tickets : \/ SendsInOrder(id) /\ BeginSend(id)
                                  \/ Resolve(id)
                                  \/ Fail(id)
                                  \/ ApplyAck(id)
                                  \/ Drop(id)
    \/ BeginDrain
    \/ Stop
    \/ ForceStop

InOrderSpec == Init /\ [][InOrderNext]_vars

-----------------------------------------------------------------------------
(* Properties.                                                             *)

(* The type of the machine's state and of the tickets its callers hold.    *)
TypeOK ==
    /\ phase \in {"Starting", "Running", "Draining", "Stopped"}
    /\ next_batch_id \in 0 .. MaxBatches
    /\ forced \in BOOLEAN
    /\ tracking \in [Sources -> SourceTracking]
    /\ tickets \in [0 .. (next_batch_id - 1) -> Ticket]

(* An ack that record_ack_and_advance buffered is always waiting for a     *)
(* batch of the same source, with a lower id, that is still in flight: no  *)
(* acknowledged batch is stranded, so an empty in_flight means drained.    *)
NoStrandedAck ==
    \A s \in Sources : \A id \in DOMAIN tracking[s].pending_acks :
        \E older \in DOMAIN tracking[s].in_flight : older < id

(* A batch is in flight exactly from its first begin_send until its        *)
(* receipt is applied, with the checkpoint its ticket was created with;    *)
(* fail(), and dropping the ticket or the receipt, leave it in flight.     *)
InFlightUntilApplied ==
    \A s \in Sources :
        /\ DOMAIN tracking[s].in_flight =
               {id \in DOMAIN tickets : /\ tickets[id].source = s
                                        /\ tickets[id].begun
                                        /\ tickets[id].state # "Applied"}
        /\ \A id \in DOMAIN tracking[s].in_flight :
               tracking[s].in_flight[id] = tickets[id].checkpoint
        /\ \A id \in DOMAIN tracking[s].pending_acks :
               /\ id \in DOMAIN tickets
               /\ tickets[id].source = s
               /\ tickets[id].state = "Applied"
               /\ tracking[s].pending_acks[id] = tickets[id].checkpoint

(* The inductive invariant of the machine: the three above, and that a     *)
(* ticket is being sent, acknowledged or applied only once begin_send has  *)
(* registered it.                                                          *)
BegunWhenSent ==
    \A id \in DOMAIN tickets :
        tickets[id].state \in {"Sending", "Receipt", "Applied"} => tickets[id].begun

MachineInv == TypeOK /\ NoStrandedAck /\ InFlightUntilApplied /\ BegunWhenSent

(* A machine stopped without force has seen the receipt of every batch it  *)
(* ever put in flight: stop() refuses to lose one.                         *)
CleanStopIsComplete ==
    phase = "Stopped" /\ ~forced =>
        \A id \in DOMAIN tickets : tickets[id].begun => tickets[id].state = "Applied"

(* A step that changes the committed checkpoint of a source commits the    *)
(* checkpoint of a batch of that source whose receipt was applied, while   *)
(* no batch of the source with a lower id is in flight any more.           *)
CommitsInOrder ==
    [][\A s \in Sources :
          tracking'[s].committed # tracking[s].committed =>
              \E id \in DOMAIN tickets' :
                  /\ tickets'[id].source = s
                  /\ tickets'[id].state = "Applied"
                  /\ tracking'[s].committed = tickets'[id].checkpoint
                  /\ \A other \in DOMAIN tracking'[s].in_flight : other > id]_vars

(* What the machine promises to a caller that sends in order: module       *)
(* OrderedCommit, with the sent and acknowledged batches read off the      *)
(* tickets.                                                                *)
SentBatches ==
    [s \in Sources |->
        [id \in {i \in DOMAIN tickets : tickets[i].source = s /\ tickets[i].begun}
            |-> tickets[id].checkpoint]]

AckedBatches ==
    [s \in Sources |->
        {id \in DOMAIN tickets : tickets[id].source = s /\ tickets[id].state = "Applied"}]

Committed == [s \in Sources |-> tracking[s].committed]

OC == INSTANCE OrderedCommit WITH sent <- SentBatches, acked <- AckedBatches,
                                  committed <- Committed

(* Under in-order sends the machine implements ordered commit: committed   *)
(* is always the checkpoint of the longest acknowledged prefix of what was *)
(* sent for the source.                                                    *)
ImplementsOrderedCommit == OC!Spec
=============================================================================
