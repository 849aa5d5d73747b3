----------------------------- MODULE PipelineRun -----------------------------
(***************************************************************************)
(* One pipeline from its inputs to its durable checkpoints: the input      *)
(* threads (io_worker.rs, cpu_worker.rs), the coordinator task             *)
(* Pipeline::run_async with submit_batch, apply_pool_ack and               *)
(* ack_all_tickets (run.rs, submit.rs), the checkpoint store, and crashes  *)
(* followed by a restart from the stored checkpoints.                      *)
(*                                                                         *)
(* Data is counted in units: a source s is the sequence of units           *)
(* 1 .. Length[s] and a checkpoint is the number of units it covers.  The  *)
(* output pool appears by what its users see of it: it accepts a bounded   *)
(* number of items, answers them in any order, and may lose one (module    *)
(* WorkerPool has its inside).  The tickets of one batch are for distinct  *)
(* sources and ids are compared only within a source, so the tickets of a  *)
(* batch share one id.                                                     *)
(***************************************************************************)
EXTENDS BatchTracking, Sequences

CONSTANTS
    Inputs,             \* input threads (an I/O and a CPU worker each)
    Sources,            \* sources: an input may read several
    InputOf,            \* the input that reads a source
    Length,             \* bound: units in each source
    IoQueueCapacity,    \* IO_CPU_CHANNEL_CAPACITY
    ChannelCapacity,    \* CHANNEL_CAPACITY
    PoolCapacity,       \* items the worker pool holds before submit blocks
    StageResults,       \* what run_processor_stage may answer
    CpuErrors,          \* whether a scan or transform may fail
    LastPipeline,       \* whether run_pipelines runs it in its own select loop
    MaxCrashes          \* bound: crashes of the process

ASSUME RunAssumptions ==
    /\ InputOf \in [Sources -> Inputs]
    /\ Length \in [Sources -> Nat]
    /\ Checkpoints \subseteq Nat
    /\ \A s \in Sources : 0 .. Length[s] \subseteq Checkpoints
    /\ {IoQueueCapacity, ChannelCapacity, PoolCapacity} \subseteq Nat \ {0}
    /\ StageResults \subseteq
         {"Forward", "ZeroRow", "PermanentError", "Reject", "Hold", "Fatal"}
    /\ CpuErrors \in BOOLEAN /\ LastPipeline \in BOOLEAN
    /\ MaxCrashes \in Nat

VARIABLES
    pc,          \* where the coordinator is in run_async
    shutdown,    \* the cancellation token
    rx_open,     \* the receiver of the pipeline channel exists
    channel,     \* CPU workers -> coordinator
    read,        \* units each source was read up to
    flushed,     \* units each source was handed to the CPU worker up to
    io_queue,    \* I/O worker -> CPU worker
    outbox,      \* the batch a CPU worker is sending, or None
    io_done, cpu_done,  \* inputs whose thread has exited
    next_id,     \* the machine's next batch id
    tracking,    \* the machine's tracking state
    submitting,  \* the item the coordinator is in pool.submit with, or None
    pool,        \* items accepted by the pool: id -> batch
    acks,        \* the pool's ack channel
    store,       \* the checkpoint store in memory
    durable,     \* the checkpoint store on disk
    forced,      \* the machine was stopped with force_stop
    crashes

(* Ghost state.                                                            *)
VARIABLES
    settled,     \* units delivered, rejected or filtered out by the query
    skipped,     \* units of batches that a CPU worker dropped on an error
    parked,      \* ids held by a Hold disposition or lost with their worker
    dropped      \* the future of run_async was dropped

inputVars == <<read, flushed, io_queue, outbox, io_done, cpu_done>>
ckptVars == <<next_id, tracking, store, durable, forced>>
vars == <<pc, shutdown, rx_open, channel, inputVars, submitting, pool, acks,
          ckptVars, settled, skipped, parked, dropped, crashes>>

SourcesOf(i) == {s \in Sources : InputOf[s] = i}

(* What the CPU worker of an input gets and sends: the units of every      *)
(* source of the input, with the checkpoints (checkpoint_data() of all its *)
(* sources) that a batch carries.                                          *)
ChunksOf(i) == [from : [SourcesOf(i) -> Checkpoints], to : [SourcesOf(i) -> Checkpoints]]

BatchesOf(i) ==
    [from : [SourcesOf(i) -> Checkpoints], to : [SourcesOf(i) -> Checkpoints],
     rows : BOOLEAN]

Batches == UNION {BatchesOf(i) : i \in Inputs}

Items == [id : BatchIds, batch : Batches]

ASSUME OptionAssumption == None \notin Batches /\ None \notin Items

Units(batch) ==
    UNION {{<<s, n>> : n \in (batch.from[s] + 1) .. batch.to[s]} : s \in DOMAIN batch.to}

-----------------------------------------------------------------------------
(* Input threads.                                                          *)

Unflushed(i) == \E s \in SourcesOf(i) : read[s] > flushed[s]

(* poll_into: the buffer of the I/O worker grows.  On shutdown it polls on *)
(* until the source has nothing more (poll_shutdown_into).                 *)
IoPoll(s) ==
    /\ InputOf[s] \notin io_done
    /\ read[s] < Length[s]
    /\ read' = [read EXCEPT ![s] = @ + 1]
    /\ UNCHANGED <<flushed, io_queue, outbox, io_done, cpu_done>>

(* flush_buf: the buffer goes to the CPU worker with the checkpoints of    *)
(* all sources of the input; blocking_send waits while the queue is full.  *)
IoFlush(i) ==
    /\ i \notin io_done \cup cpu_done
    /\ Unflushed(i)
    /\ Len(io_queue[i]) < IoQueueCapacity
    /\ io_queue' = [io_queue EXCEPT ![i] = Append(@,
           [from |-> [s \in SourcesOf(i) |-> flushed[s]],
            to   |-> [s \in SourcesOf(i) |-> read[s]]])]
    /\ flushed' = [s \in Sources |-> IF s \in SourcesOf(i) THEN read[s] ELSE flushed[s]]
    /\ UNCHANGED <<read, outbox, io_done, cpu_done>>

(* The I/O worker returns when its source is finished or shutdown is       *)
(* cancelled, after flushing the buffer, or when the CPU worker is gone.   *)
IoExit(i) ==
    /\ i \notin io_done
    /\ \/ i \in cpu_done
       \/ ~Unflushed(i) /\ (shutdown \/ \A s \in SourcesOf(i) : read[s] = Length[s])
    /\ io_done' = io_done \cup {i}
    /\ UNCHANGED <<read, flushed, io_queue, outbox, cpu_done>>

(* The CPU worker scans and transforms a chunk; the query may leave no     *)
(* rows.                                                                   *)
CpuProcess(i, rows) ==
    /\ i \notin cpu_done
    /\ outbox[i] = None
    /\ io_queue[i] # <<>>
    /\ LET chunk == Head(io_queue[i])
       IN  outbox' = [outbox EXCEPT ![i] = [from |-> chunk.from, to |-> chunk.to,
                                            rows |-> rows]]
    /\ io_queue' = [io_queue EXCEPT ![i] = Tail(@)]
    /\ UNCHANGED <<read, flushed, io_done, cpu_done>>

(* A scan, metadata or transform error: the chunk is dropped with its      *)
(* checkpoints and the loop continues.                                     *)
CpuDrop(i) ==
    /\ CpuErrors
    /\ i \notin cpu_done
    /\ outbox[i] = None
    /\ io_queue[i] # <<>>
    /\ skipped' = skipped \cup Units(Head(io_queue[i]))
    /\ io_queue' = [io_queue EXCEPT ![i] = Tail(@)]
    /\ UNCHANGED <<read, flushed, outbox, io_done, cpu_done>>

(* blocking_send on the pipeline channel.                                  *)
CpuSend(i) ==
    /\ outbox[i] # None
    /\ rx_open
    /\ Len(channel) < ChannelCapacity
    /\ channel' = Append(channel, outbox[i])
    /\ outbox' = [outbox EXCEPT ![i] = None]
    /\ UNCHANGED <<read, flushed, io_queue, io_done, cpu_done>>

(* Faulty variant: the failure of blocking_send is ignored.                *)
CpuExitOnEofOnly(i) ==
    /\ i \notin cpu_done
    /\ i \in io_done /\ io_queue[i] = <<>> /\ outbox[i] = None
    /\ cpu_done' = cpu_done \cup {i}
    /\ UNCHANGED <<read, flushed, io_queue, outbox, io_done>>

(* The CPU worker returns when its queue is closed and empty, or when the  *)
(* pipeline channel is closed: what it holds is dropped.                   *)
CpuExit(i) ==
    /\ i \notin cpu_done
    /\ \/ i \in io_done /\ io_queue[i] = <<>> /\ outbox[i] = None
       \/ outbox[i] # None /\ ~rx_open
    /\ cpu_done' = cpu_done \cup {i}
    /\ outbox' = [outbox EXCEPT ![i] = None]
    /\ io_queue' = [io_queue EXCEPT ![i] = <<>>]
    /\ UNCHANGED <<read, flushed, io_done>>

InputStep ==
    /\ \/ /\ \/ \E s \in Sources : IoPoll(s)
             \/ \E i \in Inputs : \/ IoFlush(i)
                                  \/ IoExit(i)
                                  \/ \E rows \in BOOLEAN : CpuProcess(i, rows)
                                  \/ CpuExit(i)
          /\ UNCHANGED <<channel, skipped>>
       \/ \E i \in Inputs : CpuDrop(i) /\ UNCHANGED channel
       \/ \E i \in Inputs : CpuSend(i) /\ UNCHANGED skipped
    /\ UNCHANGED <<pc, shutdown, rx_open, submitting, pool, acks, ckptVars,
                   settled, parked, dropped, crashes>>

-----------------------------------------------------------------------------
(* Tickets: begin_send of a batch's tickets, and ack_all_tickets.          *)

BeginSendAll(id, batch) ==
    [s \in Sources |-> IF s \in DOMAIN batch.to
                       THEN Track(tracking[s], id, batch.to[s])
                       ELSE tracking[s]]

ApplyAckAll(track, id, batch) ==
    [s \in Sources |-> IF s \in DOMAIN batch.to
                       THEN RecordAckAndAdvance(track[s], id)
                       ELSE track[s]]

(* store.flush() may fail, before or after the new file is in place.       *)
FlushResults(checkpoints) == {durable, checkpoints}

(* Ack and Reject: every receipt is applied, the store gets the checkpoint *)
(* of every source that advanced, and is flushed if the flush interval has *)
(* passed.                                                                 *)
AckAllTickets(track, id, batch) ==
    LET new      == ApplyAckAll(track, id, batch)
        advanced == {s \in DOMAIN batch.to : id \notin DOMAIN new[s].pending_acks}
        updated  == [s \in Sources |-> IF s \in advanced THEN new[s].committed
                                                         ELSE store[s]]
    IN  /\ tracking' = new
        /\ store' = updated
        /\ durable' \in IF advanced = {} THEN {durable} ELSE FlushResults(updated)
        /\ UNCHANGED parked

(* Hold: the tickets go to held_tickets and stay in flight.                *)
HoldAllTickets(track, id) ==
    /\ tracking' = track
    /\ parked' = parked \cup {id}
    /\ UNCHANGED <<store, durable>>

-----------------------------------------------------------------------------
(* submit_batch up to pool.submit.  stop is its result.                    *)

SubmitBatch(batch, result, stop) ==
    LET track == BeginSendAll(next_id, batch)
    IN  /\ next_id < MaxBatches
        /\ next_id' = next_id + 1
        /\ \/ /\ ~batch.rows \/ result \in {"ZeroRow", "PermanentError", "Reject"}
              /\ stop = FALSE
              /\ AckAllTickets(track, next_id, batch)
              /\ settled' = settled \cup Units(batch)
              /\ UNCHANGED <<submitting, shutdown>>
           \/ /\ batch.rows /\ result \in {"Hold", "Fatal"}
              /\ stop = TRUE
              /\ HoldAllTickets(track, next_id)
              /\ shutdown' = TRUE
              /\ UNCHANGED <<submitting, settled>>
           \/ /\ batch.rows /\ result = "Forward"
              /\ stop = FALSE
              /\ tracking' = track
              /\ submitting' = [id |-> next_id, batch |-> batch]
              /\ UNCHANGED <<shutdown, store, durable, settled, parked>>

(* pool.submit returns once a worker's channel has room...                 *)
PoolAccept ==
    /\ submitting # None
    /\ Cardinality(DOMAIN pool) < PoolCapacity
    /\ pool' = Insert(pool, submitting.id, submitting.batch)
    /\ submitting' = None
    /\ UNCHANGED <<pc, shutdown, rx_open, channel, inputVars, acks, ckptVars,
                   settled, skipped, parked, dropped, crashes>>

(* Faulty variant: an item that finds no worker is dropped.                *)
PoolRefuseSilently ==
    /\ submitting # None
    /\ submitting' = None
    /\ UNCHANGED <<pc, shutdown, rx_open, channel, inputVars, pool, acks, ckptVars,
                   settled, skipped, parked, dropped, crashes>>

(* ... or it answers the item itself: no worker could be created, or the   *)
(* worker it waited for is gone.                                           *)
PoolRefuse ==
    /\ submitting # None
    /\ acks' = Append(acks, [id |-> submitting.id, batch |-> submitting.batch,
                             outcome |-> "Held"])
    /\ submitting' = None
    /\ UNCHANGED <<pc, shutdown, rx_open, channel, inputVars, pool, ckptVars,
                   settled, skipped, parked, dropped, crashes>>

-----------------------------------------------------------------------------
(* The output pool.                                                        *)

(* A worker answers an item: Delivered, Rejected by the destination, or    *)
(* one of the outcomes that default_ticket_disposition maps to Hold.       *)
PoolAnswer(id, outcome) ==
    /\ acks' = Append(acks, [id |-> id, batch |-> pool[id], outcome |-> outcome])
    /\ pool' = Remove(pool, {id})
    /\ settled' = IF outcome = "Held" THEN settled ELSE settled \cup Units(pool[id])
    /\ UNCHANGED <<pc, shutdown, rx_open, channel, inputVars, submitting, ckptVars,
                   skipped, parked, dropped, crashes>>

(* An item is lost with the worker that held it in its channel.            *)
PoolLose(id) ==
    /\ pool' = Remove(pool, {id})
    /\ parked' = parked \cup {id}
    /\ UNCHANGED <<pc, shutdown, rx_open, channel, inputVars, submitting, acks,
                   ckptVars, settled, skipped, dropped, crashes>>

PoolStep ==
    \E id \in DOMAIN pool :
        \/ \E outcome \in {"Delivered", "Rejected", "Held"} : PoolAnswer(id, outcome)
        \/ PoolLose(id)

-----------------------------------------------------------------------------
(* The select loop of the coordinator.  It is biased: an arm is taken only *)
(* when the arms above it have nothing.                                    *)

(* Faulty variant: a failed delivery resolves the tickets too.             *)
ApplyPoolAckAlways ==
    LET ack == Head(acks)
    IN  /\ acks # <<>>
        /\ acks' = Tail(acks)
        /\ AckAllTickets(tracking, ack.id, ack.batch)

(* apply_pool_ack: the ticket disposition of the outcome.                  *)
ApplyPoolAck ==
    LET ack == Head(acks)
    IN  /\ acks # <<>>
        /\ acks' = Tail(acks)
        /\ IF ack.outcome = "Held" THEN HoldAllTickets(tracking, ack.id)
                                   ELSE AckAllTickets(tracking, ack.id, ack.batch)

Selecting == pc = "select" /\ submitting = None

(* A held ack stops the pipeline without draining the channel.             *)
AckArm ==
    /\ Selecting
    /\ ApplyPoolAck
    /\ IF Head(acks).outcome = "Held"
       THEN shutdown' = TRUE /\ rx_open' = FALSE /\ channel' = <<>> /\ pc' = "join"
       ELSE UNCHANGED <<shutdown, rx_open, channel, pc>>
    /\ UNCHANGED <<inputVars, submitting, pool, next_id, forced, settled, skipped, dropped, crashes>>

(* Faulty variant: the channel is not drained.                             *)
ShutdownArmSkipsDrain ==
    /\ Selecting /\ acks = <<>>
    /\ shutdown
    /\ pc' = "join"
    /\ UNCHANGED <<shutdown, rx_open, channel, inputVars, submitting, pool, acks,
                   ckptVars, settled, skipped, parked, dropped, crashes>>

ShutdownArm ==
    /\ Selecting /\ acks = <<>>
    /\ shutdown
    /\ pc' = "drain"
    /\ UNCHANGED <<shutdown, rx_open, channel, inputVars, submitting, pool, acks,
                   ckptVars, settled, skipped, parked, dropped, crashes>>

(* ControlMessage::Shutdown: the receiver is dropped with what it holds.   *)
ControlShutdown ==
    /\ Selecting /\ acks = <<>> /\ ~shutdown
    /\ shutdown' = TRUE
    /\ rx_open' = FALSE
    /\ channel' = <<>>
    /\ pc' = "join"
    /\ UNCHANGED <<inputVars, submitting, pool, acks, ckptVars, settled, skipped,
                   parked, dropped, crashes>>

(* ControlMessage::Flush.                                                  *)
ControlFlush ==
    /\ Selecting /\ acks = <<>> /\ ~shutdown
    /\ durable' \in FlushResults(store)
    /\ UNCHANGED <<pc, shutdown, rx_open, channel, inputVars, submitting, pool, acks,
                   next_id, tracking, store, forced, settled, skipped, parked, dropped, crashes>>

ReceiveArm(result) ==
    /\ Selecting /\ acks = <<>> /\ ~shutdown
    /\ channel # <<>>
    /\ \E stop \in BOOLEAN :
          /\ SubmitBatch(Head(channel), result, stop)
          /\ IF stop
             THEN rx_open' = FALSE /\ channel' = <<>> /\ pc' = "join"
             ELSE channel' = Tail(channel) /\ UNCHANGED <<rx_open, pc>>
    /\ UNCHANGED <<inputVars, pool, acks, forced, skipped, dropped, crashes>>

(* recv() answers None: every CPU worker has dropped its sender.           *)
ClosedArm ==
    /\ Selecting /\ acks = <<>> /\ ~shutdown
    /\ channel = <<>> /\ cpu_done = Inputs
    /\ pc' = "drain"
    /\ UNCHANGED <<shutdown, rx_open, channel, inputVars, submitting, pool, acks,
                   ckptVars, settled, skipped, parked, dropped, crashes>>

-----------------------------------------------------------------------------
(* The rest of run_async.                                                  *)

(* Drain the channel.  A batch that stops the pipeline ends the loop, and  *)
(* the receiver is not dropped.                                            *)
DrainChannel(result) ==
    /\ pc = "drain" /\ submitting = None
    /\ channel # <<>>
    /\ channel' = Tail(channel)
    /\ \E stop \in BOOLEAN :
          /\ SubmitBatch(Head(channel), result, stop)
          /\ pc' = IF stop THEN "join" ELSE pc
    /\ UNCHANGED <<rx_open, inputVars, pool, acks, forced, skipped, dropped, crashes>>

DrainEnd ==
    /\ pc = "drain" /\ submitting = None
    /\ channel = <<>> /\ cpu_done = Inputs
    /\ pc' = "join"
    /\ UNCHANGED <<shutdown, rx_open, channel, inputVars, submitting, pool, acks,
                   ckptVars, settled, skipped, parked, dropped, crashes>>

(* manager.join() waits for the CPU and the I/O worker of every input.     *)
Join ==
    /\ pc = "join"
    /\ io_done = Inputs /\ cpu_done = Inputs
    /\ pc' = "pool_drain"
    /\ UNCHANGED <<shutdown, rx_open, channel, inputVars, submitting, pool, acks,
                   ckptVars, settled, skipped, parked, dropped, crashes>>

(* pool.drain: the workers finish what they have.  After the drain timeout *)
(* and a grace period (in which cancelled items are answered PoolClosed,   *)
(* see PoolAnswer) the workers left are aborted and their items lost.      *)
PoolDrained ==
    /\ pc = "pool_drain"
    /\ parked' = parked \cup DOMAIN pool
    /\ pool' = EmptyMap
    /\ pc' = "ack_drain"
    /\ UNCHANGED <<shutdown, rx_open, channel, inputVars, submitting, acks, ckptVars,
                   settled, skipped, dropped, crashes>>

(* The acks the workers sent before they exited.                           *)
DrainAck ==
    /\ pc = "ack_drain"
    /\ ApplyPoolAck
    /\ UNCHANGED <<pc, shutdown, rx_open, channel, inputVars, submitting, pool,
                   next_id, forced, settled, skipped, dropped, crashes>>

(* Faulty variant: a source without a commit in this run is stored as 0.   *)
StopMachineStoresAll ==
    /\ pc = "ack_drain"
    /\ acks = <<>>
    /\ forced' = \E s \in Sources : \/ DOMAIN tracking[s].in_flight # {}
                                    \/ DOMAIN tracking[s].pending_acks # {}
    /\ store' = [s \in Sources |-> IF tracking[s].committed = None
                                   THEN 0 ELSE tracking[s].committed]
    /\ durable' \in FlushResults(store')
    /\ pc' = "stopped"
    /\ UNCHANGED <<shutdown, rx_open, channel, inputVars, submitting, pool, acks,
                   next_id, tracking, settled, skipped, parked, dropped, crashes>>

(* begin_drain, then stop or force_stop; the committed checkpoints go to   *)
(* the store, which is flushed with a bounded number of attempts.          *)
StopMachine ==
    /\ pc = "ack_drain"
    /\ acks = <<>>
    /\ forced' = \E s \in Sources : \/ DOMAIN tracking[s].in_flight # {}
                                    \/ DOMAIN tracking[s].pending_acks # {}
    /\ store' = [s \in Sources |-> IF tracking[s].committed = None
                                   THEN store[s] ELSE tracking[s].committed]
    /\ durable' \in FlushResults(store')
    /\ pc' = "stopped"
    /\ UNCHANGED <<shutdown, rx_open, channel, inputVars, submitting, pool, acks,
                   next_id, tracking, settled, skipped, parked, dropped, crashes>>

-----------------------------------------------------------------------------
(* The process.                                                            *)

ShutdownRequest ==
    /\ pc # "stopped"
    /\ ~shutdown
    /\ shutdown' = TRUE
    /\ UNCHANGED <<pc, rx_open, channel, inputVars, submitting, pool, acks, ckptVars,
                   settled, skipped, parked, dropped, crashes>>

(* run_pipelines runs its last pipeline in a select loop of its own: a     *)
(* shutdown or reload request drops the future of run_async, and with it   *)
(* the receiver, the join handles and the batch in pool.submit.  run_async *)
(* is then called again with the token cancelled and no inputs left, and   *)
(* goes straight to the drain of the pool.  A final flush that is dropped  *)
(* finds no machine the second time: it is a flush that failed.            *)
DropRun ==
    /\ LastPipeline
    /\ pc \in {"select", "drain", "pool_drain"}
    /\ shutdown' = TRUE
    /\ rx_open' = FALSE
    /\ channel' = <<>>
    /\ submitting' = None
    /\ parked' = IF submitting = None THEN parked ELSE parked \cup {submitting.id}
    /\ dropped' = TRUE
    /\ pc' = "pool_drain"
    /\ UNCHANGED <<inputVars, pool, acks, ckptVars, settled, skipped, crashes>>

Init ==
    /\ pc = "select"
    /\ shutdown = FALSE
    /\ rx_open = TRUE
    /\ channel = <<>>
    /\ read = [s \in Sources |-> 0]
    /\ flushed = [s \in Sources |-> 0]
    /\ io_queue = [i \in Inputs |-> <<>>]
    /\ outbox = [i \in Inputs |-> None]
    /\ io_done = {}
    /\ cpu_done = {}
    /\ next_id = 0
    /\ tracking = [s \in Sources |-> Untracked]
    /\ submitting = None
    /\ pool = EmptyMap
    /\ acks = <<>>
    /\ store = [s \in Sources |-> 0]
    /\ durable = [s \in Sources |-> 0]
    /\ forced = FALSE
    /\ crashes = 0
    /\ settled = {}
    /\ skipped = {}
    /\ parked = {}
    /\ dropped = FALSE

(* The process dies, or has stopped, and is started again: the store loads *)
(* the file, the inputs continue from its checkpoints, the machine starts  *)
(* empty.                                                                  *)
Restart ==
    /\ crashes < MaxCrashes
    /\ crashes' = crashes + 1
    /\ pc' = "select"
    /\ shutdown' = FALSE
    /\ rx_open' = TRUE
    /\ channel' = <<>>
    /\ read' = durable
    /\ flushed' = durable
    /\ io_queue' = [i \in Inputs |-> <<>>]
    /\ outbox' = [i \in Inputs |-> None]
    /\ io_done' = {}
    /\ cpu_done' = {}
    /\ next_id' = 0
    /\ tracking' = [s \in Sources |-> Untracked]
    /\ submitting' = None
    /\ pool' = EmptyMap
    /\ acks' = <<>>
    /\ store' = durable
    /\ forced' = FALSE
    /\ parked' = {}
    /\ dropped' = FALSE
    /\ UNCHANGED <<durable, settled, skipped>>

(* The steps the coordinator takes by itself, without a control message.   *)
CoordinatorStep ==
    \/ AckArm
    \/ ShutdownArm
    \/ \E result \in StageResults : ReceiveArm(result)
    \/ ClosedArm
    \/ PoolAccept
    \/ \E result \in StageResults : DrainChannel(result)
    \/ DrainEnd
    \/ Join
    \/ PoolDrained
    \/ DrainAck
    \/ StopMachine

Next ==
    \/ InputStep
    \/ CoordinatorStep
    \/ PoolRefuse
    \/ PoolStep
    \/ ControlShutdown
    \/ ControlFlush
    \/ ShutdownRequest
    \/ DropRun
    \/ Restart

Spec == Init /\ [][Next]_vars

(* The coordinator task and the input threads are scheduled; the drain of  *)
(* the pool is bounded by its timeout.                                     *)
FairSpec == Spec /\ WF_vars(InputStep) /\ WF_vars(CoordinatorStep)

(* What the pipeline needs from the output to make progress: it does not   *)
(* let every item be retried forever.                                      *)
OutputAnswers == WF_vars(PoolStep)

-----------------------------------------------------------------------------
(* Properties.                                                             *)

(* The type of the pipeline's state.                                       *)
TypeOK ==
    /\ pc \in {"select", "drain", "join", "pool_drain", "ack_drain", "stopped"}
    /\ shutdown \in BOOLEAN /\ rx_open \in BOOLEAN /\ forced \in BOOLEAN
    /\ \A k \in DOMAIN channel : channel[k] \in Batches
    /\ Len(channel) <= ChannelCapacity
    /\ {read, flushed, store, durable} \subseteq [Sources -> Checkpoints]
    /\ \A i \in Inputs : /\ outbox[i] \in BatchesOf(i) \cup {None}
                         /\ \A k \in DOMAIN io_queue[i] : io_queue[i][k] \in ChunksOf(i)
                         /\ Len(io_queue[i]) <= IoQueueCapacity
    /\ io_done \subseteq Inputs /\ cpu_done \subseteq Inputs
    /\ next_id \in 0 .. MaxBatches
    /\ tracking \in [Sources -> SourceTracking]
    /\ DOMAIN pool \subseteq BatchIds /\ Cardinality(DOMAIN pool) <= PoolCapacity
    /\ parked \subseteq BatchIds

AllUnits(upTo) == UNION {{<<s, n>> : n \in 1 .. upTo[s]} : s \in Sources}

(* At-least-once: a checkpoint on disk covers no unit that was not         *)
(* delivered, rejected, filtered out, or dropped by a CPU worker after an  *)
(* error; so a crash at any point loses nothing else.  Concerns the order  *)
(* of acks, holds, throttled and failed flushes, and restarts.             *)
DurableCovered == AllUnits(durable) \subseteq settled \cup skipped

(* At-least-once as the comments of the scan and transform error paths     *)
(* state it: the units of a batch dropped on such an error are read again  *)
(* after a restart, hence never covered by a checkpoint on disk.           *)
DroppedIsReread == AllUnits(durable) \subseteq settled

(* Neither an ack, a flush, a stop nor a restart moves a checkpoint on     *)
(* disk backwards.                                                         *)
DurableNeverRegresses == [][\A s \in Sources : durable'[s] >= durable[s]]_vars

(* Every batch the machine has in flight is somewhere: with the            *)
(* coordinator, in the pool, in the ack channel, held, or lost with its    *)
(* worker.  No path of submit_batch or run_async forgets a ticket.         *)
TicketsAccountedFor ==
    \A s \in Sources : \A id \in DOMAIN tracking[s].in_flight :
        \/ submitting # None /\ submitting.id = id
        \/ id \in DOMAIN pool
        \/ \E k \in DOMAIN acks : acks[k].id = id
        \/ id \in parked

(* A shutdown that drained the channel and did not have to force the       *)
(* machine leaves nothing behind: every unit read is covered by the store, *)
(* or was dropped by a CPU worker.                                         *)
CleanStopCoversReads ==
    pc = "stopped" /\ ~forced /\ rx_open =>
        AllUnits(read) \subseteq AllUnits(store) \cup skipped

(* A reload or shutdown of a pipeline that did not have to force the       *)
(* machine leaves nothing behind: "gracefully drained (all in-flight data  *)
(* is flushed)".                                                           *)
ReloadFlushesReads ==
    pc = "stopped" /\ dropped /\ ~forced =>
        AllUnits(read) \subseteq AllUnits(store) \cup skipped

(* The comments around manager.join(): the input threads are joined only   *)
(* when no producer can be blocked on the full channel, which nobody reads *)
(* any more.                                                               *)
JoinCannotBlock ==
    pc = "join" /\ rx_open =>
        \A i \in Inputs : outbox[i] # None => Len(channel) < ChannelCapacity

(* A requested shutdown completes, whatever the output does.               *)
ShutdownAlwaysCompletes == shutdown ~> pc = "stopped"

(* A requested shutdown completes if the output answers: the coordinator   *)
(* gets through a blocked pool.submit, the drain of the channel, the join  *)
(* of the input threads and the drain of the pool.                         *)
ShutdownCompletes == OutputAnswers => (shutdown ~> pc = "stopped")
=============================================================================
