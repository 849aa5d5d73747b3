----------------------------- MODULE OutputSinks -----------------------------
(***************************************************************************)
(* What happens to a batch inside one output worker: process_item          *)
(* (crates/ffwd-runtime/src/worker_pool/worker.rs) with its timeout,       *)
(* retries and cancellation, AsyncFanoutSink (crates/ffwd-output/src/      *)
(* sink.rs) over several children, and among the children the file sink:   *)
(* PipelinedSink (pipelined.rs) with its buffer pool and writer thread,    *)
(* and the Elasticsearch sink (module BulkSink).                           *)
(*                                                                         *)
(* Every other sink is a child whose send is awaited and answers with any  *)
(* SendResult; a send that fails or is dropped half-way may have reached   *)
(* its destination.  Delays and what is serialized are left out.           *)
(***************************************************************************)
EXTENDS BulkSink

CONSTANTS
    Children,           \* number of child sinks
    FileSinks,          \* those that are a PipelinedSink
    BulkSinks,          \* the one that is an ElasticsearchSink, if any
    MaxBatch,           \* bound: batches the worker is given
    NumBuffers,         \* PipelineConfig::num_buffers
    MaxFaults,          \* bound: failed, rejected, timed out or half-done sends and writes
    None

ASSUME SinkAssumptions ==
    /\ {Children, MaxBatch, NumBuffers} \subseteq Nat \ {0} /\ MaxFaults \in Nat
    /\ FileSinks \subseteq 1..Children /\ BulkSinks \subseteq (1..Children) \ FileSinks
    /\ Cardinality(BulkSinks) <= 1
    /\ None \notin 1..MaxBatch /\ None \notin {"Delivered", "Rejected", "PoolClosed"}

ChildIds == 1..Children
Batches == 1..MaxBatch

VARIABLES
    wpc,                \* where the worker is
    batch,              \* the batch process_item works on
    outcome,            \* DeliveryOutcome of the batches so far
    cancel,             \* the pool's cancellation token
    states,             \* ChildState of every child
    child,              \* the child send_batch is at
    any_pending, max_retry,     \* of the send_batch in progress; max_retry: there is one
    filled,             \* the channel to the writer thread: batches, or 0 for an empty buffer
    empty,              \* buffers in the channel back
    errors,             \* errors the writer thread has sent
    writing,            \* the buffer the writer thread holds
    \* ghosts
    oks,                \* how often each child has answered Ok to each batch
    rejects,            \* the batches each child has rejected
    written,            \* what the writer threads have written
    faults

workerVars == <<wpc, batch, outcome, cancel>>
fanoutVars == <<states, child, any_pending, max_retry>>
pipeVars == <<filled, empty, errors, writing, written>>
answerVars == <<oks, rejects>>
vars == <<workerVars, fanoutVars, pipeVars, bulkVars, answerVars, faults>>

Fault == faults < MaxFaults /\ faults' = faults + 1

-----------------------------------------------------------------------------
(***************************************************************************)
(* The worker: process_item.                                               *)
(***************************************************************************)

\* One call of the fanout's send_batch starts at the first child.
CallSendBatch ==
    /\ wpc' = "sending"
    /\ child' = 1 /\ any_pending' = FALSE /\ max_retry' = FALSE

AllPending == [c \in ChildIds |-> "Pending"]

\* Mutant of BeginBatch: the states of the previous batch are kept.
BeginBatchStale == states' = states /\ BulkBeginBatch

BeginBatch == states' = AllPending /\ BulkBeginBatch

\* The worker takes the next batch from its channel.
TakeItem ==
    /\ wpc = "idle" /\ batch < MaxBatch /\ ~cancel
    /\ batch' = batch + 1
    /\ BeginBatch
    /\ CallSendBatch
    /\ UNCHANGED <<outcome, cancel, pipeVars, answerVars, faults>>

Settle(result) ==
    /\ outcome' = [outcome EXCEPT ![batch] = result]
    /\ wpc' = "idle"
    /\ UNCHANGED <<batch, cancel>>

\* Mutant of BackoffEnds: every attempt begins the batch anew.
BackoffEndsAnew ==
    /\ wpc = "backoff"
    /\ states' = AllPending
    /\ CallSendBatch
    /\ UNCHANGED <<batch, outcome, cancel, pipeVars, bulkVars, answerVars, faults>>

BackoffEnds ==
    /\ wpc = "backoff"
    /\ CallSendBatch
    /\ UNCHANGED <<batch, outcome, cancel, states, pipeVars, bulkVars, answerVars, faults>>

AtChild(kinds) == wpc = "sending" /\ child \in kinds /\ states[child] = "Pending"

\* A child of any other kind waits for the answer to its send.
Awaiting == AtChild(ChildIds \ (FileSinks \union BulkSinks))

\* The future of send_batch is dropped while a child is awaited (the file sink blocks its
\* thread instead): the child stays Pending, whether or not the batch reached it.
DropSend ==
    \/ Awaiting /\ UNCHANGED bulkVars
    \/ AtChild(BulkSinks) /\ \E indexed \in BOOLEAN : BulkDropped(indexed)

TimesOut ==
    /\ DropSend
    /\ Fault
    /\ wpc' = "backoff"
    /\ UNCHANGED <<batch, outcome, cancel, fanoutVars, pipeVars, answerVars>>

\* The biased select! sees the token when it polls: before the first child, and while it waits.
Cancelled ==
    /\ cancel
    /\ \/ DropSend
       \/ wpc = "backoff" /\ UNCHANGED bulkVars
       \/ wpc = "sending" /\ child = 1 /\ attempt = Idle /\ UNCHANGED bulkVars
    /\ Settle("PoolClosed")
    /\ UNCHANGED <<fanoutVars, pipeVars, answerVars, faults>>

Cancel ==
    /\ ~cancel
    /\ cancel' = TRUE
    /\ UNCHANGED <<wpc, batch, outcome, fanoutVars, pipeVars, bulkVars, answerVars, faults>>

-----------------------------------------------------------------------------
(***************************************************************************)
(* AsyncFanoutSink::send_batch.                                            *)
(***************************************************************************)

\* merge_child_send_result for the child the loop is at.
Merge(result) ==
    /\ states' = IF result \in {"Ok", "Rejected"} THEN [states EXCEPT ![child] = result] ELSE states
    /\ any_pending' = (any_pending \/ result \in {"RetryAfter", "IoError"})
    /\ max_retry' = (max_retry \/ result = "RetryAfter")
    /\ child' = child + 1
    /\ oks' = IF result = "Ok" THEN [oks EXCEPT ![child][batch] = @ + 1] ELSE oks
    /\ rejects' = IF result = "Rejected" THEN [rejects EXCEPT ![child] = @ \union {batch}] ELSE rejects

SkipSettled ==
    /\ wpc = "sending" /\ child \in ChildIds /\ states[child] # "Pending"
    /\ child' = child + 1
    /\ UNCHANGED <<workerVars, states, any_pending, max_retry, pipeVars, bulkVars, answerVars, faults>>

ChildAnswers(result) ==
    /\ Awaiting
    /\ IF result = "Ok" THEN UNCHANGED faults ELSE Fault
    /\ Merge(result)
    /\ UNCHANGED <<workerVars, pipeVars, bulkVars>>

FinalizeFanoutOutcome ==
    IF any_pending THEN (IF max_retry THEN "RetryAfter" ELSE "IoError")
    ELSE IF \E c \in ChildIds : states[c] = "Rejected" THEN "Rejected" ELSE "Delivered"

\* The result of send_batch reaches process_item.
SendReturns ==
    LET result == FinalizeFanoutOutcome
    IN
    /\ wpc = "sending" /\ child > Children
    /\ IF result \in {"RetryAfter", "IoError"}
       THEN wpc' = "backoff" /\ UNCHANGED <<batch, outcome, cancel>>
       ELSE Settle(result)
    /\ UNCHANGED <<fanoutVars, pipeVars, bulkVars, answerVars, faults>>

-----------------------------------------------------------------------------
(***************************************************************************)
(* PipelinedSink::send_batch, in the thread of the worker.                 *)
(***************************************************************************)

AtFile(f) == AtChild({f})

\* check_writer_error: an earlier batch could not be written, and this one is answered as
\* from_io_error takes the error of that write.
FileReportsError(f, result) ==
    /\ AtFile(f) /\ errors[f] > 0
    /\ errors' = [errors EXCEPT ![f] = @ - 1]
    /\ Merge(result)
    /\ UNCHANGED <<workerVars, bulkVars, filled, empty, writing, written, faults>>

\* The buffer is taken, serialized and handed to the writer thread.
FileAccepts(f) ==
    /\ AtFile(f) /\ errors[f] = 0 /\ empty[f] > 0
    /\ empty' = [empty EXCEPT ![f] = @ - 1]
    /\ filled' = [filled EXCEPT ![f] = Append(@, batch)]
    /\ Merge("Ok")
    /\ UNCHANGED <<workerVars, bulkVars, errors, writing, written, faults>>

\* Mutant of FileCannotSerialize: the buffer is not given back.
FileLeaksBuffer(f, result) ==
    /\ AtFile(f) /\ errors[f] = 0 /\ empty[f] > 0 /\ Fault
    /\ empty' = [empty EXCEPT ![f] = @ - 1]
    /\ Merge(result)
    /\ UNCHANGED <<workerVars, bulkVars, filled, errors, writing, written>>

\* The batch cannot be serialized: the cleared buffer goes back through the writer, and the
\* kind of the error decides whether the batch is rejected.
FileCannotSerialize(f, result) ==
    /\ AtFile(f) /\ errors[f] = 0 /\ empty[f] > 0 /\ Fault
    /\ empty' = [empty EXCEPT ![f] = @ - 1]
    /\ filled' = [filled EXCEPT ![f] = Append(@, 0)]
    /\ Merge(result)
    /\ UNCHANGED <<workerVars, bulkVars, errors, writing, written>>

-----------------------------------------------------------------------------
(***************************************************************************)
(* ElasticsearchSink::send_batch, awaited by the worker.                   *)
(***************************************************************************)

\* A step of the sink between its start and its return.
BulkStep ==
    /\ AtChild(BulkSinks)
    /\ \/ (BulkStarts \/ BulkSplits \/ BulkTooLarge \/ BulkResponse({}, {})) /\ UNCHANGED faults
       \/ /\ Fault
          /\ \/ \E retry, reject \in SUBSET Rows : retry \union reject # {} /\ BulkResponse(retry, reject)
             \/ \E kind \in {"Rejected", "RetryAfter", "IoError"}, indexed \in BOOLEAN :
                    BulkFails(kind, indexed)
             \/ \E kind \in {"Rejected", "IoError"} : BulkCannotSerialize(kind)
             \/ BulkRefusesSize
    /\ UNCHANGED <<workerVars, fanoutVars, pipeVars, answerVars>>

BulkAnswers ==
    /\ AtChild(BulkSinks)
    /\ BulkReturns
    /\ Merge(BulkResult)
    /\ UNCHANGED <<workerVars, pipeVars, faults>>

-----------------------------------------------------------------------------
(***************************************************************************)
(* writer_thread_loop.                                                     *)
(***************************************************************************)

WriterTakes(f) ==
    /\ writing[f] = None /\ filled[f] # <<>>
    /\ writing' = [writing EXCEPT ![f] = Head(filled[f])]
    /\ filled' = [filled EXCEPT ![f] = Tail(@)]
    /\ UNCHANGED <<workerVars, fanoutVars, bulkVars, empty, errors, written, answerVars, faults>>

\* The buffer is recycled whether or not the write succeeded; the error goes to a channel
\* with NumBuffers slots and is dropped when that is full.
Recycle(f) ==
    /\ writing' = [writing EXCEPT ![f] = None]
    /\ empty' = [empty EXCEPT ![f] = @ + 1]

WriterWrites(f) ==
    /\ writing[f] # None
    /\ Recycle(f)
    /\ written' = [written EXCEPT ![f] = @ \union ({writing[f]} \ {0})]
    /\ UNCHANGED <<workerVars, fanoutVars, bulkVars, filled, errors, answerVars, faults>>

WriterFails(f) ==
    /\ writing[f] \in Batches
    /\ Fault
    /\ Recycle(f)
    /\ errors' = [errors EXCEPT ![f] = IF @ < NumBuffers THEN @ + 1 ELSE @]
    /\ UNCHANGED <<workerVars, fanoutVars, bulkVars, filled, written, answerVars>>

-----------------------------------------------------------------------------

\* The worker ends (idle, or the pool drains): AsyncFanoutSink::shutdown shuts every child
\* down; a PipelinedSink waits for its writer thread, behind what is queued.
Shutdown ==
    /\ wpc = "idle"
    /\ \A f \in FileSinks : filled[f] = <<>> /\ writing[f] = None
    /\ wpc' = "stopped"
    /\ UNCHANGED <<batch, outcome, cancel, fanoutVars, pipeVars, bulkVars, answerVars, faults>>

Init ==
    /\ wpc = "idle" /\ batch = 0 /\ cancel = FALSE
    /\ outcome = [b \in Batches |-> None]
    /\ states = AllPending /\ child = 1 /\ any_pending = FALSE /\ max_retry = FALSE
    /\ filled = [f \in FileSinks |-> <<>>]
    /\ empty = [f \in FileSinks |-> NumBuffers]
    /\ errors = [f \in FileSinks |-> 0]
    /\ writing = [f \in FileSinks |-> None]
    /\ oks = [c \in ChildIds |-> [b \in Batches |-> 0]]
    /\ rejects = [c \in ChildIds |-> {}]
    /\ written = [f \in FileSinks |-> {}]
    /\ faults = 0
    /\ BulkInit

WriterStep == \E f \in FileSinks : WriterTakes(f) \/ WriterWrites(f) \/ WriterFails(f)

SendStep ==
    \/ SkipSettled \/ SendReturns \/ BackoffEnds \/ TimesOut \/ Cancelled
    \/ BulkStep \/ BulkAnswers
    \/ \E result \in {"Ok", "Rejected", "RetryAfter", "IoError"} : ChildAnswers(result)
    \/ \E f \in FileSinks :
          \/ FileAccepts(f)
          \/ \E result \in {"Rejected", "IoError"} :
                FileReportsError(f, result) \/ FileCannotSerialize(f, result)

Next == TakeItem \/ SendStep \/ WriterStep \/ Cancel \/ Shutdown

Spec == Init /\ [][Next]_vars

\* The worker and the writer threads keep running; a send ends, if only by its timeout.
FairSpec == Spec /\ WF_vars(SendStep) /\ WF_vars(WriterStep)

-----------------------------------------------------------------------------

\* A child that has accepted a batch is not sent it again when the batch is retried for
\* the sake of another child.
AcceptedOnce == \A c \in ChildIds, b \in Batches : oks[c][b] <= 1

\* The outcome of a batch speaks for every child: delivered means that each child accepted
\* this very batch, rejected that each one accepted or rejected it and some did reject.
OutcomeSpeaksForAll ==
    \A b \in Batches :
        /\ outcome[b] = "Delivered" => \A c \in ChildIds : oks[c][b] > 0
        /\ outcome[b] = "Rejected" =>
              /\ \A c \in ChildIds : oks[c][b] > 0 \/ b \in rejects[c]
              /\ \E c \in ChildIds : b \in rejects[c]

\* The rows of a batch the bulk sink has answered for: every row was indexed, or refused
\* when the answer is Rejected, however the batch was split and however its parts failed;
\* and a row is indexed twice only when the answer to its request was lost.
RowsAccountedFor ==
    /\ \A c \in BulkSinks, r \in Rows :
          batch \in Batches =>
              /\ oks[c][batch] > 0 => accepted[r] > 0
              /\ batch \in rejects[c] => accepted[r] > 0 \/ r \in refused
    /\ \A r \in Rows \ unsure : accepted[r] <= 1

\* A batch the worker has taken gets its outcome: no wait for a buffer, for the other
\* children or for a retry goes on for ever once the destinations answer.
BatchSettles == \A b \in Batches : (batch = b) ~> (outcome[b] # None)

\* A batch that is reported as delivered is in every file, or on its way there.
DeliveredIsWritten ==
    \A b \in Batches, f \in FileSinks :
        outcome[b] = "Delivered" =>
            \/ b \in written[f] \/ b = writing[f]
            \/ \E i \in DOMAIN filled[f] : filled[f][i] = b
=============================================================================
