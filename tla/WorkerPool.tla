----------------------------- MODULE WorkerPool ------------------------------
(***************************************************************************)
(* OutputWorkerPool of crates/ffwd-runtime/src/worker_pool: submit with    *)
(* its most-recently-used dispatch, the worker tasks with their one-slot   *)
(* channels, retries, idle expiry and panics, and the three phases of      *)
(* drain.  Worker tasks run on other threads than the caller of submit, so *)
(* every try_send of the dispatch loop is a step of its own.               *)
(***************************************************************************)
EXTENDS Naturals, FiniteSets, Sequences

CONSTANTS
    Items,          \* the work items the pipeline submits
    None,           \* no item
    MaxWorkers,     \* max_workers
    MaxSpawns       \* bound: worker tasks ever created

ASSUME PoolAssumptions ==
    /\ None \notin Items /\ "Shutdown" \notin Items
    /\ MaxWorkers \in Nat \ {0}
    /\ MaxSpawns \in Nat

WorkerIds == 1 .. MaxSpawns

VARIABLES
    pc,             \* what the owner of the pool is doing
    msg,            \* the item submit is placing, or None
    index,          \* position of the dispatch loop
    workers,        \* handles in most-recently-used order
    spawned,        \* next_id: worker tasks created so far
    phase,          \* where each worker task is
    inbox,          \* each worker's channel (capacity 1)
    item,           \* the item each worker is processing, or None
    is_draining,
    cancel,         \* the cancellation token
    forced_abort,   \* drain ran into its timeout
    submitted,      \* items handed to submit
    acks,           \* answers sent on the ack channel
    lost            \* items dropped without an answer

poolVars == <<pc, msg, index, workers, spawned>>
workerVars == <<phase, inbox, item>>
drainVars == <<is_draining, cancel, forced_abort>>
vars == <<poolVars, workerVars, drainVars, submitted, acks, lost>>

Init ==
    /\ pc = "idle"
    /\ msg = None
    /\ index = 1
    /\ workers = <<>>
    /\ spawned = 0
    /\ phase = [w \in WorkerIds |-> "unborn"]
    /\ inbox = [w \in WorkerIds |-> <<>>]
    /\ item = [w \in WorkerIds |-> None]
    /\ is_draining = FALSE
    /\ cancel = FALSE
    /\ forced_abort = FALSE
    /\ submitted = {}
    /\ acks = <<>>
    /\ lost = {}

Ack(i, outcome) == acks' = Append(acks, [item |-> i, outcome |-> outcome])

(* The work in a channel (Shutdown messages are not work).                 *)
Work(messages) == {messages[k] : k \in DOMAIN messages} \cap Items

Live == {w \in WorkerIds : phase[w] \notin {"unborn", "gone"}}

-----------------------------------------------------------------------------
(* submit.                                                                 *)

Submit(i) ==
    /\ pc = "idle"
    /\ i \notin submitted
    /\ ~is_draining /\ ~cancel
    /\ submitted' = submitted \cup {i}
    /\ msg' = i
    /\ index' = 1
    /\ pc' = "dispatch"
    /\ UNCHANGED <<workers, spawned, workerVars, drainVars, acks, lost>>

SubmitAfterDrain(i) ==
    /\ pc = "drained"
    /\ i \notin submitted
    /\ is_draining \/ cancel
    /\ submitted' = submitted \cup {i}
    /\ Ack(i, "PoolClosed")
    /\ UNCHANGED <<poolVars, workerVars, drainVars, lost>>

Done == pc' = "idle" /\ msg' = None

(* Faulty variant: the handle of a worker that is leaving is removed       *)
(* before the worker has gone.                                             *)
TrySendPrunesLeaving ==
    /\ pc = "dispatch"
    /\ index <= Len(workers)
    /\ LET w == workers[index]
       IN  \/ /\ phase[w] \in {"closing", "gone"}
              /\ workers' = SubSeq(workers, 1, index - 1)
                            \o SubSeq(workers, index + 1, Len(workers))
              /\ UNCHANGED <<pc, msg, index, inbox>>
           \/ /\ phase[w] \notin {"closing", "gone"} /\ inbox[w] # <<>>
              /\ index' = index + 1
              /\ UNCHANGED <<pc, msg, workers, inbox>>
           \/ /\ phase[w] \notin {"closing", "gone"} /\ inbox[w] = <<>>
              /\ inbox' = [inbox EXCEPT ![w] = <<msg>>]
              /\ workers' = [workers EXCEPT ![1] = w, ![index] = workers[1]]
              /\ Done
              /\ UNCHANGED index
    /\ UNCHANGED <<spawned, phase, item, drainVars, submitted, acks, lost>>

(* Step 1: try_send to the worker at index.  Ok promotes it to the front,  *)
(* Full goes on, Closed removes the handle.                                *)
TrySend ==
    /\ pc = "dispatch"
    /\ index <= Len(workers)
    /\ LET w == workers[index]
       IN  \/ /\ phase[w] = "gone"
              /\ workers' = SubSeq(workers, 1, index - 1)
                            \o SubSeq(workers, index + 1, Len(workers))
              /\ UNCHANGED <<pc, msg, index, inbox>>
           \/ /\ phase[w] # "gone" /\ inbox[w] # <<>>
              /\ index' = index + 1
              /\ UNCHANGED <<pc, msg, workers, inbox>>
           \/ /\ phase[w] # "gone" /\ inbox[w] = <<>>
              /\ inbox' = [inbox EXCEPT ![w] = <<msg>>]
              /\ workers' = [workers EXCEPT ![1] = w, ![index] = workers[1]]
              /\ Done
              /\ UNCHANGED index
    /\ UNCHANGED <<spawned, phase, item, drainVars, submitted, acks, lost>>

AllTried == pc = "dispatch" /\ index > Len(workers)

(* Step 2: a new worker, with the item in its channel, in front.           *)
SpawnWorker ==
    /\ AllTried
    /\ Len(workers) < MaxWorkers
    /\ spawned < MaxSpawns
    /\ LET w == spawned + 1
       IN  /\ phase' = [phase EXCEPT ![w] = "receiving"]
           /\ inbox' = [inbox EXCEPT ![w] = <<msg>>]
           /\ workers' = <<w>> \o workers
    /\ spawned' = spawned + 1
    /\ Done
    /\ UNCHANGED <<index, item, drainVars, submitted, acks, lost>>

(* Step 3: at the limit, or the factory failed: wait for the front worker, *)
(* or give up when there is none.                                          *)
WaitOnFront ==
    /\ AllTried
    /\ workers # <<>>
    /\ pc' = "waiting"
    /\ UNCHANGED <<msg, index, workers, spawned, workerVars, drainVars, submitted,
                   acks, lost>>

NoWorkersAvailable ==
    /\ AllTried
    /\ workers = <<>>
    /\ Ack(msg, "NoWorkersAvailable")
    /\ Done
    /\ UNCHANGED <<index, workers, spawned, workerVars, drainVars, submitted, lost>>

(* Faulty variant: the send does not notice that the worker has gone.     *)
WaitSendIgnoresClose ==
    LET w == workers[1]
    IN  /\ pc = "waiting"
        /\ phase[w] # "gone" /\ inbox[w] = <<>>
        /\ inbox' = [inbox EXCEPT ![w] = <<msg>>]
        /\ Done
        /\ UNCHANGED <<index, workers, spawned, phase, item, drainVars, submitted,
                       acks, lost>>

(* send().await: the channel has room, or the worker has gone.             *)
WaitSend ==
    LET w == workers[1]
    IN  /\ pc = "waiting"
        /\ \/ /\ phase[w] # "gone" /\ inbox[w] = <<>>
              /\ inbox' = [inbox EXCEPT ![w] = <<msg>>]
              /\ UNCHANGED acks
           \/ /\ phase[w] = "gone"
              /\ Ack(msg, "WorkerChannelClosed")
              /\ UNCHANGED inbox
        /\ Done
        /\ UNCHANGED <<index, workers, spawned, phase, item, drainVars, submitted, lost>>

SubmitStep == TrySend \/ SpawnWorker \/ WaitOnFront \/ NoWorkersAvailable \/ WaitSend

-----------------------------------------------------------------------------
(* worker_task and process_item.                                           *)

Receive(w) ==
    /\ phase[w] = "receiving" /\ ~cancel
    /\ inbox[w] # <<>>
    /\ inbox' = [inbox EXCEPT ![w] = <<>>]
    /\ IF Head(inbox[w]) = "Shutdown"
       THEN phase' = [phase EXCEPT ![w] = "closing"] /\ UNCHANGED item
       ELSE /\ phase' = [phase EXCEPT ![w] = "sending"]
            /\ item' = [item EXCEPT ![w] = Head(inbox[w])]
    /\ UNCHANGED <<poolVars, drainVars, submitted, acks, lost>>

(* recv_with_idle_timeout answers None: the idle timeout has passed, or    *)
(* the pool has dropped its handle.                                        *)
RecvNone(w) ==
    /\ phase[w] = "receiving" /\ ~cancel
    /\ inbox[w] = <<>>
    /\ phase' = [phase EXCEPT ![w] = "closing"]
    /\ UNCHANGED <<poolVars, inbox, item, drainVars, submitted, acks, lost>>

(* The biased select of the worker sees the cancellation first.            *)
CancelIdle(w) ==
    /\ phase[w] = "receiving" /\ cancel
    /\ phase' = [phase EXCEPT ![w] = "closing"]
    /\ UNCHANGED <<poolVars, inbox, item, drainVars, submitted, acks, lost>>

Answer(w, outcome, next) ==
    /\ Ack(item[w], outcome)
    /\ item' = [item EXCEPT ![w] = None]
    /\ phase' = [phase EXCEPT ![w] = next]
    /\ UNCHANGED <<poolVars, inbox, drainVars, submitted, lost>>

(* The sink accepts or rejects the batch, or answers something unknown.    *)
SendReturns(w) ==
    /\ phase[w] = "sending" /\ ~cancel
    /\ \E outcome \in {"Delivered", "Rejected", "InternalFailure"} :
          Answer(w, outcome, "receiving")

(* Faulty variant: the panic takes the item with it.                       *)
SendPanicsSilently(w) ==
    /\ phase[w] = "sending" /\ ~cancel
    /\ item' = [item EXCEPT ![w] = None]
    /\ phase' = [phase EXCEPT ![w] = "closing"]
    /\ UNCHANGED <<poolVars, inbox, drainVars, submitted, acks, lost>>

(* The sink panics: the item is answered and the worker leaves.            *)
SendPanics(w) ==
    /\ phase[w] = "sending" /\ ~cancel
    /\ Answer(w, "InternalFailure", "closing")

(* Timeout, RetryAfter or IoError: back off and send again, without limit. *)
BackOff(w) ==
    /\ phase[w] = "sending" /\ ~cancel
    /\ phase' = [phase EXCEPT ![w] = "backoff"]
    /\ UNCHANGED <<poolVars, inbox, item, drainVars, submitted, acks, lost>>

Retry(w) ==
    /\ phase[w] = "backoff" /\ ~cancel
    /\ phase' = [phase EXCEPT ![w] = "sending"]
    /\ UNCHANGED <<poolVars, inbox, item, drainVars, submitted, acks, lost>>

CancelItem(w) ==
    /\ phase[w] \in {"sending", "backoff"} /\ cancel
    /\ Answer(w, "PoolClosed", "receiving")

(* sink.shutdown() is over and the task ends: only now is its channel      *)
(* closed, and what came in meanwhile is dropped with it.                  *)
Leave(w) ==
    /\ phase[w] = "closing"
    /\ phase' = [phase EXCEPT ![w] = "gone"]
    /\ inbox' = [inbox EXCEPT ![w] = <<>>]
    /\ lost' = lost \cup Work(inbox[w])
    /\ UNCHANGED <<poolVars, item, drainVars, submitted, acks>>

WorkerStep(w) ==
    \/ Receive(w)
    \/ RecvNone(w)
    \/ CancelIdle(w)
    \/ SendReturns(w)
    \/ SendPanics(w)
    \/ BackOff(w)
    \/ Retry(w)
    \/ CancelItem(w)
    \/ Leave(w)

-----------------------------------------------------------------------------
(* drain.                                                                  *)

(* Phase 1: try_send Shutdown to every worker, then drop the handles.      *)
DrainSignal ==
    /\ pc = "idle"
    /\ is_draining' = TRUE
    /\ inbox' = [w \in WorkerIds |->
                    IF w \in Live /\ inbox[w] = <<>> /\ \E k \in DOMAIN workers : workers[k] = w
                    THEN <<"Shutdown">> ELSE inbox[w]]
    /\ workers' = <<>>
    /\ pc' = "joining"
    /\ UNCHANGED <<msg, index, spawned, phase, item, cancel, forced_abort, submitted,
                   acks, lost>>

(* Phase 2 ends when every worker has ended, in time or in the grace       *)
(* period.                                                                 *)
DrainJoined ==
    /\ pc \in {"joining", "grace"}
    /\ Live = {}
    /\ cancel' = TRUE
    /\ pc' = "drained"
    /\ UNCHANGED <<msg, index, workers, spawned, workerVars, is_draining, forced_abort,
                   submitted, acks, lost>>

(* Phase 3: cancel, and give the workers a grace period...                 *)
DrainTimeout ==
    /\ pc = "joining"
    /\ Live # {}
    /\ cancel' = TRUE
    /\ forced_abort' = TRUE
    /\ pc' = "grace"
    /\ UNCHANGED <<msg, index, workers, spawned, workerVars, is_draining, submitted,
                   acks, lost>>

(* Faulty variant: the grace period has no end.                            *)
DrainAbortNever ==
    /\ pc = "grace" /\ Live = {}
    /\ cancel' = TRUE
    /\ pc' = "drained"
    /\ UNCHANGED <<msg, index, workers, spawned, workerVars, is_draining, forced_abort,
                   submitted, acks, lost>>

(* ... after which the remaining tasks are aborted with what they hold.    *)
DrainAbort ==
    /\ pc = "grace"
    /\ Live # {}
    /\ phase' = [w \in WorkerIds |-> IF w \in Live THEN "gone" ELSE phase[w]]
    /\ lost' = lost \cup UNION {Work(inbox[w]) \cup ({item[w]} \cap Items) : w \in Live}
    /\ inbox' = [w \in WorkerIds |-> <<>>]
    /\ item' = [w \in WorkerIds |-> None]
    /\ pc' = "drained"
    /\ UNCHANGED <<msg, index, workers, spawned, drainVars, submitted, acks>>

DrainStep == DrainJoined \/ DrainTimeout \/ DrainAbort

Next ==
    \/ \E i \in Items : Submit(i) \/ SubmitAfterDrain(i)
    \/ SubmitStep
    \/ \E w \in WorkerIds : WorkerStep(w)
    \/ DrainSignal
    \/ DrainStep

Spec == Init /\ [][Next]_vars

(* The caller of submit and drain is scheduled, and drain's timers fire.   *)
FairSpec == Spec /\ WF_vars(SubmitStep) /\ WF_vars(DrainStep)

(* The worker tasks are scheduled, and the output does not answer every    *)
(* attempt with a transient failure.                                       *)
OutputAnswers ==
    \A w \in WorkerIds : WF_vars(WorkerStep(w)) /\ SF_vars(SendReturns(w))

-----------------------------------------------------------------------------
(* Properties.                                                             *)

(* The type of the pool's state.                                           *)
TypeOK ==
    /\ pc \in {"idle", "dispatch", "waiting", "joining", "grace", "drained"}
    /\ msg \in Items \cup {None}
    /\ index \in 1 .. (MaxWorkers + 1)
    /\ workers \in Seq(WorkerIds) /\ Len(workers) <= MaxWorkers
    /\ spawned \in 0 .. MaxSpawns
    /\ phase \in [WorkerIds -> {"unborn", "receiving", "sending", "backoff",
                                "closing", "gone"}]
    /\ inbox \in [WorkerIds -> Seq(Items \cup {"Shutdown"})]
    /\ \A w \in WorkerIds : Len(inbox[w]) <= 1
    /\ item \in [WorkerIds -> Items \cup {None}]
    /\ {is_draining, cancel, forced_abort} \subseteq BOOLEAN
    /\ submitted \subseteq Items /\ lost \subseteq Items

(* The places where a submitted item can be.                               *)
Places(i) ==
    {<<"msg", i>> : x \in {msg} \cap {i}}
    \cup {<<"inbox", w>> : w \in {v \in WorkerIds : i \in Work(inbox[v])}}
    \cup {<<"item", w>> : w \in {v \in WorkerIds : item[v] = i}}
    \cup {<<"ack", k>> : k \in {n \in DOMAIN acks : acks[n].item = i}}
    \cup {<<"lost", i>> : x \in lost \cap {i}}

(* A submitted item is in exactly one place: it is never duplicated        *)
(* between workers, never answered twice, never both answered and still    *)
(* queued, and it disappears only where the model records it as lost.      *)
ItemsConserved == \A i \in Items : Cardinality(Places(i)) = IF i \in submitted THEN 1 ELSE 0

(* Idle expiry, lazy pruning and respawning never let more sinks (and      *)
(* their connections) exist at a time than max_workers.                    *)
SinksBounded == Cardinality(Live) <= MaxWorkers

(* "Every in-flight batch ticket is acked or rejected before shutdown      *)
(* completes": after a drain that met its timeout every item submitted has *)
(* been answered.                                                          *)
DrainAnswersAll ==
    pc = "drained" /\ ~forced_abort => \A i \in submitted : \E k \in DOMAIN acks : acks[k].item = i

(* drain ends, whatever the workers answer and however long the output     *)
(* takes, as long as an aborted task yields.                               *)
DrainCompletes == is_draining ~> pc = "drained"

(* submit returns as long as the output answers: waiting on the front      *)
(* worker never waits for ever on one that has gone or is leaving.         *)
SubmitReturns == OutputAnswers => ((pc \in {"dispatch", "waiting"}) ~> (pc = "idle"))
=============================================================================
