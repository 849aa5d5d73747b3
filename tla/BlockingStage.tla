--------------------------- MODULE BlockingStage ----------------------------
(***************************************************************************)
(* BoundedBlockingStage of crates/ffwd-io/src/blocking_stage.rs: worker    *)
(* threads with a queue each, and one counter for the jobs that are queued *)
(* or running.  The async handlers submit jobs; a submission reserves the  *)
(* counter and then tries the queues one after the other, while workers    *)
(* take jobs, panic and leave.  A job is named by the request it is for.   *)
(***************************************************************************)
EXTENDS Integers, Sequences, FiniteSets

CONSTANTS
    Requests,
    None,
    NumWorkers,
    MaxOutstanding,     \* max_outstanding
    MaxPanics           \* bound: jobs that make a worker panic

ASSUME StageAssumptions ==
    /\ None \notin Requests \cup {"rows", "empty", "invalid", "full", "internal"}
    /\ None \notin [req : Requests, at : Nat, left : Nat, disconnected : BOOLEAN]
    /\ {NumWorkers, MaxOutstanding} \subseteq Nat \ {0}
    /\ MaxPanics \in Nat

Workers == 0 .. NumWorkers - 1

VARIABLES
    outstanding,        \* jobs reserved and not released
    next_worker,
    queue,              \* worker -> its submit_rx
    worker,             \* worker -> where its loop is, with the job it holds
    is_worker_failed,
    is_shutting_down,
    submitting,         \* the submission that is trying the queues, or None
    result,             \* request -> what its oneshot channel holds, or None
    panics

stageVars == <<outstanding, next_worker, queue, worker, is_worker_failed, is_shutting_down,
               submitting, result, panics>>

Held(w) == IF worker[w].job = None THEN {} ELSE {worker[w].job}

Queued(w) == {queue[w][i] : i \in DOMAIN queue[w]}

StageInit ==
    /\ outstanding = 0 /\ next_worker = 0
    /\ queue = [w \in Workers |-> <<>>]
    /\ worker = [w \in Workers |-> [pc |-> "recv", job |-> None]]
    /\ is_worker_failed = FALSE /\ is_shutting_down = FALSE
    /\ submitting = None
    /\ result = [r \in Requests |-> None]
    /\ panics = 0

-----------------------------------------------------------------------------
(* try_submit, on the thread of the HTTP runtime.                          *)

Refusal ==
    CASE is_worker_failed \/ is_shutting_down -> "internal"
      [] ~is_worker_failed /\ ~is_shutting_down /\ outstanding >= MaxOutstanding -> "full"
      [] OTHER -> None

SubmitRefused(r) ==
    /\ submitting = None
    /\ Refusal # None
    /\ result' = [result EXCEPT ![r] = Refusal]
    /\ UNCHANGED <<outstanding, next_worker, queue, worker, is_worker_failed, is_shutting_down,
                   submitting, panics>>

\* reserve_outstanding and the start of try_send_round_robin.
SubmitReserves(r) ==
    /\ submitting = None
    /\ Refusal = None
    /\ outstanding' = outstanding + 1
    /\ next_worker' = (next_worker + 1) % NumWorkers
    /\ submitting' = [req |-> r, at |-> next_worker, left |-> NumWorkers, disconnected |-> FALSE]
    /\ UNCHANGED <<queue, worker, is_worker_failed, is_shutting_down, result, panics>>

\* One try_send of try_send_round_robin.
SubmitTries ==
    /\ submitting # None
    /\ submitting.left > 0
    /\ LET w == submitting.at
           gone == worker[w].pc = "gone"
           room == Len(queue[w]) < MaxOutstanding
       IN  \/ /\ ~gone /\ room
              /\ queue' = [queue EXCEPT ![w] = Append(@, submitting.req)]
              /\ submitting' = None
           \/ /\ gone \/ ~room
              /\ submitting' = [submitting EXCEPT !.at = (@ + 1) % NumWorkers, !.left = @ - 1,
                                                  !.disconnected = @ \/ gone]
              /\ UNCHANGED queue
    /\ UNCHANGED <<outstanding, next_worker, worker, is_worker_failed, is_shutting_down, result,
                   panics>>

\* No queue takes the job: the message is dropped, and its reservation with it.
SubmitGivesUp ==
    /\ submitting # None
    /\ submitting.left = 0
    /\ outstanding' = outstanding - 1
    /\ result' = [result EXCEPT ![submitting.req] =
                     IF is_worker_failed \/ submitting.disconnected THEN "internal" ELSE "full"]
    /\ submitting' = None
    /\ UNCHANGED <<next_worker, queue, worker, is_worker_failed, is_shutting_down, panics>>

-----------------------------------------------------------------------------
(* worker_loop.                                                            *)

WorkerGoes(w, pc, job) == worker' = [worker EXCEPT ![w] = [pc |-> pc, job |-> job]]

Answer(jobs, value) == result' = [r \in Requests |-> IF r \in jobs THEN value ELSE result[r]]

Take(w) ==
    LET job == Head(queue[w])
        closed == is_worker_failed \/ is_shutting_down
    IN
    /\ worker[w].pc = "recv"
    /\ queue[w] # <<>>
    /\ queue' = [queue EXCEPT ![w] = Tail(@)]
    /\ WorkerGoes(w, IF closed THEN "closing" ELSE "process", job)
    /\ Answer(IF closed THEN {job} ELSE {}, "internal")
    /\ UNCHANGED <<outstanding, next_worker, is_worker_failed, is_shutting_down, submitting, panics>>

\* What process() may return: a batch with or without rows, or a worker error.
Outputs == {"rows", "empty", "invalid"}

Processes(w) ==
    /\ worker[w].pc = "process"
    /\ \E output \in Outputs : Answer(Held(w), output)
    /\ WorkerGoes(w, "release", worker[w].job)
    /\ UNCHANGED <<outstanding, next_worker, queue, is_worker_failed, is_shutting_down, submitting,
                   panics>>

\* Mutant of Panics: the panic is answered like an error and nothing more.
PanicsQuietly(w) ==
    /\ worker[w].pc = "process"
    /\ panics < MaxPanics
    /\ panics' = panics + 1
    /\ WorkerGoes(w, "gone", None)
    /\ is_worker_failed' = TRUE
    /\ Answer(Held(w), "internal")
    /\ UNCHANGED <<outstanding, next_worker, queue, is_shutting_down, submitting>>

Panics(w) ==
    /\ worker[w].pc = "process"
    /\ panics < MaxPanics
    /\ panics' = panics + 1
    /\ WorkerGoes(w, "panicked", worker[w].job)
    /\ is_worker_failed' = TRUE
    /\ UNCHANGED <<outstanding, next_worker, queue, is_shutting_down, submitting, result>>

AnswersPanic(w) ==
    /\ worker[w].pc = "panicked"
    /\ Answer(Held(w), "internal")
    /\ WorkerGoes(w, "closing", worker[w].job)
    /\ UNCHANGED <<outstanding, next_worker, queue, is_worker_failed, is_shutting_down, submitting,
                   panics>>

\* The reservation is dropped at the end of the loop body, after the answer.
Releases(w) ==
    /\ worker[w].pc = "release"
    /\ outstanding' = outstanding - 1
    /\ WorkerGoes(w, "recv", None)
    /\ UNCHANGED <<next_worker, queue, is_worker_failed, is_shutting_down, submitting, result, panics>>

\* close_pending_jobs, until try_recv finds the queue empty.
ClosesPending(w) ==
    /\ worker[w].pc = "closing"
    /\ \/ /\ queue[w] # <<>>
          /\ queue' = [queue EXCEPT ![w] = Tail(@)]
          /\ Answer({Head(queue[w])}, "internal")
          /\ outstanding' = outstanding - 1
          /\ UNCHANGED worker
       \/ /\ queue[w] = <<>>
          /\ WorkerGoes(w, "leaving", worker[w].job)
          /\ UNCHANGED <<queue, result, outstanding>>
    /\ UNCHANGED <<next_worker, is_worker_failed, is_shutting_down, submitting, panics>>

\* Mutant of Leaves: the receiver outlives the thread.
LeavesReceiver(w) ==
    /\ worker[w].pc = "leaving"
    /\ WorkerGoes(w, "gone", None)
    /\ outstanding' = outstanding - 1
    /\ UNCHANGED <<next_worker, queue, is_worker_failed, is_shutting_down, submitting, result, panics>>

\* The thread returns: its job and its receiver are dropped.  Jobs that arrived since
\* are discarded with the receiver, and their result handles read Closed.
Leaves(w) ==
    /\ worker[w].pc = "leaving"
    /\ WorkerGoes(w, "gone", None)
    /\ Answer(Queued(w), "internal")
    /\ outstanding' = outstanding - 1 - Len(queue[w])
    /\ queue' = [queue EXCEPT ![w] = <<>>]
    /\ UNCHANGED <<next_worker, is_worker_failed, is_shutting_down, submitting, panics>>

\* The senders are gone and the queue is empty: recv() fails.
RecvEnds(w) ==
    /\ worker[w].pc = "recv"
    /\ is_shutting_down /\ queue[w] = <<>>
    /\ WorkerGoes(w, "gone", None)
    /\ UNCHANGED <<outstanding, next_worker, queue, is_worker_failed, is_shutting_down, submitting,
                   result, panics>>

WorkerStep(w) ==
    \/ Take(w) \/ Processes(w) \/ AnswersPanic(w) \/ Releases(w) \/ ClosesPending(w)
    \/ Leaves(w) \/ RecvEnds(w)

\* Drop for BoundedBlockingStage, up to the join of the workers.
StageDrops ==
    /\ ~is_shutting_down
    /\ is_shutting_down' = TRUE
    /\ UNCHANGED <<outstanding, next_worker, queue, worker, is_worker_failed, submitting, result,
                   panics>>
=============================================================================
