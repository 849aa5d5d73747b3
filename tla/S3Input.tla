------------------------------ MODULE S3Input --------------------------------
(***************************************************************************)
(* The background tasks of crates/ffwd-io/src/s3_input: discovery by       *)
(* listing the bucket (a cursor that follows the completed keys) or by SQS *)
(* notifications (visibility, heartbeats, deletion), the orchestrator with *)
(* its deduplication and its semaphore, and one task per object that       *)
(* fetches it with retries and streams it into the output channel.         *)
(*                                                                         *)
(* Keys are numbers in the sort order of S3; an object is a number of      *)
(* chunks; a message is the set of the keys it announces and a receipt     *)
(* handle stands for one delivery of a message.  Timers elapse at any      *)
(* moment; health and the source paths of rows are left out.               *)
(***************************************************************************)
EXTENDS Naturals, FiniteSets, Sequences

CONSTANTS
    Keys,               \* a set of naturals above 0
    Modes,              \* "list" or "sqs": whether sqs_queue_url is set
    Messages,           \* sets of keys
    Receipts,           \* bound: deliveries that are being worked on at a time
    None,
    PageSize,           \* keys of one list response
    WorkBound,          \* capacity of the work and of the completion channel
    MaxObjects,         \* max_concurrent_objects
    OutBound,           \* CHANNEL_BOUND
    Chunks,             \* chunks of an object
    MaxFetchAttempts,
    MaxKeyFailures,
    KeysInOrder,        \* objects are created in the order of their keys
    MaxFaults           \* bound: failed requests and missed heartbeats

ASSUME S3Assumptions ==
    /\ Keys \subseteq Nat \ {0} /\ Messages \subseteq SUBSET Keys
    /\ Modes \subseteq {"list", "sqs"}
    /\ \A m \in Messages : IsFiniteSet(m)
    /\ None \notin Receipts \cup [key : Keys, receipt : Receipts \cup {None}]
    /\ {PageSize, WorkBound, MaxObjects, OutBound, Chunks, MaxFetchAttempts, MaxKeyFailures}
          \subseteq Nat \ {0}
    /\ KeysInOrder \in BOOLEAN
    /\ MaxFaults \in Nat

VARIABLES
    mode, is_running,
    bucket,             \* the keys that exist
    queue,              \* the state of each message in SQS
    delivery,           \* the message a receipt was given out for
    \* discovery
    dpc,                \* where the discovery task is
    page,               \* keys of the list response, or records of the message, to dispatch
    more,               \* the last key of the page if there is another page
    received,           \* receipts of the received messages that are not dispatched yet
    current,            \* the receipt that is dispatched
    start_after,
    dispatched, completed_set, in_flight, failure_counts,
    in_progress,        \* receipts that get heartbeats
    remaining, successes,   \* MessageTracker of each receipt
    \* the channels and the orchestrator
    work, completed,
    held,               \* the work that waits for a permit of the semaphore
    fetching_keys,
    task,               \* the fetch of each key
    out,                \* chunks in the output channel
    \* ghosts
    open,               \* chunks of each key since its last end of file
    fetched,            \* keys that were streamed to their end
    given_up,           \* keys that failed too often
    skipped,            \* keys that were counted as a success because they were being fetched
    faults

queueVars == <<queue, delivery>>
listVars == <<start_after, dispatched, completed_set, in_flight, failure_counts>>
discoveryVars == <<dpc, page, more, received, current>>
trackerVars == <<in_progress, remaining, successes>>
fetchVars == <<held, fetching_keys, task>>
streamVars == <<out, open, fetched>>
vars == <<mode, is_running, bucket, queueVars, discoveryVars, listVars, trackerVars, work,
          completed, fetchVars, streamVars, given_up, skipped, faults>>

-----------------------------------------------------------------------------

NoTask == [pc |-> "none", receipt |-> None, attempt |-> 0, sent |-> 0]
Work(k, r) == [key |-> k, receipt |-> r]
Fault == faults < MaxFaults /\ faults' = faults + 1

Ascending(S) ==
    CHOOSE s \in [1 .. Cardinality(S) -> S] : \A i, j \in DOMAIN s : i < j => s[i] < s[j]
Members(s) == {s[i] : i \in DOMAIN s}

Busy(r) ==
    \/ r \in received \cup in_progress \cup {current}
    \/ \E i \in DOMAIN work : work[i].receipt = r
    \/ held # None /\ held.receipt = r
    \/ \E k \in Keys : task[k].receipt = r

-----------------------------------------------------------------------------
(* The bucket and the queue.                                               *)

(* Objects are put into the bucket; in SQS mode a notification follows.    *)
Put(S) ==
    /\ S \cap bucket = {}
    /\ KeysInOrder => \A k \in S, j \in bucket : j < k
    /\ bucket' = bucket \cup S

PutObject(k) ==
    /\ mode = "list"
    /\ Put({k})
    /\ UNCHANGED <<mode, is_running, queueVars, discoveryVars, listVars, trackerVars, work,
                   completed, fetchVars, streamVars, given_up, skipped, faults>>

Notify(m) ==
    /\ mode = "sqs"
    /\ queue[m] = "unsent"
    /\ queue' = [queue EXCEPT ![m] = "visible"]
    /\ bucket' = bucket \cup m
    /\ UNCHANGED <<mode, is_running, delivery, discoveryVars, listVars, trackerVars, work,
                   completed, fetchVars, streamVars, given_up, skipped, faults>>

(* The visibility timeout passes: at any time for a message without        *)
(* heartbeats, otherwise because a heartbeat failed or came too late.      *)
Expire(m) ==
    /\ queue[m] = "hidden"
    /\ queue' = [queue EXCEPT ![m] = "visible"]
    /\ IF \E r \in in_progress : delivery[r] = m THEN Fault ELSE UNCHANGED faults
    /\ UNCHANGED <<mode, is_running, bucket, delivery, discoveryVars, listVars, trackerVars,
                   work, completed, fetchVars, streamVars, given_up, skipped>>

(* delete_message: the request may fail, and a receipt of an earlier       *)
(* delivery need not delete the message.                                   *)
DeleteMessage(r) ==
    \/ queue' = [queue EXCEPT ![delivery[r]] = "deleted"] /\ UNCHANGED faults
    \/ Fault /\ UNCHANGED queue

-----------------------------------------------------------------------------
(* run_sqs_discovery.                                                      *)

ReceiveMessages(ms) ==
    /\ mode = "sqs" /\ is_running
    /\ dpc = "list" /\ received = {}
    /\ ms # {} /\ \A m \in ms : queue[m] = "visible"
    /\ \E rs \in SUBSET {r \in Receipts : ~Busy(r)} :
          /\ Cardinality(rs) = Cardinality(ms)
          /\ \E f \in [rs -> ms] :
                /\ \A m \in ms : \E r \in rs : f[r] = m
                /\ delivery' = [r \in Receipts |-> IF r \in rs THEN f[r] ELSE delivery[r]]
          /\ received' = rs
    /\ queue' = [m \in Messages |-> IF m \in ms THEN "hidden" ELSE queue[m]]
    /\ UNCHANGED <<mode, is_running, bucket, dpc, page, more, current, listVars, trackerVars, work,
                   completed, fetchVars, streamVars, given_up, skipped, faults>>

(* The next received message: registered for heartbeats, then dispatched;  *)
(* one without records is deleted at once.                                 *)
TakeMessage(r) ==
    /\ mode = "sqs" /\ dpc = "list" /\ r \in received
    /\ received' = received \ {r}
    /\ \/ /\ delivery[r] = {}
          /\ DeleteMessage(r)
          /\ UNCHANGED <<dpc, page, current, trackerVars>>
       \/ /\ delivery[r] # {}
          /\ dpc' = "page" /\ current' = r
          /\ page' = Ascending(delivery[r])
          /\ in_progress' = in_progress \cup {r}
          /\ remaining' = [remaining EXCEPT ![r] = Cardinality(delivery[r])]
          /\ successes' = [successes EXCEPT ![r] = 0]
          /\ UNCHANGED <<queue, faults>>
    /\ UNCHANGED <<mode, is_running, bucket, delivery, more, listVars, work, completed, fetchVars,
                   streamVars, given_up, skipped>>

SendRecord ==
    /\ mode = "sqs" /\ dpc = "page"
    /\ Len(work) < WorkBound
    /\ work' = Append(work, Work(Head(page), current))
    /\ page' = Tail(page)
    /\ dpc' = IF Len(page) = 1 THEN "list" ELSE "page"
    /\ current' = IF Len(page) = 1 THEN None ELSE current
    /\ UNCHANGED <<mode, is_running, bucket, queueVars, more, received, listVars, trackerVars,
                   completed, fetchVars, streamVars, given_up, skipped, faults>>

-----------------------------------------------------------------------------
(* run_list_discovery.                                                     *)

(* list_objects_v2 from the cursor, or from the end of the last page.      *)
ListObjects ==
    /\ mode = "list" /\ is_running /\ dpc = "list"
    /\ LET from == IF more = 0 THEN start_after ELSE more
           keys == Ascending({k \in bucket : k > from})
       IN  /\ page' = SubSeq(keys, 1, IF Len(keys) < PageSize THEN Len(keys) ELSE PageSize)
           /\ more' = IF Len(keys) > PageSize THEN keys[PageSize] ELSE 0
    /\ dpc' = "page"
    /\ UNCHANGED <<mode, is_running, bucket, queueVars, received, current, listVars, trackerVars,
                   work, completed, fetchVars, streamVars, given_up, skipped, faults>>

(* The request fails: the cycle ends, the next one begins at the cursor.   *)
ListFails ==
    /\ mode = "list" /\ is_running /\ dpc = "list"
    /\ more # 0
    /\ more' = 0
    /\ UNCHANGED <<mode, is_running, bucket, queueVars, dpc, page, received, current, listVars,
                   trackerVars, work, completed, fetchVars, streamVars, given_up, skipped, faults>>

(* The next key of the page: skipped while it is in flight; a failed key   *)
(* is dispatched again in its old place.                                   *)
TakeKey ==
    /\ mode = "list" /\ dpc = "page" /\ page # <<>>
    /\ LET k == Head(page)
       IN  \/ k \in in_flight /\ page' = Tail(page) /\ UNCHANGED <<dpc, dispatched, in_flight>>
           \/ /\ k \notin in_flight
              /\ dispatched' = IF k \in Members(dispatched) THEN dispatched
                               ELSE Append(dispatched, k)
              /\ in_flight' = in_flight \cup {k}
              /\ dpc' = "permit" /\ UNCHANGED page
    /\ UNCHANGED <<mode, is_running, bucket, queueVars, more, received, current, start_after,
                   completed_set, failure_counts, trackerVars, work, completed, fetchVars,
                   streamVars, given_up, skipped, faults>>

(* One completion, received while the work channel may be full or at the   *)
(* end of a page.                                                          *)
DrainCompletion ==
    /\ mode = "list"
    /\ dpc = "permit" \/ (dpc = "page" /\ page = <<>>)
    /\ completed # <<>>
    /\ completed' = Tail(completed)
    /\ LET k == Head(completed).key
           count == failure_counts[k] + 1
       IN  IF Head(completed).success
           THEN /\ completed_set' = completed_set \cup {k}
                /\ UNCHANGED <<failure_counts, in_flight, given_up>>
           ELSE /\ failure_counts' = [failure_counts EXCEPT ![k] = count]
                /\ IF count >= MaxKeyFailures
                   THEN /\ completed_set' = completed_set \cup {k}
                        /\ given_up' = given_up \cup {k}
                        /\ UNCHANGED in_flight
                   ELSE /\ in_flight' = in_flight \ {k}
                        /\ UNCHANGED <<completed_set, given_up>>
    /\ UNCHANGED <<mode, is_running, bucket, queueVars, discoveryVars, start_after, dispatched,
                   trackerVars, work, fetchVars, streamVars, skipped, faults>>

SendKey ==
    /\ mode = "list" /\ dpc = "permit"
    /\ Len(work) < WorkBound
    /\ work' = Append(work, Work(Head(page), None))
    /\ page' = Tail(page)
    /\ dpc' = "page"
    /\ UNCHANGED <<mode, is_running, bucket, queueVars, more, received, current, listVars,
                   trackerVars, completed, fetchVars, streamVars, given_up, skipped, faults>>

(* Mutation: the cursor goes to the last completed key.                    *)
ContiguousLast ==
    CHOOSE n \in 0 .. Len(dispatched) :
        /\ n > 0 => dispatched[n] \in completed_set
        /\ \A i \in (n + 1) .. Len(dispatched) : dispatched[i] \notin completed_set

(* The dispatched keys in front of the first one that is not completed.    *)
Contiguous ==
    CHOOSE n \in 0 .. Len(dispatched) :
        /\ \A i \in 1 .. n : dispatched[i] \in completed_set
        /\ n < Len(dispatched) => dispatched[n + 1] \notin completed_set

(* The end of a page, with all completions drained: the cursor advances    *)
(* over the completed prefix, and the next page or cycle begins.           *)
EndPage ==
    /\ mode = "list" /\ dpc = "page" /\ page = <<>>
    /\ completed = <<>>
    /\ LET past == {dispatched[i] : i \in 1 .. Contiguous}
       IN  /\ start_after' = IF Contiguous = 0 THEN start_after ELSE dispatched[Contiguous]
           /\ dispatched' = SubSeq(dispatched, Contiguous + 1, Len(dispatched))
           /\ completed_set' = completed_set \ past
           /\ in_flight' = in_flight \ past
           /\ failure_counts' = [k \in Keys |-> IF k \in past THEN 0 ELSE failure_counts[k]]
    /\ dpc' = "list"
    /\ UNCHANGED <<mode, is_running, bucket, queueVars, page, more, received, current, trackerVars,
                   work, completed, fetchVars, streamVars, given_up, skipped, faults>>

Discovery ==
    \/ \E ms \in SUBSET Messages : ReceiveMessages(ms)
    \/ \E r \in Receipts : TakeMessage(r)
    \/ SendRecord
    \/ ListObjects \/ ListFails \/ TakeKey \/ DrainCompletion \/ SendKey \/ EndPage

-----------------------------------------------------------------------------
(* run_orchestrator.                                                       *)

(* Mutation: any success is enough.                                        *)
AllSucceededOnce(r, n) == n > 0

(* remaining.fetch_sub(1): the last record ends the heartbeats, and the    *)
(* message is deleted if every record succeeded.                           *)
Finished(r) == remaining[r] = 1
AllSucceeded(r, n) == n = Cardinality(delivery[r])

(* Mutation: the tracker does not hear of the skipped record.              *)
SkipDuplicateSilently ==
    /\ is_running /\ held = None /\ work # <<>>
    /\ Head(work).key \in fetching_keys
    /\ work' = Tail(work)
    /\ UNCHANGED <<mode, is_running, bucket, queueVars, discoveryVars, listVars, trackerVars,
                   completed, fetchVars, streamVars, given_up, skipped, faults>>

(* A key that is being fetched: the work is dropped and counts as success. *)
SkipDuplicate ==
    /\ is_running /\ held = None /\ work # <<>>
    /\ Head(work).key \in fetching_keys
    /\ work' = Tail(work)
    /\ LET r == Head(work).receipt
       IN  IF r = None
           THEN UNCHANGED <<queue, trackerVars, skipped, faults>>
           ELSE /\ successes' = [successes EXCEPT ![r] = @ + 1]
                /\ remaining' = [remaining EXCEPT ![r] = @ - 1]
                /\ in_progress' = IF Finished(r) THEN in_progress \ {r} ELSE in_progress
                /\ skipped' = skipped \cup {Head(work).key}
                /\ IF Finished(r) /\ AllSucceeded(r, successes[r] + 1)
                   THEN DeleteMessage(r)
                   ELSE UNCHANGED <<queue, faults>>
    /\ UNCHANGED <<mode, is_running, bucket, delivery, discoveryVars, listVars, completed,
                   fetchVars, streamVars, given_up>>

AcceptWork ==
    /\ is_running /\ held = None /\ work # <<>>
    /\ Head(work).key \notin fetching_keys
    /\ work' = Tail(work)
    /\ fetching_keys' = fetching_keys \cup {Head(work).key}
    /\ held' = Head(work)
    /\ UNCHANGED <<mode, is_running, bucket, queueVars, discoveryVars, listVars, trackerVars,
                   completed, task, streamVars, given_up, skipped, faults>>

(* A permit of the semaphore is free: the fetch task is spawned.           *)
SpawnFetch ==
    /\ held # None
    /\ Cardinality({k \in Keys : task[k].pc # "none"}) < MaxObjects
    /\ task' = [task EXCEPT ![held.key] =
                   [pc |-> "fetch", receipt |-> held.receipt, attempt |-> 1, sent |-> 0]]
    /\ held' = None
    /\ UNCHANGED <<mode, is_running, bucket, queueVars, discoveryVars, listVars, trackerVars, work,
                   completed, fetching_keys, streamVars, given_up, skipped, faults>>

Orchestrator == SkipDuplicate \/ AcceptWork \/ SpawnFetch

-----------------------------------------------------------------------------
(* The fetch task of a key, fetch_object and fetch_parallel_stream.        *)

taskQuiet == <<mode, is_running, bucket, delivery, discoveryVars, listVars, work, held, given_up,
               skipped>>

Goto(k, pc) == task' = [task EXCEPT ![k].pc = pc]

SendChunk(k) ==
    /\ is_running
    /\ task[k].pc = "fetch" /\ task[k].sent < Chunks
    /\ out < OutBound
    /\ out' = out + 1
    /\ open' = [open EXCEPT ![k] = @ + 1]
    /\ task' = [task EXCEPT ![k].sent = @ + 1]
    /\ UNCHANGED <<taskQuiet, queue, trackerVars, completed, fetching_keys, fetched, faults>>

(* The end of the object: the trailing end-of-file marker.                 *)
SendEof(k) ==
    /\ is_running
    /\ task[k].pc = "fetch" /\ task[k].sent = Chunks
    /\ out < OutBound
    /\ out' = out + 1
    /\ open' = [open EXCEPT ![k] = 0]
    /\ fetched' = fetched \cup {k}
    /\ Goto(k, "succeeded")
    /\ UNCHANGED <<taskQuiet, queue, trackerVars, completed, fetching_keys, faults>>

(* The next attempt after a backoff, or the end of the attempts.           *)
NextAttempt(k) ==
    LET t == task[k]
    IN  task' = [task EXCEPT ![k] =
                    IF t.attempt < MaxFetchAttempts
                    THEN [t EXCEPT !.attempt = t.attempt + 1, !.sent = 0]
                    ELSE [t EXCEPT !.pc = "failed", !.sent = 0]]

(* Mutation: the next attempt follows the chunks of the failed one.        *)
FetchFailsWithoutEof(k) ==
    /\ is_running
    /\ task[k].pc = "fetch"
    /\ Fault
    /\ NextAttempt(k)
    /\ UNCHANGED <<taskQuiet, queue, trackerVars, completed, fetching_keys, streamVars>>

(* A request or a part of the body fails: an end-of-file marker closes the *)
(* chunks sent so far.                                                     *)
FetchFails(k) ==
    /\ is_running
    /\ task[k].pc = "fetch"
    /\ Fault
    /\ \/ task[k].sent = 0 /\ UNCHANGED <<out, open>>
       \/ /\ task[k].sent > 0
          /\ out < OutBound
          /\ out' = out + 1
          /\ open' = [open EXCEPT ![k] = 0]
    /\ NextAttempt(k)
    /\ UNCHANGED <<taskQuiet, queue, trackerVars, completed, fetching_keys, fetched>>

(* After Drop the channel is closed: a chunk cannot be sent any more, and  *)
(* a missing trailing marker goes unnoticed.                               *)
ChannelClosed(k) ==
    /\ ~is_running
    /\ task[k].pc = "fetch"
    /\ IF task[k].sent < Chunks THEN NextAttempt(k) ELSE Goto(k, "succeeded")
    /\ fetched' = IF task[k].sent < Chunks THEN fetched ELSE fetched \cup {k}
    /\ UNCHANGED <<taskQuiet, queue, trackerVars, completed, fetching_keys, out, open, faults>>

(* The outcome goes to the tracker and, in list mode, to the discovery.    *)
Report(k) ==
    /\ task[k].pc \in {"succeeded", "failed"}
    /\ LET r == task[k].receipt
           ok == task[k].pc = "succeeded"
       IN  /\ successes' = IF r # None /\ ok THEN [successes EXCEPT ![r] = @ + 1] ELSE successes
           /\ \/ mode = "sqs" /\ UNCHANGED completed
              \/ /\ mode = "list" /\ Len(completed) < WorkBound
                 /\ completed' = Append(completed, [key |-> k, success |-> ok])
    /\ Goto(k, "settle")
    /\ UNCHANGED <<taskQuiet, queue, in_progress, remaining, fetching_keys, streamVars, faults>>

Settle(k) ==
    /\ task[k].pc = "settle"
    /\ LET r == task[k].receipt
       IN  IF r = None
           THEN Goto(k, "unlock") /\ UNCHANGED <<remaining, in_progress>>
           ELSE /\ remaining' = [remaining EXCEPT ![r] = @ - 1]
                /\ in_progress' = IF Finished(r) THEN in_progress \ {r} ELSE in_progress
                /\ Goto(k, IF Finished(r) /\ AllSucceeded(r, successes[r])
                           THEN "delete" ELSE "unlock")
    /\ UNCHANGED <<taskQuiet, queue, successes, completed, fetching_keys, streamVars, faults>>

DeleteAfterFetch(k) ==
    /\ task[k].pc = "delete"
    /\ DeleteMessage(task[k].receipt)
    /\ Goto(k, "unlock")
    /\ UNCHANGED <<taskQuiet, trackerVars, completed, fetching_keys, streamVars>>

(* The key leaves fetching_keys and the permit is released.                *)
Unlock(k) ==
    /\ task[k].pc = "unlock"
    /\ fetching_keys' = fetching_keys \ {k}
    /\ task' = [task EXCEPT ![k] = NoTask]
    /\ UNCHANGED <<taskQuiet, queue, trackerVars, completed, streamVars, faults>>

FetchTask(k) ==
    \/ SendChunk(k) \/ SendEof(k) \/ FetchFails(k) \/ ChannelClosed(k)
    \/ Report(k) \/ Settle(k) \/ DeleteAfterFetch(k) \/ Unlock(k)

(* S3Input::poll hands the chunks over to the pipeline.                    *)
Poll ==
    /\ is_running /\ out > 0
    /\ out' = 0
    /\ UNCHANGED <<mode, is_running, bucket, queueVars, discoveryVars, listVars, trackerVars, work,
                   completed, fetchVars, open, fetched, given_up, skipped, faults>>

(* The input is dropped: the receiver is closed and the tasks run out.     *)
Drop ==
    /\ is_running
    /\ is_running' = FALSE
    /\ out' = 0
    /\ UNCHANGED <<mode, bucket, queueVars, discoveryVars, listVars, trackerVars, work, completed,
                   fetchVars, open, fetched, given_up, skipped, faults>>

Init ==
    /\ mode \in Modes /\ is_running = TRUE
    /\ bucket = {}
    /\ queue = [m \in Messages |-> "unsent"]
    /\ delivery = [r \in Receipts |-> None]
    /\ dpc = "list" /\ page = <<>> /\ more = 0 /\ received = {} /\ current = None
    /\ start_after = 0 /\ dispatched = <<>> /\ completed_set = {} /\ in_flight = {}
    /\ failure_counts = [k \in Keys |-> 0]
    /\ in_progress = {}
    /\ remaining = [r \in Receipts |-> 0] /\ successes = [r \in Receipts |-> 0]
    /\ work = <<>> /\ completed = <<>> /\ held = None /\ fetching_keys = {}
    /\ task = [k \in Keys |-> NoTask]
    /\ out = 0 /\ open = [k \in Keys |-> 0] /\ fetched = {}
    /\ given_up = {} /\ skipped = {} /\ faults = 0

Next ==
    \/ \E k \in Keys : PutObject(k) \/ FetchTask(k)
    \/ \E m \in Messages : Notify(m) \/ Expire(m)
    \/ Discovery
    \/ Orchestrator
    \/ Poll
    \/ Drop

Spec == Init /\ [][Next]_vars

-----------------------------------------------------------------------------
(* Properties.                                                             *)

(* The type of the state.                                                  *)
TypeOK ==
    /\ bucket \subseteq Keys
    /\ queue \in [Messages -> {"unsent", "visible", "hidden", "deleted"}]
    /\ received \subseteq Receipts /\ in_progress \subseteq Receipts
    /\ start_after \in Keys \cup {0}
    /\ Members(dispatched) \cup completed_set \cup in_flight \cup fetching_keys \subseteq Keys
    /\ Len(work) <= WorkBound /\ Len(completed) <= WorkBound
    /\ \A r \in in_progress : remaining[r] <= Cardinality(delivery[r])
    /\ out \in 0 .. OutBound
    /\ Cardinality({k \in Keys : task[k].pc # "none"}) <= MaxObjects

(* The chunks of an object reach the framer as one stream per attempt: no  *)
(* chunk of another attempt, or of a duplicate, follows before the end of  *)
(* file that closes the last one.                                          *)
StreamsSeparate ==
    \A k \in Keys :
       is_running /\ open[k] > 0 => task[k].pc = "fetch" /\ task[k].sent = open[k]

(* A message is deleted only when each of its objects was streamed to its  *)
(* end or was skipped as the duplicate of a fetch in progress.             *)
DeletedIsSettled ==
    \A m \in Messages : queue[m] = "deleted" => m \subseteq fetched \cup skipped

(* "The message is only deleted when all records are successfully          *)
(* processed."                                                             *)
DeletedIsFetched ==
    \A m \in Messages : queue[m] = "deleted" =>
       \A k \in m : k \in fetched \/ k \in fetching_keys

(* A message gets heartbeats exactly as long as one of its records is on   *)
(* its way: until the last one is settled, and no failure, skip or partial *)
(* dispatch keeps it hidden after that.                                    *)
HeartbeatWhileWorked ==
    \A r \in Receipts :
       r \in in_progress <=>
          \/ r = current
          \/ \E i \in DOMAIN work : work[i].receipt = r
          \/ held # None /\ held.receipt = r
          \/ \E k \in Keys : task[k].receipt = r /\ task[k].pc \in {"fetch", "succeeded", "failed", "settle"}

(* The cursor of the list mode passes a key only when it was streamed to   *)
(* its end or has failed too often, whatever order the fetches end in.     *)
CursorCovers ==
    \A k \in bucket : k <= start_after => k \in fetched \cup given_up

(* "advances a `start_after` cursor to avoid re-processing objects": it    *)
(* never goes back.                                                        *)
CursorAdvances == [][start_after' >= start_after]_vars

(* A key that is kept from being listed again is on its way to a           *)
(* completion.                                                             *)
InFlightIsWorked ==
    \A k \in in_flight :
       \/ k \in completed_set
       \/ dpc = "permit" /\ Head(page) = k
       \/ \E i \in DOMAIN work : work[i].key = k
       \/ \E i \in DOMAIN completed : completed[i].key = k
       \/ held # None /\ held.key = k
       \/ task[k].pc \in {"fetch", "succeeded", "failed"}
=============================================================================
