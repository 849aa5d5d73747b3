# A TLA+ verification of FastForward

FastForward reads log lines from inputs, scans and transforms them into Arrow
batches, and delivers the batches to outputs.  It promises *at-least-once*
delivery: after a crash at any moment it continues from checkpoints that cover
nothing that was not dealt with.  This project models the parts of the program
that carry that promise, from the tailed file to the bulk request, together with
the control plane that replaces pipelines while they run.  TLC checks the models
on small instances; TLAPS proves the invariants of the batch lifecycle for every
instance.  Paths are relative to `src/` (and to `src/crates/` where they begin
with `ffwd`); `PROJECT.json` maps every definition to the lines it models and
lists the hazards one by one, at their lines.

## 1. Inventory

| component | state | operations | talks to |
|---|---|---|---|
| **Batch lifecycle machine** `ffwd-types/src/pipeline/{lifecycle,batch}.rs` | next batch id; per source: in-flight batches, buffered acks, committed checkpoint; tickets held by callers | `create_batch`, `begin_send`, `ack`/`reject`/`fail`, `apply_ack`, `begin_drain`, `stop`, `force_stop` | owned by the coordinator |
| **Input threads** `ffwd-runtime/src/pipeline/{io_worker,cpu_worker,input_pipeline}.rs` | read buffer, queue I/O -> CPU worker, batch being sent | poll, flush, scan + transform, blocking send, exit | channel to the coordinator |
| **Coordinator** `ffwd-runtime/src/pipeline/{run,submit}.rs` | machine, held tickets, store, flush throttle | biased select loop, `submit_batch`, `apply_pool_ack`, `ack_all_tickets`, shutdown sequence | all others |
| **Checkpoint store** `ffwd-io/src/{checkpoint,atomic_write}.rs` | checkpoints in memory and in a file | `update`, `flush`, `open` | coordinator, inputs at start |
| **Output worker pool** `ffwd-runtime/src/worker_pool/` | handles in most-recently-used order, one-slot channel per worker, cancellation token | `submit`, `worker_task`, `process_item`, `drain` | coordinator, sinks |
| **Framing** `ffwd-io/src/framed.rs`, `ffwd-core/src/checkpoint_tracker.rs` | per source: remainder, decoder, tracker, taint | `process_raw_events`, `checkpoint_data` | I/O worker |
| **File tailing** `ffwd-io/src/tail/` | open and evicted files, offsets, fingerprints, idle states, error backoff | `poll`, `poll_shutdown`, rotate, truncate, evict, end of file, restore | feeds framing |
| **S3 input** `ffwd-io/src/s3_input/` | list cursor, in-flight keys, message trackers, fetch tasks, channels | list, receive, dispatch, fetch with retries, delete, heartbeat, `poll`, `Drop` | S3, SQS, framing |
| **HTTP receivers** `ffwd-io/src/{otlp_receiver,arrow_ipc_receiver,http_input,...}` | handlers, channel, reservation counter, health | handle a request, `poll`, `Drop` | clients, blocking stage |
| **Bounded blocking stage** `ffwd-io/src/blocking_stage.rs` | outstanding jobs, a queue per worker | `try_submit`, worker loop, `Drop` | OTLP receiver |
| **Scanner** `ffwd-core/src/{structural,json_scanner}.rs` | two carries, bitmasks, line ranges | block classification, scan of a line | builder |
| **Arrow builders** `ffwd-arrow/src/streaming_builder/`, `ffwd-arrow/src/columnar/` | column slots kept over batches, duplicate marks | `begin_batch`, `begin_row`, `resolve_field`, append, finish | scanner |
| **Fanout and sinks** `ffwd-output/src/{sink,pipelined}.rs`, `ffwd-output/src/elasticsearch/` | state per child; buffer pool and writer thread; pending rows | `begin_batch`, `send_batch`, `shutdown` | inside a pool worker |
| **Reload loop** `ffwd-runtime/src/{reload,bootstrap}.rs`, `ffwd-config/src/diff.rs` | coordinator state, running and pending configuration, reload channel | trigger, drain, validate, build, commit, persist, exit | pipelines, OpAMP client |
| **Supervisor, OpAMP client** `ffwd/src/{supervisor,config_flow}.rs`, `ffwd-opamp/` | child process, one-slot reload request, effective configuration | spawn, signal, back off, apply a pushed configuration | the reload loop in the child |
| Health reducers, source registry, UDP/TCP/journald, SQL transform, codecs, configuration, diagnostics, CLI | data | parsing, encoding, I/O | - |

What is hard in this system, and the properties that answer it:

* **Acks out of order**, over several workers and sources: `NoStrandedAck`,
  `CommitsInOrder`, `ImplementsOrderedCommit`.
* **Tickets are affine, not linear**: a dropped ticket must stay in flight:
  `InFlightUntilApplied`, `CleanStopIsComplete`, `TicketsAccountedFor`.
* **Crashes and failed flushes** between ack, in-memory store, throttled flush
  and file: `DurableCovered`, `DurableNeverRegresses`.
* **Lines cut by reads, buffers and ends of file**: `CheckpointAtBoundary`,
  `NoGarbledFragment`, `BytesAccountedFor`.
* **A file system that changes during a poll**: rotation, copytruncate, reuse of
  an inode, an open-file limit: `OffsetCovered`, `LossOnlyAtClose`,
  `ShutdownFlushes`, `CatchesUp`.
* **At-least-once services**: SQS redelivers, fetches fail half-way, list pages
  complete out of order: `StreamsSeparate`, `DeletedIsSettled`,
  `HeartbeatWhileWorked`, `CursorCovers`.
* **Shutdown through full queues**: `ShutdownCompletes`, `CleanStopCoversReads`.
* **Workers that come and go**, in the pool and in the blocking stage:
  `ItemsConserved`, `SinksBounded`, `DrainCompletes`, `SubmitReturns`,
  `CountersExact`, `NoHandlerStranded`, `HandlersFinish`.
* **A batch that only part of the destinations, or of the rows, accepted**:
  `AcceptedOnce`, `OutcomeSpeaksForAll`, `RowsAccountedFor`, `BatchSettles`,
  and for requests `AnswerTellsOutcome`.
* **Reloads, pushes, build failures and signals in any order**: `RunsItsConfig`,
  `LoopIsSound`, `TriggerRereads`, `ReloadSettles`, `ChildComesBack`, `TermStops`.
* **State carried from block to block and from batch to batch** in the scanner
  and its builder: `MasksMatchBytes`, `ScanKeepsFields`.

## 2. Modules

```
BatchTracking               tracking of one source
  |-- PipelineMachine       the lifecycle machine           PipelineMachineProofs
  |     `-- OrderedCommit     (abstract) committed = longest acked prefix
  `-- PipelineRun           inputs, coordinator, store      PipelineRunProofs    MCPipelineRun
WorkerPool                  dispatch, workers, drain        WorkerPoolProofs
FramedInput                 framing, CRI, checkpoints       FileInputProofs
FileTail                    tailer and file system          FileInputProofs
S3Input                     discovery, orchestrator, tasks  S3InputProofs
BlockingStage               decoder threads
  `-- Receivers             OTLP, Arrow IPC, HTTP inputs    ReceiversProofs
StructuralIndex, StreamingBuilder
  `-- JsonScanner           buffers to tables                                    MCJsonScanner
BulkSink                    splits and pending rows
  `-- OutputSinks           process_item over a fanout      OutputSinksProofs
ReloadLoop                  one process, its configuration
  `-- Supervisor            the supervisor above it         SupervisorProofs
```

An `MC` module only names instances.  A definition whose comment
begins with "Mutant of" or "Mutation:" is never used by a specification: it is a
plausible bug that some property must catch.

### BatchTracking, PipelineMachine, OrderedCommit

`SourceTracking` is the state the three maps of `PipelineMachine<S, C>` have
for one source.  The maps keyed by source are total functions here: a source
whose inner map the code removed has the empty function.  `RecordAckAndAdvance`
is `record_ack_and_advance`.  Its loop takes the lowest buffered ack as long as
nothing below it is in flight; `Contiguous` is the set it consumes, and the
last one consumed stays in `committed`.

`PipelineMachine` has one action per method.  The typestate marker of the code
is `phase`; the tickets that callers own, and the receipts into which `ack` and
`reject` turn them, are `tickets`; `Drop` is a ticket or receipt that goes out
of scope.  `stop` and `force_stop` consume the machine, so nothing happens after
"Stopped" except to tickets.  `Checkpoints` and `Sources` are opaque.  `Spec`
admits every caller that goes through the methods of the machine; that
`BatchTicket<Queued>::begin_send` is public as well (`batch.rs:139`), so that a
caller could turn a ticket into one being sent without telling the machine, is
left out (the runtime has no such caller).  `InOrderSpec` admits only callers that
begin to send the tickets of a source in the order of their ids, which the only
caller in the runtime, `submit_batch`, does: it creates and begins all tickets
of a batch in one go.  The restriction is needed: a caller that begins an older
ticket after a newer one was committed moves the checkpoint back.

`OrderedCommit` is the contract: batches are sent in order, acknowledged in any
order, and `committed` is the checkpoint of the last batch of the longest
acknowledged prefix.

### PipelineRun

One pipeline.  A source is a sequence of units, a checkpoint the number of
units it covers, a batch an interval of units for each source of its input.
`IoPoll`, `IoFlush`, `IoExit`, `CpuProcess`, `CpuDrop`, `CpuSend`, `CpuExit` are
the two threads of an input; `AckArm` ... `ClosedArm` the arms of the biased
select of `run_async` (an arm is enabled only if those above it have nothing);
`DrainChannel` ... `StopMachine` the code after the loop in its order.
`SubmitBatch` is `submit_batch` up to `pool.submit`, an await during which the
coordinator does nothing else (`submitting`).  `Restart` is a crash, or the end
of a run, followed by a start from the file.  `DropRun` is the loss of the
future of `run_async` when bootstrap takes a reload or shutdown while it waits
for the last pipeline (`LastPipeline`).  `settled`, `skipped`, `parked` and
`dropped` are ghosts that only properties read.

Simplifications, all of them of data:
* Only file inputs report checkpoints, and they use the buffered read path, in
  which a flush happens after all events of a poll; hence "the checkpoint of a
  chunk is everything read".  What framing subtracts from it is the subject of
  `FramedInput`.
* The tickets of one batch are for distinct sources and ids are compared only
  within a source, so they share one id.
* The pool appears as its users see it: it accepts up to `PoolCapacity` items,
  answers in any order, refuses one itself (`PoolRefuse`), or loses one
  (`PoolLose`, which `WorkerPool` shows to happen).
* `store.flush` fails before or after the rename (`FlushResults`).  A corrupt
  checkpoint file, which makes the store start afresh, is left out: the write is
  atomic.
* `DrainIngress` and `Reconfigure` do nothing in the code; the heartbeat and the
  cascading flush of stateful processors only log what they produce.
* The 30 s after which bootstrap aborts a pipeline and the supervisor kills the
  process are outside `run_async`; to this model they are a crash.

### WorkerPool

`submit` is split at every `try_send` because workers run concurrently:
`TrySend` (promote on success, next on full, prune on closed), `SpawnWorker`,
`WaitOnFront`/`WaitSend`, `NoWorkersAvailable`.  A factory that fails is the
choice of `WaitOnFront` or `NoWorkersAvailable` below the limit.  A worker is
receiving, sending, backing off, closing its sink, or gone; its channel is
closed only when the task ends, so `Leave` drops what arrived while it was
closing.  The selects of the worker are biased on the cancellation token.
`DrainSignal`, `DrainJoined`, `DrainTimeout`, `DrainAbort` are the phases of
`drain`.  `lost` is a ghost.  What a worker does with one item in detail is
`OutputSinks`.

### FramedInput

The framing of one tailed file and the checkpoint it yields.  `source` is the
`SourceState` of the file (remainder, decoder, tracker, taint), or `None` when
the map has no entry; `offset` is the read position of the tailer.  `Data` is the
`Data` event of `process_raw_events_into`, the path of file inputs; `EndOfFile`
its end-of-file event, after which the state is reclaimed if nothing is pending;
`Truncated` both the truncation and the rotation event.  `Checkpoint` is what
`checkpoint_data` reports; `Persist` writes it after everything emitted so far
was delivered (that the pipeline does not write it earlier is `DurableCovered` of
`PipelineRun`); `Restart` is a crash.  `emitted`, `discarded` and `cuts` are
ghosts.

* A byte is known by its place in the file and by whether it is a newline, text,
  or the header of a full or partial CRI line.  A header, which is some tens of
  bytes in the code, counts as one.
* The zero-copy path for chunks without remainder and the general path do the
  same to the state and are one definition, `Read`.
* The map of sources is only accessed at the source of the event, so one source
  is modelled.
* A truncated or replaced file is taken to have another fingerprint than the one
  in the checkpoint file.
* `apply_checkpoint` and `apply_restart` of the tracker have no caller in the
  runtime and are left out; the files in `framed/` are not compiled.

### FileTail

The tailer below the framing, with the file system as its environment.  A poll is
a sequence of visits: `Rescan` (glob and opening of new paths), `Detect`
(rotation by identity and fingerprint, change detection), `ReadAll` (one budgeted
read per file, truncation), `Cleanup` (deleted files, eviction), `PollEnds` (end
of file, error backoff).  Between any two visits `Create`, `WriterAppends`,
`Move` (rename or deletion) and `Truncate` change the file system, and a system call
may fail (`Fail`).  A handle has the `offset` of the code and the `cursor` of the
descriptor, at which it really reads.  `ReadNewData` is `read_new_data` when
nothing fails; `FailedReads` has its error returns with the handle each leaves
behind: unchanged, begun again without a `Truncated` event, set back, set back in
the offset only, or with the offset behind bytes that were read and dropped
because the fingerprint could not be taken again.  `strayed` are the inodes for
which one of these left the offset or the cursor wrong.  A drain that fails inside
`Rotate` or `Cleanup` takes the handle with it, and an open that fails may have
used up the evicted entry (`NotOpened`).  `CheckpointOffsets` is `file_offsets` written by the pipeline,
`RestartTailer` a crash followed by `set_offset_by_source`.  Bytes are numbers never written
twice, so a fingerprint is the prefix it hashes and an inode may be used again.
`owed` (written within reach, not delivered), `unflushed`, `abandoned`, `unseen`
and `raced` are ghosts.  Bytes that another process truncates away before they
are read are nobody's to deliver; an offset of a file truncated while a poll ran
is excepted in `OffsetCovered` (`raced`), because between `stat` and `read` no
reader can see it; so is one that a failed read left wrong (`strayed`), which is the
counterexample `FailedReadSkipsNothing` of section 4.

Ages, idle windows and timers are any choice.  The backoff and whether a poll yielded
data are kept only where something asks for them: the backoff by `poll`, the data by
the repeated polls of a shutdown.  Glob expansion, adaptive polling
and the watcher only make a poll earlier or later and are left out.

### S3Input

`ListObjects`, `TakeKey`, `SendKey`, `DrainCompletion`, `EndPage` are the
discovery by listing; `ReceiveMessages`, `TakeMessage`, `SendRecord` the
discovery by SQS; `SkipDuplicate`, `AcceptWork`, `SpawnFetch` the orchestrator with
its semaphore; `SendChunk`, `SendEof`, `FetchFails`, `ChannelClosed`, `Report`,
`Settle`, `DeleteAfterFetch`, `Unlock` the task of one object, step by step,
because each is an await or a lock of its own.  `PutObject`, `Notify`, `Expire`
are S3 and SQS.  The range requests of one object, decompression and signing are
the choice of a chunk or a failure.

### BlockingStage and Receivers

`BlockingStage` has one action per atomic step of `try_submit` (reserve the
counter, try one queue after the other, give up) and of the worker loop (take,
run, panic, mark failed, drain the queue, leave).  `Receivers` runs it under the
OTLP handler.  The handlers of one receiver share a single-threaded runtime, so a
handler runs until its next await: `RuntimeFree` says that no other one is
between two awaits.  `Arrives`, `ReadsBody`, `Submits`, `Decoded`, `Reserves`,
`Sends`, `Finishes` and `ClientGone` are a request; `Receives` is `poll`, with
the deferred rest of an NDJSON body; `DropStopping` ... `DropJoins` are the steps
of `Drop` in the order `DropOrder` of the receiver.  Status codes are the
classes `ok`, `rejected` (4xx), `busy` (429), `error` (500), `unavailable` (503).

### StructuralIndex, StreamingBuilder, JsonScanner

`ProcessBlock` is the classifier of one block with its two carries, over sets of
bit positions; a byte is one of the symbols the code tells apart.  `JsonScanner`
runs it block by block over a buffer, then scans every line into the builder:
`ScanLine` with nested values skipped by the open and close masks, escapes,
field selection, the row predicate and the line column.  `StreamingBuilder` has
the slots that are reused from batch to batch.  A repeated key is found by
`CheckDupBits` in the first `DedupBits` columns and by the row mark of the column
in the others (`WrittenThisRow`); every `append_*_by_idx` asks both
(`IsDuplicate`).  `ScanKeepsFields` therefore has the first value of a repeated key
in every column, which is what the code does; the scanner contract promises it only
for the columns under the bits, and a test expects the opposite beyond them
(section 4, `SecondWriteOverwrites`).  `Inputs` are
documents, written to text by `ValueText` and its kin; the properties compare the
masks with a byte-by-byte reading, and the table with the documents.  Numbers are
told from text but not parsed, and `\u` escapes are left out.

### BulkSink and OutputSinks

`OutputSinks` is `process_item` with its timeout, backoff and cancellation around
`AsyncFanoutSink`: `SkipSettled`, `ChildAnswers` and `SendReturns` are the loop
over the children and `finalize_fanout_outcome`.  One child is a `PipelinedSink`
(`FileAccepts`, `FileReportsError`, `FileCannotSerialize`, the last two with the
result that `from_io_error` makes of the error, and the writer thread
`WriterTakes`, `WriterWrites`, `WriterFails`), one the buffered Elasticsearch
sink of `BulkSink` (`SendSplitHalves`, `MergeSplitAttempts`, `BulkResponse` with
a partial response, 413, lost requests, a part that cannot be serialized), the others answer with any `SendResult`.
`TimesOut` and `Cancelled` drop a send half-way, when it may have arrived.

### ReloadLoop and Supervisor

`Step` is `ReloadCoordinator::step`.  The actions of `ReloadLoop` are the arms of
the loop in bootstrap that execute its effects (`PipelinesBuilt`, `BuildFails`,
`ReloadReceived`, `Drained`, `DrainTimesOut`, `Validates`, `ShutsDown`,
`Completes`, `Exits`), the senders into its one-slot channel (`Trigger`,
`OnAgentRemoteConfig`), and `Persist`, the task that writes a committed
configuration back.  A configuration is a model value of which the loop can tell
whether it validates (`Broken`) and whether it changes process-lifetime settings
(`Other`).  `Supervisor` puts `ff supervised` above it: `Spawn`, `ChildExited`,
`BackoffEnds`, `SupTerminates`, and `FlowWrites`, `FlowSignals`, `FlowWaits` of
the remote configuration flow; without it a service manager restarts the process.

## 3. Runs

| run | instance | distinct states | what holds |
|---|---|---|---|
| `machine_any_caller` | 2 sources, 2 checkpoints, 3 batches, 1 retry | 314 000 | `TypeOK`, `NoStrandedAck`, `InFlightUntilApplied`, `CleanStopIsComplete`, `CommitsInOrder` |
| `machine_in_order` | 1 source, 2 checkpoints, 4 batches, 1 retry | 741 000 | the machine implements `OrderedCommit` |
| `run_crash` | one input with 2 sources of 2 and 1 units, one-slot queues, pool of 2, all processor results, CPU errors, 1 crash | 1 370 000 | `DurableCovered`, `TicketsAccountedFor`, `CleanStopCoversReads`, `DurableNeverRegresses` |
| `run_shutdown` | 1 source of 4 units, every queue and the pool of size 1 | 97 000 | `ShutdownCompletes` |
| `pool` | 3 items, 2 workers at a time, 3 spawns | 167 000 | `ItemsConserved`, `SinksBounded`, `DrainCompletes`, `SubmitReturns` |
| `framed_lines` | all formats, 5 bytes, buffer 2, reads of 1 or 2, 1 truncation, 1 restart | 1 010 000 | `CheckpointAtBoundary`, `NoGarbledFragment`, `BytesAccountedFor` |
| `tail_rotation` | 2 paths, 2 inodes, 2 bytes, budget 1, 1 open file, fingerprint of 2, 2 disturbances, symmetric | 3 600 000 | `OffsetCovered`, `LossOnlyAtClose`, `ShutdownFlushes` |
| `s3_objects` | both modes, 2 keys, messages with 0, 1 and 2 objects, 2 receipts, channels of 1, 2 attempts, 4 faults | 2 920 000 | `StreamsSeparate`, `DeletedIsSettled`, `HeartbeatWhileWorked`, `CursorCovers` |
| `control` | 3 configurations, one of them invalid, 3 build attempts, with and without OpAMP and supervisor | 102 000 | `RunsItsConfig`, `LoopIsSound`, `TriggerRereads`, `ReloadSettles`, `ChildComesBack`, `TermStops` |
| `sinks_fanout` | 3 children (any, file, bulk), 2 batches of 3 rows, bulk of 2, splits to depth 2, 2 buffers, 2 faults | 199 000 | `AcceptedOnce`, `OutcomeSpeaksForAll`, `RowsAccountedFor`, `BatchSettles` |
| `scan_tables` | blocks of 4 bytes, 1 duplicate bit, all documents of `MCJsonScanner`, 3 alignments, 2 batches | 127 000 | `MasksMatchBytes`, `ScanKeepsFields` |
| `receiver_requests` | each receiver, 3 requests of 1 or 2 parts, 2 decoders, 1 panic, channel of 2 | 1 945 000 | `AnswerTellsOutcome`, `CountersExact`, `NoHandlerStranded` |

Further configurations pass and belong to the project without being part of the
regular runs: `FileTail_catch_up.cfg` (`FileTail`) checks `TailTypeOK` and the
liveness property `CatchesUp`; `Receivers_finish.cfg` (`Receivers`) checks the
liveness property `HandlersFinish`, and with its single decoder also the submission
that finds every worker gone.

**Why the bounds suffice.**
* *Machine.*  Three batches on one source give every relation of an ack to older
  and newer batches (lower in flight, gap, run of buffered acks), two sources give
  independence; four batches in the refinement run give a run of two buffered acks
  behind a gap and one batch after it.
* *Pipeline.*  Three units make batches of one or two units over one or two
  sources, the pool of two lets acks overtake each other, and one crash is enough
  because a restart re-establishes a state that differs from the initial one only
  in `durable`, which the invariants already constrain.  In `run_shutdown` four
  units fill the four one-slot places (I/O queue, CPU worker, channel, pool).
* *Pool.*  Three spawns with a limit of two let a worker go away and be replaced
  while another is busy; three items fill the channel of a worker whose successor
  is waiting.
* *Framing.*  Five bytes hold a line longer than the buffer with its newline and
  one more line, and a partial CRI line followed by a full one with a byte of text
  each.  Reads are not longer than the buffer, as with the default configuration
  (256 KiB per read, a buffer of 2 MiB).
* *Tailing.*  Two inodes and two names are a rotation; with one file open at a
  time every second file is evicted; two bytes with a budget of one leave a file
  half read and a fingerprint of two bytes partial; two disturbances are a rename
  followed by a truncation, a failing call or a crash.  The constraint `StraysEarly`
  does not go on from a state in which a read has strayed and no disturbance is left,
  to keep the run within five minutes; without it the same three properties hold in
  4 770 000 states.
* *S3.*  Two keys are two pages that complete in either order, two receipts a
  redelivery during a fetch; four faults are a fetch that fails for good, twice,
  or a failed fetch and a missed heartbeat with retries left.
* *Control.*  Two valid configurations tell the old from the new one, the invalid
  one is what an operator writes by mistake; every trigger may come any number of
  times, and the three attempts are those of the code.
* *Sinks.*  Two faults let two children fail in different attempts of one batch,
  or one of them in each of two batches (states left over); three rows in bulks of
  two are a split in which either half fails and one row is too large on its own.
* *Scanner.*  With blocks of four bytes the documents span up to eight blocks, and
  three alignments put each escape and quote on either side of a block boundary.
  Two batches show what a builder keeps.  One duplicate bit puts the first column
  under the bits and the second under the row marks, and keys are repeated in both.
* *Receivers.*  Three requests compete for two places, in the stage and in the
  channel; requests of two parts are interleaved; two workers let a job be tried on
  a second queue while the first worker leaves.

**Deadlock** is not checked: all systems here stop (machine stopped, sources
exhausted, pool drained, requests answered, faults used up).  That nothing stops
too early is what the liveness properties say.

**Fairness.**
* `PipelineRun!FairSpec`: weak fairness of the input threads and of the coordinator
  task, OS threads and a tokio task that are scheduled whenever they can run.
  `ShutdownCompletes` also assumes `OutputAnswers`: the pool answers, or loses, the
  items it holds.
* `WorkerPool!FairSpec`: the caller of `submit`/`drain` is scheduled and the timers
  of `drain` fire; nothing of the workers or the output, except that an aborted task
  yields, so that `join_set.shutdown()` (`runtime.rs:281`) returns.  `SubmitReturns` assumes
  that worker tasks are scheduled and that the output does not answer *every*
  attempt with a transient failure.
* `FileTail!FairSpec`: the I/O worker polls in a loop, a poll comes to its end, and
  a poll finds the rescan interval elapsed again and again (strong fairness: the
  interval is wall-clock time, and not every poll rescans).
* `Supervisor!FairSpec`: both processes run.  Strong fairness of `ShutsDown` and
  `SupTerminates` is that of tokio's `select!`, which picks among ready arms at
  random: an arm that is ready again and again is taken in the end.
* `OutputSinks!FairSpec`: the worker task and the writer threads run; a send ends,
  if only by its timeout.  Faults are bounded, which is the assumption that the
  destinations answer in the end.
* `Receivers!FairSpec`: the server thread, the decoder threads and the thread that
  drops the input run; nothing of the clients.

No fairness is assumed for crashes, control messages, pushes, edits, signals,
refusals, panics or the file system.

### Simplifications of control

Where a definition has fewer branches or larger steps than the code, and why the
properties do not depend on it:

* `CpuExit` has neither the early return of a CPU worker without a runtime
  (`cpu_worker.rs:44`) nor a panic of the thread (`input_pipeline.rs:141`).  What was
  queued to the worker is then gone without a ticket, as after `DropRun`: it is read
  again after a restart, and `CleanStopCoversReads` is not claimed of such a run.
* `SpawnWorker` hands the item to the new worker; the Closed and Full branches after
  it (`runtime.rs:121`) need a channel that was made two lines before to be closed or
  full.
* `DrainAbort` takes an aborted task to end; one that blocks its thread without
  yielding keeps `drain` waiting.
* `Restart` of `FramedInput` keeps the ghost `emitted`.  `Persist` is taken only when all
  that was emitted before it was delivered, so what is in front of the stored
  checkpoint stays emitted; behind it `BytesAccountedFor` speaks of the bytes read
  again.
* `ChannelClosed` of `S3Input` counts an object as fetched when its chunks were put
  into the channel, with or without its end of file (`mod.rs:585`): the input is
  being dropped, and nobody reads either.
* `ChildExited` of `Supervisor` is any end of the child.  Errors of `wait`, `try_wait`
  and `spawn` (`supervisor.rs:218`, `257`, `115`), which end the supervisor or start
  the child anew, are left out; `ChildComesBack` is not claimed after them.
* `Persist` of `ReloadLoop` is atomic, though two such tasks share a temporary file
  (`bootstrap.rs:440`).
* `TriggerRereads` speaks of processes without OpAMP: with it a trigger that finds a
  pushed configuration in the one slot is dropped.
* `FileAccepts` takes the writer thread to be alive; if it has died, every send is
  answered BrokenPipe (`pipelined.rs:204`), retried, and no batch settles.
* The bulk run reaches the depth limit of splits only with single rows.
* `Refusal` of `BlockingStage` reads three atomics at once, which `try_submit` reads
  one after the other (`blocking_stage.rs:132`), and `ClosesPending` answers and
  releases in one step (`257`); `DropStopping` of `Receivers` joins the stores of
  health and `is_running` (`otlp_receiver.rs:351`).  A reservation between two of
  these is one the counter admits, and no run checks health in `Drop`.
* A failing `fstat` of an open file counts as deleted in `deleted_paths`; `FileTail`
  has no such failure.

## 4. Where code and documentation disagree

Each of these is a configuration that TLC finds violated
(`tlc -config <cfg> <module>`; with `-continue` where a configuration has two
properties, as TLC stops at the first it finds violated); the property states what a comment, a test or a
page of the documentation says.  The quotations are in `PROJECT.json` under
`findings`.

| configuration | module | property | what the counterexample shows |
|---|---|---|---|
| `PipelineRun_join.cfg` | `MCPipelineRun` | `JoinCannotBlock` | A Hold or Fatal during the drain of the channel leaves that loop without dropping the receiver (`run.rs:256`); a CPU worker blocked on the full channel is then joined. |
| `PipelineRun_dropped.cfg` | `MCPipelineRun` | `DroppedIsReread` | A chunk dropped on a scan or transform error (`cpu_worker.rs:76`) is passed by the checkpoint of the next chunk; it is read again only if nothing follows it. |
| `PipelineRun_output_down.cfg` | `MCPipelineRun` | `ShutdownAlwaysCompletes` | Shutdown drains the channel through `pool.submit` (`run.rs:255`) before `drain()`, and only `drain()` cancels retries: with a dead output and a full pool the coordinator waits for ever. |
| `PipelineRun_reload.cfg` | `MCPipelineRun` | `ReloadFlushesReads` | A reload drops the future of the last pipeline where it waits (`bootstrap.rs:617`) and calls `run_async` anew: what was in its channel is not flushed. |
| `WorkerPool_lost_item.cfg` | `WorkerPool` | `DrainAnswersAll` | While a worker awaits `sink.shutdown()` its receiver is open (`worker.rs:187`); an item dispatched to it is dropped without an ack.  The ticket stays in flight and pins the checkpoint (`DurableCovered`), but nothing more is committed for its sources. |
| `FramedInput_partial.cfg` | `FramedInput` | `RestartSkipsNothing` | `checkpoint_data` (`framed.rs:902`) subtracts the partial line, not the CRI lines whose message is pending in the decoder. |
| `FramedInput_long_reads.cfg` | `FramedInput` | `NoGarbledFragment` | A read that completes a tainted line and ends in a tail longer than the buffer sets the taint and then clears it (`framed.rs:341`); it takes a read budget above 2 MiB. |
| `FileTail_drain.cfg` | `FileTail` | `RotationLosesNothing` | The old file is drained by one budgeted read (`tail/reader.rs:207`) and closed. |
| `FileTail_drain.cfg` | `FileTail` | `FailedReadSkipsNothing` | When the fingerprint fails after a read (`tail/lifecycle.rs:154`), the bytes are dropped and the offset stays behind them; a failed seek (127) or a fingerprint that fails after a truncation (84) leaves the cursor elsewhere than the offset. |
| `S3Input_duplicate.cfg` | `S3Input` | `DeletedIsFetched` | A redelivered record counts as a success while its object is being fetched (`s3_input/mod.rs:956`); if that fetch fails the message is gone. |
| `S3Input_retry_skipped.cfg` | `S3Input` | `InFlightIsWorked` | A failed key is reported before it is unlocked (`mod.rs:948`): its retry is taken for a duplicate, dropped without a completion, and the key is never listed again. |
| `S3Input_late_key.cfg` | `S3Input` | `CursorCovers` | With objects uploaded out of key order the list cursor (`mod.rs:862`) passes keys that were never listed. |
| `S3Input_rewinds.cfg` | `S3Input` | `CursorAdvances` | Completions drained at the end of a page move the cursor and clear `in_flight` (`mod.rs:862–869`); the next page of the cycle comes from the continuation token and lists keys already passed.  They are fetched twice and the cursor is set back, without any fault. |
| `Supervisor_reported.cfg` | `Supervisor` | `ReportedWasApplied` | The supervisor reports a pushed configuration as effective when the child survived the window (`supervisor.rs:439`), also when the child refused it. |
| `OutputSinks_file.cfg` | `OutputSinks` | `DeliveredIsWritten` | The file sink answers Ok when the buffer is queued (`pipelined.rs:262`); a write that fails later belongs to a batch already acknowledged. |
| `JsonScanner_open_string.cfg` | `MCJsonScanner` | `LinesAreIndependent` | After a line with an odd number of quotes the string state runs on (`json_scanner.rs:813`), and a nested value of the next line is cut. |
| `JsonScanner_open_string.cfg` | `MCJsonScanner` | `SecondWriteOverwrites` | A key repeated in a column beyond the bitmask keeps its first value (`streaming_builder/mod.rs:325`, the row mark), where the test `compliance_data.rs:640`, the scanner contract and the comment on `check_dup_bits` have the last one written or the duplicate undetected.  The code does better than its documents; a test that insists on one of the two values would settle it. |
| `Receivers_accepted.cfg` | `Receivers` | `AcceptedIsDelivered` | `Drop` takes the channel away with payloads that were answered 200 (`otlp_receiver.rs:354`); `poll_shutdown` is not implemented. |
| `Receivers_health.cfg` | `Receivers` | `TerminalIsSticky` | The OTLP and HTTP receivers store health directly (`otlp_receiver/server.rs:153`): a late request makes a stopping receiver Healthy. |

Four more divergences, which need no run, are listed there: OpAMP settings are
documented as reloadable and are not (`diff.rs:82`); pushed configurations are
documented to be written to `opamp_remote_config.yaml` (`client.rs:304`); the
comment on internal retries of split halves (`elasticsearch/send.rs:265`) names a
constant that does not exist; the comment on `fetch_object`
(`s3_input/mod.rs:1100`) speaks of parts out of order with source ids of their own,
while they are sent in order under one.

The passing runs stay clear of these cases by a constant (`StageResults`,
`MaxRead`, `KeysInOrder`) or by a property that names the exception
(`BytesAccountedFor`, `DeletedIsSettled`, `LossOnlyAtClose`, `OffsetCovered`),
never by leaving the step out of the model.

## 5. Proofs

Each theorem holds for every value of the constants that meets the `ASSUME`s of
its module: any number of sources, batches, workers, children, rows, keys or
messages.  The method is the same everywhere: an inductive invariant, checked by
TLC on small instances first, one lemma per action, and the properties of the runs
as consequences.  Where an action works on one source, one item or one record, its
lemma says what changes for that one and leaves the rest to a frame lemma.

| theorem | module | property | specification |
|---|---|---|---|
| `TypeCorrect`, `NothingStranded`, `InFlightExact`, `CleanStop` | `PipelineMachineProofs` | `TypeOK`, `NoStrandedAck`, `InFlightUntilApplied`, `CleanStopIsComplete` | `Spec` |
| `CommitOrder` | `PipelineMachineProofs` | `CommitsInOrder` (steps) | `Spec` |
| `ImplementsOrder` | `PipelineMachineProofs` | `ImplementsOrderedCommit` (refinement) | `InOrderSpec` |
| `TicketsNeverForgotten`, `CheckpointsCoverDone`, `CleanStopLeavesNothing` | `PipelineRunProofs` | `TicketsAccountedFor`, `DurableCovered`, `CleanStopCoversReads` | `Spec` |
| `DiskNeverRegresses` | `PipelineRunProofs` | `DurableNeverRegresses` (steps) | `Spec` |
| `ItemsAreConserved`, `SinksAreBounded` | `WorkerPoolProofs` | `ItemsConserved`, `SinksBounded` | `Spec` |
| `CheckpointsAtBoundary`, `BytesAccounted` | `FileInputProofs` | `CheckpointAtBoundary`, `BytesAccountedFor` | `Spec` |
| `NoFragments` | `FileInputProofs` | `NoGarbledFragment` | `Spec`, if `MaxRead <= MaxRemainder` |
| `OffsetsAreCovered`, `LossOnlyWhenClosed` | `FileInputProofs` | `OffsetCovered`, `LossOnlyAtClose` | `TailSpec` |
| `AttemptsAreSeparate`, `MessagesDeletedWhenSettled`, `HeartbeatsEnd` | `S3InputProofs` | `StreamsSeparate`, `DeletedIsSettled`, `HeartbeatWhileWorked` | `Spec` |
| `CursorPassesDone` | `S3InputProofs` | `CursorCovers` | `Spec`, if `KeysInOrder` |
| `RunningIsReported`, `LoopAgrees`, `TriggersAreRead` | `SupervisorProofs` | `RunsItsConfig`, `LoopIsSound`, `TriggerRereads` | `Spec` |
| `ChildrenAcceptOnce`, `OutcomeIsEveryChilds`, `RowsAreAccountedFor` | `OutputSinksProofs` | `AcceptedOnce`, `OutcomeSpeaksForAll`, `RowsAccountedFor` | `Spec` |
| `HandlersAreAnswered`, `CountersAreExact`, `AnswersTell` | `ReceiversProofs` | `NoHandlerStranded`, `CountersExact`, `AnswerTellsOutcome` | `Spec` |

Type correctness (`PipelineTypes`, `PoolTypes`, `FramingTypes`, `TailTypes`, `S3TypeOK`,
`ControlTypes`) is proved besides.

### The lifecycle machine

Assumed: `TrackingAssumptions` (`None` is not a checkpoint, the bound is a natural
number) and `MachineAssumptions`.

`MachineInv` is `TypeOK`, `NoStrandedAck`, `InFlightUntilApplied` and
`BegunWhenSent`.  None of the parts is inductive alone.  `NoStrandedAck` needs to
know that an id that enters `in_flight` or `pending_acks` is a natural number in
the range of the ids (`TypeOK`), and that `apply_ack` finds its batch in flight.
The latter is `InFlightUntilApplied`, which in turn needs `BegunWhenSent`: a
receipt is of a ticket that `begin_send` registered.  The heart is
`RecordAckFacts`: after `record_ack_and_advance`, `in_flight` has lost exactly
the acknowledged batch, what stays buffered waits for something lower in flight,
and a new `committed` is the checkpoint of the largest consumed ack, below which
nothing is in flight.  `CleanStop` follows from the guard of `stop` and the
invariant, which holds of every later state because a stopped machine changes its
tracking no more.

For the refinement the caller begins the tickets of a source in order.  `InOrderInv`
adds `Frontier`: every settled id of a source is below every tracked one, and
`committed` is the checkpoint of the highest settled one.  From it follow
`PrefixIsSettled` (the abstract longest acknowledged prefix ends at that batch)
and `CommittedIsFrontier`.  Then the steps are matched: a first `begin_send` is
`Send`, `apply_ack` is `Acknowledge`, everything else stutters.

This module and `PipelineRunProofs` begin with the lemmas about `Track` and
`RecordAckAndAdvance` that they need, among them `LeastNatural` and the
existence of the maximum of a set of ids, and what the two operators preserve of
the predicates on a tracking (`Ascends`: newer ids have no smaller checkpoints;
`Within`: bounds of the checkpoints; `Covers`: what a checkpoint may cover).

### The pipeline

Assumed: `RunAssumptions` and `OptionAssumption`.  The proof is over crashes,
failed flushes and restarts in any number.  `RunInv` has these layers:

* *Types*: `InputTypes`, `CoordinatorTypes`, `PoolTypes`.
* *Identity*: `OnePlace` (an item is being submitted, in the pool or in the ack
  channel, never in two of them), and `Tickets`: such an item has its ids in
  flight, an id in flight has such an item or is parked, a parked id is in flight.
  This gives `TicketsAccountedFor`.
* *Order*: `SourceOrder` (`durable`, `store` and the committed checkpoint of the
  machine ascend) and `InputOrder`, which carries the order backwards through the
  channel, the outbox of the CPU worker, the I/O queue and the buffer.  Without the
  whole chain a new batch could come with a checkpoint below a committed one.
* *Coverage*: `SourceCover`.  Everything up to `store` and `durable` is settled or
  skipped, and so will be everything up to the checkpoint of a tracked batch once
  it and the batches below it are settled (`Covers`).  `AcksSettled` says what an
  ack promises.  `DurableCovered` is a part of it.
* *The end*: `NothingEmpty`, `NothingLost` (what was flushed is passed by the
  machine, in the channel or in a worker, while the receiver is open), `Places`,
  `WorkersExit`, `DrainEnds` and `CleanStop`.  A stop that left nothing behind needs
  to know that the CPU workers ended after their I/O workers and that the channel
  was emptied after both.

`DiskNeverRegresses` follows from `SourceOrder`.

### The worker pool

Assumed: `PoolAssumptions`.  `PoolInv` is `ControlInv` (types, what `submit` and
`drain` hold at each place, what a worker holds at each of its states, that until
`drain` drops the handles no task runs without one, `SinksBounded`) and `OnePlace`.
`ItemsConserved` alone is not inductive: when a worker leaves, its channel and its
hands must be told apart, and when `submit` finds a closed channel it must still
hold the item.

### The framing

Assumed: `FramingAssumptions` and `StateAssumption` (`None` is not a source state).
The sizes of buffer, read and file are arbitrary.

`FramingInv` is `TypeOK`, `FileState` (a byte knows its place), `SourceFramed`,
`DurableState`, `BytesAccountedFor`, and that every record is one of `Messages`.
`CheckpointAtBoundary` is not inductive: the checkpoint is the read position minus
the remainder the tracker counts, and to see that it stays the end of a line one
needs to know what the other fields of the source hold.  `Framed` says so: the
tracker counts the bytes since the last end of a line and none of them is a newline;
the remainder is the last of these bytes, all of them or as many as the buffer
takes; the taint is set exactly if some were cut; a pending CRI message has only
bytes of partial lines.  `DurableState` is what makes a restart safe: the stored
checkpoint is an end of line, and what is before it was processed or belonged to
a partial line, which is why `BytesAccountedFor` has that exception (section 4).

The iff for the taint, and with it that records are `Contiguous`, holds only if a
read fits in the buffer (`MaxRead <= MaxRemainder`; by default 256 KiB and 2 MiB).
It is a hypothesis of `NoFragments` alone: without it the property is false, which is
what `FramedInput_long_reads.cfg` shows.  The other theorems hold for longer
reads as well.

`ProcessLines` is a recursive function over the positions of a chunk.  Its lemmas
(`ScanDefined` and those built on it) do not use an induction scheme but
the least position at which a claim would fail (`LeastElement`, `ReachesEnd`): what is emitted are
lines or messages of the chunk, what is kept is of partial lines, and every byte of
the chunk is emitted, dropped or pending.  Each action then has one lemma for the
source and one each for the stored checkpoint, the records and the bytes.

### The tailer

`FramedInput` and `FileTail` are specifications of their own: each has the part of
the file it needs, and no step of one is a step of the other; `FileInputProofs`
extends both, and the theorems about the tailer are about `TailSpec`.  Assumed:
`TailAssumptions`.  The numbers of names, inodes and open files and the sizes of
fingerprint and read are arbitrary.

`OffsetCovered` is not inductive.  It speaks of open files between polls, but an
offset comes back from `evicted_offsets` and from the checkpoint store as well, long
after it was taken, when the inode may be another file or the file have been truncated
and written again.  What makes it right then is the comparison of fingerprints, and
`TailInv` says what that comparison is worth:

* `Covered(i, f, off)`: if the content of inode `i` begins with the first byte of the
  fingerprint `f`, it has at least `off` bytes and the first `off` were delivered.
  As a byte is never written twice, one byte tells the contents apart; a partial
  fingerprint that grows, a prefix compared over another window and a source id are all
  of this form.  It holds for the two fingerprints of every open and evicted handle
  (`HandleInv`) and for every saved offset (`SavedInv`), and every step keeps it for
  the handles that it leaves alone (`CoveredStays`): a file keeps its content, gets the
  next byte or becomes empty;
* `Blurred`, the inodes excepted: truncated while a poll ran, or truncated between polls
  and without a watched name by now, or `strayed` by a failed read.  `unseen` alone is too large, as a poll that
  begins finds those out by itself, and then the offset has to be right again;
* `HandleOK`: unless its inode is strayed, the cursor of a handle is where its offset
  is, so that what a read returns begins where the last one ended;
* `InStep`: an open handle fits its file's present content or is at offset 0; after
  a truncation between polls it is at the name it was opened by and the detection of
  this poll has still to come to it.  That is why `PollTypes` says which paths each
  part of the poll has still to visit;
* `LossOnlyAtClose`, which every step keeps because the bytes that go out of reach are
  the ones the step reads or gives up.  For the read of a rotated file this needs
  `InStep` (`DroppedIsRead`): an offset beyond the unread bytes would lose them.

The error returns of `read_new_data` are one lemma (`FailedCovers`): each leaves a
handle of which the above holds, or its inode in `strayed`.  A byte dropped by such a read is still in its
file and still owed, so `LossOnlyAtClose` holds through it.

TLC checked `TailInv` on the instance of `tail_rotation`, and with three names by
simulation, before it was proved.

### The S3 input

Assumed: `S3Assumptions`.  `S3Inv` is

* `S3Types`;
* `StreamInv`: `PermitsHeld` (no more tasks than the semaphore has permits), `Locked`
  (a key is locked while the orchestrator holds a work item for it or its task runs,
  never both) and `OpenState` (what reached the framer since the last end of file is what
  the task has sent).  The lock gives one task per key, hence `StreamsSeparate`;
* `RecordInv`: for every receipt `Apart` (a record is in one place), `TrackerExact`
  (`remaining` is the number of records on their way, and there are heartbeats
  exactly while there are any), `ReceivedFresh`, `SuccessesCounted`; `TasksTell`;
  `DeletedIsSettled`.  The count has to be exact: one too low deletes a message
  early, one too high keeps its heartbeats for ever;
* with `KeysInOrder`, `ListInv`: `InBucket`, `Completing`, `CursorDone`,
  `DispatchOrder`, `DispatchedKnown`, `PageKnown`, `MoreKnown`.  The cursor may move
  *back* (section 4, `CursorAdvances`), so keys are dispatched that were dispatched
  before; `DispatchOrder` says that a smaller key dispatched after a larger one is
  already done, and with it the cursor passes only what is done.

### Reload loop and supervisor

Assumed: `ReloadAssumptions`, `SupervisedAssumption`.  `ControlInv` is `TypeOK`,
`LoopState` (the place of the loop and the state of the coordinator), `PendingState`
(the pending configuration and its flag, and attempts left while it builds),
`ConfigState` (what the process holds was validated, and is what it reports),
`FlowState` (the supervisor's flow has a valid configuration in hand), `DiskOnly`
(without OpAMP only the request to read the file is queued) and `TriggerRereads`.  The lemmas
`Step...` say what `ReloadCoordinator::step` answers to each event in each state it
can be in; every arm of the loop then takes one line.

### The sinks

Assumed: `SinkAssumptions`.  `FanoutInv` is `SinkTypes`,
`StatesTell` (what the fanout remembers of a child is what the child answered to the
current batch, and later batches were not sent), `PassedIsMerged` (a child the loop
has passed is settled, or `any_pending` is set), `AcceptedOnce`,
`OutcomeSpeaksForAll`.  `BulkInv` is `BulkTypes`,
`BulkRunsAtChild`, `NoRowForgotten` (a row that is not pending was indexed or
rejected, and while the batch is sent a pending row is in a part still to be sent or
among the rows to send again), `SentOnce`, `AttemptTells`.  A fanout that remembers
`Accepted` for a child is only right because a bulk child answers Ok when no row is
left: the two invariants are one induction.

### The receivers

Assumed: `StageAssumptions`, `ReceiverAssumptions`.  The invariant is built in two
layers, `ReceiverInv` (`ReceiverInvariant`) and on top of it `FullInv`
(`OutcomeInvariant`).

* `StageInv` is about the decoder threads alone: `StageTypes`, `WorkerState` (what a
  worker holds at each of its places), `OneAnswer` (what is queued, processed
  or submitted has no answer yet), `OnePlace` (a job is in one queue or in the
  hands of one worker) and the exact counter.  Every step of a worker is a
  `WorkerMoves`: it touches its own jobs only, answers what it lets go of and only
  what was not answered, and releases as many reservations.  This is what a panic
  and a worker that closes share with an ordinary result.
* `RequestInv` is `RequestTypes`, `OneAtATime` (at most one handler between two
  awaits), `HandlerState` (what a handler holds at each place) and `RoomExact` (the
  in-flight counter of the Arrow IPC channel).  `JobsSubmitted` and
  `NoHandlerStranded` join the layers: a request has a job only after it was
  submitted, so that a submission never finds an old result, and until its handler
  has a result the job is in the stage.
* `OutcomeInv` is `ChannelState`, `StreamOK` and `AllTold`.  `Reach` is how far a
  request has got in sending.  `StreamOK` says that the stream (delivered, deferred,
  queued or lost) has each request once and in order (`InOrder`), exactly up to its
  reach (`Reaches`) and, over HTTP, in one piece (`Adjacent`); `AllTold` says which
  reach each answer allows.  A step keeps the stream, appends to it (`FitsAppended`),
  splits its first undelivered entry (`FitsSplit`, by `poll`) or moves what is left
  to the lost part (`Drop`).  `AnswerTellsOutcome` alone is not inductive: it says
  nothing of a request that is still sending.

### What stays with TLC

* *Liveness*: `ShutdownCompletes`, `DrainCompletes`, `SubmitReturns`,
  `ReloadSettles`, `ChildComesBack`, `TermStops`, `BatchSettles`, and `CatchesUp` and
  `HandlersFinish` of the further configurations.  The proof system does not support
  fairness and ENABLED.
* *The scanner*: `StructuralIndex` and `JsonScanner` use recursive operators over
  bytes; `MasksMatchBytes` and `ScanKeepsFields` would need induction over data.
* *The end of files at a shutdown*: `ShutdownFlushes` of `FileTail`, which TLC checks
  for two names.  It is no theorem: for three names the attempt to prove it failed for a
  reason that TLC then showed.  `open_file_at` takes over the offset of another path
  with the same source id *and* its state of the end of file.  A file that is renamed
  among three names while a handle of it is evicted can come back under a name whose
  data was read through one handle, with another handle that has signalled the end
  already; nothing is signalled for that data at the shutdown.  The model lets
  `evict_lru` drop any file.  The code drops the one read least recently, which
  excludes the trace TLC finds, so this is not listed as a finding; a proof would need
  the ages in the model.

## 6. Plan

Done: all modules of section 2 with their runs, and the proofs of section 5.

Next theorem: `ShutdownFlushes` of `FileTail`, after the ages of the open files have
become part of its state.

Next modules: `PoolContract`, the abstract pool of `PipelineRun` as a specification
that `WorkerPool` implements; the streaming mode of the Elasticsearch sink.

## 7. Not modelled

* **Codecs and encoders** (OTLP wire formats, projections, protobuf, Arrow IPC,
  compression), much of them generated: pure functions over bytes that TLC could
  only sample; the repository covers them with Kani proofs, fuzzing and
  differential tests.
* **SQL transform and enrichment** (`ffwd-transform`): DataFusion queries, query
  analysis and lookup tables without protocol state.
* **Columnar builder, dictionary and string-view encodings** (`ffwd-arrow`): data
  layout.  The builder the scanner uses is modelled.
* **Configuration, diagnostics server, telemetry, CLI, benchmarks, test tools**:
  parsing, endpoints, rendering.  Of the configuration only the decision whether a
  change can be reloaded matters here, and it is in `ReloadLoop`.
* **UDP, TCP, journald, OTAP**: no checkpoints, retries or shared state beyond a
  socket or a cursor.
* **Health reducers of outputs and pipelines**: total functions of two values; the
  receivers' reducer is in `Receivers`.  **Source registry**: not used by the
  runtime.

These parts are most of the lines of the repository; what they have in common is
that there is no interleaving, failure or order in them for a model checker to
explore.

Known risks inside modelled components that no property is about:
* tasks that persist configurations may end in another order than they were
  spawned, with one temporary path (`bootstrap.rs:439`);
* a single row answered 413 is retried for ever (`elasticsearch/send.rs:244`);
* a Hold of a batch without checkpoints holds no ticket (`submit.rs:90`);
* the shutdown drain of an input gives up after `MAX_SHUTDOWN_POLL_ROUNDS`
  (`io_worker.rs:932`);
* the decoder is reset when a tail overflows, before the complete lines of the
  chunk are decoded (`framed.rs:301`);
* keys of one document that differ only in case are told apart differently by the
  predicate and by the builder (`json_scanner.rs:415`);
* a client that never finishes its body keeps the join in `Drop` waiting
  (`background_http_task.rs:33`; excepted in `HandlersFinish`);
* SIGHUP before the handlers are registered ends the process.
