----------------------------- MODULE ReloadLoop ------------------------------
(***************************************************************************)
(* One `ff run` process and its configuration: the reload coordinator of   *)
(* crates/ffwd-runtime/src/reload.rs, the loop of bootstrap.rs that        *)
(* executes its effects, the reload channel with its senders (signals,     *)
(* file watcher, HTTP endpoint, OpAMP handler), and the configuration file *)
(* the process starts from and writes back to.                             *)
(*                                                                         *)
(* A configuration is a model value.  What the loop can tell of it is      *)
(* whether it validates, and whether its process-lifetime settings (server *)
(* and opamp sections) are those of the running one.  Pipelines are built, *)
(* run and drained; what they do is the subject of PipelineRun.            *)
(***************************************************************************)
EXTENDS Naturals

CONSTANTS
    Configs,
    Broken,             \* configurations that do not validate
    Other,              \* configurations with other process-lifetime settings
    Pushed,             \* configurations an OpAMP server pushes
    None,
    Disk,               \* a reload without payload: "re-read from disk"
    MaxRebuildAttempts, \* MAX_REBUILD_ATTEMPTS
    OpampModes          \* whether the configurations have an opamp section

ASSUME ReloadAssumptions ==
    /\ Broken \subseteq Configs /\ Broken # Configs /\ Other \subseteq Configs
    /\ Pushed \subseteq Configs
    /\ None \notin Configs /\ Disk \notin Configs /\ None # Disk
    /\ MaxRebuildAttempts \in Nat \ {0}
    /\ OpampModes \subseteq BOOLEAN

VARIABLES
    opamp,
    disk,               \* the configuration file
    proc,               \* "up", or how the process ended: "ok" or "error"
    pc,                 \* where the loop of run_pipelines is
    co,                 \* ReloadCoordinator: state, has_pending, rebuild_attempts
    reload,             \* the reload channel: None when empty, else what is queued
    reload_yaml,
    current_config, pending,
    shutdown,           \* the process-level token
    persists,           \* spawned tasks that write a committed configuration to disk
    effective,          \* effective_config of the OpAMP client
    built,              \* ghost: what the running pipelines were built from
    unread              \* ghost: a trigger came and the file was not read since

loopVars == <<pc, co, reload_yaml, current_config, pending, built>>
procVars == <<opamp, proc, loopVars, reload, shutdown, persists, effective, unread>>
reloadVars == <<disk, procVars>>

-----------------------------------------------------------------------------
(***************************************************************************)
(* The coordinator.                                                        *)
(***************************************************************************)

NewCoordinator == [state |-> "Starting", has_pending |-> FALSE, rebuild_attempts |-> 0]

Validated(c, hasPending) ==
    [c EXCEPT !.state = "Building", !.has_pending = hasPending, !.rebuild_attempts = 0]

\* Mutant of BuildFailed: after the last attempt the counter starts again.
BuildFailedForever(c) ==
    [state |-> "Building", has_pending |-> FALSE,
     rebuild_attempts |-> (c.rebuild_attempts + 1) % MaxRebuildAttempts]

BuildFailed(c) ==
    [state |-> IF c.rebuild_attempts + 1 >= MaxRebuildAttempts THEN "Fatal" ELSE "Building",
     has_pending |-> FALSE,
     rebuild_attempts |-> c.rebuild_attempts + 1]

\* The error of ShuttingDown is a state of its own here, "Fatal".
Terminal == {"ShuttingDown", "Fatal"}

Step(c, event) ==
    CASE event = "ShutdownRequested" /\ c.state \notin Terminal ->
            [c EXCEPT !.state = "ShuttingDown"]
      [] c.state = "Starting" /\ event = "PipelinesBuilt" -> [c EXCEPT !.state = "Running"]
      [] c.state = "Starting" /\ event = "BuildFailed" -> [c EXCEPT !.state = "Fatal"]
      [] c.state = "Running" /\ event = "PipelineCompleted" -> [c EXCEPT !.state = "ShuttingDown"]
      [] c.state = "Running" /\ event = "PipelineErrored" -> [c EXCEPT !.state = "Fatal"]
      [] c.state = "Running" /\ event = "ReloadRequested" -> [c EXCEPT !.state = "Draining"]
      [] c.state = "Draining" /\ event = "DrainCompleted" -> [c EXCEPT !.state = "Validating"]
      [] c.state = "Draining" /\ event = "DrainTimedOut" -> [c EXCEPT !.state = "Fatal"]
      [] c.state = "Validating" /\ event = "ConfigValid" -> Validated(c, TRUE)
      [] c.state = "Validating" /\ event \in {"ConfigInvalid", "ConfigNotReloadable", "ConfigUnchanged"} ->
            Validated(c, FALSE)
      [] c.state = "Building" /\ event = "PipelinesBuilt" ->
            [state |-> "Running", has_pending |-> FALSE, rebuild_attempts |-> 0]
      [] c.state = "Building" /\ event = "BuildFailed" -> BuildFailed(c)
      [] OTHER -> c

-----------------------------------------------------------------------------
(***************************************************************************)
(* The process starts and ends.  Until the handlers are registered ("boot")*)
(* a signal has its default action.                                        *)
(***************************************************************************)

\* The command reads and validates the file before it enters run_pipelines.
Start ==
    /\ proc # "up"
    /\ IF disk \in Broken THEN proc' = "error" /\ pc' = "gone" ELSE proc' = "up" /\ pc' = "boot"
    /\ co' = NewCoordinator
    /\ reload' = None /\ reload_yaml' = None /\ pending' = None /\ built' = None
    /\ current_config' = disk /\ effective' = disk
    /\ shutdown' = FALSE /\ persists' = {} /\ unread' = FALSE
    /\ UNCHANGED <<opamp, disk>>

Ends(how) ==
    /\ proc' = how
    /\ pc' = "gone"
    /\ reload' = None /\ reload_yaml' = None /\ pending' = None /\ built' = None
    /\ persists' = {} /\ unread' = FALSE /\ shutdown' = FALSE
    /\ UNCHANGED <<opamp, co, current_config, effective>>

\* Signal handlers, watcher, diagnostics and the OpAMP client are in place.
Boots ==
    /\ proc = "up" /\ pc = "boot"
    /\ pc' = "loop"
    /\ UNCHANGED <<opamp, disk, proc, co, reload, reload_yaml, current_config, pending, shutdown,
                   persists, effective, built, unread>>

\* A panic, the OOM killer, a power failure.
Crash == proc = "up" /\ Ends("error") /\ UNCHANGED disk

-----------------------------------------------------------------------------
(***************************************************************************)
(* The senders of the reload channel: try_send, which does nothing when    *)
(* the one slot is taken.                                                  *)
(***************************************************************************)

TrySend(payload) == reload' = IF reload = None THEN payload ELSE reload

\* SIGHUP, and with the same effect once the process is past "boot" the file
\* watcher, POST /api/v1/reload and OpAMP's restart command.
Trigger ==
    IF pc = "boot"
    THEN Ends("error")
    ELSE /\ TrySend(Disk)
         /\ unread' = TRUE
         /\ UNCHANGED <<opamp, proc, loopVars, shutdown, persists, effective>>

OnAgentRemoteConfig(c) ==
    /\ proc = "up" /\ pc # "boot" /\ opamp
    /\ c \notin Broken
    /\ TrySend(c)
    /\ UNCHANGED <<opamp, disk, proc, loopVars, shutdown, persists, effective, unread>>

\* SIGTERM and SIGINT cancel the process-level token.
Terminate ==
    IF pc = "boot"
    THEN Ends("ok")
    ELSE /\ shutdown' = TRUE
         /\ UNCHANGED <<opamp, proc, loopVars, reload, persists, effective, unread>>

\* Whoever may change the file: an operator, a deployment.
Edit(c) == disk # c /\ disk' = c /\ UNCHANGED procVars

-----------------------------------------------------------------------------
(***************************************************************************)
(* The loop of run_pipelines.                                              *)
(***************************************************************************)

BuildConfig == IF pending # None THEN pending ELSE current_config

\* Mutant of PipelinesBuilt: triggers that arrived during the reload are thrown away.
PipelinesBuiltDebounced ==
    /\ proc = "up" /\ pc = "loop" /\ co.state \in {"Starting", "Building"}
    /\ co' = Step(co, "PipelinesBuilt")
    /\ pc' = "select"
    /\ built' = BuildConfig
    /\ current_config' = BuildConfig /\ pending' = None
    /\ reload' = None
    /\ UNCHANGED <<opamp, disk, proc, reload_yaml, shutdown, persists, effective, unread>>

\* Every pipeline is built; Effect::CommitConfig takes the pending configuration.
PipelinesBuilt ==
    LET commits == co.state = "Building" /\ co.has_pending /\ pending # None
    IN
    /\ proc = "up" /\ pc = "loop" /\ co.state \in {"Starting", "Building"}
    /\ co' = Step(co, "PipelinesBuilt")
    /\ pc' = "select"
    /\ built' = BuildConfig
    /\ IF commits
       THEN /\ current_config' = pending /\ pending' = None
            /\ effective' = IF opamp THEN pending ELSE effective
            /\ persists' = IF opamp THEN persists \union {pending} ELSE persists
       ELSE UNCHANGED <<current_config, pending, effective, persists>>
    /\ UNCHANGED <<opamp, disk, proc, reload, reload_yaml, shutdown, unread>>

\* Mutant of BuildFails: the pending configuration is kept for the next attempt.
BuildFailsKeepingPending ==
    /\ proc = "up" /\ pc = "loop" /\ co.state \in {"Starting", "Building"}
    /\ co' = Step(co, "BuildFailed")
    /\ UNCHANGED <<opamp, disk, proc, pc, reload, reload_yaml, current_config, pending, shutdown,
                   persists, effective, built, unread>>

BuildFails ==
    /\ proc = "up" /\ pc = "loop" /\ co.state \in {"Starting", "Building"}
    /\ co' = Step(co, "BuildFailed")
    /\ pending' = None
    /\ UNCHANGED <<opamp, disk, proc, pc, reload, reload_yaml, current_config, shutdown, persists,
                   effective, built, unread>>

\* The task of Effect::CommitConfig writes a temporary file and renames it, or fails.
Persist(c) ==
    /\ proc = "up" /\ c \in persists
    /\ persists' = persists \ {c}
    /\ disk' \in {disk, c}
    /\ UNCHANGED <<opamp, proc, loopVars, reload, shutdown, effective, unread>>

\* The arms of the select!: the main pipeline ends by itself (a sibling that does not
\* join within 30 s turns this into an error), ...
Completes(event) ==
    /\ proc = "up" /\ pc = "select"
    /\ co' = Step(co, event)
    /\ pc' = "loop" /\ built' = None
    /\ UNCHANGED <<opamp, disk, proc, reload, reload_yaml, current_config, pending, shutdown,
                   persists, effective, unread>>

\* Mutant of ShutsDown: the select! is biased towards the reload arm.
ShutsDownUnlessReload ==
    /\ proc = "up" /\ pc = "select" /\ shutdown /\ reload = None
    /\ Ends("ok")
    /\ UNCHANGED disk

\* ... the process is told to stop (join_siblings may give up after 30 s), ...
ShutsDown ==
    /\ proc = "up" /\ pc = "select" /\ shutdown
    /\ \/ /\ co' = Step(co, "ShutdownRequested")
          /\ pc' = "loop" /\ built' = None
          /\ UNCHANGED <<opamp, proc, reload, reload_yaml, current_config, pending, shutdown,
                         persists, effective, unread>>
       \/ Ends("error")
    /\ UNCHANGED disk

\* ... or a reload is received: its payload is kept and the pipelines drain.
ReloadReceived ==
    /\ proc = "up" /\ pc = "select" /\ reload # None
    /\ reload_yaml' = IF reload = Disk THEN None ELSE reload
    /\ reload' = None
    /\ pc' = "drain" /\ built' = None
    /\ UNCHANGED <<opamp, disk, proc, co, current_config, pending, shutdown, persists, effective,
                   unread>>

\* Mutant of Drained: the coordinator is not told that the drain is complete.
DrainedUnreported ==
    /\ proc = "up" /\ pc = "drain"
    /\ co' = Step(co, "ReloadRequested")
    /\ pc' = "loop"
    /\ UNCHANGED <<opamp, disk, proc, reload, reload_yaml, current_config, pending, shutdown,
                   persists, effective, built, unread>>

Drained ==
    /\ proc = "up" /\ pc = "drain"
    /\ co' = Step(Step(co, "ReloadRequested"), "DrainCompleted")
    /\ pc' = "loop"
    /\ UNCHANGED <<opamp, disk, proc, reload, reload_yaml, current_config, pending, shutdown,
                   persists, effective, built, unread>>

\* The main pipeline or a sibling does not drain within 30 s.
DrainTimesOut == proc = "up" /\ pc = "drain" /\ Ends("error") /\ UNCHANGED disk

Reloadable(old, new) == (old \in Other) = (new \in Other)

Verdict(new) ==
    CASE new \in Broken -> "ConfigInvalid"
      [] new \notin Broken /\ new = current_config -> "ConfigUnchanged"
      [] new \notin Broken /\ new # current_config /\ Reloadable(current_config, new) -> "ConfigValid"
      [] OTHER -> "ConfigNotReloadable"

\* State::Validating.  A configuration file that cannot be read counts as invalid.
Validates ==
    LET new == IF reload_yaml # None THEN reload_yaml ELSE disk
        verdicts == {Verdict(new)} \union (IF reload_yaml = None THEN {"ConfigInvalid"} ELSE {})
    IN
    /\ proc = "up" /\ pc = "loop" /\ co.state = "Validating"
    /\ \E verdict \in verdicts :
          /\ co' = Step(co, verdict)
          /\ pending' = IF verdict = "ConfigValid" THEN new ELSE pending
    /\ reload_yaml' = None
    /\ unread' = (unread /\ reload_yaml # None)
    /\ UNCHANGED <<opamp, disk, proc, pc, reload, current_config, shutdown, persists, effective,
                   built>>

Exits ==
    /\ proc = "up" /\ pc = "loop" /\ co.state \in Terminal
    /\ Ends(IF co.state = "Fatal" THEN "error" ELSE "ok")
    /\ UNCHANGED disk

LoopStep ==
    \/ Boots \/ PipelinesBuilt \/ BuildFails \/ Drained \/ DrainTimesOut \/ Validates \/ Exits

ReloadStep ==
    \/ LoopStep \/ ShutsDown \/ ReloadReceived \/ Crash
    \/ \E event \in {"PipelineCompleted", "PipelineErrored"} : Completes(event)
    \/ \E c \in Pushed : OnAgentRemoteConfig(c)
    \/ \E c \in Configs : Persist(c)

ReloadInit ==
    /\ opamp \in OpampModes
    /\ disk \in Configs \ Broken
    /\ proc = "ok" /\ pc = "gone" /\ co = NewCoordinator
    /\ reload = None /\ reload_yaml = None /\ pending = None /\ built = None
    /\ current_config = disk /\ effective = disk
    /\ shutdown = FALSE /\ persists = {} /\ unread = FALSE
=============================================================================
