----------------------------- MODULE Supervisor ------------------------------
(***************************************************************************)
(* `ff supervised` (crates/ffwd/src/supervisor.rs and config_flow.rs): it  *)
(* spawns `ff run` (ReloadLoop) as its child, has an OpAMP client and a    *)
(* reload channel of its own, writes pushed configurations to the file,    *)
(* sends SIGHUP, and respawns a child that ended with an error.  Without   *)
(* the supervisor, a service manager restarts the process.                 *)
(*                                                                         *)
(* The child reads the same file, opamp section included, so it has an     *)
(* OpAMP client too.  The length of the backoff and of the reload          *)
(* stability window is left out: both end at any moment.                   *)
(***************************************************************************)
EXTENDS ReloadLoop

CONSTANT SupervisedModes    \* whether there is a supervisor

ASSUME SupervisedAssumption == SupervisedModes \subseteq BOOLEAN

VARIABLES
    sup,                \* where cmd_supervised is; "off" without a supervisor
    sup_reload,         \* its reload channel: None when empty
    flow,               \* the configuration ConfigFlow is working on
    sup_effective,      \* effective_config of the supervisor's OpAMP client
    sup_term            \* SIGTERM or SIGINT arrived

supVars == <<sup, sup_reload, flow, sup_effective, sup_term>>
vars == <<reloadVars, supVars>>

Supervised == sup # "off"
Running == Supervised /\ sup # "done"

-----------------------------------------------------------------------------
(***************************************************************************)
(* The OpAMP client of the supervisor and its signals.                     *)
(***************************************************************************)

\* A pushed configuration, or the restart command (Disk).
SupPush(payload) ==
    /\ Running /\ opamp
    /\ payload \notin Broken
    /\ sup_reload = None
    /\ sup_reload' = payload
    /\ UNCHANGED <<reloadVars, sup, flow, sup_effective, sup_term>>

SupSignal ==
    /\ Running /\ ~sup_term
    /\ sup_term' = TRUE
    /\ UNCHANGED <<reloadVars, sup, sup_reload, flow, sup_effective>>

-----------------------------------------------------------------------------
(***************************************************************************)
(* The supervisor loop.                                                    *)
(***************************************************************************)

SupGoes(to) == sup' = to /\ UNCHANGED <<sup_reload, flow, sup_effective, sup_term>>

Spawn == sup = "spawn" /\ Start /\ SupGoes("watch")

\* Mutant of AfterExit: a child that ended normally does not end the supervisor.
AfterExitWatches(onError) == IF proc = "ok" THEN "watch" ELSE onError

\* How the loop goes on once it knows that the child has ended.
AfterExit(onError) == IF proc = "ok" THEN "done" ELSE onError

ChildExited == sup = "watch" /\ proc # "up" /\ SupGoes(AfterExit("backoff")) /\ UNCHANGED reloadVars

BackoffEnds ==
    /\ sup = "backoff"
    /\ SupGoes("spawn") \/ (sup_term /\ SupGoes("done"))
    /\ UNCHANGED reloadVars

\* The signal is forwarded to a child that is alive; wait_or_kill follows.
SupTerminates ==
    /\ sup = "watch" /\ sup_term
    /\ SupGoes("stopping")
    /\ IF proc = "up" THEN Terminate /\ UNCHANGED disk ELSE UNCHANGED reloadVars

ChildStopped == sup = "stopping" /\ proc # "up" /\ SupGoes("done") /\ UNCHANGED reloadVars

\* The child has not ended after 30 s.
ChildKilled == sup = "stopping" /\ proc = "up" /\ Ends("error") /\ SupGoes("done") /\ UNCHANGED disk

\* The reload arm: a child found dead is respawned at once and the payload is gone;
\* otherwise handle_remote_config validates it.  The restart command is ignored.
SupReload ==
    /\ sup = "watch" /\ sup_reload # None
    /\ sup_reload' = None
    /\ IF proc # "up"
       THEN sup' = AfterExit("spawn") /\ UNCHANGED flow
       ELSE IF sup_reload = Disk
       THEN UNCHANGED <<sup, flow>>
       ELSE sup' = "write" /\ flow' = sup_reload
    /\ UNCHANGED <<reloadVars, sup_effective, sup_term>>

FlowEnds == flow' = None /\ sup' = "watch" /\ UNCHANGED <<sup_reload, sup_term>>

\* atomic_write_config succeeds, or fails and leaves the file as it was.
FlowWrites ==
    /\ sup = "write"
    /\ \/ disk' = flow /\ SupGoes("signal")
       \/ disk' = disk /\ FlowEnds /\ UNCHANGED sup_effective
    /\ UNCHANGED procVars

\* SIGHUP; a child that ended in the meantime is a zombie and takes it silently.
FlowSignals ==
    /\ sup = "signal"
    /\ SupGoes("window")
    /\ IF proc = "up" THEN Trigger /\ UNCHANGED disk ELSE UNCHANGED reloadVars

\* The stability window is over, or the child is found to have ended in it.
FlowWaits ==
    /\ sup = "window"
    /\ FlowEnds
    /\ sup_effective' = IF proc = "up" THEN flow ELSE sup_effective
    /\ UNCHANGED reloadVars

SupStep ==
    \/ Spawn \/ ChildExited \/ BackoffEnds \/ SupTerminates \/ ChildStopped \/ ChildKilled
    \/ SupReload \/ FlowWrites \/ FlowSignals \/ FlowWaits

-----------------------------------------------------------------------------

\* A service manager restarts a process that failed, and stops it.
ServiceRestarts == ~Supervised /\ proc # "up" /\ Start /\ UNCHANGED supVars
ServiceStops == ~Supervised /\ proc = "up" /\ Terminate /\ UNCHANGED <<disk, supVars>>

OperatorReloads == proc = "up" /\ Trigger /\ UNCHANGED <<disk, supVars>>
OperatorEdits == \E c \in Configs : Edit(c) /\ UNCHANGED supVars

Init ==
    /\ ReloadInit
    /\ sup \in {IF s THEN "spawn" ELSE "off" : s \in SupervisedModes}
    /\ (sup = "off" \/ opamp)           \* "supervised mode requires an `opamp:` section"
    /\ sup_reload = None /\ flow = None /\ sup_effective = disk /\ sup_term = FALSE

Next ==
    \/ ReloadStep /\ UNCHANGED supVars
    \/ SupStep
    \/ \E payload \in Pushed \union {Disk} : SupPush(payload)
    \/ SupSignal
    \/ ServiceRestarts \/ ServiceStops \/ OperatorReloads \/ OperatorEdits

Spec == Init /\ [][Next]_vars

\* The two processes keep running, and tokio's select! picks a ready arm at random, so
\* an arm that is ready again and again is picked in the end.  The pipelines need not
\* end, nothing need be pushed, edited or signalled, and nothing need crash.
Fairness ==
    /\ WF_vars(LoopStep /\ UNCHANGED supVars)
    /\ WF_vars(ReloadReceived /\ UNCHANGED supVars)
    /\ SF_vars(ShutsDown /\ UNCHANGED supVars)
    /\ WF_vars(SupStep)
    /\ SF_vars(SupTerminates)
FairSpec == Spec /\ Fairness

-----------------------------------------------------------------------------

TypeOK ==
    /\ opamp \in BOOLEAN /\ disk \in Configs
    /\ proc \in {"up", "ok", "error"}
    /\ pc \in {"gone", "boot", "loop", "select", "drain"}
    /\ co \in [state : {"Starting", "Running", "Draining", "Validating", "Building"} \union Terminal,
               has_pending : BOOLEAN, rebuild_attempts : 0..MaxRebuildAttempts]
    /\ reload \in (Configs \ Broken) \union {None, Disk}
    /\ {reload_yaml, pending, built, flow} \subseteq (Configs \ Broken) \union {None}
    /\ {current_config, effective, sup_effective} \subseteq Configs
    /\ shutdown \in BOOLEAN /\ persists \subseteq Configs \ Broken /\ unread \in BOOLEAN
    /\ sup \in {"off", "spawn", "watch", "backoff", "write", "signal", "window", "stopping", "done"}
    /\ sup_reload \in (Configs \ Broken) \union {None, Disk}
    /\ sup_term \in BOOLEAN

\* What runs is what the process believes it runs: the pipelines were built from
\* current_config and, with an OpAMP client in the process, from the configuration it
\* reports as effective.  The loop keeps `pending` beside the coordinator's has_pending,
\* and a rebuild after a failure must fall back to the old configuration in both.
RunsItsConfig ==
    pc = "select" => built = current_config /\ (opamp => effective = current_config)

\* The two states the loop calls a logic error (debug_assert!) are never met in it, and a
\* pending configuration is never left behind by a reload that is over.
LoopIsSound ==
    proc = "up" =>
        /\ pc = "loop" => co.state \notin {"Running", "Draining"}
        /\ pc = "select" => co.state = "Running"
        /\ (pending # None) = co.has_pending

\* Without OpAMP a reload trigger is never lost: as long as the file was not read after
\* it, a reload that reads the file is queued or on its way, even if the trigger itself
\* found the channel full.
TriggerRereads ==
    (proc = "up" /\ unread /\ ~opamp /\ co.state \notin Terminal) =>
        \/ reload = Disk
        \/ pc = "drain" \/ co.state = "Validating"

\* A reload ends: whatever the new configuration and however often the build fails, the
\* process gets back to running pipelines or ends.
ReloadSettles == (proc = "up" /\ pc # "select") ~> (pc \in {"select", "gone"})

\* The supervisor never waits for ever: a child that ended is respawned unless the
\* supervisor itself ends.
ChildComesBack == (Running /\ proc # "up") ~> (sup = "done" \/ proc = "up" \/ disk \in Broken)

\* SIGTERM ends the processes, also when it arrives while a pushed configuration is being
\* written, a reload is under way or further reloads keep coming.
TermStops ==
    /\ sup_term ~> (sup = "done" /\ proc # "up")
    /\ shutdown ~> (pc = "gone")

\* A configuration the supervisor reports as effective was applied by the child.
ReportedWasApplied == [][sup_effective' # sup_effective => current_config = sup_effective']_vars
=============================================================================
