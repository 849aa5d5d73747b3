--------------------------- MODULE SupervisorProofs --------------------------
(***************************************************************************)
(* Proofs about ReloadLoop and Supervisor, for every set of configurations *)
(* and every number of rebuild attempts, with and without OpAMP and        *)
(* supervisor.                                                             *)
(***************************************************************************)
EXTENDS Supervisor, TLAPS

-----------------------------------------------------------------------------
(* The coordinator.                                                        *)

States == {"Starting", "Running", "Draining", "Validating", "Building"} \union Terminal

Coordinators == [state : States, has_pending : BOOLEAN, rebuild_attempts : 0..MaxRebuildAttempts]

(* ReloadCoordinator::step while the first pipelines are built.            *)
LEMMA StepFromStarting ==
  ASSUME NEW c, c.state = "Starting"
  PROVE  /\ Step(c, "PipelinesBuilt") = [c EXCEPT !.state = "Running"]
         /\ Step(c, "BuildFailed") = [c EXCEPT !.state = "Fatal"]
  BY DEF Step, Terminal

(* ReloadCoordinator::step while pipelines run; a drain that completes is  *)
(* two steps of it in a row.                                               *)
LEMMA StepFromRunning ==
  ASSUME NEW c \in Coordinators, c.state = "Running"
  PROVE  /\ Step(c, "PipelineCompleted") = [c EXCEPT !.state = "ShuttingDown"]
         /\ Step(c, "PipelineErrored") = [c EXCEPT !.state = "Fatal"]
         /\ Step(c, "ShutdownRequested") = [c EXCEPT !.state = "ShuttingDown"]
         /\ Step(Step(c, "ReloadRequested"), "DrainCompleted") = [c EXCEPT !.state = "Validating"]
  BY DEF Step, Terminal, Coordinators

(* ReloadCoordinator::step with the verdict on a new configuration.        *)
LEMMA StepFromValidating ==
  ASSUME NEW c, c.state = "Validating"
  PROVE  /\ Step(c, "ConfigValid") = Validated(c, TRUE)
         /\ \A event \in {"ConfigInvalid", "ConfigNotReloadable", "ConfigUnchanged"} :
               Step(c, event) = Validated(c, FALSE)
  BY DEF Step, Terminal

(* ReloadCoordinator::step while pipelines are rebuilt.                    *)
LEMMA StepFromBuilding ==
  ASSUME NEW c, c.state = "Building"
  PROVE  /\ Step(c, "PipelinesBuilt") =
               [state |-> "Running", has_pending |-> FALSE, rebuild_attempts |-> 0]
         /\ Step(c, "BuildFailed") = BuildFailed(c)
  BY DEF Step, Terminal

-----------------------------------------------------------------------------
(* The inductive invariant.                                                *)

Valid == Configs \ Broken

(* The process is up exactly while its loop is somewhere, and the state of *)
(* the coordinator is the one that place of the loop expects.              *)
LoopState ==
    /\ (pc = "gone") <=> (proc # "up")
    /\ pc = "boot" => co.state = "Starting"
    /\ pc \in {"select", "drain"} => co.state = "Running"
    /\ pc = "loop" => co.state \notin {"Running", "Draining"}

(* A pending configuration exists exactly while the coordinator, which is  *)
(* then building, says so; there are attempts left while it builds.        *)
PendingState ==
    proc = "up" =>
        /\ (pending # None) <=> (co.has_pending = TRUE)
        /\ co.has_pending = TRUE => co.state = "Building"
        /\ co.state = "Building" => co.rebuild_attempts < MaxRebuildAttempts

(* What the process holds was validated, and it reports what it holds.     *)
ConfigState ==
    /\ opamp => effective = current_config
    /\ proc = "up" => current_config \in Valid
    /\ pc = "select" => built = current_config

(* The remote configuration flow has a configuration in hand.              *)
FlowState == sup \in {"write", "signal", "window"} => flow \in Valid

(* Without OpAMP only the request to read the file is ever queued.         *)
DiskOnly == ~opamp => reload \in {None, Disk} /\ reload_yaml = None

ControlInv ==
    /\ TypeOK /\ LoopState /\ PendingState /\ ConfigState /\ FlowState
    /\ DiskOnly /\ TriggerRereads

(* The initial states satisfy the invariant.                               *)
LEMMA InitInv == Init => ControlInv
<1> SUFFICES ASSUME Init PROVE ControlInv
  OBVIOUS
<1> USE ReloadAssumptions, SupervisedAssumption DEF Init, ReloadInit, NewCoordinator, Valid
<1>1. TypeOK
  <2>1. co \in Coordinators
    BY DEF Coordinators, States
  <2>2. sup \in {"off", "spawn"}
    OBVIOUS
  <2> QED BY <2>1, <2>2 DEF TypeOK, Coordinators, States
<1>2. LoopState /\ PendingState /\ ConfigState /\ FlowState /\ DiskOnly /\ TriggerRereads
  BY DEF LoopState, PendingState, ConfigState, FlowState, DiskOnly, TriggerRereads
<1> QED BY <1>1, <1>2 DEF ControlInv

-----------------------------------------------------------------------------
(* Steps that the supervisor and the process take together.  The lemmas    *)
(* are about the part of the process; SupOK' is what is left to show.      *)

SupOK ==
    /\ sup \in {"off", "spawn", "watch", "backoff", "write", "signal", "window", "stopping", "done"}
    /\ sup_reload \in Valid \union {None, Disk}
    /\ flow \in Valid \union {None} /\ sup_effective \in Configs /\ sup_term \in BOOLEAN
    /\ FlowState

(* The invariant contains what the supervisor needs.                       *)
LEMMA SupPart == ControlInv => SupOK
  BY DEF ControlInv, TypeOK, SupOK, Valid

(* The start of a process from the file on disk.                           *)
LEMMA StartKeeps == ControlInv /\ Start /\ SupOK' => ControlInv'
<1> SUFFICES ASSUME ControlInv, Start, SupOK' PROVE ControlInv'
  OBVIOUS
<1> USE ReloadAssumptions DEF Start, SupOK, NewCoordinator, Valid
<1>1. TypeOK'
  <2>1. (co \in Coordinators)'
    BY DEF Coordinators, States
  <2> QED BY <2>1 DEF ControlInv, TypeOK, Coordinators, States
<1>2. LoopState' /\ PendingState' /\ ConfigState' /\ FlowState' /\ DiskOnly' /\ TriggerRereads'
  BY DEF ControlInv, TypeOK, LoopState, PendingState, ConfigState, DiskOnly, TriggerRereads
<1> QED BY <1>1, <1>2 DEF ControlInv

(* The end of a process: a crash, an exit, a failed drain.                 *)
LEMMA EndsKeeps ==
  ASSUME NEW how \in {"ok", "error"}
  PROVE  ControlInv /\ Ends(how) /\ UNCHANGED disk /\ SupOK' => ControlInv'
<1> SUFFICES ASSUME ControlInv, Ends(how), UNCHANGED disk, SupOK' PROVE ControlInv'
  OBVIOUS
<1> USE ReloadAssumptions DEF Ends, SupOK, Valid
<1>1. TypeOK'
  BY DEF ControlInv, TypeOK
<1>2. LoopState' /\ PendingState' /\ ConfigState' /\ FlowState' /\ DiskOnly' /\ TriggerRereads'
  BY DEF ControlInv, TypeOK, LoopState, PendingState, ConfigState, DiskOnly, TriggerRereads
<1> QED BY <1>1, <1>2 DEF ControlInv

(* SIGHUP, the file watcher or the HTTP endpoint.                          *)
LEMMA TriggerKeeps == ControlInv /\ proc = "up" /\ Trigger /\ UNCHANGED disk /\ SupOK' => ControlInv'
<1> SUFFICES ASSUME ControlInv, proc = "up", Trigger, UNCHANGED disk, SupOK' PROVE ControlInv'
  OBVIOUS
<1>1. CASE pc = "boot"
  BY <1>1, EndsKeeps DEF Trigger
<1>2. CASE pc # "boot"
  <2> USE <1>2, ReloadAssumptions DEF Trigger, TrySend, SupOK, Valid, loopVars
  <2>1. TypeOK'
    BY DEF ControlInv, TypeOK
  <2>2. LoopState' /\ PendingState' /\ ConfigState' /\ FlowState' /\ DiskOnly' /\ TriggerRereads'
    BY DEF ControlInv, TypeOK, LoopState, PendingState, ConfigState, DiskOnly, TriggerRereads
  <2> QED BY <2>1, <2>2 DEF ControlInv
<1> QED BY <1>1, <1>2

(* SIGTERM and SIGINT.                                                     *)
LEMMA TerminateKeeps == ControlInv /\ Terminate /\ UNCHANGED disk /\ SupOK' => ControlInv'
<1> SUFFICES ASSUME ControlInv, Terminate, UNCHANGED disk, SupOK' PROVE ControlInv'
  OBVIOUS
<1>1. CASE pc = "boot"
  BY <1>1, EndsKeeps DEF Terminate
<1>2. CASE pc # "boot"
  <2> USE <1>2, ReloadAssumptions DEF Terminate, SupOK, Valid, loopVars
  <2>1. TypeOK'
    BY DEF ControlInv, TypeOK
  <2>2. LoopState' /\ PendingState' /\ ConfigState' /\ FlowState' /\ DiskOnly' /\ TriggerRereads'
    BY DEF ControlInv, TypeOK, LoopState, PendingState, ConfigState, DiskOnly, TriggerRereads
  <2> QED BY <2>1, <2>2 DEF ControlInv
<1> QED BY <1>1, <1>2

(* The file changes, to a configuration that need not be valid.            *)
LEMMA DiskKeeps == ControlInv /\ disk' \in Configs /\ UNCHANGED procVars /\ SupOK' => ControlInv'
<1> SUFFICES ASSUME ControlInv, disk' \in Configs, UNCHANGED procVars, SupOK' PROVE ControlInv'
  OBVIOUS
<1> USE ReloadAssumptions DEF procVars, loopVars, SupOK, Valid
<1>1. TypeOK'
  BY DEF ControlInv, TypeOK
<1>2. LoopState' /\ PendingState' /\ ConfigState' /\ FlowState' /\ DiskOnly' /\ TriggerRereads'
  BY DEF ControlInv, TypeOK, LoopState, PendingState, ConfigState, DiskOnly, TriggerRereads
<1> QED BY <1>1, <1>2 DEF ControlInv

-----------------------------------------------------------------------------
(* The loop of run_pipelines.                                              *)

(* The state of the supervisor is unchanged by the steps of the process.   *)
LEMMA SupUnchanged == ControlInv /\ UNCHANGED supVars => SupOK'
  BY SupPart DEF SupOK, FlowState, supVars, Valid

(* Pipelines are built, for the first time or after a reload.              *)
LEMMA BuiltKeeps == ControlInv /\ PipelinesBuilt /\ UNCHANGED supVars => ControlInv'
<1> SUFFICES ASSUME ControlInv, PipelinesBuilt, UNCHANGED supVars PROVE ControlInv'
  OBVIOUS
<1> USE ReloadAssumptions
<1>1. co \in Coordinators /\ co.state \in {"Starting", "Building"} /\ proc = "up" /\ pc = "loop"
  BY DEF ControlInv, TypeOK, PipelinesBuilt, Coordinators, States
<1>2. /\ co' \in Coordinators /\ co'.state = "Running" /\ co'.has_pending = FALSE
  <2>1. CASE co.state = "Starting"
    <3>1. co' = [co EXCEPT !.state = "Running"]
      BY <2>1, StepFromStarting DEF PipelinesBuilt
    <3>2. co.has_pending = FALSE
      BY <1>1, <2>1 DEF ControlInv, PendingState, Coordinators
    <3> QED BY <1>1, <3>1, <3>2 DEF Coordinators, States
  <2>2. CASE co.state = "Building"
    <3>1. co' = [state |-> "Running", has_pending |-> FALSE, rebuild_attempts |-> 0]
      BY <2>2, StepFromBuilding DEF PipelinesBuilt
    <3> QED BY <3>1 DEF Coordinators, States
  <2> QED BY <1>1, <2>1, <2>2
<1>3. SupOK'
  BY SupUnchanged
<1>4. /\ pending' = None /\ built' = current_config' /\ built' \in Valid
      /\ opamp => effective' = current_config'
      /\ effective' \in Configs /\ persists' \subseteq Valid
  <2>1. CASE pending # None
    <3>1. co.has_pending = TRUE /\ co.state = "Building"
      BY <1>1, <2>1 DEF ControlInv, PendingState
    <3>2. /\ built' = pending /\ current_config' = pending /\ pending' = None
          /\ effective' = IF opamp THEN pending ELSE effective
          /\ persists' = IF opamp THEN persists \union {pending} ELSE persists
      BY <2>1, <3>1, Zenon DEF PipelinesBuilt, BuildConfig
    <3> QED BY <2>1, <3>2 DEF BuildConfig, ControlInv, TypeOK, ConfigState, Valid
  <2>2. CASE pending = None
    BY <1>1, <2>2 DEF PipelinesBuilt, BuildConfig, ControlInv, TypeOK, ConfigState, Valid
  <2> QED BY <2>1, <2>2
<1>5. TypeOK'
  BY <1>2, <1>3, <1>4 DEF ControlInv, TypeOK, PipelinesBuilt, SupOK, Coordinators, States, Valid
<1>6. LoopState' /\ PendingState' /\ ConfigState' /\ FlowState' /\ DiskOnly'
  BY <1>1, <1>2, <1>3, <1>4
  DEF ControlInv, PipelinesBuilt, LoopState, PendingState, ConfigState, SupOK, DiskOnly
<1>7. TriggerRereads'
  BY <1>1 DEF ControlInv, TriggerRereads, PipelinesBuilt, Terminal
<1> QED BY <1>5, <1>6, <1>7 DEF ControlInv

(* A build that fails falls back to the running configuration, or ends.    *)
LEMMA BuildFailsKeeps == ControlInv /\ BuildFails /\ UNCHANGED supVars => ControlInv'
<1> SUFFICES ASSUME ControlInv, BuildFails, UNCHANGED supVars PROVE ControlInv'
  OBVIOUS
<1> USE ReloadAssumptions
<1>1. co \in Coordinators /\ co.state \in {"Starting", "Building"} /\ proc = "up" /\ pc = "loop"
  BY DEF ControlInv, TypeOK, BuildFails, Coordinators, States
<1>2. /\ co' \in Coordinators /\ co'.state \in {"Building", "Fatal"} /\ co'.has_pending = FALSE
      /\ co'.state = "Building" => co'.rebuild_attempts < MaxRebuildAttempts
  <2>1. CASE co.state = "Starting"
    BY <1>1, <2>1, StepFromStarting
    DEF BuildFails, Coordinators, States, Terminal, ControlInv, PendingState
  <2>2. CASE co.state = "Building"
    <3>1. co.rebuild_attempts \in 0..MaxRebuildAttempts /\ co.rebuild_attempts < MaxRebuildAttempts
      BY <1>1, <2>2 DEF ControlInv, PendingState, Coordinators
    <3>2. co' = BuildFailed(co)
      BY <2>2, StepFromBuilding DEF BuildFails
    <3>3. co.rebuild_attempts + 1 \in 0..MaxRebuildAttempts
      BY <3>1
    <3> QED BY <3>1, <3>2, <3>3 DEF BuildFailed, Coordinators, States, Terminal
  <2> QED BY <1>1, <2>1, <2>2
<1>3. SupOK'
  BY SupUnchanged
<1>4. TypeOK'
  BY <1>2, <1>3 DEF ControlInv, TypeOK, BuildFails, SupOK, Coordinators, States, Valid
<1>5. LoopState' /\ PendingState' /\ ConfigState' /\ FlowState' /\ DiskOnly'
  BY <1>1, <1>2, <1>3
  DEF ControlInv, BuildFails, LoopState, PendingState, ConfigState, SupOK, DiskOnly
<1>6. TriggerRereads'
  BY <1>1 DEF ControlInv, TriggerRereads, BuildFails, Terminal
<1> QED BY <1>4, <1>5, <1>6 DEF ControlInv

(* The pipelines have drained for a reload.                                *)
LEMMA DrainedKeeps == ControlInv /\ Drained /\ UNCHANGED supVars => ControlInv'
<1> SUFFICES ASSUME ControlInv, Drained, UNCHANGED supVars PROVE ControlInv'
  OBVIOUS
<1> USE ReloadAssumptions
<1>1. co \in Coordinators /\ co.state = "Running" /\ proc = "up" /\ pc = "drain"
  BY DEF ControlInv, TypeOK, Drained, LoopState, Coordinators, States
<1>2. /\ co' \in Coordinators /\ co'.state = "Validating" /\ co'.has_pending = co.has_pending
  BY <1>1, StepFromRunning DEF Drained, Coordinators, States
<1>3. SupOK'
  BY SupUnchanged
<1>4. TypeOK'
  BY <1>2, <1>3 DEF ControlInv, TypeOK, Drained, SupOK, Coordinators, States, Valid
<1>5. LoopState' /\ PendingState' /\ ConfigState' /\ FlowState' /\ DiskOnly' /\ TriggerRereads'
  BY <1>1, <1>2, <1>3
  DEF ControlInv, Drained, LoopState, PendingState, ConfigState, SupOK, DiskOnly, TriggerRereads
<1> QED BY <1>4, <1>5 DEF ControlInv

(* The new configuration is read and judged.                               *)
LEMMA ValidatesKeeps == ControlInv /\ Validates /\ UNCHANGED supVars => ControlInv'
<1> SUFFICES ASSUME ControlInv, Validates, UNCHANGED supVars PROVE ControlInv'
  OBVIOUS
<1> USE ReloadAssumptions
<1>1. co \in Coordinators /\ co.state = "Validating" /\ proc = "up" /\ pc = "loop"
  BY DEF ControlInv, TypeOK, Validates, Coordinators, States
<1>2. pending = None
  BY <1>1 DEF ControlInv, PendingState
<1> DEFINE new == IF reload_yaml # None THEN reload_yaml ELSE disk
<1>3. PICK verdict \in {Verdict(new), "ConfigInvalid"} :
         /\ co' = Step(co, verdict)
         /\ pending' = IF verdict = "ConfigValid" THEN new ELSE pending
  BY DEF Validates
<1>4. new \in Configs
  BY DEF ControlInv, TypeOK
<1> HIDE DEF new
<1>5. /\ verdict \in {"ConfigValid", "ConfigInvalid", "ConfigNotReloadable", "ConfigUnchanged"}
      /\ verdict = "ConfigValid" => new \in Valid
  <2>1. CASE new \in Broken
    BY <1>3, <1>4, <2>1 DEF Verdict
  <2>2. CASE new \notin Broken
    BY <1>3, <1>4, <2>2 DEF Verdict, Valid
  <2> QED BY <2>1, <2>2
<1>6. /\ verdict = "ConfigValid" => co' = Validated(co, TRUE)
      /\ verdict # "ConfigValid" => co' = Validated(co, FALSE)
  BY <1>1, <1>3, <1>5, StepFromValidating
<1>7. /\ co' \in Coordinators /\ co'.state = "Building" /\ co'.rebuild_attempts = 0
      /\ (co'.has_pending = TRUE) <=> (verdict = "ConfigValid")
  <2>1. CASE verdict = "ConfigValid"
    <3>1. co' = [state |-> "Building", has_pending |-> TRUE, rebuild_attempts |-> 0]
      BY <1>1, <1>6, <2>1 DEF Validated, Coordinators
    <3> QED BY <2>1, <3>1 DEF Coordinators, States
  <2>2. CASE verdict # "ConfigValid"
    <3>1. co' = [state |-> "Building", has_pending |-> FALSE, rebuild_attempts |-> 0]
      BY <1>1, <1>6, <2>2 DEF Validated, Coordinators
    <3> QED BY <2>2, <3>1 DEF Coordinators, States
  <2> QED BY <2>1, <2>2
<1>8. /\ pending' \in Valid \union {None}
      /\ (pending' # None) <=> (verdict = "ConfigValid")
  BY <1>2, <1>3, <1>5 DEF Valid
<1>9. SupOK'
  BY SupUnchanged
<1>10. TypeOK'
  BY <1>7, <1>8, <1>9 DEF ControlInv, TypeOK, Validates, SupOK, Coordinators, States, Valid
<1>11. LoopState' /\ PendingState' /\ ConfigState' /\ FlowState' /\ DiskOnly'
  BY <1>1, <1>7, <1>8, <1>9
  DEF ControlInv, Validates, LoopState, PendingState, ConfigState, SupOK, DiskOnly
<1>12. TriggerRereads'
  BY DEF ControlInv, TriggerRereads, Validates, DiskOnly
<1> QED BY <1>10, <1>11, <1>12 DEF ControlInv

(* Steps that end the process, and the other steps that leave the          *)
(* coordinator alone.                                                      *)
LEMMA OtherLoopStepsKeep ==
  ControlInv /\ (Boots \/ DrainTimesOut \/ Exits \/ Crash \/ ReloadReceived) /\ UNCHANGED supVars
     => ControlInv'
<1> SUFFICES ASSUME ControlInv, UNCHANGED supVars,
                    Boots \/ DrainTimesOut \/ Exits \/ Crash \/ ReloadReceived
             PROVE  ControlInv'
  OBVIOUS
<1>1. SupOK'
  BY SupUnchanged
<1>2. CASE DrainTimesOut \/ Exits \/ Crash
  BY <1>1, <1>2, EndsKeeps DEF DrainTimesOut, Exits, Crash
<1>3. CASE Boots
  <2> USE <1>3, <1>1 DEF Boots, SupOK, Valid
  <2>1. TypeOK'
    BY DEF ControlInv, TypeOK
  <2>2. LoopState' /\ PendingState' /\ ConfigState' /\ FlowState' /\ DiskOnly' /\ TriggerRereads'
    BY DEF ControlInv, TypeOK, LoopState, PendingState, ConfigState, DiskOnly, TriggerRereads
  <2> QED BY <2>1, <2>2 DEF ControlInv
<1>4. CASE ReloadReceived
  <2> USE <1>4, <1>1, ReloadAssumptions DEF ReloadReceived, SupOK, Valid
  <2>1. TypeOK'
    BY DEF ControlInv, TypeOK
  <2>2. LoopState' /\ PendingState' /\ ConfigState' /\ FlowState' /\ DiskOnly' /\ TriggerRereads'
    BY DEF ControlInv, TypeOK, LoopState, PendingState, ConfigState, DiskOnly, TriggerRereads
  <2> QED BY <2>1, <2>2 DEF ControlInv
<1> QED BY <1>2, <1>3, <1>4

(* The pipelines end by themselves or are told to stop.                    *)
LEMMA StopsKeep ==
  ASSUME ControlInv, UNCHANGED supVars,
         ShutsDown \/ \E event \in {"PipelineCompleted", "PipelineErrored"} : Completes(event)
  PROVE  ControlInv'
<1>1. SupOK'
  BY SupUnchanged
<1>2. CASE Ends("error") /\ UNCHANGED disk
  BY <1>1, <1>2, EndsKeeps
<1>3. CASE \E event \in {"PipelineCompleted", "PipelineErrored", "ShutdownRequested"} :
             /\ proc = "up" /\ pc = "select"
             /\ co' = Step(co, event)
             /\ pc' = "loop" /\ built' = None
             /\ UNCHANGED <<opamp, disk, proc, reload, reload_yaml, current_config, pending,
                            shutdown, persists, effective, unread>>
  <2>1. co \in Coordinators /\ co.state = "Running"
    BY <1>3 DEF ControlInv, TypeOK, LoopState, Coordinators, States
  <2>2. co' \in {[co EXCEPT !.state = "ShuttingDown"], [co EXCEPT !.state = "Fatal"]}
    BY <1>3, <2>1, StepFromRunning
  <2>3. co' \in Coordinators /\ co'.state \in Terminal /\ co'.has_pending = co.has_pending
    BY <2>1, <2>2 DEF Coordinators, States, Terminal
  <2>4. TypeOK'
    BY <1>1, <1>3, <2>3 DEF ControlInv, TypeOK, SupOK, Coordinators, States, Valid
  <2>5. LoopState' /\ PendingState' /\ ConfigState' /\ FlowState' /\ DiskOnly' /\ TriggerRereads'
    BY <1>1, <1>3, <2>1, <2>3
    DEF ControlInv, SupOK, LoopState, PendingState, ConfigState, DiskOnly, TriggerRereads, Terminal
  <2> QED BY <2>4, <2>5 DEF ControlInv
<1> QED BY <1>2, <1>3 DEF ShutsDown, Completes

(* A configuration is pushed, or a committed one is written to the file.   *)
LEMMA PushKeeps ==
  ASSUME ControlInv, UNCHANGED supVars,
         (\E c \in Pushed : OnAgentRemoteConfig(c)) \/ (\E c \in Configs : Persist(c))
  PROVE  ControlInv'
<1>1. SupOK'
  BY SupUnchanged
<1>2. CASE \E c \in Pushed : OnAgentRemoteConfig(c)
  <2> USE <1>2, <1>1, ReloadAssumptions DEF OnAgentRemoteConfig, TrySend, SupOK, Valid, loopVars
  <2>1. TypeOK'
    BY DEF ControlInv, TypeOK
  <2>2. LoopState' /\ PendingState' /\ ConfigState' /\ FlowState' /\ DiskOnly' /\ TriggerRereads'
    BY DEF ControlInv, TypeOK, LoopState, PendingState, ConfigState, DiskOnly, TriggerRereads
  <2> QED BY <2>1, <2>2 DEF ControlInv
<1>3. CASE \E c \in Configs : Persist(c)
  <2> USE <1>3, <1>1, ReloadAssumptions DEF Persist, SupOK, Valid, loopVars
  <2>1. TypeOK'
    BY DEF ControlInv, TypeOK
  <2>2. LoopState' /\ PendingState' /\ ConfigState' /\ FlowState' /\ DiskOnly' /\ TriggerRereads'
    BY DEF ControlInv, TypeOK, LoopState, PendingState, ConfigState, DiskOnly, TriggerRereads
  <2> QED BY <2>1, <2>2 DEF ControlInv
<1> QED BY <1>2, <1>3

(* Every step of the process.                                              *)
LEMMA ReloadStepKeeps == ControlInv /\ ReloadStep /\ UNCHANGED supVars => ControlInv'
  BY BuiltKeeps, BuildFailsKeeps, DrainedKeeps, ValidatesKeeps, OtherLoopStepsKeep, StopsKeep,
     PushKeeps
  DEF ReloadStep, LoopStep

-----------------------------------------------------------------------------
(* The supervisor.                                                         *)

(* A step that leaves the process alone.                                   *)
LEMMA SupAlone == ControlInv /\ UNCHANGED reloadVars /\ SupOK' => ControlInv'
<1> SUFFICES ASSUME ControlInv, UNCHANGED reloadVars, SupOK' PROVE ControlInv'
  OBVIOUS
<1>1. UNCHANGED procVars /\ disk' \in Configs
  BY DEF reloadVars, ControlInv, TypeOK
<1> QED BY <1>1, DiskKeeps

(* Every step of the supervisor.                                           *)
LEMMA SupStepKeeps == ControlInv /\ SupStep => ControlInv'
<1> SUFFICES ASSUME ControlInv, SupStep PROVE ControlInv'
  OBVIOUS
<1>1. SupOK
  BY SupPart
<1>2. CASE Spawn
  <2>1. SupOK'
    BY <1>1, <1>2 DEF Spawn, SupGoes, SupOK, FlowState, Valid
  <2> QED BY <1>2, <2>1, StartKeeps DEF Spawn
<1>3. CASE ChildExited \/ BackoffEnds \/ ChildStopped
  <2>1. SupOK' /\ UNCHANGED reloadVars
    BY <1>1, <1>3
    DEF ChildExited, AfterExit, BackoffEnds, ChildStopped, SupGoes, SupOK, FlowState, Valid
  <2> QED BY <2>1, SupAlone
<1>4. CASE SupTerminates
  <2>1. SupOK'
    BY <1>1, <1>4 DEF SupTerminates, SupGoes, SupOK, FlowState, Valid
  <2> QED BY <1>4, <2>1, SupAlone, TerminateKeeps DEF SupTerminates
<1>5. CASE ChildKilled
  <2>1. SupOK'
    BY <1>1, <1>5 DEF ChildKilled, SupGoes, SupOK, FlowState, Valid
  <2> QED BY <1>5, <2>1, EndsKeeps DEF ChildKilled
<1>6. CASE SupReload
  <2>1. SupOK' /\ UNCHANGED reloadVars
    BY <1>1, <1>6, ReloadAssumptions DEF SupReload, AfterExit, SupOK, FlowState, Valid
  <2> QED BY <2>1, SupAlone
<1>7. CASE FlowWrites
  <2>1. SupOK' /\ UNCHANGED procVars
    BY <1>1, <1>7 DEF FlowWrites, FlowEnds, SupGoes, SupOK, FlowState, Valid
  <2>2. disk' \in Configs
    BY <1>1, <1>7 DEF FlowWrites, SupOK, FlowState, Valid, ControlInv, TypeOK
  <2> QED BY <2>1, <2>2, DiskKeeps
<1>8. CASE FlowSignals
  <2>1. SupOK'
    BY <1>1, <1>8 DEF FlowSignals, SupGoes, SupOK, FlowState, Valid
  <2> QED BY <1>8, <2>1, SupAlone, TriggerKeeps DEF FlowSignals
<1>9. CASE FlowWaits
  <2>1. SupOK' /\ UNCHANGED reloadVars
    BY <1>1, <1>9 DEF FlowWaits, FlowEnds, SupOK, FlowState, Valid
  <2> QED BY <2>1, SupAlone
<1> QED BY <1>2, <1>3, <1>4, <1>5, <1>6, <1>7, <1>8, <1>9 DEF SupStep

(* Every step of the system.                                               *)
LEMMA NextKeeps == ControlInv /\ [Next]_vars => ControlInv'
<1> SUFFICES ASSUME ControlInv, [Next]_vars PROVE ControlInv'
  OBVIOUS
<1>1. SupOK
  BY SupPart
<1>2. CASE \E payload \in Pushed \union {Disk} : SupPush(payload)
  <2>1. SupOK' /\ UNCHANGED reloadVars
    BY <1>1, <1>2, ReloadAssumptions DEF SupPush, SupOK, FlowState, Valid
  <2> QED BY <2>1, SupAlone
<1>3. CASE SupSignal
  <2>1. SupOK' /\ UNCHANGED reloadVars
    BY <1>1, <1>3 DEF SupSignal, SupOK, FlowState, Valid
  <2> QED BY <2>1, SupAlone
<1>4. CASE ServiceRestarts
  BY <1>4, SupUnchanged, StartKeeps DEF ServiceRestarts
<1>5. CASE ServiceStops
  BY <1>5, SupUnchanged, TerminateKeeps DEF ServiceStops, supVars
<1>6. CASE OperatorReloads
  BY <1>6, SupUnchanged, TriggerKeeps DEF OperatorReloads, supVars
<1>7. CASE OperatorEdits
  BY <1>7, SupUnchanged, DiskKeeps DEF OperatorEdits, Edit
<1>8. CASE UNCHANGED vars
  BY <1>8, SupUnchanged, SupAlone DEF vars
<1> QED BY <1>2, <1>3, <1>4, <1>5, <1>6, <1>7, <1>8, ReloadStepKeeps, SupStepKeeps DEF Next

-----------------------------------------------------------------------------
(* Results.                                                                *)

(* The loop, the coordinator, the pending configuration and the reload     *)
(* channel are in step with each other in every reachable state.           *)
THEOREM ControlInvariant == Spec => []ControlInv
<1>1. Init => ControlInv
  BY InitInv
<1>2. ControlInv /\ [Next]_vars => ControlInv'
  BY NextKeeps
<1> QED BY <1>1, <1>2, PTL DEF Spec

(* The variables of process and supervisor keep their types.               *)
THEOREM ControlTypes == Spec => []TypeOK
<1>1. ControlInv => TypeOK
  BY DEF ControlInv
<1> QED BY <1>1, ControlInvariant, PTL

(* What runs is what run_pipelines believes it runs and what the OpAMP     *)
(* client reports, over every sequence of reloads, failed builds and       *)
(* restarts.                                                               *)
THEOREM RunningIsReported == Spec => []RunsItsConfig
<1>1. ControlInv => RunsItsConfig
  BY DEF ControlInv, ConfigState, RunsItsConfig
<1> QED BY <1>1, ControlInvariant, PTL

(* The debug assertions of run_pipelines hold, and its copy of the pending *)
(* configuration agrees with the coordinator's flag.                       *)
THEOREM LoopAgrees == Spec => []LoopIsSound
<1>1. ControlInv => LoopIsSound
  <2> SUFFICES ASSUME ControlInv, proc = "up" PROVE LoopIsSound
    BY DEF LoopIsSound
  <2>1. co.has_pending \in BOOLEAN
    BY DEF ControlInv, TypeOK
  <2>2. (pending # None) = co.has_pending
    BY <2>1 DEF ControlInv, PendingState
  <2>3. /\ pc = "loop" => co.state \notin {"Running", "Draining"}
        /\ pc = "select" => co.state = "Running"
    BY DEF ControlInv, LoopState
  <2> QED BY <2>2, <2>3 DEF LoopIsSound
<1> QED BY <1>1, ControlInvariant, PTL

(* Without OpAMP no trigger of a reload is lost in the one-slot channel.   *)
THEOREM TriggersAreRead == Spec => []TriggerRereads
<1>1. ControlInv => TriggerRereads
  BY DEF ControlInv
<1> QED BY <1>1, ControlInvariant, PTL
=============================================================================
