-------------------------- MODULE OutputSinksProofs --------------------------
(***************************************************************************)
(* The fanout's and the bulk sink's safety properties for any number of    *)
(* children, batches, rows, buffers and faults: what a batch's outcome     *)
(* says holds for every child, a child accepts a batch once, and the bulk  *)
(* sink neither forgets a row nor indexes one twice unnoticed.             *)
(***************************************************************************)
EXTENDS OutputSinks, FiniteSetTheorems, SequenceTheorems, TLAPS

Results == {"Ok", "Rejected", "RetryAfter", "IoError"}
ChildStates == {"Pending", "Ok", "Rejected"}
Parts == [rows : SUBSET Rows, depth : Nat]
Attempts == [kind : Results \cup {"Idle"}, rows : SUBSET Rows, rejected : SUBSET Rows]

(* The type of the state the arguments below are about.                    *)
SinkTypes ==
    /\ wpc \in {"idle", "sending", "backoff", "stopped"}
    /\ batch \in 0 .. MaxBatch
    /\ outcome \in [Batches -> {None, "Delivered", "Rejected", "PoolClosed"}]
    /\ states \in [ChildIds -> ChildStates]
    /\ child \in 1 .. (Children + 1)
    /\ any_pending \in BOOLEAN
    /\ oks \in [ChildIds -> [Batches -> Nat]]
    /\ rejects \in [ChildIds -> SUBSET Batches]
BulkTypes ==
    /\ pending \subseteq Rows /\ rejections \subseteq Rows
    /\ todo \in Seq(Parts)
    /\ attempt \in Attempts
    /\ accepted \in [Rows -> Nat]
    /\ refused \subseteq Rows /\ unsure \subseteq Rows

(* What the fanout remembers of a child is what the child has answered to  *)
(* the current batch, and later batches were not sent.                     *)
StatesTell ==
    /\ wpc \in {"sending", "backoff"} => batch \in Batches
    /\ \A c \in ChildIds, b \in Batches :
          /\ b = batch =>
                /\ states[c] = "Pending" => oks[c][b] = 0 /\ b \notin rejects[c]
                /\ states[c] = "Ok" => oks[c][b] = 1 /\ b \notin rejects[c]
                /\ states[c] = "Rejected" => oks[c][b] = 0 /\ b \in rejects[c]
          /\ b > batch => oks[c][b] = 0 /\ b \notin rejects[c] /\ outcome[b] = None

(* A child the loop has passed is settled, or any_pending is set.          *)
PassedIsMerged ==
    wpc = "sending" /\ ~any_pending =>
        \A c \in ChildIds : c < child => states[c] # "Pending"

FanoutInv == SinkTypes /\ StatesTell /\ PassedIsMerged /\ AcceptedOnce /\ OutcomeSpeaksForAll

(* The bulk sink runs only while the loop is at it.                        *)
BulkRunsAtChild ==
    /\ attempt # Idle =>
          wpc = "sending" /\ child \in BulkSinks /\ states[child] = "Pending"
    /\ attempt = Idle => todo = <<>>

(* A row that is not pending was indexed or rejected; while the batch is   *)
(* sent, a pending row is in a part that is to be sent, among the rows to  *)
(* send again, rejected or indexed.                                        *)
NoRowForgotten ==
    \A r \in Rows :
        /\ r \in pending \/ r \in rejections \/ accepted[r] > 0
        /\ attempt # Idle =>
              \/ \E i \in DOMAIN todo : r \in todo[i].rows
              \/ r \in attempt.rows \/ r \in attempt.rejected
              \/ r \in rejections \/ accepted[r] > 0

(* What is to be sent is sent once, and was not indexed unless its request *)
(* was lost.                                                               *)
SentOnce ==
    /\ \A r \in Rows \ unsure : accepted[r] <= 1
    /\ (\E c \in BulkSinks : states[c] = "Pending") /\ attempt = Idle =>
          \A r \in pending \ unsure : accepted[r] = 0
    /\ \A i \in DOMAIN todo :
          /\ todo[i].rows \subseteq pending /\ todo[i].rows \cap attempt.rows = {}
          /\ \A r \in todo[i].rows \ unsure : accepted[r] = 0
          /\ \A j \in DOMAIN todo : i # j => todo[i].rows \cap todo[j].rows = {}
    /\ \A r \in attempt.rows \ unsure : accepted[r] = 0

(* Rows to send again are left only by a result that asks for it, and      *)
(* every rejection was made by the server or the size limit.               *)
AttemptTells ==
    /\ attempt.kind \in {"Ok", "Rejected", "Idle"} => attempt.rows = {}
    /\ attempt.kind = "Idle" <=> attempt = Idle
    /\ rejections \cup attempt.rejected \subseteq refused

BulkInv == BulkTypes /\ BulkRunsAtChild /\ NoRowForgotten /\ SentOnce /\ AttemptTells

SinksInv == FanoutInv /\ BulkInv /\ RowsAccountedFor

-----------------------------------------------------------------------------
(* The fanout.                                                             *)

(* The sizes of the instance.                                              *)
LEMMA Sizes ==
    /\ Children \in Nat /\ Children >= 1 /\ MaxBatch \in Nat /\ MaxBatch >= 1
    /\ FileSinks \subseteq ChildIds /\ BulkSinks \subseteq ChildIds
    /\ FileSinks \cap BulkSinks = {}
    /\ None \notin Batches
BY SinkAssumptions DEF ChildIds, Batches

(* Before the first batch no child has been asked anything.                *)
LEMMA InitFanout == Init => FanoutInv
<1> SUFFICES ASSUME Init PROVE FanoutInv
  OBVIOUS
<1>1. SinkTypes
  <2>1. 1 \in 1 .. (Children + 1) /\ 0 \in 0 .. MaxBatch
    BY Sizes
  <2> QED BY <2>1 DEF Init, SinkTypes, AllPending, ChildStates
<1>2. StatesTell
  BY Sizes DEF Init, StatesTell, AllPending, Batches
<1>3. PassedIsMerged /\ AcceptedOnce
  BY DEF Init, PassedIsMerged, AcceptedOnce
<1>4. OutcomeSpeaksForAll
  <2>1. \A b \in Batches : outcome[b] = None
    BY DEF Init
  <2> QED BY <2>1, SinkAssumptions DEF OutcomeSpeaksForAll
<1> QED BY <1>1, <1>2, <1>3, <1>4 DEF FanoutInv

(* A step that asks no child and settles no batch.                         *)
LEMMA FanoutStutters ==
    ASSUME FanoutInv, UNCHANGED <<wpc, batch, outcome, fanoutVars, answerVars>>
    PROVE  FanoutInv'
BY DEF FanoutInv, SinkTypes, StatesTell, PassedIsMerged, AcceptedOnce, OutcomeSpeaksForAll,
       fanoutVars, answerVars

(* A new batch, which no child has seen.                                   *)
LEMMA TakeItemFanout ==
    ASSUME FanoutInv, TakeItem
    PROVE  FanoutInv'
<1> USE DEF FanoutInv, TakeItem, CallSendBatch, answerVars
<1>1. batch \in Nat /\ batch' = batch + 1 /\ batch' \in Batches /\ batch' \in 0 .. MaxBatch
  BY Sizes DEF SinkTypes, Batches
<1>2. states' = [c \in ChildIds |-> "Pending"]
  BY DEF BeginBatch, AllPending
<1>3. SinkTypes'
  <2>1. states' \in [ChildIds -> ChildStates] /\ child' \in 1 .. (Children + 1)
    BY <1>2, Sizes DEF ChildStates
  <2> QED BY <1>1, <2>1 DEF SinkTypes
<1>4. StatesTell'
  <2> SUFFICES ASSUME NEW c \in ChildIds, NEW b \in Batches, b >= batch'
               PROVE  oks[c][b] = 0 /\ b \notin rejects[c] /\ outcome[b] = None
    BY <1>1, <1>2 DEF StatesTell, Batches
  <2>1. b > batch
    BY <1>1 DEF Batches
  <2> QED BY <2>1 DEF StatesTell
<1>5. PassedIsMerged'
  BY Sizes DEF PassedIsMerged, ChildIds
<1>6. AcceptedOnce' /\ OutcomeSpeaksForAll'
  BY DEF AcceptedOnce, OutcomeSpeaksForAll
<1> QED BY <1>3, <1>4, <1>5, <1>6

(* The attempt is given up, or the next one begins, for the same batch.    *)
LEMMA AttemptFanout ==
    ASSUME FanoutInv, wpc \in {"sending", "backoff"},
           \/ wpc' = "backoff" /\ UNCHANGED <<child, any_pending>>
           \/ wpc' = "sending" /\ child' = 1 /\ any_pending' = FALSE,
           UNCHANGED <<batch, outcome, states, answerVars>>
    PROVE  FanoutInv'
<1> USE DEF FanoutInv, answerVars
<1>1. 1 \in 1 .. (Children + 1)
  BY Sizes
<1>2. SinkTypes'
  BY <1>1 DEF SinkTypes
<1>3. StatesTell' /\ AcceptedOnce' /\ OutcomeSpeaksForAll'
  BY DEF StatesTell, AcceptedOnce, OutcomeSpeaksForAll
<1>4. PassedIsMerged'
  BY Sizes DEF PassedIsMerged, ChildIds
<1> QED BY <1>2, <1>3, <1>4

(* The loop passes a child that is settled.                                *)
LEMMA SkipFanout ==
    ASSUME FanoutInv, SkipSettled
    PROVE  FanoutInv'
<1> USE DEF FanoutInv, SkipSettled, workerVars, answerVars
<1>1. child' \in 1 .. (Children + 1) /\ child \in Nat
  BY Sizes DEF ChildIds
<1>2. SinkTypes' /\ StatesTell' /\ AcceptedOnce' /\ OutcomeSpeaksForAll'
  BY <1>1 DEF SinkTypes, StatesTell, AcceptedOnce, OutcomeSpeaksForAll
<1>3. PassedIsMerged'
  BY <1>1, Sizes DEF PassedIsMerged, ChildIds
<1> QED BY <1>2, <1>3

(* The answer of a child to the current batch is merged.                   *)
LEMMA MergeFanout ==
    ASSUME FanoutInv, wpc = "sending", child \in ChildIds, states[child] = "Pending",
           NEW result \in Results, Merge(result), UNCHANGED workerVars
    PROVE  FanoutInv'
<1> USE DEF FanoutInv, Merge, workerVars
<1>1. /\ batch \in Batches /\ oks[child][batch] = 0 /\ batch \notin rejects[child]
      /\ oks \in [ChildIds -> [Batches -> Nat]] /\ rejects \in [ChildIds -> SUBSET Batches]
      /\ states \in [ChildIds -> ChildStates]
  BY DEF StatesTell, SinkTypes
<1>2. child' = child + 1 /\ child' \in 1 .. (Children + 1) /\ child \in Nat
  BY Sizes DEF ChildIds
<1>3. any_pending' \in BOOLEAN /\ (~any_pending' => ~any_pending /\ result \in {"Ok", "Rejected"})
  BY DEF Results
<1>4. CASE result = "Ok"
  <2>1. states' = [states EXCEPT ![child] = "Ok"] /\ oks' = [oks EXCEPT ![child][batch] = @ + 1]
        /\ rejects' = rejects
    BY <1>4
  <2>2. /\ oks' \in [ChildIds -> [Batches -> Nat]] /\ oks'[child][batch] = 1
        /\ \A c \in ChildIds, b \in Batches : c # child \/ b # batch => oks'[c][b] = oks[c][b]
    BY <1>1, <2>1
  <2>3. /\ states' \in [ChildIds -> ChildStates] /\ states'[child] = "Ok"
        /\ \A c \in ChildIds : c # child => states'[c] = states[c]
    BY <1>1, <2>1 DEF ChildStates
  <2>4. SinkTypes'
    BY <1>2, <1>3, <2>1, <2>2, <2>3 DEF SinkTypes
  <2>5. StatesTell'
    <3>1. UNCHANGED <<wpc, batch, outcome>> /\ batch \in Batches
      BY <1>1
    <3> HIDE DEF Merge, FanoutInv
    <3> SUFFICES ASSUME NEW c \in ChildIds, NEW b \in Batches
                 PROVE  /\ b = batch =>
                              /\ states'[c] = "Pending" => oks'[c][b] = 0 /\ b \notin rejects'[c]
                              /\ states'[c] = "Ok" => oks'[c][b] = 1 /\ b \notin rejects'[c]
                              /\ states'[c] = "Rejected" => oks'[c][b] = 0 /\ b \in rejects'[c]
                        /\ b > batch =>
                              oks'[c][b] = 0 /\ b \notin rejects'[c] /\ outcome'[b] = None
      BY <3>1 DEF StatesTell
    <3>2. StatesTell
      BY DEF FanoutInv
    <3>3. CASE c = child /\ b = batch
      BY <1>1, <2>1, <2>2, <2>3, <3>1, <3>3, Sizes DEF Batches
    <3>4. CASE c = child /\ b # batch
      BY <2>1, <2>2, <3>1, <3>2, <3>4 DEF StatesTell
    <3>5. CASE c # child
      BY <2>1, <2>2, <2>3, <3>1, <3>2, <3>5 DEF StatesTell
    <3> QED BY <3>3, <3>4, <3>5
  <2>6. PassedIsMerged'
    BY <1>2, <1>3, <2>3, Sizes DEF PassedIsMerged, ChildIds
  <2>7. AcceptedOnce'
    BY <2>2 DEF AcceptedOnce
  <2>8. OutcomeSpeaksForAll'
    <3>1. \A c \in ChildIds, b \in Batches : oks[c][b] > 0 => oks'[c][b] > 0
      BY <2>2
    <3> QED BY <2>1, <3>1 DEF OutcomeSpeaksForAll
  <2> QED BY <2>4, <2>5, <2>6, <2>7, <2>8
<1>5. CASE result = "Rejected"
  <2>1. states' = [states EXCEPT ![child] = "Rejected"] /\ oks' = oks
        /\ rejects' = [rejects EXCEPT ![child] = @ \union {batch}]
    BY <1>5
  <2>2. /\ rejects' \in [ChildIds -> SUBSET Batches] /\ batch \in rejects'[child]
        /\ \A c \in ChildIds, b \in Batches :
              c # child \/ b # batch => (b \in rejects'[c] <=> b \in rejects[c])
    BY <1>1, <2>1
  <2>3. /\ states' \in [ChildIds -> ChildStates] /\ states'[child] = "Rejected"
        /\ \A c \in ChildIds : c # child => states'[c] = states[c]
    BY <1>1, <2>1 DEF ChildStates
  <2>4. SinkTypes'
    BY <1>2, <1>3, <2>1, <2>2, <2>3 DEF SinkTypes
  <2>5. StatesTell'
    <3>1. UNCHANGED <<wpc, batch, outcome>> /\ batch \in Batches
      BY <1>1
    <3> HIDE DEF Merge, FanoutInv
    <3> SUFFICES ASSUME NEW c \in ChildIds, NEW b \in Batches
                 PROVE  /\ b = batch =>
                              /\ states'[c] = "Pending" => oks'[c][b] = 0 /\ b \notin rejects'[c]
                              /\ states'[c] = "Ok" => oks'[c][b] = 1 /\ b \notin rejects'[c]
                              /\ states'[c] = "Rejected" => oks'[c][b] = 0 /\ b \in rejects'[c]
                        /\ b > batch =>
                              oks'[c][b] = 0 /\ b \notin rejects'[c] /\ outcome'[b] = None
      BY <3>1 DEF StatesTell
    <3>2. StatesTell
      BY DEF FanoutInv
    <3>3. CASE c = child /\ b = batch
      BY <1>1, <2>1, <2>2, <2>3, <3>1, <3>3, Sizes DEF Batches
    <3>4. CASE c = child /\ b # batch
      BY <2>1, <2>2, <3>1, <3>2, <3>4 DEF StatesTell
    <3>5. CASE c # child
      BY <2>1, <2>2, <2>3, <3>1, <3>2, <3>5 DEF StatesTell
    <3> QED BY <3>3, <3>4, <3>5
  <2>6. PassedIsMerged'
    BY <1>2, <1>3, <2>3, Sizes DEF PassedIsMerged, ChildIds
  <2>7. AcceptedOnce'
    BY <2>1 DEF AcceptedOnce
  <2>8. OutcomeSpeaksForAll'
    <3>1. \A c \in ChildIds, b \in Batches : b \in rejects[c] => b \in rejects'[c]
      BY <2>2
    <3> QED BY <2>1, <3>1 DEF OutcomeSpeaksForAll
  <2> QED BY <2>4, <2>5, <2>6, <2>7, <2>8
<1>6. CASE result \in {"RetryAfter", "IoError"}
  <2>1. UNCHANGED <<states, oks, rejects>> /\ any_pending'
    BY <1>6
  <2>2. SinkTypes' /\ StatesTell' /\ AcceptedOnce' /\ OutcomeSpeaksForAll'
    BY <1>2, <1>3, <2>1 DEF SinkTypes, StatesTell, AcceptedOnce, OutcomeSpeaksForAll
  <2>3. PassedIsMerged'
    BY <2>1 DEF PassedIsMerged
  <2> QED BY <2>2, <2>3
<1> QED BY <1>4, <1>5, <1>6 DEF Results

(* The current batch is settled with an outcome its children justify.      *)
LEMMA SettleFanout ==
    ASSUME FanoutInv, wpc \in {"sending", "backoff"},
           NEW result \in {"Delivered", "Rejected", "PoolClosed"}, Settle(result),
           result \in {"Delivered", "Rejected"} => \A c \in ChildIds : states[c] # "Pending",
           result = "Delivered" => \A c \in ChildIds : states[c] # "Rejected",
           result = "Rejected" => \E c \in ChildIds : states[c] = "Rejected",
           UNCHANGED <<states, child, any_pending, answerVars>>
    PROVE  FanoutInv'
<1> USE DEF FanoutInv, Settle, answerVars
<1>1. batch \in Batches /\ outcome \in [Batches -> {None, "Delivered", "Rejected", "PoolClosed"}]
  BY DEF StatesTell, SinkTypes
<1>2. /\ outcome'[batch] = result /\ \A b \in Batches : b # batch => outcome'[b] = outcome[b]
      /\ outcome' \in [Batches -> {None, "Delivered", "Rejected", "PoolClosed"}]
  BY <1>1
<1>3. SinkTypes' /\ PassedIsMerged' /\ AcceptedOnce'
  BY <1>2 DEF SinkTypes, PassedIsMerged, AcceptedOnce
<1>4. StatesTell'
  BY <1>1, <1>2 DEF StatesTell, Batches
<1>5. \A c \in ChildIds : states[c] \in ChildStates
  BY DEF SinkTypes
<1>6. OutcomeSpeaksForAll'
  <2> SUFFICES ASSUME NEW b \in Batches
               PROVE  /\ outcome'[b] = "Delivered" => \A c \in ChildIds : oks[c][b] > 0
                      /\ outcome'[b] = "Rejected" =>
                            /\ \A c \in ChildIds : oks[c][b] > 0 \/ b \in rejects[c]
                            /\ \E c \in ChildIds : b \in rejects[c]
    BY DEF OutcomeSpeaksForAll
  <2>1. CASE b = batch
    BY <1>1, <1>2, <1>5, <2>1 DEF StatesTell, ChildStates
  <2>2. CASE b # batch
    BY <1>2, <2>2 DEF OutcomeSpeaksForAll
  <2> QED BY <2>1, <2>2
<1> QED BY <1>3, <1>4, <1>6

(* send_batch has asked every child: the batch is settled or sent again.   *)
LEMMA ReturnFanout ==
    ASSUME FanoutInv, SendReturns
    PROVE  FanoutInv'
<1>1. wpc = "sending" /\ child > Children /\ UNCHANGED <<states, child, any_pending, answerVars>>
  BY DEF SendReturns, fanoutVars
<1>2. CASE any_pending
  <2>1. FinalizeFanoutOutcome \in {"RetryAfter", "IoError"}
    BY <1>2 DEF FinalizeFanoutOutcome
  <2>2. wpc' = "backoff" /\ UNCHANGED <<batch, outcome>>
    BY <2>1 DEF SendReturns
  <2> QED BY <1>1, <2>2, AttemptFanout
<1>3. CASE ~any_pending
  <2>1. \A c \in ChildIds : states[c] # "Pending"
    <3>1. \A c \in ChildIds : c < child
      BY <1>1, Sizes DEF ChildIds, FanoutInv, SinkTypes
    <3> QED BY <1>1, <1>3, <3>1 DEF FanoutInv, PassedIsMerged
  <2>2. CASE \E c \in ChildIds : states[c] = "Rejected"
    <3>1. FinalizeFanoutOutcome = "Rejected"
      BY <1>3, <2>2 DEF FinalizeFanoutOutcome
    <3>2. Settle("Rejected")
      BY <3>1 DEF SendReturns
    <3> QED BY <1>1, <2>1, <2>2, <3>2, SettleFanout
  <2>3. CASE \A c \in ChildIds : states[c] # "Rejected"
    <3>1. FinalizeFanoutOutcome = "Delivered"
      BY <1>3, <2>3 DEF FinalizeFanoutOutcome
    <3>2. Settle("Delivered")
      BY <3>1 DEF SendReturns
    <3> QED BY <1>1, <2>1, <2>3, <3>2, SettleFanout
  <2> QED BY <2>2, <2>3
<1> QED BY <1>2, <1>3

(* A bulk sink answers with a SendResult.                                  *)
LEMMA BulkResultIn ==
    ASSUME BulkTypes
    PROVE  BulkResult \in Results
BY DEF BulkTypes, Attempts, BulkResult, Results

(* Every step keeps the fanout's invariant.                                *)
LEMMA NextFanout == FanoutInv /\ BulkTypes /\ [Next]_vars => FanoutInv'
<1> SUFFICES ASSUME FanoutInv, BulkTypes, [Next]_vars PROVE FanoutInv'
  OBVIOUS
<1> USE DEF AtChild, workerVars
<1>1. CASE UNCHANGED vars \/ Cancel \/ WriterStep \/ BulkStep
  BY <1>1, FanoutStutters DEF vars, Cancel, WriterStep, WriterTakes, WriterWrites, WriterFails,
                              BulkStep
<1>2. CASE BackoffEnds \/ TimesOut
  <2>1. wpc \in {"sending", "backoff"}
    BY <1>2 DEF BackoffEnds, TimesOut, DropSend, Awaiting
  <2> QED BY <1>2, <2>1, AttemptFanout DEF BackoffEnds, TimesOut, CallSendBatch, fanoutVars
<1>3. CASE Cancelled
  <2>1. wpc \in {"sending", "backoff"}
    BY <1>3 DEF Cancelled, DropSend, Awaiting
  <2> QED BY <1>3, <2>1, SettleFanout DEF Cancelled, fanoutVars
<1>4. CASE BulkAnswers
  <2>1. child \in ChildIds
    BY <1>4, Sizes DEF BulkAnswers
  <2> QED BY <1>4, <2>1, BulkResultIn, MergeFanout DEF BulkAnswers
<1>5. ASSUME NEW result \in Results, ChildAnswers(result) PROVE FanoutInv'
  BY <1>5, MergeFanout DEF ChildAnswers, Awaiting
<1>6. ASSUME NEW f \in FileSinks, FileAccepts(f) PROVE FanoutInv'
  <2>1. f \in ChildIds /\ "Ok" \in Results
    BY Sizes DEF Results
  <2> QED BY <1>6, <2>1, MergeFanout DEF FileAccepts, AtFile
<1>7. ASSUME NEW f \in FileSinks, NEW result \in {"Rejected", "IoError"},
             FileReportsError(f, result) \/ FileCannotSerialize(f, result)
      PROVE  FanoutInv'
  <2>1. f \in ChildIds /\ result \in Results
    BY Sizes DEF Results
  <2> QED BY <1>7, <2>1, MergeFanout DEF FileReportsError, FileCannotSerialize, AtFile
<1>8. CASE Shutdown
  <2>1. wpc = "idle" /\ wpc' = "stopped" /\ UNCHANGED <<batch, outcome, fanoutVars, answerVars>>
    BY <1>8 DEF Shutdown
  <2> QED BY <2>1 DEF FanoutInv, SinkTypes, StatesTell, PassedIsMerged, AcceptedOnce,
                      OutcomeSpeaksForAll, fanoutVars, answerVars
<1> QED BY <1>1, <1>2, <1>3, <1>4, <1>5, <1>6, <1>7, <1>8, TakeItemFanout, SkipFanout, ReturnFanout
        DEF Next, SendStep, Results

-----------------------------------------------------------------------------
(* The bulk sink.                                                          *)

(* There is at most one bulk sink among the children.                      *)
LEMMA OneBulk == ASSUME NEW c \in BulkSinks, NEW d \in BulkSinks PROVE c = d
<1> SUFFICES ASSUME c # d PROVE FALSE
  OBVIOUS
<1>1. IsFiniteSet(BulkSinks) /\ Cardinality(BulkSinks) <= 1
  <2>1. IsFiniteSet(ChildIds)
    BY Sizes, FS_Interval DEF ChildIds
  <2> QED BY <2>1, Sizes, FS_Subset, SinkAssumptions
<1>2. IsFiniteSet({d}) /\ Cardinality({d}) = 1
  BY FS_Singleton
<1>3. IsFiniteSet({d} \cup {c}) /\ Cardinality({d} \cup {c}) = 2
  BY <1>2, FS_AddElement
<1>4. Cardinality({d} \cup {c}) <= Cardinality(BulkSinks)
  BY <1>1, FS_Subset
<1>5. Cardinality(BulkSinks) \in Nat
  BY <1>1, FS_CardinalityType
<1> QED BY <1>1, <1>3, <1>4, <1>5

(* Idle is told from a running attempt by its kind.                        *)
LEMMA IdleIs ==
    /\ Idle = [kind |-> "Idle", rows |-> {}, rejected |-> {}]
    /\ Nothing = [kind |-> "Ok", rows |-> {}, rejected |-> {}]
    /\ Idle.kind = "Idle" /\ Idle.rows = {} /\ Idle.rejected = {}
    /\ Nothing.kind = "Ok" /\ Nothing.rows = {} /\ Nothing.rejected = {}
    /\ Idle \in Attempts /\ Nothing \in Attempts /\ Nothing # Idle
<1>1. Idle = [kind |-> "Idle", rows |-> {}, rejected |-> {}]
  BY DEF Idle, Nothing
<1>2. Nothing = [kind |-> "Ok", rows |-> {}, rejected |-> {}]
  BY DEF Nothing
<1>3. Nothing.kind = "Ok" /\ Idle.kind = "Idle"
  BY <1>1, <1>2
<1> QED BY <1>1, <1>2, <1>3 DEF Attempts, Results

(* What is left to send after the first part.                              *)
LEMMA TodoTail ==
    ASSUME NEW s \in Seq(Parts), s # <<>>
    PROVE  /\ Head(s) = s[1] /\ Head(s) \in Parts /\ 1 \in DOMAIN s
           /\ Head(s).rows \subseteq Rows /\ Head(s).depth \in Nat
           /\ Tail(s) \in Seq(Parts) /\ DOMAIN Tail(s) = 1 .. (Len(s) - 1)
           /\ \A i \in DOMAIN Tail(s) : i + 1 \in DOMAIN s /\ Tail(s)[i] = s[i + 1] /\ i + 1 # 1
           /\ \A i \in DOMAIN s : i = 1 \/ (i - 1 \in DOMAIN Tail(s) /\ Tail(s)[i - 1] = s[i])
<1>1. Len(s) \in Nat /\ Len(s) >= 1 /\ DOMAIN s = 1 .. Len(s)
  BY EmptySeq, LenProperties
<1>2. Head(s) = s[1] /\ s[1] \in Parts
  BY <1>1, ElementOfSeq, HeadTailProperties
<1>3. /\ Tail(s) \in Seq(Parts) /\ Len(Tail(s)) = Len(s) - 1
      /\ \A i \in 1 .. Len(Tail(s)) : Tail(s)[i] = s[i + 1]
  BY HeadTailProperties
<1>4. DOMAIN Tail(s) = 1 .. (Len(s) - 1)
  BY <1>3, LenProperties
<1>5. Head(s).rows \subseteq Rows /\ Head(s).depth \in Nat
  BY <1>2 DEF Parts
<1>6. ASSUME NEW i \in DOMAIN Tail(s)
      PROVE  i + 1 \in DOMAIN s /\ Tail(s)[i] = s[i + 1] /\ i + 1 # 1
  BY <1>1, <1>3, <1>4
<1>7. ASSUME NEW i \in DOMAIN s, i # 1
      PROVE  i - 1 \in DOMAIN Tail(s) /\ Tail(s)[i - 1] = s[i]
  <2>1. i - 1 \in DOMAIN Tail(s) /\ (i - 1) + 1 = i
    BY <1>1, <1>4, <1>7
  <2> QED BY <1>6, <2>1
<1> QED BY <1>1, <1>2, <1>3, <1>4, <1>5, <1>6, <1>7

(* merge_split_attempts keeps the rows of both halves, and a result that   *)
(* sends nothing again only when both halves have one.                     *)
LEMMA MergeTells ==
    ASSUME NEW l \in Attempts, NEW r \in Attempts, l.kind \in Results, r.kind \in Results,
           NEW m, m = MergeSplitAttempts(l, r)
    PROVE  /\ m \in Attempts /\ m.kind \in Results
           /\ m.rows = l.rows \union r.rows /\ m.rejected = l.rejected \union r.rejected
           /\ m.kind \in {"Ok", "Rejected"} =>
                 l.kind \in {"Ok", "Rejected"} /\ r.kind \in {"Ok", "Rejected"}
<1>1. m = [kind |-> Worse(l, r).kind, rows |-> l.rows \union r.rows,
           rejected |-> l.rejected \union r.rejected]
  BY DEF MergeSplitAttempts
<1>2. /\ Rank("Ok") = 0 /\ Rank("Rejected") = 1
      /\ Rank("RetryAfter") = 2 /\ Rank("IoError") = 3
  BY DEF Rank
<1>3. Worse(l, r).kind = IF Rank(l.kind) < Rank(r.kind) THEN r.kind ELSE l.kind
  BY DEF Worse
<1>4. Worse(l, r).kind \in Results
  BY <1>3
<1>5. Worse(l, r).kind \in {"Ok", "Rejected"} =>
          l.kind \in {"Ok", "Rejected"} /\ r.kind \in {"Ok", "Rejected"}
  BY <1>2, <1>3 DEF Results
<1>6. m.kind = Worse(l, r).kind /\ m.rows = l.rows \union r.rows
      /\ m.rejected = l.rejected \union r.rejected
  BY <1>1
<1>7. m \in Attempts
  BY <1>1, <1>4 DEF Attempts
<1> QED BY <1>4, <1>5, <1>6, <1>7

(* Before the first batch the bulk sink has sent nothing.                  *)
LEMMA InitBulk == Init => BulkInv
<1> SUFFICES ASSUME Init PROVE BulkInv
  OBVIOUS
<1> USE IdleIs DEF Init, BulkInit
<1>1. BulkTypes
  BY DEF BulkTypes
<1>2. BulkRunsAtChild /\ NoRowForgotten /\ AttemptTells
  BY DEF BulkRunsAtChild, NoRowForgotten, AttemptTells
<1>3. SentOnce
  BY DEF SentOnce
<1> QED BY <1>1, <1>2, <1>3 DEF BulkInv

(* A new batch: everything is to be sent, nothing was.                     *)
LEMMA BeginBulk == ASSUME BulkBeginBatch PROVE BulkInv'
<1> USE IdleIs DEF BulkBeginBatch
<1>1. BulkTypes'
  BY DEF BulkTypes
<1>2. BulkRunsAtChild' /\ NoRowForgotten' /\ AttemptTells'
  BY DEF BulkRunsAtChild, NoRowForgotten, AttemptTells
<1>3. SentOnce'
  BY DEF SentOnce
<1> QED BY <1>1, <1>2, <1>3 DEF BulkInv

(* A step that leaves the bulk sink alone.                                 *)
LEMMA BulkStutters ==
    ASSUME BulkInv, UNCHANGED bulkVars,
           attempt # Idle => UNCHANGED <<wpc, child, states>>,
           \A c \in BulkSinks : states'[c] = "Pending" => states[c] = "Pending"
    PROVE  BulkInv'
<1> USE DEF BulkInv, bulkVars
<1>1. BulkTypes' /\ NoRowForgotten' /\ AttemptTells'
  BY DEF BulkTypes, NoRowForgotten, AttemptTells
<1>2. BulkRunsAtChild'
  BY DEF BulkRunsAtChild
<1>3. SentOnce'
  BY DEF SentOnce
<1> QED BY <1>1, <1>2, <1>3

(* The pending rows become the one part to be sent.                        *)
LEMMA StartBulk ==
    ASSUME BulkInv, BulkStarts, AtChild(BulkSinks), UNCHANGED <<wpc, child, states>>
    PROVE  BulkInv'
<1> DEFINE part == [rows |-> pending, depth |-> 0]
<1>1. /\ todo' = <<part>> /\ attempt' = Nothing /\ attempt = Idle
      /\ UNCHANGED <<large, pending, rejections, accepted, refused, unsure>>
  BY DEF BulkStarts
<1>2. part \in Parts /\ part.rows = pending
  BY DEF BulkInv, BulkTypes, Parts
<1> HIDE DEF part
<1>3. /\ todo' \in Seq(Parts) /\ DOMAIN todo' = {1} /\ todo'[1] = part
  BY <1>1, <1>2
<1>4. BulkTypes'
  BY <1>1, <1>3, IdleIs DEF BulkInv, BulkTypes
<1>5. BulkRunsAtChild'
  BY <1>1, IdleIs DEF BulkRunsAtChild, AtChild
<1>6. NoRowForgotten'
  BY <1>1, <1>2, <1>3 DEF BulkInv, NoRowForgotten
<1>7. AttemptTells'
  BY <1>1, IdleIs DEF BulkInv, AttemptTells
<1>8. SentOnce'
  <2>1. \A r \in pending \ unsure : accepted[r] = 0
    BY <1>1 DEF BulkInv, SentOnce, AtChild
  <2> QED BY <1>1, <1>2, <1>3, <2>1, IdleIs DEF BulkInv, SentOnce
<1> QED BY <1>4, <1>5, <1>6, <1>7, <1>8 DEF BulkInv

(* The first part is replaced by its halves.                               *)
LEMMA SplitBulk ==
    ASSUME BulkInv, todo # <<>>, SendSplitHalves, UNCHANGED <<wpc, child, states>>
    PROVE  BulkInv'
<1>1. todo \in Seq(Parts) /\ attempt # Idle
  BY DEF BulkInv, BulkTypes, BulkRunsAtChild
<1>2. PICK a \in Parts, b \in Parts :
          /\ todo' = <<a, b>> \o Tail(todo)
          /\ a.rows \cup b.rows = Part.rows /\ a.rows \cap b.rows = {}
  <2> DEFINE mid == Cardinality(Part.rows) \div 2
             left == {r \in Part.rows : Cardinality({q \in Part.rows : q < r}) < mid}
             half(rows) == [rows |-> rows, depth |-> Part.depth + 1]
  <2>1. Part.rows \subseteq Rows /\ Part.depth \in Nat
    BY <1>1, TodoTail DEF Part
  <2>2. left \subseteq Part.rows
    OBVIOUS
  <2>3. todo' = <<half(left), half(Part.rows \ left)>> \o Tail(todo)
    BY DEF SendSplitHalves
  <2> HIDE DEF left
  <2>4. half(left) \in Parts /\ half(Part.rows \ left) \in Parts
    BY <2>1, <2>2 DEF Parts
  <2>5. half(left).rows = left /\ half(Part.rows \ left).rows = Part.rows \ left
    OBVIOUS
  <2> QED BY <2>2, <2>3, <2>4, <2>5
<1>3. UNCHANGED <<large, pending, rejections, attempt, accepted, refused, unsure>>
  BY DEF SendSplitHalves
<1>4. Part = todo[1] /\ 1 \in DOMAIN todo
  BY <1>1, TodoTail DEF Part
<1>5. /\ todo' \in Seq(Parts) /\ DOMAIN todo' = 1 .. (Len(todo) + 1)
      /\ todo'[1] = a /\ todo'[2] = b
      /\ \A i \in DOMAIN todo' : i # 1 /\ i # 2 => i - 1 \in DOMAIN todo /\ todo'[i] = todo[i - 1]
  <2>1. <<a, b>> \in Seq(Parts) /\ Len(<<a, b>>) = 2
    OBVIOUS
  <2>2. /\ Tail(todo) \in Seq(Parts) /\ Len(todo) \in Nat /\ Len(todo) >= 1
        /\ Len(Tail(todo)) = Len(todo) - 1 /\ DOMAIN todo = 1 .. Len(todo)
        /\ \A i \in 1 .. Len(Tail(todo)) : Tail(todo)[i] = todo[i + 1]
    BY <1>1, EmptySeq, LenProperties, HeadTailProperties
  <2>3. todo' \in Seq(Parts) /\ Len(todo') = 2 + (Len(todo) - 1)
    BY <1>2, <2>1, <2>2, ConcatProperties
  <2>4. DOMAIN todo' = 1 .. (Len(todo) + 1)
    BY <2>2, <2>3, LenProperties
  <2>5. todo'[1] = a /\ todo'[2] = b
    BY <1>2, <2>1, <2>2
  <2>6. ASSUME NEW i \in DOMAIN todo', i # 1, i # 2
        PROVE  i - 1 \in DOMAIN todo /\ todo'[i] = todo[i - 1]
    <3>1. /\ i \in 3 .. (Len(todo) + 1) /\ i - 2 \in 1 .. Len(Tail(todo))
          /\ i - 1 \in DOMAIN todo /\ (i - 2) + 1 = i - 1
      BY <2>2, <2>4, <2>6
    <3>2. todo'[i] = Tail(todo)[i - 2]
      BY <1>2, <2>1, <2>2, <3>1
    <3> QED BY <2>2, <3>1, <3>2
  <2> QED BY <2>3, <2>4, <2>5, <2>6
<1>6. \A i \in DOMAIN todo' : i \in Nat
  BY <1>5
<1>7. /\ 1 \in DOMAIN todo' /\ 2 \in DOMAIN todo'
      /\ \A i \in DOMAIN todo : i = 1 \/ (i + 1 \in DOMAIN todo' /\ todo'[i + 1] = todo[i])
  <2>1. Len(todo) \in Nat /\ Len(todo) >= 1 /\ DOMAIN todo = 1 .. Len(todo)
    BY <1>1, EmptySeq, LenProperties
  <2>2. ASSUME NEW i \in DOMAIN todo, i # 1
        PROVE  i + 1 \in DOMAIN todo' /\ todo'[i + 1] = todo[i]
    <3>1. i + 1 \in DOMAIN todo' /\ i + 1 # 1 /\ i + 1 # 2 /\ (i + 1) - 1 = i
      BY <1>5, <2>1, <2>2
    <3> QED BY <1>5, <3>1
  <2> QED BY <1>5, <2>1, <2>2
<1>8. BulkTypes' /\ BulkRunsAtChild' /\ AttemptTells'
  BY <1>1, <1>3, <1>5 DEF BulkInv, BulkTypes, BulkRunsAtChild, AttemptTells
<1>9. NoRowForgotten'
  <2> SUFFICES ASSUME NEW r \in Rows, NEW i \in DOMAIN todo, r \in todo[i].rows
               PROVE  \E j \in DOMAIN todo' : r \in todo'[j].rows
    BY <1>1, <1>3 DEF BulkInv, NoRowForgotten
  <2>1. CASE i = 1
    BY <1>2, <1>4, <1>5, <1>7, <2>1
  <2>2. CASE i # 1
    BY <1>7, <2>2
  <2> QED BY <2>1, <2>2
<1>10. SentOnce'
  <2>1. SentOnce
    BY DEF BulkInv
  <2>2. a.rows \subseteq todo[1].rows /\ b.rows \subseteq todo[1].rows
    BY <1>2, <1>4
  <2>3. ASSUME NEW i \in DOMAIN todo'
        PROVE  \E k \in DOMAIN todo :
                   /\ todo'[i].rows \subseteq todo[k].rows
                   /\ (i \in {1, 2} /\ k = 1) \/ (i \notin {1, 2} /\ k = i - 1 /\ k # 1)
    <3>1. CASE i \in {1, 2}
      BY <1>4, <1>5, <2>2, <3>1
    <3>2. CASE i \notin {1, 2}
      BY <1>5, <1>6, <3>2
    <3> QED BY <3>1, <3>2
  <2>4. ASSUME NEW i \in DOMAIN todo', NEW j \in DOMAIN todo', i # j
        PROVE  todo'[i].rows \cap todo'[j].rows = {}
    <3>1. PICK k \in DOMAIN todo :
              /\ todo'[i].rows \subseteq todo[k].rows
              /\ (i \in {1, 2} /\ k = 1) \/ (i \notin {1, 2} /\ k = i - 1 /\ k # 1)
      BY <2>3
    <3>2. PICK m \in DOMAIN todo :
              /\ todo'[j].rows \subseteq todo[m].rows
              /\ (j \in {1, 2} /\ m = 1) \/ (j \notin {1, 2} /\ m = j - 1 /\ m # 1)
      BY <2>3
    <3>3. CASE k = m
      <4>1. i \in {1, 2} /\ j \in {1, 2}
        BY <1>6, <2>4, <3>1, <3>2, <3>3
      <4> QED BY <1>2, <1>5, <2>4, <4>1
    <3>4. CASE k # m
      BY <2>1, <3>1, <3>2, <3>4 DEF SentOnce
    <3> QED BY <3>3, <3>4
  <2>5. ASSUME NEW i \in DOMAIN todo'
        PROVE  /\ todo'[i].rows \subseteq pending /\ todo'[i].rows \cap attempt.rows = {}
               /\ \A r \in todo'[i].rows \ unsure : accepted[r] = 0
    BY <2>1, <2>3 DEF SentOnce
  <2> QED BY <1>1, <1>3, <2>1, <2>4, <2>5 DEF SentOnce
<1> QED BY <1>8, <1>9, <1>10 DEF BulkInv

(* The first part is finished: its rows are to be sent again, rejected, or *)
(* indexed, and only rows whose request was lost may be indexed again.     *)
LEMMA PartBulk ==
    ASSUME BulkInv, todo # <<>>, UNCHANGED <<wpc, child, states>>,
           NEW kind \in Results, NEW rows \in SUBSET Part.rows, NEW rejected \in SUBSET Part.rows,
           PartDone(kind, rows, rejected),
           kind \in {"Ok", "Rejected"} => rows = {},
           accepted' \in [Rows -> Nat],
           unsure \subseteq unsure', unsure' \subseteq Rows,
           \A r \in Rows \ Part.rows : accepted'[r] = accepted[r],
           \A r \in Part.rows : accepted'[r] >= accepted[r],
           \A r \in Part.rows \ (rows \cup rejected) : accepted'[r] > 0,
           \A r \in Part.rows \ unsure' : accepted'[r] <= 1 /\ (r \in rows => accepted'[r] = 0)
    PROVE  BulkInv'
<1> DEFINE part == [kind |-> kind, rows |-> rows, rejected |-> rejected]
<1>1. todo \in Seq(Parts) /\ attempt # Idle /\ attempt \in Attempts /\ attempt.kind \in Results
  BY IdleIs DEF BulkInv, BulkTypes, BulkRunsAtChild, AttemptTells, Attempts
<1>2. /\ Part = todo[1] /\ 1 \in DOMAIN todo /\ Part.rows \subseteq Rows
      /\ Tail(todo) \in Seq(Parts)
      /\ \A i \in DOMAIN Tail(todo) :
            i + 1 \in DOMAIN todo /\ Tail(todo)[i] = todo[i + 1] /\ i + 1 # 1 /\ i \in Nat
      /\ \A i \in DOMAIN todo :
            i = 1 \/ (i - 1 \in DOMAIN Tail(todo) /\ Tail(todo)[i - 1] = todo[i])
  BY <1>1, TodoTail DEF Part
<1>3. part \in Attempts /\ part.kind = kind /\ part.rows = rows /\ part.rejected = rejected
  BY <1>2 DEF Attempts
<1>4. /\ todo' = Tail(todo) /\ attempt' = MergeSplitAttempts(attempt, part)
      /\ refused' = refused \union rejected /\ UNCHANGED <<large, pending, rejections>>
  BY DEF PartDone
<1> HIDE DEF part
<1>5. /\ attempt' \in Attempts /\ attempt'.kind \in Results
      /\ attempt'.rows = attempt.rows \cup rows
      /\ attempt'.rejected = attempt.rejected \cup rejected
      /\ attempt'.kind \in {"Ok", "Rejected"} =>
            attempt.kind \in {"Ok", "Rejected"} /\ kind \in {"Ok", "Rejected"}
  BY <1>1, <1>3, <1>4, MergeTells
<1>6. attempt' # Idle /\ attempt'.kind # "Idle"
  BY <1>5, IdleIs DEF Results
<1>7. BulkTypes'
  BY <1>2, <1>4, <1>5 DEF BulkInv, BulkTypes
<1>8. BulkRunsAtChild'
  BY <1>1, <1>6 DEF BulkInv, BulkRunsAtChild
<1>9. AttemptTells'
  BY <1>4, <1>5, <1>6 DEF BulkInv, AttemptTells
<1>10. \A r \in Rows : accepted[r] \in Nat /\ accepted'[r] \in Nat /\ accepted'[r] >= accepted[r]
  BY <1>2 DEF BulkInv, BulkTypes
<1>11. NoRowForgotten'
  <2> SUFFICES ASSUME NEW r \in Rows
               PROVE  /\ r \in pending \/ r \in rejections \/ accepted'[r] > 0
                      /\ \/ \E i \in DOMAIN todo' : r \in todo'[i].rows
                         \/ r \in attempt'.rows \/ r \in attempt'.rejected
                         \/ r \in rejections \/ accepted'[r] > 0
    BY <1>4 DEF NoRowForgotten
  <2>1. r \in pending \/ r \in rejections \/ accepted'[r] > 0
    BY <1>10 DEF BulkInv, NoRowForgotten
  <2>2. CASE \E i \in DOMAIN todo : r \in todo[i].rows
    <3>1. PICK i \in DOMAIN todo : r \in todo[i].rows
      BY <2>2
    <3>2. CASE i = 1
      BY <1>2, <1>5, <2>1, <3>1, <3>2
    <3>3. CASE i # 1
      BY <1>2, <1>4, <2>1, <3>1, <3>3
    <3> QED BY <3>2, <3>3
  <2>3. CASE r \in attempt.rows \/ r \in attempt.rejected \/ r \in rejections \/ accepted[r] > 0
    BY <1>5, <1>10, <2>1, <2>3
  <2> QED BY <1>1, <2>2, <2>3 DEF BulkInv, NoRowForgotten
<1>12. SentOnce'
  <2>1. SentOnce
    BY DEF BulkInv
  <2>2. \A r \in Rows \ unsure' : accepted'[r] <= 1
    BY <1>2, <2>1 DEF SentOnce
  <2>3. ASSUME NEW i \in DOMAIN todo'
        PROVE  /\ todo'[i].rows \subseteq pending /\ todo'[i].rows \cap attempt'.rows = {}
               /\ \A r \in todo'[i].rows \ unsure' : accepted'[r] = 0
               /\ \A j \in DOMAIN todo' : i # j => todo'[i].rows \cap todo'[j].rows = {}
    <3>1. /\ i + 1 \in DOMAIN todo /\ todo'[i] = todo[i + 1] /\ i + 1 # 1
          /\ \A j \in DOMAIN todo' : i # j =>
                j + 1 \in DOMAIN todo /\ todo'[j] = todo[j + 1] /\ j + 1 # i + 1
      BY <1>2, <1>4
    <3>2. todo'[i].rows \cap Part.rows = {} /\ todo'[i].rows \subseteq Rows
      BY <1>1, <1>2, <2>1, <3>1, ElementOfSeq DEF SentOnce, BulkInv, BulkTypes
    <3>3. todo'[i].rows \subseteq pending /\ todo'[i].rows \cap attempt'.rows = {}
      BY <1>5, <2>1, <3>1, <3>2 DEF SentOnce
    <3>4. \A r \in todo'[i].rows \ unsure' : accepted'[r] = 0
      BY <2>1, <3>1, <3>2 DEF SentOnce
    <3>5. \A j \in DOMAIN todo' : i # j => todo'[i].rows \cap todo'[j].rows = {}
      BY <2>1, <3>1 DEF SentOnce
    <3> QED BY <3>3, <3>4, <3>5
  <2>4. \A r \in attempt'.rows \ unsure' : accepted'[r] = 0
    <3> SUFFICES ASSUME NEW r \in attempt'.rows \ unsure' PROVE accepted'[r] = 0
      OBVIOUS
    <3>1. CASE r \in rows
      BY <3>1
    <3>2. CASE r \notin rows
      <4>1. r \in attempt.rows /\ r \in Rows
        BY <1>5, <3>2 DEF Attempts
      <4>2. r \notin Part.rows
        BY <1>2, <2>1, <4>1 DEF SentOnce
      <4> QED BY <2>1, <4>1, <4>2 DEF SentOnce
    <3> QED BY <3>1, <3>2
  <2> QED BY <1>4, <1>6, <2>2, <2>3, <2>4 DEF SentOnce
<1> QED BY <1>7, <1>8, <1>9, <1>11, <1>12 DEF BulkInv

(* The rows of the first part, and how often they were indexed.            *)
LEMMA PartIs ==
    ASSUME BulkInv, todo # <<>>
    PROVE  /\ Part.rows \subseteq Rows /\ Part.rows \subseteq pending
           /\ accepted \in [Rows -> Nat] /\ unsure \subseteq Rows
           /\ \A r \in Part.rows \ unsure : accepted[r] = 0
<1>1. Part = todo[1] /\ 1 \in DOMAIN todo /\ Part.rows \subseteq Rows
  BY TodoTail DEF BulkInv, BulkTypes, Part
<1> QED BY <1>1 DEF BulkInv, BulkTypes, SentOnce

(* Indexing a set of rows.                                                 *)
LEMMA IndexIs ==
    ASSUME accepted \in [Rows -> Nat], NEW S \in SUBSET Rows, Index(S)
    PROVE  /\ accepted' \in [Rows -> Nat]
           /\ \A r \in Rows : accepted'[r] = IF r \in S THEN accepted[r] + 1 ELSE accepted[r]
BY DEF Index

(* A step of the bulk sink between its start and its return.               *)
LEMMA StepBulk ==
    ASSUME BulkInv, BulkStep
    PROVE  BulkInv'
<1>1. UNCHANGED <<wpc, child, states>> /\ AtChild(BulkSinks)
  BY DEF BulkStep, workerVars, fanoutVars
<1>2. ASSUME BulkTooLarge PROVE BulkInv'
  <2>1. todo # <<>> /\ PartDone("Rejected", {}, Part.rows) /\ UNCHANGED <<accepted, unsure>>
    BY <1>2 DEF BulkTooLarge
  <2>2. "Rejected" \in Results
    BY DEF Results
  <2>3. \A r \in Part.rows : accepted'[r] >= accepted[r]
    BY <2>1, PartIs
  <2>4. \A r \in Part.rows \ unsure' : accepted'[r] <= 1
    BY <2>1, PartIs
  <2> QED BY <1>1, <2>1, <2>2, <2>3, <2>4, PartIs, PartBulk
<1>3. ASSUME NEW retry \in SUBSET Rows, NEW reject \in SUBSET Rows, BulkResponse(retry, reject)
      PROVE  BulkInv'
  <2> DEFINE kind == IF retry # {} THEN "RetryAfter" ELSE IF reject # {} THEN "Rejected" ELSE "Ok"
  <2>1. /\ todo # <<>> /\ retry \subseteq Part.rows /\ reject \subseteq Part.rows \ retry
        /\ PartDone(kind, retry, reject) /\ Index(Part.rows \ (retry \union reject))
        /\ UNCHANGED unsure
    BY <1>3 DEF BulkResponse, Requested
  <2>2. kind \in Results /\ (kind \in {"Ok", "Rejected"} => retry = {})
    BY DEF Results
  <2> HIDE DEF kind
  <2>3. /\ accepted' \in [Rows -> Nat]
        /\ \A r \in Rows : accepted'[r] = IF r \in Part.rows \ (retry \union reject)
                                          THEN accepted[r] + 1 ELSE accepted[r]
    BY <2>1, PartIs, IndexIs
  <2>4. /\ Part.rows \subseteq Rows /\ accepted \in [Rows -> Nat] /\ unsure' = unsure
        /\ \A r \in Part.rows \ unsure : accepted[r] = 0
    BY <2>1, PartIs
  <2>5. /\ \A r \in Rows \ Part.rows : accepted'[r] = accepted[r]
        /\ \A r \in Part.rows : accepted'[r] >= accepted[r]
        /\ \A r \in Part.rows \ (retry \cup reject) : accepted'[r] > 0
        /\ \A r \in Part.rows \ unsure' : accepted'[r] <= 1 /\ (r \in retry => accepted'[r] = 0)
    BY <2>3, <2>4
  <2> QED BY <1>1, <2>1, <2>2, <2>3, <2>4, <2>5, PartIs, PartBulk
<1>4. ASSUME NEW kind \in {"Rejected", "RetryAfter", "IoError"}, NEW indexed \in BOOLEAN,
             BulkFails(kind, indexed)
      PROVE  BulkInv'
  <2> DEFINE rows == IF kind = "Rejected" THEN {} ELSE Part.rows
             rejected == IF kind = "Rejected" THEN Part.rows ELSE {}
             S == IF indexed THEN Part.rows ELSE {}
  <2>1. /\ todo # <<>> /\ PartDone(kind, rows, rejected) /\ Index(S)
        /\ unsure' = unsure \union Part.rows
    BY <1>4 DEF BulkFails, Requested
  <2>2. /\ kind \in Results /\ (kind \in {"Ok", "Rejected"} => rows = {})
        /\ rows \cup rejected = Part.rows /\ S \subseteq Part.rows
    BY DEF Results
  <2>3. rows \in SUBSET Part.rows /\ rejected \in SUBSET Part.rows
    OBVIOUS
  <2> HIDE DEF rows, rejected, S
  <2>4. Part.rows \subseteq Rows /\ accepted \in [Rows -> Nat] /\ unsure \subseteq Rows
    BY <2>1, PartIs
  <2>5. /\ accepted' \in [Rows -> Nat]
        /\ \A r \in Rows : accepted'[r] = IF r \in S THEN accepted[r] + 1 ELSE accepted[r]
    BY <2>1, <2>2, <2>4, IndexIs
  <2>6. /\ \A r \in Rows \ Part.rows : accepted'[r] = accepted[r]
        /\ \A r \in Part.rows : accepted'[r] >= accepted[r]
        /\ Part.rows \ (rows \cup rejected) = {} /\ Part.rows \ unsure' = {}
        /\ unsure \subseteq unsure' /\ unsure' \subseteq Rows
    BY <2>1, <2>2, <2>4, <2>5
  <2> QED BY <1>1, <2>1, <2>2, <2>3, <2>5, <2>6, PartBulk
<1>5. ASSUME BulkRefusesSize PROVE BulkInv'
  <2>1. todo # <<>>
    BY <1>5 DEF BulkRefusesSize, Requested
  <2>2. CASE SendSplitHalves
    BY <1>1, <2>1, <2>2, SplitBulk
  <2>3. CASE PartDone("IoError", Part.rows, {}) /\ UNCHANGED <<accepted, unsure>>
    <3>1. "IoError" \in Results /\ "IoError" \notin {"Ok", "Rejected"}
      BY DEF Results
    <3>2. /\ \A r \in Part.rows : accepted'[r] >= accepted[r]
          /\ \A r \in Part.rows \ unsure' : accepted'[r] <= 1 /\ accepted'[r] = 0
      BY <2>1, <2>3, PartIs
    <3> QED BY <1>1, <2>1, <2>3, <3>1, <3>2, PartIs, PartBulk
  <2> QED BY <1>5, <2>2, <2>3 DEF BulkRefusesSize
<1>6. ASSUME BulkSplits PROVE BulkInv'
  BY <1>1, <1>6, SplitBulk DEF BulkSplits
<1>7. ASSUME BulkStarts PROVE BulkInv'
  BY <1>1, <1>7, StartBulk
<1>8. ASSUME NEW kind \in {"Rejected", "IoError"}, BulkCannotSerialize(kind) PROVE BulkInv'
  <2> DEFINE rows == IF kind = "Rejected" THEN {} ELSE Part.rows
             rejected == IF kind = "Rejected" THEN Part.rows ELSE {}
  <2>1. todo # <<>> /\ PartDone(kind, rows, rejected) /\ UNCHANGED <<accepted, unsure>>
    BY <1>8 DEF BulkCannotSerialize
  <2>2. /\ kind \in Results /\ (kind \in {"Ok", "Rejected"} => rows = {})
        /\ rows \cup rejected = Part.rows
        /\ rows \in SUBSET Part.rows /\ rejected \in SUBSET Part.rows
    BY DEF Results
  <2> HIDE DEF rows, rejected
  <2>3. /\ \A r \in Part.rows : accepted'[r] >= accepted[r]
        /\ \A r \in Part.rows \ unsure' : accepted'[r] <= 1 /\ accepted'[r] = 0
    BY <2>1, PartIs
  <2> QED BY <1>1, <2>1, <2>2, <2>3, PartIs, PartBulk
<1> QED BY <1>2, <1>3, <1>4, <1>5, <1>6, <1>7, <1>8 DEF BulkStep

(* The bulk sink returns: the rows to send again are kept for the next     *)
(* attempt, and a settled batch leaves no part behind.                     *)
LEMMA ReturnBulk ==
    ASSUME FanoutInv, BulkInv, BulkAnswers
    PROVE  BulkInv'
<1>1. /\ child \in BulkSinks /\ states[child] = "Pending" /\ child \in ChildIds
      /\ attempt # Idle /\ todo = <<>> /\ attempt' = Idle
      /\ UNCHANGED <<todo, accepted, refused, unsure>>
  BY Sizes DEF BulkAnswers, AtChild, BulkReturns
<1>2. BulkTypes /\ BulkTypes'
  <2>1. /\ attempt.rows \subseteq Rows /\ attempt.rejected \subseteq Rows
    BY DEF BulkInv, BulkTypes, Attempts
  <2>2. pending' \subseteq Rows /\ rejections' \subseteq Rows
    BY <2>1 DEF BulkAnswers, BulkReturns, AllRejections, BulkInv, BulkTypes
  <2> QED BY <1>1, <2>2, IdleIs DEF BulkInv, BulkTypes
<1>3. BulkRunsAtChild'
  BY <1>1 DEF BulkRunsAtChild
<1>4. AttemptTells'
  BY <1>1, IdleIs DEF BulkAnswers, BulkReturns, AllRejections, BulkInv, AttemptTells
<1>5. CASE BulkResult \in {"RetryAfter", "IoError"}
  <2>1. pending' = attempt.rows /\ rejections' = rejections \union attempt.rejected
    BY <1>5 DEF BulkAnswers, BulkReturns, AllRejections
  <2>2. NoRowForgotten'
    BY <1>1, <2>1 DEF BulkInv, NoRowForgotten
  <2>3. SentOnce'
    <3>1. \A r \in attempt.rows \ unsure : accepted[r] = 0
      BY DEF BulkInv, SentOnce
    <3> QED BY <1>1, <2>1, <3>1, IdleIs DEF BulkInv, SentOnce
  <2> QED BY <1>2, <1>3, <1>4, <2>2, <2>3 DEF BulkInv
<1>6. CASE BulkResult \notin {"RetryAfter", "IoError"}
  <2>1. pending' = Rows /\ rejections' = {}
    BY <1>6 DEF BulkAnswers, BulkReturns
  <2>2. NoRowForgotten'
    BY <1>1, <2>1 DEF NoRowForgotten
  <2>3. BulkResult \in {"Ok", "Rejected"}
    BY <1>2, <1>6, BulkResultIn DEF Results
  <2>4. \A c \in BulkSinks : states'[c] # "Pending"
    <3>1. states' = [states EXCEPT ![child] = BulkResult] /\ states \in [ChildIds -> ChildStates]
      BY <2>3 DEF BulkAnswers, Merge, FanoutInv, SinkTypes
    <3> QED BY <1>1, <2>3, <3>1, OneBulk
  <2>5. SentOnce'
    BY <1>1, <2>4, IdleIs DEF BulkInv, SentOnce
  <2> QED BY <1>2, <1>3, <1>4, <2>2, <2>5 DEF BulkInv
<1> QED BY <1>5, <1>6

(* The running send is dropped: what was pending stays pending.            *)
LEMMA DropBulk ==
    ASSUME BulkInv, NEW indexed \in BOOLEAN, BulkDropped(indexed), UNCHANGED states
    PROVE  BulkInv'
<1> DEFINE S == IF indexed THEN Part.rows ELSE {}
<1>1. /\ todo # <<>> /\ todo' = <<>> /\ attempt' = Idle /\ Index(S)
      /\ unsure' = unsure \union pending
      /\ UNCHANGED <<large, pending, rejections, refused>>
  BY DEF BulkDropped, Requested
<1>2. S \subseteq Part.rows
  OBVIOUS
<1> HIDE DEF S
<1>3. /\ accepted \in [Rows -> Nat] /\ unsure \subseteq Rows
      /\ S \subseteq Rows /\ S \subseteq pending /\ pending \subseteq Rows
  BY <1>1, <1>2, PartIs DEF BulkInv, BulkTypes
<1>4. /\ accepted' \in [Rows -> Nat]
      /\ \A r \in Rows : accepted'[r] = IF r \in S THEN accepted[r] + 1 ELSE accepted[r]
  BY <1>1, <1>3, IndexIs
<1>5. BulkTypes'
  BY <1>1, <1>3, <1>4, IdleIs DEF BulkInv, BulkTypes
<1>6. BulkRunsAtChild' /\ AttemptTells'
  BY <1>1, IdleIs DEF BulkInv, BulkRunsAtChild, AttemptTells
<1>7. NoRowForgotten'
  BY <1>1, <1>3, <1>4 DEF BulkInv, NoRowForgotten
<1>8. SentOnce'
  <2>1. \A r \in Rows \ unsure' : accepted'[r] <= 1
    BY <1>1, <1>3, <1>4 DEF BulkInv, SentOnce
  <2>2. pending' \ unsure' = {}
    BY <1>1
  <2> QED BY <1>1, <2>1, <2>2, IdleIs DEF SentOnce
<1> QED BY <1>5, <1>6, <1>7, <1>8 DEF BulkInv

(* Every step keeps the bulk sink's invariant.                             *)
LEMMA NextBulk == FanoutInv /\ BulkInv /\ [Next]_vars => BulkInv'
<1> SUFFICES ASSUME FanoutInv, BulkInv, [Next]_vars PROVE BulkInv'
  OBVIOUS
<1> USE DEF workerVars
<1>1. attempt # Idle => wpc = "sending" /\ child \in BulkSinks /\ states[child] = "Pending"
  BY DEF BulkInv, BulkRunsAtChild
<1>2. CASE UNCHANGED vars \/ Cancel \/ WriterStep
  BY <1>2, BulkStutters DEF vars, Cancel, WriterStep, WriterTakes, WriterWrites, WriterFails,
                            fanoutVars
<1>3. CASE TakeItem
  BY <1>3, BeginBulk DEF TakeItem, BeginBatch
<1>4. CASE Shutdown \/ BackoffEnds \/ SkipSettled \/ SendReturns
  <2>1. UNCHANGED <<bulkVars, states>>
    BY <1>4 DEF Shutdown, BackoffEnds, SkipSettled, SendReturns, fanoutVars
  <2>2. attempt = Idle
    <3>1. child > Children => child \notin ChildIds
      BY Sizes DEF ChildIds, FanoutInv, SinkTypes
    <3> QED BY <1>1, <1>4, <3>1, Sizes DEF Shutdown, BackoffEnds, SkipSettled, SendReturns
  <2> QED BY <2>1, <2>2, BulkStutters
<1>5. ASSUME DropSend, UNCHANGED states PROVE BulkInv'
  <2>1. CASE Awaiting /\ UNCHANGED bulkVars
    <3>1. attempt = Idle
      BY <1>1, <2>1 DEF Awaiting, AtChild
    <3> QED BY <1>5, <2>1, <3>1, BulkStutters
  <2> QED BY <1>5, <2>1, DropBulk DEF DropSend
<1>6. CASE TimesOut
  BY <1>5, <1>6 DEF TimesOut, fanoutVars
<1>7. CASE Cancelled
  <2>1. UNCHANGED states
    BY <1>7 DEF Cancelled, fanoutVars
  <2>2. CASE (wpc = "backoff" \/ attempt = Idle) /\ UNCHANGED bulkVars
    <3>1. attempt = Idle
      BY <1>1, <2>2
    <3> QED BY <2>1, <2>2, <3>1, BulkStutters
  <2> QED BY <1>5, <1>7, <2>1, <2>2 DEF Cancelled
<1>8. ASSUME UNCHANGED bulkVars, wpc = "sending", child \in ChildIds \ BulkSinks,
             NEW result, Merge(result)
      PROVE  BulkInv'
  <2>1. attempt = Idle
    BY <1>1, <1>8
  <2>2. \A c \in BulkSinks : states'[c] = states[c]
    BY <1>8, Sizes DEF Merge, FanoutInv, SinkTypes
  <2> QED BY <1>8, <2>1, <2>2, BulkStutters
<1>9. ASSUME NEW result \in Results, ChildAnswers(result) PROVE BulkInv'
  BY <1>8, <1>9 DEF ChildAnswers, Awaiting, AtChild
<1>10. ASSUME NEW f \in FileSinks,
              \/ FileAccepts(f)
              \/ \E result \in {"Rejected", "IoError"} :
                    FileReportsError(f, result) \/ FileCannotSerialize(f, result)
       PROVE  BulkInv'
  <2>1. f \in ChildIds \ BulkSinks
    BY Sizes
  <2> QED BY <1>8, <1>10, <2>1 DEF FileReportsError, FileAccepts, FileCannotSerialize, AtFile,
                                   AtChild
<1> QED BY <1>2, <1>3, <1>4, <1>6, <1>7, <1>9, <1>10, StepBulk, ReturnBulk
        DEF Next, SendStep, Results

-----------------------------------------------------------------------------
(* What the bulk sink has answered for.                                    *)

(* A step after which every row that was indexed or refused still is, and  *)
(* no bulk sink has answered anything new.                                 *)
LEMMA RowsStay ==
    ASSUME BulkInv', RowsAccountedFor, batch' = batch,
           \A r \in Rows : accepted[r] > 0 => accepted'[r] > 0,
           refused \subseteq refused',
           \A c \in BulkSinks : oks'[c] = oks[c] /\ rejects'[c] = rejects[c]
    PROVE  RowsAccountedFor'
BY DEF BulkInv, SentOnce, RowsAccountedFor

(* Every step keeps the rows of the current batch accounted for.           *)
LEMMA NextRows == SinksInv /\ [Next]_vars /\ FanoutInv' /\ BulkInv' => RowsAccountedFor'
<1> SUFFICES ASSUME FanoutInv, BulkInv, RowsAccountedFor, [Next]_vars, FanoutInv', BulkInv'
             PROVE  RowsAccountedFor'
  BY DEF SinksInv
<1> USE DEF workerVars, answerVars
<1>1. accepted \in [Rows -> Nat] /\ accepted' \in [Rows -> Nat]
  BY DEF BulkInv, BulkTypes
<1>2. CASE TakeItem
  <2>1. batch' \in Batches /\ batch' > batch
    BY <1>2 DEF TakeItem, FanoutInv, SinkTypes, StatesTell, CallSendBatch
  <2>2. \A c \in ChildIds : oks'[c][batch'] = 0 /\ batch' \notin rejects'[c]
    BY <1>2, <2>1 DEF TakeItem, FanoutInv, StatesTell
  <2> QED BY <2>2, Sizes DEF RowsAccountedFor, BulkInv, SentOnce
<1>3. ASSUME UNCHANGED <<batch, answerVars, accepted, refused>> PROVE RowsAccountedFor'
  BY <1>3, RowsStay
<1>4. CASE \/ UNCHANGED vars \/ Cancel \/ WriterStep \/ Shutdown \/ BackoffEnds
           \/ SkipSettled \/ SendReturns
  BY <1>3, <1>4 DEF vars, Cancel, WriterStep, WriterTakes, WriterWrites, WriterFails, Shutdown,
                    BackoffEnds, SkipSettled, SendReturns, Settle, bulkVars
<1>5. ASSUME NEW S, Index(S) PROVE \A r \in Rows : accepted[r] > 0 => accepted'[r] > 0
  BY <1>1, <1>5 DEF Index
<1>6. CASE BulkStep
  <2>1. UNCHANGED <<batch, answerVars>>
    BY <1>6 DEF BulkStep
  <2>2. refused \subseteq refused'
    BY <1>6 DEF BulkStep, BulkStarts, BulkSplits, BulkTooLarge, BulkResponse, BulkFails,
                BulkCannotSerialize, BulkRefusesSize, SendSplitHalves, PartDone
  <2>3. \/ UNCHANGED accepted
        \/ \E S : Index(S)
    BY <1>6 DEF BulkStep, BulkStarts, BulkSplits, BulkTooLarge, BulkResponse, BulkFails,
                BulkCannotSerialize, BulkRefusesSize, SendSplitHalves
  <2>4. \A r \in Rows : accepted[r] > 0 => accepted'[r] > 0
    BY <1>5, <2>3
  <2> QED BY <2>1, <2>2, <2>4, RowsStay
<1>7. ASSUME DropSend, UNCHANGED <<batch, answerVars>> PROVE RowsAccountedFor'
  <2>1. refused' = refused
    BY <1>7 DEF DropSend, BulkDropped, bulkVars
  <2>2. UNCHANGED accepted \/ \E S : Index(S)
    BY <1>7 DEF DropSend, BulkDropped, bulkVars
  <2> QED BY <1>5, <1>7, <2>1, <2>2, RowsStay
<1>8. CASE TimesOut
  BY <1>7, <1>8 DEF TimesOut
<1>9. CASE Cancelled
  <2>1. UNCHANGED <<batch, answerVars>>
    BY <1>9 DEF Cancelled, Settle
  <2>2. CASE DropSend
    BY <1>7, <2>1, <2>2
  <2>3. CASE UNCHANGED bulkVars
    BY <1>3, <2>1, <2>3 DEF bulkVars
  <2> QED BY <1>9, <2>2, <2>3 DEF Cancelled
<1>10. ASSUME UNCHANGED bulkVars, UNCHANGED batch, child \in ChildIds \ BulkSinks,
              NEW result, Merge(result)
       PROVE  RowsAccountedFor'
  <2>1. oks \in [ChildIds -> [Batches -> Nat]] /\ rejects \in [ChildIds -> SUBSET Batches]
    BY DEF FanoutInv, SinkTypes
  <2>2. \A c \in BulkSinks : oks'[c] = oks[c] /\ rejects'[c] = rejects[c]
    BY <1>10, <2>1, Sizes DEF Merge
  <2> QED BY <1>10, <2>2, RowsStay DEF bulkVars
<1>11. ASSUME NEW result \in Results, ChildAnswers(result) PROVE RowsAccountedFor'
  BY <1>10, <1>11 DEF ChildAnswers, Awaiting, AtChild
<1>12. ASSUME NEW f \in FileSinks,
              \/ FileAccepts(f)
              \/ \E result \in {"Rejected", "IoError"} :
                    FileReportsError(f, result) \/ FileCannotSerialize(f, result)
       PROVE  RowsAccountedFor'
  <2>1. f \in ChildIds \ BulkSinks
    BY Sizes
  <2> QED BY <1>10, <1>12, <2>1 DEF FileReportsError, FileAccepts, FileCannotSerialize, AtFile,
                                    AtChild
<1>13. CASE BulkAnswers
  <2>1. /\ child \in BulkSinks /\ states[child] = "Pending" /\ wpc = "sending"
        /\ attempt # Idle /\ todo = <<>> /\ batch' = batch
        /\ UNCHANGED <<accepted, refused, unsure>>
        /\ Merge(BulkResult)
    BY <1>13 DEF BulkAnswers, AtChild, BulkReturns
  <2>2. \A r \in Rows : r \in attempt.rows \/ r \in AllRejections \/ accepted[r] > 0
    BY <2>1 DEF BulkInv, NoRowForgotten, AllRejections
  <2>3. AllRejections \subseteq refused
    BY DEF BulkInv, AttemptTells, AllRejections
  <2>4. BulkResult \in Results /\ batch \in Batches
    BY <2>1, BulkResultIn DEF BulkInv, FanoutInv, StatesTell
  <2>5. attempt.kind \notin {"RetryAfter", "IoError"} => attempt.rows = {}
    BY DEF BulkInv, BulkTypes, Attempts, AttemptTells, Results
  <2>6. BulkResult = "Ok" => \A r \in Rows : accepted[r] > 0
    BY <2>2, <2>5 DEF BulkResult
  <2>7. BulkResult = "Rejected" => \A r \in Rows : accepted[r] > 0 \/ r \in refused
    BY <2>2, <2>3, <2>5 DEF BulkResult
  <2>8. oks[child][batch] = 0 /\ batch \notin rejects[child] /\ child \in ChildIds
    BY <2>1, <2>4, Sizes DEF FanoutInv, StatesTell
  <2>9. /\ BulkResult # "Ok" => oks' = oks
        /\ BulkResult # "Rejected" => rejects' = rejects
    BY <2>1 DEF Merge
  <2>10. \A c \in BulkSinks : c = child
    BY <2>1, OneBulk
  <2>11. ASSUME NEW c \in BulkSinks, NEW r \in Rows
         PROVE  /\ oks'[c][batch] > 0 => accepted[r] > 0
                /\ batch \in rejects'[c] => accepted[r] > 0 \/ r \in refused
    <3>1. c = child
      BY <2>10
    <3>2. oks'[child][batch] > 0 => BulkResult = "Ok"
      BY <2>8, <2>9
    <3>3. batch \in rejects'[child] => BulkResult = "Rejected"
      BY <2>8, <2>9
    <3> QED BY <2>6, <2>7, <3>1, <3>2, <3>3
  <2> QED BY <2>1, <2>11 DEF RowsAccountedFor
<1> QED BY <1>2, <1>4, <1>6, <1>8, <1>9, <1>11, <1>12, <1>13 DEF Next, SendStep, Results

-----------------------------------------------------------------------------
(* SinksInv holds from the start and every step of the worker, of a child, *)
(* of the bulk sink and of a writer thread keeps it.                       *)
THEOREM SinksInvariant == Spec => []SinksInv
<1>1. Init => SinksInv
  <2> SUFFICES ASSUME Init PROVE RowsAccountedFor
    BY InitFanout, InitBulk DEF SinksInv
  <2>1. batch \notin Batches
    BY Sizes DEF Init, Batches
  <2> QED BY <2>1 DEF RowsAccountedFor, Init, BulkInit
<1>2. SinksInv /\ [Next]_vars => SinksInv'
  <2> SUFFICES ASSUME SinksInv, [Next]_vars PROVE SinksInv'
    OBVIOUS
  <2>1. FanoutInv'
    BY NextFanout DEF SinksInv, BulkInv
  <2>2. BulkInv'
    BY NextBulk DEF SinksInv
  <2> QED BY <2>1, <2>2, NextRows DEF SinksInv
<1> QED BY <1>1, <1>2, PTL DEF Spec

(* A child that has accepted a batch is not sent it again, however often   *)
(* the batch is retried, timed out or dropped for the other children.      *)
THEOREM ChildrenAcceptOnce == Spec => []AcceptedOnce
<1>1. SinksInv => AcceptedOnce
  BY DEF SinksInv, FanoutInv
<1> QED BY <1>1, SinksInvariant, PTL

(* The outcome the worker reports for a batch speaks for every child.      *)
THEOREM OutcomeIsEveryChilds == Spec => []OutcomeSpeaksForAll
<1>1. SinksInv => OutcomeSpeaksForAll
  BY DEF SinksInv, FanoutInv
<1> QED BY <1>1, SinksInvariant, PTL

(* However a bulk request is split and however its parts fail, the answer  *)
(* of the bulk sink accounts for every row, and no row is indexed twice    *)
(* unless the answer to its request was lost.                              *)
THEOREM RowsAreAccountedFor == Spec => []RowsAccountedFor
<1>1. SinksInv => RowsAccountedFor
  BY DEF SinksInv
<1> QED BY <1>1, SinksInvariant, PTL
=============================================================================
