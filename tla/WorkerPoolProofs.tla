--------------------------- MODULE WorkerPoolProofs --------------------------
(***************************************************************************)
(* The worker pool's safety properties for any set of items, any           *)
(* max_workers and any number of worker tasks: an item handed to submit is *)
(* in one place at a time, and no more sinks exist than max_workers.       *)
(***************************************************************************)
EXTENDS WorkerPool, FiniteSetTheorems, SequenceTheorems, TLAPS

(* The workers a handle of the pool refers to.                             *)
Handles == {workers[k] : k \in DOMAIN workers}

Phases == {"unborn", "receiving", "sending", "backoff", "closing", "gone"}
Answers == [item : Items, outcome : {"Delivered", "Rejected", "InternalFailure", "PoolClosed",
                                     "NoWorkersAvailable", "WorkerChannelClosed"}]

(* submit holds an item exactly while it dispatches it, and waits only on  *)
(* a worker it has a handle for.                                           *)
SubmitState ==
    /\ (pc \in {"dispatch", "waiting"}) <=> (msg \in Items)
    /\ pc = "waiting" => workers # <<>>

(* A worker holds an item exactly while it processes it; a task that does  *)
(* not exist has an empty channel, and ids are given out in order.         *)
WorkerState ==
    \A w \in WorkerIds :
        /\ (phase[w] \in {"sending", "backoff"}) <=> (item[w] \in Items)
        /\ (phase[w] = "unborn") <=> (w > spawned)
        /\ phase[w] \in {"unborn", "gone"} => inbox[w] = <<>>

(* Handles are of workers that were created, and until drain drops the     *)
(* handles no task runs without one.                                       *)
HandleState ==
    /\ \A k \in DOMAIN workers : workers[k] <= spawned
    /\ pc \in {"idle", "dispatch", "waiting"} => Live \subseteq Handles

(* Every item is in the one place it was moved to, or in none before it is *)
(* submitted.                                                              *)
OnePlace == \A i \in Items :
    IF i \in submitted THEN \E p : Places(i) = {p} ELSE Places(i) = {}

ControlInv ==
    /\ TypeOK
    /\ acks \in Seq(Answers)
    /\ SubmitState
    /\ WorkerState
    /\ HandleState
    /\ SinksBounded

PoolInv == ControlInv /\ OnePlace

-----------------------------------------------------------------------------
(* Sequences and the set of live workers.                                  *)

(* The sequence without its n-th element, as TrySend writes it.            *)
Without(s, n) == SubSeq(s, 1, n - 1) \o SubSeq(s, n + 1, Len(s))

(* What stands where after the n-th element was removed.                   *)
LEMMA WithoutElements ==
    ASSUME NEW S, NEW s \in Seq(S), NEW n \in 1 .. Len(s)
    PROVE  /\ Without(s, n) \in Seq(S) /\ Len(Without(s, n)) = Len(s) - 1
           /\ \A k \in 1 .. (n - 1) : Without(s, n)[k] = s[k]
           /\ \A k \in n .. (Len(s) - 1) : Without(s, n)[k] = s[k + 1]
<1> DEFINE a == SubSeq(s, 1, n - 1)
           b == SubSeq(s, n + 1, Len(s))
<1>1. /\ a \in Seq(S) /\ Len(a) = n - 1
      /\ \A k \in 1 .. (n - 1) : a[k] = s[k]
  OBVIOUS
<1>2. /\ b \in Seq(S) /\ Len(b) = Len(s) - n
      /\ \A k \in 1 .. (Len(s) - n) : b[k] = s[n + k]
  OBVIOUS
<1>3. Without(s, n) = a \o b
  BY DEF Without
<1>4. Len(s) \in Nat
  OBVIOUS
<1> HIDE DEF a, b
<1>5. a \o b \in Seq(S) /\ Len(a \o b) = Len(s) - 1
  <2>1. a \o b \in Seq(S) /\ Len(a \o b) = Len(a) + Len(b)
    BY <1>1, <1>2, ConcatProperties
  <2> QED BY <1>1, <1>2, <1>4, <2>1
<1>6. ASSUME NEW k \in 1 .. (n - 1)
      PROVE  (a \o b)[k] = s[k]
  BY <1>1, <1>2, <1>4
<1>7. ASSUME NEW k \in n .. (Len(s) - 1)
      PROVE  (a \o b)[k] = s[k + 1]
  <2>1. k - Len(a) \in 1 .. (Len(s) - n) /\ n + (k - Len(a)) = k + 1
    BY <1>1, <1>4
  <2>2. (a \o b)[k] = b[k - Len(a)]
    BY <1>1, <1>2, <1>4
  <2>3. b[k - Len(a)] = s[n + (k - Len(a))]
    BY <1>2, <2>1
  <2> QED BY <2>1, <2>2, <2>3
<1> QED BY <1>3, <1>5, <1>6, <1>7

(* Removing the n-th handle keeps every other handle, and adds none.       *)
LEMMA RemoveAt ==
    ASSUME NEW S, NEW s \in Seq(S), NEW n \in 1 .. Len(s)
    PROVE  /\ \A k \in 1 .. Len(s) : k # n =>
                  \E m \in 1 .. Len(Without(s, n)) : Without(s, n)[m] = s[k]
           /\ \A m \in 1 .. Len(Without(s, n)) : \E k \in 1 .. Len(s) : Without(s, n)[m] = s[k]
<1>1. Len(s) \in Nat
  OBVIOUS
<1>2. ASSUME NEW k \in 1 .. Len(s), k # n
      PROVE  \E m \in 1 .. Len(Without(s, n)) : Without(s, n)[m] = s[k]
  <2>1. CASE k < n
    BY <1>1, <2>1, WithoutElements
  <2>2. CASE k > n
    <3>1. k - 1 \in n .. (Len(s) - 1) /\ (k - 1) + 1 = k /\ k - 1 \in 1 .. Len(Without(s, n))
      BY <1>1, <2>2, WithoutElements
    <3>2. Without(s, n)[k - 1] = s[k]
      BY <3>1, WithoutElements
    <3> QED BY <3>1, <3>2
  <2> QED BY <1>1, <1>2, <2>1, <2>2
<1>3. ASSUME NEW m \in 1 .. Len(Without(s, n))
      PROVE  \E k \in 1 .. Len(s) : Without(s, n)[m] = s[k]
  <2>1. CASE m < n
    BY <1>1, <2>1, WithoutElements
  <2>2. CASE m >= n
    <3>1. m \in n .. (Len(s) - 1) /\ m + 1 \in 1 .. Len(s)
      BY <1>1, <2>2, WithoutElements
    <3> QED BY <3>1, WithoutElements
  <2>3. m \in Nat /\ n \in Nat
    BY <1>1, WithoutElements
  <2> QED BY <2>1, <2>2, <2>3
<1> QED BY <1>2, <1>3

(* A sequence has no more distinct elements than its length.               *)
LEMMA RangeBound ==
    ASSUME NEW S, NEW s \in Seq(S)
    PROVE  /\ IsFiniteSet({s[k] : k \in DOMAIN s})
           /\ Cardinality({s[k] : k \in DOMAIN s}) <= Len(s)
<1> DEFINE R == {s[k] : k \in DOMAIN s}
<1>1. Len(s) \in Nat /\ DOMAIN s = 1 .. Len(s)
  OBVIOUS
<1>2. IsFiniteSet(DOMAIN s) /\ Cardinality(DOMAIN s) = Len(s)
  BY <1>1, FS_Interval
<1>3. s \in Surjection(DOMAIN s, R)
  BY <1>1 DEF Surjection
<1> HIDE DEF R
<1>4. IsFiniteSet(R) /\ Cardinality(R) <= Cardinality(DOMAIN s)
  BY <1>2, <1>3, FS_Surjection
<1> QED BY <1>2, <1>4 DEF R

(* While the pool holds the handles of all live workers, their number is   *)
(* bounded as the handles' number is.                                      *)
LEMMA HeldIsBounded ==
    ASSUME NEW handles \in Seq(WorkerIds), Len(handles) <= MaxWorkers,
           NEW live \in SUBSET {handles[k] : k \in DOMAIN handles}
    PROVE  Cardinality(live) <= MaxWorkers
<1> DEFINE held == {handles[k] : k \in DOMAIN handles}
<1>1. IsFiniteSet(held) /\ Cardinality(held) <= Len(handles) /\ Len(handles) \in Nat
  BY RangeBound, LenProperties
<1> HIDE DEF held
<1>2. IsFiniteSet(live) /\ Cardinality(live) <= Cardinality(held)
  BY <1>1, FS_Subset DEF held
<1>3. Cardinality(live) \in Nat /\ Cardinality(held) \in Nat /\ MaxWorkers \in Nat
  BY <1>1, <1>2, FS_CardinalityType, PoolAssumptions
<1> QED BY <1>1, <1>2, <1>3

(* A step after which no more workers live keeps the bound.                *)
LEMMA FewerIsBounded ==
    ASSUME SinksBounded, Live' \subseteq Live
    PROVE  SinksBounded'
<1>1. IsFiniteSet(WorkerIds)
  BY PoolAssumptions, FS_Interval DEF WorkerIds
<1>2. IsFiniteSet(Live)
  BY <1>1, FS_Subset DEF Live
<1>3. IsFiniteSet(Live') /\ Cardinality(Live') <= Cardinality(Live)
  BY <1>2, FS_Subset
<1>4. Cardinality(Live) \in Nat /\ Cardinality(Live') \in Nat /\ MaxWorkers \in Nat
  BY <1>2, <1>3, FS_CardinalityType, PoolAssumptions
<1> QED BY <1>3, <1>4 DEF SinksBounded

-----------------------------------------------------------------------------
(* Every step keeps the control invariant.                                 *)

(* An answer appended to the acks is an answer about an item.              *)
LEMMA AckTyped ==
    ASSUME NEW i \in Items, acks \in Seq(Answers),
           NEW outcome \in {"Delivered", "Rejected", "InternalFailure", "PoolClosed",
                            "NoWorkersAvailable", "WorkerChannelClosed"},
           Ack(i, outcome)
    PROVE  acks' \in Seq(Answers)
<1>1. [item |-> i, outcome |-> outcome] \in Answers
  BY DEF Answers
<1> QED BY <1>1, AppendProperties DEF Ack

(* Before anything was submitted the pool is empty.                        *)
LEMMA InitControl == Init => ControlInv
<1> SUFFICES ASSUME Init PROVE ControlInv
  OBVIOUS
<1>1. TypeOK
  <2>1. MaxWorkers \in Nat /\ MaxWorkers > 0 /\ MaxSpawns \in Nat
    BY PoolAssumptions
  <2>2. /\ index \in 1 .. (MaxWorkers + 1) /\ spawned \in 0 .. MaxSpawns
        /\ workers \in Seq(WorkerIds) /\ Len(workers) <= MaxWorkers
    BY <2>1 DEF Init
  <2>3. /\ inbox \in [WorkerIds -> Seq(Items \cup {"Shutdown"})]
        /\ \A w \in WorkerIds : Len(inbox[w]) <= 1
    BY DEF Init
  <2> QED BY <2>2, <2>3 DEF Init, TypeOK
<1>2. Live = {}
  BY DEF Init, Live
<1>3. acks \in Seq(Answers)
  BY DEF Init
<1>4. SubmitState /\ WorkerState
  BY PoolAssumptions DEF Init, SubmitState, WorkerState, WorkerIds
<1>5. HandleState
  BY <1>2 DEF Init, HandleState
<1>6. SinksBounded
  BY <1>1, <1>2, HeldIsBounded DEF SinksBounded, TypeOK
<1> QED BY <1>1, <1>3, <1>4, <1>5, <1>6 DEF ControlInv

(* submit takes an item, during the pool's life and after drain.           *)
LEMMA SubmitControl ==
    ASSUME ControlInv, NEW i \in Items, Submit(i) \/ SubmitAfterDrain(i)
    PROVE  ControlInv'
<1> USE DEF ControlInv, poolVars, workerVars, drainVars
<1>1. CASE Submit(i)
  <2>1. TypeOK'
    BY <1>1, PoolAssumptions DEF Submit, TypeOK
  <2>2. Live' = Live /\ Handles' = Handles
    BY <1>1 DEF Submit, Live, Handles
  <2>3. SubmitState' /\ WorkerState' /\ acks' \in Seq(Answers)
    BY <1>1 DEF Submit, SubmitState, WorkerState
  <2>4. HandleState'
    BY <1>1, <2>2 DEF Submit, HandleState
  <2>5. SinksBounded'
    BY <2>2, FewerIsBounded
  <2> QED BY <2>1, <2>3, <2>4, <2>5
<1>2. CASE SubmitAfterDrain(i)
  <2>1. TypeOK'
    BY <1>2 DEF SubmitAfterDrain, TypeOK
  <2>2. Live' = Live /\ Handles' = Handles
    BY <1>2 DEF SubmitAfterDrain, Live, Handles
  <2>3. SubmitState' /\ WorkerState'
    BY <1>2 DEF SubmitAfterDrain, SubmitState, WorkerState
  <2>4. acks' \in Seq(Answers)
    BY <1>2, AckTyped DEF SubmitAfterDrain
  <2>5. HandleState'
    BY <1>2, <2>2 DEF SubmitAfterDrain, HandleState
  <2>6. SinksBounded'
    BY <2>2, FewerIsBounded
  <2> QED BY <2>1, <2>3, <2>4, <2>5, <2>6
<1> QED BY <1>1, <1>2

(* One try_send: the handle is pruned, skipped or promoted.                *)
LEMMA TrySendControl ==
    ASSUME ControlInv, TrySend
    PROVE  ControlInv'
<1> USE DEF ControlInv
<1> DEFINE w == workers[index]
<1>1. /\ workers \in Seq(WorkerIds) /\ Len(workers) \in Nat /\ Len(workers) <= MaxWorkers
      /\ DOMAIN workers = 1 .. Len(workers)
      /\ index \in 1 .. Len(workers) /\ 1 \in 1 .. Len(workers)
      /\ workers[1] \in WorkerIds
  <2>1. /\ workers \in Seq(WorkerIds) /\ Len(workers) <= MaxWorkers
        /\ index \in 1 .. (MaxWorkers + 1) /\ index <= Len(workers) /\ MaxWorkers \in Nat
    BY PoolAssumptions DEF TrySend, TypeOK
  <2>2. Len(workers) \in Nat /\ DOMAIN workers = 1 .. Len(workers)
    BY <2>1
  <2>3. index \in 1 .. Len(workers) /\ 1 \in 1 .. Len(workers)
    BY <2>1, <2>2
  <2> QED BY <2>1, <2>2, <2>3, ElementOfSeq
<1>2. w \in WorkerIds /\ phase[w] # "unborn"
  <2>1. w \in WorkerIds /\ w <= spawned
    BY <1>1 DEF HandleState
  <2> QED BY <2>1, PoolAssumptions DEF WorkerState, WorkerIds, TypeOK
<1>3. Live' = Live
  BY DEF TrySend, Live
<1>4. SinksBounded' /\ acks' \in Seq(Answers)
  BY <1>3, FewerIsBounded DEF TrySend
<1>5. pc = "dispatch" /\ msg \in Items /\ Live \subseteq Handles
  BY DEF TrySend, SubmitState, HandleState
<1>6. ASSUME phase[w] = "gone", workers' = Without(workers, index),
             UNCHANGED <<pc, msg, index, inbox>>
      PROVE  ControlInv'
  <2>1. /\ workers' \in Seq(WorkerIds) /\ Len(workers') = Len(workers) - 1
        /\ DOMAIN workers' = 1 .. Len(workers')
    <3>1. Without(workers, index) \in Seq(WorkerIds)
          /\ Len(Without(workers, index)) = Len(workers) - 1
      BY <1>1, WithoutElements
    <3> QED BY <1>6, <3>1, LenProperties
  <2>2. TypeOK'
    <3>1. Len(workers') <= MaxWorkers
      BY <1>1, <2>1, PoolAssumptions
    <3> QED BY <1>6, <2>1, <3>1 DEF TypeOK, TrySend, drainVars
  <2>3. Live \subseteq Handles'
    <3> SUFFICES ASSUME NEW v \in Live PROVE v \in Handles'
      OBVIOUS
    <3>1. PICK k \in 1 .. Len(workers) : workers[k] = v
      BY <1>1, <1>5 DEF Handles
    <3>2. k # index
      BY <1>6, <3>1 DEF Live
    <3>3. \E m \in 1 .. Len(workers') : workers'[m] = workers[k]
      BY <1>1, <1>6, <3>2, RemoveAt
    <3> QED BY <2>1, <3>1, <3>3 DEF Handles
  <2>4. HandleState'
    <3>1. \A m \in 1 .. Len(workers') : \E k \in 1 .. Len(workers) : workers'[m] = workers[k]
      BY <1>1, <1>6, RemoveAt
    <3>2. spawned' = spawned
      BY DEF TrySend
    <3>3. \A m \in DOMAIN workers' : workers'[m] <= spawned'
      BY <1>1, <2>1, <3>1, <3>2 DEF HandleState
    <3> QED BY <1>3, <2>3, <3>3 DEF HandleState
  <2>5. SubmitState' /\ WorkerState'
    BY <1>5, <1>6 DEF SubmitState, WorkerState, TrySend
  <2> QED BY <1>4, <2>2, <2>4, <2>5
<1>7. ASSUME index' = index + 1, UNCHANGED <<pc, msg, workers, inbox>>
      PROVE  ControlInv'
  <2>1. TypeOK'
    BY <1>1, <1>7, PoolAssumptions DEF TypeOK, TrySend, drainVars
  <2>2. SubmitState' /\ WorkerState' /\ HandleState'
    BY <1>3, <1>7 DEF SubmitState, WorkerState, HandleState, Handles, TrySend
  <2> QED BY <1>4, <2>1, <2>2
<1>8. ASSUME phase[w] # "gone",
             inbox' = [inbox EXCEPT ![w] = <<msg>>],
             workers' = [workers EXCEPT ![1] = w, ![index] = workers[1]],
             Done, UNCHANGED index
      PROVE  ControlInv'
  <2>1. /\ workers' \in Seq(WorkerIds) /\ Len(workers') = Len(workers)
        /\ DOMAIN workers' = 1 .. Len(workers)
    <3>1. [workers EXCEPT ![1] = w] \in Seq(WorkerIds)
      BY <1>1, <1>2, ExceptSeq
    <3> QED BY <1>1, <1>2, <1>8
  <2>2. <<msg>> \in Seq(Items \cup {"Shutdown"}) /\ Len(<<msg>>) = 1
    BY <1>5
  <2>3. TypeOK'
    BY <1>1, <1>2, <1>8, <2>1, <2>2 DEF TypeOK, TrySend, Done, drainVars
  <2>4. Handles' = Handles
    BY <1>1, <1>2, <1>8, <2>1 DEF Handles
  <2>5. HandleState'
    <3>1. \A k \in DOMAIN workers' : workers'[k] <= spawned
      BY <1>1, <1>8, <2>1 DEF HandleState
    <3> QED BY <1>3, <1>5, <2>4, <3>1 DEF HandleState, TrySend
  <2>6. SubmitState'
    BY <1>8, PoolAssumptions DEF SubmitState, Done
  <2>7. WorkerState'
    BY <1>2, <1>8 DEF WorkerState, TrySend, TypeOK
  <2> QED BY <1>4, <2>3, <2>5, <2>6, <2>7
<1> HIDE DEF ControlInv
<1> QED BY <1>6, <1>7, <1>8 DEF TrySend, Without

(* A new worker gets the next id, the item and the front handle.           *)
LEMMA SpawnControl ==
    ASSUME ControlInv, SpawnWorker
    PROVE  ControlInv'
<1> USE DEF ControlInv
<1> DEFINE w == spawned + 1
<1>1. /\ workers \in Seq(WorkerIds) /\ Len(workers) \in Nat
      /\ DOMAIN workers = 1 .. Len(workers)
      /\ Len(workers) < MaxWorkers /\ MaxWorkers \in Nat
  BY PoolAssumptions, LenProperties DEF SpawnWorker, TypeOK
<1>2. spawned \in Nat /\ w \in WorkerIds /\ spawned' = w
  BY PoolAssumptions DEF SpawnWorker, TypeOK, WorkerIds
<1>3. pc = "dispatch" /\ msg \in Items /\ Live \subseteq Handles
  BY DEF SpawnWorker, AllTried, SubmitState, HandleState
<1>4. /\ phase' = [phase EXCEPT ![w] = "receiving"]
      /\ inbox' = [inbox EXCEPT ![w] = <<msg>>]
      /\ workers' = <<w>> \o workers
      /\ Done
      /\ UNCHANGED <<index, item, drainVars, submitted, acks, lost>>
  BY DEF SpawnWorker
<1> HIDE DEF w
<1>5. /\ workers' \in Seq(WorkerIds) /\ Len(workers') = Len(workers) + 1
      /\ workers'[1] = w /\ \A k \in 1 .. Len(workers) : workers'[k + 1] = workers[k]
      /\ DOMAIN workers' = 1 .. (Len(workers) + 1)
  <2>1. <<w>> \in Seq(WorkerIds) /\ Len(<<w>>) = 1 /\ <<w>>[1] = w
    BY <1>2
  <2>2. workers' \in Seq(WorkerIds) /\ Len(workers') = 1 + Len(workers)
    BY <1>1, <1>4, <2>1, ConcatProperties
  <2>3. workers'[1] = w
    BY <1>1, <1>4, <2>1
  <2>4. ASSUME NEW k \in 1 .. Len(workers) PROVE workers'[k + 1] = workers[k]
    BY <1>1, <1>4, <2>1
  <2> QED BY <1>1, <2>2, <2>3, <2>4, LenProperties
<1>6. phase[w] = "unborn" /\ item[w] \notin Items
  <2>1. w > spawned
    BY <1>2 DEF w
  <2> QED BY <1>2, <2>1 DEF WorkerState
<1>7. TypeOK'
  <2>1. <<msg>> \in Seq(Items \cup {"Shutdown"}) /\ Len(<<msg>>) = 1
    BY <1>3
  <2>2. inbox' \in [WorkerIds -> Seq(Items \cup {"Shutdown"})]
    BY <1>2, <1>4, <2>1 DEF TypeOK
  <2>3. \A v \in WorkerIds : Len(inbox'[v]) <= 1
    BY <1>2, <1>4, <2>1 DEF TypeOK
  <2>4. phase' \in [WorkerIds -> Phases]
    BY <1>2, <1>4 DEF TypeOK, Phases
  <2>5. Len(workers') <= MaxWorkers
    BY <1>1, <1>5
  <2>6. spawned' \in 0 .. MaxSpawns
    BY <1>2, PoolAssumptions DEF WorkerIds
  <2> QED BY <1>4, <1>5, <2>2, <2>3, <2>4, <2>5, <2>6 DEF TypeOK, Done, drainVars, Phases
<1>8. Live' \subseteq Handles'
  <2>1. w \in Handles'
    BY <1>1, <1>5 DEF Handles
  <2>2. ASSUME NEW v \in Live', v # w PROVE v \in Handles'
    <3>1. v \in Live
      BY <1>2, <1>4, <2>2 DEF Live, TypeOK
    <3>2. PICK k \in 1 .. Len(workers) : workers[k] = v
      BY <1>1, <1>3, <3>1 DEF Handles
    <3>3. k + 1 \in DOMAIN workers' /\ workers'[k + 1] = v
      BY <1>1, <1>5, <3>2
    <3> QED BY <3>3 DEF Handles
  <2> QED BY <2>1, <2>2
<1>9. HandleState'
  <2>1. ASSUME NEW k \in DOMAIN workers' PROVE workers'[k] <= spawned'
    <3>1. CASE k = 1
      BY <1>2, <1>5, <3>1 DEF WorkerIds
    <3>2. CASE k # 1
      <4>1. k - 1 \in 1 .. Len(workers) /\ (k - 1) + 1 = k
        BY <1>1, <1>5, <3>2
      <4>2. workers'[k] = workers[k - 1]
        BY <1>5, <4>1
      <4>3. workers[k - 1] \in WorkerIds
        BY <1>1, <4>1, ElementOfSeq
      <4>4. workers[k - 1] <= spawned
        BY <1>1, <4>1 DEF HandleState
      <4> QED BY <1>2, <4>2, <4>3, <4>4 DEF w, WorkerIds
    <3> QED BY <3>1, <3>2
  <2> QED BY <1>8, <2>1 DEF HandleState
<1>10. WorkerState'
  <2> SUFFICES ASSUME NEW v \in WorkerIds
               PROVE  /\ (phase'[v] \in {"sending", "backoff"}) <=> (item'[v] \in Items)
                      /\ (phase'[v] = "unborn") <=> (v > spawned')
                      /\ phase'[v] \in {"unborn", "gone"} => inbox'[v] = <<>>
    BY DEF WorkerState
  <2>1. CASE v = w
    BY <1>2, <1>4, <1>6, <2>1 DEF TypeOK, WorkerIds
  <2>2. CASE v # w
    <3>1. phase'[v] = phase[v] /\ inbox'[v] = inbox[v] /\ item'[v] = item[v]
      BY <1>2, <1>4, <2>2 DEF TypeOK
    <3>2. (v > spawned') <=> (v > spawned)
      BY <1>2, <2>2 DEF w, WorkerIds
    <3> QED BY <3>1, <3>2 DEF WorkerState
  <2> QED BY <2>1, <2>2
<1>11. SubmitState' /\ acks' \in Seq(Answers)
  BY <1>4, PoolAssumptions DEF SubmitState, Done
<1>12. SinksBounded'
  BY <1>7, <1>8, HeldIsBounded DEF SinksBounded, TypeOK, Handles
<1> QED BY <1>7, <1>9, <1>10, <1>11, <1>12

(* submit waits on the front worker, or answers for want of a worker.      *)
LEMMA WaitControl ==
    ASSUME ControlInv, WaitOnFront \/ NoWorkersAvailable
    PROVE  ControlInv'
<1> USE DEF ControlInv, workerVars, drainVars
<1>1. Live' = Live /\ Handles' = Handles
  BY DEF WaitOnFront, NoWorkersAvailable, Live, Handles
<1>2. SinksBounded'
  BY <1>1, FewerIsBounded
<1>3. pc = "dispatch" /\ msg \in Items
  BY DEF WaitOnFront, NoWorkersAvailable, AllTried, SubmitState
<1>4. TypeOK' /\ WorkerState'
  BY DEF WaitOnFront, NoWorkersAvailable, TypeOK, WorkerState, Done
<1>5. SubmitState'
  BY <1>3, PoolAssumptions DEF WaitOnFront, NoWorkersAvailable, SubmitState, Done
<1>6. HandleState'
  BY <1>1, <1>3 DEF WaitOnFront, NoWorkersAvailable, HandleState, Done
<1>7. acks' \in Seq(Answers)
  <2>1. CASE WaitOnFront
    BY <2>1 DEF WaitOnFront
  <2>2. CASE NoWorkersAvailable
    BY <1>3, <2>2, AckTyped DEF NoWorkersAvailable
  <2> QED BY <2>1, <2>2
<1> QED BY <1>2, <1>4, <1>5, <1>6, <1>7

(* The awaited send goes through, or finds the channel closed.             *)
LEMMA WaitSendControl ==
    ASSUME ControlInv, WaitSend
    PROVE  ControlInv'
<1> USE DEF ControlInv, drainVars
<1> DEFINE w == workers[1]
<1>1. Live' = Live /\ Handles' = Handles
  BY DEF WaitSend, Live, Handles
<1>2. SinksBounded'
  BY <1>1, FewerIsBounded
<1>3. pc = "waiting" /\ msg \in Items /\ Live \subseteq Handles
  BY DEF WaitSend, SubmitState, HandleState
<1>4. w \in WorkerIds /\ phase[w] # "unborn"
  <2>1. workers \in Seq(WorkerIds) /\ workers # <<>>
    BY <1>3 DEF TypeOK, SubmitState
  <2>2. 1 \in DOMAIN workers /\ w \in WorkerIds
    BY <2>1, LenProperties, EmptySeq
  <2>3. w <= spawned
    BY <2>2 DEF HandleState
  <2> QED BY <2>2, <2>3, PoolAssumptions DEF WorkerState, WorkerIds, TypeOK
<1>5. HandleState'
  BY <1>1, <1>3 DEF WaitSend, HandleState, Done
<1>6. SubmitState'
  BY PoolAssumptions DEF WaitSend, SubmitState, Done
<1>7. CASE phase[w] # "gone" /\ inbox' = [inbox EXCEPT ![w] = <<msg>>] /\ UNCHANGED acks
  <2>1. <<msg>> \in Seq(Items \cup {"Shutdown"}) /\ Len(<<msg>>) = 1
    BY <1>3
  <2>2. TypeOK'
    BY <1>4, <1>7, <2>1 DEF TypeOK, WaitSend, Done
  <2>3. WorkerState'
    BY <1>4, <1>7 DEF WorkerState, WaitSend, TypeOK
  <2> QED BY <1>2, <1>5, <1>6, <1>7, <2>2, <2>3
<1>8. CASE Ack(msg, "WorkerChannelClosed") /\ UNCHANGED inbox
  <2>1. TypeOK' /\ WorkerState'
    BY <1>8 DEF TypeOK, WorkerState, WaitSend, Done
  <2>2. acks' \in Seq(Answers)
    BY <1>3, <1>8, AckTyped
  <2> QED BY <1>2, <1>5, <1>6, <2>1, <2>2
<1> QED BY <1>7, <1>8 DEF WaitSend

(* What a worker task does leaves the pool's own state alone.              *)
LEMMA WorkerControl ==
    ASSUME ControlInv, NEW w \in WorkerIds, WorkerStep(w)
    PROVE  ControlInv'
<1> USE DEF ControlInv
<1>1. UNCHANGED <<pc, msg, index, workers, spawned, is_draining, cancel, forced_abort, submitted>>
  BY DEF WorkerStep, Receive, RecvNone, CancelIdle, SendReturns, SendPanics, BackOff, Retry,
         CancelItem, Leave, Answer, poolVars, drainVars
<1>2. /\ phase[w] \notin {"unborn", "gone"} /\ phase' = [phase EXCEPT ![w] = phase'[w]]
      /\ phase'[w] \in {"receiving", "sending", "backoff", "closing", "gone"}
  BY DEF WorkerStep, Receive, RecvNone, CancelIdle, SendReturns, SendPanics, BackOff, Retry,
         CancelItem, Leave, Answer, TypeOK
<1>3. Live' \subseteq Live /\ Handles' = Handles
  BY <1>1, <1>2 DEF Live, Handles, TypeOK
<1>4. SinksBounded'
  BY <1>3, FewerIsBounded
<1>5. SubmitState' /\ HandleState'
  BY <1>1, <1>3 DEF SubmitState, HandleState
<1>6. phase' \in [WorkerIds -> Phases] /\ \A v \in WorkerIds : v # w => phase'[v] = phase[v]
  BY <1>2 DEF TypeOK, Phases
<1>7. ASSUME inbox' = inbox \/ inbox' = [inbox EXCEPT ![w] = <<>>]
      PROVE  /\ inbox' \in [WorkerIds -> Seq(Items \cup {"Shutdown"})]
             /\ \A v \in WorkerIds : Len(inbox'[v]) <= 1 /\ (v # w => inbox'[v] = inbox[v])
  <2>1. <<>> \in Seq(Items \cup {"Shutdown"}) /\ Len(<<>>) = 0
    OBVIOUS
  <2>2. /\ inbox \in [WorkerIds -> Seq(Items \cup {"Shutdown"})]
        /\ \A v \in WorkerIds : Len(inbox[v]) <= 1
    BY DEF TypeOK
  <2>3. CASE inbox' = [inbox EXCEPT ![w] = <<>>]
    <3>1. inbox' \in [WorkerIds -> Seq(Items \cup {"Shutdown"})]
      BY <2>1, <2>2, <2>3
    <3>2. ASSUME NEW v \in WorkerIds PROVE Len(inbox'[v]) <= 1 /\ (v # w => inbox'[v] = inbox[v])
      <4>1. CASE v = w
        BY <2>1, <2>2, <2>3, <4>1
      <4>2. CASE v # w
        BY <2>2, <2>3, <4>2
      <4> QED BY <4>1, <4>2
    <3> QED BY <3>1, <3>2
  <2> QED BY <1>7, <2>2, <2>3
<1>8. ASSUME acks' \in Seq(Answers), lost' \subseteq Items,
             inbox' = inbox \/ inbox' = [inbox EXCEPT ![w] = <<>>],
             phase'[w] = "gone" => inbox'[w] = <<>>,
             NEW i, item' = [item EXCEPT ![w] = i],
             i \in Items \cup {None},
             (i \in Items) <=> (phase'[w] \in {"sending", "backoff"})
      PROVE  ControlInv'
  <2>1. /\ item' \in [WorkerIds -> Items \cup {None}] /\ item'[w] = i
        /\ \A v \in WorkerIds : v # w => item'[v] = item[v]
    BY <1>8 DEF TypeOK
  <2>2. TypeOK'
    BY <1>1, <1>6, <1>7, <1>8, <2>1 DEF TypeOK, Phases
  <2>3. WorkerState'
    <3> SUFFICES ASSUME NEW v \in WorkerIds
                 PROVE  /\ (phase'[v] \in {"sending", "backoff"}) <=> (item'[v] \in Items)
                        /\ (phase'[v] = "unborn") <=> (v > spawned')
                        /\ phase'[v] \in {"unborn", "gone"} => inbox'[v] = <<>>
      BY DEF WorkerState
    <3>1. CASE v = w
      BY <1>1, <1>2, <1>8, <2>1, <3>1 DEF WorkerState
    <3>2. CASE v # w
      BY <1>1, <1>6, <1>7, <1>8, <2>1, <3>2 DEF WorkerState
    <3> QED BY <3>1, <3>2
  <2> QED BY <1>4, <1>5, <1>8, <2>2, <2>3
<1>9. item = [item EXCEPT ![w] = item[w]] /\ item[w] \in Items \cup {None} /\ lost \subseteq Items
  BY DEF TypeOK
<1>10. CASE Receive(w)
  <2>1. inbox[w] \in Seq(Items \cup {"Shutdown"}) /\ inbox[w] # <<>>
    BY <1>10 DEF Receive, TypeOK
  <2>2. Head(inbox[w]) \in Items \cup {"Shutdown"}
    BY <2>1, HeadTailProperties
  <2>3. /\ inbox' = [inbox EXCEPT ![w] = <<>>] /\ inbox'[w] = <<>>
        /\ acks' = acks /\ lost' = lost /\ item[w] \notin Items
    BY <1>10 DEF Receive, TypeOK, WorkerState
  <2>4. CASE Head(inbox[w]) = "Shutdown"
    <3>1. phase'[w] = "closing" /\ item' = [item EXCEPT ![w] = item[w]]
      BY <1>9, <1>10, <2>4 DEF Receive, TypeOK
    <3> QED BY <1>8, <1>9, <2>3, <3>1
  <2>5. CASE Head(inbox[w]) # "Shutdown"
    <3>1. phase'[w] = "sending" /\ item' = [item EXCEPT ![w] = Head(inbox[w])]
      BY <1>10, <2>5 DEF Receive, TypeOK
    <3> QED BY <1>8, <1>9, <2>2, <2>3, <2>5, <3>1
  <2> QED BY <2>4, <2>5
<1>11. CASE RecvNone(w) \/ CancelIdle(w)
  <2>1. /\ phase'[w] = "closing" /\ item[w] \notin Items
        /\ item' = item /\ inbox' = inbox /\ acks' = acks /\ lost' = lost
    BY <1>11 DEF RecvNone, CancelIdle, TypeOK, WorkerState
  <2> QED BY <1>8, <1>9, <2>1
<1>12. CASE BackOff(w) \/ Retry(w)
  <2>1. /\ phase'[w] \in {"sending", "backoff"} /\ item[w] \in Items
        /\ item' = item /\ inbox' = inbox /\ acks' = acks /\ lost' = lost
    BY <1>12 DEF BackOff, Retry, TypeOK, WorkerState
  <2> QED BY <1>8, <1>9, <2>1
<1>13. CASE SendReturns(w) \/ SendPanics(w) \/ CancelItem(w)
  <2>1. PICK outcome \in {"Delivered", "Rejected", "InternalFailure", "PoolClosed"},
             next \in {"receiving", "closing"} : Answer(w, outcome, next)
    BY <1>13 DEF SendReturns, SendPanics, CancelItem
  <2>2. item[w] \in Items
    BY <1>13 DEF SendReturns, SendPanics, CancelItem, WorkerState
  <2>3. acks' \in Seq(Answers)
    BY <2>1, <2>2, AckTyped DEF Answer
  <2>4. /\ item' = [item EXCEPT ![w] = None] /\ None \notin Items
        /\ inbox' = inbox /\ lost' = lost /\ phase'[w] = next
    BY <2>1, PoolAssumptions DEF Answer, TypeOK
  <2> QED BY <1>8, <1>9, <2>1, <2>3, <2>4
<1>14. CASE Leave(w)
  <2>1. /\ phase'[w] = "gone" /\ item[w] \notin Items /\ inbox'[w] = <<>>
        /\ item' = item /\ inbox' = [inbox EXCEPT ![w] = <<>>] /\ acks' = acks
    BY <1>14 DEF Leave, TypeOK, WorkerState
  <2>2. lost' \subseteq Items
    BY <1>9, <1>14 DEF Leave, Work
  <2> QED BY <1>8, <1>9, <2>1, <2>2
<1> HIDE DEF ControlInv
<1> QED BY <1>10, <1>11, <1>12, <1>13, <1>14 DEF WorkerStep

(* The phases of drain: handles are dropped, then only workers end.        *)
LEMMA DrainControl ==
    ASSUME ControlInv, DrainSignal \/ DrainStep
    PROVE  ControlInv'
<1> USE DEF ControlInv, workerVars, drainVars
<1>1. CASE DrainSignal
  <2>1. Live' = Live
    BY <1>1 DEF DrainSignal, Live
  <2>2. SinksBounded'
    BY <2>1, FewerIsBounded
  <2>3. <<"Shutdown">> \in Seq(Items \cup {"Shutdown"}) /\ Len(<<"Shutdown">>) = 1
    OBVIOUS
  <2>4. inbox' \in [WorkerIds -> Seq(Items \cup {"Shutdown"})]
        /\ \A v \in WorkerIds : Len(inbox'[v]) <= 1
    <3>1. /\ inbox \in [WorkerIds -> Seq(Items \cup {"Shutdown"})]
          /\ \A v \in WorkerIds : Len(inbox[v]) <= 1
      BY DEF TypeOK
    <3>2. /\ DOMAIN inbox' = WorkerIds /\ inbox' = [v \in WorkerIds |-> inbox'[v]]
          /\ \A v \in WorkerIds : inbox'[v] \in {<<"Shutdown">>, inbox[v]}
      BY <1>1 DEF DrainSignal
    <3> HIDE DEF ControlInv
    <3>3. ASSUME NEW v \in WorkerIds
          PROVE  inbox'[v] \in Seq(Items \cup {"Shutdown"}) /\ Len(inbox'[v]) <= 1
      <4>1. CASE inbox'[v] = <<"Shutdown">>
        <5>1. Len(inbox'[v]) = 1 /\ inbox'[v] \in Seq(Items \cup {"Shutdown"})
          BY ONLY <2>3, <4>1
        <5> QED BY ONLY <5>1
      <4>2. CASE inbox'[v] = inbox[v]
        BY <3>1, <4>2
      <4> QED BY <3>2, <4>1, <4>2
    <3> QED BY <3>2, <3>3
  <2>5. workers' \in Seq(WorkerIds) /\ Len(workers') <= MaxWorkers /\ DOMAIN workers' = {}
    BY <1>1, PoolAssumptions DEF DrainSignal
  <2>6. TypeOK'
    BY <1>1, <2>4, <2>5 DEF DrainSignal, TypeOK
  <2>7. WorkerState'
    BY <1>1 DEF DrainSignal, WorkerState, TypeOK, Live
  <2>8. SubmitState' /\ HandleState' /\ acks' \in Seq(Answers)
    BY <1>1, <2>5 DEF DrainSignal, SubmitState, HandleState
  <2> QED BY <2>2, <2>6, <2>7, <2>8
<1>2. CASE DrainJoined \/ DrainTimeout
  <2>1. Live' = Live
    BY <1>2 DEF DrainJoined, DrainTimeout, Live
  <2>2. SinksBounded'
    BY <2>1, FewerIsBounded
  <2>3. TypeOK' /\ WorkerState'
    BY <1>2 DEF DrainJoined, DrainTimeout, TypeOK, WorkerState
  <2>4. SubmitState' /\ HandleState' /\ acks' \in Seq(Answers)
    BY <1>2 DEF DrainJoined, DrainTimeout, SubmitState, HandleState
  <2> QED BY <2>2, <2>3, <2>4
<1>3. CASE DrainAbort
  <2>1. Live' = {}
    BY <1>3 DEF DrainAbort, Live
  <2>2. SinksBounded'
    BY <2>1, FewerIsBounded
  <2>3. <<>> \in Seq(Items \cup {"Shutdown"}) /\ Len(<<>>) = 0
    OBVIOUS
  <2>4. lost' \subseteq Items
    BY <1>3 DEF DrainAbort, Work, TypeOK
  <2>5. TypeOK'
    BY <1>3, <2>3, <2>4 DEF DrainAbort, TypeOK
  <2>6. WorkerState'
    BY <1>3, PoolAssumptions DEF DrainAbort, WorkerState, TypeOK, Live
  <2>7. SubmitState' /\ HandleState' /\ acks' \in Seq(Answers)
    BY <1>3 DEF DrainAbort, SubmitState, HandleState
  <2> QED BY <2>2, <2>5, <2>6, <2>7
<1> QED BY <1>1, <1>2, <1>3 DEF DrainStep

(* Every step of the pool and its workers keeps the control invariant.     *)
LEMMA NextControl == ControlInv /\ [Next]_vars => ControlInv'
<1> SUFFICES ASSUME ControlInv, [Next]_vars PROVE ControlInv'
  OBVIOUS
<1>1. CASE UNCHANGED vars
  BY <1>1 DEF ControlInv, TypeOK, SubmitState, WorkerState, HandleState, SinksBounded, Live,
              Handles, vars, poolVars, workerVars, drainVars
<1>2. CASE Next
  BY <1>2, SubmitControl, TrySendControl, SpawnControl, WaitControl, WaitSendControl,
     WorkerControl, DrainControl DEF Next, SubmitStep
<1> QED BY <1>1, <1>2

-----------------------------------------------------------------------------
(* Where an item is, by kind of place.                                     *)

Channels == [WorkerIds -> Seq(Items \cup {"Shutdown"})]

MsgOf(m, i) == {<<"msg", i>> : x \in {m} \cap {i}}
BoxesOf(f, i) == {<<"inbox", w>> : w \in {v \in WorkerIds : i \in Work(f[v])}}
HandsOf(f, i) == {<<"item", w>> : w \in {v \in WorkerIds : f[v] = i}}
AcksOf(s, i) == {<<"ack", k>> : k \in {n \in DOMAIN s : s[n].item = i}}
LostOf(S, i) == {<<"lost", i>> : x \in S \cap {i}}

(* Places is the union of the five kinds.                                  *)
LEMMA PlacesSplit ==
    ASSUME NEW i \in Items
    PROVE  /\ Places(i) = MsgOf(msg, i) \cup BoxesOf(inbox, i) \cup HandsOf(item, i)
                          \cup AcksOf(acks, i) \cup LostOf(lost, i)
           /\ Places(i)' = MsgOf(msg', i) \cup BoxesOf(inbox', i) \cup HandsOf(item', i)
                           \cup AcksOf(acks', i) \cup LostOf(lost', i)
BY DEF Places, MsgOf, BoxesOf, HandsOf, AcksOf, LostOf, Work

(* The caller of submit holds the item it dispatches and no other.         *)
LEMMA MsgIs ==
    ASSUME NEW i, NEW m
    PROVE  MsgOf(m, i) = IF m = i THEN {<<"msg", i>>} ELSE {}
BY DEF MsgOf

(* An item is lost or it is not.                                           *)
LEMMA LostIs ==
    ASSUME NEW i, NEW S
    PROVE  LostOf(S, i) = IF i \in S THEN {<<"lost", i>>} ELSE {}
BY DEF LostOf

(* The work in an empty channel, and in one that holds a message.          *)
LEMMA WorkIs ==
    ASSUME NEW c \in Seq(Items \cup {"Shutdown"}), Len(c) <= 1
    PROVE  Work(c) = IF c = <<>> \/ Head(c) = "Shutdown" THEN {} ELSE {Head(c)}
<1>1. CASE c = <<>>
  BY <1>1 DEF Work
<1>2. CASE c # <<>>
  <2>1. DOMAIN c = {1} /\ Head(c) = c[1] /\ c[1] \in Items \cup {"Shutdown"}
    <3>1. Len(c) \in Nat \ {0}
      BY <1>2, EmptySeq
    <3>2. Len(c) = 1
      BY <3>1
    <3> QED BY <1>2, <3>2, LenProperties, ElementOfSeq, HeadTailProperties
  <2>2. Work(c) = {c[1]} \cap Items
    BY <2>1 DEF Work
  <2> QED BY <1>2, <2>1, <2>2, PoolAssumptions
<1> QED BY <1>1, <1>2

(* A message put into an empty channel.                                    *)
LEMMA BoxPut ==
    ASSUME NEW f, NEW g, NEW w \in WorkerIds, NEW i \in Items, f[w] = <<>>,
           \A v \in WorkerIds : v # w => g[v] = f[v]
    PROVE  BoxesOf(g, i) = BoxesOf(f, i) \cup IF i \in Work(g[w]) THEN {<<"inbox", w>>} ELSE {}
<1>1. Work(f[w]) = {}
  BY DEF Work
<1>2. \A v \in WorkerIds : i \in Work(g[v]) <=> (v = w /\ i \in Work(g[w])) \/ i \in Work(f[v])
  BY <1>1
<1> QED BY <1>2 DEF BoxesOf

(* A channel emptied.                                                      *)
LEMMA BoxTake ==
    ASSUME NEW f \in Channels, NEW w \in WorkerIds, NEW i \in Items
    PROVE  /\ BoxesOf([f EXCEPT ![w] = <<>>], i) = BoxesOf(f, i) \ {<<"inbox", w>>}
           /\ <<"inbox", w>> \in BoxesOf(f, i) <=> i \in Work(f[w])
<1> DEFINE g == [f EXCEPT ![w] = <<>>]
<1>1. Work(<<>>) = {}
  BY DEF Work
<1>2. \A v \in WorkerIds : g[v] = IF v = w THEN <<>> ELSE f[v]
  BY DEF Channels
<1> HIDE DEF g
<1>3. \A v \in WorkerIds : i \in Work(g[v]) <=> v # w /\ i \in Work(f[v])
  BY <1>1, <1>2
<1>4. BoxesOf(g, i) = BoxesOf(f, i) \ {<<"inbox", w>>}
  BY <1>3 DEF BoxesOf
<1>5. <<"inbox", w>> \in BoxesOf(f, i) <=> i \in Work(f[w])
  BY DEF BoxesOf
<1> QED BY <1>4, <1>5 DEF g

(* The item a worker takes up in place of another value.                   *)
LEMMA HandPut ==
    ASSUME NEW f, NEW g, NEW w \in WorkerIds, NEW i \in Items,
           \A v \in WorkerIds : v # w => g[v] = f[v]
    PROVE  /\ HandsOf(g, i) = (HandsOf(f, i) \ {<<"item", w>>})
                              \cup IF g[w] = i THEN {<<"item", w>>} ELSE {}
           /\ <<"item", w>> \in HandsOf(f, i) <=> f[w] = i
BY DEF HandsOf

(* An answer appended to the acks.                                         *)
LEMMA AckAdd ==
    ASSUME NEW s \in Seq(Answers), NEW a \in Answers, NEW i \in Items
    PROVE  AcksOf(Append(s, a), i) =
               IF a.item = i THEN AcksOf(s, i) \cup {<<"ack", Len(s) + 1>>} ELSE AcksOf(s, i)
<1>1. /\ DOMAIN s = 1 .. Len(s) /\ Len(s) \in Nat
      /\ DOMAIN Append(s, a) = 1 .. (Len(s) + 1)
      /\ \A k \in 1 .. Len(s) : Append(s, a)[k] = s[k]
      /\ Append(s, a)[Len(s) + 1] = a
  BY AppendProperties, LenProperties
<1>2. DOMAIN Append(s, a) = DOMAIN s \cup {Len(s) + 1}
  BY <1>1
<1> QED BY <1>1, <1>2 DEF AcksOf

(* An item that is in one place is in no other.                            *)
LEMMA OnlyHere ==
    ASSUME OnePlace, NEW i \in Items
    PROVE  /\ msg = i =>
                 /\ i \in submitted
                 /\ BoxesOf(inbox, i) = {} /\ HandsOf(item, i) = {}
                 /\ AcksOf(acks, i) = {} /\ LostOf(lost, i) = {}
           /\ \A w : <<"inbox", w>> \in BoxesOf(inbox, i) =>
                 /\ i \in submitted /\ BoxesOf(inbox, i) = {<<"inbox", w>>}
                 /\ MsgOf(msg, i) = {} /\ HandsOf(item, i) = {}
                 /\ AcksOf(acks, i) = {} /\ LostOf(lost, i) = {}
           /\ \A w : <<"item", w>> \in HandsOf(item, i) =>
                 /\ i \in submitted /\ HandsOf(item, i) = {<<"item", w>>}
                 /\ MsgOf(msg, i) = {} /\ BoxesOf(inbox, i) = {}
                 /\ AcksOf(acks, i) = {} /\ LostOf(lost, i) = {}
<1>1. ASSUME NEW p \in Places(i) PROVE i \in submitted /\ Places(i) = {p}
  BY <1>1 DEF OnePlace
<1> DEFINE M == MsgOf(msg, i)
           B == BoxesOf(inbox, i)
           H == HandsOf(item, i)
           A == AcksOf(acks, i)
           L == LostOf(lost, i)
<1>2. Places(i) = M \cup B \cup H \cup A \cup L
  BY PlacesSplit
<1>3. /\ \A p \in M : p[1] = "msg"
      /\ \A p \in B : p[1] = "inbox"
      /\ \A p \in H : p[1] = "item"
      /\ \A p \in A : p[1] = "ack"
      /\ \A p \in L : p[1] = "lost"
  BY DEF MsgOf, BoxesOf, HandsOf, AcksOf, LostOf
<1>4. msg = i => <<"msg", i>> \in M
  BY MsgIs
<1> HIDE DEF M, B, H, A, L
<1>5. ASSUME msg = i PROVE i \in submitted /\ B = {} /\ H = {} /\ A = {} /\ L = {}
  BY <1>1, <1>2, <1>3, <1>4, <1>5
<1>6. ASSUME NEW w, <<"inbox", w>> \in B
      PROVE  i \in submitted /\ B = {<<"inbox", w>>} /\ M = {} /\ H = {} /\ A = {} /\ L = {}
  BY <1>1, <1>2, <1>3, <1>6
<1>7. ASSUME NEW w, <<"item", w>> \in H
      PROVE  i \in submitted /\ H = {<<"item", w>>} /\ M = {} /\ B = {} /\ A = {} /\ L = {}
  BY <1>1, <1>2, <1>3, <1>7
<1> QED BY <1>5, <1>6, <1>7 DEF M, B, H, A, L

(* The item stays where it was.                                            *)
LEMMA Stays ==
    ASSUME OnePlace, NEW i \in Items, (i \in submitted') <=> (i \in submitted),
           MsgOf(msg', i) = MsgOf(msg, i), BoxesOf(inbox', i) = BoxesOf(inbox, i),
           HandsOf(item', i) = HandsOf(item, i), AcksOf(acks', i) = AcksOf(acks, i),
           LostOf(lost', i) = LostOf(lost, i)
    PROVE  IF i \in submitted' THEN \E p : Places(i)' = {p} ELSE Places(i)' = {}
<1>1. Places(i)' = Places(i)
  BY PlacesSplit
<1> QED BY <1>1 DEF OnePlace

(* The item is in one place after the step.                                *)
LEMMA Moves ==
    ASSUME NEW i \in Items, i \in submitted', NEW p,
           MsgOf(msg', i) \cup BoxesOf(inbox', i) \cup HandsOf(item', i)
               \cup AcksOf(acks', i) \cup LostOf(lost', i) = {p}
    PROVE  IF i \in submitted' THEN \E q : Places(i)' = {q} ELSE Places(i)' = {}
BY PlacesSplit

(* Submitting puts an item that was nowhere into one place.                *)
LEMMA SubmitPlaces ==
    ASSUME ControlInv, OnePlace, NEW j \in Items, Submit(j) \/ SubmitAfterDrain(j)
    PROVE  OnePlace'
<1> SUFFICES ASSUME NEW i \in Items
             PROVE  IF i \in submitted' THEN \E p : Places(i)' = {p} ELSE Places(i)' = {}
  BY DEF OnePlace
<1>1. UNCHANGED <<inbox, item, lost>> /\ j \notin submitted /\ submitted' = submitted \cup {j}
  BY DEF Submit, SubmitAfterDrain, workerVars
<1>2. ASSUME i = j
      PROVE  /\ MsgOf(msg, i) = {} /\ BoxesOf(inbox, i) = {} /\ HandsOf(item, i) = {}
             /\ AcksOf(acks, i) = {} /\ LostOf(lost, i) = {}
  <2>1. Places(i) = {}
    BY <1>1, <1>2 DEF OnePlace
  <2> QED BY <2>1, PlacesSplit
<1>3. CASE Submit(j)
  <2>1. msg \notin Items /\ msg' = j /\ acks' = acks
    BY <1>3 DEF Submit, SubmitState, ControlInv
  <2>2. CASE i = j
    <3>1. MsgOf(msg', i) = {<<"msg", i>>}
      BY <2>1, <2>2, MsgIs
    <3> QED BY <1>1, <1>2, <2>1, <2>2, <3>1, Moves
  <2>3. CASE i # j
    <3>1. MsgOf(msg', i) = MsgOf(msg, i)
      BY <2>1, <2>3, MsgIs
    <3> QED BY <1>1, <2>1, <2>3, <3>1, Stays
  <2> QED BY <2>2, <2>3
<1>4. CASE SubmitAfterDrain(j)
  <2> DEFINE a == [item |-> j, outcome |-> "PoolClosed"]
  <2>1. msg' = msg /\ acks' = Append(acks, a)
    BY <1>4 DEF SubmitAfterDrain, poolVars, Ack
  <2>2. acks \in Seq(Answers) /\ a \in Answers /\ a.item = j
    BY DEF ControlInv, Answers
  <2> HIDE DEF a
  <2>3. AcksOf(acks', i) = IF i = j THEN AcksOf(acks, i) \cup {<<"ack", Len(acks) + 1>>}
                           ELSE AcksOf(acks, i)
    BY <2>1, <2>2, AckAdd
  <2>4. CASE i = j
    <3>1. /\ MsgOf(msg', i) = {} /\ BoxesOf(inbox', i) = {} /\ HandsOf(item', i) = {}
          /\ AcksOf(acks', i) = {<<"ack", Len(acks) + 1>>} /\ LostOf(lost', i) = {}
      BY <1>1, <1>2, <2>1, <2>3, <2>4
    <3> QED BY <1>1, <2>4, <3>1, Moves
  <2>5. CASE i # j
    BY <1>1, <2>1, <2>3, <2>5, Stays
  <2> QED BY <2>4, <2>5
<1> QED BY <1>3, <1>4

(* submit puts the item it holds into an empty channel.                    *)
LEMMA SentPlaces ==
    ASSUME ControlInv, OnePlace, msg \in Items, NEW w \in WorkerIds, inbox[w] = <<>>,
           inbox' = [inbox EXCEPT ![w] = <<msg>>], Done,
           UNCHANGED <<item, submitted, acks, lost>>
    PROVE  OnePlace'
<1> SUFFICES ASSUME NEW i \in Items
             PROVE  IF i \in submitted' THEN \E p : Places(i)' = {p} ELSE Places(i)' = {}
  BY DEF OnePlace
<1>1. BoxesOf(inbox', i) = BoxesOf(inbox, i) \cup IF i = msg THEN {<<"inbox", w>>} ELSE {}
  <2>1. inbox'[w] = <<msg>> /\ \A v \in WorkerIds : v # w => inbox'[v] = inbox[v]
    BY DEF ControlInv, TypeOK
  <2>2. Work(<<msg>>) = {msg}
    BY DEF Work
  <2>3. BoxesOf(inbox', i) = BoxesOf(inbox, i)
            \cup IF i \in Work(inbox'[w]) THEN {<<"inbox", w>>} ELSE {}
    BY ONLY <2>1, inbox[w] = <<>>, w \in WorkerIds, i \in Items, BoxPut
  <2> QED BY <2>1, <2>2, <2>3
<1>2. MsgOf(msg', i) = {}
  BY PoolAssumptions, MsgIs DEF Done
<1>3. CASE i = msg
  <2>1. /\ i \in submitted /\ BoxesOf(inbox, i) = {} /\ HandsOf(item, i) = {}
        /\ AcksOf(acks, i) = {} /\ LostOf(lost, i) = {}
    BY <1>3, OnlyHere
  <2>2. BoxesOf(inbox', i) = {<<"inbox", w>>}
    BY <1>1, <1>3, <2>1
  <2> QED BY <1>2, <2>1, <2>2, Moves
<1>4. CASE i # msg
  <2>1. MsgOf(msg, i) = {}
    BY <1>4, MsgIs
  <2> QED BY <1>1, <1>2, <1>4, <2>1, Stays
<1> QED BY <1>3, <1>4

(* submit answers for the item it holds.                                   *)
LEMMA RefusedPlaces ==
    ASSUME ControlInv, OnePlace, msg \in Items,
           NEW outcome \in {"NoWorkersAvailable", "WorkerChannelClosed"},
           Ack(msg, outcome), Done,
           UNCHANGED <<inbox, item, submitted, lost>>
    PROVE  OnePlace'
<1> SUFFICES ASSUME NEW i \in Items
             PROVE  IF i \in submitted' THEN \E p : Places(i)' = {p} ELSE Places(i)' = {}
  BY DEF OnePlace
<1> DEFINE a == [item |-> msg, outcome |-> outcome]
<1>1. acks' = Append(acks, a)
  BY DEF Ack
<1>2. acks \in Seq(Answers) /\ a \in Answers /\ a.item = msg
  BY DEF ControlInv, Answers
<1> HIDE DEF a
<1>3. AcksOf(acks', i) = IF i = msg THEN AcksOf(acks, i) \cup {<<"ack", Len(acks) + 1>>}
                         ELSE AcksOf(acks, i)
  BY <1>1, <1>2, AckAdd
<1>4. MsgOf(msg', i) = {}
  BY PoolAssumptions, MsgIs DEF Done
<1>5. CASE i = msg
  <2>1. /\ i \in submitted /\ BoxesOf(inbox, i) = {} /\ HandsOf(item, i) = {}
        /\ AcksOf(acks, i) = {} /\ LostOf(lost, i) = {}
    BY <1>5, OnlyHere
  <2>2. AcksOf(acks', i) = {<<"ack", Len(acks) + 1>>}
    BY <1>3, <1>5, <2>1
  <2> QED BY <1>4, <2>1, <2>2, Moves
<1>6. CASE i # msg
  <2>1. MsgOf(msg, i) = {}
    BY <1>6, MsgIs
  <2> QED BY <1>3, <1>4, <1>6, <2>1, Stays
<1> QED BY <1>5, <1>6

(* A worker takes the message out of its channel.                          *)
LEMMA ReceivePlaces ==
    ASSUME ControlInv, OnePlace, NEW w \in WorkerIds, Receive(w)
    PROVE  OnePlace'
<1> SUFFICES ASSUME NEW i \in Items
             PROVE  IF i \in submitted' THEN \E p : Places(i)' = {p} ELSE Places(i)' = {}
  BY DEF OnePlace
<1> DEFINE j == Head(inbox[w])
<1>1. /\ inbox \in Channels /\ inbox[w] # <<>> /\ inbox' = [inbox EXCEPT ![w] = <<>>]
      /\ item \in [WorkerIds -> Items \cup {None}] /\ item[w] \notin Items
      /\ UNCHANGED <<msg, submitted, acks, lost>>
  BY DEF Receive, ControlInv, TypeOK, WorkerState, Channels, poolVars
<1>2. Work(inbox[w]) = IF j = "Shutdown" THEN {} ELSE {j}
  BY <1>1, WorkIs DEF ControlInv, TypeOK
<1>3. /\ BoxesOf(inbox', i) = BoxesOf(inbox, i) \ {<<"inbox", w>>}
      /\ <<"inbox", w>> \in BoxesOf(inbox, i) <=> i \in Work(inbox[w])
  BY <1>1, BoxTake
<1>4. CASE j = "Shutdown"
  <2>1. item' = item
    BY <1>4 DEF Receive
  <2>2. BoxesOf(inbox', i) = BoxesOf(inbox, i)
    BY <1>2, <1>3, <1>4
  <2> QED BY <1>1, <2>1, <2>2, Stays
<1>5. CASE j # "Shutdown"
  <2>1. item' = [item EXCEPT ![w] = j]
    BY <1>5 DEF Receive
  <2> HIDE DEF j
  <2>2. /\ HandsOf(item', i) = (HandsOf(item, i) \ {<<"item", w>>})
                               \cup IF j = i THEN {<<"item", w>>} ELSE {}
        /\ <<"item", w>> \in HandsOf(item, i) <=> item[w] = i
    <3>1. item'[w] = j /\ \A v \in WorkerIds : v # w => item'[v] = item[v]
      BY <1>1, <2>1
    <3>2. HandsOf(item', i) = (HandsOf(item, i) \ {<<"item", w>>})
                               \cup IF item'[w] = i THEN {<<"item", w>>} ELSE {}
      BY <3>1, HandPut
    <3>3. <<"item", w>> \in HandsOf(item, i) <=> item[w] = i
      BY DEF HandsOf
    <3> QED BY <3>1, <3>2, <3>3
  <2>3. CASE i = j
    <3>1. <<"inbox", w>> \in BoxesOf(inbox, i)
      BY <1>2, <1>3, <1>5, <2>3
    <3>2. /\ i \in submitted /\ BoxesOf(inbox, i) = {<<"inbox", w>>} /\ MsgOf(msg, i) = {}
          /\ HandsOf(item, i) = {} /\ AcksOf(acks, i) = {} /\ LostOf(lost, i) = {}
      BY <3>1, OnlyHere
    <3>3. BoxesOf(inbox', i) = {} /\ HandsOf(item', i) = {<<"item", w>>}
      BY <1>3, <2>2, <2>3, <3>2
    <3> QED BY <1>1, <3>2, <3>3, Moves
  <2>4. CASE i # j
    <3>1. BoxesOf(inbox', i) = BoxesOf(inbox, i) /\ HandsOf(item', i) = HandsOf(item, i)
      BY <1>1, <1>2, <1>3, <1>5, <2>2, <2>4
    <3> QED BY <1>1, <3>1, Stays
  <2> QED BY <2>3, <2>4
<1> QED BY <1>4, <1>5

(* A worker answers for the item it holds.                                 *)
LEMMA AnswerPlaces ==
    ASSUME ControlInv, OnePlace, NEW w \in WorkerIds, item[w] \in Items,
           NEW outcome \in {"Delivered", "Rejected", "InternalFailure", "PoolClosed"},
           NEW next, Answer(w, outcome, next)
    PROVE  OnePlace'
<1> SUFFICES ASSUME NEW i \in Items
             PROVE  IF i \in submitted' THEN \E p : Places(i)' = {p} ELSE Places(i)' = {}
  BY DEF OnePlace
<1> DEFINE a == [item |-> item[w], outcome |-> outcome]
<1>1. /\ acks' = Append(acks, a) /\ item' = [item EXCEPT ![w] = None]
      /\ item \in [WorkerIds -> Items \cup {None}]
      /\ UNCHANGED <<msg, inbox, submitted, lost>>
  BY DEF Answer, Ack, poolVars, ControlInv, TypeOK
<1>2. acks \in Seq(Answers) /\ a \in Answers /\ a.item = item[w]
  BY DEF ControlInv, Answers
<1> HIDE DEF a
<1>3. AcksOf(acks', i) = IF i = item[w] THEN AcksOf(acks, i) \cup {<<"ack", Len(acks) + 1>>}
                         ELSE AcksOf(acks, i)
  BY <1>1, <1>2, AckAdd
<1>4. /\ HandsOf(item', i) = HandsOf(item, i) \ {<<"item", w>>}
      /\ <<"item", w>> \in HandsOf(item, i) <=> item[w] = i
  <2>1. item'[w] = None /\ i # None
    BY <1>1, PoolAssumptions
  <2>2. \A v \in WorkerIds : v # w => item'[v] = item[v]
    BY <1>1
  <2>3. HandsOf(item', i) = (HandsOf(item, i) \ {<<"item", w>>})
                            \cup IF item'[w] = i THEN {<<"item", w>>} ELSE {}
    BY ONLY <2>2, w \in WorkerIds, i \in Items, HandPut
  <2>4. <<"item", w>> \in HandsOf(item, i) <=> item[w] = i
    BY DEF HandsOf
  <2> QED BY <2>1, <2>3, <2>4
<1>5. CASE i = item[w]
  <2>1. /\ i \in submitted /\ HandsOf(item, i) = {<<"item", w>>} /\ MsgOf(msg, i) = {}
        /\ BoxesOf(inbox, i) = {} /\ AcksOf(acks, i) = {} /\ LostOf(lost, i) = {}
    BY <1>4, <1>5, OnlyHere
  <2>2. HandsOf(item', i) = {} /\ AcksOf(acks', i) = {<<"ack", Len(acks) + 1>>}
    BY <1>3, <1>4, <1>5, <2>1
  <2> QED BY <1>1, <2>1, <2>2, Moves
<1>6. CASE i # item[w]
  BY <1>1, <1>3, <1>4, <1>6, Stays
<1> QED BY <1>5, <1>6

(* A worker leaves, and what came into its channel meanwhile is lost.      *)
LEMMA LeavePlaces ==
    ASSUME ControlInv, OnePlace, NEW w \in WorkerIds, Leave(w)
    PROVE  OnePlace'
<1> SUFFICES ASSUME NEW i \in Items
             PROVE  IF i \in submitted' THEN \E p : Places(i)' = {p} ELSE Places(i)' = {}
  BY DEF OnePlace
<1>1. /\ inbox \in Channels /\ inbox' = [inbox EXCEPT ![w] = <<>>]
      /\ lost' = lost \cup Work(inbox[w])
      /\ UNCHANGED <<msg, item, submitted, acks>>
  BY DEF Leave, ControlInv, TypeOK, Channels, poolVars
<1>2. /\ BoxesOf(inbox', i) = BoxesOf(inbox, i) \ {<<"inbox", w>>}
      /\ <<"inbox", w>> \in BoxesOf(inbox, i) <=> i \in Work(inbox[w])
  BY <1>1, BoxTake
<1>3. CASE i \in Work(inbox[w])
  <2>1. LostOf(lost', i) = {<<"lost", i>>}
    BY <1>1, <1>3, LostIs
  <2> QED BY <1>1, <1>2, <1>3, <2>1, OnlyHere, Moves
<1>4. CASE i \notin Work(inbox[w])
  <2>1. LostOf(lost', i) = LostOf(lost, i)
    BY <1>1, <1>4, LostIs
  <2> QED BY <1>1, <1>2, <1>4, <2>1, Stays
<1> QED BY <1>3, <1>4

(* drain tells the workers to shut down, and drops no work by that.        *)
LEMMA SignalPlaces ==
    ASSUME ControlInv, OnePlace, DrainSignal
    PROVE  OnePlace'
<1> SUFFICES ASSUME NEW i \in Items
             PROVE  IF i \in submitted' THEN \E p : Places(i)' = {p} ELSE Places(i)' = {}
  BY DEF OnePlace
<1>1. UNCHANGED <<msg, item, submitted, acks, lost>>
  BY DEF DrainSignal
<1>2. Work(<<"Shutdown">>) = {} /\ Work(<<>>) = {}
  BY PoolAssumptions DEF Work
<1>3. \A v \in WorkerIds : inbox'[v] = inbox[v] \/ (inbox[v] = <<>> /\ inbox'[v] = <<"Shutdown">>)
  BY DEF DrainSignal
<1>4. \A v \in WorkerIds : Work(inbox'[v]) = Work(inbox[v])
  BY <1>2, <1>3
<1>5. BoxesOf(inbox', i) = BoxesOf(inbox, i)
  BY <1>4 DEF BoxesOf
<1> QED BY <1>1, <1>5, Stays

(* The tasks drain aborts lose what they hold, and nothing else is lost.   *)
LEMMA AbortPlaces ==
    ASSUME ControlInv, OnePlace, DrainAbort
    PROVE  OnePlace'
<1> SUFFICES ASSUME NEW i \in Items
             PROVE  IF i \in submitted' THEN \E p : Places(i)' = {p} ELSE Places(i)' = {}
  BY DEF OnePlace
<1>1. UNCHANGED <<msg, submitted, acks>> /\ None \notin Items
  BY PoolAssumptions DEF DrainAbort
<1>2. /\ \A v \in WorkerIds : inbox'[v] = <<>> /\ item'[v] = None
      /\ lost' = lost \cup UNION {Work(inbox[w]) \cup ({item[w]} \cap Items) : w \in Live}
  BY DEF DrainAbort
<1>3. Work(<<>>) = {}
  BY DEF Work
<1>4. BoxesOf(inbox', i) = {} /\ HandsOf(item', i) = {}
  BY <1>1, <1>2, <1>3 DEF BoxesOf, HandsOf
<1>5. \A w \in WorkerIds : w \notin Live => Work(inbox[w]) = {} /\ item[w] \notin Items
  BY <1>3 DEF Live, ControlInv, WorkerState, TypeOK
<1>6. ASSUME NEW w \in WorkerIds, i \in Work(inbox[w]) \/ item[w] = i
      PROVE  IF i \in submitted' THEN \E p : Places(i)' = {p} ELSE Places(i)' = {}
  <2>1. w \in Live
    BY <1>5, <1>6
  <2>2. i \in lost'
    BY <1>2, <1>6, <2>1
  <2>3. LostOf(lost', i) = {<<"lost", i>>}
    BY <2>2, LostIs
  <2>4. CASE i \in Work(inbox[w])
    <3>1. <<"inbox", w>> \in BoxesOf(inbox, i)
      BY <2>4 DEF BoxesOf
    <3> QED BY <1>1, <1>4, <2>3, <3>1, OnlyHere, Moves
  <2>5. CASE item[w] = i
    <3>1. <<"item", w>> \in HandsOf(item, i)
      BY <2>5 DEF HandsOf
    <3> QED BY <1>1, <1>4, <2>3, <3>1, OnlyHere, Moves
  <2> QED BY <1>6, <2>4, <2>5
<1>7. ASSUME \A w \in WorkerIds : i \notin Work(inbox[w]) /\ item[w] # i
      PROVE  IF i \in submitted' THEN \E p : Places(i)' = {p} ELSE Places(i)' = {}
  <2>1. BoxesOf(inbox, i) = {} /\ HandsOf(item, i) = {}
    BY <1>7 DEF BoxesOf, HandsOf
  <2>2. i \in lost' <=> i \in lost
    BY <1>2, <1>7 DEF Live
  <2>3. LostOf(lost', i) = LostOf(lost, i)
    BY <2>2, LostIs
  <2> QED BY <1>1, <1>4, <2>1, <2>3, Stays
<1> QED BY <1>6, <1>7

(* Every step keeps every item in one place.                               *)
LEMMA NextPlaces == PoolInv /\ [Next]_vars => OnePlace'
<1> SUFFICES ASSUME ControlInv, OnePlace, [Next]_vars PROVE OnePlace'
  BY DEF PoolInv
<1>1. ASSUME UNCHANGED <<msg, inbox, item, submitted, acks, lost>> PROVE OnePlace'
  BY <1>1, Stays DEF OnePlace
<1>2. CASE UNCHANGED vars
  BY <1>1, <1>2 DEF vars, poolVars, workerVars
<1>3. CASE TrySend
  <2>1. msg \in Items /\ UNCHANGED <<item, submitted, acks, lost>>
    BY <1>3 DEF TrySend, ControlInv, SubmitState
  <2>2. workers[index] \in WorkerIds
    <3>1. workers \in Seq(WorkerIds) /\ index \in 1 .. Len(workers)
      BY <1>3, PoolAssumptions, LenProperties DEF TrySend, ControlInv, TypeOK
    <3> QED BY <3>1, ElementOfSeq
  <2> QED BY <1>1, <1>3, <2>1, <2>2, SentPlaces DEF TrySend
<1>4. CASE SpawnWorker
  <2>1. msg \in Items /\ UNCHANGED <<item, submitted, acks, lost>> /\ Done
    BY <1>4 DEF SpawnWorker, AllTried, ControlInv, SubmitState
  <2>2. spawned + 1 \in WorkerIds /\ spawned + 1 > spawned
    BY <1>4, PoolAssumptions DEF SpawnWorker, ControlInv, TypeOK, WorkerIds
  <2>3. inbox[spawned + 1] = <<>>
    BY <2>2 DEF ControlInv, WorkerState
  <2>4. inbox' = [inbox EXCEPT ![spawned + 1] = <<msg>>]
    BY <1>4 DEF SpawnWorker
  <2> QED BY <2>1, <2>2, <2>3, <2>4, SentPlaces
<1>5. CASE WaitOnFront
  BY <1>1, <1>5 DEF WaitOnFront, workerVars
<1>6. CASE NoWorkersAvailable
  <2>1. msg \in Items /\ Ack(msg, "NoWorkersAvailable") /\ Done /\ UNCHANGED <<inbox, item, submitted, lost>>
    BY <1>6 DEF NoWorkersAvailable, AllTried, ControlInv, SubmitState, workerVars
  <2> QED BY <2>1, RefusedPlaces
<1>7. CASE WaitSend
  <2>1. msg \in Items /\ UNCHANGED <<item, submitted, lost>> /\ Done /\ workers # <<>>
    BY <1>7 DEF WaitSend, ControlInv, SubmitState
  <2>2. workers[1] \in WorkerIds
    <3>1. workers \in Seq(WorkerIds) /\ 1 \in 1 .. Len(workers)
      BY <2>1, EmptySeq DEF ControlInv, TypeOK
    <3> QED BY <3>1, ElementOfSeq
  <2>3. CASE /\ inbox[workers[1]] = <<>> /\ inbox' = [inbox EXCEPT ![workers[1]] = <<msg>>]
             /\ UNCHANGED acks
    BY <2>1, <2>2, <2>3, SentPlaces
  <2>4. CASE Ack(msg, "WorkerChannelClosed") /\ UNCHANGED inbox
    BY <2>1, <2>4, RefusedPlaces
  <2> QED BY <1>7, <2>3, <2>4 DEF WaitSend
<1>8. ASSUME NEW w \in WorkerIds, WorkerStep(w) PROVE OnePlace'
  <2>1. CASE RecvNone(w) \/ CancelIdle(w) \/ BackOff(w) \/ Retry(w)
    BY <1>1, <2>1 DEF RecvNone, CancelIdle, BackOff, Retry, poolVars
  <2>2. CASE SendReturns(w) \/ SendPanics(w) \/ CancelItem(w)
    <3>1. PICK outcome \in {"Delivered", "Rejected", "InternalFailure", "PoolClosed"},
               next \in {"receiving", "closing"} : Answer(w, outcome, next)
      BY <2>2 DEF SendReturns, SendPanics, CancelItem
    <3>2. item[w] \in Items
      BY <2>2 DEF SendReturns, SendPanics, CancelItem, ControlInv, WorkerState
    <3> QED BY <3>1, <3>2, AnswerPlaces
  <2> QED BY <1>8, <2>1, <2>2, ReceivePlaces, LeavePlaces DEF WorkerStep
<1>9. CASE DrainJoined \/ DrainTimeout
  BY <1>1, <1>9 DEF DrainJoined, DrainTimeout, workerVars
<1> QED BY <1>2, <1>3, <1>4, <1>5, <1>6, <1>7, <1>8, <1>9, SubmitPlaces, SignalPlaces, AbortPlaces
        DEF Next, SubmitStep, DrainStep

-----------------------------------------------------------------------------
(* PoolInv holds from the start, and every step of the pool's owner, of a  *)
(* worker task and of drain keeps it.                                      *)
THEOREM PoolInvariant == Spec => []PoolInv
<1>1. Init => PoolInv
  <2> SUFFICES ASSUME Init PROVE OnePlace
    BY InitControl DEF PoolInv
  <2> SUFFICES ASSUME NEW i \in Items PROVE Places(i) = {}
    BY DEF Init, OnePlace
  <2>1. Work(<<>>) = {}
    BY DEF Work
  <2>2. BoxesOf(inbox, i) = {} /\ HandsOf(item, i) = {} /\ AcksOf(acks, i) = {}
    BY <2>1, PoolAssumptions DEF Init, BoxesOf, HandsOf, AcksOf
  <2>3. MsgOf(msg, i) = {} /\ LostOf(lost, i) = {}
    BY PoolAssumptions DEF Init, MsgOf, LostOf
  <2> QED BY <2>2, <2>3, PlacesSplit
<1>2. PoolInv /\ [Next]_vars => PoolInv'
  BY NextControl, NextPlaces DEF PoolInv
<1> QED BY <1>1, <1>2, PTL DEF Spec

(* The types of the pool's state.                                          *)
THEOREM PoolTypes == Spec => []TypeOK
<1>1. PoolInv => TypeOK
  BY DEF PoolInv, ControlInv
<1> QED BY <1>1, PoolInvariant, PTL

(* Whatever the workers, the output and the timers do, an item handed to   *)
(* submit is in exactly one place: in dispatch, in one worker's channel or *)
(* hands, answered once, or recorded as lost.                              *)
THEOREM ItemsAreConserved == Spec => []ItemsConserved
<1>1. PoolInv => ItemsConserved
  <2> SUFFICES ASSUME OnePlace, NEW i \in Items
               PROVE  Cardinality(Places(i)) = IF i \in submitted THEN 1 ELSE 0
    BY DEF PoolInv, ItemsConserved
  <2>1. CASE i \in submitted
    <3>1. PICK p : Places(i) = {p}
      BY <2>1 DEF OnePlace
    <3> QED BY <2>1, <3>1, FS_Singleton
  <2>2. CASE i \notin submitted
    BY <2>2, FS_EmptySet DEF OnePlace
  <2> QED BY <2>1, <2>2
<1> QED BY <1>1, PoolInvariant, PTL

(* Idle expiry, lazy pruning and respawning never let more workers live    *)
(* than max_workers.                                                       *)
THEOREM SinksAreBounded == Spec => []SinksBounded
<1>1. PoolInv => SinksBounded
  BY DEF PoolInv, ControlInv
<1> QED BY <1>1, PoolInvariant, PTL
=============================================================================
