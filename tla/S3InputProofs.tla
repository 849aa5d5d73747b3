---------------------------- MODULE S3InputProofs ----------------------------
(***************************************************************************)
(* Proofs about S3Input, for every set of keys, messages and receipts and  *)
(* every capacity: the attempts to fetch an object reach the framer as     *)
(* separate streams, a message is deleted only when its objects are        *)
(* settled and gets heartbeats just while one of its records is on its     *)
(* way, and the cursor of the list mode passes no object that is not done. *)
(***************************************************************************)
EXTENDS S3Input, FiniteSetTheorems, WellFoundedInduction, SequenceTheorems, TLAPS

-----------------------------------------------------------------------------
(* The inductive invariant.                                                *)

TaskPCs == {"none", "fetch", "succeeded", "failed", "settle", "delete", "unlock"}
Works == [key : Keys, receipt : Receipts \cup {None}]
Tasks == [pc : TaskPCs, receipt : Receipts \cup {None}, attempt : Nat, sent : 0 .. Chunks]
Completions == [key : Keys, success : BOOLEAN]

ServiceTypes ==
    /\ mode \in Modes /\ is_running \in BOOLEAN
    /\ bucket \subseteq Keys /\ IsFiniteSet(bucket)
    /\ queue \in [Messages -> {"unsent", "visible", "hidden", "deleted"}]
    /\ delivery \in [Receipts -> Messages \cup {None}]

DiscoveryTypes ==
    /\ dpc \in {"list", "page", "permit"}
    /\ page \in Seq(Keys) /\ more \in Keys \cup {0}
    /\ received \subseteq Receipts /\ current \in Receipts \cup {None}
    /\ start_after \in Keys \cup {0} /\ dispatched \in Seq(Keys)
    /\ completed_set \subseteq Keys /\ in_flight \subseteq Keys
    /\ failure_counts \in [Keys -> Nat]
    /\ in_progress \subseteq Receipts
    /\ remaining \in [Receipts -> Nat] /\ successes \in [Receipts -> Nat]

FetchTypes ==
    /\ work \in Seq(Works) /\ Len(work) <= WorkBound
    /\ completed \in Seq(Completions) /\ Len(completed) <= WorkBound
    /\ held \in Works \cup {None}
    /\ fetching_keys \subseteq Keys
    /\ task \in [Keys -> Tasks]
    /\ out \in 0 .. OutBound /\ open \in [Keys -> Nat]
    /\ fetched \subseteq Keys /\ given_up \subseteq Keys /\ skipped \subseteq Keys
    /\ faults \in Nat

S3Types == ServiceTypes /\ DiscoveryTypes /\ FetchTypes

(* The tasks that hold a permit of the semaphore.                          *)
Spawned == {k \in Keys : task[k].pc # "none"}
PermitsHeld == IsFiniteSet(Spawned) /\ Cardinality(Spawned) <= MaxObjects

(* A key is locked while its work is held or its task runs, one of both.   *)
Locked ==
    /\ held # None => held.key \in fetching_keys /\ task[held.key].pc = "none"
    /\ \A k \in Keys : /\ task[k].pc # "none" => k \in fetching_keys
                       /\ task[k].pc = "none" => task[k].receipt = None

(* What was sent since the last end of file belongs to the attempt that    *)
(* runs.                                                                   *)
OpenState ==
    is_running => \A k \in Keys :
        open[k] = IF task[k].pc = "fetch" THEN task[k].sent ELSE 0

StreamInv == PermitsHeld /\ Locked /\ OpenState

(* Where the discovery is in a page or a message.                          *)
PageState ==
    /\ dpc = "list" => page = <<>>
    /\ dpc = "permit" => mode = "list" /\ page # <<>>
    /\ mode = "sqs" /\ dpc = "page" => page # <<>> /\ current # None
    /\ mode = "list" \/ dpc = "list" => current = None

(* The records of a delivery that are on their way, by place.              *)
PageKeys(r) == IF current = r THEN Members(page) ELSE {}
KeysFor(w, r) == {w[i].key : i \in {j \in DOMAIN w : w[j].receipt = r}}
HeldKeys(r) == IF held # None /\ held.receipt = r THEN {held.key} ELSE {}
TaskKeys(r, pcs) == {k \in Keys : task[k].receipt = r /\ task[k].pc \in pcs}
Fetching(r) == TaskKeys(r, {"fetch", "succeeded", "failed"})
Settling(r) == TaskKeys(r, {"settle"})

Waiting(r) == PageKeys(r) \cup KeysFor(work, r) \cup HeldKeys(r) \cup Fetching(r)
OnWay(r) == Waiting(r) \cup Settling(r)
Places(r) == <<PageKeys(r), KeysFor(work, r), HeldKeys(r), Fetching(r), Settling(r)>>

Distinct(s) == \A i, j \in DOMAIN s : s[i] = s[j] => i = j
DistinctFor(w, r) ==
    \A i, j \in DOMAIN w :
        w[i].receipt = r /\ w[j].receipt = r /\ w[i].key = w[j].key => i = j

(* A record is in one place.                                               *)
Apart(r) ==
    /\ DistinctFor(work, r)
    /\ PageKeys(r) \cap (KeysFor(work, r) \cup HeldKeys(r) \cup Fetching(r) \cup Settling(r)) = {}
    /\ KeysFor(work, r) \cap (HeldKeys(r) \cup Fetching(r) \cup Settling(r)) = {}

(* remaining counts the records that are on their way, and a message gets  *)
(* heartbeats as long as there are any.                                    *)
TrackerExact(r) ==
    /\ OnWay(r) # {} => delivery[r] \in Messages /\ OnWay(r) \subseteq delivery[r]
    /\ IsFiniteSet(OnWay(r)) /\ remaining[r] = Cardinality(OnWay(r))
    /\ (r \in in_progress) <=> (OnWay(r) # {})

(* A receipt that is not dispatched yet has no records anywhere.           *)
ReceivedFresh(r) ==
    r \in received => OnWay(r) = {} /\ delivery[r] \in Messages

(* successes counts records that are settled and no longer waiting.        *)
Settled == fetched \cup skipped
SettledOf(r) == (delivery[r] \cap Settled) \ Waiting(r)
SuccessesCounted(r) == r \in in_progress => successes[r] <= Cardinality(SettledOf(r))

ReceiptInv(r) == Apart(r) /\ TrackerExact(r) /\ ReceivedFresh(r) /\ SuccessesCounted(r)

TasksTell ==
    \A k \in Keys :
        /\ task[k].pc = "succeeded" => k \in fetched
        /\ task[k].pc = "delete" =>
              /\ task[k].receipt \in Receipts
              /\ delivery[task[k].receipt] \in Messages
              /\ delivery[task[k].receipt] \subseteq Settled

RecordInv ==
    /\ PageState /\ Distinct(page)
    /\ \A r \in Receipts : ReceiptInv(r)
    /\ TasksTell /\ DeletedIsSettled

(* The list mode: a key is done, dispatched or still in the page; what is  *)
(* dispatched after a larger key is done already.                          *)
Done == fetched \cup given_up
Known(j) == j \in Done \/ j \in Members(dispatched)

InBucket ==
    /\ Members(page) \cup Members(dispatched) \subseteq bucket
    /\ start_after \in bucket \cup {0} /\ more \in bucket \cup {0}

Completing ==
    /\ completed_set \subseteq Done
    /\ \A i \in DOMAIN completed : completed[i].success = TRUE => completed[i].key \in fetched
    /\ in_flight \subseteq Members(dispatched)
    /\ dpc = "permit" => Known(page[1])

CursorDone == \A j \in bucket : j <= start_after => j \in Done
DispatchOrder ==
    \A i, h \in DOMAIN dispatched :
        i < h /\ dispatched[h] < dispatched[i] => dispatched[h] \in Done
DispatchedKnown ==
    \A i \in DOMAIN dispatched, j \in bucket : j < dispatched[i] => Known(j)
PageKnown ==
    \A i \in DOMAIN page, j \in bucket :
        j < page[i] => Known(j) \/ \E h \in DOMAIN page : h < i /\ page[h] = j
MoreKnown ==
    more # 0 => \A j \in bucket : j <= more => Known(j) \/ j \in Members(page)

ListInv ==
    IF mode = "list"
    THEN /\ InBucket /\ Completing
         /\ CursorDone /\ DispatchOrder /\ DispatchedKnown /\ PageKnown /\ MoreKnown
    ELSE start_after = 0

S3Inv == S3Types /\ StreamInv /\ RecordInv /\ (KeysInOrder => ListInv)

-----------------------------------------------------------------------------
(* Ascending sequences.                                                    *)

(* Every non-empty set of naturals has a least element.                    *)
LEMMA LeastNatural ==
  ASSUME NEW T \in SUBSET Nat, T # {}
  PROVE  \E x \in T : \A y \in T : x <= y
<1> DEFINE R == OpToRel(<, Nat)
<1>1. IsWellFoundedOn(R, Nat)
  BY NatLessThanWellFounded
<1>2. PICK x \in T : \A y \in T : ~(<<y, x>> \in R)
  <2> HIDE DEF R
  <2> QED BY <1>1, WFMin
<1>3. \A y \in T : ~(y < x)
  BY <1>2 DEF OpToRel
<1> QED BY <1>3

Ascends(s) == \A i, j \in DOMAIN s : i < j => s[i] < s[j]

(* A finite set of keys can be sorted: a smallest set that cannot be would *)
(* be the sorted rest behind its least element.                            *)
LEMMA CanSort ==
  ASSUME NEW S \in SUBSET Nat, IsFiniteSet(S)
  PROVE  \E s \in [1 .. Cardinality(S) -> S] : Ascends(s)
<1> DEFINE Sorts(T) == \E s \in [1 .. Cardinality(T) -> T] : Ascends(s)
           Bad == {n \in Nat : \E T \in SUBSET Nat :
                                  IsFiniteSet(T) /\ Cardinality(T) = n /\ ~Sorts(T)}
<1> SUFFICES ASSUME ~Sorts(S) PROVE FALSE
  OBVIOUS
<1>1. Bad # {}
  <2>1. Cardinality(S) \in Nat
    BY FS_CardinalityType
  <2>2. Cardinality(S) \in Bad
    BY <2>1
  <2> HIDE DEF Bad
  <2> QED BY <2>2
<1>2. PICK n \in Bad : \A m \in Bad : n <= m
  <2>1. Bad \in SUBSET Nat
    OBVIOUS
  <2> HIDE DEF Bad
  <2> QED BY <1>1, <2>1, LeastNatural
<1>3. PICK T \in SUBSET Nat : IsFiniteSet(T) /\ Cardinality(T) = n /\ ~Sorts(T)
  OBVIOUS
<1>4. n \in Nat
  OBVIOUS
<1> HIDE DEF Sorts
<1>5. T # {}
  <2> SUFFICES ASSUME T = {} PROVE FALSE
    OBVIOUS
  <2>1. Cardinality(T) = 0
    BY FS_EmptySet
  <2>2. [i \in 1 .. 0 |-> i] \in [1 .. Cardinality(T) -> T] /\ Ascends([i \in 1 .. 0 |-> i])
    BY <2>1 DEF Ascends
  <2>3. Sorts(T)
    BY <2>2, Zenon DEF Sorts
  <2> QED BY <1>3, <2>3
<1>6. PICK x \in T : \A y \in T : x <= y
  BY <1>5, LeastNatural
<1> DEFINE U == T \ {x}
<1>7. U \in SUBSET Nat /\ IsFiniteSet(U) /\ Cardinality(U) = n - 1 /\ n - 1 \in Nat
  <2>1. IsFiniteSet(U) /\ Cardinality(U) = n - 1
    BY <1>3, FS_RemoveElement
  <2>2. Cardinality(U) \in Nat
    BY <2>1, FS_CardinalityType
  <2> QED BY <2>1, <2>2
<1>8. Sorts(U)
  <2> SUFFICES ASSUME ~Sorts(U) PROVE FALSE
    OBVIOUS
  <2>1. n - 1 \in Bad
    BY <1>7 DEF Sorts
  <2> HIDE DEF Bad
  <2> QED BY <1>2, <1>4, <2>1
<1>9. PICK t \in [1 .. (n - 1) -> U] : Ascends(t)
  BY <1>7, <1>8, Zenon DEF Sorts
<1> DEFINE s == [i \in 1 .. n |-> IF i = 1 THEN x ELSE t[i - 1]]
<1>10. \A i \in 1 .. n : i # 1 => i - 1 \in 1 .. (n - 1) /\ t[i - 1] \in T /\ x < t[i - 1]
  <2> TAKE i \in 1 .. n
  <2> HAVE i # 1
  <2>1. i - 1 \in 1 .. (n - 1)
    BY <1>4
  <2>2. t[i - 1] \in U
    BY <1>9, <2>1
  <2>3. t[i - 1] \in T /\ t[i - 1] # x /\ t[i - 1] \in Nat /\ x \in Nat
    BY <2>2
  <2>4. x <= t[i - 1]
    BY <1>6, <2>3
  <2> QED BY <2>1, <2>3, <2>4
<1>11. s \in [1 .. n -> T]
  BY <1>10
<1>12. Ascends(s)
  <2> SUFFICES ASSUME NEW i \in 1 .. n, NEW j \in 1 .. n, i < j PROVE s[i] < s[j]
    BY DEF Ascends
  <2>1. j # 1
    BY <1>4
  <2>2. CASE i = 1
    BY <1>10, <2>1, <2>2
  <2>3. CASE i # 1
    <3>1. t[i - 1] < t[j - 1]
      BY <1>4, <1>9, <1>10, <2>1, <2>3 DEF Ascends
    <3> QED BY <2>1, <2>3, <3>1
  <2> QED BY <2>2, <2>3
<1>13. Sorts(T)
  <2> HIDE DEF s
  <2> QED BY <1>3, <1>11, <1>12, Zenon DEF Sorts
<1> QED BY <1>3, <1>13

(* What S3 lists, and the records of a message: all keys, in their order.  *)
LEMMA AscendingFacts ==
  ASSUME NEW S \in SUBSET Keys, IsFiniteSet(S)
  PROVE  /\ Ascending(S) \in Seq(S) /\ Len(Ascending(S)) = Cardinality(S)
         /\ Cardinality(S) \in Nat
         /\ Ascends(Ascending(S))
         /\ Distinct(Ascending(S))
         /\ Members(Ascending(S)) = S
<1> DEFINE n == Cardinality(S)
           s == Ascending(S)
<1>1. S \in SUBSET Nat /\ n \in Nat
  BY FS_CardinalityType, S3Assumptions
<1>2. \E t \in [1 .. n -> S] : \A i, j \in DOMAIN t : i < j => t[i] < t[j]
  BY <1>1, CanSort, Zenon DEF Ascends
<1>3. s \in [1 .. n -> S] /\ \A i, j \in DOMAIN s : i < j => s[i] < s[j]
  BY <1>2, Zenon DEF Ascending
<1> HIDE DEF s, n
<1>4. s \in Seq(S) /\ Len(s) = n /\ Ascends(s)
  BY <1>1, <1>3 DEF Ascends
<1>5. Distinct(s)
  <2> SUFFICES ASSUME NEW i \in DOMAIN s, NEW j \in DOMAIN s, s[i] = s[j] PROVE i = j
    BY DEF Distinct
  <2>a. DOMAIN s = 1 .. n
    BY <1>3
  <2>b. i \in Nat /\ j \in Nat /\ s[i] \in S /\ s[j] \in S
    BY <1>1, <1>3, <2>a
  <2>1. i \in Nat /\ j \in Nat /\ s[i] \in Nat /\ s[j] \in Nat
    BY <1>1, <2>b
  <2>2. i < j => s[i] < s[j]
    BY <1>3
  <2>3. j < i => s[j] < s[i]
    BY <1>3
  <2> QED BY <2>1, <2>2, <2>3
<1>6. s \in Injection(1 .. n, S)
  BY <1>3, <1>5 DEF Distinct, Injection, IsInjective
<1>7. s \in Surjection(1 .. n, S)
  <2>1. IsFiniteSet(1 .. n) /\ Cardinality(1 .. n) = n
    BY <1>1, FS_Interval
  <2>2. Cardinality(1 .. n) = Cardinality(S)
    BY <2>1 DEF n
  <2> QED BY <1>6, <2>2, FS_Injection
<1>8. Members(s) = S
  BY <1>3, <1>7 DEF Members, Surjection
<1> QED BY <1>1, <1>4, <1>5, <1>8 DEF s, n
-----------------------------------------------------------------------------
(* Types.                                                                  *)

Core == S3Types /\ StreamInv /\ RecordInv

(* What the proofs use of the assumptions.                                 *)
LEMMA Bounds ==
  /\ Keys \subseteq Nat /\ 0 \notin Keys
  /\ PageSize \in Nat /\ PageSize > 0 /\ WorkBound \in Nat /\ MaxObjects \in Nat
  /\ OutBound \in Nat /\ Chunks \in Nat /\ Chunks > 0
  /\ None \notin Receipts /\ None \notin Works
BY S3Assumptions DEF Works

(* What moves of a task and what stays.                                    *)
LEMMA GotoFacts ==
  ASSUME task \in [Keys -> Tasks], NEW k \in Keys, NEW pc \in TaskPCs, Goto(k, pc)
  PROVE  /\ task' \in [Keys -> Tasks]
         /\ task'[k].pc = pc /\ task'[k].receipt = task[k].receipt /\ task'[k].sent = task[k].sent
         /\ \A j \in Keys \ {k} : task'[j] = task[j]
<1>1. task[k] \in Tasks /\ task' = [task EXCEPT ![k] = [task[k] EXCEPT !.pc = pc]]
  BY DEF Goto
<1>2. [task[k] EXCEPT !.pc = pc] \in Tasks
  BY <1>1 DEF Tasks
<1>3. task'[k] = [task[k] EXCEPT !.pc = pc]
  BY <1>1
<1>4. task'[k].pc = pc /\ task'[k].receipt = task[k].receipt /\ task'[k].sent = task[k].sent
  BY <1>1, <1>3 DEF Tasks
<1> QED BY <1>1, <1>2, <1>4

(* The next attempt starts from nothing.                                   *)
LEMMA RetryFacts ==
  ASSUME task \in [Keys -> Tasks], NEW k \in Keys, task[k].pc = "fetch", NextAttempt(k)
  PROVE  /\ task' \in [Keys -> Tasks]
         /\ task'[k].pc \in {"fetch", "failed"} /\ task'[k].receipt = task[k].receipt
         /\ task'[k].sent = 0
         /\ \A j \in Keys \ {k} : task'[j] = task[j]
<1>1. task[k] \in Tasks
  OBVIOUS
<1>2. CASE task[k].attempt < MaxFetchAttempts
  <2> DEFINE n == task[k].attempt + 1
             t == [task[k] EXCEPT !.attempt = n, !.sent = 0]
  <2>1. task' = [task EXCEPT ![k] = t]
    BY <1>1, <1>2 DEF NextAttempt
  <2>a. n \in Nat
    BY <1>1 DEF Tasks
  <2> HIDE DEF n
  <2>2. 0 \in 0 .. Chunks
    BY Bounds
  <2>3. t \in Tasks /\ t.pc = task[k].pc /\ t.receipt = task[k].receipt /\ t.sent = 0
    BY <1>1, <2>2, <2>a DEF Tasks
  <2> HIDE DEF t
  <2> QED BY <2>1, <2>3
<1>3. CASE ~(task[k].attempt < MaxFetchAttempts)
  <2> DEFINE t == [task[k] EXCEPT !.pc = "failed", !.sent = 0]
  <2>1. task' = [task EXCEPT ![k] = t]
    BY <1>3 DEF NextAttempt
  <2>2. 0 \in 0 .. Chunks
    BY Bounds
  <2>3. t \in Tasks /\ t.pc = "failed" /\ t.receipt = task[k].receipt /\ t.sent = 0
    BY <1>1, <2>2 DEF Tasks, TaskPCs
  <2> HIDE DEF t
  <2> QED BY <2>1, <2>3
<1> QED BY <1>2, <1>3

(* A chunk counts, and the task ends without a trace.                      *)
LEMMA ChunkFacts ==
  ASSUME task \in [Keys -> Tasks], NEW k \in Keys
  PROVE  /\ SendChunk(k) =>
               /\ task' \in [Keys -> Tasks]
               /\ task'[k].pc = task[k].pc /\ task'[k].receipt = task[k].receipt
               /\ task'[k].sent = task[k].sent + 1
               /\ \A j \in Keys \ {k} : task'[j] = task[j]
         /\ Unlock(k) =>
               /\ task' \in [Keys -> Tasks]
               /\ task'[k].pc = "none" /\ task'[k].receipt = None
               /\ \A j \in Keys \ {k} : task'[j] = task[j]
<1>1. ASSUME SendChunk(k)
      PROVE  /\ task' \in [Keys -> Tasks]
             /\ task'[k].pc = task[k].pc /\ task'[k].receipt = task[k].receipt
             /\ task'[k].sent = task[k].sent + 1
             /\ \A j \in Keys \ {k} : task'[j] = task[j]
  <2> DEFINE t == [task[k] EXCEPT !.sent = task[k].sent + 1]
  <2>1. task' = [task EXCEPT ![k] = t] /\ task[k] \in Tasks /\ task[k].sent < Chunks
    BY <1>1 DEF SendChunk
  <2>2. t \in Tasks /\ t.pc = task[k].pc /\ t.receipt = task[k].receipt /\ t.sent = task[k].sent + 1
    BY <2>1, Bounds DEF Tasks
  <2> HIDE DEF t
  <2> QED BY <2>1, <2>2
<1>2. ASSUME Unlock(k)
      PROVE  /\ task' \in [Keys -> Tasks]
             /\ task'[k].pc = "none" /\ task'[k].receipt = None
             /\ \A j \in Keys \ {k} : task'[j] = task[j]
  <2>1. task' = [task EXCEPT ![k] = NoTask]
    BY <1>2 DEF Unlock
  <2>2. NoTask \in Tasks /\ NoTask.pc = "none" /\ NoTask.receipt = None
    BY Bounds DEF Tasks, TaskPCs, NoTask
  <2> QED BY <2>1, <2>2
<1> QED BY <1>1, <1>2

(* A message whose record is on its way has records left.                  *)
LEMMA SomeRemain ==
  ASSUME Core, NEW r \in Receipts, OnWay(r) # {}
  PROVE  /\ remaining[r] \in Nat \ {0} /\ remaining[r] - 1 \in Nat
         /\ remaining[r] = Cardinality(OnWay(r)) /\ IsFiniteSet(OnWay(r))
         /\ delivery[r] \in Messages /\ OnWay(r) \subseteq delivery[r]
         /\ r \in in_progress
<1>1. /\ remaining[r] = Cardinality(OnWay(r)) /\ IsFiniteSet(OnWay(r))
      /\ delivery[r] \in Messages /\ OnWay(r) \subseteq delivery[r]
      /\ r \in in_progress
  BY DEF Core, RecordInv, ReceiptInv, TrackerExact
<1>2. Cardinality(OnWay(r)) \in Nat /\ Cardinality(OnWay(r)) # 0
  BY <1>1, FS_CardinalityType, FS_EmptySet
<1> QED BY <1>1, <1>2

(* The next record of the work channel, and the record of a task that      *)
(* settles, are on their way.                                              *)
LEMMA RecordsOnWay ==
  ASSUME Core
  PROVE  /\ work # <<>> => /\ Head(work) \in Works /\ Tail(work) \in Seq(Works)
                           /\ Len(Tail(work)) = Len(work) - 1
                           /\ Head(work) = work[1] /\ 1 \in DOMAIN work
                           /\ Head(work).key \in OnWay(Head(work).receipt)
         /\ \A k \in Keys : task[k].pc = "settle" => k \in OnWay(task[k].receipt)
<1>1. ASSUME work # <<>>
      PROVE  /\ Head(work) \in Works /\ Tail(work) \in Seq(Works)
             /\ Len(Tail(work)) = Len(work) - 1
             /\ Head(work) = work[1] /\ 1 \in DOMAIN work
  BY <1>1 DEF Core, S3Types, FetchTypes
<1>2. ASSUME work # <<>> PROVE Head(work).key \in KeysFor(work, Head(work).receipt)
  BY <1>1, <1>2 DEF KeysFor
<1>3. ASSUME NEW k \in Keys, task[k].pc = "settle" PROVE k \in Settling(task[k].receipt)
  BY <1>3 DEF Settling, TaskKeys
<1> QED BY <1>1, <1>2, <1>3 DEF OnWay, Waiting

(* The completed prefix that the cursor advances over exists.              *)
LEMMA ContiguousFacts ==
  ASSUME dispatched \in Seq(Keys)
  PROVE  /\ Contiguous \in 0 .. Len(dispatched)
         /\ \A i \in 1 .. Contiguous : dispatched[i] \in completed_set
<1> DEFINE T == {n \in 0 .. Len(dispatched) :
                    n < Len(dispatched) => dispatched[n + 1] \notin completed_set}
<1>1. Len(dispatched) \in T
  OBVIOUS
<1>2. PICK n \in T : \A m \in T : n <= m
  <2>1. T \in SUBSET Nat
    OBVIOUS
  <2> HIDE DEF T
  <2> QED BY <1>1, <2>1, LeastNatural
<1>3. ASSUME NEW i \in 1 .. n PROVE dispatched[i] \in completed_set
  <2> SUFFICES ASSUME dispatched[i] \notin completed_set PROVE FALSE
    OBVIOUS
  <2>1. i - 1 \in 0 .. Len(dispatched) /\ (i - 1) + 1 = i /\ i - 1 < n
    BY <1>2, <1>3
  <2>2. i - 1 \in T
    BY <2>1
  <2> QED BY <1>2, <2>1, <2>2
<1>4. \E c \in 0 .. Len(dispatched) :
         /\ \A i \in 1 .. c : dispatched[i] \in completed_set
         /\ c < Len(dispatched) => dispatched[c + 1] \notin completed_set
  BY <1>2, <1>3
<1> QED BY <1>4, Zenon DEF Contiguous

(* Every action keeps the types.                                           *)
LEMMA TypesStep ==
  ASSUME Core, [Next]_vars
  PROVE  S3Types'
<1> USE Bounds
<1>t. S3Types /\ task \in [Keys -> Tasks]
  BY DEF Core, S3Types, FetchTypes
<1>1. ASSUME NEW k \in Keys, PutObject(k) PROVE S3Types'
  <2>1. IsFiniteSet(bucket \cup {k})
    BY <1>t, FS_AddElement DEF S3Types, ServiceTypes
  <2> QED BY <1>t, <1>1, <2>1 DEF S3Types, ServiceTypes, DiscoveryTypes, FetchTypes, PutObject, Put,
       queueVars, listVars, discoveryVars, trackerVars, fetchVars, streamVars
<1>2. ASSUME NEW m \in Messages, Notify(m) PROVE S3Types'
  <2>1. IsFiniteSet(bucket \cup m)
    BY <1>t, FS_Union, S3Assumptions DEF S3Types, ServiceTypes
  <2>2. m \in SUBSET Keys
    BY S3Assumptions
  <2> QED BY <1>t, <1>2, <2>1, <2>2 DEF S3Types, ServiceTypes, DiscoveryTypes, FetchTypes, Notify,
       queueVars, listVars, discoveryVars, trackerVars, fetchVars, streamVars
<1>3. ASSUME NEW m \in Messages, Expire(m) PROVE S3Types'
  <2>S. ServiceTypes'
    BY <1>t, <1>3 DEF S3Types, ServiceTypes, Expire, queueVars
  <2>D. DiscoveryTypes'
    BY <1>t, <1>3 DEF S3Types, DiscoveryTypes, Expire, listVars, discoveryVars, trackerVars
  <2>F. FetchTypes'
    BY <1>t, <1>3 DEF S3Types, FetchTypes, Expire, Fault, fetchVars, streamVars
  <2> QED BY <2>S, <2>D, <2>F DEF S3Types
<1>4. ASSUME NEW ms \in SUBSET Messages, ReceiveMessages(ms) PROVE S3Types'
  <2>1. PICK rs \in SUBSET Receipts : \E f \in [rs -> ms] :
          /\ delivery' = [r \in Receipts |-> IF r \in rs THEN f[r] ELSE delivery[r]]
          /\ received' = rs
    BY <1>4 DEF ReceiveMessages
  <2>2. ServiceTypes'
    BY <1>t, <1>4, <2>1 DEF S3Types, ServiceTypes, ReceiveMessages
  <2> QED BY <1>t, <1>4, <2>1, <2>2 DEF S3Types, DiscoveryTypes, FetchTypes, ReceiveMessages,
       queueVars, listVars, discoveryVars, trackerVars, fetchVars, streamVars
<1>5. ASSUME NEW r \in Receipts, TakeMessage(r) PROVE S3Types'
  <2>1. delivery[r] \in Messages /\ delivery[r] \in SUBSET Keys /\ IsFiniteSet(delivery[r])
    <3>1. delivery[r] \in Messages
      BY <1>5 DEF Core, RecordInv, ReceiptInv, ReceivedFresh, TakeMessage
    <3> QED BY <3>1, S3Assumptions
  <2>2. Ascending(delivery[r]) \in Seq(Keys) /\ Cardinality(delivery[r]) \in Nat
    BY <2>1, AscendingFacts
  <2>3. ServiceTypes'
    BY <1>t, <1>5, <2>1 DEF S3Types, ServiceTypes, TakeMessage, DeleteMessage, Fault
  <2>4. page' \in Seq(Keys) /\ dpc' \in {"list", "page"} /\ current' \in Receipts \cup {None}
    BY <1>t, <1>5, <2>2 DEF S3Types, DiscoveryTypes, TakeMessage
  <2>5. /\ in_progress' \subseteq Receipts /\ remaining' \in [Receipts -> Nat]
        /\ successes' \in [Receipts -> Nat] /\ received' \subseteq Receipts
    BY <1>t, <1>5, <2>2 DEF S3Types, DiscoveryTypes, TakeMessage, trackerVars
  <2>6. DiscoveryTypes'
    BY <1>t, <1>5, <2>4, <2>5 DEF S3Types, DiscoveryTypes, TakeMessage, listVars
  <2>7. FetchTypes'
    BY <1>t, <1>5 DEF S3Types, FetchTypes, TakeMessage, DeleteMessage, Fault, fetchVars, streamVars
  <2> QED BY <2>3, <2>6, <2>7 DEF S3Types
<1>6. ASSUME SendRecord PROVE S3Types'
  <2>1. page # <<>> /\ current \in Receipts
    BY <1>t, <1>6 DEF Core, RecordInv, PageState, SendRecord, S3Types, DiscoveryTypes
  <2>2. Head(page) \in Keys /\ Tail(page) \in Seq(Keys) /\ Work(Head(page), current) \in Works
    BY <1>t, <2>1 DEF S3Types, DiscoveryTypes, Work, Works
  <2>3. work' \in Seq(Works) /\ Len(work') <= WorkBound
    BY <1>t, <1>6, <2>2 DEF SendRecord, S3Types, FetchTypes
  <2> QED BY <1>t, <1>6, <2>2, <2>3 DEF S3Types, ServiceTypes, DiscoveryTypes, FetchTypes, SendRecord,
       queueVars, listVars, trackerVars, fetchVars, streamVars
<1>7. ASSUME ListObjects PROVE S3Types'
  <2> DEFINE from == IF more = 0 THEN start_after ELSE more
             S == {k \in bucket : k > from}
             keys == Ascending(S)
  <2>1. S \in SUBSET Keys /\ IsFiniteSet(S)
    BY <1>t, FS_Subset DEF S3Types, ServiceTypes
  <2>2. keys \in Seq(Keys)
    BY <2>1, AscendingFacts
  <2>3. /\ page' = SubSeq(keys, 1, IF Len(keys) < PageSize THEN Len(keys) ELSE PageSize)
        /\ more' = IF Len(keys) > PageSize THEN keys[PageSize] ELSE 0
        /\ dpc' = "page"
        /\ UNCHANGED <<mode, is_running, bucket, queueVars, received, current, listVars, trackerVars,
                       work, completed, fetchVars, streamVars, given_up, skipped, faults>>
    BY <1>7 DEF ListObjects
  <2> HIDE DEF keys
  <2>4. page' \in Seq(Keys)
    BY <2>2, <2>3
  <2>5. more' \in Keys \cup {0}
    BY <2>2, <2>3
  <2> QED BY <1>t, <2>3, <2>4, <2>5 DEF S3Types, ServiceTypes, DiscoveryTypes, FetchTypes,
       queueVars, listVars, trackerVars, fetchVars, streamVars
<1>8. ASSUME ListFails PROVE S3Types'
  BY <1>t, <1>8 DEF S3Types, ServiceTypes, DiscoveryTypes, FetchTypes, ListFails,
       queueVars, listVars, trackerVars, fetchVars, streamVars
<1>9. ASSUME TakeKey PROVE S3Types'
  <2>1. Head(page) \in Keys /\ Tail(page) \in Seq(Keys)
    BY <1>t, <1>9 DEF TakeKey, S3Types, DiscoveryTypes
  <2>2. dispatched' \in Seq(Keys)
    <3>1. dispatched \in Seq(Keys) /\ Append(dispatched, Head(page)) \in Seq(Keys)
      BY <1>t, <2>1 DEF S3Types, DiscoveryTypes
    <3>2. dispatched' = dispatched \/ dispatched' = Append(dispatched, Head(page))
      BY <1>9 DEF TakeKey
    <3> QED BY <3>1, <3>2
  <2>3. page' \in Seq(Keys) /\ in_flight' \in SUBSET Keys /\ dpc' \in {"list", "page", "permit"}
    BY <1>t, <1>9, <2>1 DEF TakeKey, S3Types, DiscoveryTypes
  <2> QED BY <1>t, <1>9, <2>2, <2>3 DEF S3Types, ServiceTypes, DiscoveryTypes, FetchTypes, TakeKey,
       queueVars, trackerVars, fetchVars, streamVars
<1>10. ASSUME DrainCompletion PROVE S3Types'
  <2>1. /\ Head(completed) \in Completions /\ completed' = Tail(completed)
        /\ Tail(completed) \in Seq(Completions) /\ Len(Tail(completed)) <= WorkBound
    BY <1>t, <1>10 DEF DrainCompletion, S3Types, FetchTypes
  <2>2. Head(completed).key \in Keys
    BY <2>1 DEF Completions
  <2> DEFINE k == Head(completed).key
             count == failure_counts[k] + 1
  <2>a. /\ completed_set' = completed_set \/ completed_set' = completed_set \cup {k}
        /\ given_up' = given_up \/ given_up' = given_up \cup {k}
        /\ in_flight' = in_flight \/ in_flight' = in_flight \ {k}
        /\ failure_counts' = failure_counts \/ failure_counts' = [failure_counts EXCEPT ![k] = count]
    BY <1>10, Zenon DEF DrainCompletion
  <2> HIDE DEF k
  <2>b. k \in Keys
    BY <2>2 DEF k
  <2>c. count \in Nat
    BY <1>t, <2>b DEF S3Types, DiscoveryTypes
  <2> HIDE DEF count
  <2>3. /\ completed_set' \subseteq Keys /\ given_up' \subseteq Keys /\ in_flight' \subseteq Keys
        /\ failure_counts' \in [Keys -> Nat]
    <3>1. failure_counts \in [Keys -> Nat]
      BY <1>t DEF S3Types, DiscoveryTypes
    <3>2. failure_counts' \in [Keys -> Nat]
      BY <2>a, <2>b, <2>c, <3>1
    <3> QED BY <1>t, <2>a, <2>b, <3>2 DEF S3Types, DiscoveryTypes, FetchTypes
  <2>S. ServiceTypes'
    BY <1>t, <1>10 DEF S3Types, ServiceTypes, DrainCompletion, queueVars
  <2>D. DiscoveryTypes'
    BY <1>t, <1>10, <2>3 DEF S3Types, DiscoveryTypes, DrainCompletion, discoveryVars, trackerVars
  <2>F. FetchTypes'
    BY <1>t, <1>10, <2>1, <2>3 DEF S3Types, FetchTypes, DrainCompletion, fetchVars, streamVars
  <2> QED BY <2>S, <2>D, <2>F DEF S3Types
<1>11. ASSUME SendKey PROVE S3Types'
  <2>1. page # <<>>
    BY <1>t, <1>11 DEF Core, RecordInv, PageState, SendKey
  <2>2. Head(page) \in Keys /\ Tail(page) \in Seq(Keys) /\ Work(Head(page), None) \in Works
    BY <1>t, <2>1 DEF S3Types, DiscoveryTypes, Work, Works
  <2>3. work' \in Seq(Works) /\ Len(work') <= WorkBound
    BY <1>t, <1>11, <2>2 DEF SendKey, S3Types, FetchTypes
  <2> QED BY <1>t, <1>11, <2>2, <2>3 DEF S3Types, ServiceTypes, DiscoveryTypes, FetchTypes, SendKey,
       queueVars, listVars, trackerVars, fetchVars, streamVars
<1>12. ASSUME EndPage PROVE S3Types'
  <2> DEFINE c == Contiguous
             past == {dispatched[i] : i \in 1 .. c}
  <2>1. c \in 0 .. Len(dispatched)
    BY <1>t, ContiguousFacts DEF S3Types, DiscoveryTypes
  <2>2. /\ start_after' = IF c = 0 THEN start_after ELSE dispatched[c]
        /\ dispatched' = SubSeq(dispatched, c + 1, Len(dispatched))
        /\ completed_set' = completed_set \ past
        /\ in_flight' = in_flight \ past
        /\ failure_counts' = [k \in Keys |-> IF k \in past THEN 0 ELSE failure_counts[k]]
        /\ dpc' = "list"
        /\ UNCHANGED <<mode, is_running, bucket, queueVars, page, more, received, current, trackerVars,
                       work, completed, fetchVars, streamVars, given_up, skipped, faults>>
    BY <1>12 DEF EndPage
  <2> HIDE DEF c
  <2>3. start_after' \in Keys \cup {0} /\ dispatched' \in Seq(Keys)
    BY <1>t, <2>1, <2>2 DEF S3Types, DiscoveryTypes
  <2> HIDE DEF past
  <2> QED BY <1>t, <2>2, <2>3 DEF S3Types, ServiceTypes, DiscoveryTypes, FetchTypes,
       queueVars, trackerVars, fetchVars, streamVars
<1>13. ASSUME SkipDuplicate PROVE S3Types'
  <2> DEFINE r == Head(work).receipt
  <2>1. /\ Head(work) \in Works /\ work' = Tail(work) /\ Tail(work) \in Seq(Works)
        /\ Len(Tail(work)) <= WorkBound
    BY <1>t, <1>13, RecordsOnWay DEF SkipDuplicate, S3Types, FetchTypes
  <2>2. Head(work).key \in Keys /\ r \in Receipts \cup {None}
    BY <2>1 DEF Works
  <2>3. CASE r = None
    BY <1>t, <1>13, <2>1, <2>3 DEF S3Types, ServiceTypes, DiscoveryTypes, FetchTypes, SkipDuplicate,
       queueVars, listVars, discoveryVars, trackerVars, fetchVars, streamVars
  <2>4. CASE r # None
    <3>1. r \in Receipts /\ remaining[r] - 1 \in Nat /\ delivery[r] \in Messages
      BY <1>13, <2>2, <2>4, RecordsOnWay, SomeRemain DEF SkipDuplicate
    <3>2. /\ successes' = [successes EXCEPT ![r] = @ + 1]
          /\ remaining' = [remaining EXCEPT ![r] = @ - 1]
          /\ in_progress' = IF Finished(r) THEN in_progress \ {r} ELSE in_progress
          /\ skipped' = skipped \cup {Head(work).key}
          /\ DeleteMessage(r) \/ UNCHANGED <<queue, faults>>
          /\ UNCHANGED <<mode, is_running, bucket, delivery, discoveryVars, listVars, completed,
                         fetchVars, streamVars, given_up>>
      BY <1>13, <2>4 DEF SkipDuplicate
    <3>3. /\ queue' \in [Messages -> {"unsent", "visible", "hidden", "deleted"}]
          /\ faults' \in Nat
      BY <1>t, <3>1, <3>2 DEF DeleteMessage, Fault, S3Types, ServiceTypes, FetchTypes
    <3> HIDE DEF r
    <3>S. ServiceTypes'
      BY <1>t, <3>2, <3>3 DEF S3Types, ServiceTypes
    <3>D. DiscoveryTypes'
      <4>1. remaining' \in [Receipts -> Nat] /\ successes' \in [Receipts -> Nat]
        BY <1>t, <3>1, <3>2 DEF S3Types, DiscoveryTypes
      <4> QED BY <1>t, <3>2, <4>1 DEF S3Types, DiscoveryTypes, discoveryVars, listVars
    <3>F. FetchTypes'
      BY <1>t, <2>1, <2>2, <3>2, <3>3 DEF S3Types, FetchTypes, fetchVars, streamVars
    <3> QED BY <3>S, <3>D, <3>F DEF S3Types
  <2> QED BY <2>3, <2>4
<1>14. ASSUME AcceptWork PROVE S3Types'
  <2>1. /\ Head(work) \in Works /\ Tail(work) \in Seq(Works)
        /\ Len(Tail(work)) <= WorkBound
    BY <1>t, <1>14, RecordsOnWay DEF AcceptWork, S3Types, FetchTypes
  <2>2. Head(work).key \in Keys
    BY <2>1 DEF Works
  <2> QED BY <1>t, <1>14, <2>1, <2>2 DEF S3Types, ServiceTypes, DiscoveryTypes, FetchTypes, AcceptWork,
       queueVars, listVars, discoveryVars, trackerVars, streamVars
<1>15. ASSUME SpawnFetch PROVE S3Types'
  <2>1. held.key \in Keys /\ held.receipt \in Receipts \cup {None}
    BY <1>t, <1>15 DEF SpawnFetch, S3Types, FetchTypes, Works
  <2>2. [pc |-> "fetch", receipt |-> held.receipt, attempt |-> 1, sent |-> 0] \in Tasks
    BY <2>1 DEF Tasks, TaskPCs
  <2> QED BY <1>t, <1>15, <2>1, <2>2 DEF S3Types, ServiceTypes, DiscoveryTypes, FetchTypes, SpawnFetch,
       queueVars, listVars, discoveryVars, trackerVars, streamVars
<1>16. ASSUME NEW k \in Keys, SendChunk(k) PROVE S3Types'
  <2>1. task' \in [Keys -> Tasks]
    BY <1>t, <1>16, ChunkFacts
  <2>S. ServiceTypes'
    BY <1>t, <1>16, <2>1 DEF S3Types, ServiceTypes, SendChunk, taskQuiet, queueVars
  <2>D. DiscoveryTypes'
    BY <1>t, <1>16, <2>1 DEF S3Types, DiscoveryTypes, SendChunk, taskQuiet, listVars, discoveryVars, trackerVars
  <2>F. FetchTypes'
    BY <1>t, <1>16, <2>1 DEF S3Types, FetchTypes, SendChunk, taskQuiet, fetchVars, streamVars
  <2> QED BY <2>S, <2>D, <2>F DEF S3Types
<1>17. ASSUME NEW k \in Keys, SendEof(k) PROVE S3Types'
  <2>1. task' \in [Keys -> Tasks]
    BY <1>t, <1>17, GotoFacts DEF SendEof, TaskPCs
  <2>S. ServiceTypes'
    BY <1>t, <1>17, <2>1 DEF S3Types, ServiceTypes, SendEof, taskQuiet, queueVars
  <2>D. DiscoveryTypes'
    BY <1>t, <1>17, <2>1 DEF S3Types, DiscoveryTypes, SendEof, taskQuiet, listVars, discoveryVars, trackerVars
  <2>F. FetchTypes'
    <3>1. out' \in 0 .. OutBound /\ open' \in [Keys -> Nat] /\ fetched' \subseteq Keys
      BY <1>t, <1>17 DEF S3Types, FetchTypes, SendEof
    <3> QED BY <1>t, <1>17, <2>1, <3>1 DEF S3Types, FetchTypes, SendEof, taskQuiet
  <2> QED BY <2>S, <2>D, <2>F DEF S3Types
<1>18. ASSUME NEW k \in Keys, FetchFails(k) PROVE S3Types'
  <2>1. task' \in [Keys -> Tasks]
    BY <1>t, <1>18, RetryFacts DEF FetchFails, TaskPCs
  <2>S. ServiceTypes'
    BY <1>t, <1>18, <2>1 DEF S3Types, ServiceTypes, FetchFails, taskQuiet, queueVars
  <2>D. DiscoveryTypes'
    BY <1>t, <1>18, <2>1 DEF S3Types, DiscoveryTypes, FetchFails, taskQuiet, listVars, discoveryVars, trackerVars
  <2>F. FetchTypes'
    BY <1>t, <1>18, <2>1 DEF S3Types, FetchTypes, FetchFails, taskQuiet, Fault, fetchVars, streamVars
  <2> QED BY <2>S, <2>D, <2>F DEF S3Types
<1>19. ASSUME NEW k \in Keys, ChannelClosed(k) PROVE S3Types'
  <2>1. task' \in [Keys -> Tasks]
    BY <1>t, <1>19, GotoFacts, RetryFacts DEF ChannelClosed, TaskPCs
  <2> QED BY <1>t, <1>19, <2>1 DEF S3Types, ServiceTypes, DiscoveryTypes, FetchTypes, ChannelClosed, taskQuiet,
       listVars, discoveryVars, trackerVars, streamVars
<1>20. ASSUME NEW k \in Keys, Report(k) PROVE S3Types'
  <2> DEFINE r == task[k].receipt
             ok == task[k].pc = "succeeded"
  <2>1. task' \in [Keys -> Tasks] /\ task[k].receipt \in Receipts \cup {None}
    BY <1>t, <1>20, GotoFacts DEF Report, TaskPCs, Tasks
  <2>2. /\ successes' = IF r # None /\ ok THEN [successes EXCEPT ![r] = @ + 1] ELSE successes
        /\ \/ UNCHANGED completed
           \/ /\ Len(completed) < WorkBound
              /\ completed' = Append(completed, [key |-> k, success |-> ok])
        /\ UNCHANGED <<taskQuiet, queue, in_progress, remaining, fetching_keys, streamVars, faults>>
    BY <1>20 DEF Report
  <2>3. successes' \in [Receipts -> Nat]
    BY <1>t, <2>1, <2>2 DEF S3Types, DiscoveryTypes
  <2>4. [key |-> k, success |-> ok] \in Completions
    BY DEF Completions
  <2>5. completed' \in Seq(Completions) /\ Len(completed') <= WorkBound
    <3> HIDE DEF ok
    <3> QED BY <1>t, <2>2, <2>4 DEF S3Types, FetchTypes
  <2> HIDE DEF r, ok
  <2>S. ServiceTypes'
    BY <1>t, <2>2 DEF S3Types, ServiceTypes, taskQuiet
  <2>D. DiscoveryTypes'
    BY <1>t, <2>2, <2>3 DEF S3Types, DiscoveryTypes, taskQuiet, listVars, discoveryVars
  <2>F. FetchTypes'
    BY <1>t, <2>1, <2>2, <2>5 DEF S3Types, FetchTypes, taskQuiet, streamVars
  <2> QED BY <2>S, <2>D, <2>F DEF S3Types
<1>21. ASSUME NEW k \in Keys, Settle(k) PROVE S3Types'
  <2> DEFINE r == task[k].receipt
  <2>1. task' \in [Keys -> Tasks] /\ task[k].receipt \in Receipts \cup {None}
    BY <1>t, <1>21, GotoFacts DEF Settle, TaskPCs, Tasks
  <2>2. UNCHANGED <<taskQuiet, queue, successes, completed, fetching_keys, streamVars, faults>>
    BY <1>21 DEF Settle
  <2>3. remaining' \in [Receipts -> Nat] /\ in_progress' \subseteq Receipts
    <3>1. CASE r = None
      BY <1>t, <1>21, <3>1 DEF Settle, S3Types, DiscoveryTypes
    <3>2. CASE r # None
      <4>1. r \in Receipts /\ remaining[r] - 1 \in Nat
        BY <1>21, <2>1, <3>2, RecordsOnWay, SomeRemain DEF Settle
      <4>2. /\ remaining' = [remaining EXCEPT ![r] = @ - 1]
            /\ in_progress' = IF Finished(r) THEN in_progress \ {r} ELSE in_progress
        BY <1>21, <3>2 DEF Settle
      <4> HIDE DEF r
      <4> QED BY <1>t, <4>1, <4>2 DEF S3Types, DiscoveryTypes
    <3> QED BY <3>1, <3>2
  <2> HIDE DEF r
  <2> QED BY <1>t, <2>1, <2>2, <2>3 DEF S3Types, ServiceTypes, DiscoveryTypes, FetchTypes, taskQuiet,
       listVars, discoveryVars, streamVars
<1>22. ASSUME NEW k \in Keys, DeleteAfterFetch(k) PROVE S3Types'
  <2>1. task' \in [Keys -> Tasks]
    BY <1>t, <1>22, GotoFacts DEF DeleteAfterFetch, TaskPCs
  <2>2. delivery[task[k].receipt] \in Messages
    BY <1>22 DEF Core, RecordInv, TasksTell, DeleteAfterFetch
  <2>3. /\ queue' \in [Messages -> {"unsent", "visible", "hidden", "deleted"}]
        /\ faults' \in Nat
    BY <1>t, <1>22, <2>2 DEF DeleteAfterFetch, DeleteMessage, Fault, S3Types, ServiceTypes, FetchTypes
  <2> QED BY <1>t, <1>22, <2>1, <2>3 DEF S3Types, ServiceTypes, DiscoveryTypes, FetchTypes,
       DeleteAfterFetch, taskQuiet, listVars, discoveryVars, trackerVars, streamVars
<1>23. ASSUME NEW k \in Keys, Unlock(k) PROVE S3Types'
  <2>1. task' \in [Keys -> Tasks]
    BY <1>t, <1>23, ChunkFacts
  <2> QED BY <1>t, <1>23, <2>1 DEF S3Types, ServiceTypes, DiscoveryTypes, FetchTypes, Unlock, taskQuiet,
       listVars, discoveryVars, trackerVars, streamVars
<1>24. ASSUME Poll PROVE S3Types'
  <2>S. ServiceTypes'
    BY <1>t, <1>24 DEF S3Types, ServiceTypes, Poll, queueVars
  <2>D. DiscoveryTypes'
    BY <1>t, <1>24 DEF S3Types, DiscoveryTypes, Poll, listVars, discoveryVars, trackerVars
  <2>F. FetchTypes'
    BY <1>t, <1>24 DEF S3Types, FetchTypes, Poll, fetchVars, streamVars
  <2> QED BY <2>S, <2>D, <2>F DEF S3Types
<1>25. ASSUME Drop PROVE S3Types'
  <2>S. ServiceTypes'
    BY <1>t, <1>25 DEF S3Types, ServiceTypes, Drop, queueVars
  <2>D. DiscoveryTypes'
    BY <1>t, <1>25 DEF S3Types, DiscoveryTypes, Drop, listVars, discoveryVars, trackerVars
  <2>F. FetchTypes'
    BY <1>t, <1>25 DEF S3Types, FetchTypes, Drop, fetchVars, streamVars
  <2> QED BY <2>S, <2>D, <2>F DEF S3Types
<1>26. ASSUME UNCHANGED vars PROVE S3Types'
  BY <1>t, <1>26 DEF S3Types, ServiceTypes, DiscoveryTypes, FetchTypes, vars,
       queueVars, listVars, discoveryVars, trackerVars, fetchVars, streamVars
<1> QED BY <1>1, <1>2, <1>3, <1>4, <1>5, <1>6, <1>7, <1>8, <1>9, <1>10, <1>11, <1>12, <1>13, <1>14,
  <1>15, <1>16, <1>17, <1>18, <1>19, <1>20, <1>21, <1>22, <1>23, <1>24, <1>25, <1>26
  DEF Next, FetchTask, Discovery, Orchestrator

-----------------------------------------------------------------------------
(* Streams.                                                                *)

(* The steps that leave the fetch tasks and their streams alone.           *)
LEMMA StreamFrame ==
  ASSUME StreamInv, UNCHANGED <<held, fetching_keys, task, open>>,
         is_running' => is_running
  PROVE  StreamInv'
BY DEF StreamInv, PermitsHeld, Spawned, Locked, OpenState

(* A task that goes on holds its permit and its lock.                      *)
LEMMA TaskGoesOn ==
  ASSUME task \in [Keys -> Tasks], task' \in [Keys -> Tasks], Locked, PermitsHeld,
         held \in Works \cup {None},
         NEW k \in Keys, task[k].pc # "none", task'[k].pc # "none",
         \A j \in Keys \ {k} : task'[j] = task[j],
         UNCHANGED <<held, fetching_keys>>
  PROVE  Locked' /\ PermitsHeld'
<1>1. Spawned' = Spawned
  BY DEF Spawned
<1>2. PermitsHeld'
  BY <1>1 DEF PermitsHeld
<1>3. held # None => held.key \in Keys /\ held.key # k
  BY DEF Locked, Works
<1>4. Locked'
  BY <1>3 DEF Locked
<1> QED BY <1>2, <1>4

(* Every action keeps the streams apart: a task sends only into a stream   *)
(* of its own, and no second task has its key.                             *)
LEMMA StreamStep ==
  ASSUME Core, [Next]_vars
  PROVE  StreamInv'
<1>t. /\ S3Types /\ task \in [Keys -> Tasks] /\ held \in Works \cup {None}
      /\ StreamInv /\ Locked /\ PermitsHeld /\ OpenState
  BY DEF Core, S3Types, FetchTypes, StreamInv
<1>1. ASSUME NEW k \in Keys, PutObject(k) PROVE StreamInv'
  BY <1>t, <1>1, StreamFrame DEF PutObject, fetchVars, streamVars
<1>2. ASSUME NEW m \in Messages, Notify(m) PROVE StreamInv'
  BY <1>t, <1>2, StreamFrame DEF Notify, fetchVars, streamVars
<1>3. ASSUME NEW m \in Messages, Expire(m) PROVE StreamInv'
  BY <1>t, <1>3, StreamFrame DEF Expire, fetchVars, streamVars
<1>4. ASSUME NEW ms \in SUBSET Messages, ReceiveMessages(ms) PROVE StreamInv'
  BY <1>t, <1>4, StreamFrame DEF ReceiveMessages, fetchVars, streamVars
<1>5. ASSUME NEW r \in Receipts, TakeMessage(r) PROVE StreamInv'
  BY <1>t, <1>5, StreamFrame DEF TakeMessage, fetchVars, streamVars
<1>6. ASSUME SendRecord PROVE StreamInv'
  BY <1>t, <1>6, StreamFrame DEF SendRecord, fetchVars, streamVars
<1>7. ASSUME ListObjects PROVE StreamInv'
  BY <1>t, <1>7, StreamFrame DEF ListObjects, fetchVars, streamVars
<1>8. ASSUME ListFails PROVE StreamInv'
  BY <1>t, <1>8, StreamFrame DEF ListFails, fetchVars, streamVars
<1>9. ASSUME TakeKey PROVE StreamInv'
  BY <1>t, <1>9, StreamFrame DEF TakeKey, fetchVars, streamVars
<1>10. ASSUME DrainCompletion PROVE StreamInv'
  BY <1>t, <1>10, StreamFrame DEF DrainCompletion, fetchVars, streamVars
<1>11. ASSUME SendKey PROVE StreamInv'
  BY <1>t, <1>11, StreamFrame DEF SendKey, fetchVars, streamVars
<1>12. ASSUME EndPage PROVE StreamInv'
  BY <1>t, <1>12, StreamFrame DEF EndPage, fetchVars, streamVars
<1>13. ASSUME SkipDuplicate PROVE StreamInv'
  BY <1>t, <1>13, StreamFrame DEF SkipDuplicate, fetchVars, streamVars
<1>14. ASSUME AcceptWork PROVE StreamInv'
  <2> DEFINE k == Head(work).key
  <2>1. k \in Keys /\ held' = Head(work)
    BY <1>14, RecordsOnWay DEF AcceptWork, Works
  <2>2. task[k].pc = "none"
    BY <1>t, <1>14, <2>1 DEF AcceptWork, Locked
  <2>3. Locked'
    BY <1>t, <1>14, <2>1, <2>2 DEF AcceptWork, Locked
  <2>4. PermitsHeld' /\ OpenState'
    BY <1>t, <1>14 DEF AcceptWork, PermitsHeld, Spawned, OpenState, streamVars
  <2> QED BY <2>3, <2>4 DEF StreamInv
<1>15. ASSUME SpawnFetch PROVE StreamInv'
  <2> DEFINE k == held.key
             t == [pc |-> "fetch", receipt |-> held.receipt, attempt |-> 1, sent |-> 0]
  <2>1. k \in Keys /\ task' = [task EXCEPT ![k] = t] /\ task[k].pc = "none" /\ k \in fetching_keys
    BY <1>t, <1>15 DEF SpawnFetch, S3Types, FetchTypes, Works, Locked
  <2>2. t.pc = "fetch" /\ t.sent = 0
    OBVIOUS
  <2> HIDE DEF k, t
  <2>3. task'[k] = t /\ \A j \in Keys \ {k} : task'[j] = task[j]
    BY <1>t, <2>1
  <2>4. Spawned' = Spawned \cup {k} /\ k \notin Spawned
    BY <2>1, <2>2, <2>3 DEF Spawned
  <2>5. IsFiniteSet(Spawned') /\ Cardinality(Spawned') = Cardinality(Spawned) + 1
    BY <1>t, <2>4, FS_AddElement DEF PermitsHeld
  <2>6. Cardinality(Spawned) < MaxObjects /\ Cardinality(Spawned) \in Nat
    BY <1>t, <1>15, FS_CardinalityType DEF SpawnFetch, Spawned, PermitsHeld
  <2>7. PermitsHeld'
    BY <2>5, <2>6, Bounds DEF PermitsHeld
  <2>8. Locked'
    BY <1>t, <1>15, <2>1, <2>2, <2>3 DEF SpawnFetch, Locked
  <2>9. OpenState'
    BY <1>t, <1>15, <2>1, <2>2, <2>3 DEF SpawnFetch, OpenState, streamVars
  <2> QED BY <2>7, <2>8, <2>9 DEF StreamInv
<1>16. ASSUME NEW k \in Keys, SendChunk(k) PROVE StreamInv'
  <2>1. /\ task' \in [Keys -> Tasks] /\ task[k].pc = "fetch" /\ task'[k].pc = "fetch"
        /\ task'[k].sent = task[k].sent + 1
        /\ \A j \in Keys \ {k} : task'[j] = task[j]
    BY <1>t, <1>16, ChunkFacts DEF SendChunk, TaskPCs
  <2>2. UNCHANGED <<held, fetching_keys, is_running>>
    BY <1>16 DEF SendChunk, taskQuiet
  <2>3. Locked' /\ PermitsHeld'
    BY ONLY <1>t, <2>1, <2>2, TaskGoesOn, k \in Keys
  <2>4. OpenState'
    BY <1>t, <1>16, <2>1, <2>2 DEF OpenState, SendChunk, S3Types, FetchTypes, streamVars
  <2> QED BY <2>3, <2>4 DEF StreamInv
<1>17. ASSUME NEW k \in Keys, SendEof(k) PROVE StreamInv'
  <2>1. /\ task' \in [Keys -> Tasks] /\ task[k].pc = "fetch" /\ task'[k].pc = "succeeded"
        /\ is_running
        /\ \A j \in Keys \ {k} : task'[j] = task[j]
    BY <1>t, <1>17, GotoFacts DEF SendEof, TaskPCs
  <2>2. UNCHANGED <<held, fetching_keys, is_running>>
    BY <1>17 DEF SendEof, taskQuiet
  <2>3. Locked' /\ PermitsHeld'
    BY ONLY <1>t, <2>1, <2>2, TaskGoesOn, k \in Keys
  <2>4. OpenState'
    BY <1>t, <1>17, <2>1, <2>2 DEF OpenState, SendEof, S3Types, FetchTypes, streamVars
  <2> QED BY <2>3, <2>4 DEF StreamInv
<1>18. ASSUME NEW k \in Keys, FetchFails(k) PROVE StreamInv'
  <2>1. /\ task' \in [Keys -> Tasks] /\ task[k].pc = "fetch" /\ task'[k].pc \in {"fetch", "failed"}
        /\ task'[k].sent = 0
        /\ \A j \in Keys \ {k} : task'[j] = task[j]
    BY <1>t, <1>18, RetryFacts DEF FetchFails, TaskPCs
  <2>2. UNCHANGED <<held, fetching_keys, is_running>>
    BY <1>18 DEF FetchFails, taskQuiet
  <2>3. Locked' /\ PermitsHeld'
    BY ONLY <1>t, <2>1, <2>2, TaskGoesOn, k \in Keys
  <2>4. OpenState'
    BY <1>t, <1>18, <2>1, <2>2 DEF OpenState, FetchFails, S3Types, FetchTypes, streamVars
  <2> QED BY <2>3, <2>4 DEF StreamInv
<1>19. ASSUME NEW k \in Keys, ChannelClosed(k) PROVE StreamInv'
  <2>1. /\ task' \in [Keys -> Tasks] /\ task[k].pc = "fetch" /\ task'[k].pc # "none"
        /\ ~is_running
        /\ \A j \in Keys \ {k} : task'[j] = task[j]
    BY <1>t, <1>19, GotoFacts, RetryFacts DEF ChannelClosed, TaskPCs
  <2>2. UNCHANGED <<held, fetching_keys, is_running>>
    BY <1>19 DEF ChannelClosed, taskQuiet
  <2>3. Locked' /\ PermitsHeld'
    BY ONLY <1>t, <2>1, <2>2, TaskGoesOn, k \in Keys
  <2>4. OpenState'
    BY <1>t, <1>19, <2>1, <2>2 DEF OpenState, ChannelClosed, S3Types, FetchTypes, streamVars
  <2> QED BY <2>3, <2>4 DEF StreamInv
<1>20. ASSUME NEW k \in Keys, Report(k) PROVE StreamInv'
  <2>1. /\ task' \in [Keys -> Tasks] /\ task[k].pc \notin {"none", "fetch"} /\ task'[k].pc = "settle"
        /\ UNCHANGED open
        /\ \A j \in Keys \ {k} : task'[j] = task[j]
    BY <1>t, <1>20, GotoFacts DEF Report, TaskPCs, streamVars
  <2>2. UNCHANGED <<held, fetching_keys, is_running>>
    BY <1>20 DEF Report, taskQuiet
  <2>3. Locked' /\ PermitsHeld'
    BY ONLY <1>t, <2>1, <2>2, TaskGoesOn, k \in Keys
  <2>4. OpenState'
    BY <1>t, <1>20, <2>1, <2>2 DEF OpenState, Report, S3Types, FetchTypes, streamVars
  <2> QED BY <2>3, <2>4 DEF StreamInv
<1>21. ASSUME NEW k \in Keys, Settle(k) PROVE StreamInv'
  <2>1. /\ task' \in [Keys -> Tasks] /\ task[k].pc = "settle" /\ task'[k].pc \in {"delete", "unlock"}
        /\ UNCHANGED open
        /\ \A j \in Keys \ {k} : task'[j] = task[j]
    BY <1>t, <1>21, GotoFacts DEF Settle, TaskPCs, streamVars
  <2>2. UNCHANGED <<held, fetching_keys, is_running>>
    BY <1>21 DEF Settle, taskQuiet
  <2>3. Locked' /\ PermitsHeld'
    BY ONLY <1>t, <2>1, <2>2, TaskGoesOn, k \in Keys
  <2>4. OpenState'
    BY <1>t, <1>21, <2>1, <2>2 DEF OpenState, Settle, S3Types, FetchTypes, streamVars
  <2> QED BY <2>3, <2>4 DEF StreamInv
<1>22. ASSUME NEW k \in Keys, DeleteAfterFetch(k) PROVE StreamInv'
  <2>1. /\ task' \in [Keys -> Tasks] /\ task[k].pc = "delete" /\ task'[k].pc = "unlock"
        /\ UNCHANGED open
        /\ \A j \in Keys \ {k} : task'[j] = task[j]
    BY <1>t, <1>22, GotoFacts DEF DeleteAfterFetch, TaskPCs, streamVars
  <2>2. UNCHANGED <<held, fetching_keys, is_running>>
    BY <1>22 DEF DeleteAfterFetch, taskQuiet
  <2>3. Locked' /\ PermitsHeld'
    BY ONLY <1>t, <2>1, <2>2, TaskGoesOn, k \in Keys
  <2>4. OpenState'
    BY <1>t, <1>22, <2>1, <2>2 DEF OpenState, DeleteAfterFetch, S3Types, FetchTypes, streamVars
  <2> QED BY <2>3, <2>4 DEF StreamInv
<1>23. ASSUME NEW k \in Keys, Unlock(k) PROVE StreamInv'
  <2>1. /\ task' \in [Keys -> Tasks] /\ task[k].pc = "unlock"
        /\ task'[k].pc = "none" /\ task'[k].receipt = None
        /\ \A j \in Keys \ {k} : task'[j] = task[j]
    BY <1>t, <1>23, ChunkFacts DEF Unlock
  <2>2. fetching_keys' = fetching_keys \ {k} /\ UNCHANGED <<held, is_running, open>>
    BY <1>23 DEF Unlock, taskQuiet, streamVars
  <2>3. Spawned' = Spawned \ {k}
    BY <2>1 DEF Spawned
  <2>4. PermitsHeld'
    <3>1. IsFiniteSet(Spawned') /\ Cardinality(Spawned') <= Cardinality(Spawned)
      BY <1>t, <2>3, FS_Subset DEF PermitsHeld
    <3>2. Cardinality(Spawned') \in Nat /\ Cardinality(Spawned) \in Nat
      BY <1>t, <3>1, FS_CardinalityType DEF PermitsHeld
    <3> QED BY <1>t, <3>1, <3>2, Bounds DEF PermitsHeld
  <2>5. Locked'
    <3>1. held # None => held.key \in Keys /\ held.key # k
      BY <1>t, <2>1 DEF Locked, Works
    <3> QED BY <1>t, <2>1, <2>2, <3>1 DEF Locked
  <2>6. OpenState'
    BY <1>t, <2>1, <2>2 DEF OpenState
  <2> QED BY <2>4, <2>5, <2>6 DEF StreamInv
<1>24. ASSUME Poll PROVE StreamInv'
  BY <1>t, <1>24, StreamFrame DEF Poll, fetchVars
<1>25. ASSUME Drop PROVE StreamInv'
  BY <1>t, <1>25, StreamFrame DEF Drop, fetchVars
<1>26. ASSUME UNCHANGED vars PROVE StreamInv'
  BY <1>t, <1>26, StreamFrame DEF vars, fetchVars, streamVars
<1> QED BY <1>1, <1>2, <1>3, <1>4, <1>5, <1>6, <1>7, <1>8, <1>9, <1>10, <1>11, <1>12, <1>13, <1>14,
  <1>15, <1>16, <1>17, <1>18, <1>19, <1>20, <1>21, <1>22, <1>23, <1>24, <1>25, <1>26
  DEF Next, FetchTask, Discovery, Orchestrator

-----------------------------------------------------------------------------
(* The records of a message.                                               *)

(* A record enters the work channel at its end.                            *)
LEMMA WorkAppend ==
  ASSUME NEW w \in Seq(Works), NEW x \in Works, NEW r
  PROVE  /\ KeysFor(Append(w, x), r) = KeysFor(w, r) \cup (IF x.receipt = r THEN {x.key} ELSE {})
         /\ DistinctFor(w, r) /\ (x.receipt = r => x.key \notin KeysFor(w, r))
               => DistinctFor(Append(w, x), r)
<1> DEFINE v == Append(w, x)
           n == Len(w) + 1
<1>1. /\ DOMAIN w = 1 .. Len(w) /\ Len(w) \in Nat /\ DOMAIN v = 1 .. n
      /\ v[n] = x /\ \A i \in DOMAIN w : v[i] = w[i]
  OBVIOUS
<1>2. DOMAIN v = DOMAIN w \cup {n} /\ n \notin DOMAIN w
  BY <1>1
<1> HIDE DEF v, n
<1>3. KeysFor(v, r) = KeysFor(w, r) \cup (IF x.receipt = r THEN {x.key} ELSE {})
  BY <1>1, <1>2 DEF KeysFor
<1>4. ASSUME DistinctFor(w, r), x.receipt = r => x.key \notin KeysFor(w, r)
      PROVE  DistinctFor(v, r)
  <2> SUFFICES ASSUME NEW i \in DOMAIN v, NEW j \in DOMAIN v, v[i].receipt = r, v[j].receipt = r,
                      v[i].key = v[j].key
               PROVE  i = j
    BY DEF DistinctFor
  <2>1. ASSUME NEW h \in DOMAIN w, w[h].receipt = r PROVE w[h].key \in KeysFor(w, r)
    BY <2>1 DEF KeysFor
  <2>2. CASE i \in DOMAIN w /\ j \in DOMAIN w
    BY <1>1, <1>4, <2>2 DEF DistinctFor
  <2>3. CASE i \in DOMAIN w /\ j = n
    BY <1>1, <1>4, <2>1, <2>3
  <2>4. CASE i = n /\ j \in DOMAIN w
    BY <1>1, <1>4, <2>1, <2>4
  <2> QED BY <1>2, <2>2, <2>3, <2>4
<1> QED BY <1>3, <1>4 DEF v

(* A record leaves the work channel at its head.                           *)
LEMMA WorkTail ==
  ASSUME NEW w \in Seq(Works), w # <<>>, NEW r
  PROVE  /\ KeysFor(w, r) =
               KeysFor(Tail(w), r) \cup (IF Head(w).receipt = r THEN {Head(w).key} ELSE {})
         /\ DistinctFor(w, r) =>
               /\ DistinctFor(Tail(w), r)
               /\ Head(w).receipt = r => Head(w).key \notin KeysFor(Tail(w), r)
<1> DEFINE v == Tail(w)
           x == Head(w)
<1>1. /\ Len(w) \in Nat /\ Len(w) >= 1 /\ DOMAIN w = 1 .. Len(w) /\ x = w[1]
      /\ DOMAIN v = 1 .. (Len(w) - 1)
      /\ \A i \in DOMAIN v : i + 1 \in DOMAIN w /\ v[i] = w[i + 1]
  OBVIOUS
<1>2. \A i \in DOMAIN w : i = 1 \/ (i - 1 \in DOMAIN v /\ w[i] = v[i - 1])
  BY <1>1
<1>3. 1 \in DOMAIN w /\ \A i, j \in DOMAIN v : i + 1 # 1 /\ (i + 1 = j + 1 => i = j)
  BY <1>1
<1> HIDE DEF v, x
<1>4. ASSUME NEW k \in KeysFor(v, r) PROVE \E i \in DOMAIN w : i # 1 /\ w[i].receipt = r /\ w[i].key = k
  <2>1. PICK i \in DOMAIN v : v[i].receipt = r /\ v[i].key = k
    BY <1>4 DEF KeysFor
  <2> QED BY <1>1, <1>3, <2>1
<1>5. ASSUME NEW i \in DOMAIN w, i # 1, w[i].receipt = r PROVE w[i].key \in KeysFor(v, r)
  BY <1>2, <1>5 DEF KeysFor
<1>6. KeysFor(w, r) = KeysFor(v, r) \cup (IF x.receipt = r THEN {x.key} ELSE {})
  <2>1. ASSUME NEW k \in KeysFor(w, r)
        PROVE  k \in KeysFor(v, r) \cup (IF x.receipt = r THEN {x.key} ELSE {})
    <3>1. PICK i \in DOMAIN w : w[i].receipt = r /\ w[i].key = k
      BY <2>1 DEF KeysFor
    <3> QED BY <1>1, <1>5, <3>1
  <2>2. KeysFor(v, r) \subseteq KeysFor(w, r)
    BY <1>4 DEF KeysFor
  <2>3. x.receipt = r => x.key \in KeysFor(w, r)
    BY <1>1, <1>3 DEF KeysFor
  <2> QED BY <2>1, <2>2, <2>3
<1>7. ASSUME DistinctFor(w, r) PROVE DistinctFor(v, r)
  BY <1>1, <1>3, <1>7 DEF DistinctFor
<1>8. ASSUME DistinctFor(w, r), x.receipt = r PROVE x.key \notin KeysFor(v, r)
  BY <1>1, <1>3, <1>4, <1>8 DEF DistinctFor
<1> QED BY <1>6, <1>7, <1>8 DEF v, x

(* The page loses its first key.                                           *)
LEMMA PageTail ==
  ASSUME NEW s \in Seq(Keys), s # <<>>
  PROVE  /\ Head(s) = s[1] /\ 1 \in DOMAIN s
         /\ Members(s) = {Head(s)} \cup Members(Tail(s))
         /\ Distinct(s) => Distinct(Tail(s)) /\ Head(s) \notin Members(Tail(s))
         /\ Len(s) = 1 => Members(Tail(s)) = {}
         /\ Len(s) # 1 => Tail(s) # <<>>
<1> DEFINE t == Tail(s)
           x == Head(s)
<1>1. /\ Len(s) \in Nat /\ Len(s) >= 1 /\ DOMAIN s = 1 .. Len(s) /\ x = s[1]
      /\ DOMAIN t = 1 .. (Len(s) - 1) /\ Len(t) = Len(s) - 1
      /\ \A i \in DOMAIN t : i + 1 \in DOMAIN s /\ t[i] = s[i + 1]
  OBVIOUS
<1>2. \A i \in DOMAIN s : i = 1 \/ (i - 1 \in DOMAIN t /\ s[i] = t[i - 1])
  BY <1>1
<1>3. 1 \in DOMAIN s /\ \A i, j \in DOMAIN t : i + 1 # 1 /\ (i + 1 = j + 1 => i = j)
  BY <1>1
<1>4. Len(s) = 1 => DOMAIN t = {}
  BY <1>1
<1> HIDE DEF t, x
<1>5. ASSUME Len(s) # 1, t = <<>> PROVE FALSE
  <2>1. Len(t) = 0
    BY <1>5
  <2> QED BY <1>1, <1>5, <2>1
<1>6. Members(s) = {x} \cup Members(t)
  <2>1. ASSUME NEW i \in DOMAIN s PROVE s[i] \in {x} \cup Members(t)
    BY <1>1, <1>2 DEF Members
  <2>2. ASSUME NEW i \in DOMAIN t PROVE t[i] \in Members(s)
    BY <1>1 DEF Members
  <2>3. x \in Members(s)
    BY <1>1, <1>3 DEF Members
  <2> QED BY <2>1, <2>2, <2>3 DEF Members
<1>7. Distinct(s) => Distinct(t) /\ x \notin Members(t)
  BY <1>1, <1>3 DEF Distinct, Members
<1> QED BY <1>1, <1>3, <1>4, <1>5, <1>6, <1>7 DEF t, x, Members

(* What a held record and the tasks say about the places.                  *)
LEMMA HeldAlone ==
  ASSUME Core, NEW r \in Receipts
  PROVE  /\ HeldKeys(r) \cap (Fetching(r) \cup Settling(r)) = {}
         /\ Fetching(r) \cap Settling(r) = {}
BY DEF Core, StreamInv, Locked, HeldKeys, Fetching, Settling, TaskKeys

(* A receipt whose records do not move keeps its invariant.                *)
LEMMA ReceiptFrame ==
  ASSUME NEW r \in Receipts, ReceiptInv(r), Core, UNCHANGED Places(r),
         DistinctFor(work, r)', delivery'[r] = delivery[r], remaining'[r] = remaining[r],
         successes'[r] = successes[r], r \in in_progress' <=> r \in in_progress,
         r \in received' => r \in received, Settled \subseteq Settled'
  PROVE  ReceiptInv(r)'
<1>1. /\ PageKeys(r)' = PageKeys(r) /\ KeysFor(work, r)' = KeysFor(work, r)
      /\ HeldKeys(r)' = HeldKeys(r) /\ Fetching(r)' = Fetching(r) /\ Settling(r)' = Settling(r)
  BY DEF Places
<1>2. Waiting(r)' = Waiting(r) /\ OnWay(r)' = OnWay(r)
  BY <1>1 DEF Waiting, OnWay
<1>3. Apart(r)'
  BY <1>1 DEF ReceiptInv, Apart
<1>4. TrackerExact(r)' /\ ReceivedFresh(r)'
  BY <1>2 DEF ReceiptInv, TrackerExact, ReceivedFresh
<1>5. ASSUME r \in in_progress PROVE successes[r] <= Cardinality(SettledOf(r)')
  <2>1. delivery[r] \in Messages /\ IsFiniteSet(delivery[r])
    BY <1>5, S3Assumptions DEF ReceiptInv, TrackerExact
  <2>2. IsFiniteSet(SettledOf(r)') /\ SettledOf(r) \subseteq SettledOf(r)'
    BY <1>2, <2>1, FS_Subset DEF SettledOf
  <2>3. /\ Cardinality(SettledOf(r)) <= Cardinality(SettledOf(r)')
        /\ Cardinality(SettledOf(r)) \in Nat /\ Cardinality(SettledOf(r)') \in Nat
    BY <2>2, FS_Subset, FS_CardinalityType
  <2>4. successes[r] <= Cardinality(SettledOf(r)) /\ successes[r] \in Nat
    BY <1>5 DEF ReceiptInv, SuccessesCounted, Core, S3Types, DiscoveryTypes
  <2> QED BY <2>3, <2>4
<1>6. SuccessesCounted(r)'
  BY <1>5 DEF SuccessesCounted
<1> QED BY <1>3, <1>4, <1>6 DEF ReceiptInv

(* The steps that move no record of a message.                             *)
LEMMA QuietReceipts ==
  ASSUME Core, \A r \in Receipts : UNCHANGED Places(r) /\ DistinctFor(work, r)',
         UNCHANGED <<delivery, remaining, successes, in_progress>>,
         received' \subseteq received, fetched \subseteq fetched', skipped \subseteq skipped'
  PROVE  \A r \in Receipts : ReceiptInv(r)'
<1> SUFFICES ASSUME NEW r \in Receipts PROVE ReceiptInv(r)'
  OBVIOUS
<1>1. ReceiptInv(r)
  BY DEF Core, RecordInv
<1>2. UNCHANGED Places(r) /\ DistinctFor(work, r)'
  OBVIOUS
<1>3. Settled \subseteq Settled'
  BY DEF Settled
<1>4. /\ delivery'[r] = delivery[r] /\ remaining'[r] = remaining[r]
      /\ successes'[r] = successes[r] /\ (r \in in_progress' <=> r \in in_progress)
      /\ (r \in received' => r \in received)
  OBVIOUS
<1> QED BY ONLY <1>1, <1>2, <1>3, <1>4, Core, ReceiptFrame, r \in Receipts

(* No place changes when only the page of a listing does.                  *)
LEMMA SamePlaces ==
  ASSUME Core, UNCHANGED <<work, held, task, current>>, UNCHANGED page \/ current = None
  PROVE  \A r \in Receipts : UNCHANGED Places(r) /\ DistinctFor(work, r)'
<1> SUFFICES ASSUME NEW r \in Receipts PROVE UNCHANGED Places(r) /\ DistinctFor(work, r)'
  OBVIOUS
<1>1. PageKeys(r)' = PageKeys(r)
  BY Bounds DEF PageKeys
<1>2. /\ KeysFor(work, r)' = KeysFor(work, r) /\ HeldKeys(r)' = HeldKeys(r)
      /\ Fetching(r)' = Fetching(r) /\ Settling(r)' = Settling(r)
  BY DEF KeysFor, HeldKeys, Fetching, Settling, TaskKeys
<1>3. DistinctFor(work, r)'
  BY DEF Core, RecordInv, ReceiptInv, Apart, DistinctFor
<1> QED BY <1>1, <1>2, <1>3 DEF Places

(* No place changes when a task stays on one side of its report and of its *)
(* settling.                                                               *)
LEMMA SameTaskPlaces ==
  ASSUME Core, UNCHANGED <<work, held, page, current>>, NEW k \in Keys,
         task' \in [Keys -> Tasks], \A j \in Keys \ {k} : task'[j] = task[j],
         \/ /\ task'[k].receipt = task[k].receipt
            /\ task[k].pc \in {"fetch", "succeeded", "failed"}
            /\ task'[k].pc \in {"fetch", "succeeded", "failed"}
         \/ task[k].pc \in {"delete", "unlock"} /\ task'[k].pc \in {"unlock", "none"}
  PROVE  \A r \in Receipts : UNCHANGED Places(r) /\ DistinctFor(work, r)'
<1> SUFFICES ASSUME NEW r \in Receipts PROVE UNCHANGED Places(r) /\ DistinctFor(work, r)'
  OBVIOUS
<1>1. PageKeys(r)' = PageKeys(r) /\ KeysFor(work, r)' = KeysFor(work, r) /\ HeldKeys(r)' = HeldKeys(r)
  BY DEF KeysFor, HeldKeys, PageKeys
<1>2. Fetching(r)' = Fetching(r) /\ Settling(r)' = Settling(r)
  BY DEF Fetching, Settling, TaskKeys
<1>3. DistinctFor(work, r)'
  BY DEF Core, RecordInv, ReceiptInv, Apart, DistinctFor
<1> QED BY <1>1, <1>2, <1>3 DEF Places

(* A record that changes its place is still waiting: the invariant of its  *)
(* receipt needs only the new places to be apart.                          *)
LEMMA StillWaiting ==
  ASSUME NEW r \in Receipts, Core, Apart(r)', Waiting(r)' = Waiting(r), Settling(r)' = Settling(r),
         UNCHANGED <<delivery, remaining, successes, in_progress, received, fetched, skipped>>
  PROVE  ReceiptInv(r)'
<1>1. OnWay(r)' = OnWay(r) /\ ReceiptInv(r)
  BY DEF OnWay, Core, RecordInv
<1>2. TrackerExact(r)' /\ ReceivedFresh(r)'
  BY <1>1 DEF ReceiptInv, TrackerExact, ReceivedFresh
<1>3. SettledOf(r)' = SettledOf(r)
  BY DEF SettledOf, Settled
<1>4. SuccessesCounted(r)'
  BY <1>1, <1>3 DEF ReceiptInv, SuccessesCounted
<1> QED BY <1>2, <1>4 DEF ReceiptInv

(* The discovery hands the first record of the page over to the channel.   *)
LEMMA SendRecordStep ==
  ASSUME Core, SendRecord, NEW r \in Receipts
  PROVE  ReceiptInv(r)'
<1> DEFINE x == Head(page)
           w == Work(x, current)
<1>t. /\ page \in Seq(Keys) /\ work \in Seq(Works) /\ page # <<>> /\ current \in Receipts
      /\ Distinct(page) /\ Apart(r)
  BY DEF Core, S3Types, DiscoveryTypes, FetchTypes, RecordInv, PageState, SendRecord, ReceiptInv
<1>1. x \in Keys /\ w \in Works /\ w.key = x /\ w.receipt = current
  BY <1>t DEF Work, Works
<1>2. /\ work' = Append(work, w) /\ page' = Tail(page)
      /\ current' = IF Len(page) = 1 THEN None ELSE current
      /\ UNCHANGED <<held, task, delivery, remaining, successes, in_progress, received, fetched, skipped>>
  BY DEF SendRecord, queueVars, trackerVars, fetchVars, streamVars
<1> HIDE DEF w
<1>3. KeysFor(work', r) = KeysFor(work, r) \cup (IF current = r THEN {x} ELSE {})
  BY <1>t, <1>1, <1>2, WorkAppend
<1>4. PageKeys(r) = PageKeys(r)' \cup (IF current = r THEN {x} ELSE {})
  <2>1. Members(page) = {x} \cup Members(page') /\ (Len(page) = 1 => Members(page') = {})
    BY <1>t, <1>2, PageTail
  <2> QED BY <1>t, <1>2, <2>1, Bounds DEF PageKeys
<1>5. current = r => x \notin PageKeys(r)'
  BY <1>t, <1>2, PageTail, Bounds DEF PageKeys
<1>6. HeldKeys(r)' = HeldKeys(r) /\ Fetching(r)' = Fetching(r) /\ Settling(r)' = Settling(r)
  BY <1>2 DEF HeldKeys, Fetching, Settling, TaskKeys
<1> HIDE DEF x
<1>7. current = r => x \notin KeysFor(work, r)
  BY <1>t, <1>4 DEF Apart
<1>8. DistinctFor(work', r)
  BY <1>t, <1>1, <1>2, <1>7, WorkAppend DEF Apart
<1>9. KeysFor(work, r)' = KeysFor(work', r) /\ (DistinctFor(work, r)' <=> DistinctFor(work', r))
  BY DEF KeysFor, DistinctFor
<1>10. Apart(r)'
  BY <1>t, <1>3, <1>4, <1>5, <1>6, <1>8, <1>9 DEF Apart
<1>11. Waiting(r)' = Waiting(r)
  BY <1>3, <1>4, <1>6, <1>9 DEF Waiting
<1> QED BY ONLY <1>2, <1>6, <1>10, <1>11, Core, StillWaiting, r \in Receipts

(* The orchestrator takes the next record from the channel.                *)
LEMMA AcceptWorkStep ==
  ASSUME Core, AcceptWork, NEW r \in Receipts
  PROVE  ReceiptInv(r)'
<1> DEFINE x == Head(work)
<1>t. work \in Seq(Works) /\ work # <<>> /\ x \in Works /\ Apart(r) /\ held = None
  BY RecordsOnWay DEF Core, S3Types, FetchTypes, RecordInv, AcceptWork, ReceiptInv
<1>1. /\ work' = Tail(work) /\ held' = x
      /\ UNCHANGED <<page, current, task, delivery, remaining, successes, in_progress, received, fetched,
                     skipped>>
  BY DEF AcceptWork, queueVars, discoveryVars, trackerVars, streamVars
<1> HIDE DEF x
<1>2. /\ KeysFor(work, r) = KeysFor(work', r) \cup (IF x.receipt = r THEN {x.key} ELSE {})
      /\ DistinctFor(work', r) /\ (x.receipt = r => x.key \notin KeysFor(work', r))
  BY <1>t, <1>1, WorkTail DEF x, Apart
<1>3. HeldKeys(r) = {} /\ HeldKeys(r)' = IF x.receipt = r THEN {x.key} ELSE {}
  BY <1>t, <1>1, Bounds DEF HeldKeys
<1>4. PageKeys(r)' = PageKeys(r) /\ Fetching(r)' = Fetching(r) /\ Settling(r)' = Settling(r)
  BY <1>1 DEF PageKeys, Fetching, Settling, TaskKeys
<1>5. KeysFor(work, r)' = KeysFor(work', r) /\ (DistinctFor(work, r)' <=> DistinctFor(work', r))
  BY DEF KeysFor, DistinctFor
<1>6. Apart(r)'
  BY <1>t, <1>2, <1>3, <1>4, <1>5 DEF Apart
<1>7. Waiting(r)' = Waiting(r)
  BY <1>2, <1>3, <1>4, <1>5 DEF Waiting
<1> QED BY ONLY <1>1, <1>4, <1>6, <1>7, Core, StillWaiting, r \in Receipts

(* The held record becomes a task.                                         *)
LEMMA SpawnFetchStep ==
  ASSUME Core, SpawnFetch, NEW r \in Receipts
  PROVE  ReceiptInv(r)'
<1> DEFINE t == [pc |-> "fetch", receipt |-> held.receipt, attempt |-> 1, sent |-> 0]
           k == held.key
<1>t. /\ held \in Works /\ k \in Keys /\ task \in [Keys -> Tasks] /\ Apart(r)
      /\ task[k].pc = "none"
  BY DEF Core, S3Types, FetchTypes, RecordInv, SpawnFetch, ReceiptInv, Works, StreamInv, Locked
<1>1. /\ task' = [task EXCEPT ![k] = t] /\ held' = None /\ held # None
      /\ UNCHANGED <<page, current, work, delivery, remaining, successes, in_progress, received, fetched,
                     skipped>>
  BY DEF SpawnFetch, queueVars, discoveryVars, trackerVars, streamVars
<1>2. t.pc = "fetch" /\ t.receipt = held.receipt
  OBVIOUS
<1> HIDE DEF t, k
<1>3. task'[k] = t /\ \A j \in Keys \ {k} : task'[j] = task[j]
  BY <1>t, <1>1
<1>4. HeldKeys(r)' = {} /\ HeldKeys(r) = IF held.receipt = r THEN {k} ELSE {}
  BY <1>1 DEF HeldKeys, k
<1>5. Fetching(r)' = Fetching(r) \cup (IF held.receipt = r THEN {k} ELSE {}) /\ Settling(r)' = Settling(r)
  BY <1>t, <1>2, <1>3 DEF Fetching, Settling, TaskKeys
<1>6. PageKeys(r)' = PageKeys(r) /\ KeysFor(work, r)' = KeysFor(work, r)
  BY <1>1 DEF PageKeys, KeysFor
<1>7. DistinctFor(work, r)'
  BY <1>t, <1>1 DEF Apart, DistinctFor
<1>8. Apart(r)'
  BY <1>t, <1>4, <1>5, <1>6, <1>7 DEF Apart
<1>9. Waiting(r)' = Waiting(r)
  BY <1>4, <1>5, <1>6 DEF Waiting
<1> QED BY ONLY <1>1, <1>5, <1>8, <1>9, Core, StillWaiting, r \in Receipts

(* The delivery that is taken: all its records are in the page.            *)
LEMMA TakeMessageStep ==
  ASSUME Core, NEW q \in Receipts, TakeMessage(q), NEW r \in Receipts
  PROVE  ReceiptInv(r)'
<1>t. /\ ReceiptInv(r) /\ current = None /\ delivery[q] \in Messages /\ OnWay(q) = {}
      /\ delivery[q] \in SUBSET Keys /\ IsFiniteSet(delivery[q])
      /\ remaining \in [Receipts -> Nat] /\ successes \in [Receipts -> Nat]
  <2>1. delivery[q] \in Messages /\ OnWay(q) = {}
    BY DEF Core, RecordInv, ReceiptInv, ReceivedFresh, TakeMessage
  <2>2. current = None
    BY DEF Core, RecordInv, PageState, TakeMessage
  <2> QED BY <2>1, <2>2, S3Assumptions DEF Core, RecordInv, S3Types, DiscoveryTypes
<1>1. /\ received' = received \ {q} /\ q \in received
      /\ UNCHANGED <<delivery, work, held, task, fetched, skipped>>
  BY DEF TakeMessage, fetchVars, streamVars
<1>2. CASE delivery[q] = {}
  <2>1. UNCHANGED <<page, current, in_progress, remaining, successes>>
    BY <1>2 DEF TakeMessage, trackerVars
  <2>2. \A p \in Receipts : UNCHANGED Places(p) /\ DistinctFor(work, p)'
    BY <1>1, <2>1, SamePlaces
  <2> QED BY ONLY <1>1, <2>1, <2>2, Core, QuietReceipts, r \in Receipts
<1>3. CASE delivery[q] # {}
  <2>1. /\ current' = q /\ page' = Ascending(delivery[q]) /\ in_progress' = in_progress \cup {q}
        /\ remaining' = [remaining EXCEPT ![q] = Cardinality(delivery[q])]
        /\ successes' = [successes EXCEPT ![q] = 0]
    BY <1>3 DEF TakeMessage
  <2>2. Members(page') = delivery[q]
    BY <1>t, <2>1, AscendingFacts
  <2>3. PageKeys(r) = {} /\ PageKeys(r)' = IF r = q THEN delivery[q] ELSE {}
    BY <1>t, <2>1, <2>2, Bounds DEF PageKeys, Members
  <2>4. /\ KeysFor(work, r)' = KeysFor(work, r) /\ HeldKeys(r)' = HeldKeys(r)
        /\ Fetching(r)' = Fetching(r) /\ Settling(r)' = Settling(r)
        /\ DistinctFor(work, r)'
    BY <1>t, <1>1 DEF KeysFor, HeldKeys, Fetching, Settling, TaskKeys, ReceiptInv, Apart, DistinctFor
  <2>5. CASE r # q
    <3>1. UNCHANGED Places(r) /\ Settled \subseteq Settled'
      BY <1>1, <2>3, <2>4, <2>5 DEF Places, Settled
    <3>2. /\ delivery'[r] = delivery[r] /\ remaining'[r] = remaining[r]
          /\ successes'[r] = successes[r] /\ (r \in in_progress' <=> r \in in_progress)
          /\ (r \in received' => r \in received)
      BY <1>t, <1>1, <2>1, <2>5
    <3> QED BY ONLY <1>t, <2>4, <3>1, <3>2, Core, ReceiptFrame, r \in Receipts
  <2>6. CASE r = q
    <3>1. /\ KeysFor(work, r) = {} /\ HeldKeys(r) = {} /\ Fetching(r) = {} /\ Settling(r) = {}
      BY <1>t, <2>6 DEF OnWay, Waiting
    <3>2. OnWay(r)' = delivery[r] /\ Apart(r)'
      BY <2>3, <2>4, <2>6, <3>1 DEF OnWay, Waiting, Apart
    <3>3. /\ remaining'[r] = Cardinality(delivery[r]) /\ successes'[r] = 0 /\ r \in in_progress'
          /\ delivery'[r] = delivery[r] /\ r \notin received'
      BY <1>t, <1>1, <2>1, <2>6
    <3>4. TrackerExact(r)' /\ ReceivedFresh(r)'
      BY <1>t, <1>3, <2>6, <3>2, <3>3 DEF TrackerExact, ReceivedFresh
    <3>5. IsFiniteSet(SettledOf(r)')
      BY <1>t, <2>6, <3>3, FS_Subset DEF SettledOf
    <3>6. Cardinality(SettledOf(r)') \in Nat
      BY <3>5, FS_CardinalityType
    <3>7. SuccessesCounted(r)'
      BY <3>3, <3>6 DEF SuccessesCounted
    <3> QED BY <3>2, <3>4, <3>7 DEF ReceiptInv
  <2> QED BY <2>5, <2>6
<1> QED BY <1>2, <1>3

(* The deliveries that are received are new.                               *)
LEMMA ReceiveMessagesStep ==
  ASSUME Core, NEW ms \in SUBSET Messages, ReceiveMessages(ms), NEW r \in Receipts
  PROVE  ReceiptInv(r)'
<1>t. ReceiptInv(r) /\ received = {} /\ dpc = "list"
  BY DEF Core, RecordInv, ReceiveMessages
<1>1. PICK rs \in SUBSET {q \in Receipts : ~Busy(q)} : \E f \in [rs -> ms] :
          /\ delivery' = [q \in Receipts |-> IF q \in rs THEN f[q] ELSE delivery[q]]
          /\ received' = rs
  BY DEF ReceiveMessages
<1>2. PICK f \in [rs -> ms] :
          /\ delivery' = [q \in Receipts |-> IF q \in rs THEN f[q] ELSE delivery[q]]
          /\ received' = rs
  BY <1>1
<1>3. /\ UNCHANGED <<page, current, work, held, task, remaining, successes, in_progress, fetched, skipped>>
  BY DEF ReceiveMessages, trackerVars, fetchVars, streamVars
<1>4. UNCHANGED Places(r) /\ DistinctFor(work, r)'
  BY <1>3, SamePlaces
<1>5. CASE r \notin rs
  <2>1. /\ delivery'[r] = delivery[r] /\ remaining'[r] = remaining[r]
        /\ successes'[r] = successes[r] /\ (r \in in_progress' <=> r \in in_progress)
        /\ (r \in received' => r \in received) /\ Settled \subseteq Settled'
    BY <1>2, <1>3, <1>5 DEF Settled
  <2> QED BY ONLY <1>t, <1>4, <2>1, Core, ReceiptFrame, r \in Receipts
<1>6. CASE r \in rs
  <2>1. ~Busy(r) /\ delivery'[r] \in Messages
    BY <1>1, <1>2, <1>6
  <2>2. OnWay(r) = {} /\ r \notin in_progress
    <3>1. PageKeys(r) = {} /\ HeldKeys(r) = {} /\ r \notin in_progress
      BY <2>1 DEF Busy, PageKeys, HeldKeys
    <3>2. KeysFor(work, r) = {}
      BY <2>1 DEF Busy, KeysFor
    <3>3. Fetching(r) = {} /\ Settling(r) = {}
      BY <2>1 DEF Busy, Fetching, Settling, TaskKeys
    <3> QED BY <3>1, <3>2, <3>3 DEF OnWay, Waiting
  <2>3. OnWay(r)' = OnWay(r) /\ Apart(r)'
    BY <1>t, <1>4 DEF OnWay, Waiting, Places, ReceiptInv, Apart
  <2>4. TrackerExact(r)' /\ ReceivedFresh(r)' /\ SuccessesCounted(r)'
    BY <1>t, <1>3, <2>1, <2>2, <2>3 DEF ReceiptInv, TrackerExact, ReceivedFresh, SuccessesCounted
  <2> QED BY <2>3, <2>4 DEF ReceiptInv
<1> QED BY <1>5, <1>6

(* One record less is on its way.                                          *)
LEMMA OneLess ==
  ASSUME Core, NEW r \in Receipts, NEW x, x \in OnWay(r), OnWay(r)' = OnWay(r) \ {x},
         delivery'[r] = delivery[r], remaining'[r] = remaining[r] - 1,
         in_progress' = IF Finished(r) THEN in_progress \ {r} ELSE in_progress
  PROVE  /\ TrackerExact(r)'
         /\ Finished(r) => OnWay(r) = {x}
<1>1. /\ remaining[r] \in Nat \ {0} /\ remaining[r] = Cardinality(OnWay(r)) /\ IsFiniteSet(OnWay(r))
      /\ delivery[r] \in Messages /\ OnWay(r) \subseteq delivery[r] /\ r \in in_progress
  BY SomeRemain
<1>2. IsFiniteSet(OnWay(r)') /\ Cardinality(OnWay(r)') = Cardinality(OnWay(r)) - 1
  BY <1>1, FS_RemoveElement
<1>3. OnWay(r)' = {} <=> Cardinality(OnWay(r)') = 0
  BY <1>2, FS_EmptySet
<1>4. OnWay(r)' = {} <=> remaining[r] = 1
  BY <1>1, <1>2, <1>3
<1>5. r \in in_progress' <=> OnWay(r)' # {}
  BY <1>1, <1>4 DEF Finished
<1>6. TrackerExact(r)'
  BY <1>1, <1>2, <1>5 DEF TrackerExact
<1>7. Finished(r) => OnWay(r) = {x}
  BY <1>4 DEF Finished
<1> QED BY <1>6, <1>7

(* A further record that is settled and no longer waiting.                 *)
LEMMA OneMoreSettled ==
  ASSUME Core, NEW r \in Receipts, NEW x, x \in Waiting(r), x \in Settled', x \notin Waiting(r)',
         Waiting(r)' \subseteq Waiting(r), delivery'[r] = delivery[r], Settled \subseteq Settled'
  PROVE  /\ IsFiniteSet(SettledOf(r)') /\ successes[r] + 1 <= Cardinality(SettledOf(r)')
         /\ SettledOf(r)' \subseteq delivery[r] \cap Settled'
<1>1. /\ delivery[r] \in Messages /\ Waiting(r) \subseteq delivery[r] /\ r \in in_progress
      /\ IsFiniteSet(delivery[r])
  BY SomeRemain, S3Assumptions DEF OnWay
<1>2. /\ SettledOf(r) \cup {x} \subseteq SettledOf(r)' /\ x \notin SettledOf(r)
      /\ SettledOf(r)' \subseteq delivery[r] \cap Settled'
  BY <1>1 DEF SettledOf
<1>3. IsFiniteSet(SettledOf(r)') /\ IsFiniteSet(SettledOf(r)) /\ IsFiniteSet(SettledOf(r) \cup {x})
  BY <1>1, <1>2, FS_Subset
<1>4. /\ Cardinality(SettledOf(r) \cup {x}) = Cardinality(SettledOf(r)) + 1
      /\ Cardinality(SettledOf(r) \cup {x}) <= Cardinality(SettledOf(r)')
      /\ Cardinality(SettledOf(r)) \in Nat /\ Cardinality(SettledOf(r)') \in Nat
  <2>1. Cardinality(SettledOf(r) \cup {x}) = Cardinality(SettledOf(r)) + 1
    BY <1>2, <1>3, FS_AddElement
  <2>2. Cardinality(SettledOf(r) \cup {x}) <= Cardinality(SettledOf(r)')
    BY <1>2, <1>3, FS_Subset
  <2> QED BY <1>3, <2>1, <2>2, FS_CardinalityType
<1>5. successes[r] <= Cardinality(SettledOf(r)) /\ successes[r] \in Nat
  BY <1>1 DEF Core, RecordInv, ReceiptInv, SuccessesCounted, S3Types, DiscoveryTypes
<1> QED BY <1>2, <1>3, <1>4, <1>5

(* As many successes as records: every record is settled.                  *)
LEMMA AllSettled ==
  ASSUME NEW D, NEW E, IsFiniteSet(D), E \subseteq D, NEW n \in Nat, n = Cardinality(D),
         n <= Cardinality(E)
  PROVE  E = D
<1>1. /\ IsFiniteSet(E) /\ Cardinality(E) <= Cardinality(D)
      /\ (Cardinality(E) = Cardinality(D) => E = D)
  BY FS_Subset
<1>2. Cardinality(E) \in Nat
  BY <1>1, FS_CardinalityType
<1> QED BY <1>1, <1>2

(* A duplicate is dropped and counted as a success: its receipt has one    *)
(* record less, and if that was the last one and all succeeded, all are    *)
(* settled.                                                                *)
LEMMA SkipDuplicateStep ==
  ASSUME Core, SkipDuplicate, NEW r \in Receipts
  PROVE  /\ ReceiptInv(r)'
         /\ Head(work).receipt = r /\ Finished(r) /\ AllSucceeded(r, successes[r] + 1) =>
               delivery[r] \subseteq Settled'
<1> DEFINE x == Head(work)
<1>t. /\ work \in Seq(Works) /\ work # <<>> /\ x \in Works /\ ReceiptInv(r)
      /\ x.key \in OnWay(x.receipt) /\ remaining \in [Receipts -> Nat] /\ successes \in [Receipts -> Nat]
  BY RecordsOnWay DEF Core, S3Types, DiscoveryTypes, FetchTypes, RecordInv, SkipDuplicate
<1>1. /\ work' = Tail(work)
      /\ UNCHANGED <<page, current, held, task, delivery, received, fetched>>
      /\ skipped' = skipped \/ (x.receipt # None /\ skipped' = skipped \cup {x.key})
  BY DEF SkipDuplicate, discoveryVars, fetchVars, streamVars
<1>2a. x.receipt = None => UNCHANGED <<in_progress, remaining, successes>>
  BY DEF SkipDuplicate, trackerVars
<1>2b. x.receipt # None =>
         /\ successes' = [successes EXCEPT ![x.receipt] = @ + 1]
         /\ remaining' = [remaining EXCEPT ![x.receipt] = @ - 1]
         /\ in_progress' = IF Finished(x.receipt) THEN in_progress \ {x.receipt} ELSE in_progress
         /\ skipped' = skipped \cup {x.key}
  BY DEF SkipDuplicate
<1> HIDE DEF x
<1>3. /\ KeysFor(work, r) = KeysFor(work', r) \cup (IF x.receipt = r THEN {x.key} ELSE {})
      /\ DistinctFor(work', r) /\ (x.receipt = r => x.key \notin KeysFor(work', r))
  BY <1>t, <1>1, WorkTail DEF x, ReceiptInv, Apart
<1>4. KeysFor(work, r)' = KeysFor(work', r) /\ (DistinctFor(work, r)' <=> DistinctFor(work', r))
  BY DEF KeysFor, DistinctFor
<1>5. /\ PageKeys(r)' = PageKeys(r) /\ HeldKeys(r)' = HeldKeys(r)
      /\ Fetching(r)' = Fetching(r) /\ Settling(r)' = Settling(r)
  BY <1>1 DEF PageKeys, HeldKeys, Fetching, Settling, TaskKeys
<1>6. Settled \subseteq Settled'
  BY <1>1 DEF Settled
<1>7. CASE x.receipt # r
  <2>1. UNCHANGED Places(r) /\ DistinctFor(work, r)'
    BY <1>3, <1>4, <1>5, <1>7 DEF Places
  <2>2. /\ delivery'[r] = delivery[r] /\ remaining'[r] = remaining[r]
        /\ successes'[r] = successes[r] /\ (r \in in_progress' <=> r \in in_progress)
        /\ (r \in received' => r \in received)
    BY <1>t, <1>1, <1>2a, <1>2b, <1>7
  <2>3. ReceiptInv(r)'
    BY ONLY <1>t, <1>6, <2>1, <2>2, Core, ReceiptFrame, r \in Receipts
  <2> QED BY <1>7, <2>3 DEF x
<1>8. CASE x.receipt = r
  <2>1. /\ successes'[r] = successes[r] + 1 /\ remaining'[r] = remaining[r] - 1
        /\ in_progress' = IF Finished(r) THEN in_progress \ {r} ELSE in_progress
        /\ x.key \in Settled' /\ delivery'[r] = delivery[r]
    BY <1>t, <1>1, <1>2b, <1>8, Bounds DEF Settled
  <2>2. Apart(r)'
    BY <1>t, <1>3, <1>4, <1>5 DEF ReceiptInv, Apart
  <2>3. x.key \in KeysFor(work, r) /\ x.key \in Waiting(r) /\ x.key \in OnWay(r)
    BY <1>3, <1>8 DEF Waiting, OnWay
  <2>4. x.key \notin PageKeys(r) \cup HeldKeys(r) \cup Fetching(r) \cup Settling(r)
    BY <1>t, <2>3 DEF ReceiptInv, Apart
  <2>5. /\ Waiting(r)' \subseteq Waiting(r) /\ x.key \notin Waiting(r)'
        /\ OnWay(r)' = OnWay(r) \ {x.key}
    BY <1>3, <1>4, <1>5, <1>8, <2>4 DEF Waiting, OnWay
  <2>6. TrackerExact(r)'
    BY ONLY <2>1, <2>3, <2>5, OneLess, Core, r \in Receipts
  <2>7. ReceivedFresh(r)'
    BY <1>t, <1>1, <2>3 DEF ReceiptInv, ReceivedFresh
  <2>8. /\ IsFiniteSet(SettledOf(r)') /\ successes[r] + 1 <= Cardinality(SettledOf(r)')
        /\ SettledOf(r)' \subseteq delivery[r] \cap Settled'
    BY ONLY <1>6, <2>1, <2>3, <2>5, OneMoreSettled, Core, r \in Receipts
  <2>9. SuccessesCounted(r)'
    BY <2>1, <2>8 DEF SuccessesCounted
  <2>10. ASSUME AllSucceeded(r, successes[r] + 1) PROVE delivery[r] \subseteq Settled'
    <3>1. delivery[r] \in Messages /\ IsFiniteSet(delivery[r])
      BY <2>3, SomeRemain, S3Assumptions
    <3>2. successes[r] + 1 \in Nat /\ successes[r] + 1 = Cardinality(delivery[r])
      BY <1>t, <2>10 DEF AllSucceeded
    <3>3. SettledOf(r)' = delivery[r]
      BY <2>8, <3>1, <3>2, AllSettled
    <3> QED BY <2>8, <3>3
  <2> QED BY <2>2, <2>6, <2>7, <2>9, <2>10 DEF ReceiptInv
<1> QED BY <1>7, <1>8

(* The task tells the tracker of its outcome: its record no longer waits.  *)
LEMMA ReportStep ==
  ASSUME Core, NEW k \in Keys, Report(k), NEW r \in Receipts
  PROVE  ReceiptInv(r)'
<1> DEFINE q == task[k].receipt
           ok == task[k].pc = "succeeded"
<1>t. /\ task \in [Keys -> Tasks] /\ ReceiptInv(r) /\ successes \in [Receipts -> Nat]
      /\ task[k].pc \in {"succeeded", "failed"} /\ (ok => k \in fetched)
  BY DEF Core, S3Types, DiscoveryTypes, FetchTypes, RecordInv, Report, TasksTell
<1>1. /\ UNCHANGED <<page, current, work, held, delivery, received, fetched, skipped, in_progress, remaining>>
      /\ successes' = IF q # None /\ ok THEN [successes EXCEPT ![q] = @ + 1] ELSE successes
      /\ Goto(k, "settle")
  BY DEF Report, taskQuiet, discoveryVars, streamVars
<1>2. /\ task'[k].pc = "settle" /\ task'[k].receipt = q
      /\ \A j \in Keys \ {k} : task'[j] = task[j]
  BY <1>t, <1>1, GotoFacts DEF TaskPCs
<1> HIDE DEF q, ok
<1>3. q = task[k].receipt
  BY DEF q
<1>4. /\ PageKeys(r)' = PageKeys(r) /\ HeldKeys(r)' = HeldKeys(r) /\ KeysFor(work, r)' = KeysFor(work, r)
      /\ DistinctFor(work, r)'
  BY <1>t, <1>1 DEF PageKeys, HeldKeys, KeysFor, DistinctFor, ReceiptInv, Apart
<1>5. /\ Fetching(r)' = Fetching(r) \ (IF q = r THEN {k} ELSE {})
      /\ Settling(r)' = Settling(r) \cup (IF q = r THEN {k} ELSE {})
      /\ q = r => k \in Fetching(r)
  BY <1>t, <1>2, <1>3 DEF Fetching, Settling, TaskKeys
<1>6. Settled' = Settled
  BY <1>1 DEF Settled
<1>7. CASE q # r
  <2>1. UNCHANGED Places(r)
    BY <1>4, <1>5, <1>7 DEF Places
  <2>2. /\ delivery'[r] = delivery[r] /\ remaining'[r] = remaining[r]
        /\ successes'[r] = successes[r] /\ (r \in in_progress' <=> r \in in_progress)
        /\ (r \in received' => r \in received) /\ Settled \subseteq Settled'
    BY <1>t, <1>1, <1>6, <1>7
  <2> QED BY ONLY <1>t, <1>4, <2>1, <2>2, Core, ReceiptFrame, r \in Receipts
<1>8. CASE q = r
  <2>1. Apart(r)'
    BY <1>t, <1>4, <1>5, <1>8 DEF ReceiptInv, Apart
  <2>2. OnWay(r)' = OnWay(r) /\ k \in Waiting(r) /\ Waiting(r)' = Waiting(r) \ {k}
    <3>1. k \notin PageKeys(r) \cup KeysFor(work, r) \cup HeldKeys(r)
      BY <1>t, <1>5, <1>8, HeldAlone DEF ReceiptInv, Apart
    <3> QED BY <1>4, <1>5, <1>8, <3>1 DEF OnWay, Waiting
  <2>3. TrackerExact(r)' /\ ReceivedFresh(r)'
    BY <1>t, <1>1, <2>2 DEF ReceiptInv, TrackerExact, ReceivedFresh
  <2>4. delivery'[r] = delivery[r] /\ Waiting(r)' \subseteq Waiting(r) /\ k \notin Waiting(r)'
    BY <1>1, <2>2
  <2>5. CASE ok
    <3>1. k \in Settled' /\ Settled \subseteq Settled' /\ successes'[r] = successes[r] + 1
      BY <1>t, <1>1, <1>8, <2>5, Bounds DEF Settled
    <3>2. successes[r] + 1 <= Cardinality(SettledOf(r)')
      BY ONLY <2>2, <2>4, <3>1, OneMoreSettled, Core, r \in Receipts
    <3>3. SuccessesCounted(r)'
      BY <3>1, <3>2 DEF SuccessesCounted
    <3> QED BY <2>1, <2>3, <3>3 DEF ReceiptInv
  <2>6. CASE ~ok
    <3>1. IsFiniteSet(delivery[r]) /\ r \in in_progress
      BY <2>2, SomeRemain, S3Assumptions DEF OnWay
    <3>2. SettledOf(r) \subseteq SettledOf(r)' /\ IsFiniteSet(SettledOf(r)')
      BY <1>6, <2>4, <3>1, FS_Subset DEF SettledOf
    <3>3. /\ Cardinality(SettledOf(r)) <= Cardinality(SettledOf(r)')
          /\ Cardinality(SettledOf(r)) \in Nat /\ Cardinality(SettledOf(r)') \in Nat
      BY <3>2, FS_Subset, FS_CardinalityType
    <3>4. successes'[r] = successes[r] /\ successes[r] \in Nat /\ successes[r] <= Cardinality(SettledOf(r))
      BY <1>t, <1>1, <2>6, <3>1 DEF ReceiptInv, SuccessesCounted
    <3>5. SuccessesCounted(r)'
      BY <3>3, <3>4 DEF SuccessesCounted
    <3> QED BY <2>1, <2>3, <3>5 DEF ReceiptInv
  <2> QED BY <2>5, <2>6
<1> QED BY <1>7, <1>8

(* The task settles its record.                                            *)
LEMMA SettleStep ==
  ASSUME Core, NEW k \in Keys, Settle(k), NEW r \in Receipts
  PROVE  /\ ReceiptInv(r)'
         /\ task[k].receipt = r /\ Finished(r) /\ AllSucceeded(r, successes[r]) =>
               delivery[r] \in Messages /\ delivery[r] \subseteq Settled
<1> DEFINE q == task[k].receipt
<1>t. /\ task \in [Keys -> Tasks] /\ ReceiptInv(r) /\ remaining \in [Receipts -> Nat]
      /\ task[k].pc = "settle" /\ successes \in [Receipts -> Nat]
  BY DEF Core, S3Types, DiscoveryTypes, FetchTypes, RecordInv, Settle
<1>1. /\ UNCHANGED <<page, current, work, held, delivery, received, fetched, skipped, successes>>
      /\ \E pc \in {"delete", "unlock"} : Goto(k, pc)
  BY DEF Settle, taskQuiet, discoveryVars, streamVars
<1>1a. q = None => UNCHANGED <<remaining, in_progress>>
  BY DEF Settle
<1>1b. q # None =>
         /\ remaining' = [remaining EXCEPT ![q] = @ - 1]
         /\ in_progress' = IF Finished(q) THEN in_progress \ {q} ELSE in_progress
  BY DEF Settle
<1>2. /\ task'[k].pc \in {"delete", "unlock"}
      /\ \A j \in Keys \ {k} : task'[j] = task[j]
  BY <1>t, <1>1, GotoFacts DEF TaskPCs
<1> HIDE DEF q
<1>3. q = task[k].receipt
  BY DEF q
<1>4. /\ PageKeys(r)' = PageKeys(r) /\ HeldKeys(r)' = HeldKeys(r) /\ KeysFor(work, r)' = KeysFor(work, r)
      /\ DistinctFor(work, r)'
  BY <1>t, <1>1 DEF PageKeys, HeldKeys, KeysFor, DistinctFor, ReceiptInv, Apart
<1>5. /\ Fetching(r)' = Fetching(r)
      /\ Settling(r)' = Settling(r) \ (IF q = r THEN {k} ELSE {})
      /\ q = r => k \in Settling(r)
  BY <1>t, <1>2, <1>3 DEF Fetching, Settling, TaskKeys
<1>6. Settled' = Settled
  BY <1>1 DEF Settled
<1>7. CASE q # r
  <2>1. UNCHANGED Places(r)
    BY <1>4, <1>5, <1>7 DEF Places
  <2>2. /\ delivery'[r] = delivery[r] /\ remaining'[r] = remaining[r]
        /\ successes'[r] = successes[r] /\ (r \in in_progress' <=> r \in in_progress)
        /\ (r \in received' => r \in received) /\ Settled \subseteq Settled'
    BY <1>t, <1>1, <1>1a, <1>1b, <1>6, <1>7
  <2>3. ReceiptInv(r)'
    BY ONLY <1>t, <1>4, <2>1, <2>2, Core, ReceiptFrame, r \in Receipts
  <2> QED BY <1>7, <2>3 DEF q
<1>8. CASE q = r
  <2>1. Apart(r)'
    BY <1>t, <1>4, <1>5, <1>8 DEF ReceiptInv, Apart
  <2>2. /\ OnWay(r)' = OnWay(r) \ {k} /\ k \in OnWay(r) /\ Waiting(r)' = Waiting(r)
        /\ k \notin Waiting(r)
    <3>1. k \notin PageKeys(r) \cup KeysFor(work, r) \cup HeldKeys(r) \cup Fetching(r)
      BY <1>t, <1>5, <1>8, HeldAlone DEF ReceiptInv, Apart
    <3> QED BY <1>4, <1>5, <1>8, <3>1 DEF OnWay, Waiting
  <2>3. /\ remaining'[r] = remaining[r] - 1 /\ delivery'[r] = delivery[r]
        /\ in_progress' = IF Finished(r) THEN in_progress \ {r} ELSE in_progress
    BY <1>t, <1>1, <1>1b, <1>8, Bounds
  <2>4. TrackerExact(r)' /\ (Finished(r) => OnWay(r) = {k})
    BY ONLY <2>2, <2>3, OneLess, Core, r \in Receipts
  <2>5. ReceivedFresh(r)'
    BY <1>t, <1>1, <2>2 DEF ReceiptInv, ReceivedFresh
  <2>6. SettledOf(r)' = SettledOf(r) /\ r \in in_progress
    BY <1>6, <2>2, <2>3, SomeRemain DEF SettledOf
  <2>7. SuccessesCounted(r)'
    BY <1>t, <1>1, <2>6 DEF ReceiptInv, SuccessesCounted
  <2>8. ASSUME AllSucceeded(r, successes[r])
        PROVE  delivery[r] \in Messages /\ delivery[r] \subseteq Settled
    <3>1. delivery[r] \in Messages /\ IsFiniteSet(delivery[r])
      BY <2>2, SomeRemain, S3Assumptions
    <3>2. successes[r] \in Nat /\ successes[r] = Cardinality(delivery[r])
      BY <1>t, <2>8 DEF AllSucceeded
    <3>3. SettledOf(r) \subseteq delivery[r] /\ successes[r] <= Cardinality(SettledOf(r))
      BY <1>t, <2>6 DEF ReceiptInv, SuccessesCounted, SettledOf
    <3>4. SettledOf(r) = delivery[r]
      BY <3>1, <3>2, <3>3, AllSettled
    <3> QED BY <3>1, <3>4 DEF SettledOf
  <2> QED BY <2>1, <2>4, <2>5, <2>7, <2>8 DEF ReceiptInv
<1> QED BY <1>7, <1>8

(* Every action keeps the records of every message.                        *)
LEMMA ReceiptStep ==
  ASSUME Core, [Next]_vars, NEW r \in Receipts
  PROVE  ReceiptInv(r)'
<1>t. /\ task \in [Keys -> Tasks] /\ (mode = "list" => current = None)
  BY DEF Core, S3Types, FetchTypes, RecordInv, PageState
<1>1. ASSUME NEW k \in Keys, PutObject(k) PROVE ReceiptInv(r)'
  <2>1. /\ UNCHANGED <<work, held, task, current, delivery, remaining, successes, in_progress, received>>
        /\ UNCHANGED page \/ current = None
        /\ fetched \subseteq fetched' /\ skipped \subseteq skipped'
    BY <1>t, <1>1 DEF PutObject, queueVars, discoveryVars, trackerVars, fetchVars, streamVars
  <2>2. \A q \in Receipts : UNCHANGED Places(q) /\ DistinctFor(work, q)'
    BY <2>1, SamePlaces
  <2> QED BY ONLY <2>1, <2>2, Core, QuietReceipts, r \in Receipts
<1>2. ASSUME NEW m \in Messages, Notify(m) PROVE ReceiptInv(r)'
  <2>1. /\ UNCHANGED <<work, held, task, current, delivery, remaining, successes, in_progress, received>>
        /\ UNCHANGED page \/ current = None
        /\ fetched \subseteq fetched' /\ skipped \subseteq skipped'
    BY <1>t, <1>2 DEF Notify, queueVars, discoveryVars, trackerVars, fetchVars, streamVars
  <2>2. \A q \in Receipts : UNCHANGED Places(q) /\ DistinctFor(work, q)'
    BY <2>1, SamePlaces
  <2> QED BY ONLY <2>1, <2>2, Core, QuietReceipts, r \in Receipts
<1>3. ASSUME NEW m \in Messages, Expire(m) PROVE ReceiptInv(r)'
  <2>1. /\ UNCHANGED <<work, held, task, current, delivery, remaining, successes, in_progress, received>>
        /\ UNCHANGED page \/ current = None
        /\ fetched \subseteq fetched' /\ skipped \subseteq skipped'
    BY <1>t, <1>3 DEF Expire, queueVars, discoveryVars, trackerVars, fetchVars, streamVars
  <2>2. \A q \in Receipts : UNCHANGED Places(q) /\ DistinctFor(work, q)'
    BY <2>1, SamePlaces
  <2> QED BY ONLY <2>1, <2>2, Core, QuietReceipts, r \in Receipts
<1>4. ASSUME NEW ms \in SUBSET Messages, ReceiveMessages(ms) PROVE ReceiptInv(r)'
  BY <1>4, ReceiveMessagesStep
<1>5. ASSUME NEW q \in Receipts, TakeMessage(q) PROVE ReceiptInv(r)'
  BY <1>5, TakeMessageStep
<1>6. ASSUME SendRecord PROVE ReceiptInv(r)'
  BY <1>6, SendRecordStep
<1>7. ASSUME ListObjects PROVE ReceiptInv(r)'
  <2>1. /\ UNCHANGED <<work, held, task, current, delivery, remaining, successes, in_progress, received>>
        /\ UNCHANGED page \/ current = None
        /\ fetched \subseteq fetched' /\ skipped \subseteq skipped'
    BY <1>t, <1>7 DEF ListObjects, queueVars, discoveryVars, trackerVars, fetchVars, streamVars
  <2>2. \A q \in Receipts : UNCHANGED Places(q) /\ DistinctFor(work, q)'
    BY <2>1, SamePlaces
  <2> QED BY ONLY <2>1, <2>2, Core, QuietReceipts, r \in Receipts
<1>8. ASSUME ListFails PROVE ReceiptInv(r)'
  <2>1. /\ UNCHANGED <<work, held, task, current, delivery, remaining, successes, in_progress, received>>
        /\ UNCHANGED page \/ current = None
        /\ fetched \subseteq fetched' /\ skipped \subseteq skipped'
    BY <1>t, <1>8 DEF ListFails, queueVars, discoveryVars, trackerVars, fetchVars, streamVars
  <2>2. \A q \in Receipts : UNCHANGED Places(q) /\ DistinctFor(work, q)'
    BY <2>1, SamePlaces
  <2> QED BY ONLY <2>1, <2>2, Core, QuietReceipts, r \in Receipts
<1>9. ASSUME TakeKey PROVE ReceiptInv(r)'
  <2>1. /\ UNCHANGED <<work, held, task, current, delivery, remaining, successes, in_progress, received>>
        /\ UNCHANGED page \/ current = None
        /\ fetched \subseteq fetched' /\ skipped \subseteq skipped'
    BY <1>t, <1>9 DEF TakeKey, queueVars, discoveryVars, trackerVars, fetchVars, streamVars
  <2>2. \A q \in Receipts : UNCHANGED Places(q) /\ DistinctFor(work, q)'
    BY <2>1, SamePlaces
  <2> QED BY ONLY <2>1, <2>2, Core, QuietReceipts, r \in Receipts
<1>10. ASSUME DrainCompletion PROVE ReceiptInv(r)'
  <2>1. /\ UNCHANGED <<work, held, task, current, delivery, remaining, successes, in_progress, received>>
        /\ UNCHANGED page \/ current = None
        /\ fetched \subseteq fetched' /\ skipped \subseteq skipped'
    BY <1>t, <1>10 DEF DrainCompletion, queueVars, discoveryVars, trackerVars, fetchVars, streamVars
  <2>2. \A q \in Receipts : UNCHANGED Places(q) /\ DistinctFor(work, q)'
    BY <2>1, SamePlaces
  <2> QED BY ONLY <2>1, <2>2, Core, QuietReceipts, r \in Receipts
<1>11. ASSUME SendKey PROVE ReceiptInv(r)'
  <2> DEFINE w == Work(Head(page), None)
  <2>1. /\ work' = Append(work, w) /\ current = None
        /\ UNCHANGED <<held, task, current, delivery, remaining, successes, in_progress, received, fetched,
                       skipped>>
    BY <1>t, <1>11 DEF SendKey, queueVars, trackerVars, fetchVars, streamVars
  <2>2. w \in Works /\ w.receipt = None /\ work \in Seq(Works)
    BY <1>11 DEF SendKey, Work, Works, Core, S3Types, DiscoveryTypes, FetchTypes, RecordInv, PageState
  <2> HIDE DEF w
  <2>3. \A q \in Receipts : UNCHANGED Places(q) /\ DistinctFor(work, q)'
    <3> SUFFICES ASSUME NEW q \in Receipts PROVE UNCHANGED Places(q) /\ DistinctFor(work, q)'
      OBVIOUS
    <3>a. DistinctFor(work, q) /\ w.receipt # q
      BY <2>2, Bounds DEF Core, RecordInv, ReceiptInv, Apart
    <3>b. /\ KeysFor(Append(work, w), q) = KeysFor(work, q) \cup (IF w.receipt = q THEN {w.key} ELSE {})
          /\ DistinctFor(work, q) /\ (w.receipt = q => w.key \notin KeysFor(work, q))
                => DistinctFor(Append(work, w), q)
      BY ONLY <2>2, WorkAppend
    <3>1. KeysFor(work', q) = KeysFor(work, q) /\ DistinctFor(work', q)
      BY <2>1, <3>a, <3>b
    <3>2. KeysFor(work, q)' = KeysFor(work', q) /\ (DistinctFor(work, q)' <=> DistinctFor(work', q))
      BY DEF KeysFor, DistinctFor
    <3>3. /\ PageKeys(q)' = PageKeys(q) /\ HeldKeys(q)' = HeldKeys(q)
          /\ Fetching(q)' = Fetching(q) /\ Settling(q)' = Settling(q)
      BY <2>1, Bounds DEF PageKeys, HeldKeys, Fetching, Settling, TaskKeys
    <3> QED BY <3>1, <3>2, <3>3 DEF Places
  <2>4. received' \subseteq received /\ fetched \subseteq fetched' /\ skipped \subseteq skipped'
    BY <2>1
  <2> QED BY ONLY <2>1, <2>3, <2>4, Core, QuietReceipts, r \in Receipts
<1>12. ASSUME EndPage PROVE ReceiptInv(r)'
  <2>1. /\ UNCHANGED <<work, held, task, current, delivery, remaining, successes, in_progress, received>>
        /\ UNCHANGED page \/ current = None
        /\ fetched \subseteq fetched' /\ skipped \subseteq skipped'
    BY <1>t, <1>12 DEF EndPage, queueVars, discoveryVars, trackerVars, fetchVars, streamVars
  <2>2. \A q \in Receipts : UNCHANGED Places(q) /\ DistinctFor(work, q)'
    BY <2>1, SamePlaces
  <2> QED BY ONLY <2>1, <2>2, Core, QuietReceipts, r \in Receipts
<1>13. ASSUME SkipDuplicate PROVE ReceiptInv(r)'
  BY <1>13, SkipDuplicateStep
<1>14. ASSUME AcceptWork PROVE ReceiptInv(r)'
  BY <1>14, AcceptWorkStep
<1>15. ASSUME SpawnFetch PROVE ReceiptInv(r)'
  BY <1>15, SpawnFetchStep
<1>16. ASSUME NEW k \in Keys, SendChunk(k) PROVE ReceiptInv(r)'
  <2>1. /\ task' \in [Keys -> Tasks] /\ \A j \in Keys \ {k} : task'[j] = task[j]
        /\ task'[k].receipt = task[k].receipt
        /\ task[k].pc \in {"fetch", "succeeded", "failed"}
        /\ task'[k].pc \in {"fetch", "succeeded", "failed"}
    BY <1>t, <1>16, ChunkFacts DEF SendChunk, TaskPCs
  <2>2. /\ UNCHANGED <<work, held, page, current, delivery, remaining, successes, in_progress, received>>
        /\ fetched \subseteq fetched' /\ skipped \subseteq skipped'
    BY <1>16 DEF SendChunk, taskQuiet, discoveryVars, trackerVars, streamVars
  <2>3. \A q \in Receipts : UNCHANGED Places(q) /\ DistinctFor(work, q)'
    BY ONLY <2>1, <2>2, SameTaskPlaces, Core, k \in Keys
  <2> QED BY ONLY <2>2, <2>3, Core, QuietReceipts, r \in Receipts
<1>17. ASSUME NEW k \in Keys, SendEof(k) PROVE ReceiptInv(r)'
  <2>1. /\ task' \in [Keys -> Tasks] /\ \A j \in Keys \ {k} : task'[j] = task[j]
        /\ task'[k].receipt = task[k].receipt
        /\ task[k].pc \in {"fetch", "succeeded", "failed"}
        /\ task'[k].pc \in {"fetch", "succeeded", "failed"}
    BY <1>t, <1>17, GotoFacts DEF SendEof, TaskPCs
  <2>2. /\ UNCHANGED <<work, held, page, current, delivery, remaining, successes, in_progress, received>>
        /\ fetched \subseteq fetched' /\ skipped \subseteq skipped'
    BY <1>17 DEF SendEof, taskQuiet, discoveryVars, trackerVars, streamVars
  <2>3. \A q \in Receipts : UNCHANGED Places(q) /\ DistinctFor(work, q)'
    BY ONLY <2>1, <2>2, SameTaskPlaces, Core, k \in Keys
  <2> QED BY ONLY <2>2, <2>3, Core, QuietReceipts, r \in Receipts
<1>18. ASSUME NEW k \in Keys, FetchFails(k) PROVE ReceiptInv(r)'
  <2>1. /\ task' \in [Keys -> Tasks] /\ \A j \in Keys \ {k} : task'[j] = task[j]
        /\ task'[k].receipt = task[k].receipt
        /\ task[k].pc \in {"fetch", "succeeded", "failed"}
        /\ task'[k].pc \in {"fetch", "succeeded", "failed"}
    BY <1>t, <1>18, RetryFacts DEF FetchFails, TaskPCs
  <2>2. /\ UNCHANGED <<work, held, page, current, delivery, remaining, successes, in_progress, received>>
        /\ fetched \subseteq fetched' /\ skipped \subseteq skipped'
    BY <1>18 DEF FetchFails, taskQuiet, discoveryVars, trackerVars, streamVars
  <2>3. \A q \in Receipts : UNCHANGED Places(q) /\ DistinctFor(work, q)'
    BY ONLY <2>1, <2>2, SameTaskPlaces, Core, k \in Keys
  <2> QED BY ONLY <2>2, <2>3, Core, QuietReceipts, r \in Receipts
<1>19. ASSUME NEW k \in Keys, ChannelClosed(k) PROVE ReceiptInv(r)'
  <2>1. /\ task' \in [Keys -> Tasks] /\ \A j \in Keys \ {k} : task'[j] = task[j]
        /\ task'[k].receipt = task[k].receipt
        /\ task[k].pc \in {"fetch", "succeeded", "failed"}
        /\ task'[k].pc \in {"fetch", "succeeded", "failed"}
    BY <1>t, <1>19, GotoFacts, RetryFacts DEF ChannelClosed, TaskPCs
  <2>2. /\ UNCHANGED <<work, held, page, current, delivery, remaining, successes, in_progress, received>>
        /\ fetched \subseteq fetched' /\ skipped \subseteq skipped'
    BY <1>19 DEF ChannelClosed, taskQuiet, discoveryVars, trackerVars, streamVars
  <2>3. \A q \in Receipts : UNCHANGED Places(q) /\ DistinctFor(work, q)'
    BY ONLY <2>1, <2>2, SameTaskPlaces, Core, k \in Keys
  <2> QED BY ONLY <2>2, <2>3, Core, QuietReceipts, r \in Receipts
<1>20. ASSUME NEW k \in Keys, Report(k) PROVE ReceiptInv(r)'
  BY <1>20, ReportStep
<1>21. ASSUME NEW k \in Keys, Settle(k) PROVE ReceiptInv(r)'
  BY <1>21, SettleStep
<1>22. ASSUME NEW k \in Keys, DeleteAfterFetch(k) PROVE ReceiptInv(r)'
  <2>1. /\ task' \in [Keys -> Tasks] /\ \A j \in Keys \ {k} : task'[j] = task[j]
        /\ task[k].pc \in {"delete", "unlock"} /\ task'[k].pc \in {"unlock", "none"}
    BY <1>t, <1>22, GotoFacts DEF DeleteAfterFetch, TaskPCs
  <2>2. /\ UNCHANGED <<work, held, page, current, delivery, remaining, successes, in_progress, received>>
        /\ fetched \subseteq fetched' /\ skipped \subseteq skipped'
    BY <1>22 DEF DeleteAfterFetch, taskQuiet, discoveryVars, trackerVars, streamVars
  <2>3. \A q \in Receipts : UNCHANGED Places(q) /\ DistinctFor(work, q)'
    BY ONLY <2>1, <2>2, SameTaskPlaces, Core, k \in Keys
  <2> QED BY ONLY <2>2, <2>3, Core, QuietReceipts, r \in Receipts
<1>23. ASSUME NEW k \in Keys, Unlock(k) PROVE ReceiptInv(r)'
  <2>1. /\ task' \in [Keys -> Tasks] /\ \A j \in Keys \ {k} : task'[j] = task[j]
        /\ task[k].pc \in {"delete", "unlock"} /\ task'[k].pc \in {"unlock", "none"}
    BY <1>t, <1>23, ChunkFacts DEF Unlock, TaskPCs
  <2>2. /\ UNCHANGED <<work, held, page, current, delivery, remaining, successes, in_progress, received>>
        /\ fetched \subseteq fetched' /\ skipped \subseteq skipped'
    BY <1>23 DEF Unlock, taskQuiet, discoveryVars, trackerVars, streamVars
  <2>3. \A q \in Receipts : UNCHANGED Places(q) /\ DistinctFor(work, q)'
    BY ONLY <2>1, <2>2, SameTaskPlaces, Core, k \in Keys
  <2> QED BY ONLY <2>2, <2>3, Core, QuietReceipts, r \in Receipts
<1>24. ASSUME Poll PROVE ReceiptInv(r)'
  <2>1. /\ UNCHANGED <<work, held, task, current, delivery, remaining, successes, in_progress, received>>
        /\ UNCHANGED page \/ current = None
        /\ fetched \subseteq fetched' /\ skipped \subseteq skipped'
    BY <1>t, <1>24 DEF Poll, queueVars, discoveryVars, trackerVars, fetchVars, streamVars
  <2>2. \A q \in Receipts : UNCHANGED Places(q) /\ DistinctFor(work, q)'
    BY <2>1, SamePlaces
  <2> QED BY ONLY <2>1, <2>2, Core, QuietReceipts, r \in Receipts
<1>25. ASSUME Drop PROVE ReceiptInv(r)'
  <2>1. /\ UNCHANGED <<work, held, task, current, delivery, remaining, successes, in_progress, received>>
        /\ UNCHANGED page \/ current = None
        /\ fetched \subseteq fetched' /\ skipped \subseteq skipped'
    BY <1>t, <1>25 DEF Drop, queueVars, discoveryVars, trackerVars, fetchVars, streamVars
  <2>2. \A q \in Receipts : UNCHANGED Places(q) /\ DistinctFor(work, q)'
    BY <2>1, SamePlaces
  <2> QED BY ONLY <2>1, <2>2, Core, QuietReceipts, r \in Receipts
<1>26. ASSUME UNCHANGED vars PROVE ReceiptInv(r)'
  <2>1. /\ UNCHANGED <<work, held, task, current, delivery, remaining, successes, in_progress, received>>
        /\ UNCHANGED page \/ current = None
        /\ fetched \subseteq fetched' /\ skipped \subseteq skipped'
    BY <1>t, <1>26 DEF vars, queueVars, discoveryVars, trackerVars, fetchVars, streamVars
  <2>2. \A q \in Receipts : UNCHANGED Places(q) /\ DistinctFor(work, q)'
    BY <2>1, SamePlaces
  <2> QED BY ONLY <2>1, <2>2, Core, QuietReceipts, r \in Receipts
<1> QED BY <1>1, <1>2, <1>3, <1>4, <1>5, <1>6, <1>7, <1>8, <1>9, <1>10, <1>11, <1>12, <1>13, <1>14,
  <1>15, <1>16, <1>17, <1>18, <1>19, <1>20, <1>21, <1>22, <1>23, <1>24, <1>25, <1>26
  DEF Next, FetchTask, Discovery, Orchestrator

(* Where the discovery is: a page is taken up only when the last one is    *)
(* done with.                                                              *)
LEMMA PageStep ==
  ASSUME Core, [Next]_vars
  PROVE  PageState' /\ Distinct(page)'
<1>t. /\ PageState /\ Distinct(page) /\ page \in Seq(Keys) /\ mode \in {"list", "sqs"}
      /\ dpc \in {"list", "page", "permit"} /\ current \in Receipts \cup {None}
  BY S3Assumptions DEF Core, S3Types, ServiceTypes, DiscoveryTypes, RecordInv
<1>0. ASSUME UNCHANGED <<mode, dpc, page, current>> PROVE PageState' /\ Distinct(page)'
  BY <1>t, <1>0 DEF PageState, Distinct
<1>1. ASSUME NEW k \in Keys, PutObject(k) PROVE PageState' /\ Distinct(page)'
  BY <1>0, <1>1 DEF PutObject, discoveryVars
<1>2. ASSUME NEW m \in Messages, Notify(m) PROVE PageState' /\ Distinct(page)'
  BY <1>0, <1>2 DEF Notify, discoveryVars
<1>3. ASSUME NEW m \in Messages, Expire(m) PROVE PageState' /\ Distinct(page)'
  BY <1>0, <1>3 DEF Expire, discoveryVars
<1>4. ASSUME NEW ms \in SUBSET Messages, ReceiveMessages(ms) PROVE PageState' /\ Distinct(page)'
  BY <1>0, <1>4 DEF ReceiveMessages, discoveryVars
<1>5. ASSUME NEW r \in Receipts, TakeMessage(r) PROVE PageState' /\ Distinct(page)'
  <2>1. delivery[r] \in Messages /\ mode = "sqs" /\ dpc = "list" /\ mode' = mode
    BY <1>5 DEF Core, RecordInv, ReceiptInv, ReceivedFresh, TakeMessage
  <2>2. CASE delivery[r] = {}
    BY <1>0, <1>5, <2>2 DEF TakeMessage
  <2>3. CASE delivery[r] # {}
    <3>1. delivery[r] \in SUBSET Keys /\ IsFiniteSet(delivery[r])
      BY <2>1, S3Assumptions
    <3>2. dpc' = "page" /\ current' = r /\ page' = Ascending(delivery[r])
      BY <1>5, <2>3 DEF TakeMessage
    <3>3. Distinct(page') /\ Members(page') = delivery[r]
      BY <3>1, <3>2, AscendingFacts
    <3>4. page' # <<>>
      <4> SUFFICES ASSUME page' = <<>> PROVE FALSE
        OBVIOUS
      <4>1. Members(page') = {}
        BY DEF Members
      <4> QED BY <2>3, <3>3, <4>1
    <3>5. PageState'
      BY <2>1, <3>2, <3>4, Bounds DEF PageState
    <3> QED BY <3>3, <3>5 DEF Distinct
  <2> QED BY <2>2, <2>3
<1>6. ASSUME SendRecord PROVE PageState' /\ Distinct(page)'
  <2>1. page # <<>> /\ mode = "sqs" /\ current # None
    BY <1>t, <1>6 DEF PageState, SendRecord
  <2>2. /\ page' = Tail(page) /\ dpc' = (IF Len(page) = 1 THEN "list" ELSE "page")
        /\ current' = (IF Len(page) = 1 THEN None ELSE current) /\ mode' = mode
    BY <1>6 DEF SendRecord
  <2>3. Distinct(page') /\ (Len(page) # 1 => page' # <<>>)
    BY <1>t, <2>1, <2>2, PageTail
  <2>4. Len(page) = 1 => page' = <<>>
    BY <1>t, <2>2
  <2>5. PageState'
    BY <2>1, <2>2, <2>3, <2>4 DEF PageState
  <2> QED BY <2>3, <2>5 DEF Distinct
<1>7. ASSUME ListObjects PROVE PageState' /\ Distinct(page)'
  <2> DEFINE from == IF more = 0 THEN start_after ELSE more
             S == {k \in bucket : k > from}
             keys == Ascending(S)
             n == IF Len(keys) < PageSize THEN Len(keys) ELSE PageSize
  <2>1. /\ page' = SubSeq(keys, 1, n) /\ dpc' = "page" /\ mode = "list" /\ UNCHANGED <<mode, current>>
    BY <1>7 DEF ListObjects
  <2>2. S \in SUBSET Keys /\ IsFiniteSet(S)
    BY FS_Subset DEF Core, S3Types, ServiceTypes
  <2>3. keys \in Seq(Keys) /\ Distinct(keys)
    BY <2>2, AscendingFacts
  <2> HIDE DEF keys
  <2>4. n \in 0 .. Len(keys)
    BY <2>3, Bounds
  <2> HIDE DEF n
  <2>5. Distinct(page')
    BY <2>1, <2>3, <2>4 DEF Distinct
  <2>6. PageState'
    BY <1>t, <2>1 DEF PageState
  <2> QED BY <2>5, <2>6 DEF Distinct
<1>8. ASSUME ListFails PROVE PageState' /\ Distinct(page)'
  BY <1>0, <1>8 DEF ListFails, discoveryVars
<1>9. ASSUME TakeKey PROVE PageState' /\ Distinct(page)'
  <2>1. /\ mode = "list" /\ dpc = "page" /\ page # <<>> /\ UNCHANGED <<mode, current>>
        /\ \/ page' = Tail(page) /\ UNCHANGED dpc
           \/ dpc' = "permit" /\ UNCHANGED page
    BY <1>9 DEF TakeKey
  <2>2. Distinct(Tail(page))
    BY <1>t, <2>1, PageTail
  <2>3. Distinct(page')
    BY <1>t, <2>1, <2>2 DEF Distinct
  <2>4. PageState'
    BY <1>t, <2>1 DEF PageState
  <2> QED BY <2>3, <2>4 DEF Distinct
<1>10. ASSUME DrainCompletion PROVE PageState' /\ Distinct(page)'
  BY <1>0, <1>10 DEF DrainCompletion, discoveryVars
<1>11. ASSUME SendKey PROVE PageState' /\ Distinct(page)'
  <2>1. /\ mode = "list" /\ dpc = "permit" /\ UNCHANGED <<mode, current>>
        /\ page' = Tail(page) /\ dpc' = "page"
    BY <1>11 DEF SendKey
  <2>2. Distinct(page')
    BY <1>t, <2>1, PageTail DEF PageState
  <2>3. PageState'
    BY <1>t, <2>1 DEF PageState
  <2> QED BY <2>2, <2>3 DEF Distinct
<1>12. ASSUME EndPage PROVE PageState' /\ Distinct(page)'
  BY <1>t, <1>12 DEF EndPage, PageState, Distinct
<1>13. ASSUME SkipDuplicate PROVE PageState' /\ Distinct(page)'
  BY <1>0, <1>13 DEF SkipDuplicate, discoveryVars
<1>14. ASSUME AcceptWork PROVE PageState' /\ Distinct(page)'
  BY <1>0, <1>14 DEF AcceptWork, discoveryVars
<1>15. ASSUME SpawnFetch PROVE PageState' /\ Distinct(page)'
  BY <1>0, <1>15 DEF SpawnFetch, discoveryVars
<1>16. ASSUME NEW k \in Keys, SendChunk(k) PROVE PageState' /\ Distinct(page)'
  BY <1>0, <1>16 DEF SendChunk, taskQuiet, discoveryVars
<1>17. ASSUME NEW k \in Keys, SendEof(k) PROVE PageState' /\ Distinct(page)'
  BY <1>0, <1>17 DEF SendEof, taskQuiet, discoveryVars
<1>18. ASSUME NEW k \in Keys, FetchFails(k) PROVE PageState' /\ Distinct(page)'
  BY <1>0, <1>18 DEF FetchFails, taskQuiet, discoveryVars
<1>19. ASSUME NEW k \in Keys, ChannelClosed(k) PROVE PageState' /\ Distinct(page)'
  BY <1>0, <1>19 DEF ChannelClosed, taskQuiet, discoveryVars
<1>20. ASSUME NEW k \in Keys, Report(k) PROVE PageState' /\ Distinct(page)'
  BY <1>0, <1>20 DEF Report, taskQuiet, discoveryVars
<1>21. ASSUME NEW k \in Keys, Settle(k) PROVE PageState' /\ Distinct(page)'
  BY <1>0, <1>21 DEF Settle, taskQuiet, discoveryVars
<1>22. ASSUME NEW k \in Keys, DeleteAfterFetch(k) PROVE PageState' /\ Distinct(page)'
  BY <1>0, <1>22 DEF DeleteAfterFetch, taskQuiet, discoveryVars
<1>23. ASSUME NEW k \in Keys, Unlock(k) PROVE PageState' /\ Distinct(page)'
  BY <1>0, <1>23 DEF Unlock, taskQuiet, discoveryVars
<1>24. ASSUME Poll PROVE PageState' /\ Distinct(page)'
  BY <1>0, <1>24 DEF Poll, discoveryVars
<1>25. ASSUME Drop PROVE PageState' /\ Distinct(page)'
  BY <1>0, <1>25 DEF Drop, discoveryVars
<1>26. ASSUME UNCHANGED vars PROVE PageState' /\ Distinct(page)'
  BY <1>0, <1>26 DEF vars, discoveryVars
<1> QED BY <1>1, <1>2, <1>3, <1>4, <1>5, <1>6, <1>7, <1>8, <1>9, <1>10, <1>11, <1>12, <1>13, <1>14,
  <1>15, <1>16, <1>17, <1>18, <1>19, <1>20, <1>21, <1>22, <1>23, <1>24, <1>25, <1>26
  DEF Next, FetchTask, Discovery, Orchestrator

(* A message is deleted only by a task, or a skipped duplicate, that found *)
(* every record of it settled.                                             *)
LEMMA DeletedStep ==
  ASSUME Core, [Next]_vars
  PROVE  TasksTell' /\ DeletedIsSettled'
<1>t. /\ TasksTell /\ DeletedIsSettled /\ task \in [Keys -> Tasks] /\ delivery \in [Receipts -> Messages \cup {None}]
      /\ queue \in [Messages -> {"unsent", "visible", "hidden", "deleted"}]
  BY DEF Core, S3Types, ServiceTypes, FetchTypes, RecordInv
<1>0. ASSUME UNCHANGED <<task, delivery>>, fetched \subseteq fetched', skipped \subseteq skipped' PROVE TasksTell'
  BY <1>t, <1>0 DEF TasksTell, Settled
<1>s. ASSUME fetched \subseteq fetched', skipped \subseteq skipped',
             \A m \in Messages : queue'[m] = "deleted" => queue[m] = "deleted"
      PROVE  DeletedIsSettled'
  BY <1>t, <1>s DEF DeletedIsSettled
<1>d. ASSUME NEW r \in Receipts, DeleteMessage(r), delivery[r] \in Messages, delivery[r] \subseteq Settled',
             fetched \subseteq fetched', skipped \subseteq skipped'
      PROVE  DeletedIsSettled'
  BY <1>t, <1>d DEF DeletedIsSettled, DeleteMessage, Settled
<1>1. ASSUME NEW k \in Keys, PutObject(k) PROVE TasksTell' /\ DeletedIsSettled'
  <2>1. /\ UNCHANGED <<task, delivery>> /\ fetched \subseteq fetched' /\ skipped \subseteq skipped'
        /\ \A p \in Messages : queue'[p] = "deleted" => queue[p] = "deleted"
    BY <1>t, <1>1 DEF PutObject, queueVars, fetchVars, streamVars
  <2> QED BY <1>0, <1>s, <2>1
<1>2. ASSUME NEW m \in Messages, Notify(m) PROVE TasksTell' /\ DeletedIsSettled'
  <2>1. /\ UNCHANGED <<task, delivery>> /\ fetched \subseteq fetched' /\ skipped \subseteq skipped'
        /\ \A p \in Messages : queue'[p] = "deleted" => queue[p] = "deleted"
    BY <1>t, <1>2 DEF Notify, queueVars, fetchVars, streamVars
  <2> QED BY <1>0, <1>s, <2>1
<1>3. ASSUME NEW m \in Messages, Expire(m) PROVE TasksTell' /\ DeletedIsSettled'
  <2>1. /\ UNCHANGED <<task, delivery>> /\ fetched \subseteq fetched' /\ skipped \subseteq skipped'
        /\ \A p \in Messages : queue'[p] = "deleted" => queue[p] = "deleted"
    BY <1>t, <1>3 DEF Expire, queueVars, fetchVars, streamVars
  <2> QED BY <1>0, <1>s, <2>1
<1>4. ASSUME NEW ms \in SUBSET Messages, ReceiveMessages(ms) PROVE TasksTell' /\ DeletedIsSettled'
  <2>1. PICK rs \in SUBSET {q \in Receipts : ~Busy(q)} : \E f \in [rs -> ms] :
          delivery' = [q \in Receipts |-> IF q \in rs THEN f[q] ELSE delivery[q]]
    BY <1>4 DEF ReceiveMessages
  <2>2. /\ UNCHANGED <<task, fetched, skipped>>
        /\ queue' = [m \in Messages |-> IF m \in ms THEN "hidden" ELSE queue[m]]
    BY <1>4 DEF ReceiveMessages, fetchVars, streamVars
  <2>3. DeletedIsSettled'
    BY <1>s, <2>2
  <2>4. ASSUME NEW k \in Keys, task[k].receipt \in Receipts
        PROVE  delivery'[task[k].receipt] = delivery[task[k].receipt]
    BY <2>1, <2>4 DEF Busy
  <2>5. TasksTell'
    BY <1>t, <2>2, <2>4 DEF TasksTell, Settled
  <2> QED BY <2>3, <2>5
<1>5. ASSUME NEW r \in Receipts, TakeMessage(r) PROVE TasksTell' /\ DeletedIsSettled'
  <2>1. UNCHANGED <<task, delivery, fetched, skipped>> /\ delivery[r] \in Messages
    BY <1>5 DEF TakeMessage, fetchVars, streamVars, Core, RecordInv, ReceiptInv, ReceivedFresh
  <2>2. CASE delivery[r] = {}
    <3>1. DeleteMessage(r) /\ delivery[r] \subseteq Settled'
      BY <1>5, <2>2 DEF TakeMessage
    <3> QED BY <1>0, <1>d, <2>1, <3>1
  <2>3. CASE delivery[r] # {}
    BY <1>0, <1>s, <1>5, <2>1, <2>3 DEF TakeMessage
  <2> QED BY <2>2, <2>3
<1>6. ASSUME SendRecord PROVE TasksTell' /\ DeletedIsSettled'
  <2>1. /\ UNCHANGED <<task, delivery>> /\ fetched \subseteq fetched' /\ skipped \subseteq skipped'
        /\ \A p \in Messages : queue'[p] = "deleted" => queue[p] = "deleted"
    BY <1>t, <1>6 DEF SendRecord, queueVars, fetchVars, streamVars
  <2> QED BY <1>0, <1>s, <2>1
<1>7. ASSUME ListObjects PROVE TasksTell' /\ DeletedIsSettled'
  <2>1. /\ UNCHANGED <<task, delivery>> /\ fetched \subseteq fetched' /\ skipped \subseteq skipped'
        /\ \A p \in Messages : queue'[p] = "deleted" => queue[p] = "deleted"
    BY <1>t, <1>7 DEF ListObjects, queueVars, fetchVars, streamVars
  <2> QED BY <1>0, <1>s, <2>1
<1>8. ASSUME ListFails PROVE TasksTell' /\ DeletedIsSettled'
  <2>1. /\ UNCHANGED <<task, delivery>> /\ fetched \subseteq fetched' /\ skipped \subseteq skipped'
        /\ \A p \in Messages : queue'[p] = "deleted" => queue[p] = "deleted"
    BY <1>t, <1>8 DEF ListFails, queueVars, fetchVars, streamVars
  <2> QED BY <1>0, <1>s, <2>1
<1>9. ASSUME TakeKey PROVE TasksTell' /\ DeletedIsSettled'
  <2>1. /\ UNCHANGED <<task, delivery>> /\ fetched \subseteq fetched' /\ skipped \subseteq skipped'
        /\ \A p \in Messages : queue'[p] = "deleted" => queue[p] = "deleted"
    BY <1>t, <1>9 DEF TakeKey, queueVars, fetchVars, streamVars
  <2> QED BY <1>0, <1>s, <2>1
<1>10. ASSUME DrainCompletion PROVE TasksTell' /\ DeletedIsSettled'
  <2>1. /\ UNCHANGED <<task, delivery>> /\ fetched \subseteq fetched' /\ skipped \subseteq skipped'
        /\ \A p \in Messages : queue'[p] = "deleted" => queue[p] = "deleted"
    BY <1>t, <1>10 DEF DrainCompletion, queueVars, fetchVars, streamVars
  <2> QED BY <1>0, <1>s, <2>1
<1>11. ASSUME SendKey PROVE TasksTell' /\ DeletedIsSettled'
  <2>1. /\ UNCHANGED <<task, delivery>> /\ fetched \subseteq fetched' /\ skipped \subseteq skipped'
        /\ \A p \in Messages : queue'[p] = "deleted" => queue[p] = "deleted"
    BY <1>t, <1>11 DEF SendKey, queueVars, fetchVars, streamVars
  <2> QED BY <1>0, <1>s, <2>1
<1>12. ASSUME EndPage PROVE TasksTell' /\ DeletedIsSettled'
  <2>1. /\ UNCHANGED <<task, delivery>> /\ fetched \subseteq fetched' /\ skipped \subseteq skipped'
        /\ \A p \in Messages : queue'[p] = "deleted" => queue[p] = "deleted"
    BY <1>t, <1>12 DEF EndPage, queueVars, fetchVars, streamVars
  <2> QED BY <1>0, <1>s, <2>1
<1>13. ASSUME SkipDuplicate PROVE TasksTell' /\ DeletedIsSettled'
  <2> DEFINE r == Head(work).receipt
  <2>1. UNCHANGED <<task, delivery, fetched>> /\ skipped \subseteq skipped' /\ work # <<>>
    BY <1>13 DEF SkipDuplicate, fetchVars, streamVars
  <2>2. TasksTell'
    BY <1>0, <2>1
  <2>3. r \in Receipts \cup {None}
    BY <2>1, RecordsOnWay DEF Works
  <2>4. CASE r # None /\ Finished(r) /\ AllSucceeded(r, successes[r] + 1)
    <3>1. DeleteMessage(r) /\ r \in Receipts
      BY <1>13, <2>3, <2>4 DEF SkipDuplicate
    <3>2. delivery[r] \subseteq Settled' /\ delivery[r] \in Messages
      BY <1>13, <2>1, <2>4, <3>1, SkipDuplicateStep, RecordsOnWay, SomeRemain
    <3> QED BY <1>d, <2>1, <2>2, <3>1, <3>2
  <2>5. CASE ~(r # None /\ Finished(r) /\ AllSucceeded(r, successes[r] + 1))
    <3>1. UNCHANGED queue
      BY <1>13, <2>5 DEF SkipDuplicate
    <3> QED BY <1>s, <2>1, <2>2, <3>1
  <2> QED BY <2>4, <2>5
<1>14. ASSUME AcceptWork PROVE TasksTell' /\ DeletedIsSettled'
  <2>1. /\ UNCHANGED <<task, delivery>> /\ fetched \subseteq fetched' /\ skipped \subseteq skipped'
        /\ \A p \in Messages : queue'[p] = "deleted" => queue[p] = "deleted"
    BY <1>t, <1>14 DEF AcceptWork, queueVars, fetchVars, streamVars
  <2> QED BY <1>0, <1>s, <2>1
<1>15. ASSUME SpawnFetch PROVE TasksTell' /\ DeletedIsSettled'
  <2> DEFINE t == [pc |-> "fetch", receipt |-> held.receipt, attempt |-> 1, sent |-> 0]
  <2>1. /\ UNCHANGED <<delivery, fetched, skipped, queue>> /\ held.key \in Keys
        /\ task' = [task EXCEPT ![held.key] = t]
    BY <1>15 DEF SpawnFetch, queueVars, streamVars, Core, S3Types, FetchTypes, Works
  <2>2. DeletedIsSettled'
    BY <1>s, <2>1
  <2>3. t.pc = "fetch"
    OBVIOUS
  <2> HIDE DEF t
  <2>4. TasksTell'
    BY <1>t, <2>1, <2>3 DEF TasksTell, Settled
  <2> QED BY <2>2, <2>4
<1>16. ASSUME NEW k \in Keys, SendChunk(k) PROVE TasksTell' /\ DeletedIsSettled'
  <2>1. /\ \A j \in Keys \ {k} : task'[j] = task[j]
        /\ task'[k].pc = "fetch"
    BY <1>t, <1>16, ChunkFacts DEF SendChunk, TaskPCs
  <2>2. UNCHANGED <<delivery, skipped, queue>> /\ fetched \subseteq fetched'
    BY <1>16 DEF SendChunk, taskQuiet, streamVars
  <2>3. DeletedIsSettled'
    BY <1>s, <2>2
  <2>4. TasksTell'
    BY <1>t, <2>1, <2>2 DEF TasksTell, Settled
  <2> QED BY <2>3, <2>4
<1>17. ASSUME NEW k \in Keys, SendEof(k) PROVE TasksTell' /\ DeletedIsSettled'
  <2>1. /\ \A j \in Keys \ {k} : task'[j] = task[j]
        /\ task'[k].pc = "succeeded" /\ k \in fetched'
    BY <1>t, <1>17, GotoFacts DEF SendEof, TaskPCs
  <2>2. UNCHANGED <<delivery, skipped, queue>> /\ fetched \subseteq fetched'
    BY <1>17 DEF SendEof, taskQuiet, streamVars
  <2>3. DeletedIsSettled'
    BY <1>s, <2>2
  <2>4. TasksTell'
    BY <1>t, <2>1, <2>2 DEF TasksTell, Settled
  <2> QED BY <2>3, <2>4
<1>18. ASSUME NEW k \in Keys, FetchFails(k) PROVE TasksTell' /\ DeletedIsSettled'
  <2>1. /\ \A j \in Keys \ {k} : task'[j] = task[j]
        /\ task'[k].pc \in {"fetch", "failed"}
    BY <1>t, <1>18, RetryFacts DEF FetchFails, TaskPCs
  <2>2. UNCHANGED <<delivery, skipped, queue>> /\ fetched \subseteq fetched'
    BY <1>18 DEF FetchFails, taskQuiet, streamVars
  <2>3. DeletedIsSettled'
    BY <1>s, <2>2
  <2>4. TasksTell'
    BY <1>t, <2>1, <2>2 DEF TasksTell, Settled
  <2> QED BY <2>3, <2>4
<1>19. ASSUME NEW k \in Keys, ChannelClosed(k) PROVE TasksTell' /\ DeletedIsSettled'
  <2>1. /\ \A j \in Keys \ {k} : task'[j] = task[j]
        /\ task'[k].pc \in {"fetch", "failed", "succeeded"}
        /\ (task'[k].pc = "succeeded" => k \in fetched')
    BY <1>t, <1>19, GotoFacts, RetryFacts DEF ChannelClosed, TaskPCs
  <2>2. UNCHANGED <<delivery, skipped, queue>> /\ fetched \subseteq fetched'
    BY <1>19 DEF ChannelClosed, taskQuiet, streamVars
  <2>3. DeletedIsSettled'
    BY <1>s, <2>2
  <2>4. TasksTell'
    BY <1>t, <2>1, <2>2 DEF TasksTell, Settled
  <2> QED BY <2>3, <2>4
<1>20. ASSUME NEW k \in Keys, Report(k) PROVE TasksTell' /\ DeletedIsSettled'
  <2>1. /\ \A j \in Keys \ {k} : task'[j] = task[j]
        /\ task'[k].pc = "settle"
    BY <1>t, <1>20, GotoFacts DEF Report, TaskPCs
  <2>2. UNCHANGED <<delivery, skipped, queue>> /\ fetched \subseteq fetched'
    BY <1>20 DEF Report, taskQuiet, streamVars
  <2>3. DeletedIsSettled'
    BY <1>s, <2>2
  <2>4. TasksTell'
    BY <1>t, <2>1, <2>2 DEF TasksTell, Settled
  <2> QED BY <2>3, <2>4
<1>21. ASSUME NEW k \in Keys, Settle(k) PROVE TasksTell' /\ DeletedIsSettled'
  <2> DEFINE r == task[k].receipt
             all == r # None /\ Finished(r) /\ AllSucceeded(r, successes[r])
  <2>1. UNCHANGED <<delivery, skipped, queue, fetched>> /\ r \in Receipts \cup {None}
    BY <1>t, <1>21 DEF Settle, taskQuiet, streamVars, Tasks
  <2>2. DeletedIsSettled'
    BY <1>s, <2>1
  <2>3. Goto(k, IF all THEN "delete" ELSE "unlock")
    BY <1>21 DEF Settle
  <2>4. all => delivery[r] \in Messages /\ delivery[r] \subseteq Settled /\ r \in Receipts
    BY <1>21, <2>1, SettleStep
  <2> HIDE DEF all
  <2>5. /\ \A j \in Keys \ {k} : task'[j] = task[j]
        /\ task'[k].pc = (IF all THEN "delete" ELSE "unlock") /\ task'[k].receipt = r
    BY <1>t, <2>3, GotoFacts DEF TaskPCs
  <2> HIDE DEF r
  <2>6. TasksTell'
    BY <1>t, <2>1, <2>4, <2>5 DEF TasksTell, Settled
  <2> QED BY <2>2, <2>6
<1>22. ASSUME NEW k \in Keys, DeleteAfterFetch(k) PROVE TasksTell' /\ DeletedIsSettled'
  <2> DEFINE r == task[k].receipt
  <2>1. /\ \A j \in Keys \ {k} : task'[j] = task[j]
        /\ task'[k].pc = "unlock"
    BY <1>t, <1>22, GotoFacts DEF DeleteAfterFetch, TaskPCs
  <2>2. UNCHANGED <<delivery, skipped, fetched>> /\ DeleteMessage(r) /\ task[k].pc = "delete"
    BY <1>22 DEF DeleteAfterFetch, taskQuiet, streamVars
  <2>3. r \in Receipts /\ delivery[r] \in Messages /\ delivery[r] \subseteq Settled'
    BY <1>t, <2>2 DEF TasksTell, Settled
  <2>4. DeletedIsSettled'
    BY <1>d, <2>2, <2>3
  <2>5. TasksTell'
    BY <1>t, <2>1, <2>2 DEF TasksTell, Settled
  <2> QED BY <2>4, <2>5
<1>23. ASSUME NEW k \in Keys, Unlock(k) PROVE TasksTell' /\ DeletedIsSettled'
  <2>1. /\ \A j \in Keys \ {k} : task'[j] = task[j]
        /\ task'[k].pc = "none"
    BY <1>t, <1>23, ChunkFacts DEF Unlock, TaskPCs
  <2>2. UNCHANGED <<delivery, skipped, queue>> /\ fetched \subseteq fetched'
    BY <1>23 DEF Unlock, taskQuiet, streamVars
  <2>3. DeletedIsSettled'
    BY <1>s, <2>2
  <2>4. TasksTell'
    BY <1>t, <2>1, <2>2 DEF TasksTell, Settled
  <2> QED BY <2>3, <2>4
<1>24. ASSUME Poll PROVE TasksTell' /\ DeletedIsSettled'
  <2>1. /\ UNCHANGED <<task, delivery>> /\ fetched \subseteq fetched' /\ skipped \subseteq skipped'
        /\ \A p \in Messages : queue'[p] = "deleted" => queue[p] = "deleted"
    BY <1>t, <1>24 DEF Poll, queueVars, fetchVars, streamVars
  <2> QED BY <1>0, <1>s, <2>1
<1>25. ASSUME Drop PROVE TasksTell' /\ DeletedIsSettled'
  <2>1. /\ UNCHANGED <<task, delivery>> /\ fetched \subseteq fetched' /\ skipped \subseteq skipped'
        /\ \A p \in Messages : queue'[p] = "deleted" => queue[p] = "deleted"
    BY <1>t, <1>25 DEF Drop, queueVars, fetchVars, streamVars
  <2> QED BY <1>0, <1>s, <2>1
<1>26. ASSUME UNCHANGED vars PROVE TasksTell' /\ DeletedIsSettled'
  <2>1. /\ UNCHANGED <<task, delivery>> /\ fetched \subseteq fetched' /\ skipped \subseteq skipped'
        /\ \A p \in Messages : queue'[p] = "deleted" => queue[p] = "deleted"
    BY <1>t, <1>26 DEF vars, queueVars, fetchVars, streamVars
  <2> QED BY <1>0, <1>s, <2>1
<1> QED BY <1>1, <1>2, <1>3, <1>4, <1>5, <1>6, <1>7, <1>8, <1>9, <1>10, <1>11, <1>12, <1>13, <1>14,
  <1>15, <1>16, <1>17, <1>18, <1>19, <1>20, <1>21, <1>22, <1>23, <1>24, <1>25, <1>26
  DEF Next, FetchTask, Discovery, Orchestrator

-----------------------------------------------------------------------------
(* The cursor of the list mode.                                            *)

(* The steps that leave the discovery alone; objects may get done.         *)
LEMMA ListFrame ==
  ASSUME ListInv, UNCHANGED <<mode, bucket, dpc, page, more, start_after, dispatched, in_flight>>,
         completed_set' \subseteq Done', Done \subseteq Done',
         \A i \in DOMAIN completed' : completed'[i].success = TRUE => completed'[i].key \in fetched'
  PROVE  ListInv'
<1>1. CASE mode = "list"
  <2>1. InBucket' /\ Completing'
    BY <1>1 DEF ListInv, InBucket, Completing, Known, Members
  <2>2. CursorDone' /\ DispatchOrder' /\ DispatchedKnown'
    BY <1>1 DEF ListInv, CursorDone, DispatchOrder, DispatchedKnown, Known, Members
  <2>3. PageKnown' /\ MoreKnown'
    BY <1>1 DEF ListInv, PageKnown, MoreKnown, Known, Members
  <2> QED BY <1>1, <2>1, <2>2, <2>3 DEF ListInv
<1>2. CASE mode # "list"
  BY <1>2 DEF ListInv
<1> QED BY <1>1, <1>2

(* The completed channel tells the truth while nothing is added to it.     *)
LEMMA ListQuiet ==
  ASSUME ListInv, UNCHANGED <<mode, bucket, dpc, page, more, start_after, dispatched, in_flight,
                              completed_set, completed, given_up>>,
         fetched \subseteq fetched'
  PROVE  ListInv'
<1>1. CASE mode = "list"
  <2>1. Done \subseteq Done' /\ completed_set' \subseteq Done'
    BY <1>1 DEF ListInv, Completing, Done
  <2>2. \A i \in DOMAIN completed' : completed'[i].success = TRUE => completed'[i].key \in fetched'
    BY <1>1 DEF ListInv, Completing
  <2> QED BY ONLY <2>1, <2>2, ListInv, ListFrame,
         UNCHANGED <<mode, bucket, dpc, page, more, start_after, dispatched, in_flight>>
<1>2. CASE mode # "list"
  BY <1>2 DEF ListInv
<1> QED BY <1>1, <1>2

(* The SQS mode has no cursor.                                             *)
LEMMA SqsFrame ==
  ASSUME ListInv, mode = "sqs", UNCHANGED <<mode, start_after>>
  PROVE  ListInv'
BY DEF ListInv

(* The first key of the page is known: the rest of the page needs only     *)
(* what is left.                                                           *)
LEMMA PageShift ==
  ASSUME page \in Seq(Keys), page # <<>>, page' = Tail(page), PageKnown, MoreKnown,
         UNCHANGED <<bucket, more, dispatched, fetched, given_up>>, Known(page[1])
  PROVE  PageKnown' /\ MoreKnown'
<1>1. \A j : Known(j)' <=> Known(j)
  BY DEF Known, Done, Members
<1>2. /\ DOMAIN page = 1 .. Len(page) /\ DOMAIN page' = 1 .. (Len(page) - 1) /\ Len(page) \in Nat
      /\ \A i \in DOMAIN page' : i + 1 \in DOMAIN page /\ page'[i] = page[i + 1]
  OBVIOUS
<1>3. ASSUME NEW i \in DOMAIN page', NEW j \in bucket, j < page'[i], ~Known(j)
      PROVE  \E h \in DOMAIN page' : h < i /\ page'[h] = j
  <2>1. PICK h \in DOMAIN page : h < i + 1 /\ page[h] = j
    BY <1>2, <1>3 DEF PageKnown
  <2>2. h # 1
    BY <1>3, <2>1
  <2>3. h - 1 \in DOMAIN page' /\ h - 1 < i /\ page'[h - 1] = page[h]
    BY <1>2, <2>1, <2>2
  <2> QED BY <2>1, <2>3
<1>4. PageKnown'
  BY <1>1, <1>3 DEF PageKnown
<1>5. Members(page) = {page[1]} \cup Members(page')
  BY PageTail
<1>6. MoreKnown'
  BY <1>1, <1>5 DEF MoreKnown, Members
<1> QED BY <1>4, <1>6

(* Objects are created in the order of their keys: a new one is behind     *)
(* everything the discovery has seen.                                      *)
LEMMA PutObjectList ==
  ASSUME Core, ListInv, KeysInOrder, NEW k \in Keys, PutObject(k)
  PROVE  ListInv'
<1>t. /\ bucket \subseteq Keys /\ page \in Seq(Keys) /\ dispatched \in Seq(Keys) /\ k \in Nat /\ k # 0
      /\ Keys \subseteq Nat /\ mode = "list"
  BY Bounds DEF Core, S3Types, ServiceTypes, DiscoveryTypes, PutObject
<1>1. /\ UNCHANGED <<mode, dpc, page, more, start_after, dispatched, in_flight, completed_set, completed,
                     fetched, given_up>>
      /\ bucket' = bucket \cup {k} /\ \A j \in bucket : j < k
  BY DEF PutObject, Put, discoveryVars, listVars, streamVars
<1>2. start_after < k /\ more < k
  <2>1. 0 < k
    BY <1>t
  <2>2. start_after \in bucket \cup {0} /\ more \in bucket \cup {0}
    BY <1>t DEF ListInv, InBucket
  <2> QED BY <1>1, <2>1, <2>2
<1>3. (\A i \in DOMAIN dispatched : dispatched[i] < k) /\ (\A i \in DOMAIN page : page[i] < k)
  BY <1>t, <1>1 DEF ListInv, InBucket, Members
<1>4. \A j \in bucket : j \in Nat
  BY <1>t
<1>5. /\ start_after \in Nat /\ more \in Nat
      /\ \A i \in DOMAIN dispatched : dispatched[i] \in Nat
      /\ \A i \in DOMAIN page : page[i] \in Nat
  <2>1. start_after \in Nat /\ more \in Nat
    <3>1. start_after \in bucket \cup {0} /\ more \in bucket \cup {0}
      BY <1>t DEF ListInv, InBucket
    <3> QED BY <1>4, <3>1
  <2>2. \A i \in DOMAIN dispatched : dispatched[i] \in Keys
    BY <1>t
  <2>3. \A i \in DOMAIN page : page[i] \in Keys
    BY <1>t
  <2> QED BY <1>t, <2>1, <2>2, <2>3
<1>6. \A j : Known(j)' <=> Known(j)
  BY <1>1 DEF Known, Done, Members
<1>7. InBucket' /\ Completing'
  BY <1>t, <1>1, <1>6 DEF ListInv, InBucket, Completing, Members, Done
<1>8. CursorDone' /\ DispatchOrder'
  BY <1>t, <1>1, <1>2, <1>5 DEF ListInv, CursorDone, DispatchOrder, Done
<1>9. DispatchedKnown' /\ PageKnown' /\ MoreKnown'
  <2>1. DispatchedKnown'
    BY <1>t, <1>1, <1>3, <1>5, <1>6 DEF ListInv, DispatchedKnown
  <2>2. PageKnown'
    BY <1>t, <1>1, <1>3, <1>5, <1>6 DEF ListInv, PageKnown
  <2>3. MoreKnown'
    <3>1. ~(k <= more) /\ Members(page') = Members(page) /\ MoreKnown
      BY <1>t, <1>1, <1>2, <1>5 DEF ListInv, Members
    <3> QED BY <1>1, <1>6, <3>1 DEF MoreKnown, Members
  <2> QED BY <2>1, <2>2, <2>3
<1> QED BY <1>t, <1>1, <1>7, <1>8, <1>9 DEF ListInv

(* A listing shows all keys behind the cursor, or behind the last page, up *)
(* to the end of the page.                                                 *)
LEMMA ListObjectsList ==
  ASSUME Core, ListInv, ListObjects
  PROVE  ListInv'
<1> DEFINE from == IF more = 0 THEN start_after ELSE more
           S == {k \in bucket : k > from}
           keys == Ascending(S)
           n == IF Len(keys) < PageSize THEN Len(keys) ELSE PageSize
<1>t. /\ bucket \subseteq Keys /\ IsFiniteSet(bucket) /\ Keys \subseteq Nat /\ mode = "list" /\ page = <<>>
      /\ more \in Keys \cup {0} /\ start_after \in Keys \cup {0}
  BY Bounds DEF Core, S3Types, ServiceTypes, DiscoveryTypes, ListObjects, RecordInv, PageState
<1>1. /\ page' = SubSeq(keys, 1, n) /\ more' = (IF Len(keys) > PageSize THEN keys[PageSize] ELSE 0)
      /\ dpc' = "page"
      /\ UNCHANGED <<mode, bucket, start_after, dispatched, in_flight, completed_set, completed, fetched,
                     given_up>>
  BY DEF ListObjects, listVars, streamVars
<1>2. S \in SUBSET Keys /\ IsFiniteSet(S)
  BY <1>t, FS_Subset
<1>3. keys \in Seq(S) /\ Ascends(keys) /\ Members(keys) = S
  BY <1>2, AscendingFacts
<1>4. \A j : Known(j)' <=> Known(j)
  BY <1>1 DEF Known, Done, Members
<1>5. ASSUME NEW j \in bucket PROVE Known(j) \/ \E h \in DOMAIN keys : keys[h] = j
  <2>1. CASE j <= from
    <3>1. CASE more = 0
      BY <1>t, <2>1, <3>1 DEF ListInv, CursorDone, Known
    <3>2. CASE more # 0
      <4>1. Members(page) = {}
        BY <1>t DEF Members
      <4> QED BY <1>t, <2>1, <3>2, <4>1 DEF ListInv, MoreKnown
    <3> QED BY <3>1, <3>2
  <2>2. CASE j > from
    <3>1. j \in Members(keys)
      BY <1>3, <2>2
    <3> QED BY <3>1 DEF Members
  <2>3. j \in Nat /\ from \in Nat
    BY <1>t
  <2> QED BY <2>1, <2>2, <2>3
<1>6. n \in 0 .. Len(keys) /\ Len(keys) \in Nat /\ PageSize \in Nat /\ PageSize > 0
  BY <1>3, Bounds
<1>7. DOMAIN keys = 1 .. Len(keys) /\ \A i \in DOMAIN keys : keys[i] \in bucket /\ keys[i] \in Nat
  <2>1. S \subseteq bucket /\ S \subseteq Nat
    BY <1>t
  <2> HIDE DEF keys, S
  <2>2. DOMAIN keys = 1 .. Len(keys) /\ \A i \in DOMAIN keys : keys[i] \in S
    BY <1>3
  <2> QED BY <2>1, <2>2
<1>9. Len(keys) > PageSize => n = PageSize
  BY <1>6
<1> HIDE DEF keys, n
<1>8. DOMAIN page' = 1 .. n /\ \A i \in 1 .. n : page'[i] = keys[i] /\ i \in DOMAIN keys
  BY <1>1, <1>3, <1>6
<1>10. InBucket'
  <2>1. Members(page') \subseteq bucket
    BY <1>7, <1>8 DEF Members
  <2>2. more' \in bucket \cup {0}
    BY <1>1, <1>6, <1>7
  <2> QED BY <1>t, <1>1, <2>1, <2>2 DEF ListInv, InBucket, Members
<1>11. Completing' /\ CursorDone' /\ DispatchOrder' /\ DispatchedKnown'
  BY <1>t, <1>1, <1>4 DEF ListInv, Completing, CursorDone, DispatchOrder, DispatchedKnown, Members, Done
<1>12. PageKnown'
  <2> SUFFICES ASSUME NEW i \in DOMAIN page', NEW j \in bucket, j < page'[i], ~Known(j)
               PROVE  \E h \in DOMAIN page' : h < i /\ page'[h] = j
    BY <1>1, <1>4 DEF PageKnown
  <2>1. PICK h \in DOMAIN keys : keys[h] = j
    BY <1>5
  <2>2. i \in 1 .. n /\ page'[i] = keys[i] /\ i \in DOMAIN keys
    BY <1>8
  <2>3. h < i
    <3>1. h = i \/ i < h => ~(j < page'[i])
      BY <1>3, <1>7, <2>1, <2>2 DEF Ascends
    <3> QED BY <1>7, <2>1, <2>2, <3>1
  <2>4. h \in 1 .. n
    BY <1>6, <1>7, <2>1, <2>2, <2>3
  <2> QED BY <1>8, <2>1, <2>3, <2>4
<1>13. MoreKnown'
  <2> SUFFICES ASSUME more' # 0, NEW j \in bucket, j <= more', ~Known(j)
               PROVE  j \in Members(page')
    BY <1>1, <1>4 DEF MoreKnown, Members
  <2>1. more' = keys[n] /\ n = PageSize /\ n \in DOMAIN keys
    BY <1>1, <1>6, <1>7, <1>9
  <2>2. PICK h \in DOMAIN keys : keys[h] = j
    BY <1>5
  <2>3. h <= n
    <3>1. n < h => ~(j <= more')
      BY <1>3, <1>7, <2>1, <2>2 DEF Ascends
    <3> QED BY <1>7, <2>1, <2>2, <3>1
  <2>4. h \in 1 .. n
    BY <1>6, <1>7, <2>2, <2>3
  <2> QED BY <1>8, <2>2, <2>4 DEF Members
<1> QED BY <1>t, <1>1, <1>10, <1>11, <1>12, <1>13 DEF ListInv

(* The next key of the page is in flight, or is dispatched.                *)
LEMMA TakeKeyList ==
  ASSUME Core, ListInv, TakeKey
  PROVE  ListInv'
<1> DEFINE k == Head(page)
<1>t. /\ page \in Seq(Keys) /\ page # <<>> /\ dispatched \in Seq(Keys) /\ Keys \subseteq Nat /\ mode = "list"
      /\ k = page[1] /\ 1 \in DOMAIN page /\ k \in Keys /\ bucket \subseteq Keys
  BY Bounds DEF Core, S3Types, ServiceTypes, DiscoveryTypes, TakeKey
<1>l. /\ InBucket /\ Completing /\ CursorDone /\ DispatchOrder /\ DispatchedKnown /\ PageKnown /\ MoreKnown
  BY <1>t DEF ListInv
<1>1. UNCHANGED <<mode, bucket, more, start_after, completed_set, completed, fetched, given_up>>
  BY DEF TakeKey, streamVars
<1>2. CASE k \in in_flight
  <2>1. page' = Tail(page) /\ UNCHANGED <<dpc, dispatched, in_flight>> /\ dpc = "page"
    BY <1>2 DEF TakeKey
  <2>2. Known(page[1])
    BY <1>t, <1>l, <1>2 DEF Completing, Known
  <2>3. PageKnown' /\ MoreKnown'
    BY ONLY <1>t, <1>l, <1>1, <2>1, <2>2, PageShift
  <2>4. Members(page') \subseteq Members(page)
    BY <1>t, <2>1, PageTail
  <2>5. InBucket'
    BY <1>l, <1>1, <2>1, <2>4 DEF InBucket, Members
  <2>6. Completing' /\ CursorDone' /\ DispatchOrder' /\ DispatchedKnown'
    BY <1>l, <1>1, <2>1 DEF Completing, CursorDone, DispatchOrder, DispatchedKnown, Known, Members, Done
  <2> QED BY <1>t, <1>1, <2>3, <2>5, <2>6 DEF ListInv
<1>3. CASE k \notin in_flight
  <2>1. /\ dispatched' = (IF k \in Members(dispatched) THEN dispatched ELSE Append(dispatched, k))
        /\ in_flight' = in_flight \cup {k} /\ dpc' = "permit" /\ UNCHANGED page
    BY <1>3 DEF TakeKey
  <2> HIDE DEF k
  <2>2. Members(dispatched') = Members(dispatched) \cup {k}
    <3>1. CASE k \in Members(dispatched)
      BY <2>1, <3>1
    <3>2. CASE k \notin Members(dispatched)
      <4>1. /\ dispatched' = Append(dispatched, k)
            /\ DOMAIN dispatched' = DOMAIN dispatched \cup {Len(dispatched) + 1}
            /\ dispatched'[Len(dispatched) + 1] = k
            /\ \A i \in DOMAIN dispatched : dispatched'[i] = dispatched[i]
        BY <1>t, <2>1, <3>2
      <4> QED BY <4>1 DEF Members
    <3> QED BY <3>1, <3>2
  <2>3. \A j : Known(j)' <=> Known(j) \/ j = k
    BY <1>1, <2>2 DEF Known, Done, Members
  <2>4. InBucket'
    BY <1>t, <1>l, <1>1, <2>1, <2>2 DEF InBucket, Members
  <2>5. Completing'
    BY <1>t, <1>l, <1>1, <2>1, <2>2, <2>3 DEF Completing, Done, Members
  <2>6. CursorDone' /\ PageKnown' /\ MoreKnown'
    BY <1>l, <1>1, <2>1, <2>3 DEF CursorDone, PageKnown, MoreKnown, Done, Members
  <2>7. DispatchOrder' /\ DispatchedKnown'
    <3>1. CASE k \in Members(dispatched)
      BY <1>l, <1>1, <2>1, <2>3, <3>1 DEF DispatchOrder, DispatchedKnown, Done
    <3>2. CASE k \notin Members(dispatched)
      <4> DEFINE n == Len(dispatched) + 1
      <4>1. /\ DOMAIN dispatched' = DOMAIN dispatched \cup {n} /\ dispatched'[n] = k
            /\ \A i \in DOMAIN dispatched : dispatched'[i] = dispatched[i] /\ i < n
        BY <1>t, <2>1, <3>2
      <4>2. \A i \in DOMAIN dispatched : ~(n < i) /\ i \in Nat
        BY <1>t
      <4>4. n \in Nat /\ ~(n < n)
        BY <1>t
      <4> HIDE DEF n
      <4>3. k \in bucket
        BY <1>t, <1>l DEF InBucket, Members
      <4>5. ASSUME NEW i \in DOMAIN dispatched, k < dispatched[i] PROVE k \in Done
        BY <1>l, <3>2, <4>3, <4>5 DEF DispatchedKnown, Known
      <4>6. ASSUME NEW j \in bucket, j < k PROVE Known(j)
        <5>1. \A h \in DOMAIN page : ~(h < 1)
          BY <1>t
        <5> QED BY <1>t, <1>l, <4>6, <5>1 DEF PageKnown
      <4>7. DispatchOrder'
        BY <1>l, <1>1, <4>1, <4>2, <4>4, <4>5 DEF DispatchOrder, Done
      <4>8. DispatchedKnown'
        BY <1>l, <1>1, <2>3, <4>1, <4>6 DEF DispatchedKnown
      <4> QED BY <4>7, <4>8
    <3> QED BY <3>1, <3>2
  <2> QED BY <1>t, <1>1, <2>4, <2>5, <2>6, <2>7 DEF ListInv
<1> QED BY <1>2, <1>3

(* A completion is noted; a key that failed is listed again.               *)
LEMMA DrainCompletionList ==
  ASSUME Core, ListInv, DrainCompletion
  PROVE  ListInv'
<1> DEFINE k == Head(completed).key
<1>t. /\ completed \in Seq(Completions) /\ completed # <<>> /\ completed' = Tail(completed) /\ mode = "list"
      /\ Completing /\ InBucket
  BY DEF Core, S3Types, FetchTypes, DrainCompletion, ListInv
<1>1. /\ UNCHANGED <<mode, bucket, dpc, page, more, start_after, dispatched, fetched>>
      /\ given_up \subseteq given_up' /\ in_flight' \subseteq in_flight
      /\ \/ completed_set' = completed_set
         \/ completed_set' = completed_set \cup {k} /\ (Head(completed).success = TRUE \/ k \in given_up')
  <2>1. Head(completed).success \in BOOLEAN
    <3>1. Head(completed) \in Completions
      BY <1>t
    <3> QED BY <3>1 DEF Completions
  <2> QED BY <2>1 DEF DrainCompletion, discoveryVars, streamVars
<1>2. /\ Head(completed) = completed[1] /\ 1 \in DOMAIN completed
      /\ \A i \in DOMAIN completed' : i + 1 \in DOMAIN completed /\ completed'[i] = completed[i + 1]
  BY <1>t
<1>3. Head(completed).success = TRUE => k \in fetched
  BY <1>t, <1>2 DEF Completing
<1>4. Done \subseteq Done' /\ completed_set' \subseteq Done'
  BY <1>t, <1>1, <1>3 DEF Completing, Done
<1>5. \A i \in DOMAIN completed' : completed'[i].success = TRUE => completed'[i].key \in fetched'
  BY <1>t, <1>1, <1>2 DEF Completing
<1>6. \A j : Known(j) => Known(j)'
  BY <1>1, <1>4 DEF Known, Members
<1>7. InBucket' /\ Completing'
  BY <1>t, <1>1, <1>4, <1>5, <1>6 DEF InBucket, Completing, Members
<1>8. CursorDone' /\ DispatchOrder' /\ DispatchedKnown' /\ PageKnown' /\ MoreKnown'
  <2>1. CursorDone' /\ DispatchOrder'
    BY <1>t, <1>1, <1>4 DEF ListInv, CursorDone, DispatchOrder
  <2>2. DispatchedKnown' /\ PageKnown' /\ MoreKnown'
    BY <1>t, <1>1, <1>6 DEF ListInv, DispatchedKnown, PageKnown, MoreKnown, Members
  <2> QED BY <2>1, <2>2
<1> QED BY <1>t, <1>1, <1>7, <1>8 DEF ListInv

(* The dispatched key goes to the orchestrator.                            *)
LEMMA SendKeyList ==
  ASSUME Core, ListInv, SendKey
  PROVE  ListInv'
<1>t. /\ page \in Seq(Keys) /\ page # <<>> /\ mode = "list" /\ dpc = "permit"
  BY DEF Core, S3Types, DiscoveryTypes, SendKey, RecordInv, PageState
<1>l. /\ InBucket /\ Completing /\ CursorDone /\ DispatchOrder /\ DispatchedKnown /\ PageKnown /\ MoreKnown
  BY <1>t DEF ListInv
<1>1. /\ UNCHANGED <<mode, bucket, more, start_after, dispatched, in_flight, completed_set, completed, fetched,
                     given_up>>
      /\ page' = Tail(page) /\ dpc' = "page"
  BY DEF SendKey, listVars, streamVars
<1>2. Known(page[1])
  BY <1>t, <1>l DEF Completing
<1>3. PageKnown' /\ MoreKnown'
  BY ONLY <1>t, <1>l, <1>1, <1>2, PageShift
<1>4. Members(page') \subseteq Members(page)
  BY <1>t, <1>1, PageTail
<1>5. InBucket'
  BY <1>l, <1>1, <1>4 DEF InBucket, Members
<1>6. Completing' /\ CursorDone' /\ DispatchOrder' /\ DispatchedKnown'
  BY <1>l, <1>1 DEF Completing, CursorDone, DispatchOrder, DispatchedKnown, Known, Members, Done
<1> QED BY <1>t, <1>1, <1>3, <1>5, <1>6 DEF ListInv

(* The cursor advances over the completed prefix: whatever is in front of  *)
(* its last key was dispatched in front of it, or is done.                 *)
LEMMA EndPageList ==
  ASSUME Core, ListInv, EndPage
  PROVE  ListInv'
<1> DEFINE c == Contiguous
           past == {dispatched[i] : i \in 1 .. c}
<1>t. /\ page = <<>> /\ dispatched \in Seq(Keys) /\ mode = "list" /\ bucket \subseteq Nat /\ Keys \subseteq Nat
  BY Bounds DEF Core, S3Types, ServiceTypes, DiscoveryTypes, EndPage
<1>l. /\ InBucket /\ Completing /\ CursorDone /\ DispatchOrder /\ DispatchedKnown /\ PageKnown /\ MoreKnown
  BY <1>t DEF ListInv
<1>1. c \in 0 .. Len(dispatched) /\ \A i \in 1 .. c : dispatched[i] \in completed_set
  BY <1>t, ContiguousFacts
<1>2. /\ start_after' = (IF c = 0 THEN start_after ELSE dispatched[c])
      /\ dispatched' = SubSeq(dispatched, c + 1, Len(dispatched))
      /\ completed_set' = completed_set \ past
      /\ in_flight' = in_flight \ past
      /\ dpc' = "list"
      /\ UNCHANGED <<mode, bucket, page, more, completed, fetched, given_up>>
  BY DEF EndPage, streamVars
<1> HIDE DEF c
<1>3. \A i \in 1 .. c : dispatched[i] \in Done
  BY <1>l, <1>1 DEF Completing
<1>4. /\ DOMAIN dispatched = 1 .. Len(dispatched) /\ Len(dispatched) \in Nat
      /\ DOMAIN dispatched' = 1 .. (Len(dispatched) - c)
      /\ \A i \in DOMAIN dispatched' : i + c \in DOMAIN dispatched /\ dispatched'[i] = dispatched[i + c]
  BY <1>t, <1>1, <1>2
<1>5. ASSUME NEW i \in DOMAIN dispatched, i \notin 1 .. c PROVE dispatched[i] \in Members(dispatched')
  <2>1. i - c \in DOMAIN dispatched' /\ (i - c) + c = i
    BY <1>1, <1>4, <1>5
  <2> QED BY <1>4, <2>1 DEF Members
<1>6. ASSUME NEW j, Known(j) PROVE Known(j)'
  <2>1. CASE j \in Done
    BY <1>2, <2>1 DEF Known, Done
  <2>2. CASE j \in Members(dispatched)
    <3>1. PICK i \in DOMAIN dispatched : dispatched[i] = j
      BY <2>2 DEF Members
    <3>2. CASE i \in 1 .. c
      BY <1>2, <1>3, <3>1, <3>2 DEF Known, Done
    <3>3. CASE i \notin 1 .. c
      <4>1. j \in Members(dispatched')
        BY <1>5, <3>1, <3>3
      <4> QED BY <4>1 DEF Known, Members
    <3> QED BY <3>2, <3>3
  <2> QED BY <1>6, <2>1, <2>2 DEF Known
<1>7. Members(dispatched') \subseteq Members(dispatched)
  BY <1>4 DEF Members
<1>8. InBucket'
  <2>1. start_after' \in bucket \cup {0}
    <3>1. CASE c = 0
      BY <1>l, <1>2, <3>1 DEF InBucket
    <3>2. CASE c # 0
      <4>1. c \in DOMAIN dispatched
        BY <1>1, <1>4, <3>2
      <4> QED BY <1>l, <1>2, <3>2, <4>1 DEF InBucket, Members
    <3> QED BY <3>1, <3>2
  <2> QED BY <1>l, <1>2, <1>7, <2>1 DEF InBucket, Members
<1>9. Completing'
  <2>1. in_flight' \subseteq Members(dispatched')
    <3> SUFFICES ASSUME NEW j \in in_flight, j \notin past PROVE j \in Members(dispatched')
      BY <1>2
    <3>1. PICK i \in DOMAIN dispatched : dispatched[i] = j
      BY <1>l DEF Completing, Members
    <3>2. i \notin 1 .. c
      BY <3>1
    <3> QED BY <1>5, <3>1, <3>2
  <2> QED BY <1>l, <1>2, <2>1 DEF Completing, Done, Members
<1>10. CursorDone'
  <2> SUFFICES ASSUME NEW j \in bucket, j <= start_after' PROVE j \in Done
    BY <1>2 DEF CursorDone, Done
  <2>1. CASE c = 0
    BY <1>l, <1>2, <2>1 DEF CursorDone
  <2>2. CASE c # 0
    <3>1. c \in DOMAIN dispatched /\ c \in 1 .. c /\ start_after' = dispatched[c]
      BY <1>1, <1>2, <1>4, <2>2
    <3>2. dispatched[c] \in Nat /\ j \in Nat
      <4>1. dispatched[c] \in Keys
        BY <1>t, <3>1
      <4> QED BY <1>t, <4>1
    <3>3. CASE j = dispatched[c]
      BY <1>3, <3>1, <3>3
    <3>4. CASE j < dispatched[c]
      <4>1. Known(j)
        BY <1>l, <3>1, <3>4 DEF DispatchedKnown
      <4>2. CASE j \in Members(dispatched)
        <5>1. PICK h \in DOMAIN dispatched : dispatched[h] = j
          BY <4>2 DEF Members
        <5>2. CASE h \in 1 .. c
          BY <1>3, <5>1, <5>2
        <5>3. CASE h \notin 1 .. c
          <6>1. c < h
            BY <1>1, <1>4, <5>3
          <6> QED BY <1>l, <3>1, <3>4, <5>1, <6>1 DEF DispatchOrder
        <5> QED BY <5>2, <5>3
      <4> QED BY <4>1, <4>2 DEF Known
    <3> QED BY <3>1, <3>2, <3>3, <3>4
  <2> QED BY <2>1, <2>2
<1>11. DispatchOrder'
  <2> SUFFICES ASSUME NEW i \in DOMAIN dispatched', NEW h \in DOMAIN dispatched', i < h,
                      dispatched'[h] < dispatched'[i]
               PROVE  dispatched'[h] \in Done
    BY <1>2 DEF DispatchOrder, Done
  <2>1. i + c \in DOMAIN dispatched /\ h + c \in DOMAIN dispatched /\ i + c < h + c
    BY <1>1, <1>4
  <2> QED BY <1>l, <1>4, <2>1 DEF DispatchOrder
<1>12. DispatchedKnown'
  BY <1>l, <1>2, <1>4, <1>6 DEF DispatchedKnown
<1>13. PageKnown' /\ MoreKnown'
  BY <1>l, <1>2, <1>6 DEF PageKnown, MoreKnown, Members
<1> QED BY <1>t, <1>2, <1>8, <1>9, <1>10, <1>11, <1>12, <1>13 DEF ListInv

(* Every action keeps the order of the list mode.                          *)
LEMMA ListStep ==
  ASSUME Core, KeysInOrder, ListInv, [Next]_vars
  PROVE  ListInv'
<1>t. task \in [Keys -> Tasks] /\ completed \in Seq(Completions) /\ mode \in {"list", "sqs"}
  BY S3Assumptions DEF Core, S3Types, ServiceTypes, FetchTypes
<1>1. ASSUME NEW k \in Keys, PutObject(k) PROVE ListInv'
  BY <1>1, PutObjectList
<1>2. ASSUME NEW m \in Messages, Notify(m) PROVE ListInv'
  BY <1>2, SqsFrame DEF Notify, listVars
<1>3. ASSUME NEW m \in Messages, Expire(m) PROVE ListInv'
  <2>1. /\ UNCHANGED <<mode, bucket, dpc, page, more, start_after, dispatched, in_flight, completed_set,
                       completed, given_up>>
        /\ fetched \subseteq fetched'
    BY <1>3 DEF Expire, discoveryVars, listVars, streamVars
  <2> QED BY ONLY <2>1, ListInv, ListQuiet
<1>4. ASSUME NEW ms \in SUBSET Messages, ReceiveMessages(ms) PROVE ListInv'
  <2>1. /\ UNCHANGED <<mode, bucket, dpc, page, more, start_after, dispatched, in_flight, completed_set,
                       completed, given_up>>
        /\ fetched \subseteq fetched'
    BY <1>4 DEF ReceiveMessages, discoveryVars, listVars, streamVars
  <2> QED BY ONLY <2>1, ListInv, ListQuiet
<1>5. ASSUME NEW r \in Receipts, TakeMessage(r) PROVE ListInv'
  BY <1>5, SqsFrame DEF TakeMessage, listVars
<1>6. ASSUME SendRecord PROVE ListInv'
  BY <1>6, SqsFrame DEF SendRecord, listVars
<1>7. ASSUME ListObjects PROVE ListInv'
  BY <1>7, ListObjectsList
<1>8. ASSUME ListFails PROVE ListInv'
  <2>1. /\ UNCHANGED <<mode, bucket, dpc, page, start_after, dispatched, in_flight, completed_set,
                       completed, given_up, fetched>>
        /\ more' = 0 /\ mode = "list"
    BY <1>8 DEF ListFails, listVars, streamVars
  <2>2. InBucket' /\ Completing'
    BY <2>1 DEF ListInv, InBucket, Completing, Known, Done, Members
  <2>3. CursorDone' /\ DispatchOrder' /\ DispatchedKnown' /\ PageKnown' /\ MoreKnown'
    BY <2>1 DEF ListInv, CursorDone, DispatchOrder, DispatchedKnown, PageKnown, MoreKnown, Known, Done,
         Members
  <2> QED BY <2>1, <2>2, <2>3 DEF ListInv
<1>9. ASSUME TakeKey PROVE ListInv'
  BY <1>9, TakeKeyList
<1>10. ASSUME DrainCompletion PROVE ListInv'
  BY <1>10, DrainCompletionList
<1>11. ASSUME SendKey PROVE ListInv'
  BY <1>11, SendKeyList
<1>12. ASSUME EndPage PROVE ListInv'
  BY <1>12, EndPageList
<1>13. ASSUME SkipDuplicate PROVE ListInv'
  <2>1. /\ UNCHANGED <<mode, bucket, dpc, page, more, start_after, dispatched, in_flight, completed_set,
                       completed, given_up>>
        /\ fetched \subseteq fetched'
    BY <1>13 DEF SkipDuplicate, discoveryVars, listVars, streamVars
  <2> QED BY ONLY <2>1, ListInv, ListQuiet
<1>14. ASSUME AcceptWork PROVE ListInv'
  <2>1. /\ UNCHANGED <<mode, bucket, dpc, page, more, start_after, dispatched, in_flight, completed_set,
                       completed, given_up>>
        /\ fetched \subseteq fetched'
    BY <1>14 DEF AcceptWork, discoveryVars, listVars, streamVars
  <2> QED BY ONLY <2>1, ListInv, ListQuiet
<1>15. ASSUME SpawnFetch PROVE ListInv'
  <2>1. /\ UNCHANGED <<mode, bucket, dpc, page, more, start_after, dispatched, in_flight, completed_set,
                       completed, given_up>>
        /\ fetched \subseteq fetched'
    BY <1>15 DEF SpawnFetch, discoveryVars, listVars, streamVars
  <2> QED BY ONLY <2>1, ListInv, ListQuiet
<1>16. ASSUME NEW k \in Keys, SendChunk(k) PROVE ListInv'
  <2>1. /\ UNCHANGED <<mode, bucket, dpc, page, more, start_after, dispatched, in_flight, completed_set,
                       completed, given_up>>
        /\ fetched \subseteq fetched'
    BY <1>16 DEF SendChunk, taskQuiet, discoveryVars, listVars, streamVars
  <2> QED BY ONLY <2>1, ListInv, ListQuiet
<1>17. ASSUME NEW k \in Keys, SendEof(k) PROVE ListInv'
  <2>1. /\ UNCHANGED <<mode, bucket, dpc, page, more, start_after, dispatched, in_flight, completed_set,
                       completed, given_up>>
        /\ fetched \subseteq fetched'
    BY <1>17 DEF SendEof, taskQuiet, discoveryVars, listVars, streamVars
  <2> QED BY ONLY <2>1, ListInv, ListQuiet
<1>18. ASSUME NEW k \in Keys, FetchFails(k) PROVE ListInv'
  <2>1. /\ UNCHANGED <<mode, bucket, dpc, page, more, start_after, dispatched, in_flight, completed_set,
                       completed, given_up>>
        /\ fetched \subseteq fetched'
    BY <1>18 DEF FetchFails, taskQuiet, discoveryVars, listVars, streamVars
  <2> QED BY ONLY <2>1, ListInv, ListQuiet
<1>19. ASSUME NEW k \in Keys, ChannelClosed(k) PROVE ListInv'
  <2>1. /\ UNCHANGED <<mode, bucket, dpc, page, more, start_after, dispatched, in_flight, completed_set,
                       completed, given_up>>
        /\ fetched \subseteq fetched'
    BY <1>19 DEF ChannelClosed, taskQuiet, discoveryVars, listVars, streamVars
  <2> QED BY ONLY <2>1, ListInv, ListQuiet
<1>20. ASSUME NEW k \in Keys, Report(k) PROVE ListInv'
  <2> DEFINE ok == task[k].pc = "succeeded"
             x == [key |-> k, success |-> ok]
  <2>1. /\ UNCHANGED <<mode, bucket, dpc, page, more, start_after, dispatched, in_flight, completed_set,
                       given_up, fetched>>
        /\ UNCHANGED completed \/ (mode = "list" /\ completed' = Append(completed, x))
    BY <1>20 DEF Report, taskQuiet, discoveryVars, listVars, streamVars
  <2>2. CASE UNCHANGED completed
    BY ONLY <2>1, <2>2, ListInv, ListQuiet
  <2>3. CASE mode = "list" /\ completed' = Append(completed, x)
    <3>1. x.success = TRUE => x.key \in fetched
      BY DEF Core, RecordInv, TasksTell
    <3> HIDE DEF x
    <3>2. completed_set' \subseteq Done' /\ Done \subseteq Done'
      BY <2>1, <2>3 DEF ListInv, Completing, Done
    <3>3. \A i \in DOMAIN completed' : completed'[i] = x \/ (i \in DOMAIN completed /\ completed'[i] = completed[i])
      <4>1. x \in Completions
        BY DEF x, Completions
      <4> QED BY <1>t, <2>3, <4>1
    <3>4. \A i \in DOMAIN completed' : completed'[i].success = TRUE => completed'[i].key \in fetched'
      BY <2>1, <2>3, <3>1, <3>3 DEF ListInv, Completing
    <3> QED BY ONLY <2>1, <3>2, <3>4, ListInv, ListFrame
  <2> QED BY <2>1, <2>2, <2>3
<1>21. ASSUME NEW k \in Keys, Settle(k) PROVE ListInv'
  <2>1. /\ UNCHANGED <<mode, bucket, dpc, page, more, start_after, dispatched, in_flight, completed_set,
                       completed, given_up>>
        /\ fetched \subseteq fetched'
    BY <1>21 DEF Settle, taskQuiet, discoveryVars, listVars, streamVars
  <2> QED BY ONLY <2>1, ListInv, ListQuiet
<1>22. ASSUME NEW k \in Keys, DeleteAfterFetch(k) PROVE ListInv'
  <2>1. /\ UNCHANGED <<mode, bucket, dpc, page, more, start_after, dispatched, in_flight, completed_set,
                       completed, given_up>>
        /\ fetched \subseteq fetched'
    BY <1>22 DEF DeleteAfterFetch, taskQuiet, discoveryVars, listVars, streamVars
  <2> QED BY ONLY <2>1, ListInv, ListQuiet
<1>23. ASSUME NEW k \in Keys, Unlock(k) PROVE ListInv'
  <2>1. /\ UNCHANGED <<mode, bucket, dpc, page, more, start_after, dispatched, in_flight, completed_set,
                       completed, given_up>>
        /\ fetched \subseteq fetched'
    BY <1>23 DEF Unlock, taskQuiet, discoveryVars, listVars, streamVars
  <2> QED BY ONLY <2>1, ListInv, ListQuiet
<1>24. ASSUME Poll PROVE ListInv'
  <2>1. /\ UNCHANGED <<mode, bucket, dpc, page, more, start_after, dispatched, in_flight, completed_set,
                       completed, given_up>>
        /\ fetched \subseteq fetched'
    BY <1>24 DEF Poll, discoveryVars, listVars, streamVars
  <2> QED BY ONLY <2>1, ListInv, ListQuiet
<1>25. ASSUME Drop PROVE ListInv'
  <2>1. /\ UNCHANGED <<mode, bucket, dpc, page, more, start_after, dispatched, in_flight, completed_set,
                       completed, given_up>>
        /\ fetched \subseteq fetched'
    BY <1>25 DEF Drop, discoveryVars, listVars, streamVars
  <2> QED BY ONLY <2>1, ListInv, ListQuiet
<1>26. ASSUME UNCHANGED vars PROVE ListInv'
  <2>1. /\ UNCHANGED <<mode, bucket, dpc, page, more, start_after, dispatched, in_flight, completed_set,
                       completed, given_up>>
        /\ fetched \subseteq fetched'
    BY <1>26 DEF vars, discoveryVars, listVars, streamVars
  <2> QED BY ONLY <2>1, ListInv, ListQuiet
<1> QED BY <1>1, <1>2, <1>3, <1>4, <1>5, <1>6, <1>7, <1>8, <1>9, <1>10, <1>11, <1>12, <1>13, <1>14,
  <1>15, <1>16, <1>17, <1>18, <1>19, <1>20, <1>21, <1>22, <1>23, <1>24, <1>25, <1>26
  DEF Next, FetchTask, Discovery, Orchestrator

-----------------------------------------------------------------------------
(* The theorems.                                                           *)

(* The initial states satisfy the invariant.                               *)
LEMMA S3InitInv ==
  Init => S3Inv
<1> SUFFICES ASSUME Init PROVE S3Inv
  OBVIOUS
<1>1. S3Types
  <2>1. ServiceTypes
    BY S3Assumptions, FS_EmptySet DEF Init, ServiceTypes
  <2>2. DiscoveryTypes
    BY DEF Init, DiscoveryTypes
  <2>3. NoTask \in Tasks
    BY Bounds DEF NoTask, Tasks, TaskPCs
  <2>4. FetchTypes
    BY <2>3, Bounds DEF Init, FetchTypes
  <2> QED BY <2>1, <2>2, <2>4 DEF S3Types
<1>2. \A k \in Keys : task[k].pc = "none" /\ task[k].receipt = None
  BY DEF Init, NoTask
<1>3. StreamInv
  <2>1. Spawned = {}
    BY <1>2 DEF Spawned
  <2>2. PermitsHeld
    BY <2>1, FS_EmptySet, Bounds DEF PermitsHeld
  <2>3. Locked /\ OpenState
    BY <1>2 DEF Init, Locked, OpenState
  <2> QED BY <2>2, <2>3 DEF StreamInv
<1>4. RecordInv
  <2>1. PageState /\ Distinct(page)
    BY DEF Init, PageState, Distinct
  <2>2. ASSUME NEW r \in Receipts PROVE ReceiptInv(r)
    <3>1. PageKeys(r) = {} /\ KeysFor(work, r) = {} /\ HeldKeys(r) = {}
      BY Bounds DEF Init, PageKeys, KeysFor, HeldKeys
    <3>2. Fetching(r) = {} /\ Settling(r) = {}
      BY <1>2 DEF Fetching, Settling, TaskKeys
    <3>3. OnWay(r) = {} /\ Apart(r)
      BY <3>1, <3>2 DEF Init, OnWay, Waiting, Apart, DistinctFor
    <3>4. TrackerExact(r) /\ ReceivedFresh(r) /\ SuccessesCounted(r)
      BY <3>3, FS_EmptySet DEF Init, TrackerExact, ReceivedFresh, SuccessesCounted
    <3> QED BY <3>3, <3>4 DEF ReceiptInv
  <2>3. TasksTell /\ DeletedIsSettled
    BY <1>2 DEF Init, TasksTell, DeletedIsSettled
  <2> QED BY <2>1, <2>2, <2>3 DEF RecordInv
<1>5. ListInv
  <2>1. Members(page) = {} /\ Members(dispatched) = {}
    BY DEF Init, Members
  <2>2. InBucket /\ Completing
    BY <2>1 DEF Init, InBucket, Completing
  <2>3. CursorDone /\ DispatchOrder /\ DispatchedKnown /\ PageKnown /\ MoreKnown
    BY DEF Init, CursorDone, DispatchOrder, DispatchedKnown, PageKnown, MoreKnown
  <2> QED BY <2>2, <2>3 DEF Init, ListInv
<1> QED BY <1>1, <1>3, <1>4, <1>5 DEF S3Inv

(* Every step keeps the invariant.                                         *)
LEMMA S3NextInv ==
  S3Inv /\ [Next]_vars => S3Inv'
<1> SUFFICES ASSUME S3Inv, [Next]_vars PROVE S3Inv'
  OBVIOUS
<1>1. Core
  BY DEF S3Inv, Core
<1>2. S3Types' /\ StreamInv'
  BY <1>1, TypesStep, StreamStep
<1>3. RecordInv'
  <2>1. \A r \in Receipts : ReceiptInv(r)'
    BY <1>1, ReceiptStep
  <2>2. PageState' /\ Distinct(page)' /\ TasksTell' /\ DeletedIsSettled'
    BY <1>1, PageStep, DeletedStep
  <2> QED BY <2>1, <2>2 DEF RecordInv
<1>4. KeysInOrder => ListInv'
  BY <1>1, ListStep DEF S3Inv
<1> QED BY <1>2, <1>3, <1>4 DEF S3Inv

(* The inductive invariant of the background tasks of the S3 input.        *)
THEOREM S3Invariant == Spec => []S3Inv
BY S3InitInv, S3NextInv, PTL DEF Spec

(* The type of the state: the channels and the semaphore keep their        *)
(* bounds, and no tracker counts more records than its message has.        *)
THEOREM S3TypeOK == Spec => []TypeOK
<1>1. S3Inv => TypeOK
  <2> SUFFICES ASSUME S3Inv PROVE TypeOK
    OBVIOUS
  <2>1. S3Types /\ PermitsHeld /\ RecordInv /\ Core
    BY DEF S3Inv, StreamInv, Core
  <2>2. Members(dispatched) \subseteq Keys
    BY <2>1 DEF S3Types, DiscoveryTypes, Members
  <2>3. ASSUME NEW r \in in_progress PROVE remaining[r] <= Cardinality(delivery[r])
    <3>1. r \in Receipts /\ OnWay(r) # {}
      BY <2>1, <2>3 DEF S3Types, DiscoveryTypes, RecordInv, ReceiptInv, TrackerExact
    <3>2. /\ remaining[r] = Cardinality(OnWay(r)) /\ OnWay(r) \in SUBSET delivery[r]
          /\ IsFiniteSet(delivery[r])
      BY <2>1, <3>1, SomeRemain, S3Assumptions
    <3> QED BY <3>2, FS_Subset
  <2> QED BY <2>1, <2>2, <2>3 DEF TypeOK, S3Types, ServiceTypes, DiscoveryTypes, FetchTypes, PermitsHeld,
       Spawned
<1> QED BY <1>1, S3Invariant, PTL

(* fetch_object: the chunks that reach the framer since the last end of    *)
(* file are those of the attempt that runs.                                *)
THEOREM AttemptsAreSeparate == Spec => []StreamsSeparate
<1>1. S3Inv => StreamsSeparate
  BY DEF S3Inv, StreamInv, OpenState, StreamsSeparate, S3Types, FetchTypes
<1> QED BY <1>1, S3Invariant, PTL

(* delete_message is called only for a message each of whose objects was   *)
(* streamed to its end, or skipped as a duplicate.                         *)
THEOREM MessagesDeletedWhenSettled == Spec => []DeletedIsSettled
<1>1. S3Inv => DeletedIsSettled
  BY DEF S3Inv, RecordInv
<1> QED BY <1>1, S3Invariant, PTL

(* A message is in the heartbeat set from its dispatch until its last      *)
(* record is settled, and not longer, whatever becomes of the records.     *)
THEOREM HeartbeatsEnd == Spec => []HeartbeatWhileWorked
<1>1. S3Inv => HeartbeatWhileWorked
  <2> SUFFICES ASSUME S3Inv, NEW r \in Receipts
               PROVE  r \in in_progress <=>
                         \/ r = current
                         \/ \E i \in DOMAIN work : work[i].receipt = r
                         \/ held # None /\ held.receipt = r
                         \/ \E k \in Keys : /\ task[k].receipt = r
                                            /\ task[k].pc \in {"fetch", "succeeded", "failed", "settle"}
    BY DEF HeartbeatWhileWorked
  <2>1. r \in in_progress <=> OnWay(r) # {}
    BY DEF S3Inv, RecordInv, ReceiptInv, TrackerExact
  <2>2. PageKeys(r) # {} <=> r = current
    <3>1. r # None
      BY S3Assumptions
    <3>2. /\ mode \in {"list", "sqs"} /\ dpc \in {"list", "page", "permit"} /\ page \in Seq(Keys)
          /\ PageState
      BY S3Assumptions DEF S3Inv, S3Types, ServiceTypes, DiscoveryTypes, RecordInv
    <3>3. r = current => page # <<>>
      BY <3>1, <3>2 DEF PageState
    <3>4. page # <<>> => 1 \in DOMAIN page
      BY <3>2
    <3> QED BY <3>3, <3>4 DEF PageKeys, Members
  <2>3. KeysFor(work, r) # {} <=> \E i \in DOMAIN work : work[i].receipt = r
    BY DEF KeysFor
  <2>4. HeldKeys(r) # {} <=> held # None /\ held.receipt = r
    BY DEF HeldKeys
  <2>5. Fetching(r) \cup Settling(r) # {} <=>
           \E k \in Keys : task[k].receipt = r /\ task[k].pc \in {"fetch", "succeeded", "failed", "settle"}
    BY DEF Fetching, Settling, TaskKeys
  <2> QED BY <2>1, <2>2, <2>3, <2>4, <2>5 DEF OnWay, Waiting
<1> QED BY <1>1, S3Invariant, PTL

(* run_list_discovery: when objects are created in the order of their      *)
(* keys, start_after passes only objects that were streamed to their end   *)
(* or given up.                                                            *)
THEOREM CursorPassesDone ==
  ASSUME KeysInOrder
  PROVE  Spec => []CursorCovers
<1>1. S3Inv => CursorCovers
  <2> SUFFICES ASSUME S3Inv, NEW k \in bucket, k <= start_after PROVE k \in fetched \cup given_up
    BY DEF CursorCovers
  <2>1. CASE mode = "list"
    BY <2>1 DEF S3Inv, ListInv, CursorDone, Done
  <2>2. CASE mode # "list"
    <3>1. start_after = 0 /\ k \in Nat /\ k # 0
      BY <2>2, Bounds DEF S3Inv, ListInv, S3Types, ServiceTypes
    <3> QED BY <3>1
  <2> QED BY <2>1, <2>2
<1> QED BY <1>1, S3Invariant, PTL
=============================================================================
