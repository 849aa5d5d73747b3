--------------------------- MODULE ReceiversProofs ---------------------------
(***************************************************************************)
(* Proofs about the HTTP receivers and their decoder threads, for any      *)
(* number of requests, workers and panics: no handler is left waiting for  *)
(* a decoder that has gone, the counters that decide over 429 are exact,   *)
(* and the answer to a request tells what became of it.                    *)
(***************************************************************************)
EXTENDS Receivers, FiniteSetTheorems, SequenceTheorems, TLAPS

(* The state of the stage.                                                 *)
Results == {None, "rows", "empty", "invalid", "full", "internal"}
Submissions == [req : Requests, at : Workers, left : 0 .. NumWorkers, disconnected : BOOLEAN]

Places == [pc : {"recv", "process", "panicked", "release", "closing", "leaving", "gone"},
           job : Requests \cup {None}]

StageTypes ==
    /\ outstanding \in Int
    /\ next_worker \in Workers
    /\ queue \in [Workers -> Seq(Requests)]
    /\ worker \in [Workers -> Places]
    /\ submitting \in {None} \cup Submissions
    /\ result \in [Requests -> Results]

(* The state of the handlers and of the channel.                           *)
Handlers ==
    [pc : {"new", "body", "submit", "decoding", "reserve", "send", "respond", "answered", "gone"},
     parts : Nat, sent : Nat,
     answer : {None, "ok", "busy", "rejected", "error", "unavailable"}]

Pieces == [req : Requests, first : Nat, last : Nat]

RequestTypes ==
    /\ kind \in {"otlp", "arrow_ipc", "http"}
    /\ req \in [Requests -> Handlers]
    /\ in_flight \in Int /\ rx \in BOOLEAN
    /\ channel \in Seq(Pieces)

(* The jobs of a worker.                                                   *)
JobsOf(w) == Queued(w) \cup Held(w)

(* A worker holds a job exactly while it is at one, and has answered it    *)
(* before it lets go of it.                                                *)
WorkerState ==
    \A w \in Workers :
        /\ worker[w].job = None <=> worker[w].pc \in {"recv", "gone"}
        /\ worker[w].pc \in {"release", "closing", "leaving"} => result[worker[w].job] # None

(* A result is sent once: what will be answered was not.                   *)
OneAnswer ==
    /\ \A w \in Workers :
          /\ \A i \in DOMAIN queue[w] : result[queue[w][i]] = None
          /\ worker[w].pc \in {"process", "panicked"} => result[worker[w].job] = None
    /\ submitting # None => result[submitting.req] = None

(* A job is in one place.                                                  *)
OnePlace ==
    /\ \A w \in Workers :
          /\ \A i, j \in DOMAIN queue[w] : i # j => queue[w][i] # queue[w][j]
          /\ Held(w) \cap Queued(w) = {}
    /\ \A v, w \in Workers : v # w => JobsOf(v) \cap JobsOf(w) = {}
    /\ submitting # None => submitting.req \notin Jobs

(* A request without a decoder's job is not waiting for one.               *)
JobsSubmitted ==
    /\ \A r \in Jobs : req[r].pc \notin {"new", "body", "submit"}
    /\ submitting # None => req[submitting.req].pc = "decoding"
    /\ \A r \in Requests : req[r].pc \in {"new", "body", "submit"} => result[r] = None

(* Between two awaits one handler runs.                                    *)
OneAtATime ==
    /\ \A r, q \in Requests : req[r].pc \in Sync /\ req[q].pc \in Sync => r = q
    /\ submitting # None => \A r \in Requests : req[r].pc \notin Sync

(* Which handlers are where, and what they have sent by then.              *)
HandlerState ==
    /\ kind # "http" => deferred = None
    /\ \A r \in Requests :
          /\ req[r].pc \in {"submit", "decoding"} => kind = "otlp"
          /\ req[r].pc = "reserve" => kind = "arrow_ipc"
          /\ req[r].pc \in {"new", "body", "submit", "decoding", "reserve"} => req[r].sent = 0
          /\ kind = "arrow_ipc" => req[r].sent <= req[r].parts

StageInv ==
    /\ StageTypes /\ WorkerState /\ OneAnswer /\ OnePlace
    /\ IsFiniteSet(Jobs)
    /\ outstanding = Cardinality(Jobs) + (IF submitting = None THEN 0 ELSE 1)
    /\ outstanding <= MaxOutstanding

RoomExact ==
    kind = "arrow_ipc" /\ rx =>
        /\ Unsent = {} => in_flight = Len(channel)
        /\ \A r \in Unsent : in_flight = Len(channel) + (req[r].parts - req[r].sent)

RequestInv == RequestTypes /\ OneAtATime /\ HandlerState /\ RoomExact

(* The channel and its ends.                                               *)
ChannelState ==
    /\ delivered \in Seq(Pieces) /\ lost \in Seq(Pieces) /\ deferred \in {None} \cup Pieces
    /\ dropped \in Nat /\ (rx <=> dropped < 2)
    /\ rx => lost = <<>>
    /\ ~rx => channel = <<>> /\ deferred = None
    /\ kind = "arrow_ipc" /\ rx => in_flight <= Capacity

(* How far a request was sent.                                             *)
ReachOf(x) == IF kind = "arrow_ipc" THEN x.sent ELSE IF x.sent = 0 THEN 0 ELSE x.parts
Reach == [r \in Requests |-> ReachOf(req[r])]
Sizes == [r \in Requests |-> req[r].parts]

(* The pieces of each request follow each other without a gap.             *)
InOrder(s) ==
    \A i \in DOMAIN s :
        /\ 1 <= s[i].first /\ s[i].first <= s[i].last
        /\ \A j \in 1 .. i - 1 : s[j].req = s[i].req => s[j].last < s[i].first
        /\ s[i].first # 1 =>
              \E j \in 1 .. i - 1 : s[j].req = s[i].req /\ s[j].last = s[i].first - 1

(* They reach as far as the request was sent.                              *)
Reaches(s, reach) ==
    /\ \A i \in DOMAIN s : s[i].last <= reach[s[i].req]
    /\ \A r \in Requests : reach[r] > 0 => \E i \in DOMAIN s : s[i].req = r /\ s[i].last = reach[r]

(* A body that is not complete goes on with the next piece.                *)
Adjacent(s, sizes) ==
    \A i \in DOMAIN s :
        s[i].last = sizes[s[i].req] \/ (i < Len(s) /\ s[i + 1].req = s[i].req)

StreamOK ==
    InOrder(Stream) /\ Reaches(Stream, Reach) /\ (kind = "http" => Adjacent(Stream, Sizes))

(* What is sent of a request that its handler holds as x and whose decoder *)
(* has answered res, and what its answer says.                             *)
Told(x, res) ==
    /\ ReachOf(x) <= x.parts
    /\ kind # "arrow_ipc" => x.sent <= 1
    /\ kind = "otlp" /\ x.pc # "new" => x.parts > 0
    /\ kind = "http" /\ x.pc = "send" => x.parts > 0
    /\ x.pc \in {"new", "body", "submit", "decoding", "reserve", "send", "gone"} => x.answer = None
    /\ x.answer = "ok" /\ res # "empty" => ReachOf(x) = x.parts
    /\ x.answer \in {"busy", "rejected", "error"} => x.sent = 0
    /\ kind = "arrow_ipc" => x.answer # "error"

AllTold == \A r \in Requests : Told(req[r], result[r])

OutcomeInv == ChannelState /\ StreamOK /\ AllTold

ReceiverInv == StageInv /\ RequestInv /\ JobsSubmitted /\ NoHandlerStranded

(* The whole invariant.                                                    *)
FullInv == ReceiverInv /\ OutcomeInv

-----------------------------------------------------------------------------
(* Queues without repetition.                                              *)

Members(q) == {q[i] : i \in DOMAIN q}
Distinct(q) == \A i, j \in DOMAIN q : i # j => q[i] # q[j]

(* The rest of such a queue is its members without the first.              *)
LEMMA HeadAndTail ==
  ASSUME NEW S, NEW q \in Seq(S), Distinct(q), q # <<>>
  PROVE  /\ Head(q) \in S /\ Head(q) \in Members(q)
         /\ Tail(q) \in Seq(S) /\ Distinct(Tail(q))
         /\ Members(Tail(q)) = Members(q) \ {Head(q)}
<1>1. /\ Len(q) \in Nat \ {0} /\ DOMAIN q = 1 .. Len(q)
      /\ Head(q) = q[1] /\ Head(q) \in S
  BY EmptySeq, LenProperties, HeadTailProperties
<1>2. /\ Tail(q) \in Seq(S) /\ Len(Tail(q)) = Len(q) - 1
      /\ \A i \in 1 .. Len(q) - 1 : Tail(q)[i] = q[i + 1]
  BY HeadTailProperties
<1>3. DOMAIN Tail(q) = 1 .. Len(q) - 1
  BY <1>2, LenProperties
<1>4. Head(q) \in Members(q)
  BY <1>1 DEF Members
<1>5. Distinct(Tail(q))
  <2> SUFFICES ASSUME NEW i \in 1 .. Len(q) - 1, NEW j \in 1 .. Len(q) - 1, i # j
               PROVE  q[i + 1] # q[j + 1]
    BY <1>2, <1>3 DEF Distinct
  <2>1. i + 1 \in DOMAIN q /\ j + 1 \in DOMAIN q /\ i + 1 # j + 1
    BY <1>1
  <2> QED BY <2>1 DEF Distinct
<1>6. ASSUME NEW r \in Members(Tail(q)) PROVE r \in Members(q) \ {Head(q)}
  <2>1. PICK i \in 1 .. Len(q) - 1 : r = q[i + 1]
    BY <1>2, <1>3, <1>6 DEF Members
  <2>2. i + 1 \in DOMAIN q /\ 1 \in DOMAIN q /\ i + 1 # 1
    BY <1>1
  <2> QED BY <1>1, <2>1, <2>2 DEF Members, Distinct
<1>7. ASSUME NEW r \in Members(q) \ {Head(q)} PROVE r \in Members(Tail(q))
  <2>1. PICK i \in 1 .. Len(q) : r = q[i]
    BY <1>1, <1>7 DEF Members
  <2>2. i - 1 \in 1 .. Len(q) - 1 /\ (i - 1) + 1 = i
    BY <1>1, <1>7, <2>1
  <2> QED BY <1>2, <1>3, <2>1, <2>2 DEF Members
<1> QED BY <1>1, <1>2, <1>4, <1>5, <1>6, <1>7

(* It has as many members as its length.                                   *)
LEMMA QueueSize ==
  ASSUME NEW S, NEW q \in Seq(S), Distinct(q)
  PROVE  IsFiniteSet(Members(q)) /\ Cardinality(Members(q)) = Len(q) /\ Len(q) \in Nat
<1>1. Len(q) \in Nat /\ DOMAIN q = 1 .. Len(q)
  BY LenProperties
<1>2. IsFiniteSet(DOMAIN q) /\ Cardinality(DOMAIN q) = Len(q)
  BY <1>1, FS_Interval
<1>3. q \in Surjection(DOMAIN q, Members(q)) /\ q \in Injection(DOMAIN q, Members(q))
  <2>1. q \in [DOMAIN q -> Members(q)]
    BY <1>1, LenProperties DEF Members
  <2> QED BY <2>1 DEF Surjection, Injection, IsInjective, Members, Distinct
<1> QED BY <1>1, <1>2, <1>3, FS_Surjection

(* A job that is appended to such a queue is its last.                     *)
LEMMA Appended ==
  ASSUME NEW S, NEW q \in Seq(S), Distinct(q), NEW r \in S, r \notin Members(q)
  PROVE  /\ Append(q, r) \in Seq(S) /\ Distinct(Append(q, r))
         /\ Members(Append(q, r)) = Members(q) \cup {r}
<1>1. Len(q) \in Nat /\ DOMAIN q = 1 .. Len(q)
  BY LenProperties
<1>2. /\ Append(q, r) \in Seq(S) /\ Len(Append(q, r)) = Len(q) + 1
      /\ \A i \in 1 .. Len(q) : Append(q, r)[i] = q[i]
      /\ Append(q, r)[Len(q) + 1] = r
  BY AppendProperties
<1>3. DOMAIN Append(q, r) = 1 .. Len(q) + 1
  BY <1>2, LenProperties
<1>4. \A i \in 1 .. Len(q) + 1 : i \in 1 .. Len(q) \/ i = Len(q) + 1
  BY <1>1
<1>5. \A i \in 1 .. Len(q) : i \in 1 .. Len(q) + 1
  BY <1>1
<1>6. Len(q) + 1 \in 1 .. Len(q) + 1
  BY <1>1
<1>7. Members(Append(q, r)) = Members(q) \cup {r}
  BY <1>1, <1>2, <1>3, <1>4, <1>5, <1>6 DEF Members
<1>8. \A i \in 1 .. Len(q) : q[i] # r
  BY <1>1 DEF Members
<1>9. Distinct(Append(q, r))
  BY <1>1, <1>2, <1>3, <1>4, <1>8 DEF Distinct
<1> QED BY <1>2, <1>7, <1>9
-----------------------------------------------------------------------------
(* Steps of a worker.                                                      *)

HeldAt(x) == IF x.job = None THEN {} ELSE {x.job}

(* The part of the invariant that is about the handlers that wait.         *)
WaitInv == JobsSubmitted /\ NoHandlerStranded

(* A worker's jobs in terms of its queue and its place.                    *)
LEMMA JobsAre ==
  ASSUME NEW w \in Workers
  PROVE  /\ Queued(w) = Members(queue[w]) /\ Held(w) = HeldAt(worker[w])
         /\ Queued(w)' = Members(queue'[w]) /\ Held(w)' = HeldAt(worker'[w])
BY DEF Queued, Held, Members, HeldAt

(* What a worker does to its own queue and place: it answers what it lets  *)
(* go of, takes no job from elsewhere and releases as many reservations as *)
(* it let go of jobs.                                                      *)
WorkerMoves(w, q, x, count) ==
    /\ queue' = [queue EXCEPT ![w] = q] /\ worker' = [worker EXCEPT ![w] = x]
    /\ UNCHANGED <<next_worker, submitting>>
    /\ result' \in [Requests -> Results]
    /\ \A r \in Requests : result[r] # None \/ r \notin JobsOf(w) => result'[r] = result[r]
    /\ \A r \in Members(q) : result'[r] = None
    /\ x.pc \in {"process", "panicked"} => result'[x.job] = None
    /\ x.job = None <=> x.pc \in {"recv", "gone"}
    /\ x.pc \in {"release", "closing", "leaving"} => result'[x.job] # None
    /\ x.pc = "gone" => q = <<>>
    /\ Distinct(q) /\ HeldAt(x) \cap Members(q) = {}
    /\ Members(q) \cup HeldAt(x) \subseteq JobsOf(w)
    /\ \A r \in JobsOf(w) \ (Members(q) \cup HeldAt(x)) : result'[r] # None
    /\ IsFiniteSet(JobsOf(w) \ (Members(q) \cup HeldAt(x)))
    /\ count = Cardinality(JobsOf(w) \ (Members(q) \cup HeldAt(x)))
    /\ outstanding' = outstanding - count

(* Such a step touches the jobs of its worker only.                        *)
LEMMA OthersKeepJobs ==
  ASSUME StageInv, NEW w \in Workers, NEW q \in Seq(Requests), NEW x \in Places, NEW n \in Nat,
         WorkerMoves(w, q, x, n)
  PROVE  /\ JobsOf(w)' = Members(q) \cup HeldAt(x)
         /\ \A v \in Workers : v # w => /\ JobsOf(v)' = JobsOf(v) /\ Held(v)' = Held(v)
                                        /\ Queued(v)' = Queued(v)
         /\ Queued(w)' = Members(q) /\ Held(w)' = HeldAt(x)
         /\ Jobs' = Jobs \ (JobsOf(w) \ (Members(q) \cup HeldAt(x)))
<1>1. /\ queue \in [Workers -> Seq(Requests)] /\ worker \in [Workers -> Places]
      /\ queue' = [queue EXCEPT ![w] = q] /\ worker' = [worker EXCEPT ![w] = x]
  BY DEF StageInv, StageTypes, WorkerMoves
<1>2. /\ queue'[w] = q /\ worker'[w] = x
      /\ \A v \in Workers : v # w => queue'[v] = queue[v] /\ worker'[v] = worker[v]
  BY <1>1
<1>3. Queued(w)' = Members(q) /\ Held(w)' = HeldAt(x)
  BY <1>2, JobsAre
<1>4. \A v \in Workers : v # w => Held(v)' = Held(v) /\ Queued(v)' = Queued(v)
  BY <1>2, JobsAre
<1>5. JobsOf(w)' = Members(q) \cup HeldAt(x)
  BY <1>3 DEF JobsOf
<1>6. \A v \in Workers : v # w => JobsOf(v)' = JobsOf(v)
  BY <1>4 DEF JobsOf
<1>7. Jobs = UNION {JobsOf(v) : v \in Workers} /\ Jobs' = UNION {JobsOf(v)' : v \in Workers}
  BY DEF Jobs, JobsOf
<1>8. /\ \A u, v \in Workers : u # v => JobsOf(u) \cap JobsOf(v) = {}
      /\ Members(q) \cup HeldAt(x) \subseteq JobsOf(w)
  BY DEF StageInv, OnePlace, WorkerMoves
<1>9. Jobs' = Jobs \ (JobsOf(w) \ (Members(q) \cup HeldAt(x)))
  <2> DEFINE new == Members(q) \cup HeldAt(x)
  <2>1. \A r : r \in Jobs' <=> r \in new \/ \E v \in Workers : v # w /\ r \in JobsOf(v)
    BY <1>5, <1>6, <1>7
  <2>2. \A r : r \in Jobs <=> r \in JobsOf(w) \/ \E v \in Workers : v # w /\ r \in JobsOf(v)
    BY <1>7
  <2>3. new \subseteq JobsOf(w)
    BY <1>8
  <2>4. \A r \in JobsOf(w) : ~\E v \in Workers : v # w /\ r \in JobsOf(v)
    BY <1>8
  <2> HIDE DEF new, Jobs, JobsOf
  <2>5. Jobs' = Jobs \ (JobsOf(w) \ new)
    <3>1. \A r : r \in Jobs' <=> r \in Jobs /\ ~(r \in JobsOf(w) /\ r \notin new)
      BY <2>1, <2>2, <2>3, <2>4
    <3> QED BY <3>1
  <2> QED BY <2>5 DEF new
<1> QED BY <1>3, <1>4, <1>5, <1>6, <1>9

(* It keeps the invariant of the stage.                                    *)
LEMMA MovesKeepStage ==
  ASSUME StageInv, NEW w \in Workers, NEW q \in Seq(Requests), NEW x \in Places, NEW n \in Nat,
         WorkerMoves(w, q, x, n)
  PROVE  StageInv'
<1> DEFINE out == JobsOf(w) \ (Members(q) \cup HeldAt(x))
<1>1. /\ JobsOf(w)' = Members(q) \cup HeldAt(x)
      /\ \A v \in Workers : v # w => /\ JobsOf(v)' = JobsOf(v) /\ Held(v)' = Held(v)
                                     /\ Queued(v)' = Queued(v)
      /\ Queued(w)' = Members(q) /\ Held(w)' = HeldAt(x)
      /\ Jobs' = Jobs \ out
  BY OthersKeepJobs
<1>2. /\ queue \in [Workers -> Seq(Requests)] /\ worker \in [Workers -> Places]
      /\ queue' = [queue EXCEPT ![w] = q] /\ worker' = [worker EXCEPT ![w] = x]
      /\ outstanding' = outstanding - n /\ outstanding \in Int
      /\ next_worker' = next_worker /\ submitting' = submitting
      /\ result' \in [Requests -> Results]
  BY DEF StageInv, StageTypes, WorkerMoves
<1>3. StageTypes'
  BY <1>2 DEF StageInv, StageTypes
<1>4. WorkerState'
  <2> SUFFICES ASSUME NEW v \in Workers
               PROVE  /\ worker'[v].job = None <=> worker'[v].pc \in {"recv", "gone"}
                      /\ worker'[v].pc \in {"release", "closing", "leaving"} =>
                            result'[worker'[v].job] # None
    BY DEF WorkerState
  <2>1. CASE v = w
    <3>1. worker'[v] = x
      BY <1>2, <2>1
    <3> QED BY <3>1 DEF WorkerMoves
  <2>2. CASE v # w
    <3>1. worker'[v] = worker[v] /\ worker[v] \in Places
      BY <1>2, <2>2
    <3>2. /\ worker[v].job = None <=> worker[v].pc \in {"recv", "gone"}
          /\ worker[v].pc \in {"release", "closing", "leaving"} => result[worker[v].job] # None
      BY DEF StageInv, WorkerState
    <3>3. worker[v].pc \in {"release", "closing", "leaving"} => worker[v].job \in Requests
      BY <3>1, <3>2 DEF Places
    <3> QED BY <3>1, <3>2, <3>3 DEF WorkerMoves
  <2> QED BY <2>1, <2>2
<1>5. OnePlace'
  <2>1. ASSUME NEW v \in Workers
        PROVE  Distinct(queue'[v]) /\ (Held(v) \cap Queued(v) = {})'
    <3>1. CASE v = w
      <4>1. queue'[v] = q
        BY <1>2, <3>1
      <4> QED BY <1>1, <3>1, <4>1 DEF WorkerMoves
    <3>2. CASE v # w
      <4>1. queue'[v] = queue[v]
        BY <1>2, <3>2
      <4>2. Distinct(queue[v]) /\ Held(v) \cap Queued(v) = {}
        BY DEF StageInv, OnePlace, Distinct
      <4> QED BY <1>1, <3>2, <4>1, <4>2
    <3> QED BY <3>1, <3>2
  <2>2. ASSUME NEW u \in Workers, NEW v \in Workers, u # v
        PROVE  (JobsOf(u) \cap JobsOf(v) = {})'
    <3>1. JobsOf(u)' \subseteq JobsOf(u) /\ JobsOf(v)' \subseteq JobsOf(v)
      BY <1>1 DEF WorkerMoves
    <3>2. JobsOf(u) \cap JobsOf(v) = {}
      BY <2>2 DEF StageInv, OnePlace
    <3> QED BY ONLY <3>1, <3>2
  <2>3. (submitting # None => submitting.req \notin Jobs)'
    <3>1. submitting # None => submitting.req \notin Jobs
      BY DEF StageInv, OnePlace
    <3> QED BY ONLY <1>1, <1>2, <3>1
  <2> QED BY <2>1, <2>2, <2>3 DEF OnePlace, Distinct
<1>6. /\ IsFiniteSet(Jobs)' /\ Cardinality(Jobs') = Cardinality(Jobs) - n
      /\ Cardinality(Jobs) \in Nat
  <2>1. IsFiniteSet(Jobs) /\ out \subseteq Jobs /\ n = Cardinality(out)
    BY DEF StageInv, WorkerMoves, Jobs, JobsOf
  <2>2. Jobs \cap out = out
    BY <2>1
  <2> HIDE DEF out
  <2>3. IsFiniteSet(Jobs \ out) /\ Cardinality(Jobs \ out) = Cardinality(Jobs) - Cardinality(out)
    BY <2>1, <2>2, FS_Difference
  <2>4. Cardinality(Jobs) \in Nat
    BY <2>1, FS_CardinalityType
  <2> QED BY ONLY <1>1, <2>1, <2>3, <2>4
<1>7. (outstanding = Cardinality(Jobs) + (IF submitting = None THEN 0 ELSE 1))'
  <2>1. outstanding = Cardinality(Jobs) + (IF submitting = None THEN 0 ELSE 1)
    BY DEF StageInv
  <2> QED BY ONLY <1>2, <1>6, <2>1, n \in Nat
<1>8. (outstanding <= MaxOutstanding)'
  <2>1. outstanding <= MaxOutstanding /\ MaxOutstanding \in Nat
    BY StageAssumptions DEF StageInv
  <2> QED BY ONLY <1>2, <2>1, n \in Nat
<1>9. OneAnswer'
  <2>1. OneAnswer
    BY DEF StageInv
  <2>2. ASSUME NEW v \in Workers
        PROVE  /\ \A r \in Members(queue'[v]) : result'[r] = None
               /\ worker'[v].pc \in {"process", "panicked"} => result'[worker'[v].job] = None
    <3>1. CASE v = w
      <4>1. queue'[v] = q /\ worker'[v] = x
        BY <1>2, <3>1
      <4> QED BY <4>1 DEF WorkerMoves
    <3>2. CASE v # w
      <4>1. queue'[v] = queue[v] /\ worker'[v] = worker[v] /\ worker[v] \in Places
        BY <1>2, <3>2
      <4>2. \A r \in JobsOf(v) : r \in Requests /\ r \notin JobsOf(w)
        <5>1. JobsOf(v) \cap JobsOf(w) = {}
          BY <3>2 DEF StageInv, OnePlace
        <5>2. Queued(v) \subseteq Requests
          BY <1>2 DEF Queued
        <5>3. Held(v) \subseteq Requests
          BY <4>1 DEF Held, Places
        <5> QED BY <5>1, <5>2, <5>3 DEF JobsOf
      <4>3. Members(queue[v]) \subseteq JobsOf(v) /\ HeldAt(worker[v]) \subseteq JobsOf(v)
        BY JobsAre DEF JobsOf
      <4>4. \A r \in JobsOf(v) : result'[r] = result[r]
        BY <4>2 DEF WorkerMoves
      <4>5. \A r \in Members(queue[v]) : result[r] = None
        BY <2>1 DEF OneAnswer, Members
      <4>6. worker[v].pc \in {"process", "panicked"} =>
                worker[v].job \in JobsOf(v) /\ result[worker[v].job] = None
        BY <2>1, <4>3 DEF OneAnswer, HeldAt, StageInv, WorkerState
      <4> QED BY ONLY <4>1, <4>3, <4>4, <4>5, <4>6
    <3> QED BY <3>1, <3>2
  <2>3. submitting' # None => result'[submitting'.req] = None
    <3>1. submitting # None => /\ submitting.req \in Requests /\ submitting.req \notin JobsOf(w)
                               /\ result[submitting.req] = None
      BY <2>1 DEF StageInv, StageTypes, OnePlace, OneAnswer, Submissions, Jobs, JobsOf
    <3> QED BY <1>2, <3>1 DEF WorkerMoves
  <2>4. \A v \in Workers : \A i \in DOMAIN queue'[v] : result'[queue'[v][i]] = None
    BY <2>2 DEF Members
  <2> QED BY <2>2, <2>3, <2>4 DEF OneAnswer
<1> QED BY <1>3, <1>4, <1>5, <1>6, <1>7, <1>8, <1>9 DEF StageInv

(* And no handler is left by it, as long as the handlers do nothing.       *)
LEMMA MovesKeepWait ==
  ASSUME StageInv, WaitInv, RequestTypes, NEW w \in Workers, NEW q \in Seq(Requests),
         NEW x \in Places, NEW n \in Nat, WorkerMoves(w, q, x, n), req' = req
  PROVE  WaitInv'
<1>1. /\ JobsOf(w)' = Members(q) \cup HeldAt(x)
      /\ \A v \in Workers : v # w => JobsOf(v)' = JobsOf(v)
      /\ Jobs' \subseteq Jobs
  BY OthersKeepJobs
<1>2. /\ worker' = [worker EXCEPT ![w] = x] /\ worker \in [Workers -> Places]
      /\ submitting' = submitting
  BY DEF StageInv, StageTypes, WorkerMoves
<1>3. JobsSubmitted'
  <2>1. /\ \A r \in Jobs : req[r].pc \notin {"new", "body", "submit"}
        /\ submitting # None => req[submitting.req].pc = "decoding"
        /\ \A r \in Requests : req[r].pc \in {"new", "body", "submit"} => result[r] = None
    BY DEF WaitInv, JobsSubmitted
  <2>2. /\ \A r \in Jobs' : req'[r].pc \notin {"new", "body", "submit"}
        /\ submitting' # None => req'[submitting'.req].pc = "decoding"
    BY ONLY <1>1, <1>2, <2>1, req' = req
  <2>3. ASSUME NEW r \in Requests, req[r].pc \in {"new", "body", "submit"}
        PROVE  result'[r] = None
    <3>1. r \notin JobsOf(w)
      BY <2>1, <2>3 DEF Jobs, JobsOf
    <3> QED BY <2>1, <2>3, <3>1 DEF WorkerMoves
  <2> QED BY <2>2, <2>3 DEF JobsSubmitted
<1>4. NoHandlerStranded'
  <2> SUFFICES ASSUME NEW r \in Requests, req[r].pc = "decoding", result'[r] = None
               PROVE  \/ submitting # None /\ submitting.req = r
                      \/ \E v \in Workers : worker'[v].pc # "gone" /\ r \in JobsOf(v)'
    BY <1>2 DEF NoHandlerStranded, JobsOf
  <2>1. result[r] = None
    BY DEF WorkerMoves
  <2>2. CASE submitting # None /\ submitting.req = r
    BY <2>2
  <2>3. ASSUME NEW v \in Workers, worker[v].pc # "gone", r \in JobsOf(v)
        PROVE  worker'[v].pc # "gone" /\ r \in JobsOf(v)'
    <3>1. CASE v # w
      BY <1>1, <1>2, <2>3, <3>1
    <3>2. CASE v = w
      <4>1. r \in Members(q) \cup HeldAt(x)
        BY <2>3, <3>2 DEF WorkerMoves
      <4>2. worker'[v] = x
        BY <1>2, <3>2
      <4>3. x.pc # "gone"
        <5>1. x.pc = "gone" => q = <<>> /\ x.job = None
          BY DEF WorkerMoves
        <5>2. q = <<>> /\ x.job = None => Members(q) \cup HeldAt(x) = {}
          BY DEF Members, HeldAt
        <5> QED BY ONLY <4>1, <5>1, <5>2
      <4> QED BY ONLY <1>1, <3>2, <4>1, <4>2, <4>3
    <3> QED BY <3>1, <3>2
  <2>4. \/ submitting # None /\ submitting.req = r
        \/ \E v \in Workers : worker[v].pc # "gone" /\ r \in JobsOf(v)
    BY <2>1 DEF WaitInv, NoHandlerStranded, JobsOf
  <2> QED BY <2>2, <2>3, <2>4
<1> QED BY <1>3, <1>4 DEF WaitInv

-----------------------------------------------------------------------------
(* Each step of a worker is such a move.                                   *)

Answers == {"rows", "empty", "invalid", "full", "internal"}

Moves(w) == \E q \in Seq(Requests), x \in Places, n \in Nat : WorkerMoves(w, q, x, n)

(* What the invariant says of one worker.                                  *)
LEMMA WorkerFacts ==
  ASSUME StageInv, NEW w \in Workers
  PROVE  /\ queue[w] \in Seq(Requests) /\ Distinct(queue[w])
         /\ worker[w] \in Places /\ worker[w] = [pc |-> worker[w].pc, job |-> worker[w].job]
         /\ worker[w].job = None <=> worker[w].pc \in {"recv", "gone"}
         /\ worker[w].pc \in {"release", "closing", "leaving"} => result[worker[w].job] # None
         /\ HeldAt(worker[w]) \cap Members(queue[w]) = {}
         /\ JobsOf(w) = Members(queue[w]) \cup HeldAt(worker[w])
         /\ JobsOf(w) \subseteq Requests
         /\ queue = [queue EXCEPT ![w] = queue[w]] /\ worker = [worker EXCEPT ![w] = worker[w]]
         /\ result \in [Requests -> Results] /\ outstanding \in Int
         /\ \A r \in Members(queue[w]) : result[r] = None
         /\ worker[w].pc \in {"process", "panicked"} => result[worker[w].job] = None
<1>1. StageTypes /\ WorkerState /\ OneAnswer /\ OnePlace
  BY DEF StageInv
<1>2. queue[w] \in Seq(Requests) /\ worker[w] \in Places
  BY <1>1 DEF StageTypes
<1>3. Distinct(queue[w]) /\ HeldAt(worker[w]) \cap Members(queue[w]) = {}
  BY <1>1, JobsAre DEF OnePlace, Distinct
<1>4. JobsOf(w) = Members(queue[w]) \cup HeldAt(worker[w])
  BY JobsAre DEF JobsOf
<1>5. JobsOf(w) \subseteq Requests
  <2>1. Members(queue[w]) \subseteq Requests
    BY <1>2, LenProperties, ElementOfSeq DEF Members
  <2>2. HeldAt(worker[w]) \subseteq Requests
    BY <1>2 DEF HeldAt, Places
  <2> QED BY <1>4, <2>1, <2>2
<1>6. worker[w] = [pc |-> worker[w].pc, job |-> worker[w].job]
  BY <1>2 DEF Places
<1>7. queue = [queue EXCEPT ![w] = queue[w]] /\ worker = [worker EXCEPT ![w] = worker[w]]
  BY <1>1 DEF StageTypes
<1>8. /\ worker[w].job = None <=> worker[w].pc \in {"recv", "gone"}
      /\ worker[w].pc \in {"release", "closing", "leaving"} => result[worker[w].job] # None
  BY <1>1 DEF WorkerState
<1>9. result \in [Requests -> Results] /\ outstanding \in Int
  BY <1>1 DEF StageTypes
<1>10. /\ \A r \in Members(queue[w]) : result[r] = None
       /\ worker[w].pc \in {"process", "panicked"} => result[worker[w].job] = None
  BY <1>1 DEF OneAnswer, Members
<1> QED BY <1>2, <1>3, <1>4, <1>5, <1>6, <1>7, <1>8, <1>9, <1>10

(* Answers are kept and are answers.                                       *)
LEMMA AnswerFacts ==
  ASSUME result \in [Requests -> Results], NEW jobs, NEW value \in Answers, Answer(jobs, value)
  PROVE  /\ result' \in [Requests -> Results]
         /\ \A r \in Requests : r \notin jobs => result'[r] = result[r]
         /\ \A r \in Requests : r \in jobs => result'[r] # None
<1>1. value # None /\ value \in Results
  BY StageAssumptions DEF Answers, Results
<1> QED BY <1>1 DEF Answer

(* The reservations released are those of the jobs that are gone.          *)
LEMMA NoneGone ==
  /\ \A S : IsFiniteSet(S \ S) /\ Cardinality(S \ S) = 0
BY FS_EmptySet

(* A job is taken from the queue, and answered at once if the stage is     *)
(* closed.                                                                 *)
LEMMA TakeMoves ==
  ASSUME StageInv, NEW w \in Workers, Take(w)
  PROVE  Moves(w)
<1> DEFINE job == Head(queue[w])
           closed == is_worker_failed \/ is_shutting_down
           x == [pc |-> IF closed THEN "closing" ELSE "process", job |-> job]
           q == Tail(queue[w])
<1>1. /\ queue[w] \in Seq(Requests) /\ Distinct(queue[w]) /\ queue[w] # <<>>
      /\ worker[w].pc = "recv" /\ worker[w].job = None
      /\ JobsOf(w) = Members(queue[w]) \cup HeldAt(worker[w]) /\ JobsOf(w) \subseteq Requests
      /\ result \in [Requests -> Results] /\ outstanding \in Int
      /\ \A r \in Members(queue[w]) : result[r] = None
  BY WorkerFacts DEF Take
<1>2. /\ job \in Requests /\ job \in Members(queue[w]) /\ q \in Seq(Requests) /\ Distinct(q)
      /\ Members(q) = Members(queue[w]) \ {job}
  BY <1>1, HeadAndTail
<1>3. job # None
  BY <1>2, StageAssumptions
<1>4. /\ queue' = [queue EXCEPT ![w] = q] /\ worker' = [worker EXCEPT ![w] = x]
      /\ Answer(IF closed THEN {job} ELSE {}, "internal")
      /\ UNCHANGED <<outstanding, next_worker, submitting>>
  BY DEF Take, WorkerGoes
<1> HIDE DEF job, q
<1>5. x \in Places /\ x.job = job
  BY <1>2 DEF Places
<1>6. HeldAt(x) = {job} /\ HeldAt(worker[w]) = {}
  BY <1>1, <1>3, <1>5 DEF HeldAt
<1>7. Members(q) \cup HeldAt(x) = JobsOf(w) /\ HeldAt(x) \cap Members(q) = {}
  BY <1>1, <1>2, <1>6
<1>8. /\ result' \in [Requests -> Results]
      /\ \A r \in Requests : r # job => result'[r] = result[r]
      /\ closed => result'[job] # None
      /\ ~closed => result'[job] = result[job]
  <2>1. "internal" \in Answers
    BY DEF Answers
  <2> QED BY <1>1, <1>2, <1>4, <2>1, AnswerFacts
<1>9. WorkerMoves(w, q, x, 0)
  <2>2. /\ x.job = None <=> x.pc \in {"recv", "gone"}
        /\ x.pc \in {"release", "closing", "leaving"} => result'[x.job] # None
        /\ x.pc = "gone" => q = <<>>
    BY <1>3, <1>8
  <2>3. /\ Members(q) \cup HeldAt(x) \subseteq JobsOf(w)
        /\ JobsOf(w) \ (Members(q) \cup HeldAt(x)) = {}
        /\ IsFiniteSet({}) /\ Cardinality({}) = 0
    BY <1>7, FS_EmptySet
  <2>4. outstanding' = outstanding - 0
    BY <1>1, <1>4
  <2>5. /\ \A r \in Requests : result[r] # None \/ r \notin JobsOf(w) => result'[r] = result[r]
        /\ \A r \in Members(q) : result'[r] = None
        /\ x.pc \in {"process", "panicked"} => result'[x.job] = None
    BY <1>1, <1>2, <1>8
  <2> HIDE DEF x
  <2> QED BY <1>2, <1>4, <1>7, <1>8, <2>2, <2>3, <2>4, <2>5 DEF WorkerMoves
<1> QED BY <1>2, <1>5, <1>9 DEF Moves

(* A step that keeps the job and the queue.                                *)
LEMMA PlaceMoves ==
  ASSUME StageInv, NEW w \in Workers,
         NEW pc \in {"process", "panicked", "release", "closing", "leaving"},
         worker[w].pc \notin {"recv", "gone"},
         WorkerGoes(w, pc, worker[w].job), UNCHANGED <<outstanding, next_worker, queue, submitting>>,
         \/ /\ UNCHANGED result
            /\ \/ pc = "panicked" /\ worker[w].pc = "process"
               \/ pc = "leaving" /\ worker[w].pc = "closing"
         \/ /\ pc \in {"release", "closing"} /\ worker[w].pc \in {"process", "panicked"}
            /\ \E value \in Answers : Answer(Held(w), value)
  PROVE  Moves(w)
<1> DEFINE x == [pc |-> pc, job |-> worker[w].job]
<1>1. /\ queue[w] \in Seq(Requests) /\ Distinct(queue[w]) /\ worker[w] \in Places
      /\ worker[w].job = None <=> worker[w].pc \in {"recv", "gone"}
      /\ worker[w].pc \in {"release", "closing", "leaving"} => result[worker[w].job] # None
      /\ HeldAt(worker[w]) \cap Members(queue[w]) = {}
      /\ JobsOf(w) = Members(queue[w]) \cup HeldAt(worker[w])
      /\ queue = [queue EXCEPT ![w] = queue[w]]
      /\ result \in [Requests -> Results] /\ outstanding \in Int
      /\ JobsOf(w) \subseteq Requests
      /\ \A r \in Members(queue[w]) : result[r] = None
      /\ worker[w].pc \in {"process", "panicked"} => result[worker[w].job] = None
  BY WorkerFacts
<1>2. x \in Places /\ worker[w].job \in Requests /\ worker[w].job # None
  BY <1>1 DEF Places
<1>3. HeldAt(x) = HeldAt(worker[w]) /\ Held(w) = {worker[w].job}
  BY <1>2, JobsAre DEF HeldAt
<1>4. /\ result' \in [Requests -> Results]
      /\ \A r \in Requests : r # worker[w].job => result'[r] = result[r]
      /\ pc # "panicked" => result'[worker[w].job] # None
      /\ pc \in {"process", "panicked"} => result'[worker[w].job] = None
      /\ result[worker[w].job] # None => result'[worker[w].job] = result[worker[w].job]
  <2>1. CASE /\ UNCHANGED result
             /\ \/ pc = "panicked" /\ worker[w].pc = "process"
                \/ pc = "leaving" /\ worker[w].pc = "closing"
    BY <1>1, <2>1
  <2>2. CASE /\ pc \in {"release", "closing"} /\ worker[w].pc \in {"process", "panicked"}
             /\ \E value \in Answers : Answer(Held(w), value)
    <3>1. PICK value \in Answers : Answer(Held(w), value)
      BY <2>2
    <3>2. /\ result' \in [Requests -> Results]
          /\ \A r \in Requests : r \notin Held(w) => result'[r] = result[r]
          /\ \A r \in Requests : r \in Held(w) => result'[r] # None
      BY <1>1, <3>1, AnswerFacts
    <3> QED BY <1>1, <1>2, <1>3, <2>2, <3>2
  <2> QED BY <2>1, <2>2
<1>5. WorkerMoves(w, queue[w], x, 0)
  <2>1. IsFiniteSet(JobsOf(w) \ JobsOf(w)) /\ Cardinality(JobsOf(w) \ JobsOf(w)) = 0
    BY NoneGone
  <2>2. Members(queue[w]) \cup HeldAt(x) = JobsOf(w)
    BY <1>1, <1>3
  <2>3. queue' = [queue EXCEPT ![w] = queue[w]] /\ worker' = [worker EXCEPT ![w] = x]
    BY <1>1 DEF WorkerGoes
  <2>4. /\ x.job = None <=> x.pc \in {"recv", "gone"}
        /\ x.pc \in {"release", "closing", "leaving"} => result'[x.job] # None
        /\ x.pc = "gone" => queue[w] = <<>>
    BY <1>2, <1>4
  <2>5. /\ \A r \in Requests : result[r] # None \/ r \notin JobsOf(w) => result'[r] = result[r]
        /\ \A r \in Members(queue[w]) : result'[r] = None
        /\ x.pc \in {"process", "panicked"} => result'[x.job] = None
    <3>1. worker[w].job \in JobsOf(w) /\ worker[w].job \notin Members(queue[w])
      BY <1>1, <1>2, <1>3, JobsAre DEF JobsOf
    <3> QED BY <1>1, <1>4, <3>1
  <2> HIDE DEF x
  <2> QED BY <1>1, <1>3, <1>4, <2>1, <2>2, <2>3, <2>4, <2>5 DEF WorkerMoves
<1> QED BY <1>1, <1>2, <1>5 DEF Moves

(* The reservation is released after the answer.                           *)
LEMMA ReleaseMoves ==
  ASSUME StageInv, NEW w \in Workers, Releases(w)
  PROVE  Moves(w)
<1> DEFINE x == [pc |-> "recv", job |-> None]
           job == worker[w].job
<1>1. /\ queue[w] \in Seq(Requests) /\ Distinct(queue[w]) /\ worker[w] \in Places
      /\ job # None /\ result[job] # None
      /\ HeldAt(worker[w]) \cap Members(queue[w]) = {}
      /\ JobsOf(w) = Members(queue[w]) \cup HeldAt(worker[w])
      /\ queue = [queue EXCEPT ![w] = queue[w]]
      /\ result \in [Requests -> Results] /\ outstanding \in Int
      /\ \A r \in Members(queue[w]) : result[r] = None
  BY WorkerFacts DEF Releases
<1>2. x \in Places /\ HeldAt(x) = {} /\ HeldAt(worker[w]) = {job}
  BY <1>1 DEF Places, HeldAt
<1>3. JobsOf(w) \ (Members(queue[w]) \cup HeldAt(x)) = {job}
  BY <1>1, <1>2
<1>4. IsFiniteSet({job}) /\ Cardinality({job}) = 1
  BY FS_Singleton
<1>5. /\ queue' = [queue EXCEPT ![w] = queue[w]] /\ worker' = [worker EXCEPT ![w] = x]
      /\ UNCHANGED <<next_worker, submitting, result>> /\ outstanding' = outstanding - 1
  BY <1>1 DEF Releases, WorkerGoes
<1>6. WorkerMoves(w, queue[w], x, 1)
  <2>1. Members(queue[w]) \cup HeldAt(x) \subseteq JobsOf(w)
    BY <1>1, <1>2
  <2>2. /\ x.job = None <=> x.pc \in {"recv", "gone"}
        /\ x.pc \notin {"release", "closing", "leaving", "gone", "process", "panicked"}
    OBVIOUS
  <2> HIDE DEF x, job
  <2> QED BY <1>1, <1>2, <1>3, <1>4, <1>5, <2>1, <2>2 DEF WorkerMoves
<1> QED BY <1>1, <1>2, <1>6 DEF Moves

(* A pending job is closed, or none is left.                               *)
LEMMA CloseMoves ==
  ASSUME StageInv, NEW w \in Workers, ClosesPending(w)
  PROVE  Moves(w)
<1>1. /\ queue[w] \in Seq(Requests) /\ Distinct(queue[w]) /\ worker[w] \in Places
      /\ worker[w].pc = "closing" /\ worker[w].job # None /\ result[worker[w].job] # None
      /\ HeldAt(worker[w]) \cap Members(queue[w]) = {}
      /\ JobsOf(w) = Members(queue[w]) \cup HeldAt(worker[w]) /\ JobsOf(w) \subseteq Requests
      /\ worker = [worker EXCEPT ![w] = worker[w]]
      /\ result \in [Requests -> Results] /\ outstanding \in Int
      /\ \A r \in Members(queue[w]) : result[r] = None
  BY WorkerFacts DEF ClosesPending
<1>2. CASE queue[w] = <<>> /\ WorkerGoes(w, "leaving", worker[w].job)
             /\ UNCHANGED <<queue, result, outstanding>>
  BY <1>1, <1>2, PlaceMoves DEF ClosesPending
<1>3. CASE /\ queue[w] # <<>>
           /\ queue' = [queue EXCEPT ![w] = Tail(queue[w])]
           /\ Answer({Head(queue[w])}, "internal")
           /\ outstanding' = outstanding - 1
           /\ UNCHANGED worker
  <2> DEFINE job == Head(queue[w])
             q == Tail(queue[w])
  <2>1. /\ job \in Requests /\ job \in Members(queue[w]) /\ q \in Seq(Requests) /\ Distinct(q)
        /\ Members(q) = Members(queue[w]) \ {job}
    BY <1>1, <1>3, HeadAndTail
  <2>2. /\ result' \in [Requests -> Results]
        /\ \A r \in Requests : r # job => result'[r] = result[r]
        /\ result'[job] # None
    <3>1. "internal" \in Answers
      BY DEF Answers
    <3> QED BY <1>1, <1>3, <2>1, <3>1, AnswerFacts
  <2>3. queue' = [queue EXCEPT ![w] = q] /\ UNCHANGED <<next_worker, submitting>>
    BY <1>3 DEF ClosesPending
  <2> HIDE DEF job, q
  <2>4. JobsOf(w) \ (Members(q) \cup HeldAt(worker[w])) = {job}
    BY <1>1, <2>1
  <2>5. IsFiniteSet({job}) /\ Cardinality({job}) = 1
    BY FS_Singleton
  <2>6. Members(q) \cup HeldAt(worker[w]) \subseteq JobsOf(w) /\ HeldAt(worker[w]) \cap Members(q) = {}
    BY <1>1, <2>1
  <2>7. worker[w].job \in Requests
    BY <1>1 DEF Places
  <2>8. /\ \A r \in Requests : result[r] # None \/ r \notin JobsOf(w) => result'[r] = result[r]
        /\ \A r \in Members(q) : result'[r] = None
        /\ result'[worker[w].job] # None
    BY <1>1, <2>1, <2>2, <2>7
  <2>9. WorkerMoves(w, q, worker[w], 1)
    BY <1>1, <1>3, <2>1, <2>2, <2>3, <2>4, <2>5, <2>6, <2>8 DEF WorkerMoves
  <2> QED BY <1>1, <2>1, <2>9 DEF Moves
<1> QED BY <1>2, <1>3 DEF ClosesPending

(* The thread returns: its job was answered, and what is left in its queue *)
(* reads Closed.                                                           *)
LEMMA LeaveMoves ==
  ASSUME StageInv, NEW w \in Workers, Leaves(w)
  PROVE  Moves(w)
<1> DEFINE x == [pc |-> "gone", job |-> None]
           job == worker[w].job
           n == 1 + Len(queue[w])
<1>1. /\ queue[w] \in Seq(Requests) /\ Distinct(queue[w]) /\ worker[w] \in Places
      /\ job # None /\ result[job] # None
      /\ HeldAt(worker[w]) \cap Members(queue[w]) = {}
      /\ JobsOf(w) = Members(queue[w]) \cup HeldAt(worker[w]) /\ JobsOf(w) \subseteq Requests
      /\ result \in [Requests -> Results] /\ outstanding \in Int
      /\ \A r \in Members(queue[w]) : result[r] = None
  BY WorkerFacts DEF Leaves
<1>2. x \in Places /\ HeldAt(x) = {} /\ HeldAt(worker[w]) = {job} /\ Members(<<>>) = {}
  BY <1>1 DEF Places, HeldAt, Members
<1>3. /\ queue' = [queue EXCEPT ![w] = <<>>] /\ worker' = [worker EXCEPT ![w] = x]
      /\ UNCHANGED <<next_worker, submitting>>
      /\ outstanding' = outstanding - 1 - Len(queue[w])
      /\ Answer(Members(queue[w]), "internal")
  BY JobsAre DEF Leaves, WorkerGoes
<1>4. /\ result' \in [Requests -> Results]
      /\ \A r \in Requests : r \notin Members(queue[w]) => result'[r] = result[r]
      /\ \A r \in Requests : r \in Members(queue[w]) => result'[r] # None
  <2>1. "internal" \in Answers
    BY DEF Answers
  <2> QED BY <1>1, <1>3, <2>1, AnswerFacts
<1>5. \A r \in JobsOf(w) : result'[r] # None
  BY <1>1, <1>2, <1>4
<1>12. \A r \in Requests : result[r] # None \/ r \notin JobsOf(w) => result'[r] = result[r]
  BY <1>1, <1>4
<1>6. JobsOf(w) \ (Members(<<>>) \cup HeldAt(x)) = JobsOf(w)
  BY <1>2
<1>7. IsFiniteSet(JobsOf(w)) /\ Cardinality(JobsOf(w)) = n /\ n \in Nat
  <2>1. /\ IsFiniteSet(Members(queue[w])) /\ Cardinality(Members(queue[w])) = Len(queue[w])
        /\ Len(queue[w]) \in Nat
    BY <1>1, QueueSize
  <2>2. JobsOf(w) = Members(queue[w]) \cup {job} /\ job \notin Members(queue[w])
    BY <1>1, <1>2
  <2> HIDE DEF job
  <2>3. /\ IsFiniteSet(Members(queue[w]) \cup {job})
        /\ Cardinality(Members(queue[w]) \cup {job}) = Cardinality(Members(queue[w])) + 1
    BY <2>1, <2>2, FS_AddElement
  <2> QED BY <2>1, <2>2, <2>3
<1>8. WorkerMoves(w, <<>>, x, n)
  <2>1. outstanding' = outstanding - n
    <3>1. Len(queue[w]) \in Nat
      BY <1>1
    <3> QED BY <1>1, <1>3, <3>1
  <2>2. /\ x.job = None <=> x.pc \in {"recv", "gone"}
        /\ x.pc \notin {"release", "closing", "leaving", "process", "panicked"}
    OBVIOUS
  <2>3. Distinct(<<>>) /\ HeldAt(x) \cap Members(<<>>) = {}
    BY <1>2 DEF Distinct
  <2>4. Members(<<>>) \cup HeldAt(x) \subseteq JobsOf(w)
    BY <1>2
  <2> HIDE DEF x, n, job
  <2> QED BY <1>2, <1>3, <1>4, <1>5, <1>12, <1>6, <1>7, <2>1, <2>2, <2>3, <2>4 DEF WorkerMoves
<1>9. <<>> \in Seq(Requests)
  OBVIOUS
<1> HIDE DEF x, n
<1> QED BY <1>2, <1>7, <1>8, <1>9 DEF Moves

(* recv() fails.                                                           *)
LEMMA EndMoves ==
  ASSUME StageInv, NEW w \in Workers, RecvEnds(w)
  PROVE  Moves(w)
<1> DEFINE x == [pc |-> "gone", job |-> None]
<1>1. /\ queue[w] \in Seq(Requests) /\ Distinct(queue[w]) /\ queue[w] = <<>>
      /\ worker[w].job = None
      /\ JobsOf(w) = Members(queue[w]) \cup HeldAt(worker[w])
      /\ queue = [queue EXCEPT ![w] = queue[w]]
      /\ result \in [Requests -> Results] /\ outstanding \in Int
  BY WorkerFacts DEF RecvEnds
<1>2. x \in Places /\ HeldAt(x) = {} /\ HeldAt(worker[w]) = {}
  BY <1>1 DEF Places, HeldAt
<1>3. /\ queue' = [queue EXCEPT ![w] = queue[w]] /\ worker' = [worker EXCEPT ![w] = x]
      /\ UNCHANGED <<next_worker, submitting, outstanding, result>>
  BY <1>1 DEF RecvEnds, WorkerGoes
<1>4. Members(queue[w]) \cup HeldAt(x) = JobsOf(w) /\ HeldAt(x) \cap Members(queue[w]) = {}
  BY <1>1, <1>2
<1>5. /\ Members(queue[w]) \cup HeldAt(x) \subseteq JobsOf(w)
      /\ JobsOf(w) \ (Members(queue[w]) \cup HeldAt(x)) = {}
      /\ IsFiniteSet({}) /\ Cardinality({}) = 0
  BY <1>4, FS_EmptySet
<1>6. WorkerMoves(w, queue[w], x, 0)
  <2>1. /\ x.job = None <=> x.pc \in {"recv", "gone"}
        /\ x.pc \notin {"release", "closing", "leaving", "process", "panicked"}
    OBVIOUS
  <2>2. outstanding' = outstanding - 0 /\ Distinct(queue[w]) /\ queue[w] = <<>>
    BY <1>1, <1>3
  <2>3. result' = result /\ result \in [Requests -> Results]
    BY <1>1, <1>3
  <2> HIDE DEF x
  <2>4. Members(queue[w]) = {}
    BY <1>1 DEF Members
  <2> QED BY <1>3, <1>4, <1>5, <2>1, <2>2, <2>3, <2>4 DEF WorkerMoves
<1> QED BY <1>1, <1>2, <1>6 DEF Moves

(* All of them, panics included.                                           *)
LEMMA WorkersMove ==
  ASSUME StageInv, NEW w \in Workers, WorkerStep(w) \/ Panics(w)
  PROVE  Moves(w)
<1>1. CASE Take(w)
  BY <1>1, TakeMoves
<1>2. CASE Processes(w)
  <2>1. Outputs \subseteq Answers
    BY DEF Outputs, Answers
  <2> QED BY <1>2, <2>1, PlaceMoves DEF Processes
<1>3. CASE AnswersPanic(w)
  <2>1. "internal" \in Answers
    BY DEF Answers
  <2> QED BY <1>3, <2>1, PlaceMoves DEF AnswersPanic
<1>4. CASE Releases(w)
  BY <1>4, ReleaseMoves
<1>5. CASE ClosesPending(w)
  BY <1>5, CloseMoves
<1>6. CASE Leaves(w)
  BY <1>6, LeaveMoves
<1>7. CASE RecvEnds(w)
  BY <1>7, EndMoves
<1>8. CASE Panics(w)
  BY <1>8, PlaceMoves DEF Panics
<1> QED BY <1>1, <1>2, <1>3, <1>4, <1>5, <1>6, <1>7, <1>8 DEF WorkerStep

-----------------------------------------------------------------------------
(* Submissions.                                                            *)

(* A step that leaves queues and workers alone.                            *)
LEMMA QuietKeepsStage ==
  ASSUME StageInv, UNCHANGED <<queue, worker>>,
         next_worker' \in Workers, submitting' \in {None} \cup Submissions,
         submitting' # None => submitting'.req \notin Jobs,
         result' \in [Requests -> Results],
         \A r \in Requests : result[r] # None \/ r \in Jobs => result'[r] = result[r],
         submitting' # None => result'[submitting'.req] = None,
         outstanding' = Cardinality(Jobs) + (IF submitting' = None THEN 0 ELSE 1),
         outstanding' <= MaxOutstanding
  PROVE  StageInv' /\ Jobs' = Jobs
<1>1. \A w \in Workers : /\ Queued(w)' = Queued(w) /\ Held(w)' = Held(w)
                         /\ JobsOf(w)' = JobsOf(w)
  BY DEF Queued, Held, JobsOf
<1>2. Jobs' = Jobs
  BY DEF Jobs, Queued, Held
<1>3. StageTypes /\ WorkerState /\ OneAnswer /\ OnePlace /\ IsFiniteSet(Jobs)
  BY DEF StageInv
<1>4. Cardinality(Jobs) \in Nat
  BY <1>3, FS_CardinalityType
<1>5. StageTypes'
  BY <1>3, <1>4 DEF StageTypes
<1>6. WorkerState'
  <2> SUFFICES ASSUME NEW w \in Workers
               PROVE  /\ worker[w].job = None <=> worker[w].pc \in {"recv", "gone"}
                      /\ worker[w].pc \in {"release", "closing", "leaving"} =>
                            result'[worker[w].job] # None
    BY DEF WorkerState
  <2>1. /\ worker[w] \in Places
        /\ worker[w].job = None <=> worker[w].pc \in {"recv", "gone"}
        /\ worker[w].pc \in {"release", "closing", "leaving"} => result[worker[w].job] # None
    BY WorkerFacts
  <2>2. worker[w].pc \in {"release", "closing", "leaving"} => worker[w].job \in Requests
    BY <2>1 DEF Places
  <2> QED BY <2>1, <2>2
<1>7. OnePlace'
  <2>1. ASSUME NEW w \in Workers
        PROVE  /\ \A i, j \in DOMAIN queue'[w] : i # j => queue'[w][i] # queue'[w][j]
               /\ (Held(w) \cap Queued(w) = {})'
    BY <1>1, <1>3 DEF OnePlace
  <2>2. \A v, w \in Workers : v # w => (JobsOf(v) \cap JobsOf(w) = {})'
    BY <1>1, <1>3 DEF OnePlace
  <2> QED BY <1>2, <2>1, <2>2 DEF OnePlace
<1>8. OneAnswer'
  <2>1. ASSUME NEW w \in Workers
        PROVE  /\ \A i \in DOMAIN queue[w] : result'[queue[w][i]] = None
               /\ worker[w].pc \in {"process", "panicked"} => result'[worker[w].job] = None
    <3>1. /\ JobsOf(w) = Members(queue[w]) \cup HeldAt(worker[w]) /\ JobsOf(w) \subseteq Requests
          /\ worker[w].job = None <=> worker[w].pc \in {"recv", "gone"}
      BY WorkerFacts
    <3>2. \A r \in JobsOf(w) : r \in Requests /\ result'[r] = result[r]
      BY <3>1 DEF Jobs, JobsOf
    <3>3. \A i \in DOMAIN queue[w] : queue[w][i] \in JobsOf(w)
      BY <3>1 DEF Members
    <3>4. worker[w].pc \in {"process", "panicked"} => worker[w].job \in JobsOf(w)
      BY <3>1 DEF HeldAt
    <3> QED BY <1>3, <3>2, <3>3, <3>4 DEF OneAnswer
  <2> QED BY <2>1 DEF OneAnswer
<1> QED BY <1>2, <1>3, <1>5, <1>6, <1>7, <1>8 DEF StageInv

(* The counter between two steps.                                          *)
LEMMA CounterFacts ==
  ASSUME StageInv
  PROVE  /\ Cardinality(Jobs) \in Nat /\ MaxOutstanding \in Nat /\ outstanding \in Int
         /\ submitting = None => outstanding = Cardinality(Jobs)
         /\ submitting # None => outstanding = Cardinality(Jobs) + 1
         /\ outstanding <= MaxOutstanding
         /\ next_worker \in Workers /\ result \in [Requests -> Results]
         /\ submitting \in {None} \cup Submissions
         /\ submitting # None => submitting.req \notin Jobs /\ result[submitting.req] = None
BY FS_CardinalityType, StageAssumptions DEF StageInv, StageTypes, OnePlace, OneAnswer

(* A submission is not None.                                               *)
LEMMA SubmissionIsSome == None \notin Submissions /\ NumWorkers \in Nat \ {0}
<1>1. /\ NumWorkers \in Nat \ {0}
      /\ None \notin [req : Requests, at : Nat, left : Nat, disconnected : BOOLEAN]
  BY StageAssumptions
<1>2. Submissions \subseteq [req : Requests, at : Nat, left : Nat, disconnected : BOOLEAN]
  BY <1>1 DEF Submissions, Workers
<1> QED BY <1>1, <1>2

(* The queues are tried one after the other.                               *)
LEMMA NextWorker == \A w \in Workers : (w + 1) % NumWorkers \in Workers
BY SubmissionIsSome DEF Workers

(* A refused submission has its result.                                    *)
LEMMA RefusedKeepsStage ==
  ASSUME StageInv, NEW r \in Requests, r \notin Jobs, result[r] = None, SubmitRefused(r)
  PROVE  /\ StageInv' /\ Jobs' = Jobs
         /\ result'[r] # None /\ submitting' = None
         /\ \A q \in Requests : q # r => result'[q] = result[q]
<1>1. Refusal # None /\ Refusal \in Results
  BY DEF SubmitRefused, Refusal, Results
<1>2. /\ submitting = None /\ result' = [result EXCEPT ![r] = Refusal]
      /\ UNCHANGED <<outstanding, next_worker, queue, worker, submitting>>
  BY DEF SubmitRefused
<1>3. result \in [Requests -> Results]
  BY CounterFacts
<1> HIDE DEF Refusal
<1>4. /\ result' \in [Requests -> Results] /\ result'[r] # None
      /\ \A q \in Requests : q # r => result'[q] = result[q]
  BY <1>1, <1>2, <1>3
<1>6. \A q \in Requests : result[q] # None \/ q \in Jobs => result'[q] = result[q]
  BY <1>4
<1>5. /\ next_worker' \in Workers /\ submitting' \in {None} \cup Submissions
      /\ outstanding' = Cardinality(Jobs) + (IF submitting' = None THEN 0 ELSE 1)
      /\ outstanding' <= MaxOutstanding
  BY <1>2, CounterFacts
<1> QED BY <1>2, <1>4, <1>5, <1>6, QuietKeepsStage

(* A submission that reserves the counter is the only one.                 *)
LEMMA ReservesKeepsStage ==
  ASSUME StageInv, NEW r \in Requests, r \notin Jobs, result[r] = None, SubmitReserves(r)
  PROVE  /\ StageInv' /\ Jobs' = Jobs /\ UNCHANGED <<worker, queue, result>>
         /\ submitting' # None /\ submitting'.req = r
<1> DEFINE sub == [req |-> r, at |-> next_worker, left |-> NumWorkers, disconnected |-> FALSE]
<1>1. /\ submitting = None /\ Refusal = None
      /\ outstanding' = outstanding + 1 /\ next_worker' = (next_worker + 1) % NumWorkers
      /\ submitting' = sub
      /\ UNCHANGED <<queue, worker, result>>
  BY DEF SubmitReserves
<1>2. outstanding < MaxOutstanding
  <2>1. None \notin {"full", "internal"}
    BY StageAssumptions
  <2> QED BY <1>1, <2>1, CounterFacts DEF Refusal
<1>3. /\ next_worker \in Workers /\ result \in [Requests -> Results]
      /\ Cardinality(Jobs) \in Nat /\ outstanding = Cardinality(Jobs) /\ MaxOutstanding \in Nat
  BY <1>1, CounterFacts
<1>4. sub \in Submissions /\ sub # None
  <2>1. sub \in Submissions
    BY <1>3, SubmissionIsSome DEF Submissions
  <2> QED BY <2>1, SubmissionIsSome
<1>5. next_worker' \in Workers
  BY <1>1, <1>3, NextWorker
<1>6. submitting'.req = r
  BY <1>1
<1> HIDE DEF sub
<1>7. /\ outstanding' = Cardinality(Jobs) + (IF submitting' = None THEN 0 ELSE 1)
      /\ outstanding' <= MaxOutstanding
  BY <1>1, <1>2, <1>3, <1>4
<1>8. submitting' \in {None} \cup Submissions /\ submitting' # None
  BY <1>1, <1>4
<1>9. /\ UNCHANGED <<queue, worker>> /\ result' \in [Requests -> Results]
      /\ \A q \in Requests : result'[q] = result[q]
  BY <1>1, <1>3
<1>10. StageInv' /\ Jobs' = Jobs
  BY <1>5, <1>6, <1>7, <1>8, <1>9, QuietKeepsStage
<1> QED BY <1>1, <1>6, <1>8, <1>10

(* The job is dropped with its reservation.                                *)
LEMMA GivesUpKeepsStage ==
  ASSUME StageInv, SubmitGivesUp
  PROVE  /\ StageInv' /\ Jobs' = Jobs /\ UNCHANGED <<worker, queue>>
         /\ submitting' = None /\ result'[submitting.req] # None /\ result[submitting.req] = None
         /\ \A q \in Requests : q # submitting.req => result'[q] = result[q]
<1> DEFINE answer == IF is_worker_failed \/ submitting.disconnected THEN "internal" ELSE "full"
<1>1. /\ submitting # None /\ outstanding' = outstanding - 1 /\ submitting' = None
      /\ result' = [result EXCEPT ![submitting.req] = answer]
      /\ UNCHANGED <<next_worker, queue, worker>>
  BY DEF SubmitGivesUp
<1>2. answer \in Results /\ answer # None
  BY StageAssumptions DEF Results
<1>3. /\ next_worker \in Workers /\ result \in [Requests -> Results]
      /\ Cardinality(Jobs) \in Nat /\ outstanding = Cardinality(Jobs) + 1
      /\ MaxOutstanding \in Nat /\ outstanding <= MaxOutstanding
      /\ submitting \in Submissions /\ submitting.req \notin Jobs /\ result[submitting.req] = None
  BY <1>1, CounterFacts
<1>4. submitting.req \in Requests
  BY <1>3 DEF Submissions
<1> HIDE DEF answer
<1>5. /\ result' \in [Requests -> Results] /\ result'[submitting.req] # None
      /\ \A q \in Requests : q # submitting.req => result'[q] = result[q]
  BY <1>1, <1>2, <1>3, <1>4
<1>9. \A q \in Requests : result[q] # None \/ q \in Jobs => result'[q] = result[q]
  BY <1>3, <1>5
<1>6. /\ outstanding' = Cardinality(Jobs) + (IF submitting' = None THEN 0 ELSE 1)
      /\ outstanding' <= MaxOutstanding
  BY <1>1, <1>3
<1>7. next_worker' \in Workers /\ submitting' \in {None} \cup Submissions
  BY <1>1, <1>3
<1>8. StageInv' /\ Jobs' = Jobs
  BY <1>1, <1>5, <1>6, <1>7, <1>9, QuietKeepsStage
<1> QED BY <1>1, <1>3, <1>5, <1>8

(* A try that fails leaves the submission with the next queue.             *)
LEMMA FullKeepsStage ==
  ASSUME StageInv, submitting # None, submitting.left > 0,
         submitting' = [submitting EXCEPT !.at = (submitting.at + 1) % NumWorkers,
                                          !.left = submitting.left - 1,
                                          !.disconnected = submitting.disconnected
                                              \/ worker[submitting.at].pc = "gone"],
         UNCHANGED <<outstanding, next_worker, queue, worker, result>>
  PROVE  StageInv' /\ Jobs' = Jobs /\ submitting' # None /\ submitting'.req = submitting.req
<1>1. /\ next_worker \in Workers /\ result \in [Requests -> Results]
      /\ outstanding = Cardinality(Jobs) + 1 /\ outstanding <= MaxOutstanding
      /\ submitting \in Submissions /\ submitting.req \notin Jobs /\ result[submitting.req] = None
  BY CounterFacts
<1>2. /\ submitting.at \in Workers /\ submitting.left \in 0 .. NumWorkers
      /\ submitting.disconnected \in BOOLEAN /\ submitting.req \in Requests
  BY <1>1 DEF Submissions
<1>3. (submitting.at + 1) % NumWorkers \in Workers
  BY <1>2, NextWorker
<1>4. submitting.left - 1 \in 0 .. NumWorkers
  BY <1>2, SubmissionIsSome
<1>5. submitting' \in Submissions /\ submitting'.req = submitting.req
  BY <1>1, <1>2, <1>3, <1>4 DEF Submissions
<1>6. submitting' # None
  BY <1>5, SubmissionIsSome
<1>7. /\ outstanding' = Cardinality(Jobs) + (IF submitting' = None THEN 0 ELSE 1)
      /\ outstanding' <= MaxOutstanding /\ next_worker' \in Workers
      /\ result' \in [Requests -> Results]
      /\ \A q \in Requests : result'[q] = result[q]
      /\ result'[submitting'.req] = None
  BY <1>1, <1>5, <1>6
<1>8. StageInv' /\ Jobs' = Jobs
  BY <1>1, <1>5, <1>6, <1>7, QuietKeepsStage
<1> QED BY <1>5, <1>6, <1>8

(* A try that succeeds makes the submission a job of that worker.          *)
LEMMA QueuedKeepsStage ==
  ASSUME StageInv, submitting # None, NEW w \in Workers,
         queue' = [queue EXCEPT ![w] = Append(queue[w], submitting.req)],
         submitting' = None, UNCHANGED <<outstanding, next_worker, worker, result>>
  PROVE  /\ StageInv' /\ Jobs' = Jobs \cup {submitting.req}
         /\ submitting.req \in JobsOf(w)'
         /\ \A v \in Workers : JobsOf(v) \subseteq JobsOf(v)'
<1> DEFINE job == submitting.req
           q == Append(queue[w], job)
<1>1. /\ next_worker \in Workers /\ result \in [Requests -> Results] /\ outstanding \in Int
      /\ outstanding = Cardinality(Jobs) + 1 /\ outstanding <= MaxOutstanding
      /\ submitting \in Submissions /\ job \notin Jobs /\ result[job] = None
  BY CounterFacts
<1>2. job \in Requests
  BY <1>1 DEF Submissions
<1>3. /\ queue[w] \in Seq(Requests) /\ Distinct(queue[w])
      /\ HeldAt(worker[w]) \cap Members(queue[w]) = {}
      /\ JobsOf(w) = Members(queue[w]) \cup HeldAt(worker[w])
  BY WorkerFacts
<1>4. \A v \in Workers : JobsOf(v) \subseteq Jobs
  BY DEF Jobs, JobsOf
<1>5. /\ q \in Seq(Requests) /\ Distinct(q) /\ Members(q) = Members(queue[w]) \cup {job}
  BY <1>1, <1>2, <1>3, <1>4, Appended
<1>6. StageTypes /\ WorkerState /\ OneAnswer /\ OnePlace /\ IsFiniteSet(Jobs)
  BY DEF StageInv
<1>7. /\ queue \in [Workers -> Seq(Requests)] /\ queue' = [queue EXCEPT ![w] = q]
      /\ worker' = worker
  BY <1>6 DEF StageTypes
<1> HIDE DEF q, job
<1>8. queue'[w] = q /\ \A v \in Workers : v # w => queue'[v] = queue[v]
  BY <1>7
<1>9. /\ Queued(w)' = Members(q) /\ Held(w)' = HeldAt(worker[w])
      /\ \A v \in Workers : v # w => Queued(v)' = Queued(v)
      /\ \A v \in Workers : Held(v)' = Held(v)
  BY <1>7, <1>8, JobsAre
<1>10. /\ JobsOf(w)' = JobsOf(w) \cup {job}
       /\ \A v \in Workers : v # w => JobsOf(v)' = JobsOf(v)
  <2>1. JobsOf(w)' = Members(q) \cup HeldAt(worker[w])
    BY <1>9 DEF JobsOf
  <2>2. \A v \in Workers : v # w => JobsOf(v)' = JobsOf(v)
    BY <1>9 DEF JobsOf
  <2> QED BY <1>3, <1>5, <2>1, <2>2
<1>11. Jobs' = Jobs \cup {job}
  <2>1. Jobs = UNION {JobsOf(v) : v \in Workers} /\ Jobs' = UNION {JobsOf(v)' : v \in Workers}
    BY DEF Jobs, JobsOf
  <2> QED BY <1>10, <2>1
<1>12. StageTypes'
  BY <1>1, <1>5, <1>6, <1>7 DEF StageTypes
<1>13. WorkerState'
  BY <1>6, <1>7 DEF WorkerState
<1>14. OnePlace'
  <2>1. ASSUME NEW v \in Workers
        PROVE  Distinct(queue'[v]) /\ (Held(v) \cap Queued(v) = {})'
    <3>1. CASE v = w
      <4>1. HeldAt(worker[w]) \subseteq Jobs
        BY <1>3, <1>4
      <4>2. HeldAt(worker[w]) \cap Members(q) = {}
        BY <1>1, <1>3, <1>5, <4>1 DEF job
      <4> QED BY <1>5, <1>8, <1>9, <3>1, <4>2
    <3>2. CASE v # w
      <4>1. Distinct(queue[v]) /\ Held(v) \cap Queued(v) = {}
        BY <1>6 DEF OnePlace, Distinct
      <4> QED BY <1>8, <1>9, <3>2, <4>1
    <3> QED BY <3>1, <3>2
  <2>2. ASSUME NEW u \in Workers, NEW v \in Workers, u # v
        PROVE  (JobsOf(u) \cap JobsOf(v) = {})'
    <3>1. JobsOf(u) \cap JobsOf(v) = {}
      BY <1>6, <2>2 DEF OnePlace
    <3>2. job \notin JobsOf(u) /\ job \notin JobsOf(v)
      BY <1>1, <1>4 DEF job
    <3> QED BY <1>10, <2>2, <3>1, <3>2
  <2> QED BY <2>1, <2>2 DEF OnePlace, Distinct
<1>15. /\ IsFiniteSet(Jobs)' /\ Cardinality(Jobs') = Cardinality(Jobs) + 1
  <2>1. /\ IsFiniteSet(Jobs \cup {job})
        /\ Cardinality(Jobs \cup {job}) = Cardinality(Jobs) + 1
    BY <1>1, <1>6, FS_AddElement DEF job
  <2> QED BY <1>11, <2>1
<1>16. /\ (outstanding = Cardinality(Jobs) + (IF submitting = None THEN 0 ELSE 1))'
       /\ (outstanding <= MaxOutstanding)'
  BY <1>1, <1>15
<1>17. OneAnswer'
  <2>1. ASSUME NEW v \in Workers PROVE \A r \in Members(queue'[v]) : result[r] = None
    <3>1. \A r \in Members(queue[v]) : result[r] = None
      BY <1>6 DEF OneAnswer, Members
    <3>2. CASE v = w
      BY <1>1, <1>5, <1>8, <3>1, <3>2 DEF job
    <3>3. CASE v # w
      BY <1>8, <3>1, <3>3
    <3> QED BY <3>2, <3>3
  <2>2. \A v \in Workers : \A i \in DOMAIN queue'[v] : result'[queue'[v][i]] = None
    BY <2>1 DEF Members
  <2>3. \A v \in Workers : worker[v].pc \in {"process", "panicked"} => result[worker[v].job] = None
    BY <1>6 DEF OneAnswer
  <2> QED BY <1>7, <2>2, <2>3 DEF OneAnswer
<1>18. StageInv'
  BY <1>12, <1>13, <1>14, <1>15, <1>16, <1>17 DEF StageInv
<1> QED BY <1>10, <1>11, <1>18 DEF job

-----------------------------------------------------------------------------
(* The handlers that wait.                                                 *)

(* A job that some worker will still answer.                               *)
Alive(r) == \E w \in Workers : worker[w].pc # "gone" /\ r \in JobsOf(w)

(* A step of a submission under way keeps the handlers waiting for a good  *)
(* reason.                                                                 *)
LEMMA SubmitKeepsWait ==
  ASSUME StageInv, WaitInv, RequestTypes, SubmitTries \/ SubmitGivesUp, req' = req
  PROVE  StageInv' /\ WaitInv'
<1>1. JobsSubmitted /\ NoHandlerStranded
  BY DEF WaitInv
<1>2. submitting # None
  BY DEF SubmitTries, SubmitGivesUp
<1>3. submitting \in Submissions /\ submitting.req \in Requests /\ submitting.at \in Workers
  BY <1>2, CounterFacts DEF Submissions
<1>4. \A r \in Requests : req[r].pc = "decoding" /\ result[r] = None => r = submitting.req \/ Alive(r)
  BY <1>1, <1>2 DEF NoHandlerStranded, Alive, JobsOf
<1>5. /\ req[submitting.req].pc = "decoding"
      /\ \A r \in Jobs : req[r].pc \notin {"new", "body", "submit"}
      /\ \A r \in Requests : req[r].pc \in {"new", "body", "submit"} => result[r] = None
  BY <1>1, <1>2 DEF JobsSubmitted
<1>6. CASE SubmitGivesUp
  <2>1. /\ StageInv' /\ Jobs' = Jobs /\ UNCHANGED <<worker, queue>>
        /\ submitting' = None /\ result'[submitting.req] # None
        /\ \A r \in Requests : r # submitting.req => result'[r] = result[r]
    BY <1>6, GivesUpKeepsStage
  <2>2. \A w \in Workers : JobsOf(w)' = JobsOf(w)
    BY <2>1 DEF JobsOf, Queued, Held
  <2>3. JobsSubmitted'
    BY <1>5, <2>1 DEF JobsSubmitted
  <2>4. \A r \in Requests : req[r].pc = "decoding" /\ result'[r] = None => Alive(r)
    BY <1>4, <2>1
  <2>5. NoHandlerStranded'
    <3>1. \A r \in Requests : Alive(r) =>
              \E w \in Workers : worker'[w].pc # "gone" /\ r \in JobsOf(w)'
      BY <2>1, <2>2 DEF Alive
    <3> QED BY <2>4, <3>1 DEF NoHandlerStranded, JobsOf
  <2> QED BY <2>1, <2>3, <2>5 DEF WaitInv
<1>7. CASE SubmitTries
  <2>0. PICK w \in Workers : w = submitting.at
    BY <1>3
  <2> DEFINE gone == worker[w].pc = "gone"
  <2>1. /\ submitting.left > 0
        /\ UNCHANGED <<outstanding, next_worker, worker, result>>
        /\ \/ /\ ~gone /\ queue' = [queue EXCEPT ![w] = Append(queue[w], submitting.req)]
              /\ submitting' = None
           \/ /\ submitting' = [submitting EXCEPT !.at = (w + 1) % NumWorkers,
                                                  !.left = submitting.left - 1,
                                                  !.disconnected = submitting.disconnected \/ gone]
              /\ UNCHANGED queue
    BY <1>7, <2>0 DEF SubmitTries
  <2>2. CASE /\ ~gone /\ queue' = [queue EXCEPT ![w] = Append(queue[w], submitting.req)]
             /\ submitting' = None
    <3>1. /\ StageInv' /\ Jobs' = Jobs \cup {submitting.req}
          /\ submitting.req \in JobsOf(w)'
          /\ \A v \in Workers : JobsOf(v) \subseteq JobsOf(v)'
      BY <1>2, <1>3, <2>1, <2>2, QueuedKeepsStage
    <3>2. JobsSubmitted'
      BY <1>5, <2>1, <2>2, <3>1 DEF JobsSubmitted
    <3>3. NoHandlerStranded'
      <4> SUFFICES ASSUME NEW r \in Requests, req[r].pc = "decoding", result[r] = None
                   PROVE  \E v \in Workers : worker[v].pc # "gone" /\ r \in JobsOf(v)'
        BY <2>1 DEF NoHandlerStranded, JobsOf
      <4> QED BY <1>3, <1>4, <2>2, <3>1 DEF Alive
    <3> QED BY <3>1, <3>2, <3>3 DEF WaitInv
  <2>3. CASE /\ submitting' = [submitting EXCEPT !.at = (w + 1) % NumWorkers,
                                                 !.left = submitting.left - 1,
                                                 !.disconnected = submitting.disconnected \/ gone]
             /\ UNCHANGED queue
    <3>1. StageInv' /\ Jobs' = Jobs /\ submitting' # None /\ submitting'.req = submitting.req
      BY <1>2, <2>0, <2>1, <2>3, FullKeepsStage
    <3>2. \A v \in Workers : JobsOf(v)' = JobsOf(v)
      BY <2>1, <2>3 DEF JobsOf, Queued, Held
    <3>3. JobsSubmitted'
      BY <1>5, <2>1, <3>1 DEF JobsSubmitted
    <3>4. NoHandlerStranded'
      <4> SUFFICES ASSUME NEW r \in Requests, req[r].pc = "decoding", result[r] = None
                   PROVE  \/ submitting' # None /\ submitting'.req = r
                          \/ \E v \in Workers : worker[v].pc # "gone" /\ r \in JobsOf(v)'
        BY <2>1 DEF NoHandlerStranded, JobsOf
      <4> QED BY <1>4, <3>1, <3>2 DEF Alive
    <3> QED BY <3>1, <3>3, <3>4 DEF WaitInv
  <2> QED BY <2>1, <2>2, <2>3
<1> QED BY <1>6, <1>7

(* A submission that begins is a handler's that does not wait yet.         *)
LEMMA SubmitsKeepsWait ==
  ASSUME StageInv, WaitInv, RequestTypes, NEW r \in Requests, Submits(r)
  PROVE  StageInv' /\ WaitInv'
<1>1. /\ req[r].pc = "submit" /\ req' = [req EXCEPT ![r].pc = "decoding"]
      /\ req \in [Requests -> Handlers]
  BY DEF Submits, Goes, RequestTypes
<1>2. req'[r].pc = "decoding" /\ \A q \in Requests : q # r => req'[q] = req[q]
  BY <1>1 DEF Handlers
<1>3. JobsSubmitted /\ NoHandlerStranded
  BY DEF WaitInv
<1>4. r \notin Jobs /\ result[r] = None
  BY <1>1, <1>3 DEF JobsSubmitted
<1>5. Jobs \subseteq Requests
  BY WorkerFacts DEF Jobs, JobsOf
<1>6. CASE SubmitRefused(r)
  <2>1. /\ StageInv' /\ Jobs' = Jobs
        /\ result'[r] # None /\ submitting' = None
        /\ \A q \in Requests : q # r => result'[q] = result[q]
    BY <1>4, <1>6, RefusedKeepsStage
  <2>2. submitting = None /\ UNCHANGED <<queue, worker>>
    BY <1>6 DEF SubmitRefused
  <2>3. JobsSubmitted'
    BY <1>2, <1>3, <1>4, <1>5, <2>1 DEF JobsSubmitted
  <2>4. NoHandlerStranded'
    BY <1>2, <1>3, <2>1, <2>2 DEF NoHandlerStranded, Queued, Held
  <2> QED BY <2>1, <2>3, <2>4 DEF WaitInv
<1>7. CASE SubmitReserves(r)
  <2>1. /\ StageInv' /\ Jobs' = Jobs /\ UNCHANGED <<worker, queue, result>>
        /\ submitting' # None /\ submitting'.req = r
    BY <1>4, <1>7, ReservesKeepsStage
  <2>2. submitting = None
    BY <1>7 DEF SubmitReserves
  <2>3. JobsSubmitted'
    BY <1>2, <1>3, <1>4, <1>5, <2>1 DEF JobsSubmitted
  <2>4. NoHandlerStranded'
    BY <1>2, <1>3, <2>1, <2>2 DEF NoHandlerStranded, Queued, Held
  <2> QED BY <2>1, <2>3, <2>4 DEF WaitInv
<1> QED BY <1>6, <1>7 DEF Submits

-----------------------------------------------------------------------------
(* Steps of a handler.                                                     *)

(* The record of a request after a step, field by field.                   *)
LEMMA GoesTo ==
  ASSUME RequestTypes, NEW r \in Requests,
         NEW pc \in {"body", "submit", "reserve", "send", "respond", "answered", "gone"},
         Goes(r, pc)
  PROVE  \E x \in Handlers : /\ req' = [req EXCEPT ![r] = x]
                             /\ x.pc = pc /\ x.parts = req[r].parts /\ x.sent = req[r].sent
<1> DEFINE x == [req[r] EXCEPT !.pc = pc]
<1>1. req \in [Requests -> Handlers] /\ req[r] \in Handlers
  BY DEF RequestTypes
<1>2. x \in Handlers /\ x.pc = pc /\ x.parts = req[r].parts /\ x.sent = req[r].sent
  BY <1>1 DEF Handlers
<1>3. req' = [req EXCEPT ![r] = x]
  BY <1>1 DEF Goes
<1> QED BY <1>2, <1>3

(* The same with an answer.                                                *)
LEMMA AnswersTo ==
  ASSUME RequestTypes, NEW r \in Requests, NEW pc \in {"respond", "answered", "gone"},
         NEW answer \in {None, "ok", "busy", "rejected", "error", "unavailable"},
         req' = [req EXCEPT ![r].pc = pc, ![r].answer = answer]
  PROVE  \E x \in Handlers : /\ req' = [req EXCEPT ![r] = x]
                             /\ x.pc = pc /\ x.parts = req[r].parts /\ x.sent = req[r].sent
<1> DEFINE x == [req[r] EXCEPT !.pc = pc, !.answer = answer]
<1>1. req \in [Requests -> Handlers] /\ req[r] \in Handlers
  BY DEF RequestTypes
<1>2. x \in Handlers /\ x.pc = pc /\ x.parts = req[r].parts /\ x.sent = req[r].sent
  BY <1>1 DEF Handlers
<1>3. req' = [req EXCEPT ![r] = x]
  BY <1>1
<1> QED BY <1>2, <1>3

(* A step of a handler by which it does not come to wait for a decoder.    *)
HandlerGoes(r, x) ==
    /\ req' = [req EXCEPT ![r] = x]
    /\ UNCHANGED <<stageVars, kind, deferred>>
    /\ x.pc \notin {"new", "decoding"}
    /\ x.pc \in {"body", "submit"} => req[r].pc \in {"new", "body"}
    /\ submitting = None \/ req[r].pc # "decoding"
    /\ x.pc \in Sync => RuntimeFree \/ req[r].pc \in Sync
    /\ x.pc = "submit" => kind = "otlp"
    /\ x.pc = "reserve" => kind = "arrow_ipc"
    /\ x.pc \in {"body", "submit", "reserve"} => x.sent = 0
    /\ kind = "arrow_ipc" => x.sent <= x.parts

(* The stage does not move.                                                *)
LEMMA StillStage ==
  ASSUME StageInv, UNCHANGED <<outstanding, next_worker, queue, worker, submitting, result>>
  PROVE  /\ StageInv' /\ Jobs' = Jobs
         /\ UNCHANGED <<outstanding, queue, worker, submitting, result>>
         /\ \A w \in Workers : Queued(w)' = Queued(w) /\ Held(w)' = Held(w)
<1>1. UNCHANGED <<outstanding, next_worker, queue, worker, submitting, result>>
  OBVIOUS
<1>2. /\ \A w \in Workers : Queued(w)' = Queued(w) /\ Held(w)' = Held(w)
      /\ Jobs' = Jobs
  BY <1>1 DEF Queued, Held, Jobs
<1>3. StageInv'
  BY <1>1, <1>2 DEF StageInv, StageTypes, WorkerState, OneAnswer, OnePlace, JobsOf
<1> QED BY <1>1, <1>2, <1>3

(* What such a step keeps.                                                 *)
LEMMA HandlerKeeps ==
  ASSUME ReceiverInv, NEW r \in Requests, NEW x \in Handlers, HandlerGoes(r, x)
  PROVE  StageInv' /\ WaitInv' /\ OneAtATime' /\ HandlerState' /\ req' \in [Requests -> Handlers]
<1>1. StageInv /\ RequestTypes /\ OneAtATime /\ HandlerState /\ JobsSubmitted /\ NoHandlerStranded
  BY DEF ReceiverInv, RequestInv
<1>2. /\ StageInv' /\ Jobs' = Jobs /\ UNCHANGED <<outstanding, queue, worker, submitting, result>>
      /\ \A w \in Workers : Queued(w)' = Queued(w) /\ Held(w)' = Held(w)
  BY <1>1, StillStage DEF HandlerGoes, stageVars
<1>3. /\ req \in [Requests -> Handlers] /\ req' = [req EXCEPT ![r] = x]
      /\ UNCHANGED <<kind, deferred>>
  BY <1>1 DEF RequestTypes, HandlerGoes
<1>4. /\ req' \in [Requests -> Handlers] /\ req'[r] = x
      /\ \A q \in Requests : q # r => req'[q] = req[q]
  BY <1>3
<1>5. JobsSubmitted'
  <2>1. Jobs \subseteq Requests
    BY <1>1, WorkerFacts DEF Jobs, JobsOf
  <2>2. ASSUME NEW q \in Jobs PROVE req'[q].pc \notin {"new", "body", "submit"}
    BY <1>1, <1>4, <2>1 DEF JobsSubmitted, HandlerGoes
  <2>3. submitting # None => submitting.req \in Requests /\ req[submitting.req].pc = "decoding"
    BY <1>1, CounterFacts DEF JobsSubmitted, Submissions
  <2>4. submitting # None => req'[submitting.req].pc = "decoding"
    BY <1>4, <2>3 DEF HandlerGoes
  <2>5. ASSUME NEW q \in Requests, req'[q].pc \in {"new", "body", "submit"}
        PROVE  result[q] = None
    BY <1>1, <1>4, <2>5 DEF JobsSubmitted, HandlerGoes
  <2> QED BY <1>2, <2>2, <2>4, <2>5 DEF JobsSubmitted
<1>6. NoHandlerStranded'
  <2> SUFFICES ASSUME NEW q \in Requests, req'[q].pc = "decoding", result[q] = None
               PROVE  \/ submitting # None /\ submitting.req = q
                      \/ \E w \in Workers : worker[w].pc # "gone" /\ q \in Queued(w) \cup Held(w)
    BY <1>2 DEF NoHandlerStranded
  <2>1. q # r
    BY <1>4 DEF HandlerGoes
  <2> QED BY <1>1, <1>4, <2>1 DEF NoHandlerStranded
<1>7. OneAtATime'
  <2>1. ASSUME x.pc \in Sync
        PROVE  submitting = None /\ \A q \in Requests : q # r => req[q].pc \notin Sync
    <3>1. CASE RuntimeFree
      BY <3>1 DEF RuntimeFree
    <3>2. CASE req[r].pc \in Sync
      BY <1>1, <3>2 DEF OneAtATime
    <3> QED BY <2>1, <3>1, <3>2 DEF HandlerGoes
  <2>2. ASSUME NEW p \in Requests, NEW q \in Requests, req'[p].pc \in Sync, req'[q].pc \in Sync
        PROVE  p = q
    BY <1>1, <1>4, <2>1, <2>2 DEF OneAtATime
  <2>3. ASSUME submitting # None, NEW q \in Requests PROVE req'[q].pc \notin Sync
    BY <1>1, <1>4, <2>1, <2>3 DEF OneAtATime
  <2> QED BY <1>2, <2>2, <2>3 DEF OneAtATime, Sync
<1>8. HandlerState'
  BY <1>1, <1>3, <1>4 DEF HandlerState, HandlerGoes
<1> QED BY <1>2, <1>4, <1>5, <1>6, <1>7, <1>8 DEF WaitInv

(* If it has nothing to do with the channel, the counter stays exact.      *)
LEMMA HandlerKeepsAll ==
  ASSUME ReceiverInv, NEW r \in Requests, NEW x \in Handlers, HandlerGoes(r, x),
         UNCHANGED inputVars,
         kind # "arrow_ipc" \/ (x.pc # "send" /\ req[r].pc # "send")
  PROVE  ReceiverInv'
<1>1. StageInv' /\ WaitInv' /\ OneAtATime' /\ HandlerState' /\ req' \in [Requests -> Handlers]
  BY HandlerKeeps
<1>2. RequestTypes /\ RoomExact
  BY DEF ReceiverInv, RequestInv
<1>3. UNCHANGED <<kind, in_flight, rx, channel>> /\ req' = [req EXCEPT ![r] = x]
  BY DEF inputVars, HandlerGoes
<1>4. RequestTypes'
  BY <1>1, <1>2, <1>3 DEF RequestTypes
<1>5. RoomExact'
  <2> SUFFICES ASSUME kind = "arrow_ipc", rx
               PROVE  (/\ Unsent = {} => in_flight = Len(channel)
                       /\ \A q \in Unsent : in_flight = Len(channel) + (req[q].parts - req[q].sent))'
    BY <1>3 DEF RoomExact
  <2>1. /\ Unsent = {} => in_flight = Len(channel)
        /\ \A q \in Unsent : in_flight = Len(channel) + (req[q].parts - req[q].sent)
    BY <1>2 DEF RoomExact
  <2>2. \A q \in Requests : q # r => req'[q] = req[q]
    BY <1>2, <1>3 DEF RequestTypes
  <2>3. req'[r] = x
    BY <1>2, <1>3 DEF RequestTypes
  <2>4. Unsent' = Unsent /\ \A q \in Unsent : q # r /\ q \in Requests
    BY <2>2, <2>3 DEF Unsent
  <2> HIDE DEF Unsent
  <2> QED BY <1>3, <2>1, <2>2, <2>4
<1> QED BY <1>1, <1>4, <1>5 DEF ReceiverInv, RequestInv, WaitInv

(* A request arrives.                                                      *)
LEMMA ArrivesKeeps ==
  ASSUME ReceiverInv, NEW r \in Requests, NEW parts \in Nat, Arrives(r, parts)
  PROVE  ReceiverInv'
<1>1. RequestTypes /\ HandlerState
  BY DEF ReceiverInv, RequestInv
<1>2. req[r] \in Handlers /\ req \in [Requests -> Handlers]
  BY <1>1 DEF RequestTypes
<1>3. /\ RuntimeFree /\ req[r].pc = "new" /\ UNCHANGED <<stageVars, kind, inputVars>>
      /\ \E pc \in {"body", "answered"}, answer \in {None, "busy", "unavailable"} :
            req' = [req EXCEPT ![r].pc = pc, ![r].parts = parts, ![r].answer = answer]
  <2> DEFINE active == {q \in Requests : ~Idle(q)}
             answer == CASE kind = "arrow_ipc" /\ Cardinality(active) >= MaxConnections -> "busy"
                         [] kind = "arrow_ipc" /\ Cardinality(active) < MaxConnections /\ ~is_running -> "unavailable"
                         [] OTHER -> None
             pc == IF answer = None THEN "body" ELSE "answered"
  <2>1. /\ RuntimeFree /\ req[r].pc = "new" /\ UNCHANGED <<stageVars, kind, inputVars>>
        /\ req' = [req EXCEPT ![r].pc = pc, ![r].parts = parts, ![r].answer = answer]
    BY DEF Arrives
  <2>2. answer \in {None, "busy", "unavailable"}
    OBVIOUS
  <2> HIDE DEF answer
  <2>3. pc \in {"body", "answered"}
    OBVIOUS
  <2> HIDE DEF pc
  <2> QED BY <2>1, <2>2, <2>3
<1>4. PICK pc \in {"body", "answered"}, answer \in {None, "busy", "unavailable"} :
          req' = [req EXCEPT ![r].pc = pc, ![r].parts = parts, ![r].answer = answer]
  BY <1>3
<1> DEFINE x == [req[r] EXCEPT !.pc = pc, !.parts = parts, !.answer = answer]
<1>5. x \in Handlers /\ x.pc = pc /\ x.parts = parts /\ x.sent = req[r].sent
  BY <1>2 DEF Handlers
<1>6. req' = [req EXCEPT ![r] = x]
  BY <1>2, <1>4
<1>7. x.sent = 0
  BY <1>1, <1>3, <1>5 DEF HandlerState
<1> HIDE DEF x
<1>8. HandlerGoes(r, x)
  <2>1. submitting = None /\ UNCHANGED <<stageVars, kind, deferred>>
    BY <1>3 DEF RuntimeFree, inputVars
  <2>2. x.pc \in {"body", "answered"} /\ x.pc \notin Sync
    BY <1>5 DEF Sync
  <2>3. x.sent <= x.parts
    BY <1>5, <1>7
  <2> QED BY <1>3, <1>6, <1>7, <2>1, <2>2, <2>3 DEF HandlerGoes
<1> QED BY <1>3, <1>5, <1>8, HandlerKeepsAll

(* The handler comes to its end, or the client goes away.                  *)
LEMMA EndsKeeps ==
  ASSUME ReceiverInv, NEW r \in Requests, NEW pc \in {"answered", "gone"},
         NEW answer \in {None, "ok", "busy", "rejected", "error", "unavailable"},
         Goes(r, pc) \/ req' = [req EXCEPT ![r].pc = pc, ![r].answer = answer],
         RuntimeFree \/ req[r].pc = "respond", req[r].pc # "send",
         UNCHANGED <<stageVars, kind, inputVars>>
  PROVE  ReceiverInv'
<1>1. RequestTypes /\ HandlerState
  BY DEF ReceiverInv, RequestInv
<1>2. PICK x \in Handlers : /\ req' = [req EXCEPT ![r] = x]
                            /\ x.pc = pc /\ x.parts = req[r].parts /\ x.sent = req[r].sent
  <2>1. pc \in {"body", "submit", "reserve", "send", "respond", "answered", "gone"}
    OBVIOUS
  <2>2. CASE Goes(r, pc)
    BY <1>1, <2>1, <2>2, GoesTo
  <2>3. CASE req' = [req EXCEPT ![r].pc = pc, ![r].answer = answer]
    <3>1. pc \in {"respond", "answered", "gone"}
      OBVIOUS
    <3>2. /\ r \in Requests
          /\ answer \in {None, "ok", "busy", "rejected", "error", "unavailable"}
      OBVIOUS
    <3> QED BY ONLY <1>1, <2>3, <3>1, <3>2, AnswersTo, Zenon
  <2> QED BY <2>2, <2>3
<1>3. HandlerGoes(r, x)
  BY <1>1, <1>2 DEF HandlerGoes, HandlerState, inputVars, Sync, RuntimeFree
<1> QED BY <1>2, <1>3, HandlerKeepsAll

(* The body is read.                                                       *)
LEMMA ReadsKeeps ==
  ASSUME ReceiverInv, NEW r \in Requests, ReadsBody(r)
  PROVE  ReceiverInv'
<1>1. RequestTypes /\ HandlerState
  BY DEF ReceiverInv, RequestInv
<1>2. RuntimeFree /\ req[r].pc = "body" /\ UNCHANGED <<stageVars, kind, inputVars>>
  BY DEF ReadsBody
<1>3. CASE Responds(r, "ok")
  BY <1>2, <1>3, EndsKeeps DEF Responds
<1>4. CASE Goes(r, CASE kind = "otlp" -> "submit"
                     [] kind = "arrow_ipc" -> "reserve"
                     [] kind = "http" -> "send")
  <2> DEFINE pc == CASE kind = "otlp" -> "submit"
                     [] kind = "arrow_ipc" -> "reserve"
                     [] kind = "http" -> "send"
  <2>1. /\ pc \in {"submit", "reserve", "send"} /\ (pc = "submit" => kind = "otlp")
        /\ (pc = "send" => kind # "arrow_ipc") /\ (pc = "reserve" => kind = "arrow_ipc")
    BY <1>1 DEF RequestTypes
  <2>2. Goes(r, pc)
    BY <1>4
  <2> HIDE DEF pc
  <2>3. PICK x \in Handlers : /\ req' = [req EXCEPT ![r] = x]
                              /\ x.pc = pc /\ x.parts = req[r].parts /\ x.sent = req[r].sent
    <3>1. pc \in {"body", "submit", "reserve", "send", "respond", "answered", "gone"}
      BY <2>1
    <3> QED BY <1>1, <2>2, <3>1, GoesTo
  <2>4. HandlerGoes(r, x)
    BY <1>1, <1>2, <2>1, <2>3 DEF HandlerGoes, HandlerState, inputVars, RuntimeFree
  <2>5. kind # "arrow_ipc" \/ (x.pc # "send" /\ req[r].pc # "send")
    BY <1>2, <2>1, <2>3
  <2> QED BY <1>2, <2>3, <2>4, <2>5, HandlerKeepsAll
<1> QED BY <1>3, <1>4 DEF ReadsBody

(* The decoder has answered.                                               *)
LEMMA DecodedKeeps ==
  ASSUME ReceiverInv, NEW r \in Requests, Decoded(r)
  PROVE  ReceiverInv'
<1>1. RequestTypes /\ HandlerState
  BY DEF ReceiverInv, RequestInv
<1>2. /\ RuntimeFree /\ req[r].pc = "decoding" /\ UNCHANGED <<stageVars, kind, inputVars>>
      /\ kind = "otlp"
  BY <1>1 DEF Decoded, HandlerState
<1>3. ASSUME NEW answer \in {"ok", "rejected", "busy", "error"}, Responds(r, answer)
      PROVE  ReceiverInv'
  BY <1>2, <1>3, EndsKeeps DEF Responds
<1>4. CASE Goes(r, "send")
  <2>1. PICK x \in Handlers : /\ req' = [req EXCEPT ![r] = x]
                              /\ x.pc = "send" /\ x.parts = req[r].parts /\ x.sent = req[r].sent
    BY <1>1, <1>4, GoesTo
  <2>2. HandlerGoes(r, x)
    BY <1>1, <1>2, <2>1 DEF HandlerGoes, inputVars, RuntimeFree
  <2> QED BY <1>2, <2>1, <2>2, HandlerKeepsAll
<1> QED BY <1>3, <1>4 DEF Decoded

(* The last of a handler's steps.                                          *)
LEMMA FinishesKeeps ==
  ASSUME ReceiverInv, NEW r \in Requests, Finishes(r)
  PROVE  ReceiverInv'
BY EndsKeeps DEF Finishes

(* Room for all batches of a request is taken at once.                     *)
LEMMA ReservesKeeps ==
  ASSUME ReceiverInv, NEW r \in Requests, Reserves(r)
  PROVE  ReceiverInv'
<1>1. RequestTypes /\ HandlerState /\ OneAtATime /\ RoomExact /\ JobsSubmitted /\ StageInv
  BY DEF ReceiverInv, RequestInv
<1>2. /\ req[r].pc = "reserve" /\ UNCHANGED <<stageVars, kind, channel, deferred, rx, delivered, lost>>
  BY DEF Reserves
<1>3. submitting = None
  BY <1>1, <1>2 DEF OneAtATime, Sync
<1>4. ASSUME NEW answer \in {"busy", "unavailable"}, Responds(r, answer), UNCHANGED in_flight
      PROVE  ReceiverInv'
  <2>1. PICK x \in Handlers : /\ req' = [req EXCEPT ![r] = x]
                              /\ x.pc = "answered" /\ x.parts = req[r].parts /\ x.sent = req[r].sent
    BY <1>1, <1>4, AnswersTo DEF Responds
  <2>2. HandlerGoes(r, x)
    BY <1>1, <1>2, <1>3, <2>1 DEF HandlerGoes, HandlerState, Sync
  <2> QED BY <1>2, <1>4, <2>1, <2>2, HandlerKeepsAll DEF inputVars
<1>5. CASE in_flight' = in_flight + req[r].parts /\ Goes(r, "send")
  <2>1. PICK x \in Handlers : /\ req' = [req EXCEPT ![r] = x]
                              /\ x.pc = "send" /\ x.parts = req[r].parts /\ x.sent = req[r].sent
    BY <1>1, <1>5, GoesTo
  <2>2. HandlerGoes(r, x)
    BY <1>1, <1>2, <1>3, <2>1 DEF HandlerGoes, HandlerState, Sync
  <2>3. StageInv' /\ WaitInv' /\ OneAtATime' /\ HandlerState' /\ req' \in [Requests -> Handlers]
    BY <2>1, <2>2, HandlerKeeps
  <2>4. /\ req \in [Requests -> Handlers] /\ req[r].parts \in Nat /\ req[r].sent = 0
        /\ in_flight \in Int
    BY <1>1, <1>2 DEF RequestTypes, Handlers, HandlerState
  <2>5. RequestTypes'
    BY <1>1, <1>2, <1>5, <2>3, <2>4 DEF RequestTypes
  <2>6. Unsent = {}
    BY <1>1, <1>2 DEF Unsent, OneAtATime, Sync
  <2>7. Unsent' = {r}
    <3>1. \A q \in Requests : q # r => req'[q] = req[q] /\ req[q].pc # "send"
      BY <2>1, <2>4, <2>6 DEF Unsent
    <3>2. req'[r].pc = "send"
      BY <2>1, <2>4
    <3> QED BY <3>1, <3>2 DEF Unsent
  <2>8. Len(channel) \in Nat
    BY <1>1 DEF RequestTypes
  <2>9. RoomExact'
    <3>1. req'[r].parts = req[r].parts /\ req'[r].sent = 0
      BY <2>1, <2>4
    <3>2. kind = "arrow_ipc" /\ rx => in_flight = Len(channel)
      BY <1>1, <2>6 DEF RoomExact
    <3> QED BY <1>2, <1>5, <2>4, <2>7, <2>8, <3>1, <3>2 DEF RoomExact
  <2> QED BY <2>3, <2>5, <2>9 DEF ReceiverInv, RequestInv, WaitInv
<1> QED BY <1>4, <1>5 DEF Reserves

(* The entries of a request are entries of the channel.                    *)
LEMMA EntriesFacts ==
  ASSUME RequestTypes, NEW r \in Requests
  PROVE  /\ Len(Entries(r)) = IF kind = "arrow_ipc" THEN req[r].parts ELSE 1
         /\ \A k \in 1 .. Len(Entries(r)) : Entries(r)[k] \in Pieces
<1>1. req[r].parts \in Nat
  BY DEF RequestTypes, Handlers
<1>2. CASE kind = "arrow_ipc"
  <2>1. Entries(r) = [i \in 1 .. req[r].parts |-> [req |-> r, first |-> i, last |-> i]]
    BY <1>2 DEF Entries
  <2>2. Len(Entries(r)) = req[r].parts
    BY <1>1, <2>1
  <2>3. \A k \in 1 .. req[r].parts : Entries(r)[k] = [req |-> r, first |-> k, last |-> k] /\ k \in Nat
    BY <1>1, <2>1
  <2>4. \A k \in 1 .. req[r].parts : Entries(r)[k] \in Pieces
    <3> SUFFICES ASSUME NEW k \in 1 .. req[r].parts
                 PROVE  [req |-> r, first |-> k, last |-> k] \in Pieces
      BY <2>3
    <3> QED BY <2>3 DEF Pieces
  <2> HIDE DEF Entries
  <2> QED BY <1>2, <2>2, <2>4
<1>3. CASE kind # "arrow_ipc"
  <2>1. Entries(r) = <<[req |-> r, first |-> 1, last |-> req[r].parts]>>
    BY <1>3 DEF Entries
  <2> QED BY <1>1, <1>3, <2>1 DEF Pieces
<1> QED BY <1>2, <1>3

(* One try_send.                                                           *)
LEMMA SendsKeeps ==
  ASSUME ReceiverInv, NEW r \in Requests, Sends(r)
  PROVE  ReceiverInv'
<1> DEFINE entries == Entries(r)
           k == req[r].sent + 1
<1>1. RequestTypes /\ HandlerState /\ OneAtATime /\ RoomExact /\ StageInv
  BY DEF ReceiverInv, RequestInv
<1>2. req[r].pc = "send" /\ UNCHANGED <<stageVars, kind, deferred, rx, delivered, lost>>
  BY DEF Sends
<1>3. submitting = None /\ req[r].pc \in Sync
  BY <1>1, <1>2 DEF OneAtATime, Sync
<1>4. /\ req \in [Requests -> Handlers] /\ req[r] \in Handlers
      /\ req[r].parts \in Nat /\ req[r].sent \in Nat
      /\ (kind = "arrow_ipc" => req[r].sent <= req[r].parts)
      /\ in_flight \in Int /\ channel \in Seq(Pieces)
      /\ Len(channel) \in Nat
  BY <1>1 DEF RequestTypes, Handlers, HandlerState
<1>5. /\ Len(entries) = IF kind = "arrow_ipc" THEN req[r].parts ELSE 1
      /\ \A i \in 1 .. Len(entries) : entries[i] \in Pieces
  BY <1>1, EntriesFacts
<1>6. Unsent = {r}
  BY <1>1, <1>2 DEF Unsent, OneAtATime, Sync
<1>7. kind = "arrow_ipc" /\ rx => in_flight = Len(channel) + (req[r].parts - req[r].sent)
  BY <1>1, <1>6 DEF RoomExact
<1> HIDE DEF entries
<1>8. ASSUME NEW x \in Handlers, req' = [req EXCEPT ![r] = x],
             x.pc = "respond", x.parts = req[r].parts, x.sent = req[r].sent,
             in_flight' \in Int, UNCHANGED channel,
             kind = "arrow_ipc" /\ rx => in_flight' = Len(channel)
      PROVE  ReceiverInv'
  <2>1. HandlerGoes(r, x)
    BY <1>2, <1>3, <1>4, <1>8 DEF HandlerGoes, Sync
  <2>2. StageInv' /\ WaitInv' /\ OneAtATime' /\ HandlerState' /\ req' \in [Requests -> Handlers]
    BY <1>8, <2>1, HandlerKeeps
  <2>3. RequestTypes'
    BY <1>1, <1>2, <1>8, <2>2 DEF RequestTypes
  <2>4. Unsent' = {}
    <3>1. \A q \in Requests : q # r => req'[q] = req[q] /\ req[q].pc # "send"
      BY <1>4, <1>6, <1>8 DEF Unsent
    <3>2. req'[r].pc = "respond"
      BY <1>4, <1>8
    <3> QED BY <3>1, <3>2 DEF Unsent
  <2>5. RoomExact'
    BY <1>2, <1>8, <2>4 DEF RoomExact
  <2> QED BY <2>2, <2>3, <2>5 DEF ReceiverInv, RequestInv, WaitInv
<1>9. CASE /\ k > Len(entries)
           /\ req' = [req EXCEPT ![r].pc = "respond", ![r].answer = "ok"]
           /\ UNCHANGED <<in_flight, channel>>
  <2>1. PICK x \in Handlers : /\ req' = [req EXCEPT ![r] = x]
                              /\ x.pc = "respond" /\ x.parts = req[r].parts /\ x.sent = req[r].sent
    BY <1>1, <1>9, AnswersTo
  <2>2. kind = "arrow_ipc" /\ rx => in_flight' = Len(channel)
    BY <1>4, <1>5, <1>7, <1>9
  <2> QED BY <1>4, <1>8, <1>9, <2>1, <2>2
<1>10. ASSUME NEW answer \in {"busy", "error", "unavailable"}, SendFails(r, answer)
       PROVE  ReceiverInv'
  <2>1. PICK x \in Handlers : /\ req' = [req EXCEPT ![r] = x]
                              /\ x.pc = "respond" /\ x.parts = req[r].parts /\ x.sent = req[r].sent
    BY <1>1, <1>10, AnswersTo DEF SendFails
  <2>2. UNCHANGED channel /\ in_flight' \in Int
    BY <1>4, <1>10 DEF SendFails
  <2>3. kind = "arrow_ipc" /\ rx => in_flight' = Len(channel)
    BY <1>4, <1>7, <1>10 DEF SendFails
  <2> QED BY <1>8, <2>1, <2>2, <2>3
<1>11. CASE /\ k <= Len(entries)
            /\ channel' = Append(channel, entries[k])
            /\ req' = [req EXCEPT ![r].sent = k]
            /\ UNCHANGED in_flight
  <2> DEFINE x == [req[r] EXCEPT !.sent = k]
  <2>0. k \in Nat /\ k \in 1 .. Len(entries)
    BY <1>4, <1>5, <1>11
  <2>1. x \in Handlers /\ x.pc = "send" /\ x.parts = req[r].parts /\ x.sent = k
    BY <1>2, <1>4, <2>0 DEF Handlers
  <2>2. req' = [req EXCEPT ![r] = x]
    BY <1>4, <1>11
  <2> HIDE DEF x
  <2>3. kind = "arrow_ipc" => x.sent <= x.parts
    BY <1>5, <1>11, <2>1
  <2>4. HandlerGoes(r, x)
    BY <1>2, <1>3, <2>1, <2>2, <2>3 DEF HandlerGoes
  <2>5. StageInv' /\ WaitInv' /\ OneAtATime' /\ HandlerState' /\ req' \in [Requests -> Handlers]
    BY <2>1, <2>4, HandlerKeeps
  <2>6. /\ channel' \in Seq(Pieces)
        /\ Len(channel') = Len(channel) + 1
    BY <1>4, <1>5, <1>11, <2>0, AppendProperties
  <2>7. RequestTypes'
    BY <1>1, <1>2, <1>11, <2>5, <2>6 DEF RequestTypes
  <2>8. Unsent' = {r}
    <3>1. \A q \in Requests : q # r => req'[q] = req[q] /\ req[q].pc # "send"
      BY <1>4, <1>6, <2>2 DEF Unsent
    <3>2. req'[r].pc = "send"
      BY <1>4, <2>1, <2>2
    <3> QED BY <3>1, <3>2 DEF Unsent
  <2>9. RoomExact'
    <3>1. req'[r].parts = req[r].parts /\ req'[r].sent = req[r].sent + 1
      BY <1>4, <2>1, <2>2
    <3>2. kind = "arrow_ipc" /\ rx =>
              in_flight' = Len(channel') + (req'[r].parts - req'[r].sent)
      BY <1>4, <1>7, <1>11, <2>6, <3>1
    <3> QED BY <1>2, <2>8, <3>2 DEF RoomExact
  <2> QED BY <2>5, <2>7, <2>9 DEF ReceiverInv, RequestInv, WaitInv
<1> QED
  <2>1. "unavailable" \in {"busy", "error", "unavailable"}
    OBVIOUS
  <2>2. (IF kind = "arrow_ipc" THEN "error" ELSE "busy") \in {"busy", "error", "unavailable"}
    OBVIOUS
  <2> QED BY <1>9, <1>10, <1>11, <2>1, <2>2 DEF Sends, entries

-----------------------------------------------------------------------------
(* Steps in which no handler moves.                                        *)

(* What they keep of the handlers, if the stage keeps its part.            *)
LEMMA StandingKeeps ==
  ASSUME RequestInv, UNCHANGED <<kind, req>>, kind # "http" => deferred' = None,
         submitting # None \/ submitting' = None
  PROVE  OneAtATime' /\ HandlerState' /\ Unsent' = Unsent
<1>1. OneAtATime /\ HandlerState
  BY DEF RequestInv
<1>2. OneAtATime'
  BY <1>1 DEF OneAtATime, Sync
<1>3. HandlerState'
  BY <1>1 DEF HandlerState
<1>4. Unsent' = Unsent
  BY DEF Unsent
<1> QED BY <1>2, <1>3, <1>4

(* Steps of the stage alone.                                               *)
LEMMA StageKeeps ==
  ASSUME ReceiverInv, StageInv', WaitInv', UNCHANGED <<kind, req, inputVars>>,
         submitting # None \/ submitting' = None
  PROVE  ReceiverInv'
<1>1. RequestInv /\ RequestTypes /\ RoomExact /\ HandlerState
  BY DEF ReceiverInv, RequestInv
<1>2. UNCHANGED <<channel, deferred, in_flight, rx>>
  BY DEF inputVars
<1>3. OneAtATime' /\ HandlerState' /\ Unsent' = Unsent
  BY <1>1, <1>2, StandingKeeps DEF HandlerState
<1>4. RequestTypes'
  BY <1>1, <1>2 DEF RequestTypes
<1> HIDE DEF Unsent
<1>5. RoomExact'
  BY <1>1, <1>2, <1>3 DEF RoomExact
<1> QED BY <1>3, <1>4, <1>5 DEF ReceiverInv, RequestInv, WaitInv

(* A worker's step, and a panic.                                           *)
LEMMA WorkerKeeps ==
  ASSUME ReceiverInv, NEW w \in Workers, StageStep(w) \/ StagePanics(w)
  PROVE  ReceiverInv'
<1>1. StageInv /\ WaitInv /\ RequestTypes
  BY DEF ReceiverInv, RequestInv, WaitInv
<1>2. (WorkerStep(w) \/ Panics(w)) /\ UNCHANGED <<kind, req, inputVars>>
  BY DEF StageStep, StagePanics
<1>3. PICK q \in Seq(Requests), x \in Places, n \in Nat : WorkerMoves(w, q, x, n)
  BY <1>1, <1>2, WorkersMove DEF Moves
<1>4. StageInv' /\ WaitInv' /\ submitting' = submitting
  BY <1>1, <1>2, <1>3, MovesKeepStage, MovesKeepWait DEF WorkerMoves
<1> QED BY <1>2, <1>4, StageKeeps

(* A submission goes on.                                                   *)
LEMMA ContinuesKeeps ==
  ASSUME ReceiverInv, SubmitContinues
  PROVE  ReceiverInv'
<1>1. StageInv /\ WaitInv /\ RequestTypes
  BY DEF ReceiverInv, RequestInv, WaitInv
<1>2. (SubmitTries \/ SubmitGivesUp) /\ UNCHANGED <<kind, req, inputVars>> /\ submitting # None
  BY DEF SubmitContinues, SubmitTries, SubmitGivesUp
<1>3. StageInv' /\ WaitInv'
  BY <1>1, <1>2, SubmitKeepsWait
<1> QED BY <1>2, <1>3, StageKeeps

(* A submission begins.                                                    *)
LEMMA SubmitsKeeps ==
  ASSUME ReceiverInv, NEW r \in Requests, Submits(r)
  PROVE  ReceiverInv'
<1>1. StageInv /\ WaitInv /\ RequestTypes /\ OneAtATime /\ HandlerState /\ RoomExact
  BY DEF ReceiverInv, RequestInv, WaitInv
<1>2. /\ req[r].pc = "submit" /\ req' = [req EXCEPT ![r].pc = "decoding"]
      /\ UNCHANGED <<kind, channel, deferred, in_flight, rx>>
      /\ req \in [Requests -> Handlers] /\ req[r] \in Handlers
  BY <1>1 DEF Submits, Goes, inputVars, RequestTypes
<1>3. StageInv' /\ WaitInv'
  BY <1>1, SubmitsKeepsWait
<1>4. /\ req'[r].pc = "decoding" /\ req'[r].sent = req[r].sent /\ req'[r].parts = req[r].parts
      /\ \A q \in Requests : q # r => req'[q] = req[q]
      /\ req' \in [Requests -> Handlers]
  BY <1>2 DEF Handlers
<1>5. kind = "otlp" /\ req[r].sent = 0
  BY <1>1, <1>2 DEF HandlerState
<1>6. RequestTypes'
  BY <1>1, <1>2, <1>4 DEF RequestTypes
<1>7. OneAtATime'
  <2>1. \A q \in Requests : q # r => req[q].pc \notin Sync
    BY <1>1, <1>2 DEF OneAtATime, Sync
  <2>2. \A q \in Requests : req'[q].pc \notin Sync
    BY <1>4, <2>1 DEF Sync
  <2> QED BY <2>2 DEF OneAtATime, Sync
<1>8. HandlerState'
  BY <1>1, <1>2, <1>4, <1>5 DEF HandlerState
<1>9. RoomExact'
  BY <1>2, <1>5 DEF RoomExact
<1> QED BY <1>3, <1>6, <1>7, <1>8, <1>9 DEF ReceiverInv, RequestInv, WaitInv

(* poll takes an entry and its reservation.                                *)
LEMMA ReceivesKeeps ==
  ASSUME ReceiverInv, Receives
  PROVE  ReceiverInv'
<1>1. StageInv /\ WaitInv /\ RequestInv /\ RequestTypes /\ HandlerState /\ RoomExact
  BY DEF ReceiverInv, RequestInv, WaitInv
<1>2. /\ UNCHANGED <<stageVars, kind, req, rx>> /\ Undelivered # <<>>
      /\ channel' = IF deferred = None THEN Tail(channel) ELSE channel
      /\ in_flight' = IF kind = "arrow_ipc" THEN in_flight - 1 ELSE in_flight
  BY DEF Receives
<1>3. /\ channel \in Seq(Pieces) /\ in_flight \in Int
  BY <1>1 DEF RequestTypes
<1>4. deferred = None => channel # <<>>
  <2>1. <<>> \o channel = channel
    BY <1>3, ConcatEmptySeq
  <2> QED BY <1>2, <2>1 DEF Undelivered
<1>5. kind # "http" => deferred = None /\ deferred' = None
  <2> SUFFICES ASSUME kind # "http" PROVE deferred = None /\ deferred' = None
    OBVIOUS
  <2>1. deferred = None
    BY <1>1 DEF HandlerState
  <2>2. deferred' = None
    BY DEF Receives
  <2> QED BY <2>1, <2>2
<1>6. /\ channel' \in Seq(Pieces)
      /\ (deferred = None => Len(channel') = Len(channel) - 1)
      /\ Len(channel) \in Nat
  BY <1>2, <1>3, <1>4, HeadTailProperties, LenProperties
<1>7. StageInv' /\ WaitInv'
  BY <1>1, <1>2, StillStage DEF stageVars, WaitInv, JobsSubmitted, NoHandlerStranded
<1>8. OneAtATime' /\ HandlerState' /\ Unsent' = Unsent
  BY <1>1, <1>2, <1>5, StandingKeeps DEF stageVars
<1>9. RequestTypes'
  BY <1>1, <1>2, <1>3, <1>6 DEF RequestTypes
<1>10. RoomExact'
  <2> SUFFICES ASSUME kind = "arrow_ipc", rx
               PROVE  (/\ Unsent = {} => in_flight = Len(channel)
                       /\ \A q \in Unsent : in_flight = Len(channel) + (req[q].parts - req[q].sent))'
    BY <1>2 DEF RoomExact
  <2>1. /\ Unsent = {} => in_flight = Len(channel)
        /\ \A q \in Unsent : in_flight = Len(channel) + (req[q].parts - req[q].sent)
    BY <1>1 DEF RoomExact
  <2>2. in_flight' = in_flight - 1 /\ Len(channel') = Len(channel) - 1
    BY <1>2, <1>5, <1>6
  <2>3. \A q \in Unsent : req[q].parts \in Nat /\ req[q].sent \in Nat /\ req'[q] = req[q]
    BY <1>1, <1>2 DEF RequestTypes, Handlers, Unsent
  <2> HIDE DEF Unsent
  <2>4. ASSUME NEW q \in Unsent
        PROVE  in_flight' = Len(channel') + (req'[q].parts - req'[q].sent)
    <3>1. /\ in_flight = Len(channel) + (req[q].parts - req[q].sent)
          /\ req[q].parts \in Nat /\ req[q].sent \in Nat /\ req'[q] = req[q]
      BY <2>1, <2>3
    <3>2. Len(channel) \in Nat /\ in_flight \in Int
      BY <1>3, <1>6
    <3>3. req'[q].parts = req[q].parts /\ req'[q].sent = req[q].sent
      BY <3>1
    <3> QED BY ONLY <2>2, <3>1, <3>2, <3>3
  <2>5. Unsent' = {} => in_flight' = Len(channel')
    BY <1>8, <2>1, <2>2
  <2> QED BY <1>8, <2>4, <2>5
<1> QED BY <1>7, <1>8, <1>9, <1>10 DEF ReceiverInv, RequestInv, WaitInv

(* The steps of Drop, and the end of the server.                           *)
LEMMA DropKeeps ==
  ASSUME ReceiverInv, DropStopping \/ DropStep \/ ServerEnds
  PROVE  ReceiverInv'
<1>1. StageInv /\ WaitInv /\ RequestInv /\ RequestTypes /\ HandlerState /\ RoomExact
  BY DEF ReceiverInv, RequestInv, WaitInv
<1>2. /\ UNCHANGED <<outstanding, next_worker, queue, worker, submitting, result>>
      /\ UNCHANGED <<kind, req>>
      /\ \/ UNCHANGED inputVars
         \/ rx' = FALSE /\ channel' = <<>> /\ deferred' = None /\ in_flight' = in_flight
  BY DEF DropStopping, DropStep, DropCloses, DropStopped, DropSignals, DropJoins, ServerEnds,
         StageDrops, stageVars
<1>3. StageInv' /\ WaitInv'
  BY <1>1, <1>2, StillStage DEF WaitInv, JobsSubmitted, NoHandlerStranded
<1>4. CASE UNCHANGED inputVars
  BY <1>2, <1>3, <1>4, StageKeeps
<1>5. CASE rx' = FALSE /\ channel' = <<>> /\ deferred' = None /\ in_flight' = in_flight
  <2>1. OneAtATime' /\ HandlerState'
    BY <1>1, <1>2, <1>5, StandingKeeps
  <2>2. RequestTypes'
    <3>1. <<>> \in Seq(Pieces)
      OBVIOUS
    <3>2. in_flight \in Int /\ req \in [Requests -> Handlers] /\ kind \in {"otlp", "arrow_ipc", "http"}
      BY <1>1 DEF RequestTypes
    <3> QED BY <1>2, <1>5, <3>1, <3>2 DEF RequestTypes
  <2>3. RoomExact'
    BY <1>5 DEF RoomExact
  <2> QED BY <1>3, <2>1, <2>2, <2>3 DEF ReceiverInv, RequestInv, WaitInv
<1> QED BY <1>2, <1>4, <1>5

-----------------------------------------------------------------------------
(* The theorems.                                                           *)

(* The initial states satisfy the invariant.                               *)
LEMMA InitInv == Init => ReceiverInv
<1> SUFFICES ASSUME Init PROVE ReceiverInv
  OBVIOUS
<1>1. /\ outstanding = 0 /\ next_worker = 0
      /\ queue = [w \in Workers |-> <<>>]
      /\ worker = [w \in Workers |-> [pc |-> "recv", job |-> None]]
      /\ submitting = None /\ result = [r \in Requests |-> None]
      /\ kind \in Kinds
      /\ req = [r \in Requests |-> [pc |-> "new", parts |-> 0, sent |-> 0, answer |-> None]]
      /\ channel = <<>> /\ deferred = None /\ in_flight = 0 /\ rx = TRUE
  BY DEF Init, StageInit
<1>2. 0 \in Workers /\ MaxOutstanding \in Nat
  BY StageAssumptions DEF Workers
<1>3. StageTypes
  BY <1>1, <1>2 DEF StageTypes, Places, Results
<1>4. WorkerState
  BY <1>1 DEF WorkerState
<1>5. \A w \in Workers : Queued(w) = {} /\ Held(w) = {}
  BY <1>1 DEF Queued, Held
<1>6. Jobs = {}
  BY <1>5 DEF Jobs
<1>7. OnePlace
  BY <1>1, <1>5 DEF OnePlace, JobsOf
<1>13. OneAnswer
  BY <1>1 DEF OneAnswer
<1>8. StageInv
  BY <1>1, <1>2, <1>3, <1>4, <1>6, <1>7, <1>13, FS_EmptySet DEF StageInv
<1>9. RequestTypes
  BY <1>1, ReceiverAssumptions DEF RequestTypes, Handlers
<1>10. OneAtATime /\ HandlerState
  BY <1>1 DEF OneAtATime, HandlerState, Sync
<1>11. RoomExact
  BY <1>1 DEF RoomExact, Unsent
<1>12. JobsSubmitted /\ NoHandlerStranded
  BY <1>1, <1>6 DEF JobsSubmitted, NoHandlerStranded
<1> QED BY <1>8, <1>9, <1>10, <1>11, <1>12 DEF ReceiverInv, RequestInv

(* Stuttering keeps it.                                                    *)
LEMMA StutterKeeps ==
  ASSUME ReceiverInv, UNCHANGED vars
  PROVE  ReceiverInv'
<1>1. StageInv /\ WaitInv
  BY DEF ReceiverInv, WaitInv
<1>2. /\ UNCHANGED <<outstanding, next_worker, queue, worker, submitting, result>>
      /\ UNCHANGED <<kind, req, inputVars>>
  BY DEF vars, stageVars
<1>3. StageInv' /\ WaitInv'
  BY <1>1, <1>2, StillStage DEF WaitInv, JobsSubmitted, NoHandlerStranded
<1> QED BY <1>2, <1>3, StageKeeps

(* Every step keeps it.                                                    *)
LEMMA NextInv == ReceiverInv /\ [Next]_vars => ReceiverInv'
<1> SUFFICES ASSUME ReceiverInv, [Next]_vars PROVE ReceiverInv'
  OBVIOUS
<1>1. CASE UNCHANGED vars
  BY <1>1, StutterKeeps
<1>2. ASSUME NEW r \in Requests, Handler(r) PROVE ReceiverInv'
  BY <1>2, SubmitsKeeps, DecodedKeeps, ReservesKeeps, SendsKeeps, FinishesKeeps DEF Handler
<1>3. ASSUME NEW r \in Requests, RejectsBody(r) \/ ClientGone(r) PROVE ReceiverInv'
  BY <1>3, EndsKeeps DEF RejectsBody, ClientGone, Responds
<1>4. ASSUME NEW r \in Requests, ReadsBody(r) PROVE ReceiverInv'
  BY <1>4, ReadsKeeps
<1>5. ASSUME NEW r \in Requests,
             NEW parts \in IF kind = "otlp" THEN {1} ELSE 0 .. MaxParts, Arrives(r, parts)
      PROVE  ReceiverInv'
  <2>1. parts \in Nat
    BY ReceiverAssumptions
  <2> QED BY <1>5, <2>1, ArrivesKeeps
<1>6. CASE SubmitContinues
  BY <1>6, ContinuesKeeps
<1>7. ASSUME NEW w \in Workers, StageStep(w) \/ StagePanics(w) PROVE ReceiverInv'
  BY <1>7, WorkerKeeps
<1>8. CASE Receives
  BY <1>8, ReceivesKeeps
<1>9. CASE DropStopping \/ DropStep \/ ServerEnds
  BY <1>9, DropKeeps
<1> QED BY <1>1, <1>2, <1>3, <1>4, <1>5, <1>6, <1>7, <1>8, <1>9 DEF Next

(* The inductive invariant of the receivers and of their blocking stage    *)
(* holds, for any number of requests, workers and panics.                  *)
THEOREM ReceiverInvariant == Spec => []ReceiverInv
BY InitInv, NextInv, PTL DEF Spec

(* The admission counters are exact: outstanding counts the jobs that are  *)
(* queued, running or being submitted, and stays within its limit, and     *)
(* in_flight_batches counts what is queued or reserved (blocking_stage.rs, *)
(* arrow_ipc_receiver.rs).                                                 *)
THEOREM CountersAreExact == Spec => []CountersExact
<1>1. ReceiverInv => CountersExact
  BY DEF ReceiverInv, StageInv, RequestInv, RoomExact, CountersExact
<1> QED BY <1>1, ReceiverInvariant, PTL

(* No handler waits for a decoder that has gone, whichever workers panic,  *)
(* close their queue and leave while jobs are being submitted to them.     *)
THEOREM HandlersAreAnswered == Spec => []NoHandlerStranded
<1>1. ReceiverInv => NoHandlerStranded
  BY DEF ReceiverInv
<1> QED BY <1>1, ReceiverInvariant, PTL

-----------------------------------------------------------------------------
(* The stream of what was sent.                                            *)

Fits(s, reach, sizes, http) ==
    InOrder(s) /\ Reaches(s, reach) /\ (http => Adjacent(s, sizes))

(* A size that changes before anything is sent does not matter.            *)
LEMMA SizesMatter ==
  ASSUME NEW s \in Seq(Pieces), NEW reach \in [Requests -> Nat], NEW sizes, NEW others,
         NEW http \in BOOLEAN, Fits(s, reach, sizes, http),
         \A r \in Requests : reach[r] > 0 => others[r] = sizes[r]
  PROVE  Fits(s, reach, others, http)
<1>1. ASSUME NEW i \in DOMAIN s PROVE others[s[i].req] = sizes[s[i].req]
  <2>1. s[i] \in Pieces
    BY LenProperties
  <2>2. s[i].req \in Requests /\ s[i].first \in Nat /\ s[i].last \in Nat
    BY <2>1 DEF Pieces
  <2>3. /\ 1 <= s[i].first /\ s[i].first <= s[i].last /\ s[i].last <= reach[s[i].req]
        /\ reach[s[i].req] \in Nat
    BY <2>2 DEF Fits, InOrder, Reaches
  <2>4. reach[s[i].req] > 0
    BY <2>2, <2>3
  <2> QED BY <2>2, <2>4
<1> QED BY <1>1 DEF Fits, Adjacent

(* The next entry of a request.                                            *)
LEMMA FitsAppended ==
  ASSUME NEW s \in Seq(Pieces), NEW reach \in [Requests -> Nat], NEW sizes,
         NEW http \in BOOLEAN, Fits(s, reach, sizes, http),
         NEW e \in Pieces, e.first = reach[e.req] + 1, e.first <= e.last,
         http => e.last = sizes[e.req]
  PROVE  Fits(Append(s, e), [reach EXCEPT ![e.req] = e.last], sizes, http)
<1> DEFINE t == Append(s, e)
           n == Len(s)
           further == [reach EXCEPT ![e.req] = e.last]
<1>1. /\ n \in Nat /\ DOMAIN s = 1 .. n /\ \A i \in 1 .. n : s[i] \in Pieces
      /\ Len(t) = n + 1 /\ \A i \in 1 .. n : t[i] = s[i]
      /\ t[n + 1] = e /\ DOMAIN t = 1 .. n + 1
  <2>1. t \in Seq(Pieces)
    BY AppendProperties
  <2> QED BY <2>1, AppendProperties, LenProperties
<1> HIDE DEF t
<1>2. /\ \A i \in 1 .. n : s[i].req \in Requests /\ s[i].first \in Nat /\ s[i].last \in Nat
      /\ e.req \in Requests /\ e.first \in Nat /\ e.last \in Nat
  BY <1>1 DEF Pieces
<1>3. InOrder(s) /\ Reaches(s, reach) /\ (http => Adjacent(s, sizes))
  BY DEF Fits
<1>4. further[e.req] = e.last /\ \A r \in Requests : r # e.req => further[r] = reach[r]
  BY <1>2
<1>5. /\ \A r \in Requests : reach[r] \in Nat
      /\ reach[e.req] < e.last
  BY <1>2
<1> HIDE DEF further, n
<1>6. InOrder(t)
  <2> SUFFICES ASSUME NEW i \in 1 .. n + 1
               PROVE  /\ 1 <= t[i].first /\ t[i].first <= t[i].last
                      /\ \A j \in 1 .. i - 1 : t[j].req = t[i].req => t[j].last < t[i].first
                      /\ t[i].first # 1 =>
                            \E j \in 1 .. i - 1 : t[j].req = t[i].req /\ t[j].last = t[i].first - 1
    BY <1>1 DEF InOrder
  <2>1. CASE i \in 1 .. n
    <3>1. \A j \in 1 .. i - 1 : j \in 1 .. n
      BY <1>1, <2>1
    <3>2. t[i] = s[i] /\ \A j \in 1 .. i - 1 : t[j] = s[j]
      BY <1>1, <2>1, <3>1
    <3> QED BY <1>1, <1>3, <2>1, <3>2 DEF InOrder
  <2>2. CASE i = n + 1
    <3>1. \A j \in 1 .. i - 1 : j \in 1 .. n
      BY <1>1, <2>2
    <3>2. t[i] = e /\ \A j \in 1 .. i - 1 : t[j] = s[j]
      BY <1>1, <2>2, <3>1
    <3>3. 1 <= e.first /\ e.first <= e.last
      BY <1>2, <1>5
    <3>4. ASSUME NEW j \in 1 .. n, s[j].req = e.req PROVE s[j].last < e.first
      <4>1. s[j].last <= reach[e.req]
        BY <1>1, <1>3, <3>4 DEF Reaches
      <4> QED BY <1>2, <1>5, <4>1
    <3>5. ASSUME e.first # 1 PROVE \E j \in 1 .. n : s[j].req = e.req /\ s[j].last = e.first - 1
      <4>1. reach[e.req] > 0 /\ e.first - 1 = reach[e.req]
        BY <1>2, <1>5, <3>5
      <4>2. \E j \in 1 .. n : s[j].req = e.req /\ s[j].last = reach[e.req]
        BY <1>1, <1>2, <1>3, <4>1 DEF Reaches
      <4> QED BY <4>1, <4>2
    <3>6. 1 .. i - 1 = 1 .. n
      BY <1>1, <2>2
    <3> QED BY <3>2, <3>3, <3>4, <3>5, <3>6
  <2> QED BY <1>1, <2>1, <2>2
<1>7. Reaches(t, further)
  <2>1. ASSUME NEW i \in 1 .. n + 1 PROVE t[i].last <= further[t[i].req]
    <3>1. CASE i \in 1 .. n
      <4>1. t[i] = s[i] /\ s[i].last <= reach[s[i].req] /\ s[i].req \in Requests /\ s[i].last \in Nat
        BY <1>1, <1>2, <1>3, <3>1 DEF Reaches
      <4> QED BY <1>2, <1>4, <1>5, <4>1
    <3>2. CASE i = n + 1
      BY <1>1, <1>2, <1>4, <3>2
    <3> QED BY <1>1, <3>1, <3>2
  <2>2. ASSUME NEW r \in Requests, further[r] > 0
        PROVE  \E i \in 1 .. n + 1 : t[i].req = r /\ t[i].last = further[r]
    <3>1. CASE r = e.req
      <4>1. n + 1 \in 1 .. n + 1
        BY <1>1
      <4> QED BY <1>1, <1>4, <3>1, <4>1
    <3>2. CASE r # e.req
      <4>1. PICK i \in 1 .. n : s[i].req = r /\ s[i].last = reach[r]
        BY <1>1, <1>3, <1>4, <2>2, <3>2 DEF Reaches
      <4>2. i \in 1 .. n + 1 /\ t[i] = s[i]
        BY <1>1
      <4> QED BY <1>4, <3>2, <4>1, <4>2
    <3> QED BY <3>1, <3>2
  <2> QED BY <1>1, <2>1, <2>2 DEF Reaches
<1>8. ASSUME http PROVE Adjacent(t, sizes)
  <2>1. Adjacent(s, sizes)
    BY <1>3, <1>8
  <2> SUFFICES ASSUME NEW i \in 1 .. n + 1
               PROVE  t[i].last = sizes[t[i].req] \/ (i < n + 1 /\ t[i + 1].req = t[i].req)
    BY <1>1 DEF Adjacent
  <2>2. CASE i = n + 1
    BY <1>1, <1>8, <2>2
  <2>3. CASE i \in 1 .. n
    <3>1. t[i] = s[i] /\ (s[i].last = sizes[s[i].req] \/ (i < n /\ s[i + 1].req = s[i].req))
      BY <1>1, <2>1, <2>3 DEF Adjacent, n
    <3>2. i < n => i + 1 \in 1 .. n /\ i < n + 1
      BY <1>1, <2>3
    <3>3. i < n => t[i + 1] = s[i + 1]
      BY <1>1, <3>2
    <3> QED BY <3>1, <3>2, <3>3
  <2> QED BY <1>1, <2>2, <2>3
<1>9. Fits(t, further, sizes, http)
  BY <1>6, <1>7, <1>8 DEF Fits
<1> QED BY <1>9 DEF t, further

(* Where the pieces of a stream are after the one at p is split.           *)
Before(p, i) == IF i <= p THEN i ELSE i - 1

(* poll splits an entry in two.                                            *)
LEMMA FitsSplit ==
  ASSUME NEW s \in Seq(Pieces), NEW reach \in [Requests -> Nat], NEW sizes,
         NEW http \in BOOLEAN, Fits(s, reach, sizes, http),
         NEW t \in Seq(Pieces), NEW p \in DOMAIN s, NEW end \in Nat,
         s[p].first <= end, end < s[p].last,
         Len(t) = Len(s) + 1,
         \A i \in DOMAIN s : i < p => t[i] = s[i],
         t[p].req = s[p].req, t[p].first = s[p].first, t[p].last = end,
         t[p + 1].req = s[p].req, t[p + 1].first = end + 1, t[p + 1].last = s[p].last,
         \A i \in DOMAIN s : i > p => t[i + 1] = s[i]
  PROVE  Fits(t, reach, sizes, http)
<1> DEFINE n == Len(s)
<1>1. /\ n \in Nat /\ DOMAIN s = 1 .. n /\ DOMAIN t = 1 .. n + 1 /\ p \in 1 .. n
      /\ \A i \in 1 .. n : s[i] \in Pieces
  BY LenProperties
<1>2. \A i \in 1 .. n : s[i].req \in Requests /\ s[i].first \in Nat /\ s[i].last \in Nat
  BY <1>1 DEF Pieces
<1>11. s[p].first <= end /\ end < s[p].last /\ end \in Nat
  OBVIOUS
<1>3. /\ t[p].req = s[p].req /\ t[p].first = s[p].first /\ t[p].last = end
      /\ t[p + 1].req = s[p].req /\ t[p + 1].first = end + 1 /\ t[p + 1].last = s[p].last
  OBVIOUS
<1>4. \A i \in 1 .. n : i < p => t[i] = s[i]
  BY <1>1
<1>5. \A i \in 1 .. n + 1 : i > p + 1 => i - 1 \in 1 .. n /\ i - 1 > p /\ t[i] = s[i - 1]
  <2> SUFFICES ASSUME NEW i \in 1 .. n + 1, i > p + 1
               PROVE  i - 1 \in 1 .. n /\ i - 1 > p /\ t[i] = s[i - 1]
    OBVIOUS
  <2>1. i - 1 \in 1 .. n /\ i - 1 > p /\ (i - 1) + 1 = i
    BY <1>1
  <2>2. t[(i - 1) + 1] = s[i - 1]
    BY <1>1, <2>1
  <2> QED BY <2>1, <2>2
<1>6. InOrder(s) /\ Reaches(s, reach) /\ (http => Adjacent(s, sizes))
  BY DEF Fits
<1> HIDE DEF n
<1>7. ASSUME NEW i \in 1 .. n + 1
      PROVE  /\ Before(p, i) \in 1 .. n /\ t[i].req = s[Before(p, i)].req
             /\ t[i].first >= s[Before(p, i)].first /\ t[i].last <= s[Before(p, i)].last
             /\ t[i].first \in Nat /\ t[i].last \in Nat /\ t[i].first <= t[i].last
             /\ i # p + 1 => t[i].first = s[Before(p, i)].first
             /\ i # p => t[i].last = s[Before(p, i)].last
  <2>1. CASE i < p
    <3>1. i \in 1 .. n /\ Before(p, i) = i /\ t[i] = s[i]
      BY <1>1, <1>4, <2>1 DEF Before
    <3>2. s[i].first <= s[i].last
      BY <1>1, <1>6, <3>1 DEF InOrder
    <3> QED BY <1>2, <3>1, <3>2
  <2>2. CASE i = p
    <3>1. Before(p, i) = p
      BY <1>1, <2>2 DEF Before
    <3> QED BY ONLY <1>1, <1>2, <1>3, <1>11, <2>2, <3>1
  <2>3. CASE i = p + 1
    <3>1. Before(p, i) = p
      BY <1>1, <2>3 DEF Before
    <3> QED BY ONLY <1>1, <1>2, <1>3, <1>11, <2>3, <3>1
  <2>4. CASE i > p + 1
    <3>1. Before(p, i) = i - 1 /\ i - 1 \in 1 .. n /\ t[i] = s[i - 1]
      BY <1>1, <1>5, <2>4 DEF Before
    <3>2. s[i - 1].first <= s[i - 1].last
      BY <1>1, <1>6, <3>1 DEF InOrder
    <3> QED BY <1>1, <1>2, <2>4, <3>1, <3>2
  <2> QED BY <1>1, <2>1, <2>2, <2>3, <2>4
<1>8. InOrder(t)
  <2> SUFFICES ASSUME NEW i \in 1 .. n + 1
               PROVE  /\ 1 <= t[i].first /\ t[i].first <= t[i].last
                      /\ \A j \in 1 .. i - 1 : t[j].req = t[i].req => t[j].last < t[i].first
                      /\ t[i].first # 1 =>
                            \E j \in 1 .. i - 1 : t[j].req = t[i].req /\ t[j].last = t[i].first - 1
    BY <1>1 DEF InOrder
  <2> DEFINE b == Before(p, i)
  <2>1. /\ b \in 1 .. n /\ t[i].req = s[b].req /\ t[i].first >= s[b].first
        /\ t[i].first \in Nat /\ t[i].last \in Nat /\ t[i].first <= t[i].last
        /\ i # p + 1 => t[i].first = s[b].first
    BY <1>7
  <2>2. /\ 1 <= s[b].first
        /\ \A j \in 1 .. b - 1 : s[j].req = s[b].req => s[j].last < s[b].first
        /\ s[b].first # 1 => \E j \in 1 .. b - 1 : s[j].req = s[b].req /\ s[j].last = s[b].first - 1
        /\ s[b].first \in Nat
    BY <1>1, <1>2, <1>6, <2>1 DEF InOrder
  <2>3. ASSUME NEW j \in 1 .. i - 1, t[j].req = t[i].req PROVE t[j].last < t[i].first
    <3>1. CASE i = p + 1 /\ j = p
      BY ONLY <1>1, <1>3, <1>11, <3>1
    <3>2. CASE ~(i = p + 1 /\ j = p)
      <4>1. j \in 1 .. n + 1 /\ Before(p, j) \in 1 .. b - 1
        BY <1>1, <2>1, <3>2 DEF Before
      <4>2. /\ t[j].req = s[Before(p, j)].req /\ t[j].last <= s[Before(p, j)].last
            /\ s[Before(p, j)].last \in Nat /\ t[j].last \in Nat
        BY <1>2, <1>7, <4>1
      <4>3. s[Before(p, j)].last < s[b].first
        BY <2>1, <2>2, <2>3, <4>1, <4>2
      <4>4. t[i].first >= s[b].first /\ t[i].first \in Nat /\ s[b].first \in Nat
        BY <2>1, <2>2
      <4> QED BY ONLY <4>2, <4>3, <4>4
    <3> QED BY <3>1, <3>2
  <2>4. ASSUME t[i].first # 1
        PROVE  \E j \in 1 .. i - 1 : t[j].req = t[i].req /\ t[j].last = t[i].first - 1
    <3>1. CASE i = p + 1
      <4>1. p \in 1 .. i - 1 /\ t[p].req = t[i].req /\ t[p].last = t[i].first - 1
        BY ONLY <1>1, <1>3, <1>11, <3>1
      <4> QED BY <4>1
    <3>2. CASE i # p + 1
      <4>1. PICK j \in 1 .. b - 1 : s[j].req = s[b].req /\ s[j].last = s[b].first - 1
        BY <2>1, <2>2, <2>4, <3>2
      <4>2. CASE j < p
        <5>1. j \in 1 .. i - 1 /\ j \in 1 .. n /\ t[j] = s[j]
          BY <1>1, <1>4, <2>1, <4>2 DEF Before
        <5> QED BY <2>1, <3>2, <4>1, <5>1
      <4>3. CASE j >= p
        <5>3. i > p + 1 /\ b = i - 1
          BY ONLY <1>1, <2>1, <3>2, <4>3, i \in 1 .. n + 1, j \in 1 .. b - 1 DEF Before
        <5>1. j + 1 \in 1 .. i - 1 /\ j + 1 \in 1 .. n + 1 /\ Before(p, j + 1) = j /\ j + 1 # p
          BY ONLY <1>1, <4>3, <5>3, i \in 1 .. n + 1, j \in 1 .. b - 1 DEF Before
        <5>2. t[j + 1].req = s[j].req /\ t[j + 1].last = s[j].last
          BY <1>7, <5>1
        <5> QED BY <2>1, <3>2, <4>1, <5>1, <5>2
      <4> QED BY <1>1, <2>1, <4>2, <4>3
    <3> QED BY <3>1, <3>2
  <2>5. 1 <= t[i].first
    BY <2>1, <2>2
  <2> QED BY <2>1, <2>3, <2>4, <2>5
<1>9. Reaches(t, reach)
  <2>1. ASSUME NEW i \in 1 .. n + 1 PROVE t[i].last <= reach[t[i].req]
    <3>1. /\ Before(p, i) \in 1 .. n /\ t[i].req = s[Before(p, i)].req
          /\ t[i].last <= s[Before(p, i)].last /\ t[i].last \in Nat
      BY <1>7
    <3>2. /\ s[Before(p, i)].last <= reach[t[i].req] /\ s[Before(p, i)].last \in Nat
          /\ reach[t[i].req] \in Nat
      BY <1>1, <1>2, <1>6, <3>1 DEF Reaches
    <3> QED BY <3>1, <3>2
  <2>2. ASSUME NEW r \in Requests, reach[r] > 0
        PROVE  \E i \in 1 .. n + 1 : t[i].req = r /\ t[i].last = reach[r]
    <3>1. PICK i \in 1 .. n : s[i].req = r /\ s[i].last = reach[r]
      BY <1>1, <1>6, <2>2 DEF Reaches
    <3>2. CASE i < p
      BY <1>1, <1>4, <3>1, <3>2
    <3>3. CASE i >= p
      <4>1. i + 1 \in 1 .. n + 1 /\ Before(p, i + 1) = i /\ i + 1 # p
        BY <1>1, <3>3 DEF Before
      <4> QED BY <1>7, <3>1, <4>1
    <3> QED BY <1>1, <3>2, <3>3
  <2> QED BY <1>1, <2>1, <2>2 DEF Reaches
<1>10. ASSUME http PROVE Adjacent(t, sizes)
  <2> SUFFICES ASSUME NEW i \in 1 .. n + 1
               PROVE  t[i].last = sizes[t[i].req] \/ (i < n + 1 /\ t[i + 1].req = t[i].req)
    BY <1>1 DEF Adjacent, n
  <2> DEFINE b == Before(p, i)
  <2>1. /\ b \in 1 .. n /\ t[i].req = s[b].req /\ (i # p => t[i].last = s[b].last)
    BY <1>7
  <2>2. s[b].last = sizes[s[b].req] \/ (b < n /\ s[b + 1].req = s[b].req)
    BY <1>1, <1>6, <1>10, <2>1 DEF Adjacent, n
  <2>3. CASE i = p
    BY ONLY <1>1, <1>3, <2>3
  <2>4. CASE i # p /\ b < n /\ s[b + 1].req = s[b].req
    <3>1. i + 1 \in 1 .. n + 1 /\ i < n + 1
      BY <1>1, <2>1, <2>4 DEF Before
    <3>2. Before(p, i + 1) \in {b, b + 1}
      BY <1>1, <2>1 DEF Before
    <3>3. t[i + 1].req = s[Before(p, i + 1)].req
      BY <1>7, <3>1
    <3> QED BY <2>1, <2>4, <3>1, <3>2, <3>3
  <2> QED BY <2>1, <2>2, <2>3, <2>4
<1> QED BY <1>8, <1>9, <1>10 DEF Fits

-----------------------------------------------------------------------------
(* What the answers tell.                                                  *)

(* The stream is a sequence of pieces, and what is sent is counted.        *)
LEMMA StreamTypes ==
  ASSUME RequestTypes, ChannelState
  PROVE  /\ Undelivered \in Seq(Pieces) /\ Stream \in Seq(Pieces)
         /\ Reach \in [Requests -> Nat] /\ \A r \in Requests : Reach[r] = ReachOf(req[r])
         /\ \A r \in Requests : Sizes[r] = req[r].parts
<1>1. /\ delivered \in Seq(Pieces) /\ lost \in Seq(Pieces) /\ deferred \in {None} \cup Pieces
      /\ channel \in Seq(Pieces)
  BY DEF RequestTypes, ChannelState
<1>2. (IF deferred = None THEN <<>> ELSE <<deferred>>) \in Seq(Pieces)
  BY <1>1
<1>3. Undelivered \in Seq(Pieces)
  BY <1>1, <1>2, ConcatProperties DEF Undelivered
<1>4. Stream \in Seq(Pieces)
  <2>1. delivered \o Undelivered \in Seq(Pieces)
    BY <1>1, <1>3, ConcatProperties
  <2> QED BY <1>1, <2>1, ConcatProperties DEF Stream
<1>5. \A r \in Requests : ReachOf(req[r]) \in Nat
  BY DEF RequestTypes, Handlers, ReachOf
<1> QED BY <1>3, <1>4, <1>5 DEF Reach, Sizes

(* StreamOK in terms of the lemmas about streams.                          *)
LEMMA StreamFits ==
  StreamOK <=> Fits(Stream, Reach, Sizes, kind = "http")
BY DEF StreamOK, Fits

(* A decoder's answer is kept, so it still tells what it told.             *)
LEMMA ToldKept ==
  ASSUME NEW x, NEW res, NEW res2, Told(x, res), res # None => res2 = res
  PROVE  Told(x, res2)
<1>1. "empty" # None
  BY StageAssumptions
<1> QED BY <1>1 DEF Told

(* A step after which some requests tell anew and the others as before.    *)
LEMMA AllToldKept ==
  ASSUME AllTold, kind' = kind,
         \A q \in Requests : \/ Told(req'[q], result'[q])
                             \/ req'[q] = req[q] /\ (result[q] # None => result'[q] = result[q])
  PROVE  AllTold'
<1>1. ASSUME NEW q \in Requests PROVE Told(req'[q], result'[q])
  <2>1. Told(req[q], result[q])
    BY DEF AllTold
  <2>2. (result[q] # None => result'[q] = result[q]) => Told(req[q], result'[q])
    BY <2>1, ToldKept
  <2> QED BY <2>2
<1>2. \A q \in Requests : Told(req'[q], result'[q]) => Told(req[q], result[q])'
  BY DEF Told, ReachOf
<1> QED BY <1>1, <1>2 DEF AllTold

(* A step that sends and takes nothing.                                    *)
LEMMA QuietTells ==
  ASSUME FullInv, RequestTypes', UNCHANGED <<kind, delivered, deferred, channel, lost, rx>>,
         dropped' \in Nat, dropped' < 2 <=> dropped < 2,
         kind = "arrow_ipc" /\ rx => in_flight' <= Capacity,
         \A q \in Requests :
            /\ ReachOf(req'[q]) = ReachOf(req[q])
            /\ req'[q].parts = req[q].parts \/ ReachOf(req[q]) = 0
            /\ \/ Told(req'[q], result'[q])
               \/ req'[q] = req[q] /\ (result[q] # None => result'[q] = result[q])
  PROVE  OutcomeInv'
<1>1. ChannelState /\ StreamOK /\ AllTold /\ RequestTypes
  BY DEF FullInv, OutcomeInv, ReceiverInv, RequestInv
<1>2. AllTold'
  BY <1>1, AllToldKept
<1>3. ChannelState'
  BY <1>1 DEF ChannelState
<1>4. /\ Stream \in Seq(Pieces) /\ Reach \in [Requests -> Nat]
      /\ \A r \in Requests : Reach[r] = ReachOf(req[r]) /\ Sizes[r] = req[r].parts
  BY <1>1, StreamTypes
<1>5. \A r \in Requests : ReachOf(req[r])' = ReachOf(req[r])
  BY DEF ReachOf
<1>6. Reach' = Reach
  BY <1>5 DEF Reach
<1>7. \A r \in Requests : Reach[r] > 0 => Sizes'[r] = Sizes[r]
  <2>1. \A r \in Requests : Sizes'[r] = req'[r].parts
    BY DEF Sizes
  <2> QED BY <1>4, <2>1
<1>8. Stream' = Stream
  BY DEF Stream, Undelivered
<1>9. Fits(Stream, Reach, Sizes, kind = "http")
  BY <1>1, StreamFits
<1>10. Fits(Stream, Reach, Sizes', kind = "http")
  <2>1. (kind = "http") \in BOOLEAN
    OBVIOUS
  <2> HIDE DEF Stream, Reach, Sizes
  <2> QED BY ONLY <1>4, <1>7, <1>9, <2>1, SizesMatter
<1>11. StreamOK'
  <2>1. Fits(Stream', Reach', Sizes', kind' = "http")
    BY <1>6, <1>8, <1>10
  <2> QED BY <2>1 DEF StreamOK, Fits
<1> QED BY <1>2, <1>3, <1>11 DEF OutcomeInv

(* A step of a handler that changes its place and its answer only.         *)
Becomes(r, pc, answer) ==
    /\ req'[r].pc = pc /\ req'[r].answer = answer
    /\ req'[r].parts = req[r].parts /\ req'[r].sent = req[r].sent
    /\ \A q \in Requests : q # r => req'[q] = req[q]

(* Such are the steps that only go on, and the responses.                  *)
LEMMA StepsBecome ==
  ASSUME RequestTypes, NEW r \in Requests
  PROVE  /\ \A pc : Goes(r, pc) => Becomes(r, pc, req[r].answer)
         /\ \A answer : Responds(r, answer) => Becomes(r, "answered", answer)
<1>1. req \in [Requests -> Handlers] /\ req[r] \in Handlers
  BY DEF RequestTypes
<1>2. ASSUME NEW pc, Goes(r, pc) PROVE Becomes(r, pc, req[r].answer)
  BY <1>1, <1>2 DEF Goes, Handlers, Becomes
<1>3. ASSUME NEW answer, Responds(r, answer) PROVE Becomes(r, "answered", answer)
  BY <1>1, <1>3 DEF Responds, Handlers, Becomes
<1> QED BY <1>2, <1>3

(* A handler goes on or ends, and sends nothing by it.                     *)
LEMMA GoesTells ==
  ASSUME FullInv, ReceiverInv', NEW r \in Requests, NEW pc, NEW answer, Becomes(r, pc, answer),
         UNCHANGED <<stageVars, kind, delivered, deferred, channel, lost, rx, dropped>>,
         kind = "arrow_ipc" /\ rx => in_flight' <= Capacity,
         kind = "otlp" => req[r].parts > 0,
         kind = "http" /\ pc = "send" => req[r].parts > 0,
         pc \in {"new", "body", "submit", "decoding", "reserve", "send", "gone"} => answer = None,
         answer = "ok" /\ result[r] # "empty" => ReachOf(req[r]) = req[r].parts,
         answer \in {"busy", "rejected", "error"} => req[r].sent = 0,
         kind = "arrow_ipc" => answer # "error"
  PROVE  OutcomeInv'
<1>1. RequestTypes /\ RequestTypes' /\ AllTold /\ ChannelState
  BY DEF FullInv, OutcomeInv, ReceiverInv, RequestInv
<1>2. /\ req'[r].pc = pc /\ req'[r].answer = answer
      /\ req'[r].parts = req[r].parts /\ req'[r].sent = req[r].sent
      /\ \A q \in Requests : q # r => req'[q] = req[q]
  BY DEF Becomes
<1>3. result' = result
  BY DEF stageVars
<1>4. ReachOf(req'[r]) = ReachOf(req[r])
  BY <1>2 DEF ReachOf
<1>5. Told(req[r], result[r])
  BY <1>1 DEF AllTold
<1>6. Told(req'[r], result'[r])
  BY <1>2, <1>3, <1>4, <1>5 DEF Told
<1>7. ASSUME NEW q \in Requests
      PROVE  /\ ReachOf(req'[q]) = ReachOf(req[q])
             /\ req'[q].parts = req[q].parts
             /\ Told(req'[q], result'[q]) \/ (req'[q] = req[q] /\ result'[q] = result[q])
  BY <1>2, <1>3, <1>4, <1>6
<1>8. dropped' \in Nat /\ (dropped' < 2 <=> dropped < 2)
  BY <1>1 DEF ChannelState
<1> QED BY <1>1, <1>7, <1>8, QuietTells

(* What a handler that goes on is told, and what the step leaves alone.    *)
LEMMA HandlerFacts ==
  ASSUME FullInv, NEW r \in Requests
  PROVE  /\ RequestTypes /\ HandlerState /\ OneAtATime /\ RoomExact /\ JobsSubmitted /\ StageInv
         /\ ChannelState /\ StreamOK /\ AllTold /\ Told(req[r], result[r])
         /\ kind = "arrow_ipc" /\ rx => in_flight <= Capacity
         /\ req[r] \in Handlers /\ req[r].parts \in Nat /\ req[r].sent \in Nat
         /\ req[r].pc \in {"new", "body", "submit", "decoding", "reserve"} =>
               req[r].sent = 0 /\ ReachOf(req[r]) = 0
<1>1. /\ RequestTypes /\ HandlerState /\ OneAtATime /\ RoomExact /\ JobsSubmitted /\ StageInv
      /\ ChannelState /\ StreamOK /\ AllTold /\ Told(req[r], result[r])
  BY DEF FullInv, OutcomeInv, ReceiverInv, RequestInv, AllTold
<1>2. req[r] \in Handlers /\ req[r].parts \in Nat /\ req[r].sent \in Nat
  BY <1>1 DEF RequestTypes, Handlers
<1>3. kind = "arrow_ipc" /\ rx => in_flight <= Capacity
  BY <1>1 DEF ChannelState
<1>4. req[r].pc \in {"new", "body", "submit", "decoding", "reserve"} =>
          req[r].sent = 0 /\ ReachOf(req[r]) = 0
  BY <1>1 DEF HandlerState, ReachOf
<1> QED BY <1>1, <1>2, <1>3, <1>4

(* A request arrives with its size.                                        *)
LEMMA ArrivesTells ==
  ASSUME FullInv, ReceiverInv', NEW r \in Requests, NEW parts \in Nat,
         kind = "otlp" => parts = 1, Arrives(r, parts)
  PROVE  OutcomeInv'
<1>1. /\ RequestTypes /\ RequestTypes' /\ ChannelState /\ req[r] \in Handlers
      /\ req[r].sent = 0 /\ ReachOf(req[r]) = 0 /\ req[r].pc = "new"
      /\ kind = "arrow_ipc" /\ rx => in_flight <= Capacity
  BY HandlerFacts DEF ReceiverInv, RequestInv, Arrives
<1>2. /\ UNCHANGED <<result, kind, delivered, deferred, channel, lost, rx, dropped, in_flight>>
      /\ \E answer \in {None, "busy", "unavailable"} :
            req' = [req EXCEPT ![r].pc = IF answer = None THEN "body" ELSE "answered",
                               ![r].parts = parts, ![r].answer = answer]
  <2> DEFINE active == {q \in Requests : ~Idle(q)}
             reply == CASE kind = "arrow_ipc" /\ Cardinality(active) >= MaxConnections -> "busy"
                        [] kind = "arrow_ipc" /\ Cardinality(active) < MaxConnections /\ ~is_running -> "unavailable"
                        [] OTHER -> None
  <2>1. /\ UNCHANGED <<stageVars, kind, inputVars, dropVars>>
        /\ req' = [req EXCEPT ![r].pc = IF reply = None THEN "body" ELSE "answered",
                              ![r].parts = parts, ![r].answer = reply]
    BY DEF Arrives
  <2>2. reply \in {None, "busy", "unavailable"}
    OBVIOUS
  <2> HIDE DEF reply
  <2> QED BY <2>1, <2>2 DEF stageVars, inputVars, dropVars
<1>3. PICK answer \in {None, "busy", "unavailable"} :
          req' = [req EXCEPT ![r].pc = IF answer = None THEN "body" ELSE "answered",
                             ![r].parts = parts, ![r].answer = answer]
  BY <1>2
<1>4. /\ req'[r].pc = IF answer = None THEN "body" ELSE "answered"
      /\ req'[r].parts = parts /\ req'[r].answer = answer /\ req'[r].sent = 0
      /\ \A q \in Requests : q # r => req'[q] = req[q]
  BY <1>1, <1>3 DEF RequestTypes, Handlers
<1>5. ReachOf(req'[r]) = 0
  BY <1>4 DEF ReachOf
<1>6. Told(req'[r], result'[r])
  BY <1>2, <1>4, <1>5, ReceiverAssumptions DEF Told
<1>7. ASSUME NEW q \in Requests
      PROVE  /\ ReachOf(req'[q]) = ReachOf(req[q])
             /\ req'[q].parts = req[q].parts \/ ReachOf(req[q]) = 0
             /\ Told(req'[q], result'[q]) \/ (req'[q] = req[q] /\ result'[q] = result[q])
  BY <1>1, <1>2, <1>4, <1>5, <1>6
<1>8. dropped' \in Nat /\ (dropped' < 2 <=> dropped < 2)
  BY <1>1, <1>2 DEF ChannelState
<1> QED BY <1>1, <1>2, <1>7, <1>8, QuietTells

(* The body is refused, or the client goes away.                           *)
LEMMA BodyEndsTells ==
  ASSUME FullInv, ReceiverInv', NEW r \in Requests, RejectsBody(r) \/ ClientGone(r)
  PROVE  OutcomeInv'
<1>1. /\ Told(req[r], result[r]) /\ req[r].pc \in {"body", "decoding"} /\ req[r].sent = 0
      /\ UNCHANGED <<stageVars, kind, delivered, deferred, channel, lost, rx, dropped, in_flight>>
      /\ kind = "arrow_ipc" /\ rx => in_flight <= Capacity
  BY HandlerFacts DEF RejectsBody, ClientGone, inputVars, dropVars
<1>2. req[r].answer = None /\ (kind = "otlp" => req[r].parts > 0)
  BY <1>1 DEF Told
<1>3. CASE RejectsBody(r)
  <2>1. Becomes(r, "answered", "rejected")
    BY <1>3, StepsBecome, HandlerFacts DEF RejectsBody
  <2> QED BY <1>1, <1>2, <2>1, GoesTells
<1>4. CASE ClientGone(r)
  <2>1. Becomes(r, "gone", None)
    BY <1>2, <1>4, StepsBecome, HandlerFacts DEF ClientGone
  <2>2. None \notin {"ok", "busy", "rejected", "error"}
    BY ReceiverAssumptions
  <2> QED BY <1>1, <1>2, <2>1, <2>2, GoesTells
<1> QED BY <1>3, <1>4

(* The body is read.                                                       *)
LEMMA ReadsTells ==
  ASSUME FullInv, ReceiverInv', NEW r \in Requests, ReadsBody(r)
  PROVE  OutcomeInv'
<1>1. /\ Told(req[r], result[r]) /\ req[r].pc = "body" /\ req[r].sent = 0
      /\ ReachOf(req[r]) = 0 /\ req[r].parts \in Nat
      /\ UNCHANGED <<stageVars, kind, delivered, deferred, channel, lost, rx, dropped, in_flight>>
      /\ kind = "arrow_ipc" /\ rx => in_flight <= Capacity
      /\ kind \in {"otlp", "arrow_ipc", "http"}
  BY HandlerFacts DEF ReadsBody, inputVars, dropVars, RequestTypes
<1>2. req[r].answer = None /\ (kind = "otlp" => req[r].parts > 0)
  BY <1>1 DEF Told
<1>3. CASE kind = "http" /\ req[r].parts = 0 /\ Responds(r, "ok")
  <2>1. Becomes(r, "answered", "ok")
    BY <1>3, StepsBecome, HandlerFacts
  <2> QED BY <1>1, <1>2, <1>3, <2>1, GoesTells
<1>4. CASE /\ ~(kind = "http" /\ req[r].parts = 0)
           /\ Goes(r, CASE kind = "otlp" -> "submit"
                        [] kind = "arrow_ipc" -> "reserve"
                        [] kind = "http" -> "send")
  <2> DEFINE pc == CASE kind = "otlp" -> "submit"
                     [] kind = "arrow_ipc" -> "reserve"
                     [] kind = "http" -> "send"
  <2>1. Becomes(r, pc, None)
    BY <1>2, <1>4, StepsBecome, HandlerFacts
  <2>2. None \notin {"ok", "busy", "rejected", "error"}
    BY ReceiverAssumptions
  <2>3. kind = "http" /\ pc = "send" => req[r].parts > 0
    BY <1>1, <1>4
  <2> HIDE DEF pc
  <2> QED BY <1>1, <1>2, <2>1, <2>2, <2>3, GoesTells
<1> QED BY <1>3, <1>4 DEF ReadsBody

(* The decoder's answer becomes the handler's.                             *)
LEMMA DecodedTells ==
  ASSUME FullInv, ReceiverInv', NEW r \in Requests, Decoded(r)
  PROVE  OutcomeInv'
<1>1. /\ Told(req[r], result[r]) /\ req[r].pc = "decoding" /\ req[r].sent = 0
      /\ UNCHANGED <<stageVars, kind, delivered, deferred, channel, lost, rx, dropped, in_flight>>
      /\ kind = "otlp"
  BY HandlerFacts DEF Decoded, inputVars, dropVars, HandlerState
<1>2. req[r].answer = None /\ req[r].parts > 0
  BY <1>1 DEF Told
<1>3. CASE Goes(r, "send")
  <2>1. Becomes(r, "send", None)
    BY <1>2, <1>3, StepsBecome, HandlerFacts
  <2>2. None \notin {"ok", "busy", "rejected", "error"}
    BY ReceiverAssumptions
  <2> QED BY <1>1, <1>2, <2>1, <2>2, GoesTells
<1>4. ASSUME NEW answer \in {"ok", "rejected", "busy", "error"}, Responds(r, answer),
             answer = "ok" => result[r] = "empty"
      PROVE  OutcomeInv'
  <2>1. Becomes(r, "answered", answer)
    BY <1>4, StepsBecome, HandlerFacts
  <2> QED BY <1>1, <1>2, <1>4, <2>1, GoesTells
<1> QED BY <1>3, <1>4 DEF Decoded

(* The last step of a handler.                                             *)
LEMMA FinishesTells ==
  ASSUME FullInv, ReceiverInv', NEW r \in Requests, Finishes(r)
  PROVE  OutcomeInv'
<1>1. /\ Told(req[r], result[r]) /\ req[r].pc = "respond" /\ Goes(r, "answered")
      /\ UNCHANGED <<stageVars, kind, delivered, deferred, channel, lost, rx, dropped, in_flight>>
      /\ kind = "arrow_ipc" /\ rx => in_flight <= Capacity
  BY HandlerFacts DEF Finishes, inputVars, dropVars
<1>2. PICK answer : answer = req[r].answer /\ Becomes(r, "answered", answer)
  BY <1>1, StepsBecome, HandlerFacts
<1>3. /\ kind = "otlp" => req[r].parts > 0
      /\ answer = "ok" /\ result[r] # "empty" => ReachOf(req[r]) = req[r].parts
      /\ answer \in {"busy", "rejected", "error"} => req[r].sent = 0
      /\ kind = "arrow_ipc" => answer # "error"
  BY <1>1, <1>2 DEF Told
<1> QED BY <1>1, <1>2, <1>3, GoesTells

(* Room is reserved for all batches, or for none.                          *)
LEMMA ReservesTells ==
  ASSUME FullInv, ReceiverInv', NEW r \in Requests, Reserves(r)
  PROVE  OutcomeInv'
<1>1. /\ Told(req[r], result[r]) /\ req[r].pc = "reserve" /\ req[r].sent = 0
      /\ UNCHANGED <<stageVars, kind, delivered, deferred, channel, lost, rx, dropped>>
      /\ kind = "arrow_ipc" /\ rx => in_flight <= Capacity
      /\ kind = "arrow_ipc"
  BY HandlerFacts DEF Reserves, dropVars, HandlerState
<1>2. req[r].answer = None /\ (kind = "otlp" => req[r].parts > 0)
  BY <1>1 DEF Told
<1>3. ASSUME NEW answer \in {"busy", "unavailable"}, Responds(r, answer), UNCHANGED in_flight
      PROVE  OutcomeInv'
  <2>1. Becomes(r, "answered", answer)
    BY <1>3, StepsBecome, HandlerFacts
  <2> QED BY <1>1, <1>2, <1>3, <2>1, GoesTells
<1>4. CASE /\ in_flight + req[r].parts <= Capacity /\ in_flight' = in_flight + req[r].parts
           /\ Goes(r, "send")
  <2>1. Becomes(r, "send", None)
    BY <1>2, <1>4, StepsBecome, HandlerFacts
  <2>2. None \notin {"ok", "busy", "rejected", "error"}
    BY ReceiverAssumptions
  <2> QED BY <1>1, <1>2, <1>4, <2>1, <2>2, GoesTells
<1> QED BY <1>3, <1>4 DEF Reserves

(* Steps of the stage: the decoders answer once.                           *)
LEMMA StageTells ==
  ASSUME FullInv, ReceiverInv', UNCHANGED <<kind, req, inputVars, dropped>>,
         \A q \in Requests : result[q] # None => result'[q] = result[q]
  PROVE  OutcomeInv'
<1>1. RequestTypes' /\ ChannelState
  BY DEF FullInv, OutcomeInv, ReceiverInv, RequestInv
<1>2. UNCHANGED <<delivered, deferred, channel, lost, rx, in_flight>>
  BY DEF inputVars
<1>3. kind = "arrow_ipc" /\ rx => in_flight' <= Capacity
  BY <1>1, <1>2 DEF ChannelState
<1>4. dropped' \in Nat /\ (dropped' < 2 <=> dropped < 2)
  BY <1>1 DEF ChannelState
<1>5. \A q \in Requests :
          /\ ReachOf(req'[q]) = ReachOf(req[q]) /\ req'[q].parts = req[q].parts
          /\ req'[q] = req[q] /\ (result[q] # None => result'[q] = result[q])
  OBVIOUS
<1> QED BY <1>1, <1>2, <1>3, <1>4, <1>5, QuietTells

(* A worker's step, and a panic.                                           *)
LEMMA WorkerTells ==
  ASSUME FullInv, ReceiverInv', NEW w \in Workers, StageStep(w) \/ StagePanics(w)
  PROVE  OutcomeInv'
<1>1. StageInv
  BY DEF FullInv, ReceiverInv
<1>2. (WorkerStep(w) \/ Panics(w)) /\ UNCHANGED <<kind, req, inputVars, dropped>>
  BY DEF StageStep, StagePanics, dropVars
<1>3. PICK q \in Seq(Requests), x \in Places, n \in Nat : WorkerMoves(w, q, x, n)
  BY <1>1, <1>2, WorkersMove DEF Moves
<1>4. \A r \in Requests : result[r] # None => result'[r] = result[r]
  BY <1>3 DEF WorkerMoves
<1> QED BY <1>2, <1>4, StageTells

(* A submission goes on.                                                   *)
LEMMA ContinuesTells ==
  ASSUME FullInv, ReceiverInv', SubmitContinues
  PROVE  OutcomeInv'
<1>1. StageInv
  BY DEF FullInv, ReceiverInv
<1>2. (SubmitTries \/ SubmitGivesUp) /\ UNCHANGED <<kind, req, inputVars, dropped>>
  BY DEF SubmitContinues, dropVars
<1>3. \A q \in Requests : result[q] # None => result'[q] = result[q]
  <2>1. CASE SubmitTries
    BY <2>1 DEF SubmitTries
  <2>2. CASE SubmitGivesUp
    BY <1>1, <2>2, GivesUpKeepsStage
  <2> QED BY <1>2, <2>1, <2>2
<1> QED BY <1>2, <1>3, StageTells

(* A submission begins.                                                    *)
LEMMA SubmitsTells ==
  ASSUME FullInv, ReceiverInv', NEW r \in Requests, Submits(r)
  PROVE  OutcomeInv'
<1>1. /\ RequestTypes /\ StageInv /\ JobsSubmitted /\ ChannelState /\ Told(req[r], result[r])
      /\ req[r].pc = "submit" /\ RequestTypes'
  BY HandlerFacts DEF Submits, ReceiverInv, RequestInv
<1>2. UNCHANGED <<kind, delivered, deferred, channel, lost, rx, in_flight, dropped>>
  BY DEF Submits, inputVars, dropVars
<1>3. Becomes(r, "decoding", req[r].answer)
  BY <1>1, StepsBecome DEF Submits
<1>4. r \notin Jobs /\ result[r] = None
  BY <1>1 DEF JobsSubmitted
<1>5. \A q \in Requests : q # r => result'[q] = result[q]
  <2>1. CASE SubmitRefused(r)
    BY <1>1, <1>4, <2>1, RefusedKeepsStage
  <2>2. CASE SubmitReserves(r)
    BY <2>2 DEF SubmitReserves
  <2> QED BY <2>1, <2>2 DEF Submits
<1>6. Told(req[r], result'[r])
  BY <1>1, <1>4, ToldKept
<1>7. ReachOf(req'[r]) = ReachOf(req[r])
  BY <1>3 DEF Becomes, ReachOf
<1>8. Told(req'[r], result'[r])
  BY <1>1, <1>3, <1>6, <1>7 DEF Becomes, Told
<1>9. ASSUME NEW q \in Requests
      PROVE  /\ ReachOf(req'[q]) = ReachOf(req[q])
             /\ req'[q].parts = req[q].parts
             /\ Told(req'[q], result'[q]) \/ (req'[q] = req[q] /\ result'[q] = result[q])
  BY <1>3, <1>5, <1>7, <1>8 DEF Becomes
<1>10. /\ dropped' \in Nat /\ (dropped' < 2 <=> dropped < 2)
       /\ kind = "arrow_ipc" /\ rx => in_flight' <= Capacity
  BY <1>1, <1>2 DEF ChannelState
<1> QED BY <1>1, <1>2, <1>9, <1>10, QuietTells

-----------------------------------------------------------------------------
(* What poll and the handlers do to the stream.                            *)

(* An entry is sent at the end.                                            *)
LEMMA AppendedAtEnd ==
  ASSUME NEW S, NEW s \in Seq(S), NEW t \in Seq(S), NEW e \in S
  PROVE  s \o Append(t, e) = Append(s \o t, e)
<1>1. /\ Append(t, e) \in Seq(S) /\ Len(Append(t, e)) = Len(t) + 1
      /\ \A i \in 1 .. Len(t) : Append(t, e)[i] = t[i]
      /\ Append(t, e)[Len(t) + 1] = e
      /\ Len(s) \in Nat /\ Len(t) \in Nat
  BY AppendProperties, LenProperties
<1>2. /\ s \o t \in Seq(S) /\ Len(s \o t) = Len(s) + Len(t)
      /\ \A i \in 1 .. Len(s) + Len(t) : (s \o t)[i] = IF i <= Len(s) THEN s[i] ELSE t[i - Len(s)]
  BY ConcatProperties
<1>3. /\ s \o Append(t, e) \in Seq(S) /\ Len(s \o Append(t, e)) = Len(s) + Len(t) + 1
      /\ \A i \in 1 .. Len(s) + Len(t) + 1 :
            (s \o Append(t, e))[i] = IF i <= Len(s) THEN s[i] ELSE Append(t, e)[i - Len(s)]
  BY <1>1, ConcatProperties
<1>4. /\ Append(s \o t, e) \in Seq(S) /\ Len(Append(s \o t, e)) = Len(s) + Len(t) + 1
      /\ \A i \in 1 .. Len(s) + Len(t) : Append(s \o t, e)[i] = (s \o t)[i]
      /\ Append(s \o t, e)[Len(s) + Len(t) + 1] = e
  BY <1>2, AppendProperties
<1>5. ASSUME NEW i \in 1 .. Len(s) + Len(t) + 1
      PROVE  (s \o Append(t, e))[i] = Append(s \o t, e)[i]
  <2>1. CASE i <= Len(s)
    <3>1. i \in 1 .. Len(s) + Len(t)
      BY <1>1, <2>1
    <3> QED BY <1>2, <1>3, <1>4, <2>1, <3>1
  <2>2. CASE i > Len(s) /\ i <= Len(s) + Len(t)
    <3>1. /\ i \in 1 .. Len(s) + Len(t) /\ i - Len(s) \in 1 .. Len(t) /\ ~(i <= Len(s))
      BY <1>1, <2>2
    <3> QED BY <1>1, <1>2, <1>3, <1>4, <3>1
  <2>3. CASE i = Len(s) + Len(t) + 1
    <3>1. i - Len(s) = Len(t) + 1 /\ ~(i <= Len(s))
      BY <1>1, <2>3
    <3> QED BY <1>1, <1>3, <1>4, <2>3, <3>1
  <2> QED BY <1>1, <2>1, <2>2, <2>3
<1> QED BY <1>3, <1>4, <1>5, SeqEqual

(* The sequence y is x with its element h at n replaced by e and rest.     *)
TakenAt(S, h, e, rest, x, y, n) ==
  /\ x \in Seq(S) /\ y \in Seq(S) /\ n \in DOMAIN x /\ x[n] = h
  /\ Len(y) = Len(x) + Len(rest) /\ Len(rest) \in Nat
  /\ \A i \in DOMAIN x : i < n => y[i] = x[i]
  /\ y[n] = e
  /\ \A i \in 1 .. Len(rest) : y[n + i] = rest[i]
  /\ \A i \in DOMAIN x : i > n => y[i + Len(rest)] = x[i]

(* poll takes the first entry, or the first part of it.                    *)
LEMMA TakenAtFront ==
  ASSUME NEW S, NEW d \in Seq(S), NEW u \in Seq(S), u # <<>>, NEW e \in S, NEW rest \in Seq(S),
         NEW x, x = d \o u, NEW y, y = Append(d, e) \o (rest \o Tail(u)),
         NEW n, n = Len(d) + 1
  PROVE  TakenAt(S, Head(u), e, rest, x, y, n)
<1> DEFINE s == d \o u
           a == Append(d, e)
           v == rest \o Tail(u)
           t == a \o v
           p == Len(d) + 1
           m == Len(rest)
<1>1. /\ Len(d) \in Nat /\ Len(u) \in Nat /\ m \in Nat /\ Len(u) >= 1
      /\ Tail(u) \in Seq(S) /\ Len(Tail(u)) = Len(u) - 1
      /\ \A i \in 1 .. Len(u) - 1 : Tail(u)[i] = u[i + 1]
      /\ Head(u) = u[1]
  BY LenProperties, HeadTailProperties, EmptySeq
<1>2. /\ s \in Seq(S) /\ Len(s) = Len(d) + Len(u)
      /\ \A i \in 1 .. Len(d) + Len(u) : s[i] = IF i <= Len(d) THEN d[i] ELSE u[i - Len(d)]
  BY ConcatProperties
<1>3. /\ a \in Seq(S) /\ Len(a) = p /\ a[p] = e /\ \A i \in 1 .. Len(d) : a[i] = d[i]
  BY AppendProperties
<1>4. /\ v \in Seq(S) /\ Len(v) = m + Len(u) - 1
      /\ \A i \in 1 .. m + Len(u) - 1 : v[i] = IF i <= m THEN rest[i] ELSE Tail(u)[i - m]
  BY <1>1, ConcatProperties
<1>5. /\ t \in Seq(S) /\ Len(t) = p + (m + Len(u) - 1)
      /\ \A i \in 1 .. p + (m + Len(u) - 1) : t[i] = IF i <= p THEN a[i] ELSE v[i - p]
  <2> HIDE DEF a, v
  <2>1. /\ a \o v \in Seq(S) /\ Len(a \o v) = Len(a) + Len(v)
        /\ \A i \in 1 .. Len(a) + Len(v) :
              (a \o v)[i] = IF i <= Len(a) THEN a[i] ELSE v[i - Len(a)]
    BY <1>3, <1>4, ConcatProperties
  <2> HIDE DEF p, m
  <2>2. Len(a) = p /\ Len(v) = m + Len(u) - 1
    BY <1>3, <1>4
  <2> QED BY ONLY <2>1, <2>2 DEF t
<1>6. DOMAIN s = 1 .. Len(d) + Len(u)
  BY <1>2, LenProperties
<1> HIDE DEF s, a, v, t
<1>7. p \in DOMAIN s /\ s[p] = Head(u)
  <2>1. p \in 1 .. Len(d) + Len(u) /\ ~(p <= Len(d)) /\ p - Len(d) = 1
    BY <1>1
  <2> QED BY <1>1, <1>2, <1>6, <2>1
<1>8. Len(t) = Len(s) + m
  BY <1>1, <1>2, <1>5
<1>9. ASSUME NEW i \in 1 .. Len(d) + Len(u), i < p PROVE t[i] = s[i]
  <2>1. /\ i \in 1 .. p + (m + Len(u) - 1) /\ i <= p /\ i <= Len(d) /\ i \in 1 .. Len(d)
    BY <1>1, <1>9
  <2> QED BY <1>2, <1>3, <1>5, <2>1
<1>10. t[p] = e
  <2>1. p \in 1 .. p + (m + Len(u) - 1) /\ p <= p
    BY <1>1
  <2> QED BY <1>3, <1>5, <2>1
<1>11. ASSUME NEW i \in 1 .. m PROVE t[p + i] = rest[i]
  <2>1. /\ p + i \in 1 .. p + (m + Len(u) - 1) /\ ~(p + i <= p) /\ (p + i) - p = i
        /\ i \in 1 .. m + Len(u) - 1 /\ i <= m
    BY <1>1
  <2> QED BY <1>4, <1>5, <2>1
<1>12. ASSUME NEW i \in 1 .. Len(d) + Len(u), i > p PROVE t[i + m] = s[i]
  <2> DEFINE k == i - p
  <2>1. /\ i + m \in 1 .. p + (m + Len(u) - 1) /\ ~(i + m <= p) /\ (i + m) - p = k + m
        /\ k + m \in 1 .. m + Len(u) - 1 /\ ~(k + m <= m) /\ (k + m) - m = k
        /\ k \in 1 .. Len(u) - 1 /\ ~(i <= Len(d)) /\ i - Len(d) = k + 1
    BY <1>1, <1>12
  <2> HIDE DEF k, p
  <2>2. t[i + m] = v[k + m]
    BY <1>5, <2>1
  <2>3. v[k + m] = Tail(u)[k]
    BY <1>4, <2>1
  <2>4. Tail(u)[k] = u[k + 1] /\ s[i] = u[k + 1]
    BY <1>1, <1>2, <2>1
  <2> QED BY <2>2, <2>3, <2>4
<1>13. /\ s \in Seq(S) /\ t \in Seq(S) /\ p \in DOMAIN s /\ s[p] = Head(u)
       /\ Len(t) = Len(s) + m /\ m \in Nat
       /\ \A i \in DOMAIN s : i < p => t[i] = s[i]
       /\ t[p] = e
       /\ \A i \in 1 .. m : t[p + i] = rest[i]
       /\ \A i \in DOMAIN s : i > p => t[i + m] = s[i]
  BY <1>1, <1>2, <1>5, <1>6, <1>7, <1>8, <1>9, <1>10, <1>11, <1>12
<1>14. x = s /\ y = t /\ n = p
  BY DEF s, t, a, v
<1> QED BY ONLY <1>13, <1>14 DEF m, TakenAt

(* While the channel is open, nothing is lost.                             *)
LEMMA StreamOpen ==
  ASSUME RequestTypes, ChannelState, rx
  PROVE  /\ Stream = delivered \o Undelivered
         /\ lost = <<>> /\ delivered \in Seq(Pieces) /\ Undelivered \in Seq(Pieces)
<1>1. lost = <<>> /\ delivered \in Seq(Pieces) /\ Undelivered \in Seq(Pieces)
  BY StreamTypes DEF ChannelState
<1>2. delivered \o Undelivered \in Seq(Pieces)
  BY <1>1, ConcatProperties
<1>3. (delivered \o Undelivered) \o <<>> = delivered \o Undelivered
  BY <1>2, ConcatEmptySeq
<1> QED BY <1>1, <1>3 DEF Stream

(* The entry that a handler sends next.                                    *)
LEMMA NextEntry ==
  ASSUME RequestTypes, NEW r \in Requests, Told(req[r], result[r]), req[r].pc = "send",
         req[r].sent + 1 <= Len(Entries(r))
  PROVE  LET k == req[r].sent + 1
             e == Entries(r)[k]
         IN  /\ e \in Pieces /\ e.req = r /\ k \in Nat
             /\ e.first = ReachOf(req[r]) + 1 /\ e.first <= e.last /\ e.last <= req[r].parts
             /\ kind = "arrow_ipc" => e.last = k
             /\ kind # "arrow_ipc" => req[r].sent = 0 /\ e.last = req[r].parts
<1> DEFINE k == req[r].sent + 1
           e == Entries(r)[k]
<1>1. /\ req[r].parts \in Nat /\ req[r].sent \in Nat
      /\ kind \in {"otlp", "arrow_ipc", "http"}
  BY DEF RequestTypes, Handlers
<1>2. /\ Len(Entries(r)) = IF kind = "arrow_ipc" THEN req[r].parts ELSE 1
      /\ \A i \in 1 .. Len(Entries(r)) : Entries(r)[i] \in Pieces
  BY EntriesFacts
<1>3. k \in 1 .. Len(Entries(r)) /\ k \in Nat
  BY <1>1, <1>2
<1>4. CASE kind = "arrow_ipc"
  <2>1. k \in 1 .. req[r].parts
    BY <1>2, <1>3, <1>4
  <2>2. e = [req |-> r, first |-> k, last |-> k]
    BY <1>4, <2>1 DEF Entries
  <2>3. ReachOf(req[r]) = req[r].sent
    BY <1>4 DEF ReachOf
  <2>4. e.req = r /\ e.first = k /\ e.last = k
    BY <2>2
  <2> HIDE DEF e
  <2>5. /\ k \in Nat /\ e.first = ReachOf(req[r]) + 1 /\ e.first <= e.last
        /\ e.last <= req[r].parts
    BY <1>1, <2>1, <2>3, <2>4
  <2>6. e \in Pieces
    BY <1>2, <1>3 DEF e
  <2> QED BY <1>4, <2>4, <2>5, <2>6 DEF e
<1>5. CASE kind # "arrow_ipc"
  <2>1. req[r].sent = 0 /\ k = 1
    BY <1>1, <1>2, <1>3, <1>5
  <2>2. e = [req |-> r, first |-> 1, last |-> req[r].parts]
    BY <1>5, <2>1 DEF Entries
  <2>3. ReachOf(req[r]) = 0 /\ req[r].parts > 0
    BY <1>1, <1>5, <2>1 DEF ReachOf, Told
  <2>4. e.req = r /\ e.first = 1 /\ e.last = req[r].parts
    BY <2>2
  <2>6. e \in Pieces
    BY <1>2, <1>3 DEF e
  <2> HIDE DEF e
  <2>5. /\ e.first = ReachOf(req[r]) + 1 /\ e.first <= e.last /\ e.last <= req[r].parts
    BY <1>1, <2>3, <2>4
  <2> QED BY <1>3, <1>5, <2>1, <2>4, <2>5, <2>6 DEF e
<1> QED BY <1>4, <1>5

(* One try_send.  The reservation always suffices.                         *)
LEMMA SendsTells ==
  ASSUME FullInv, ReceiverInv', NEW r \in Requests, Sends(r)
  PROVE  OutcomeInv'
<1> DEFINE entries == Entries(r)
           k == req[r].sent + 1
<1>1. /\ RequestTypes /\ HandlerState /\ OneAtATime /\ RoomExact /\ ChannelState /\ StreamOK
      /\ AllTold /\ Told(req[r], result[r]) /\ RequestTypes'
      /\ kind = "arrow_ipc" /\ rx => in_flight <= Capacity
      /\ req[r].parts \in Nat /\ req[r].sent \in Nat /\ req[r].pc = "send"
  BY HandlerFacts DEF Sends, ReceiverInv, RequestInv
<1>2. UNCHANGED <<stageVars, kind, delivered, deferred, lost, rx, dropped>>
  BY DEF Sends, dropVars
<1>3. Len(entries) = IF kind = "arrow_ipc" THEN req[r].parts ELSE 1
  BY <1>1, EntriesFacts
<1>4. /\ kind = "otlp" => req[r].parts > 0
      /\ kind # "arrow_ipc" => req[r].sent <= 1
      /\ kind = "arrow_ipc" => req[r].sent <= req[r].parts
  BY <1>1 DEF Told, HandlerState
<1>5. /\ in_flight \in Int /\ Len(channel) \in Nat /\ Capacity \in Nat
      /\ kind = "arrow_ipc" /\ rx => in_flight = Len(channel) + (req[r].parts - req[r].sent)
  BY <1>1, ReceiverAssumptions DEF RequestTypes, RoomExact, Unsent
<1> HIDE DEF entries
<1>6. ASSUME NEW answer, req' = [req EXCEPT ![r].pc = "respond", ![r].answer = answer]
      PROVE  Becomes(r, "respond", answer)
  BY <1>1, <1>6 DEF RequestTypes, Handlers, Becomes
<1>7. CASE /\ k > Len(entries)
           /\ req' = [req EXCEPT ![r].pc = "respond", ![r].answer = "ok"]
           /\ UNCHANGED <<in_flight, channel>>
  <2>1. Becomes(r, "respond", "ok")
    BY <1>6, <1>7
  <2>2. ReachOf(req[r]) = req[r].parts
    BY <1>1, <1>3, <1>4, <1>7 DEF ReachOf
  <2>3. UNCHANGED <<in_flight, channel>>
    BY <1>7
  <2> QED BY <1>1, <1>2, <1>4, <2>1, <2>2, <2>3, GoesTells
<1>8. CASE k <= Len(entries) /\ ~rx /\ SendFails(r, "unavailable")
  <2>1. Becomes(r, "respond", "unavailable") /\ UNCHANGED channel /\ ~rx
    BY <1>6, <1>8 DEF SendFails
  <2> QED BY <1>1, <1>2, <1>4, <2>1, GoesTells
<1>9. CASE /\ k <= Len(entries) /\ rx /\ Len(channel) >= Capacity
           /\ SendFails(r, IF kind = "arrow_ipc" THEN "error" ELSE "busy")
  <2>1. kind # "arrow_ipc"
    BY <1>1, <1>3, <1>5, <1>9
  <2>2. SendFails(r, "busy")
    BY <1>9, <2>1
  <2>3. Becomes(r, "respond", "busy") /\ UNCHANGED channel
    BY <1>6, <2>2 DEF SendFails
  <2>4. req[r].sent = 0
    BY <1>1, <1>3, <1>9, <2>1
  <2> QED BY <1>1, <1>2, <1>4, <2>1, <2>3, <2>4, GoesTells
<1>10. CASE /\ k <= Len(entries) /\ rx
            /\ channel' = Append(channel, entries[k])
            /\ req' = [req EXCEPT ![r].sent = k]
            /\ UNCHANGED in_flight
  <2>1. PICK e \in Pieces : e = entries[k]
    BY <1>1, <1>10, NextEntry DEF entries
  <2>2. /\ e.req = r /\ k \in Nat
        /\ e.first = ReachOf(req[r]) + 1 /\ e.first <= e.last /\ e.last <= req[r].parts
        /\ kind = "arrow_ipc" => e.last = k
        /\ kind # "arrow_ipc" => req[r].sent = 0 /\ e.last = req[r].parts
    BY <1>1, <1>10, <2>1, NextEntry DEF entries
  <2>3. /\ req'[r].pc = "send" /\ req'[r].answer = req[r].answer
        /\ req'[r].parts = req[r].parts /\ req'[r].sent = k
        /\ \A q \in Requests : q # r => req'[q] = req[q]
    BY <1>1, <1>10 DEF RequestTypes, Handlers
  <2>4. ReachOf(req'[r]) = e.last
    BY <1>1, <2>2, <2>3 DEF ReachOf
  <2>5. AllTold'
    <3>1. Told(req'[r], result'[r])
      <4>1. req[r].answer = None /\ None \notin {"ok", "busy", "rejected", "error"}
        BY <1>1, ReceiverAssumptions DEF Told
      <4>2. kind # "arrow_ipc" => req'[r].sent <= 1
        BY <2>2, <2>3
      <4> QED BY <1>1, <2>2, <2>3, <2>4, <4>1, <4>2 DEF Told
    <3>2. result' = result
      BY <1>2 DEF stageVars
    <3> QED BY <1>1, <1>2, <2>3, <3>1, <3>2, AllToldKept
  <2>6. ChannelState'
    BY <1>1, <1>2, <1>10 DEF ChannelState
  <2>7. /\ Stream \in Seq(Pieces) /\ Reach \in [Requests -> Nat] /\ Undelivered \in Seq(Pieces)
        /\ Reach[r] = ReachOf(req[r]) /\ Sizes[r] = req[r].parts
        /\ Stream = delivered \o Undelivered /\ lost = <<>> /\ delivered \in Seq(Pieces)
    <3>1. /\ Stream \in Seq(Pieces) /\ Reach \in [Requests -> Nat] /\ Undelivered \in Seq(Pieces)
          /\ Reach[r] = ReachOf(req[r]) /\ Sizes[r] = req[r].parts
      BY <1>1, StreamTypes
    <3>2. Stream = delivered \o Undelivered /\ lost = <<>> /\ delivered \in Seq(Pieces)
      BY <1>1, <1>10, StreamOpen
    <3> QED BY <3>1, <3>2
  <2>8. Stream' = Append(Stream, e)
    <3>1. channel \in Seq(Pieces) /\ delivered \in Seq(Pieces) /\ deferred \in {None} \cup Pieces
      BY <1>1 DEF RequestTypes, ChannelState
    <3>7. (IF deferred = None THEN <<>> ELSE <<deferred>>) \in Seq(Pieces)
      BY <3>1
    <3>2. PICK d \in Seq(Pieces) : d = IF deferred = None THEN <<>> ELSE <<deferred>>
      BY ONLY <3>7, Zenon
    <3>3. Undelivered = d \o channel /\ Undelivered' = d \o Append(channel, e)
      BY <1>2, <1>10, <2>1, <3>2 DEF Undelivered
    <3>4. Undelivered' = Append(Undelivered, e)
      BY <3>1, <3>3, AppendedAtEnd
    <3>5. delivered \o Append(Undelivered, e) = Append(delivered \o Undelivered, e)
      BY <2>7, <3>1, AppendedAtEnd
    <3>6. delivered' = delivered /\ lost' = <<>>
      BY <1>2, <2>7
    <3>8. Append(Stream, e) \o <<>> = Append(Stream, e)
      <4>1. Append(Stream, e) \in Seq(Pieces)
        BY <2>7, AppendProperties
      <4> QED BY <4>1, ConcatEmptySeq
    <3>9. Stream' = (delivered' \o Undelivered') \o lost'
      BY DEF Stream
    <3> QED BY ONLY <2>7, <3>4, <3>5, <3>6, <3>8, <3>9
  <2>9. Reach' = [Reach EXCEPT ![e.req] = e.last]
    <3>1. \A q \in Requests : ReachOf(req[q])' = IF q = r THEN e.last ELSE ReachOf(req[q])
      BY <1>2, <2>3, <2>4 DEF ReachOf
    <3> QED BY <2>2, <3>1 DEF Reach
  <2>10. Sizes' = Sizes
    BY <2>3 DEF Sizes
  <2>11. Fits(Append(Stream, e), [Reach EXCEPT ![e.req] = e.last], Sizes, kind = "http")
    <3>1. Fits(Stream, Reach, Sizes, kind = "http")
      BY <1>1, StreamFits
    <3>2. /\ e.first = Reach[e.req] + 1 /\ e.first <= e.last
          /\ (kind = "http" => e.last = Sizes[e.req])
      BY <2>2, <2>7
    <3>3. (kind = "http") \in BOOLEAN
      OBVIOUS
    <3> HIDE DEF Stream, Reach, Sizes
    <3> QED BY ONLY <2>7, e \in Pieces, <3>1, <3>2, <3>3, FitsAppended
  <2>12. StreamOK'
    <3>1. Fits(Stream', Reach', Sizes', kind' = "http")
      BY <1>2, <2>8, <2>9, <2>10, <2>11
    <3> QED BY <3>1 DEF StreamOK, Fits
  <2> QED BY <2>5, <2>6, <2>12 DEF OutcomeInv
<1> QED BY <1>7, <1>8, <1>9, <1>10 DEF Sends, entries

(* What a poll does to what is not delivered yet.                          *)
LEMMA Polled ==
  ASSUME RequestTypes, ChannelState, HandlerState, Receives
  PROVE  \E e \in Pieces, end \in Nat :
            /\ Undelivered # <<>> /\ e = Head(Undelivered)
            /\ kind = "http" => e.first <= end /\ end <= e.last
            /\ kind # "http" => end = e.last
            /\ delivered' = Append(delivered, [e EXCEPT !.last = end])
            /\ deferred' \in {None} \cup Pieces
            /\ end = e.last => deferred' = None /\ Undelivered' = Tail(Undelivered)
            /\ end # e.last => Undelivered' = <<[e EXCEPT !.first = end + 1]>> \o Tail(Undelivered)
<1>1. /\ channel \in Seq(Pieces) /\ deferred \in {None} \cup Pieces
      /\ Undelivered \in Seq(Pieces) /\ None \notin Pieces
  BY StreamTypes, ReceiverAssumptions DEF RequestTypes, ChannelState, Pieces
<1>2. PICK e \in Pieces : e = Head(Undelivered) /\ Undelivered # <<>>
  BY <1>1, HeadTailProperties DEF Receives
<1>3. PICK end \in IF kind = "http" THEN e.first .. e.last ELSE {e.last} :
          /\ delivered' = Append(delivered, [e EXCEPT !.last = end])
          /\ deferred' = IF end = e.last THEN None ELSE [e EXCEPT !.first = end + 1]
  BY <1>2 DEF Receives
<1>4. e.first \in Nat /\ e.last \in Nat /\ e.req \in Requests
  BY DEF Pieces
<1>5. /\ end \in Nat
      /\ kind = "http" => e.first <= end /\ end <= e.last
      /\ kind # "http" => end = e.last
  BY <1>3, <1>4
<1>6. [e EXCEPT !.first = end + 1] \in Pieces
  BY <1>4, <1>5 DEF Pieces
<1>7. channel' = Tail(Undelivered)
  <2>1. channel' = IF deferred = None THEN Tail(channel) ELSE channel
    BY DEF Receives
  <2>2. CASE deferred = None
    <3>1. Undelivered = channel
      BY <1>1, <2>2, ConcatEmptySeq DEF Undelivered
    <3> QED BY <2>1, <2>2, <3>1
  <2>3. CASE deferred # None
    <3>1. Undelivered = <<deferred>> \o channel /\ deferred \in Pieces
      BY <1>1, <2>3 DEF Undelivered
    <3>2. /\ <<deferred>> \in Seq(Pieces) /\ Len(<<deferred>>) = 1
      BY <3>1
    <3>3. /\ Len(Undelivered) = 1 + Len(channel) /\ Len(channel) \in Nat
          /\ \A i \in 1 .. 1 + Len(channel) :
                Undelivered[i] = IF i <= 1 THEN <<deferred>>[i] ELSE channel[i - 1]
      BY <1>1, <3>1, <3>2, ConcatProperties, LenProperties
    <3>4. /\ Tail(Undelivered) \in Seq(Pieces) /\ Len(Tail(Undelivered)) = Len(channel)
          /\ \A i \in 1 .. Len(channel) : Tail(Undelivered)[i] = Undelivered[i + 1]
      <4>1. /\ Tail(Undelivered) \in Seq(Pieces) /\ Len(Tail(Undelivered)) = Len(Undelivered) - 1
            /\ \A i \in 1 .. Len(Tail(Undelivered)) : Tail(Undelivered)[i] = Undelivered[i + 1]
        BY <1>1, <1>2, HeadTailProperties
      <4>2. Len(Undelivered) - 1 = Len(channel)
        BY <3>3
      <4> QED BY ONLY <4>1, <4>2
    <3>5. \A i \in 1 .. Len(channel) : Tail(Undelivered)[i] = channel[i]
      <4> SUFFICES ASSUME NEW i \in 1 .. Len(channel) PROVE Undelivered[i + 1] = channel[i]
        BY <3>4
      <4>1. i + 1 \in 1 .. 1 + Len(channel) /\ ~(i + 1 <= 1) /\ (i + 1) - 1 = i
        BY <3>3
      <4> QED BY <3>3, <4>1
    <3>6. Tail(Undelivered) = channel
      BY <1>1, <3>4, <3>5, SeqEqual
    <3> QED BY <2>1, <2>3, <3>6
  <2> QED BY <2>2, <2>3
<1>8. Undelivered' = (IF deferred' = None THEN <<>> ELSE <<deferred'>>) \o Tail(Undelivered)
  BY <1>7 DEF Undelivered
<1>9. Tail(Undelivered) \in Seq(Pieces)
  BY <1>1, <1>2, HeadTailProperties
<1> HIDE DEF Undelivered
<1>10. end = e.last => deferred' = None /\ Undelivered' = Tail(Undelivered)
  BY <1>3, <1>8, <1>9, ConcatEmptySeq
<1>11. end # e.last => /\ deferred' = [e EXCEPT !.first = end + 1]
                       /\ Undelivered' = <<[e EXCEPT !.first = end + 1]>> \o Tail(Undelivered)
  BY <1>1, <1>3, <1>6, <1>8
<1>12. deferred' \in {None} \cup Pieces
  BY <1>6, <1>10, <1>11
<1> QED BY <1>2, <1>3, <1>5, <1>10, <1>11, <1>12

(* poll takes what was sent, in order, and may split a body.               *)
LEMMA ReceivesTells ==
  ASSUME FullInv, ReceiverInv', Receives
  PROVE  OutcomeInv'
<1>1. RequestTypes /\ HandlerState /\ RequestTypes' /\ ChannelState /\ StreamOK /\ AllTold
  BY DEF FullInv, OutcomeInv, ReceiverInv, RequestInv
<1>2. /\ UNCHANGED <<result, kind, req, rx, lost, dropped>> /\ rx
      /\ in_flight' = IF kind = "arrow_ipc" THEN in_flight - 1 ELSE in_flight
  BY DEF Receives, stageVars, dropVars
<1>3. PICK e \in Pieces, end \in Nat :
            /\ Undelivered # <<>> /\ e = Head(Undelivered)
            /\ kind = "http" => e.first <= end /\ end <= e.last
            /\ kind # "http" => end = e.last
            /\ delivered' = Append(delivered, [e EXCEPT !.last = end])
            /\ deferred' \in {None} \cup Pieces
            /\ end = e.last => deferred' = None /\ Undelivered' = Tail(Undelivered)
            /\ end # e.last => Undelivered' = <<[e EXCEPT !.first = end + 1]>> \o Tail(Undelivered)
  BY <1>1, Polled
<1>4. AllTold'
  BY <1>1, <1>2, AllToldKept
<1>5. /\ e.first \in Nat /\ e.last \in Nat /\ e.req \in Requests
      /\ [e EXCEPT !.last = end] \in Pieces /\ [e EXCEPT !.first = end + 1] \in Pieces
      /\ [e EXCEPT !.last = e.last] = e
  BY DEF Pieces
<1>6. ChannelState'
  <2>1. delivered' \in Seq(Pieces)
    BY <1>1, <1>3, <1>5, AppendProperties DEF ChannelState
  <2>2. kind = "arrow_ipc" => in_flight' <= Capacity
    BY <1>1, <1>2, ReceiverAssumptions DEF ChannelState, RequestTypes
  <2> QED BY <1>1, <1>2, <1>3, <2>1, <2>2 DEF ChannelState
<1>7. /\ Stream = delivered \o Undelivered /\ lost = <<>> /\ delivered \in Seq(Pieces)
      /\ Undelivered \in Seq(Pieces) /\ Reach \in [Requests -> Nat]
  BY <1>1, <1>2, StreamOpen, StreamTypes
<1>8. Fits(Stream, Reach, Sizes, kind = "http")
  BY <1>1, StreamFits
<1>9. Reach' = Reach /\ Sizes' = Sizes
  BY <1>2 DEF Reach, Sizes, ReachOf
<1>10. Stream' = (delivered' \o Undelivered') \o <<>>
  BY <1>2, <1>7 DEF Stream
<1> HIDE DEF Stream, Undelivered, Reach, Sizes
<1>11. PICK rest \in Seq(Pieces) :
          /\ end = e.last => rest = <<>>
          /\ end # e.last => rest = <<[e EXCEPT !.first = end + 1]>>
  <2>1. <<>> \in Seq(Pieces) /\ <<[e EXCEPT !.first = end + 1]>> \in Seq(Pieces)
    BY <1>5
  <2> QED BY <2>1
<1>12. PICK f \in Pieces : f = [e EXCEPT !.last = end]
  BY <1>5
<1>13. Undelivered' = rest \o Tail(Undelivered) /\ delivered' = Append(delivered, f)
  <2>1. Tail(Undelivered) \in Seq(Pieces)
    BY <1>3, <1>7, HeadTailProperties
  <2>2. <<>> \o Tail(Undelivered) = Tail(Undelivered)
    BY <2>1, ConcatEmptySeq
  <2> QED BY <1>3, <1>11, <1>12, <2>2
<1>14. PICK s, t, p, m :
          /\ s = Stream /\ t = Append(delivered, f) \o (rest \o Tail(Undelivered))
          /\ p = Len(delivered) + 1 /\ m = Len(rest)
  OBVIOUS
<1>15. /\ s \in Seq(Pieces) /\ t \in Seq(Pieces) /\ p \in DOMAIN s /\ s[p] = e
       /\ Len(t) = Len(s) + m /\ m \in Nat
       /\ \A i \in DOMAIN s : i < p => t[i] = s[i]
       /\ t[p] = f
       /\ \A i \in 1 .. m : t[p + i] = rest[i]
       /\ \A i \in DOMAIN s : i > p => t[i + m] = s[i]
  <2>1. PICK d \in Seq(Pieces), u \in Seq(Pieces) : d = delivered /\ u = Undelivered
    BY <1>7
  <2>2. u # <<>> /\ s = d \o u /\ t = Append(d, f) \o (rest \o Tail(u)) /\ p = Len(d) + 1
    BY <1>3, <1>7, <1>14, <2>1
  <2>3. TakenAt(Pieces, Head(u), f, rest, s, t, p)
    BY ONLY <2>2, f \in Pieces, rest \in Seq(Pieces), d \in Seq(Pieces), u \in Seq(Pieces),
            TakenAtFront
  <2>4. Head(u) = e /\ Len(rest) = m
    BY <1>3, <1>14, <2>1
  <2> QED BY ONLY <2>3, <2>4 DEF TakenAt
<1>16. Stream' = t
  BY <1>10, <1>13, <1>14, <1>15, ConcatEmptySeq
<1>17. Fits(t, Reach, Sizes, kind = "http")
  <2>1. CASE end = e.last
    <3>1. m = 0 /\ f = e
      BY <1>5, <1>11, <1>12, <1>14, <2>1
    <3>2. Len(s) \in Nat /\ DOMAIN s = 1 .. Len(s)
      BY <1>15, LenProperties
    <3>3. Len(t) = Len(s) /\ \A i \in 1 .. Len(s) : i + 0 = i
      BY <1>15, <3>1, <3>2
    <3>4. p \in 1 .. Len(s) /\ t[p] = s[p]
      BY <1>15, <3>1, <3>2
    <3>5. ASSUME NEW i \in 1 .. Len(s) PROVE t[i] = s[i]
      <4>1. i < p => t[i] = s[i]
        BY <1>15, <3>2
      <4>2. i > p => t[i + 0] = s[i]
        BY <1>15, <3>1, <3>2
      <4>3. i < p \/ i = p \/ i > p
        BY <3>2, <3>4
      <4>4. i + 0 = i
        OBVIOUS
      <4> QED BY <3>4, <4>1, <4>2, <4>3, <4>4
    <3>6. t = s
      BY <1>15, <3>3, <3>5, SeqEqual
    <3> QED BY <1>8, <1>14, <3>6
  <2>2. CASE end # e.last
    <3>1. /\ m = 1 /\ rest[1] = [e EXCEPT !.first = end + 1]
      BY <1>11, <1>14, <2>2
    <3>6. t[p + 1] = [e EXCEPT !.first = end + 1] /\ t[p] = [e EXCEPT !.last = end] /\ s[p] = e
      BY <1>12, <1>15, <3>1
    <3>2. /\ t[p].req = s[p].req /\ t[p].first = s[p].first /\ t[p].last = end
          /\ t[p + 1].req = s[p].req /\ t[p + 1].first = end + 1 /\ t[p + 1].last = s[p].last
      BY <3>6 DEF Pieces
    <3>3. s[p].first <= end /\ end < s[p].last
      BY <1>3, <1>5, <1>15, <2>2
    <3>4. Len(t) = Len(s) + 1 /\ \A i \in DOMAIN s : i > p => t[i + 1] = s[i]
      BY <1>15, <3>1
    <3>5. Fits(s, Reach, Sizes, kind = "http") /\ (kind = "http") \in BOOLEAN
      BY <1>8, <1>14
    <3> QED BY ONLY <1>7, <1>15, end \in Nat, <3>2, <3>3, <3>4, <3>5, FitsSplit
  <2> QED BY <2>1, <2>2
<1>18. StreamOK'
  <2>1. Fits(Stream', Reach', Sizes', kind' = "http")
    BY <1>2, <1>9, <1>16, <1>17
  <2> QED BY <2>1 DEF StreamOK, Fits
<1> QED BY <1>4, <1>6, <1>18 DEF OutcomeInv

(* The steps of Drop come in their order.                                  *)
LEMMA DropsInOrder ==
  ASSUME ChannelState, NEW step, Dropping(step)
  PROVE  /\ dropped' = dropped + 1 /\ dropped \in Nat
         /\ step = "stopping" => dropped = 0
         /\ step = "close" => dropped = 1
         /\ step \in {"stopped", "signal", "join"} => dropped >= 2
<1>1. dropped \in Nat /\ dropped < Len(DropOrder) /\ DropOrder[dropped + 1] = step
  BY DEF ChannelState, Dropping
<1>2. Len(DropOrder) = 5 /\ DropOrder[1] = "stopping" /\ DropOrder[2] = "close"
  BY DEF DropOrder
<1>3. DropOrder[3] \notin {"stopping", "close"} /\ DropOrder[4] \notin {"stopping", "close"}
  BY DEF DropOrder
<1>4. DropOrder[5] \notin {"stopping", "close"}
  BY DEF DropOrder
<1> HIDE DEF DropOrder
<1>5. dropped = 0 \/ dropped = 1 \/ dropped = 2 \/ dropped = 3 \/ dropped = 4
  BY <1>1, <1>2
<1>6. dropped' = dropped + 1
  BY DEF Dropping
<1> QED BY <1>1, <1>2, <1>3, <1>4, <1>5, <1>6

(* The channel goes with what it holds.                                    *)
LEMMA ClosesTells ==
  ASSUME FullInv, ReceiverInv', DropCloses
  PROVE  OutcomeInv'
<1>1. RequestTypes /\ RequestTypes' /\ ChannelState /\ StreamOK /\ AllTold
  BY DEF FullInv, OutcomeInv, ReceiverInv, RequestInv
<1>2. dropped = 1 /\ dropped' = 2
  BY <1>1, DropsInOrder DEF DropCloses
<1>3. /\ rx' = FALSE /\ channel' = <<>> /\ deferred' = None /\ lost' = Undelivered
      /\ UNCHANGED <<result, kind, req, delivered>>
  BY DEF DropCloses, stageVars
<1>4. rx
  BY <1>1, <1>2 DEF ChannelState
<1>5. /\ Stream = delivered \o Undelivered /\ delivered \in Seq(Pieces)
      /\ Undelivered \in Seq(Pieces)
  BY <1>1, <1>4, StreamOpen
<1>6. AllTold'
  BY <1>1, <1>3, AllToldKept
<1>7. ChannelState'
  BY <1>1, <1>2, <1>3, <1>5 DEF ChannelState
<1>8. Stream' = Stream
  <2>1. Undelivered' = <<>> \o <<>>
    BY <1>3 DEF Undelivered
  <2>2. <<>> \o <<>> = <<>>
    OBVIOUS
  <2>3. Stream' = (delivered' \o Undelivered') \o lost'
    BY DEF Stream
  <2>4. delivered \o <<>> = delivered
    BY <1>5, ConcatEmptySeq
  <2> QED BY ONLY <1>3, <1>5, <2>1, <2>2, <2>3, <2>4
<1>9. Reach' = Reach /\ Sizes' = Sizes
  BY <1>3 DEF Reach, Sizes, ReachOf
<1>10. StreamOK'
  <2>1. Fits(Stream, Reach, Sizes, kind = "http")
    BY <1>1, StreamFits
  <2>2. Fits(Stream', Reach', Sizes', kind' = "http")
    BY <1>3, <1>8, <1>9, <2>1
  <2> QED BY <2>2 DEF StreamOK, Fits
<1> QED BY <1>6, <1>7, <1>10 DEF OutcomeInv

(* The other steps of Drop, the end of the server, and stuttering.         *)
LEMMA DropTells ==
  ASSUME FullInv, ReceiverInv', DropStopping \/ DropStep \/ ServerEnds \/ UNCHANGED vars
  PROVE  OutcomeInv'
<1>1. ChannelState /\ RequestTypes'
  BY DEF FullInv, OutcomeInv, ReceiverInv, RequestInv
<1>2. CASE DropCloses
  BY <1>2, ClosesTells
<1>3. CASE ~DropCloses
  <2>1. UNCHANGED <<result, kind, req, inputVars>>
    BY <1>3 DEF DropStopping, DropStep, DropStopped, DropSignals, DropJoins, ServerEnds,
                StageDrops, stageVars, vars
  <2>2. dropped' \in Nat /\ (dropped' < 2 <=> dropped < 2)
    <3>1. dropped' = dropped \/ Dropping("stopping") \/ Dropping("stopped")
            \/ Dropping("signal") \/ Dropping("join")
      BY <1>3 DEF DropStopping, DropStep, DropStopped, DropSignals, DropJoins, ServerEnds,
                  vars, dropVars
    <3>2. CASE dropped' = dropped
      BY <1>1, <3>2 DEF ChannelState
    <3>3. CASE Dropping("stopping")
      BY <1>1, <3>3, DropsInOrder
    <3>4. CASE Dropping("stopped") \/ Dropping("signal") \/ Dropping("join")
      BY <1>1, <3>4, DropsInOrder
    <3> QED BY <3>1, <3>2, <3>3, <3>4
  <2>3. UNCHANGED <<delivered, deferred, channel, lost, rx, in_flight>>
    BY <2>1 DEF inputVars
  <2>4. kind = "arrow_ipc" /\ rx => in_flight' <= Capacity
    BY <1>1, <2>3 DEF ChannelState
  <2>5. \A q \in Requests :
            /\ ReachOf(req'[q]) = ReachOf(req[q]) /\ req'[q].parts = req[q].parts
            /\ req'[q] = req[q] /\ result'[q] = result[q]
    BY <2>1
  <2> QED BY <1>1, <2>1, <2>2, <2>3, <2>4, <2>5, QuietTells
<1> QED BY <1>2, <1>3

(* The initial states tell nothing wrong.                                  *)
LEMMA InitTells == Init => OutcomeInv
<1> SUFFICES ASSUME Init PROVE OutcomeInv
  OBVIOUS
<1>1. /\ req = [r \in Requests |-> [pc |-> "new", parts |-> 0, sent |-> 0, answer |-> None]]
      /\ channel = <<>> /\ deferred = None /\ in_flight = 0 /\ rx = TRUE
      /\ dropped = 0 /\ delivered = <<>> /\ lost = <<>>
  BY DEF Init
<1>2. Capacity \in Nat /\ None \notin {"ok", "busy", "rejected", "error"}
  BY ReceiverAssumptions
<1>3. ChannelState
  BY <1>1, <1>2 DEF ChannelState
<1>4. \A r \in Requests : ReachOf(req[r]) = 0
  BY <1>1 DEF ReachOf
<1>5. AllTold
  BY <1>1, <1>2, <1>4 DEF AllTold, Told
<1>6. Stream = <<>>
  <2>1. Undelivered = <<>> \o <<>>
    BY <1>1 DEF Undelivered
  <2>2. <<>> \o <<>> = <<>>
    OBVIOUS
  <2> QED BY ONLY <1>1, <2>1, <2>2 DEF Stream
<1>7. DOMAIN Stream = {}
  BY <1>6
<1> HIDE DEF Stream
<1>8. InOrder(Stream) /\ Adjacent(Stream, Sizes)
  BY <1>7 DEF InOrder, Adjacent
<1>9. Reaches(Stream, Reach)
  BY <1>4, <1>7 DEF Reaches, Reach
<1> QED BY <1>3, <1>5, <1>8, <1>9 DEF OutcomeInv, StreamOK

(* Every step keeps the whole invariant.                                   *)
LEMMA NextTells == FullInv /\ [Next]_vars => FullInv'
<1> SUFFICES ASSUME FullInv, [Next]_vars PROVE FullInv'
  OBVIOUS
<1>1. ReceiverInv'
  BY NextInv DEF FullInv
<1> SUFFICES OutcomeInv'
  BY <1>1 DEF FullInv
<1>2. CASE UNCHANGED vars
  BY <1>1, <1>2, DropTells
<1>3. ASSUME NEW r \in Requests, Handler(r) PROVE OutcomeInv'
  BY <1>1, <1>3, SubmitsTells, DecodedTells, ReservesTells, SendsTells, FinishesTells DEF Handler
<1>4. ASSUME NEW r \in Requests, RejectsBody(r) \/ ClientGone(r) PROVE OutcomeInv'
  BY <1>1, <1>4, BodyEndsTells
<1>5. ASSUME NEW r \in Requests, ReadsBody(r) PROVE OutcomeInv'
  BY <1>1, <1>5, ReadsTells
<1>6. ASSUME NEW r \in Requests,
             NEW parts \in IF kind = "otlp" THEN {1} ELSE 0 .. MaxParts, Arrives(r, parts)
      PROVE  OutcomeInv'
  <2>1. parts \in Nat /\ (kind = "otlp" => parts = 1)
    BY ReceiverAssumptions
  <2> QED BY <1>1, <1>6, <2>1, ArrivesTells
<1>7. CASE SubmitContinues
  BY <1>1, <1>7, ContinuesTells
<1>8. ASSUME NEW w \in Workers, StageStep(w) \/ StagePanics(w) PROVE OutcomeInv'
  BY <1>1, <1>8, WorkerTells
<1>9. CASE Receives
  BY <1>1, <1>9, ReceivesTells
<1>10. CASE DropStopping \/ DropStep \/ ServerEnds
  BY <1>1, <1>10, DropTells
<1> QED BY <1>2, <1>3, <1>4, <1>5, <1>6, <1>7, <1>8, <1>9, <1>10 DEF Next

(* What the invariant says of the answers.                                 *)
LEMMA TellsOutcome == FullInv => AnswerTellsOutcome
<1> SUFFICES ASSUME FullInv PROVE AnswerTellsOutcome
  OBVIOUS
<1>1. RequestTypes /\ ChannelState /\ StreamOK /\ AllTold
  BY DEF FullInv, OutcomeInv, ReceiverInv, RequestInv
<1>2. /\ Stream \in Seq(Pieces) /\ Reach \in [Requests -> Nat]
      /\ \A r \in Requests : Reach[r] = ReachOf(req[r]) /\ Sizes[r] = req[r].parts
  BY <1>1, StreamTypes
<1>3. /\ InOrder(Stream) /\ Reaches(Stream, Reach)
      /\ (kind = "http" => Adjacent(Stream, Sizes))
  BY <1>1 DEF StreamOK
<1>4. \A r \in Requests : req[r].parts \in Nat /\ req[r].sent \in Nat /\ Told(req[r], result[r])
  BY <1>1 DEF RequestTypes, Handlers, AllTold
<1> HIDE DEF Stream, Reach, Sizes
<1>5. ASSUME NEW i \in DOMAIN Stream
      PROVE  /\ i \in Nat /\ Stream[i].req \in Requests
             /\ Stream[i].first \in Nat /\ Stream[i].last \in Nat
             /\ 1 <= Stream[i].first /\ Stream[i].first <= Stream[i].last
             /\ Stream[i].last <= Reach[Stream[i].req]
  <2>1. Stream[i] \in Pieces /\ i \in Nat
    BY <1>2, LenProperties
  <2> QED BY <1>3, <2>1 DEF Pieces, InOrder, Reaches
<1>6. ASSUME NEW i \in DOMAIN Stream
      PROVE  LET r == Stream[i].req
                 before == {j \in 1 .. i - 1 : Stream[j].req = r}
             IN  /\ Stream[i].first <= Stream[i].last /\ Stream[i].last <= req[r].parts
                 /\ \A j \in before : Stream[j].last < Stream[i].first
                 /\ Stream[i].first # 1 => \E j \in before : Stream[j].last = Stream[i].first - 1
                 /\ kind = "http" /\ Stream[i].last # req[r].parts =>
                       i < Len(Stream) /\ Stream[i + 1].req = r
  <2>1. PICK r \in Requests : r = Stream[i].req
    BY <1>5
  <2>2. Stream[i].first <= Stream[i].last /\ Stream[i].last <= req[r].parts
    <3>1. Reach[r] <= req[r].parts /\ Reach[r] \in Nat /\ req[r].parts \in Nat
      BY <1>2, <1>4 DEF Told
    <3> QED BY <1>5, <2>1, <3>1
  <2>3. /\ \A j \in 1 .. i - 1 : Stream[j].req = r => Stream[j].last < Stream[i].first
        /\ Stream[i].first # 1 =>
              \E j \in 1 .. i - 1 : Stream[j].req = r /\ Stream[j].last = Stream[i].first - 1
    BY <1>3, <2>1 DEF InOrder
  <2>4. kind = "http" /\ Stream[i].last # req[r].parts => i < Len(Stream) /\ Stream[i + 1].req = r
    BY <1>2, <1>3, <2>1 DEF Adjacent
  <2> QED BY <2>1, <2>2, <2>3, <2>4
<1>7. ASSUME NEW r \in Requests
      PROVE  /\ req[r].answer = "ok" /\ result[r] # "empty" /\ req[r].parts > 0 =>
                   \E i \in DOMAIN Stream : Stream[i].req = r /\ Stream[i].last = req[r].parts
             /\ req[r].answer \in {"busy", "rejected", "error"} =>
                   \A i \in DOMAIN Stream : Stream[i].req # r
             /\ kind = "arrow_ipc" => req[r].answer # "error"
  <2>1. Told(req[r], result[r]) /\ Reach[r] = ReachOf(req[r])
    BY <1>2, <1>4
  <2>2. ASSUME req[r].answer = "ok", result[r] # "empty", req[r].parts > 0
        PROVE  \E i \in DOMAIN Stream : Stream[i].req = r /\ Stream[i].last = req[r].parts
    <3>1. Reach[r] = req[r].parts
      BY <2>1, <2>2 DEF Told
    <3> QED BY <1>3, <2>2, <3>1 DEF Reaches
  <2>3. ASSUME req[r].answer \in {"busy", "rejected", "error"}, NEW i \in DOMAIN Stream
        PROVE  Stream[i].req # r
    <3>1. req[r].sent = 0
      BY <2>1, <2>3 DEF Told
    <3>2. Reach[r] = 0
      BY <2>1, <3>1 DEF ReachOf
    <3> QED BY <1>5, <3>2
  <2> QED BY <2>1, <2>2, <2>3 DEF Told
<1> QED BY <1>6, <1>7 DEF AnswerTellsOutcome

(* The whole invariant of the receivers holds.                             *)
THEOREM OutcomeInvariant == Spec => []FullInv
<1>1. Init => FullInv
  BY InitInv, InitTells DEF FullInv
<1> QED BY <1>1, NextTells, PTL DEF Spec

(* The answer to a request tells what became of it: 200 that all of it is  *)
(* in the channel or was delivered, in order and without a gap; a refusal  *)
(* that nothing of it was (otlp_receiver/server.rs, http_input.rs,         *)
(* arrow_ipc_receiver.rs).                                                 *)
THEOREM AnswersTell == Spec => []AnswerTellsOutcome
BY TellsOutcome, OutcomeInvariant, PTL
=============================================================================
