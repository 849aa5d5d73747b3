------------------------------ MODULE Receivers ------------------------------
(***************************************************************************)
(* The HTTP receivers of crates/ffwd-io/src: OTLP (otlp_receiver), Arrow   *)
(* IPC (arrow_ipc_receiver.rs) and NDJSON over HTTP (http_input.rs).  Each *)
(* has a server thread whose single-threaded runtime runs the handlers, a  *)
(* bounded channel to the input that the I/O worker polls, a health cell,  *)
(* and the Drop of the input, which takes the channel away, signals the    *)
(* server and joins it.  The OTLP handler decodes on a BlockingStage; the  *)
(* Arrow IPC handler reserves room for all batches of a request.           *)
(*                                                                         *)
(* A request is a number of parts: Arrow batches (one channel entry each), *)
(* or pieces of an NDJSON body (one entry, which poll may split).  Headers,*)
(* encodings and decoding errors are a choice of outcome.                  *)
(***************************************************************************)
EXTENDS BlockingStage

CONSTANTS
    Kinds,              \* the receivers that are checked
    Capacity,           \* CHANNEL_BOUND
    MaxParts,           \* bound: parts of a request
    MaxConnections      \* max_connections of the Arrow IPC receiver

ASSUME ReceiverAssumptions ==
    /\ Kinds \subseteq {"otlp", "arrow_ipc", "http"}
    /\ {Capacity, MaxParts, MaxConnections} \subseteq Nat \ {0}
    /\ None \notin {"ok", "busy", "rejected", "error", "unavailable"}
    /\ None \notin [req : Requests, first : Nat, last : Nat]

VARIABLES
    kind,
    req,                \* request -> where its handler is, its parts, entries sent, answer
    channel,            \* the queued entries
    deferred,           \* deferred_bytes: the rest of an entry poll has begun, or None
    in_flight,          \* in_flight_batches
    rx,                 \* the receiving end exists
    is_running,
    health,
    dropped,            \* steps of Drop that are done
    server,             \* "open", "signalled" or "ended"
    delivered,          \* ghost: what poll returned, as entries and pieces of entries
    lost                \* ghost: the entries dropped with the channel

inputVars == <<channel, deferred, in_flight, rx, delivered, lost>>
dropVars == <<is_running, dropped, server>>
vars == <<stageVars, kind, req, inputVars, dropVars, health>>

-----------------------------------------------------------------------------
(* Health.                                                                 *)

Final == {"Stopping", "Stopped", "Failed"}

\* reduce_receiver_health
ReduceReceiverHealth(current, event) ==
    CASE event = "DeliveryAccepted" /\ current \notin Final -> "Healthy"
      [] event = "Backpressure" /\ current \notin Final -> "Degraded"
      [] event = "FatalFailure" /\ current \notin {"Stopping", "Stopped"} -> "Failed"
      [] event = "ShutdownRequested" /\ current \notin {"Stopped", "Failed"} -> "Stopping"
      [] event = "ShutdownCompleted" /\ current # "Failed" -> "Stopped"
      [] OTHER -> current

\* The plain stores of the OTLP and HTTP receivers.
StoreHealth(event) ==
    CASE event \in {"DeliveryAccepted", "DeliveryNoop"} -> "Healthy"
      [] event = "Backpressure" -> "Degraded"
      [] event = "FatalFailure" -> "Failed"
      [] event = "ShutdownRequested" -> "Stopping"
      [] event = "ShutdownCompleted" -> "Stopped"

SetHealth(event) ==
    health' = IF kind = "arrow_ipc" THEN ReduceReceiverHealth(health, event) ELSE StoreHealth(event)

-----------------------------------------------------------------------------
(* The handlers.  Between two awaits no other handler runs.                *)

Sync == {"submit", "reserve", "send", "respond"}
Settled(r) == req[r].pc \in {"answered", "gone"}
Idle(r) == req[r].pc = "new" \/ Settled(r)

RuntimeFree == submitting = None /\ \A r \in Requests : req[r].pc \notin Sync

Goes(r, pc) == req' = [req EXCEPT ![r].pc = pc]

Responds(r, answer) == req' = [req EXCEPT ![r].pc = "answered", ![r].answer = answer]

\* A request with its headers; the Arrow IPC handler refuses too many at a time.
Arrives(r, parts) ==
    /\ server = "open"
    /\ RuntimeFree
    /\ req[r].pc = "new"
    /\ LET active == {q \in Requests : ~Idle(q)}
           answer == CASE kind = "arrow_ipc" /\ Cardinality(active) >= MaxConnections -> "busy"
                       [] kind = "arrow_ipc" /\ Cardinality(active) < MaxConnections /\ ~is_running -> "unavailable"
                       [] OTHER -> None
       IN  req' = [req EXCEPT ![r].pc = IF answer = None THEN "body" ELSE "answered",
                              ![r].parts = parts, ![r].answer = answer]
    /\ UNCHANGED <<stageVars, kind, inputVars, dropVars, health>>

\* Any 4xx of the header checks, of read_limited_body and of the decoders.
RejectsBody(r) ==
    /\ RuntimeFree
    /\ req[r].pc = "body"
    /\ Responds(r, "rejected")
    /\ UNCHANGED <<stageVars, kind, inputVars, dropVars, health>>

\* The body is complete.  An NDJSON body without content is answered at once.
ReadsBody(r) ==
    /\ RuntimeFree
    /\ req[r].pc = "body"
    /\ \/ /\ kind = "http" /\ req[r].parts = 0
          /\ Responds(r, "ok")
          /\ SetHealth("DeliveryNoop")
       \/ /\ ~(kind = "http" /\ req[r].parts = 0)
          /\ Goes(r, CASE kind = "otlp" -> "submit"
                       [] kind = "arrow_ipc" -> "reserve"
                       [] kind = "http" -> "send")
          /\ UNCHANGED health
    /\ UNCHANGED <<stageVars, kind, inputVars, dropVars>>

\* The client goes away while its handler awaits.
ClientGone(r) ==
    /\ RuntimeFree
    /\ req[r].pc \in {"body", "decoding"}
    /\ Goes(r, "gone")
    /\ UNCHANGED <<stageVars, kind, inputVars, dropVars, health>>

\* decode_otlp_request_cpu
Submits(r) ==
    /\ req[r].pc = "submit"
    /\ SubmitRefused(r) \/ SubmitReserves(r)
    /\ Goes(r, "decoding")
    /\ UNCHANGED <<kind, inputVars, dropVars, health>>

SubmitContinues ==
    /\ SubmitTries \/ SubmitGivesUp
    /\ UNCHANGED <<kind, req, inputVars, dropVars, health>>

Decoded(r) ==
    /\ RuntimeFree
    /\ req[r].pc = "decoding"
    /\ \/ result[r] = "rows" /\ Goes(r, "send") /\ UNCHANGED health
       \/ result[r] = "empty" /\ Responds(r, "ok") /\ SetHealth("DeliveryNoop")
       \/ result[r] = "invalid" /\ Responds(r, "rejected") /\ UNCHANGED health
       \/ result[r] = "full" /\ Responds(r, "busy") /\ SetHealth("Backpressure")
       \/ /\ result[r] = "internal"
          /\ Responds(r, "error")
          /\ IF is_running THEN SetHealth("FatalFailure") ELSE UNCHANGED health
    /\ UNCHANGED <<stageVars, kind, inputVars, dropVars>>

\* Mutant of Reserves: room for one batch is room for the request.
ReservesOne(r) ==
    /\ req[r].pc = "reserve"
    /\ in_flight < Capacity
    /\ in_flight' = in_flight + req[r].parts
    /\ Goes(r, "send")
    /\ UNCHANGED <<stageVars, kind, channel, deferred, rx, delivered, lost, dropVars, health>>

\* try_reserve_channel_slots
Reserves(r) ==
    /\ req[r].pc = "reserve"
    /\ \/ ~is_running /\ Responds(r, "unavailable") /\ UNCHANGED <<in_flight, health>>
       \/ /\ is_running /\ in_flight + req[r].parts > Capacity
          /\ Responds(r, "busy")
          /\ SetHealth("Backpressure")
          /\ UNCHANGED in_flight
       \/ /\ is_running /\ in_flight + req[r].parts <= Capacity
          /\ in_flight' = in_flight + req[r].parts
          /\ Goes(r, "send")
          /\ UNCHANGED health
    /\ UNCHANGED <<stageVars, kind, channel, deferred, rx, delivered, lost, dropVars>>

\* The entries of a request, in the order they are sent.
Entries(r) ==
    IF kind = "arrow_ipc" THEN [i \in 1 .. req[r].parts |-> [req |-> r, first |-> i, last |-> i]]
    ELSE <<[req |-> r, first |-> 1, last |-> req[r].parts]>>

SendFails(r, answer) ==
    /\ req' = [req EXCEPT ![r].pc = "respond", ![r].answer = answer]
    /\ in_flight' = IF kind = "arrow_ipc" THEN in_flight - (req[r].parts - req[r].sent) ELSE in_flight
    /\ UNCHANGED channel

\* The next try_send.
Sends(r) ==
    LET entries == Entries(r)
        k == req[r].sent + 1
    IN
    /\ req[r].pc = "send"
    /\ \/ /\ k > Len(entries)
          /\ req' = [req EXCEPT ![r].pc = "respond", ![r].answer = "ok"]
          /\ UNCHANGED <<in_flight, channel>>
       \/ k <= Len(entries) /\ ~rx /\ SendFails(r, "unavailable")
       \/ /\ k <= Len(entries) /\ rx /\ Len(channel) >= Capacity
          /\ SendFails(r, IF kind = "arrow_ipc" THEN "error" ELSE "busy")
       \/ /\ k <= Len(entries) /\ rx /\ Len(channel) < Capacity
          /\ channel' = Append(channel, entries[k])
          /\ req' = [req EXCEPT ![r].sent = k]
          /\ UNCHANGED in_flight
    /\ UNCHANGED <<stageVars, kind, deferred, rx, delivered, lost, dropVars, health>>

\* The health event and the response after the last try_send.
Finishes(r) ==
    LET answer == req[r].answer
    IN
    /\ req[r].pc = "respond"
    /\ Goes(r, "answered")
    /\ \/ answer = "ok" /\ SetHealth(IF req[r].sent > 0 THEN "DeliveryAccepted" ELSE "DeliveryNoop")
       \/ answer = "busy" /\ SetHealth("Backpressure")
       \/ answer = "error" /\ SetHealth("FatalFailure")
       \/ /\ answer = "unavailable"
          /\ IF is_running THEN SetHealth("FatalFailure") ELSE UNCHANGED health
    /\ UNCHANGED <<stageVars, kind, inputVars, dropVars>>

Handler(r) ==
    \/ Submits(r) \/ Decoded(r) \/ Reserves(r) \/ Sends(r) \/ Finishes(r)

-----------------------------------------------------------------------------
(* The input: poll, and Drop.                                              *)

\* What poll returns next: the rest of the entry it has begun, then the channel.
Undelivered == (IF deferred = None THEN <<>> ELSE <<deferred>>) \o channel

\* One entry of a poll.  What is left of its byte budget may end inside an NDJSON body.
Receives ==
    /\ rx
    /\ dropped = 0
    /\ Undelivered # <<>>
    /\ LET entry == Head(Undelivered)
           ends == IF kind = "http" THEN entry.first .. entry.last ELSE {entry.last}
       IN  \E end \in ends :
              /\ delivered' = Append(delivered, [entry EXCEPT !.last = end])
              /\ deferred' = IF end = entry.last THEN None ELSE [entry EXCEPT !.first = end + 1]
    /\ channel' = IF deferred = None THEN Tail(channel) ELSE channel
    /\ in_flight' = IF kind = "arrow_ipc" THEN in_flight - 1 ELSE in_flight
    /\ UNCHANGED <<stageVars, kind, req, rx, lost, dropVars, health>>

\* The I/O worker stops: the shutdown poll of a receiver returns nothing, and Drop runs
\* these steps in order.
DropOrder ==
    IF kind = "http" THEN <<"stopping", "close", "signal", "join", "stopped">>
    ELSE <<"stopping", "close", "stopped", "signal", "join">>

Dropping(step) ==
    /\ dropped < Len(DropOrder)
    /\ DropOrder[dropped + 1] = step
    /\ dropped' = dropped + 1

DropStopping ==
    /\ Dropping("stopping")
    /\ SetHealth("ShutdownRequested")
    /\ is_running' = FALSE
    /\ UNCHANGED <<stageVars, kind, req, inputVars, server>>

DropCloses ==
    /\ Dropping("close")
    /\ rx' = FALSE
    /\ lost' = Undelivered
    /\ channel' = <<>> /\ deferred' = None
    /\ UNCHANGED <<stageVars, kind, req, in_flight, delivered, is_running, server, health>>

DropStopped ==
    /\ Dropping("stopped")
    /\ SetHealth("ShutdownCompleted")
    /\ UNCHANGED <<stageVars, kind, req, inputVars, is_running, server>>

DropSignals ==
    /\ Dropping("signal")
    /\ server' = "signalled"
    /\ UNCHANGED <<stageVars, kind, req, inputVars, is_running, health>>

DropJoins ==
    /\ server = "ended"
    /\ kind = "otlp" => \A w \in Workers : worker[w].pc = "gone"
    /\ Dropping("join")
    /\ UNCHANGED <<stageVars, kind, req, inputVars, is_running, server, health>>

DropStep == DropCloses \/ DropStopped \/ DropSignals \/ DropJoins

\* Graceful shutdown: the server ends when its handlers have, and the stage with it.
ServerEnds ==
    /\ server = "signalled"
    /\ \A r \in Requests : Idle(r)
    /\ server' = "ended"
    /\ IF kind = "otlp" THEN StageDrops ELSE UNCHANGED stageVars
    /\ UNCHANGED <<kind, req, inputVars, is_running, dropped, health>>

-----------------------------------------------------------------------------

StageStep(w) ==
    /\ WorkerStep(w)
    /\ UNCHANGED <<kind, req, inputVars, dropVars, health>>

StagePanics(w) ==
    /\ Panics(w)
    /\ UNCHANGED <<kind, req, inputVars, dropVars, health>>

Init ==
    /\ StageInit
    /\ kind \in Kinds
    /\ req = [r \in Requests |-> [pc |-> "new", parts |-> 0, sent |-> 0, answer |-> None]]
    /\ channel = <<>> /\ deferred = None /\ in_flight = 0 /\ rx = TRUE
    /\ is_running = TRUE /\ health = "Healthy"
    /\ dropped = 0 /\ server = "open"
    /\ delivered = <<>> /\ lost = <<>>

Next ==
    \/ \E r \in Requests :
          \/ Handler(r) \/ RejectsBody(r) \/ ReadsBody(r) \/ ClientGone(r)
          \/ \E parts \in IF kind = "otlp" THEN {1} ELSE 0 .. MaxParts : Arrives(r, parts)
    \/ SubmitContinues
    \/ \E w \in Workers : StageStep(w) \/ StagePanics(w)
    \/ Receives \/ DropStopping \/ DropStep \/ ServerEnds

Spec == Init /\ [][Next]_vars

(* The server thread, the worker threads and the thread that drops the     *)
(* input go on; nothing is assumed of the clients or of the shutdown.      *)
FairSpec ==
    /\ Spec
    /\ \A r \in Requests : WF_vars(Handler(r))
    /\ WF_vars(SubmitContinues)
    /\ \A w \in Workers : WF_vars(StageStep(w))
    /\ WF_vars(DropStep) /\ WF_vars(ServerEnds)

-----------------------------------------------------------------------------
(* Properties.                                                             *)

\* All that was ever sent, in the order of the channel.
Stream == delivered \o Undelivered \o lost

(* The answer to a request tells what became of it, whatever poll, Drop,   *)
(* a panicking decoder and other requests do meanwhile.  What is sent of a *)
(* request is sent once, in order and without a gap; 200 means that all of *)
(* it was; 4xx, 429 and a decoder's 500 that nothing was, so that a retry  *)
(* duplicates nothing; the reservation of the Arrow IPC receiver always    *)
(* suffices (its own 500 never happens); and the pieces of a body that     *)
(* poll splits stay next to each other.                                    *)
AnswerTellsOutcome ==
    /\ \A i \in DOMAIN Stream :
          LET r == Stream[i].req
              before == {j \in 1 .. i - 1 : Stream[j].req = r}
          IN  /\ Stream[i].first <= Stream[i].last /\ Stream[i].last <= req[r].parts
              /\ \A j \in before : Stream[j].last < Stream[i].first
              /\ Stream[i].first # 1 => \E j \in before : Stream[j].last = Stream[i].first - 1
              /\ kind = "http" /\ Stream[i].last # req[r].parts =>
                    i < Len(Stream) /\ Stream[i + 1].req = r
    /\ \A r \in Requests :
          /\ req[r].answer = "ok" /\ result[r] # "empty" /\ req[r].parts > 0 =>
                \E i \in DOMAIN Stream : Stream[i].req = r /\ Stream[i].last = req[r].parts
          /\ req[r].answer \in {"busy", "rejected", "error"} =>
                \A i \in DOMAIN Stream : Stream[i].req # r
          /\ kind = "arrow_ipc" => req[r].answer # "error"

Jobs == UNION {Queued(w) \cup Held(w) : w \in Workers}

Unsent == {r \in Requests : req[r].pc = "send"}

(* The counters that decide over 429 are exact: outstanding counts the     *)
(* jobs that are queued, running or being submitted, across errors, panics *)
(* and jobs sent to a worker that leaves; in_flight_batches counts what is *)
(* queued or reserved.  A counter that leaks refuses every later request.  *)
CountersExact ==
    /\ outstanding = Cardinality(Jobs) + (IF submitting = None THEN 0 ELSE 1)
    /\ outstanding <= MaxOutstanding
    /\ kind = "arrow_ipc" /\ rx =>
          /\ Unsent = {} => in_flight = Len(channel)
          /\ \A r \in Unsent : in_flight = Len(channel) + (req[r].parts - req[r].sent)

(* A handler that waits for its decoder is never left waiting: the result  *)
(* is there, or a worker that still runs has the job, or the submission is *)
(* not over, although workers panic, drain their queue and leave while the *)
(* round robin is between two queues.                                      *)
NoHandlerStranded ==
    \A r \in Requests :
       req[r].pc = "decoding" /\ result[r] = None =>
          \/ submitting # None /\ submitting.req = r
          \/ \E w \in Workers : worker[w].pc # "gone" /\ r \in Queued(w) \cup Held(w)

(* Once its body is read every request is answered or its client is gone,  *)
(* also when its decoder panics or its worker leaves; and Drop joins the   *)
(* server and its workers unless a client keeps a body open.               *)
HandlersFinish ==
    /\ \A r \in Requests : (req[r].pc \in Sync \cup {"decoding"}) ~> Settled(r)
    /\ (dropped > 0) ~> (dropped = Len(DropOrder) \/ \E r \in Requests : req[r].pc = "body")

(* What a receiver has answered with 200 is not thrown away by a graceful  *)
(* shutdown or reload.                                                     *)
AcceptedIsDelivered ==
    \A r \in Requests : req[r].answer = "ok" => \A i \in DOMAIN lost : lost[i].req # r

(* Terminal health states are sticky: no later request makes a receiver    *)
(* that is stopping, stopped or failed look ready again.                   *)
TerminalIsSticky == [][(health \in Final) => (health' \in Final)]_vars
=============================================================================
