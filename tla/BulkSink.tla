------------------------------ MODULE BulkSink ------------------------------
(***************************************************************************)
(* ElasticsearchSink in its buffered request mode (crates/ffwd-output/src/ *)
(* elasticsearch): one send_batch sends the pending rows as one bulk       *)
(* request, or splits them in halves again and again, because they are too *)
(* large for max_bulk_bytes or because the server answers 413.  What the   *)
(* halves answer is merged; the rows that have to be sent again are kept   *)
(* for the next send_batch of the same batch.                              *)
(*                                                                         *)
(* The actions here change the sink's own variables; OutputSinks places    *)
(* the sink among the children of a fanout.  Rows stand for their          *)
(* documents, MaxBulk for the size limit, and the order of the rows in a   *)
(* request is left out.                                                    *)
(***************************************************************************)
EXTENDS Naturals, Sequences, FiniteSets

CONSTANTS
    MaxRows,            \* rows of a batch
    MaxBulk,            \* rows that fit into max_bulk_bytes
    Large,              \* rows that in some batches do not fit on their own
    MaxSplitDepth       \* MAX_SPLIT_DEPTH

ASSUME BulkAssumptions ==
    /\ {MaxRows, MaxBulk} \subseteq Nat \ {0} /\ MaxSplitDepth \in Nat
    /\ Large \subseteq 1..MaxRows

Rows == 1..MaxRows

VARIABLES
    large,              \* the rows of the batch that do not fit on their own
    pending,            \* pending_retry_rows; every row when it is None
    rejections,         \* the rows of pending_rejections
    todo,               \* the parts of the running send_batch that are still to be sent
    attempt,            \* the merged SendAttempt of the parts that were sent
    \* ghosts, for the current batch
    accepted,           \* how often the server has indexed each row
    refused,            \* the rows the server or the size limit has refused
    unsure              \* the rows whose request was lost before its answer was used

bulkVars == <<large, pending, rejections, todo, attempt, accepted, refused, unsure>>

Nothing == [kind |-> "Ok", rows |-> {}, rejected |-> {}]

\* No send_batch is running.
Idle == [Nothing EXCEPT !.kind = "Idle"]

\* begin_batch, at the start of every batch.
BulkBeginBatch ==
    /\ large' \in SUBSET Large
    /\ pending' = Rows /\ rejections' = {}
    /\ todo' = <<>> /\ attempt' = Idle
    /\ accepted' = [r \in Rows |-> 0] /\ refused' = {} /\ unsure' = {}

BulkInit ==
    /\ large = {} /\ pending = Rows /\ rejections = {}
    /\ todo = <<>> /\ attempt = Idle
    /\ accepted = [r \in Rows |-> 0] /\ refused = {} /\ unsure = {}

\* send_batch starts with the rows an earlier attempt left.
BulkStarts ==
    /\ attempt = Idle
    /\ todo' = << [rows |-> pending, depth |-> 0] >>
    /\ attempt' = Nothing
    /\ UNCHANGED <<large, pending, rejections, accepted, refused, unsure>>

-----------------------------------------------------------------------------
(***************************************************************************)
(* send_batch_inner and send_split_halves, for the first part of todo.     *)
(***************************************************************************)

TooLarge(rows) == Cardinality(rows) > MaxBulk \/ rows \intersect large # {}

Part == Head(todo)

\* do_send has sent the request of the part and waits for the response.
Requested == todo # <<>> /\ ~TooLarge(Part.rows)

MaySplit == Cardinality(Part.rows) > 1 /\ Part.depth < MaxSplitDepth

SendSplitHalves ==
    LET mid == Cardinality(Part.rows) \div 2
        left == {r \in Part.rows : Cardinality({q \in Part.rows : q < r}) < mid}
        half(rows) == [rows |-> rows, depth |-> Part.depth + 1]
    IN  /\ todo' = <<half(left), half(Part.rows \ left)>> \o Tail(todo)
        /\ UNCHANGED <<large, pending, rejections, attempt, accepted, refused, unsure>>

Rank(kind) == CASE kind = "Ok" -> 0 [] kind = "Rejected" -> 1
                [] kind = "RetryAfter" -> 2 [] kind = "IoError" -> 3

Worse(left, right) == IF Rank(left.kind) < Rank(right.kind) THEN right ELSE left

\* Mutant of MergeSplitAttempts: only the half with the worse result leaves rows behind.
MergeKeepsWorse(left, right) ==
    [Worse(left, right) EXCEPT !.rejected = left.rejected \union right.rejected]

MergeSplitAttempts(left, right) ==
    [kind |-> Worse(left, right).kind,
     rows |-> left.rows \union right.rows,
     rejected |-> left.rejected \union right.rejected]

\* The part is finished, with the rows to send again and the rows that were rejected.
PartDone(kind, rows, rejected) ==
    /\ todo' = Tail(todo)
    /\ attempt' = MergeSplitAttempts(attempt, [kind |-> kind, rows |-> rows, rejected |-> rejected])
    /\ refused' = refused \union rejected
    /\ UNCHANGED <<large, pending, rejections>>

Index(rows) == accepted' = [r \in Rows |-> IF r \in rows THEN accepted[r] + 1 ELSE accepted[r]]

\* The proactive split, or the end of it.
BulkSplits == todo # <<>> /\ TooLarge(Part.rows) /\ MaySplit /\ SendSplitHalves

BulkTooLarge ==
    /\ todo # <<>> /\ TooLarge(Part.rows) /\ ~MaySplit
    /\ PartDone("Rejected", {}, Part.rows)
    /\ UNCHANGED <<accepted, unsure>>

\* A bulk response: some items to retry, some rejected, the others indexed.
BulkResponse(retry, reject) ==
    /\ Requested
    /\ retry \subseteq Part.rows /\ reject \subseteq Part.rows \ retry
    /\ PartDone(IF retry # {} THEN "RetryAfter" ELSE IF reject # {} THEN "Rejected" ELSE "Ok",
                retry, reject)
    /\ Index(Part.rows \ (retry \union reject))
    /\ UNCHANGED unsure

\* The request as a whole is rejected, or it is to be sent again (an HTTP status, a lost
\* connection, an unreadable response): then the server may have indexed its rows.
BulkFails(kind, indexed) ==
    /\ Requested
    /\ PartDone(kind, IF kind = "Rejected" THEN {} ELSE Part.rows,
                      IF kind = "Rejected" THEN Part.rows ELSE {})
    /\ Index(IF indexed THEN Part.rows ELSE {})
    /\ unsure' = unsure \union Part.rows

\* serialize_batch fails, before the size of the part is looked at: from_io_error.
BulkCannotSerialize(kind) ==
    /\ todo # <<>>
    /\ PartDone(kind, IF kind = "Rejected" THEN {} ELSE Part.rows,
                      IF kind = "Rejected" THEN Part.rows ELSE {})
    /\ UNCHANGED <<accepted, unsure>>

\* 413 Payload Too Large: the reactive split, or an error that is retried.
BulkRefusesSize ==
    /\ Requested
    /\ \/ MaySplit /\ SendSplitHalves
       \/ /\ ~MaySplit
          /\ PartDone("IoError", Part.rows, {})
          /\ UNCHANGED <<accepted, unsure>>

-----------------------------------------------------------------------------

AllRejections == rejections \union attempt.rejected

\* The SendResult of send_batch: rejections of earlier attempts count as well.
BulkResult ==
    IF attempt.kind \in {"RetryAfter", "IoError"} THEN attempt.kind
    ELSE IF AllRejections # {} THEN "Rejected" ELSE "Ok"

BulkReturns ==
    /\ attempt # Idle /\ todo = <<>>
    /\ IF BulkResult \in {"RetryAfter", "IoError"}
       THEN pending' = attempt.rows /\ rejections' = AllRejections
       ELSE pending' = Rows /\ rejections' = {}
    /\ attempt' = Idle
    /\ UNCHANGED <<large, todo, accepted, refused, unsure>>

\* The future of send_batch is dropped while a request is out: nothing of what its parts
\* have answered is kept, and the request may still be served.
BulkDropped(indexed) ==
    /\ Requested
    /\ todo' = <<>> /\ attempt' = Idle
    /\ Index(IF indexed THEN Part.rows ELSE {})
    /\ unsure' = unsure \union pending
    /\ UNCHANGED <<large, pending, rejections, refused>>
=============================================================================
