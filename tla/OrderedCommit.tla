---------------------------- MODULE OrderedCommit ----------------------------
(***************************************************************************)
(* What the checkpoint tracking of the pipeline promises for each source:  *)
(* batches are sent in the order of their ids, they are acknowledged in    *)
(* any order, and the committed checkpoint is the one of the last batch of *)
(* the longest prefix of the sent batches that is acknowledged completely. *)
(* This is the contract the header of lifecycle.rs states ("checkpoints    *)
(* are committed only when ALL prior batches for a source are              *)
(* acknowledged").                                                         *)
(***************************************************************************)
EXTENDS Naturals, FiniteSetsExt

CONSTANTS Sources, Checkpoints, None, BatchIds

VARIABLES
    sent,       \* per source: batch id -> checkpoint
    acked,      \* per source: the ids of the acknowledged batches
    committed   \* per source: the committed checkpoint, or None

vars == <<sent, acked, committed>>

(* The batches at or below which everything sent is acknowledged.          *)
Prefix(sentBatches, ackedIds) ==
    {id \in DOMAIN sentBatches :
        \A other \in DOMAIN sentBatches : other <= id => other \in ackedIds}

Frontier(sentBatches, ackedIds) ==
    IF Prefix(sentBatches, ackedIds) = {}
    THEN None
    ELSE sentBatches[Max(Prefix(sentBatches, ackedIds))]

Init ==
    /\ sent = [s \in Sources |-> [id \in {} |-> None]]
    /\ acked = [s \in Sources |-> {}]
    /\ committed = [s \in Sources |-> None]

Send(s, id, checkpoint) ==
    /\ \A other \in DOMAIN sent[s] : other < id
    /\ sent' = [sent EXCEPT ![s] =
                   [x \in DOMAIN @ \cup {id} |-> IF x = id THEN checkpoint ELSE sent[s][x]]]
    /\ UNCHANGED <<acked, committed>>

Acknowledge(s, id) ==
    /\ id \in DOMAIN sent[s] \ acked[s]
    /\ acked' = [acked EXCEPT ![s] = @ \cup {id}]
    /\ committed' = [committed EXCEPT ![s] = Frontier(sent[s], acked[s] \cup {id})]
    /\ UNCHANGED sent

Next ==
    \E s \in Sources, id \in BatchIds :
        \/ \E checkpoint \in Checkpoints : Send(s, id, checkpoint)
        \/ Acknowledge(s, id)

Spec == Init /\ [][Next]_vars
=============================================================================
