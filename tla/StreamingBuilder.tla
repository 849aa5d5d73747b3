-------------------------- MODULE StreamingBuilder --------------------------
(***************************************************************************)
(* StreamingBuilder and RowLifecycle (crates/ffwd-arrow/src): the column   *)
(* slots of a batch, reused from batch to batch, and the detection of      *)
(* duplicate keys in a row: a bitmask for the first DedupBits columns (64  *)
(* in the code), the last row written for the others.                      *)
(*                                                                         *)
(* A builder is a record that the operations map to a new one.  What       *)
(* field_index says is read off the names of the active slots.             *)
(***************************************************************************)
EXTENDS Integers, Sequences, SequencesExt

CONSTANT DedupBits      \* columns that written_bits tracks

ASSUME DedupAssumption == DedupBits \in Nat

NoRow == -1             \* u32::MAX in last_row
Null == [kind |-> "null", bytes |-> <<>>]

Slot(name) == [name |-> name, cells |-> {}, last_row |-> NoRow]

NewBuilder ==
    [state |-> "Idle", fields |-> <<>>, num_active |-> 0, row_count |-> 0,
     written |-> {}, lines |-> <<>>]

\* Mutant of BeginBatch: the active slots are forgotten before they are cleared.
BeginBatchUncleared(b) ==
    [b EXCEPT !.state = "InBatch", !.num_active = 0, !.row_count = 0, !.written = {},
              !.lines = <<>>]

\* Only the slots that were active in the previous batch are cleared.
BeginBatch(b) ==
    [b EXCEPT !.state = "InBatch", !.num_active = 0, !.row_count = 0, !.written = {},
              !.lines = <<>>,
              !.fields = [i \in DOMAIN b.fields |->
                  IF i <= b.num_active THEN Slot(b.fields[i].name) ELSE b.fields[i]]]

BeginRow(b) == [b EXCEPT !.state = "InRow", !.written = {}]

EndRow(b) == [b EXCEPT !.state = "InBatch", !.row_count = @ + 1]

Active(b) == SubSeq(b.fields, 1, b.num_active)

IsKnown(b, name) == \E i \in 1 .. b.num_active : b.fields[i].name = name

IndexOf(b, name) == CHOOSE i \in 1 .. b.num_active : b.fields[i].name = name

\* resolve_field: a new name takes the next slot, a dormant one if there is one.
ResolveField(b, name) ==
    LET next == b.num_active + 1
    IN  IF IsKnown(b, name) THEN b
        ELSE [b EXCEPT !.num_active = next,
                       !.fields = IF next <= Len(@) THEN [@ EXCEPT ![next].name = name]
                                  ELSE Append(@, Slot(name))]

\* check_dup_bits, which tracks the first columns only; indexes count from 1 here.
CheckDupBits(b, i) == i <= DedupBits /\ i \in b.written

\* Beyond them every append_*_by_idx looks at the last row that the column was written in:
\* the first value wins there too, which is more than the scanner contract and the comment
\* on check_dup_bits promise ("a duplicate key may overwrite the first occurrence").
WrittenThisRow(b, i) == i > DedupBits /\ b.fields[i].last_row = b.row_count

IsDuplicate(b, i) == CheckDupBits(b, i) \/ WrittenThisRow(b, i)

\* append_str, append_int, append_bool, append_null and their kind: the first value of a
\* row wins, and a null only takes the place.
AppendValue(b, name, value) ==
    LET i == IndexOf(b, name)
        cell == IF value = Null THEN {} ELSE {[row |-> b.row_count, value |-> value]}
    IN  IF IsDuplicate(b, i) THEN b
        ELSE [b EXCEPT !.written = IF i <= DedupBits THEN @ \union {i} ELSE @,
                       !.fields[i].last_row = IF i <= DedupBits THEN @ ELSE b.row_count,
                       !.fields[i].cells = @ \union cell]

AppendLine(b, line) == [b EXCEPT !.lines = Append(@, line)]

\* finish_batch: the columns of the active slots; the captured line owns its name.
FinishBatch(b, line_field) ==
    LET kept == {i \in 1 .. b.num_active : b.fields[i].name # line_field}
    IN  [rows |-> b.row_count,
         cells |-> UNION {{<<c.row, b.fields[i].name, c.value>> : c \in b.fields[i].cells} : i \in kept},
         lines |-> b.lines]
=============================================================================
