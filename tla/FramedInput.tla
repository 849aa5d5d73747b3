----------------------------- MODULE FramedInput -----------------------------
(***************************************************************************)
(* FramedInput of crates/ffwd-io/src/framed.rs over one tailed file: the   *)
(* partial line kept between reads (the remainder) and its overflow, the   *)
(* format decoder with its reassembly of CRI partial lines (format.rs,     *)
(* reassembler.rs), the CheckpointTracker, and the checkpoint that         *)
(* checkpoint_data reports to the I/O worker.                              *)
(*                                                                         *)
(* A byte is identified by its place in the file.  Of its value only       *)
(* matters whether it ends a line, and for CRI whether it is the header of *)
(* a full or of a partial line of some stream (a header counts as one      *)
(* byte).  The state is that of one source: the map of sources is only     *)
(* ever accessed at the source of the event.                               *)
(***************************************************************************)
EXTENDS Naturals, FiniteSetsExt, Sequences

CONSTANTS
    Formats,        \* the formats the input may be configured with
    Streams,        \* the streams of CRI lines
    None,           \* no state for the source; no stream
    MaxRemainder,   \* MAX_REMAINDER_BYTES, also the largest CRI message
    MaxRead,        \* bytes in one data event (per_file_read_budget_bytes)
    MaxLength,      \* bound: bytes in the file
    MaxTruncations, \* bound: truncations or rotations of the file
    MaxRestarts     \* bound: crashes and restarts

ASSUME FramingAssumptions ==
    /\ Formats \subseteq {"Passthrough", "Cri", "Auto"}
    /\ None \notin Streams
    /\ {MaxRemainder, MaxRead} \subseteq Nat \ {0}
    /\ {MaxLength, MaxTruncations, MaxRestarts} \subseteq Nat

VARIABLES
    format,     \* the configured format
    file,       \* the bytes written so far
    gen,        \* how often the file was truncated or replaced
    offset,     \* the read position of the tailer
    source,     \* SourceState, or None
    durable,    \* the checkpoint on disk
    restarts

(* Ghost state.                                                            *)
VARIABLES
    emitted,    \* the records handed to the scanner, as sequences of bytes
    discarded,  \* bytes dropped on purpose (and counted as parse errors)
    cuts        \* positions at which an end of file completed a line

fileVars == <<format, file, gen>>
ghostVars == <<emitted, discarded, cuts>>
vars == <<fileVars, offset, source, durable, restarts, ghostVars>>

-----------------------------------------------------------------------------
(* Bytes.                                                                  *)

Headers == {"full", "partial"} \X Streams

Kinds == ({"newline", "text"} \X {None}) \cup Headers

Newline == <<"newline", None>>

NewlinesIn(bytes) == {i \in DOMAIN bytes : bytes[i].kind = Newline}

(* The line that ends with the newline at position end.                    *)
LineAt(bytes, end) ==
    SubSeq(bytes, Max({0} \cup {i \in NewlinesIn(bytes) : i < end}) + 1, end)

FirstBytes(bytes, n) == SubSeq(bytes, 1, IF n < Len(bytes) THEN n ELSE Len(bytes))

LastBytes(bytes, n) ==
    SubSeq(bytes, IF n < Len(bytes) THEN Len(bytes) - n + 1 ELSE 1, Len(bytes))

-----------------------------------------------------------------------------
(* CheckpointTracker.  (apply_checkpoint and apply_restart have no caller  *)
(* in the runtime.)                                                        *)

NewTracker == [read_offset |-> 0, processed_offset |-> 0, remainder_len |-> 0]

(* newline is the position of the last newline among the n bytes, counted  *)
(* from 1, or 0.                                                           *)
ApplyRead(t, n, newline) ==
    IF newline = 0
    THEN [t EXCEPT !.read_offset = @ + n, !.remainder_len = @ + n]
    ELSE [read_offset      |-> t.read_offset + n,
          processed_offset |-> t.read_offset + newline,
          remainder_len    |-> n - newline]

ApplyRemainderConsumed(t) ==
    [t EXCEPT !.processed_offset = t.read_offset, !.remainder_len = 0]

-----------------------------------------------------------------------------
(* FormatDecoder.  Its state is the pending CRI message of each stream.    *)

ResetDecoder == [s \in Streams |-> <<>>]

NewState == [remainder |-> <<>>, decoder |-> ResetDecoder, tracker |-> NewTracker,
             overflow_tainted |-> FALSE]

(* One line of extract_cri_messages.  A full line completes the pending    *)
(* message of its stream, a partial line extends it, both up to the        *)
(* maximal size; a line that is not CRI breaks all pending messages and is *)
(* itself emitted by the Auto format only.                                 *)
DecodeCri(acc, line) ==
    LET body    == FirstBytes(line, Len(line) - 1)
        stream  == body[1].kind[2]
        whole   == acc.decoder[stream] \o Tail(body)
        message == FirstBytes(whole, MaxRemainder)
        full    == body[1].kind[1] = "full"
    IN  IF body # <<>> /\ body[1].kind \in Headers
        THEN [decoder   |-> [acc.decoder EXCEPT ![stream] = IF full THEN <<>> ELSE message],
              emitted   |-> IF full THEN acc.emitted \cup {message} ELSE acc.emitted,
              discarded |-> acc.discarded \cup (Range(whole) \ Range(message))]
        ELSE [decoder   |-> ResetDecoder,
              emitted   |-> IF format = "Auto" /\ body # <<>>
                            THEN acc.emitted \cup {body} ELSE acc.emitted,
              discarded |-> acc.discarded
                            \cup (UNION {Range(acc.decoder[s]) : s \in Streams})
                            \cup IF format = "Auto" THEN {} ELSE Range(body)]

ProcessLine(acc, line) ==
    IF format = "Passthrough"
    THEN [decoder   |-> acc.decoder,
          emitted   |-> acc.emitted \cup {FirstBytes(line, Len(line) - 1)},
          discarded |-> acc.discarded]
    ELSE DecodeCri(acc, line)

(* process_lines on complete lines: done is what has come of the lines     *)
(* that end up to a position.                                              *)
ProcessLines(decoder, bytes) ==
    LET done[end \in 0 .. Len(bytes)] ==
            IF end = 0 THEN [decoder |-> decoder, emitted |-> {}, discarded |-> {}]
            ELSE IF bytes[end].kind = Newline
            THEN ProcessLine(done[end - 1], LineAt(bytes, end))
            ELSE done[end - 1]
    IN  done[Len(bytes)]

-----------------------------------------------------------------------------
(* The file.                                                               *)

AtLineStart == \A n \in DOMAIN file : n = Len(file) => file[n].kind = Newline

(* The program that writes the log appends a byte.  CRI headers stand at   *)
(* the beginning of lines, and only in logs that are read as CRI.          *)
Write(kind) ==
    /\ Len(file) < MaxLength
    /\ kind \in Headers => format # "Passthrough" /\ AtLineStart
    /\ file' = Append(file, [gen |-> gen, pos |-> Len(file) + 1, kind |-> kind])
    /\ UNCHANGED <<format, gen, offset, source, durable, restarts, ghostVars>>

(* The file is truncated or replaced, and the tailer reports Truncated or  *)
(* Rotated: the state of the source is removed.  The ghosts start again.   *)
Truncated ==
    /\ gen < MaxTruncations
    /\ gen' = gen + 1
    /\ file' = <<>>
    /\ offset' = 0
    /\ source' = None
    /\ emitted' = {} /\ discarded' = {} /\ cuts' = {}
    /\ UNCHANGED <<format, durable, restarts>>

-----------------------------------------------------------------------------
(* process_raw_events.                                                     *)

(* Faulty variant: the line completed from a cut remainder is not dropped. *)
ProcessStartAtFragment(st, newlines) == 0

(* The bytes of a chunk to skip: the first line, if the remainder it was   *)
(* completed from had been cut.                                            *)
ProcessStart(st, newlines) ==
    IF st.overflow_tainted /\ newlines # {} THEN Min(newlines) ELSE 0

(* What a Data event with these bytes does to the state of its source.     *)
(* The zero-copy path and the general path agree: where the first is taken *)
(* the remainder is empty and untainted, and the decoder copies.           *)
(* A tail that is too long is cut at its front and the decoder is reset,   *)
(* before the complete lines of the chunk are decoded.  A remainder that   *)
(* was tainted before the event makes the first line be dropped, and       *)
(* clears the taint.                                                       *)
Read(st, bytes) ==
    LET chunk    == st.remainder \o bytes
        newlines == NewlinesIn(chunk)
        last     == Max(newlines \cup {0})
        tail     == SubSeq(chunk, last + 1, Len(chunk))
        kept     == LastBytes(tail, MaxRemainder)
        overflow == Len(tail) > MaxRemainder
        start    == ProcessStart(st, newlines)
        lines    == ProcessLines(IF overflow THEN ResetDecoder ELSE st.decoder,
                                 SubSeq(chunk, start + 1, last))
        broken   == IF overflow THEN UNION {Range(st.decoder[s]) : s \in Streams} ELSE {}
    IN  [state     |-> [remainder        |-> kept,
                        decoder          |-> lines.decoder,
                        tracker          |-> ApplyRead(st.tracker, Len(bytes),
                                               IF last > Len(st.remainder)
                                               THEN last - Len(st.remainder) ELSE 0),
                        overflow_tainted |-> IF st.overflow_tainted /\ last > 0
                                             THEN FALSE
                                             ELSE st.overflow_tainted \/ overflow],
         emitted   |-> lines.emitted,
         discarded |-> lines.discarded \cup broken \cup (Range(tail) \ Range(kept))
                       \cup Range(SubSeq(chunk, 1, start))]

(* The tailer read n bytes.  A file input keeps the state of the source    *)
(* (should_reclaim_completed_source_state is false).                       *)
Data(n) ==
    /\ offset + n <= Len(file)
    /\ LET st     == IF source = None THEN NewState ELSE source
           result == Read(st, SubSeq(file, offset + 1, offset + n))
       IN  /\ source' = result.state
           /\ emitted' = emitted \cup result.emitted
           /\ discarded' = discarded \cup result.discarded
    /\ offset' = offset + n
    /\ UNCHANGED <<fileVars, durable, restarts, cuts>>

(* Faulty variant: a pending CRI message does not count.                   *)
IsReclaimableUnlessPartialLine(st) == st.remainder = <<>> /\ ~st.overflow_tainted

IsReclaimable(st) ==
    /\ st.remainder = <<>>
    /\ ~st.overflow_tainted
    /\ \A s \in Streams : st.decoder[s] = <<>>

(* End of file completes the remainder with a newline; a tainted remainder *)
(* is dropped instead.                                                     *)
FlushRemainder(st) ==
    LET line  == Append(st.remainder, [gen |-> gen, pos |-> 0, kind |-> Newline])
        lines == ProcessLines(st.decoder, IF st.overflow_tainted THEN <<>> ELSE line)
    IN  IF st.remainder = <<>>
        THEN [state |-> st, emitted |-> {}, discarded |-> {}]
        ELSE [state     |-> [remainder        |-> <<>>,
                             decoder          |-> lines.decoder,
                             tracker          |-> ApplyRemainderConsumed(st.tracker),
                             overflow_tainted |-> FALSE],
              emitted   |-> lines.emitted,
              discarded |-> lines.discarded
                            \cup IF st.overflow_tainted THEN Range(st.remainder) ELSE {}]

(* The tailer has seen no data for a while: an idle signal, after which    *)
(* the file may go on growing.                                             *)
EndOfFile ==
    /\ offset = Len(file)
    /\ source # None
    /\ LET result == FlushRemainder(source)
       IN  /\ source' = IF IsReclaimable(result.state) THEN None ELSE result.state
           /\ emitted' = emitted \cup result.emitted
           /\ discarded' = discarded \cup result.discarded
    /\ cuts' = IF source.remainder = <<>> THEN cuts ELSE cuts \cup {offset}
    /\ UNCHANGED <<fileVars, offset, durable, restarts>>

-----------------------------------------------------------------------------
(* Checkpoints.                                                            *)

(* Faulty variant: the bytes that are buffered are subtracted, not those   *)
(* that were read since the last line.                                     *)
CheckpointOfBuffer == IF source = None THEN offset ELSE offset - Len(source.remainder)

(* checkpoint_data: the offset of the tailer minus the remainder as the    *)
(* tracker counts it (saturating_sub).                                     *)
Checkpoint ==
    IF source = None THEN offset
    ELSE IF source.tracker.remainder_len > offset THEN 0
    ELSE offset - source.tracker.remainder_len

(* What was emitted so far reaches the output, and the checkpoint the      *)
(* store.                                                                  *)
Persist ==
    /\ durable' = [gen |-> gen, offset |-> Checkpoint]
    /\ UNCHANGED <<fileVars, offset, source, restarts, ghostVars>>

(* The process dies and starts again from the checkpoint on disk.  The     *)
(* store knows a file by its fingerprint: that of a truncated or replaced  *)
(* file is taken to be another one.                                        *)
Restart ==
    /\ restarts < MaxRestarts
    /\ restarts' = restarts + 1
    /\ source' = None
    /\ offset' = IF durable.gen = gen THEN durable.offset ELSE 0
    /\ UNCHANGED <<fileVars, durable, ghostVars>>

Init ==
    /\ format \in Formats
    /\ file = <<>>
    /\ gen = 0
    /\ offset = 0
    /\ source = None
    /\ durable = [gen |-> 0, offset |-> 0]
    /\ restarts = 0
    /\ emitted = {} /\ discarded = {} /\ cuts = {}

Next ==
    \/ \E kind \in Kinds : Write(kind)
    \/ Truncated
    \/ \E n \in 1 .. MaxRead : Data(n)
    \/ EndOfFile
    \/ Persist
    \/ Restart

Spec == Init /\ [][Next]_vars

-----------------------------------------------------------------------------
(* Properties.                                                             *)

Byte == [gen : 0 .. MaxTruncations, pos : 0 .. MaxLength, kind : Kinds]

SourceState == [remainder : Seq(Byte), decoder : [Streams -> Seq(Byte)],
                tracker : [read_offset : Nat, processed_offset : Nat, remainder_len : Nat],
                overflow_tainted : BOOLEAN]

ASSUME StateAssumption == None \notin SourceState

(* The type of the state of the file, the source and the checkpoint; the   *)
(* buffers are bounded.                                                    *)
TypeOK ==
    /\ format \in Formats
    /\ file \in Seq(Byte) /\ Len(file) <= MaxLength
    /\ gen \in 0 .. MaxTruncations
    /\ offset \in 0 .. Len(file)
    /\ source \in SourceState \cup {None}
    /\ source # None => /\ Len(source.remainder) <= MaxRemainder
                        /\ \A s \in Streams : Len(source.decoder[s]) <= MaxRemainder
    /\ durable \in [gen : 0 .. MaxTruncations, offset : 0 .. MaxLength]
    /\ restarts \in 0 .. MaxRestarts

(* The ends of lines: newlines, and ends of file in the middle of a line.  *)
Boundaries == {0} \cup NewlinesIn(file) \cup cuts

(* The checkpoint that checkpoint_data reports is always the end of a      *)
(* line, behind which no line was completed, and the read position itself  *)
(* when nothing is buffered: through overflows that cut the buffer, ends   *)
(* of file in the middle of a line, reclaimed state, truncation, restart.  *)
CheckpointAtBoundary ==
    /\ Checkpoint \in Boundaries
    /\ \A n \in NewlinesIn(file) : n <= offset => n <= Checkpoint
    /\ source # None /\ source.remainder = <<>> => Checkpoint = offset

(* No record is a fragment that begins in the middle of a line, because of *)
(* an overflow ("the first completed line formed from this remainder must  *)
(* be discarded to avoid emitting a garbled fragment"), or mixes in bytes  *)
(* of the file before it was truncated.                                    *)
NoGarbledFragment ==
    \A record \in emitted : \A b \in Range(record) :
        /\ b.gen = gen
        /\ \/ b.pos - 1 \in Boundaries
           \/ file[b.pos - 1].kind \in Headers
           \/ \E before \in Range(record) : before.pos = b.pos - 1

(* Byte n is in a partial CRI line: one that begins with such a header.    *)
PartialLine(n) ==
    \E h \in 1 .. n : /\ file[h].kind[1] = "partial"
                      /\ \A k \in h .. (n - 1) : file[k].kind # Newline

(* Byte n carries no message, was emitted, or was dropped on purpose.      *)
Processed(n) ==
    \/ file[n].kind = Newline \/ file[n].kind \in Headers
    \/ file[n] \in discarded
    \/ \E record \in emitted : file[n] \in Range(record)

Held(n) ==
    /\ source # None
    /\ \/ file[n] \in Range(source.remainder)
       \/ \E s \in Streams : file[n] \in Range(source.decoder[s])

(* Every byte behind the read position was emitted, was dropped on purpose *)
(* or is still buffered, whatever overflows, ends of file and decoder      *)
(* resets happened; after a crash and a restart from the stored checkpoint *)
(* too, except for what the partial CRI lines of a message held.           *)
BytesAccountedFor ==
    \A n \in 1 .. offset : \/ Processed(n)
                           \/ Held(n)
                           \/ restarts > 0 /\ PartialLine(n)

(* "A crash + restart from that offset will not skip any unprocessed       *)
(* data": every byte behind the read position was emitted, was dropped on  *)
(* purpose or is still buffered, after a restart too.                      *)
RestartSkipsNothing == \A n \in 1 .. offset : Processed(n) \/ Held(n)
=============================================================================
