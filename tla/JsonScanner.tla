----------------------------- MODULE JsonScanner -----------------------------
(***************************************************************************)
(* Scanner::scan (crates/ffwd-arrow/src/scanner.rs): scan_streaming        *)
(* (crates/ffwd-core/src/json_scanner.rs) finds the lines and the quotes   *)
(* and brackets of an NDJSON buffer block by block, then reads the fields  *)
(* of every line into the builder, which turns them into one table.  The   *)
(* scanner and its builder are used for one buffer after the other.        *)
(*                                                                         *)
(* A buffer is the text of some documents: objects, whose fields the table *)
(* must hold, and lines that are no JSON.  Positions count from 0.  The    *)
(* literals true and false are one symbol, T, and null is N; integers and  *)
(* floats are numbers; \u escapes are left out.                            *)
(***************************************************************************)
EXTENDS StructuralIndex, StreamingBuilder

CONSTANTS
    Inputs,             \* the buffers: sequences of documents
    Endings,            \* how a line ends
    Pads,               \* how many spaces the first line starts with
    Configs,            \* the scan configurations
    NoKey,
    MaxBatches          \* bound: buffers scanned

VARIABLES
    config,             \* ScanConfig: wanted fields, line_field, and the field of a row
                        \* predicate "IS NOT NULL"; the last two may be NoKey
    docs,               \* the documents of the buffer (ghost)
    buf,
    phase,
    block_idx,
    odd, inside,        \* prev_odd_backslash and prev_in_string of the classifier
    real_quotes, opens, closes,   \* stored bitmasks, as absolute positions
    line_start, line_ranges,
    builder,
    table,              \* the RecordBatch that the last scan returned
    batches

maskVars == <<odd, inside, real_quotes, opens, closes>>
vars == <<config, docs, buf, phase, block_idx, maskVars, line_start, line_ranges, builder, table, batches>>

At(pos) == buf[pos + 1]

Slice(start, end) == SubSeq(buf, start + 1, end)

-----------------------------------------------------------------------------
(***************************************************************************)
(* Documents and their text.                                               *)
(***************************************************************************)

EscapeByte(byte) == IF byte \in {Quote, Backslash} THEN <<Backslash, byte>> ELSE <<byte>>

QuoteString(bytes) == <<Quote>> \o FlattenSeq([i \in DOMAIN bytes |-> EscapeByte(bytes[i])]) \o <<Quote>>

\* A value is written as it is, unless it is a string.
ValueText(value) == IF value.kind = "string" THEN QuoteString(value.bytes) ELSE value.bytes

FieldText(field) == QuoteString(field.key) \o <<":">> \o ValueText(field.value)

Joined(parts, sep) ==
    FlattenSeq([i \in DOMAIN parts |-> IF i = 1 THEN parts[i] ELSE sep \o parts[i]])

DocText(doc) ==
    IF doc.kind = "text" THEN doc.bytes
    ELSE <<"{">> \o Joined([i \in DOMAIN doc.fields |-> FieldText(doc.fields[i])], <<",">>) \o <<"}">>

\* What the builder stores for a value: nested JSON is stored as a string.
Stored(value) ==
    CASE value.kind = "string" -> [kind |-> "str", bytes |-> value.bytes]
      [] value.kind = "nested" -> [kind |-> "str", bytes |-> value.bytes]
      [] value.kind = "null" -> Null
      [] OTHER -> value

\* The value the document gives a key: that of the first field with the key.
First(doc, key) ==
    LET places == IF doc.kind = "text" THEN {} ELSE {i \in DOMAIN doc.fields : doc.fields[i].key = key}
    IN  IF places = {} THEN Null ELSE Stored(doc.fields[Min(places)].value)

\* The documents that have a row: empty lines have none, the predicate drops some.
Kept(doc) == DocText(doc) # <<>> /\ (config.predicate = NoKey \/ First(doc, config.predicate) # Null)

-----------------------------------------------------------------------------
(***************************************************************************)
(* Phase 1 of scan_streaming: one step per block.                          *)
(***************************************************************************)

NoTable == FinishBatch(NewBuilder, NoKey)

\* Scanner::scan with the next buffer.
BeginScan(input, ending, pad) ==
    /\ phase = "idle" /\ batches < MaxBatches
    /\ pad = 0 \/ DocText(input[1]) # <<>>
    /\ batches' = batches + 1
    /\ docs' = input
    /\ buf' = [i \in 1 .. pad |-> Space] \o Joined([i \in DOMAIN input |-> DocText(input[i])], ending)
    /\ builder' = BeginBatch(builder)
    /\ phase' = "blocks" /\ block_idx' = 0
    /\ odd' = FALSE /\ inside' = FALSE
    /\ real_quotes' = {} /\ opens' = {} /\ closes' = {}
    /\ line_start' = 0 /\ line_ranges' = <<>>
    /\ table' = NoTable
    /\ UNCHANGED config

\* A line up to end, without a trailing carriage return; empty lines are skipped.
PushLine(ranges, start, end) ==
    LET line_end == IF end > start /\ At(end - 1) = Return THEN end - 1 ELSE end
    IN  IF line_end > start THEN Append(ranges, <<start, line_end>>) ELSE ranges

Absolute(bits) == {block_idx * Width + i : i \in bits}

\* One block, padded with spaces: its masks are stored, and its newlines end lines.
ClassifyBlock ==
    LET offset == block_idx * Width
        len == Min({Len(buf) - offset, Width})
        block == [i \in Bits |-> IF i < len THEN At(offset + i) ELSE Space]
        processed == ProcessBlock(block, len, odd, inside)
        EndLine(acc, nl) == [ranges |-> PushLine(acc.ranges, acc.start, nl), start |-> nl + 1]
        lines == FoldLeft(EndLine, [ranges |-> line_ranges, start |-> line_start],
                          SetToSortSeq(Absolute(processed.newline), <))
    IN
    /\ phase = "blocks" /\ offset < Len(buf)
    /\ odd' = processed.odd /\ inside' = processed.inside
    /\ real_quotes' = real_quotes \union Absolute(processed.real_quotes)
    /\ opens' = opens \union Absolute(processed.opens)
    /\ closes' = closes \union Absolute(processed.closes)
    /\ line_ranges' = lines.ranges /\ line_start' = lines.start
    /\ block_idx' = block_idx + 1
    /\ UNCHANGED <<config, docs, buf, phase, builder, table, batches>>

\* The last line need not be terminated.
BlocksDone ==
    /\ phase = "blocks" /\ block_idx * Width >= Len(buf)
    /\ line_ranges' = IF line_start < Len(buf) THEN PushLine(line_ranges, line_start, Len(buf))
                      ELSE line_ranges
    /\ phase' = "lines"
    /\ UNCHANGED <<config, docs, buf, block_idx, maskVars, line_start, builder, table, batches>>

-----------------------------------------------------------------------------
(***************************************************************************)
(* Phase 2: scan_line and its helpers.                                     *)
(***************************************************************************)

Delimiters == {",", "}", "]", Space, Return, Newline}

\* The first position from pos on, before end, with the property; end if there is none.
NextWith(pos, end, Test(_)) == Min({p \in pos .. end - 1 : Test(p)} \union {end})

SkipWhitespace(pos, end) == NextWith(pos, end, LAMBDA p : At(p) \notin {Space, Return})

SkipBareValue(pos, end) == NextWith(pos, end, LAMBDA p : At(p) \in Delimiters)

\* next_quote; end stands for None.
NextQuote(pos, end) == NextWith(pos, end, LAMBDA p : p \in real_quotes)

Closer(opener) == IF opener = "{" THEN "}" ELSE "]"

\* skip_nested: the position after the value that starts at pos, with a stack of openers.
RECURSIVE SkipNested(_, _, _)
SkipNested(pos, end, stack) ==
    LET close == NextQuote(pos + 1, end)
    IN
    CASE pos >= end -> end
      [] pos < end /\ pos \in opens -> SkipNested(pos + 1, end, Append(stack, At(pos)))
      [] pos < end /\ pos \in closes ->
            IF stack = <<>> \/ Closer(Last(stack)) # At(pos) THEN pos
            ELSE IF Len(stack) = 1 THEN pos + 1
            ELSE SkipNested(pos + 1, end, Front(stack))
      [] pos < end /\ pos \in real_quotes -> SkipNested(IF close < end THEN close + 1 ELSE end, end, stack)
      [] OTHER -> SkipNested(pos + 1, end, stack)

\* decode_json_escapes.
RECURSIVE DecodeJsonEscapes(_)
DecodeJsonEscapes(bytes) ==
    IF bytes = <<>> THEN <<>>
    ELSE IF Len(bytes) > 1 /\ bytes[1] = Backslash /\ bytes[2] \in {Quote, Backslash}
    THEN <<bytes[2]>> \o DecodeJsonEscapes(Tail(Tail(bytes)))
    ELSE <<bytes[1]>> \o DecodeJsonEscapes(Tail(bytes))

\* A number is kept if it parses; T and N must be followed by a delimiter.
Number(bytes) == IF \A i \in DOMAIN bytes : bytes[i] = "1" THEN [kind |-> "number", bytes |-> bytes] ELSE Null

NoValue == [kind |-> "none", bytes |-> <<>>]

\* The value at pos, what is appended for it, and where it ends; end + 1 if the line is
\* given up.
ReadValue(pos, end) ==
    LET close == NextQuote(pos + 1, end)
        literal == pos + 1 >= end \/ At(pos + 1) \in Delimiters
        bare == SkipBareValue(pos, end)
        nested == SkipNested(pos, end, <<>>)
        result(value, next) == [value |-> value, next |-> next]
    IN
    CASE At(pos) = Quote ->
            IF close = end THEN result(NoValue, end + 1)
            ELSE result([kind |-> "str", bytes |-> DecodeJsonEscapes(Slice(pos + 1, close))], close + 1)
      [] At(pos) \in {"{", "["} -> result([kind |-> "str", bytes |-> Slice(pos, nested)], nested)
      [] At(pos) = "T" ->
            IF literal THEN result([kind |-> "bool", bytes |-> <<"T">>], pos + 1) ELSE result(NoValue, bare)
      [] At(pos) = "N" -> IF literal THEN result(Null, pos + 1) ELSE result(NoValue, bare)
      [] OTHER -> result(Number(Slice(pos, bare)), bare)

\* The loop over the key-value pairs: the fields of the line, from pos on.
RECURSIVE ReadPairs(_, _)
ReadPairs(from, end) ==
    LET pos == SkipWhitespace(from, end)
        key_end == NextQuote(pos + 1, end)
        colon == SkipWhitespace(key_end + 1, end)
        start == SkipWhitespace(colon + 1, end)
        read == ReadValue(start, end)
        comma == SkipWhitespace(read.next, end)
        field == [key |-> DecodeJsonEscapes(Slice(pos + 1, key_end)), value |-> read.value]
    IN
    IF pos >= end THEN <<>>
    ELSE IF At(pos) # Quote \/ key_end = end THEN <<>>
    ELSE IF colon >= end THEN <<>>
    ELSE IF At(colon) # ":" \/ start >= end THEN <<>>
    ELSE IF read.next > end THEN <<>>
    ELSE <<field>> \o ReadPairs(IF comma < end /\ At(comma) = "," THEN comma + 1 ELSE comma, end)

LineFields(start, end) ==
    LET pos == SkipWhitespace(start, end)
    IN  IF pos < end /\ At(pos) = "{" THEN ReadPairs(pos + 1, end) ELSE <<>>

\* The predicate sees the first value of its field.
PredicateHolds(fields) ==
    LET places == {i \in DOMAIN fields : fields[i].key = config.predicate /\ fields[i].value # NoValue}
    IN  config.predicate = NoKey \/ (places # {} /\ fields[Min(places)].value # Null)

\* scan_line and scan_line_with_predicate: the names are resolved as the fields are read;
\* a row the predicate drops is not begun.
ScanLine ==
    LET start == Head(line_ranges)[1]
        end == Head(line_ranges)[2]
        all == LineFields(start, end)
        fields == SelectSeq(all, LAMBDA f : f.key \in config.wanted /\ f.value # NoValue)
        resolved == FoldLeft(LAMBDA b, f : ResolveField(b, f.key), builder, fields)
        begun == IF config.line_field = NoKey THEN BeginRow(resolved)
                 ELSE AppendLine(BeginRow(resolved), Slice(start, end))
        filled == FoldLeft(LAMBDA b, f : AppendValue(b, f.key, f.value), begun, fields)
    IN
    /\ phase = "lines" /\ line_ranges # <<>>
    /\ builder' = IF PredicateHolds(all) THEN EndRow(filled) ELSE resolved
    /\ line_ranges' = Tail(line_ranges)
    /\ UNCHANGED <<config, docs, buf, phase, block_idx, maskVars, line_start, table, batches>>

FinishScan ==
    /\ phase = "lines" /\ line_ranges = <<>>
    /\ table' = FinishBatch(builder, config.line_field)
    /\ builder' = [builder EXCEPT !.state = "Idle"]
    /\ phase' = "idle"
    /\ UNCHANGED <<config, docs, buf, block_idx, maskVars, line_start, line_ranges, batches>>

-----------------------------------------------------------------------------

Init ==
    /\ docs = <<>> /\ buf = <<>> /\ phase = "idle" /\ block_idx = 0
    /\ odd = FALSE /\ inside = FALSE
    /\ real_quotes = {} /\ opens = {} /\ closes = {}
    /\ line_start = 0 /\ line_ranges = <<>>
    /\ builder = NewBuilder
    /\ table = NoTable
    /\ config \in Configs
    /\ batches = 0

Next ==
    \/ \E input \in Inputs, ending \in Endings, pad \in Pads : BeginScan(input, ending, pad)
    \/ ClassifyBlock
    \/ BlocksDone
    \/ ScanLine
    \/ FinishScan

Spec == Init /\ [][Next]_vars

-----------------------------------------------------------------------------

\* The quotes of a text that an even number of backslashes, if any, comes before.
PlainQuotes(bytes) ==
    LET run(i) == i - 1 - Max({j \in 0 .. i - 1 : j = 0 \/ bytes[j] # Backslash})
    IN  {i \in DOMAIN bytes : bytes[i] = Quote /\ run(i) % 2 = 0}

\* The stored bitmasks say of every byte so far what reading the buffer byte by byte would
\* say, wherever the blocks are cut: a quote counts unless an odd number of backslashes
\* comes before it, and a bracket unless an odd number of such quotes does.
MasksMatchBytes ==
    LET done == 0 .. Min({Len(buf), block_idx * Width}) - 1
        quotes == {i - 1 : i \in PlainQuotes(buf)}
        outside(symbols) ==
            {p \in done : At(p) \in symbols /\ Cardinality({q \in quotes : q < p}) % 2 = 0}
    IN  /\ real_quotes = quotes \intersect done
        /\ opens = outside({"{", "["})
        /\ closes = outside({"}", "]"})

KeptDocs == SelectSeq(docs, Kept)

TableHoldsDocuments ==
    /\ table.rows = Len(KeptDocs)
    /\ table.cells =
          {<<row, key, First(KeptDocs[row + 1], key)>> :
              <<row, key>> \in {<<r, k>> \in (0 .. Len(KeptDocs) - 1) \X (config.wanted \ {config.line_field}) :
                                   First(KeptDocs[r + 1], k) # Null}}

\* No string is left open at the end of the line.
Balanced(doc) == Cardinality(PlainQuotes(DocText(doc))) % 2 = 0

\* When no line leaves a string open, the table of a scanned buffer holds exactly the
\* fields of its documents, row by row: whatever the blocks cut, whatever the strings hold,
\* the first value of a repeated key, and nothing of an earlier buffer.  For keys beyond
\* the bitmask this is what the builder does; dev-docs/SCANNER_CONTRACT.md promises less.
ScanKeepsFields ==
    phase = "idle" /\ batches > 0 /\ (\A i \in DOMAIN docs : Balanced(docs[i])) => TableHoldsDocuments

\* The same without the condition: every line is scanned on its own.
LinesAreIndependent == phase = "idle" /\ batches > 0 => TableHoldsDocuments

\* "since idx >= 64 bypasses dup detection, the second write (999) overwrites": a repeated
\* key in a column beyond the bitmask has its last value.
SecondWriteOverwrites ==
    phase = "idle" /\ batches > 0 =>
       \A row \in 0 .. Len(KeptDocs) - 1 :
          LET doc == KeptDocs[row + 1]
              fields == IF doc.kind = "text" THEN <<>> ELSE doc.fields
          IN  \A i, j \in DOMAIN fields :
                 /\ i < j /\ fields[i].key = fields[j].key
                 /\ fields[j].key \in config.wanted \ {config.line_field}
                 /\ IndexOf(builder, fields[j].key) > DedupBits
                 => <<row, fields[j].key, Stored(fields[j].value)>> \in table.cells
=============================================================================
