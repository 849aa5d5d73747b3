--------------------------- MODULE StructuralIndex ---------------------------
(***************************************************************************)
(* The streaming structural classifier of crates/ffwd-core/src/            *)
(* structural.rs: bitmasks of one block of Width bytes (64 in the code),   *)
(* with two carries from block to block.  A bitmask is the set of the      *)
(* positions of its bits; a byte is one of the symbols below.              *)
(***************************************************************************)
EXTENDS Integers, Sequences, SequencesExt

CONSTANT Width          \* bytes of a block

ASSUME WidthAssumption == Width \in Nat \ {0}

Quote == "quote"
Backslash == "\\"
Newline == "nl"
Return == "cr"
Space == "sp"

Bits == 0 .. Width - 1

Xor(a, b) == (a \ b) \union (b \ a)

ShiftLeft(bits, by) == {i + by : i \in bits} \intersect Bits

-----------------------------------------------------------------------------

\* The loop over the backslashes: each one escapes the next byte, and an escaped
\* backslash escapes nothing.
RECURSIVE Escape(_, _)
Escape(bs, escaped) ==
    IF bs = {} THEN escaped
    ELSE LET pos == Min(bs)
         IN  Escape(bs \ {pos, pos + 1}, escaped \union ({pos + 1} \intersect Bits))

\* compute_real_quotes: the quotes that are not escaped, and the carry to the next block.
ComputeRealQuotes(quotes, bs, prev_odd_backslash) ==
    LET first == IF prev_odd_backslash THEN {0} ELSE {}
        escaped == Escape(bs \ first, first)
    IN  [real |-> quotes \ escaped,
         carry |-> Width - 1 \in bs /\ Width - 1 \notin escaped]

\* prefix_xor: bit i is the parity of the bits up to and including i.
Shifts == SetToSortSeq({2 ^ j : j \in 0 .. Width} \intersect (1 .. Width - 1), <)

PrefixXor(bits) == FoldLeft(LAMBDA x, by : Xor(x, ShiftLeft(x, by)), bits, Shifts)

\* find_structural_chars: the positions of some symbols in a block.
Mask(block, symbols) == {i \in Bits : block[i] \in symbols}

\* Mutant of ProcessBlock: the escape at the end of a block is not carried over.
ProcessBlockForgetsEscape(block, len, odd, inside) ==
    LET quotes == ComputeRealQuotes(Mask(block, {Quote}), Mask(block, {Backslash}), FALSE)
        string == Xor(PrefixXor(quotes.real), IF inside THEN Bits ELSE {})
        valid == 0 .. len - 1
    IN  [odd |-> quotes.carry,
         inside |-> Width - 1 \in string,
         real_quotes |-> quotes.real \intersect valid,
         opens |-> (Mask(block, {"{", "["}) \ (string \ quotes.real)) \intersect valid,
         closes |-> (Mask(block, {"}", "]"}) \ (string \ quotes.real)) \intersect valid,
         newline |-> Mask(block, {Newline}) \intersect valid]

\* StreamingClassifier::process_block.  Newlines are not masked by the strings.
ProcessBlock(block, len, odd, inside) ==
    LET quotes == ComputeRealQuotes(Mask(block, {Quote}), Mask(block, {Backslash}), odd)
        string == Xor(PrefixXor(quotes.real), IF inside THEN Bits ELSE {})
        in_string == string \ quotes.real
        valid == 0 .. len - 1
    IN  [odd |-> quotes.carry,
         inside |-> Width - 1 \in string,
         real_quotes |-> quotes.real \intersect valid,
         opens |-> (Mask(block, {"{", "["}) \ in_string) \intersect valid,
         closes |-> (Mask(block, {"}", "]"}) \ in_string) \intersect valid,
         newline |-> Mask(block, {Newline}) \intersect valid]
=============================================================================
