--------------------------- MODULE FileInputProofs ---------------------------
(***************************************************************************)
(* Proofs about the file input, for any numbers of names and inodes and    *)
(* any sizes of buffer, fingerprint, read and file.  The framing:          *)
(* checkpoints are ends of lines, no record is a fragment, and every byte  *)
(* that was read is accounted for.  The tailer below it: no offset is      *)
(* ahead of what was delivered, and a byte is lost only with the last      *)
(* handle and name of its file.                                            *)
(***************************************************************************)
EXTENDS FramedInput, FileTail, SequenceTheorems, WellFoundedInduction, TLAPS

-----------------------------------------------------------------------------
(* The framing.                                                            *)

(* The state of the file: each byte knows its place.                       *)
FileState ==
    /\ \A n \in DOMAIN file : file[n].gen = gen /\ file[n].pos = n
    /\ cuts \subseteq 0 .. Len(file)

InFile(b) == b.pos \in DOMAIN file /\ file[b.pos] = b

Begins(b) == b.pos - 1 \in Boundaries \/ file[b.pos - 1].kind \in Headers

(* A message in which every byte follows its predecessor or begins a line. *)
Contiguous(msg) ==
    \A i \in DOMAIN msg :
        /\ InFile(msg[i])
        /\ Begins(msg[i]) \/ (i > 1 /\ msg[i - 1].pos = msg[i].pos - 1)

(* Records; if a read is longer than the buffer they may be fragments.     *)
Messages == {m \in Seq(Byte) : MaxRead <= MaxRemainder => Contiguous(m)}

(* Pending messages, whose bytes are in partial lines.                     *)
Pendings ==
    {m \in Messages : /\ Len(m) <= MaxRemainder
                      /\ \A b \in Range(m) : InFile(b) /\ PartialLine(b.pos)}

(* The state of the source at a read position.  The tracker counts the     *)
(* bytes since the last end of a line, the remainder holds the last of     *)
(* them, as many as the buffer takes; if not all fit it is tainted.        *)
Framed(st, off) ==
    LET len  == st.tracker.remainder_len
        kept == Len(st.remainder)
    IN  /\ len <= off
        /\ off - len \in Boundaries
        /\ kept = IF len > MaxRemainder THEN MaxRemainder ELSE len
        /\ \A i \in 1 .. kept : st.remainder[i] = file[off - kept + i]
        /\ \A n \in (off - len + 1) .. off : file[n].kind # Newline
        /\ MaxRead <= MaxRemainder => (st.overflow_tainted <=> len > MaxRemainder)
        /\ st.decoder \in [Streams -> Pendings]

SourceFramed == IF source = None THEN offset \in Boundaries ELSE Framed(source, offset)

(* The stored checkpoint is the end of a line, and everything before it is *)
(* processed or belonged to a pending message.                             *)
DurableState ==
    /\ durable.gen <= gen
    /\ durable.gen = gen =>
          /\ durable.offset \in Boundaries
          /\ \A n \in 1 .. durable.offset : Processed(n) \/ PartialLine(n)

FramingInv ==
    /\ TypeOK /\ FileState /\ SourceFramed /\ DurableState
    /\ emitted \subseteq Messages
    /\ BytesAccountedFor

-----------------------------------------------------------------------------
(* Natural numbers.                                                        *)

(* Every non-empty set of naturals has a least element.                    *)
LEMMA LeastElement ==
  ASSUME NEW T \in SUBSET Nat, T # {}
  PROVE  \E x \in T : \A y \in T : x <= y
<1> DEFINE R == OpToRel(<, Nat)
<1>1. IsWellFoundedOn(R, Nat)
  BY NatLessThanWellFounded
<1>2. PICK x \in T : \A y \in T : ~(<<y, x>> \in R)
  <2> HIDE DEF R
  <2> QED BY <1>1, WFMin
<1>3. \A y \in T : ~(y < x)
  BY <1>2 DEF OpToRel
<1> QED BY <1>3

(* Induction, for a set of positions.                                      *)
LEMMA ReachesEnd ==
  ASSUME NEW n \in Nat, NEW S, 0 \in S, \A k \in 0 .. n - 1 : k \in S => k + 1 \in S
  PROVE  0 .. n \subseteq S
<1> SUFFICES ASSUME (0 .. n) \ S # {} PROVE FALSE
  OBVIOUS
<1> DEFINE T == (0 .. n) \ S
<1>1. T \in SUBSET Nat /\ T # {}
  OBVIOUS
<1>2. PICK x \in T : \A y \in T : x <= y
  <2> HIDE DEF T
  <2> QED BY <1>1, LeastElement
<1>3. x \in 0 .. n /\ x \notin S /\ x # 0
  BY <1>2
<1>4. x - 1 \in 0 .. n - 1 /\ x - 1 \in 0 .. n /\ ~(x <= x - 1) /\ (x - 1) + 1 = x
  BY <1>3
<1>5. x - 1 \in S
  BY <1>2, <1>4
<1> QED BY <1>3, <1>4, <1>5

(* The greatest of some positions.                                         *)
LEMMA MaxPosition ==
  ASSUME NEW n \in Nat, NEW S \in SUBSET (0 .. n), S # {}
  PROVE  Max(S) \in S /\ \A y \in S : y <= Max(S)
<1> DEFINE T == {k \in 0 .. n : n - k \in S}
<1>1. PICK x \in S : TRUE
  OBVIOUS
<1>2. n - x \in T /\ T \in SUBSET Nat
  BY n - (n - x) = x
<1>3. PICK t \in T : \A u \in T : t <= u
  <2> HIDE DEF T
  <2> QED BY <1>2, LeastElement
<1>4. ASSUME NEW y \in S PROVE n - t >= y
  <2>1. n - y \in T
    BY n - (n - y) = y
  <2>2. t <= n - y
    BY <1>3, <2>1
  <2> QED BY <2>2
<1>5. n - t \in S
  BY <1>3
<1> QED BY <1>4, <1>5 DEF Max

(* The least of some positions.                                            *)
LEMMA MinPosition ==
  ASSUME NEW S \in SUBSET Nat, S # {}
  PROVE  Min(S) \in S /\ \A y \in S : Min(S) <= y
<1>1. PICK x \in S : \A y \in S : x <= y
  BY LeastElement
<1> QED BY <1>1 DEF Min

-----------------------------------------------------------------------------
(* The scan of process_lines.                                              *)

Started(decoder) == [decoder |-> decoder, emitted |-> {}, discarded |-> {}]

LineStep(bytes, acc, end) ==
    IF bytes[end].kind = Newline THEN ProcessLine(acc, LineAt(bytes, end)) ELSE acc

(* The recursion of process_lines is well defined: there is a function     *)
(* that has the accumulator at each position.                              *)
LEMMA ScanDefined ==
  ASSUME NEW decoder, NEW bytes, Len(bytes) \in Nat
  PROVE  \E done : /\ done[0] = Started(decoder)
                   /\ \A end \in 1 .. Len(bytes) :
                         done[end] = LineStep(bytes, done[end - 1], end)
                   /\ ProcessLines(decoder, bytes) = done[Len(bytes)]
<1> DEFINE n == Len(bytes)
           Scan(f, m) == [end \in 0 .. m |->
                            IF end = 0 THEN Started(decoder) ELSE LineStep(bytes, f[end - 1], end)]
           S == {m \in 0 .. n : \E f : f = Scan(f, m)}
<1>1. 0 \in S
  <2> DEFINE g == [end \in 0 .. 0 |-> Started(decoder)]
  <2>1. g = Scan(g, 0)
    OBVIOUS
  <2>2. \E f : f = Scan(f, 0)
    <3> HIDE DEF g
    <3> QED BY <2>1, Zenon
  <2> QED BY <2>2
<1>2. ASSUME NEW m \in 0 .. n - 1, m \in S PROVE m + 1 \in S
  <2>1. PICK f : f = Scan(f, m)
    BY <1>2
  <2> DEFINE g == [end \in 0 .. m + 1 |-> IF end = m + 1 THEN LineStep(bytes, f[m], m + 1) ELSE f[end]]
  <2>2. ASSUME NEW end \in 0 .. m + 1
        PROVE  g[end] = IF end = 0 THEN Started(decoder) ELSE LineStep(bytes, g[end - 1], end)
    <3>1. CASE end = m + 1
      <4>1. end # 0 /\ end - 1 = m /\ m \in 0 .. m + 1 /\ m # m + 1
        BY <3>1
      <4>2. g[end] = LineStep(bytes, f[m], m + 1) /\ g[m] = f[m]
        BY <3>1, <4>1
      <4> QED BY <3>1, <4>1, <4>2
    <3>2. CASE end # m + 1
      <4>1. end \in 0 .. m /\ g[end] = f[end]
        BY <3>2
      <4>2. f[end] = IF end = 0 THEN Started(decoder) ELSE LineStep(bytes, f[end - 1], end)
        BY <2>1, <4>1
      <4>3. end # 0 => end - 1 \in 0 .. m + 1 /\ end - 1 # m + 1 /\ g[end - 1] = f[end - 1]
        BY <4>1
      <4> QED BY <4>1, <4>2, <4>3
    <3> QED BY <3>1, <3>2
  <2>3. g = Scan(g, m + 1)
    <3> HIDE DEF g
    <3>1. g = [end \in 0 .. m + 1 |-> g[end]]
      BY DEF g
    <3> QED BY <2>2, <3>1
  <2>4. m + 1 \in 0 .. n
    OBVIOUS
  <2> QED BY <2>3, <2>4
<1>3. n \in S
  <2> HIDE DEF S
  <2>1. 0 .. n \subseteq S
    BY <1>1, <1>2, ReachesEnd
  <2> QED BY <2>1
<1>4. \E f : f = Scan(f, n)
  BY <1>3
<1> DEFINE done == CHOOSE f : f = Scan(f, n)
<1>5. done = Scan(done, n)
  BY <1>4
<1>6. ProcessLines(decoder, bytes) = done[n]
  BY DEF ProcessLines, LineStep, Started
<1> HIDE DEF done
<1>7. done[0] = Started(decoder)
  BY <1>5
<1>8. ASSUME NEW end \in 1 .. n PROVE done[end] = LineStep(bytes, done[end - 1], end)
  <2>1. end \in 0 .. n /\ end # 0
    OBVIOUS
  <2> QED BY <1>5, <2>1
<1> QED BY <1>6, <1>7, <1>8

-----------------------------------------------------------------------------
(* Lines.                                                                  *)

Body(line) == FirstBytes(line, Len(line) - 1)

(* The first n elements of a sequence.                                     *)
LEMMA FirstBytesFacts ==
  ASSUME NEW S, NEW s \in Seq(S), NEW n \in Nat
  PROVE  /\ FirstBytes(s, n) \in Seq(S)
         /\ Len(FirstBytes(s, n)) = IF n < Len(s) THEN n ELSE Len(s)
         /\ \A i \in 1 .. Len(FirstBytes(s, n)) : FirstBytes(s, n)[i] = s[i]
<1> DEFINE m == IF n < Len(s) THEN n ELSE Len(s)
<1>1. Len(s) \in Nat /\ DOMAIN s = 1 .. Len(s) /\ \A i \in 1 .. Len(s) : s[i] \in S
  BY LenProperties, ElementOfSeq
<1>2. m \in Nat /\ m <= Len(s)
  BY <1>1
<1> HIDE DEF m
<1>3. \A i \in 1 .. m : s[i] \in S
  BY <1>1, <1>2
<1>4. /\ SubSeq(s, 1, m) \in Seq(S)
      /\ Len(SubSeq(s, 1, m)) = IF 1 <= m THEN m - 1 + 1 ELSE 0
      /\ \A i \in 1 .. m - 1 + 1 : SubSeq(s, 1, m)[i] = s[1 + i - 1]
  BY <1>2, <1>3, SubSeqProperties
<1>5. Len(SubSeq(s, 1, m)) = m
  BY <1>2, <1>4
<1>6. \A i \in 1 .. m : SubSeq(s, 1, m)[i] = s[i]
  <2> TAKE i \in 1 .. m
  <2>1. i \in 1 .. m - 1 + 1 /\ 1 + i - 1 = i
    BY <1>2
  <2> QED BY <1>4, <2>1
<1>7. FirstBytes(s, n) = SubSeq(s, 1, m)
  BY DEF FirstBytes, m
<1> QED BY <1>4, <1>5, <1>6, <1>7 DEF m

(* What a sequence of bytes holds.                                         *)
LEMMA RangeFacts ==
  ASSUME NEW S, NEW s \in Seq(S)
  PROVE  /\ \A b : b \in Range(s) <=> \E i \in 1 .. Len(s) : b = s[i]
         /\ Range(s) \subseteq S
<1>1. DOMAIN s = 1 .. Len(s) /\ \A i \in 1 .. Len(s) : s[i] \in S
  BY LenProperties, ElementOfSeq
<1> QED BY <1>1 DEF Range

(* The line that ends with a newline begins behind the newline before it.  *)
LEMMA LineFacts ==
  ASSUME NEW bytes \in Seq(Byte), NEW end \in NewlinesIn(bytes)
  PROVE  \E p \in 0 .. end - 1 :
            /\ p = 0 \/ p \in NewlinesIn(bytes)
            /\ \A i \in p + 1 .. end - 1 : bytes[i].kind # Newline
            /\ LineAt(bytes, end) \in Seq(Byte) /\ Len(LineAt(bytes, end)) = end - p
            /\ Body(LineAt(bytes, end)) \in Seq(Byte)
            /\ Len(Body(LineAt(bytes, end))) = end - p - 1
            /\ \A i \in 1 .. end - p - 1 : Body(LineAt(bytes, end))[i] = bytes[p + i]
<1>1. /\ Len(bytes) \in Nat /\ DOMAIN bytes = 1 .. Len(bytes)
      /\ \A i \in 1 .. Len(bytes) : bytes[i] \in Byte
  BY LenProperties, ElementOfSeq
<1>2. end \in 1 .. Len(bytes)
  BY <1>1 DEF NewlinesIn
<1> DEFINE B == {0} \cup {i \in NewlinesIn(bytes) : i < end}
<1>3. B \in SUBSET (0 .. end - 1) /\ B # {} /\ end - 1 \in Nat
  BY <1>1, <1>2 DEF NewlinesIn
<1>4. PICK p \in B : p = Max(B) /\ \A y \in B : y <= p
  <2> HIDE DEF B
  <2> QED BY <1>3, MaxPosition
<1>5. p \in 0 .. end - 1 /\ (p = 0 \/ p \in NewlinesIn(bytes))
  BY <1>3, <1>4
<1>6. ASSUME NEW i \in p + 1 .. end - 1 PROVE bytes[i].kind # Newline
  <2>1. i \in 1 .. Len(bytes) /\ i < end /\ ~(i <= p)
    BY <1>1, <1>2, <1>5
  <2>2. i \notin B
    BY <1>4, <2>1
  <2> QED BY <1>1, <2>1, <2>2 DEF NewlinesIn
<1> DEFINE line == SubSeq(bytes, p + 1, end)
<1>7. LineAt(bytes, end) = line
  BY <1>4 DEF LineAt
<1>8. p + 1 \in Int /\ end \in Int /\ \A i \in p + 1 .. end : bytes[i] \in Byte
  BY <1>1, <1>2, <1>5
<1>9. /\ line \in Seq(Byte) /\ Len(line) = IF p + 1 <= end THEN end - (p + 1) + 1 ELSE 0
      /\ \A i \in 1 .. end - (p + 1) + 1 : line[i] = bytes[(p + 1) + i - 1]
  BY <1>8, SubSeqProperties
<1> HIDE DEF line, B
<1>10. Len(line) = end - p /\ Len(line) - 1 \in Nat /\ Len(line) - 1 = end - p - 1
  BY <1>2, <1>5, <1>9
<1>11. \A i \in 1 .. end - p : line[i] = bytes[p + i]
  <2> TAKE i \in 1 .. end - p
  <2>1. i \in 1 .. end - (p + 1) + 1 /\ (p + 1) + i - 1 = p + i
    BY <1>2, <1>5
  <2> QED BY <1>9, <2>1
<1>12. /\ Body(line) \in Seq(Byte) /\ Len(Body(line)) = end - p - 1
       /\ \A i \in 1 .. Len(Body(line)) : Body(line)[i] = line[i]
  <2>1. /\ Body(line) \in Seq(Byte)
        /\ Len(Body(line)) = IF Len(line) - 1 < Len(line) THEN Len(line) - 1 ELSE Len(line)
        /\ \A i \in 1 .. Len(Body(line)) : Body(line)[i] = line[i]
    BY <1>9, <1>10, FirstBytesFacts DEF Body
  <2> QED BY <1>10, <2>1
<1>13. \A i \in 1 .. end - p - 1 : Body(line)[i] = bytes[p + i]
  <2> TAKE i \in 1 .. end - p - 1
  <2>1. i \in 1 .. end - p
    BY <1>2, <1>5
  <2> QED BY <1>11, <1>12, <2>1
<1> QED BY <1>5, <1>6, <1>7, <1>9, <1>10, <1>12, <1>13

-----------------------------------------------------------------------------
(* What a line does.                                                       *)

(* A body that turns pending messages of D into messages of D, and into    *)
(* records of E.                                                           *)
BodyIn(D, E, body) ==
    /\ format = "Passthrough" => body \in E
    /\ body # <<>> /\ body[1].kind \in Headers =>
          \A d \in D : FirstBytes(d \o Tail(body), MaxRemainder)
                         \in IF body[1].kind[1] = "full" THEN E ELSE D
    /\ body # <<>> /\ body[1].kind \notin Headers => body \in E

AccIn(D, E, acc) == acc.decoder \in [Streams -> D] /\ acc.emitted \subseteq E

(* One line keeps messages in D and records in E.                          *)
LEMMA LineStays ==
  ASSUME NEW D, NEW E, <<>> \in D, NEW acc, AccIn(D, E, acc),
         NEW line, BodyIn(D, E, Body(line))
  PROVE  AccIn(D, E, ProcessLine(acc, line))
<1> DEFINE body == Body(line)
<1>1. CASE format = "Passthrough"
  <2> DEFINE new == [decoder |-> acc.decoder, emitted |-> acc.emitted \cup {body},
                     discarded |-> acc.discarded]
  <2>1. ProcessLine(acc, line) = new
    BY <1>1 DEF ProcessLine, Body
  <2>2. body \in E
    BY <1>1 DEF BodyIn
  <2> HIDE DEF body
  <2> QED BY <2>1, <2>2 DEF AccIn
<1>2. CASE format # "Passthrough" /\ body # <<>> /\ body[1].kind \in Headers
  <2>1. PICK stream \in Streams : stream = body[1].kind[2]
    BY <1>2 DEF Headers
  <2> DEFINE whole == acc.decoder[stream] \o Tail(body)
             message == FirstBytes(whole, MaxRemainder)
             full == body[1].kind[1] = "full"
             new == [decoder   |-> [acc.decoder EXCEPT ![stream] = IF full THEN <<>> ELSE message],
                     emitted   |-> IF full THEN acc.emitted \cup {message} ELSE acc.emitted,
                     discarded |-> acc.discarded \cup (Range(whole) \ Range(message))]
  <2>2. ProcessLine(acc, line) = new
    BY <1>2, <2>1 DEF ProcessLine, DecodeCri, Body
  <2>3. acc.decoder[stream] \in D
    BY DEF AccIn
  <2>4. message \in IF full THEN E ELSE D
    BY <1>2, <2>3 DEF BodyIn
  <2> HIDE DEF body, message, full
  <2>5. new.decoder \in [Streams -> D] /\ new.emitted \subseteq E
    BY <2>4 DEF AccIn
  <2> QED BY <2>2, <2>5 DEF AccIn
<1>3. CASE format # "Passthrough" /\ ~(body # <<>> /\ body[1].kind \in Headers)
  <2> DEFINE new == [decoder   |-> ResetDecoder,
                     emitted   |-> IF format = "Auto" /\ body # <<>>
                                   THEN acc.emitted \cup {body} ELSE acc.emitted,
                     discarded |-> acc.discarded
                                   \cup (UNION {Range(acc.decoder[s]) : s \in Streams})
                                   \cup IF format = "Auto" THEN {} ELSE Range(body)]
  <2>1. ProcessLine(acc, line) = new
    BY <1>3 DEF ProcessLine, DecodeCri, Body
  <2>2. body # <<>> => body \in E
    BY <1>3 DEF BodyIn
  <2> HIDE DEF body
  <2>3. new.decoder \in [Streams -> D] /\ new.emitted \subseteq E
    BY <2>2 DEF AccIn, ResetDecoder
  <2> QED BY <2>1, <2>3 DEF AccIn
<1> QED BY <1>1, <1>2, <1>3

(* A byte that was emitted, was dropped on purpose or is pending.          *)
IsKept(acc, b) ==
    \/ b \in acc.discarded
    \/ \E record \in acc.emitted : b \in Range(record)
    \/ \E s \in Streams : b \in Range(acc.decoder[s])

(* No byte gets lost in a line: neither one that is pending nor one of the *)
(* line itself, except for its header.                                     *)
LEMMA LineKeeps ==
  ASSUME NEW acc, acc.decoder \in [Streams -> Seq(Byte)],
         NEW line, Body(line) \in Seq(Byte)
  PROVE  /\ \A b : IsKept(acc, b) => IsKept(ProcessLine(acc, line), b)
         /\ \A b \in Range(Body(line)) : b.kind \in Headers \/ IsKept(ProcessLine(acc, line), b)
<1> DEFINE body == Body(line)
<1>1. CASE format = "Passthrough"
  <2> DEFINE new == [decoder |-> acc.decoder, emitted |-> acc.emitted \cup {body},
                     discarded |-> acc.discarded]
  <2>1. ProcessLine(acc, line) = new
    BY <1>1 DEF ProcessLine, Body
  <2>2. /\ new.decoder = acc.decoder /\ new.emitted = acc.emitted \cup {body}
        /\ new.discarded = acc.discarded
    OBVIOUS
  <2> HIDE DEF new, body
  <2>3. \A b : IsKept(acc, b) => IsKept(new, b)
    BY <2>2 DEF IsKept
  <2>4. \A b \in Range(body) : IsKept(new, b)
    BY <2>2 DEF IsKept
  <2> QED BY <2>1, <2>3, <2>4 DEF body
<1>2. CASE format # "Passthrough" /\ body # <<>> /\ body[1].kind \in Headers
  <2>1. PICK stream \in Streams : stream = body[1].kind[2]
    BY <1>2 DEF Headers
  <2> DEFINE old == acc.decoder[stream]
             whole == old \o Tail(body)
             message == FirstBytes(whole, MaxRemainder)
             full == body[1].kind[1] = "full"
             new == [decoder   |-> [acc.decoder EXCEPT ![stream] = IF full THEN <<>> ELSE message],
                     emitted   |-> IF full THEN acc.emitted \cup {message} ELSE acc.emitted,
                     discarded |-> acc.discarded \cup (Range(whole) \ Range(message))]
  <2>2. ProcessLine(acc, line) = new
    BY <1>2, <2>1 DEF ProcessLine, DecodeCri, Body
  <2>3. old \in Seq(Byte) /\ Tail(body) \in Seq(Byte) /\ Len(Tail(body)) = Len(body) - 1
        /\ \A i \in 1 .. Len(Tail(body)) : Tail(body)[i] = body[i + 1]
    BY <1>2, HeadTailProperties
  <2>4. /\ whole \in Seq(Byte) /\ Len(whole) = Len(old) + Len(Tail(body))
        /\ \A i \in 1 .. Len(old) + Len(Tail(body)) :
              whole[i] = IF i <= Len(old) THEN old[i] ELSE Tail(body)[i - Len(old)]
    BY <2>3, ConcatProperties
  <2> HIDE DEF whole, old
  <2>5. Len(old) \in Nat /\ Len(body) \in Nat /\ body \in Seq(Byte)
    BY <2>3, LenProperties
  <2>6. ASSUME NEW b \in Range(old) PROVE b \in Range(whole)
    <3>1. PICK i \in 1 .. Len(old) : b = old[i]
      BY <2>3, RangeFacts
    <3>2. i \in 1 .. Len(whole) /\ whole[i] = b
      BY <2>3, <2>4, <2>5, <3>1, LenProperties
    <3> QED BY <2>4, <3>2, RangeFacts
  <2>7. ASSUME NEW b \in Range(body), b.kind \notin Headers PROVE b \in Range(whole)
    <3>1. PICK i \in 1 .. Len(body) : b = body[i]
      BY <2>5, RangeFacts
    <3>2. i # 1
      BY <1>2, <2>7, <3>1
    <3>3. i - 1 \in 1 .. Len(Tail(body)) /\ (i - 1) + 1 = i /\ Len(Tail(body)) \in Nat
      BY <2>3, <2>5, <3>2
    <3>4. Tail(body)[i - 1] = b
      BY <2>3, <3>1, <3>3
    <3>5. /\ Len(old) + (i - 1) \in 1 .. Len(old) + Len(Tail(body))
          /\ ~(Len(old) + (i - 1) <= Len(old)) /\ (Len(old) + (i - 1)) - Len(old) = i - 1
      BY <2>5, <3>3
    <3>6. whole[Len(old) + (i - 1)] = b
      BY <2>4, <3>4, <3>5
    <3> QED BY <2>4, <3>5, <3>6, RangeFacts
  <2> HIDE DEF body, message, full
  <2>8. ASSUME NEW b \in Range(whole) PROVE IsKept(new, b)
    <3>1. CASE b \notin Range(message)
      BY <2>8, <3>1 DEF IsKept
    <3>2. CASE b \in Range(message) /\ full
      BY <3>2 DEF IsKept
    <3>3. CASE b \in Range(message) /\ ~full
      <4>1. new.decoder[stream] = message
        BY <3>3
      <4> QED BY <3>3, <4>1 DEF IsKept
    <3> QED BY <3>1, <3>2, <3>3
  <2>9. ASSUME NEW b, IsKept(acc, b) PROVE IsKept(new, b)
    <3>1. CASE b \in acc.discarded
      BY <3>1 DEF IsKept
    <3>2. CASE \E record \in acc.emitted : b \in Range(record)
      BY <3>2 DEF IsKept
    <3>3. ASSUME NEW s \in Streams, b \in Range(acc.decoder[s]) PROVE IsKept(new, b)
      <4>1. CASE s = stream
        BY <2>6, <2>8, <3>3, <4>1 DEF old
      <4>2. CASE s # stream
        <5>1. new.decoder[s] = acc.decoder[s]
          BY <4>2
        <5> QED BY <3>3, <5>1 DEF IsKept
      <4> QED BY <4>1, <4>2
    <3> QED BY <2>9, <3>1, <3>2, <3>3 DEF IsKept
  <2> HIDE DEF new
  <2> QED BY <2>2, <2>7, <2>8, <2>9 DEF body
<1>3. CASE format # "Passthrough" /\ ~(body # <<>> /\ body[1].kind \in Headers)
  <2> DEFINE new == [decoder   |-> ResetDecoder,
                     emitted   |-> IF format = "Auto" /\ body # <<>>
                                   THEN acc.emitted \cup {body} ELSE acc.emitted,
                     discarded |-> acc.discarded
                                   \cup (UNION {Range(acc.decoder[s]) : s \in Streams})
                                   \cup IF format = "Auto" THEN {} ELSE Range(body)]
  <2>1. ProcessLine(acc, line) = new
    BY <1>3 DEF ProcessLine, DecodeCri, Body
  <2>2. body = <<>> => Range(body) = {}
    BY DEF Range
  <2> HIDE DEF body
  <2>3. \A b : IsKept(acc, b) => IsKept(new, b)
    BY DEF IsKept
  <2>4. ASSUME NEW b \in Range(body) PROVE IsKept(new, b)
    <3>1. CASE format = "Auto"
      <4>1. body # <<>> /\ body \in new.emitted
        BY <2>2, <2>4, <3>1
      <4> QED BY <2>4, <4>1 DEF IsKept
    <3>2. CASE format # "Auto"
      <4>1. b \in new.discarded
        <5> DEFINE pending == UNION {Range(acc.decoder[s]) : s \in Streams}
        <5>1. new.discarded = acc.discarded \cup pending \cup Range(body)
          BY <3>2
        <5> HIDE DEF new, pending
        <5> QED BY <2>4, <5>1
      <4> QED BY <4>1 DEF IsKept
    <3> QED BY <3>1, <3>2
  <2> HIDE DEF new
  <2> QED BY <2>1, <2>3, <2>4 DEF body
<1> QED BY <1>1, <1>2, <1>3

-----------------------------------------------------------------------------
(* What all lines of a chunk do.                                           *)

(* The lines keep messages in D and records in E.                          *)
LEMMA LinesStay ==
  ASSUME NEW D, NEW E, <<>> \in D, NEW decoder \in [Streams -> D], NEW bytes \in Seq(Byte),
         \A end \in NewlinesIn(bytes) : BodyIn(D, E, Body(LineAt(bytes, end)))
  PROVE  AccIn(D, E, ProcessLines(decoder, bytes))
<1> DEFINE n == Len(bytes)
<1>1. n \in Nat /\ DOMAIN bytes = 1 .. n
  BY LenProperties
<1>2. PICK done : /\ done[0] = Started(decoder)
                  /\ \A end \in 1 .. n : done[end] = LineStep(bytes, done[end - 1], end)
                  /\ ProcessLines(decoder, bytes) = done[n]
  BY <1>1, ScanDefined
<1> DEFINE S == {end \in 0 .. n : AccIn(D, E, done[end])}
<1>3. 0 \in S
  <2>1. AccIn(D, E, Started(decoder))
    BY DEF AccIn, Started
  <2> QED BY <1>1, <1>2, <2>1
<1>4. ASSUME NEW k \in 0 .. n - 1, k \in S PROVE k + 1 \in S
  <2>1. k + 1 \in 1 .. n /\ (k + 1) - 1 = k /\ k + 1 \in 0 .. n
    BY <1>1
  <2>2. done[k + 1] = LineStep(bytes, done[k], k + 1) /\ AccIn(D, E, done[k])
    BY <1>2, <1>4, <2>1
  <2>3. CASE bytes[k + 1].kind = Newline
    <3>1. k + 1 \in NewlinesIn(bytes)
      BY <1>1, <2>1, <2>3 DEF NewlinesIn
    <3>2. BodyIn(D, E, Body(LineAt(bytes, k + 1)))
      BY <3>1
    <3>3. AccIn(D, E, ProcessLine(done[k], LineAt(bytes, k + 1)))
      BY <2>2, <3>2, LineStays
    <3> QED BY <2>1, <2>2, <2>3, <3>3 DEF LineStep
  <2>4. CASE bytes[k + 1].kind # Newline
    BY <2>1, <2>2, <2>4 DEF LineStep
  <2> QED BY <2>3, <2>4
<1>5. 0 .. n \subseteq S
  <2> HIDE DEF S, n
  <2> QED BY <1>1, <1>3, <1>4, ReachesEnd
<1>6. n \in S
  BY <1>1, <1>5
<1> QED BY <1>2, <1>6

(* Messages and records are sequences of bytes.                            *)
LEMMA BodyTyped ==
  ASSUME NEW body \in Seq(Byte)
  PROVE  BodyIn(Seq(Byte), Seq(Byte), body)
<1>1. ASSUME NEW d \in Seq(Byte), body # <<>>
      PROVE  FirstBytes(d \o Tail(body), MaxRemainder) \in Seq(Byte)
  <2>1. Tail(body) \in Seq(Byte)
    BY <1>1, HeadTailProperties
  <2>2. d \o Tail(body) \in Seq(Byte)
    BY <2>1, ConcatProperties
  <2> QED BY <2>2, FramingAssumptions, FirstBytesFacts
<1> QED BY <1>1 DEF BodyIn

Settled(acc, b) == b.kind = Newline \/ b.kind \in Headers \/ IsKept(acc, b)

(* No byte gets lost in a chunk of lines, nor one that is pending.         *)
LEMMA LinesKeep ==
  ASSUME NEW decoder \in [Streams -> Seq(Byte)], NEW bytes \in Seq(Byte),
         bytes # <<>> => bytes[Len(bytes)].kind = Newline
  PROVE  /\ \A s \in Streams : \A b \in Range(decoder[s]) :
               IsKept(ProcessLines(decoder, bytes), b)
         /\ \A i \in 1 .. Len(bytes) : Settled(ProcessLines(decoder, bytes), bytes[i])
<1> DEFINE n == Len(bytes)
           T == Seq(Byte)
<1>1. n \in Nat /\ DOMAIN bytes = 1 .. n /\ <<>> \in T
  BY LenProperties, EmptySeq
<1>2. PICK done : /\ done[0] = Started(decoder)
                  /\ \A end \in 1 .. n : done[end] = LineStep(bytes, done[end - 1], end)
                  /\ ProcessLines(decoder, bytes) = done[n]
  BY <1>1, ScanDefined
<1> DEFINE Pending(e) == \A s \in Streams : \A b \in Range(decoder[s]) : IsKept(done[e], b)
           Lines(e) == \A end \in 1 .. e : bytes[end].kind = Newline =>
                          \A i \in 1 .. end : Settled(done[e], bytes[i])
           S == {e \in 0 .. n : AccIn(T, T, done[e]) /\ Pending(e) /\ Lines(e)}
<1>3. 0 \in S
  <2>1. AccIn(T, T, Started(decoder))
    BY DEF AccIn, Started
  <2>2. Pending(0)
    BY <1>2 DEF IsKept, Started
  <2>3. Lines(0)
    OBVIOUS
  <2> QED BY <1>1, <1>2, <2>1, <2>2, <2>3
<1>4. ASSUME NEW k \in 0 .. n - 1, k \in S PROVE k + 1 \in S
  <2>1. k + 1 \in 1 .. n /\ (k + 1) - 1 = k /\ k + 1 \in 0 .. n /\ k \in Nat
    BY <1>1
  <2>2. done[k + 1] = LineStep(bytes, done[k], k + 1)
    BY <1>2, <2>1
  <2>3. AccIn(T, T, done[k]) /\ Pending(k) /\ Lines(k)
    BY <1>4
  <2>4. CASE bytes[k + 1].kind # Newline
    <3>1. done[k + 1] = done[k]
      BY <2>2, <2>4 DEF LineStep
    <3>2. Lines(k + 1)
      <4> SUFFICES ASSUME NEW end \in 1 .. k + 1, bytes[end].kind = Newline
                   PROVE  \A i \in 1 .. end : Settled(done[k + 1], bytes[i])
        OBVIOUS
      <4>1. end \in 1 .. k
        BY <2>1, <2>4
      <4> QED BY <2>3, <3>1, <4>1
    <3>3. AccIn(T, T, done[k + 1]) /\ Pending(k + 1)
      BY <2>3, <3>1
    <3> QED BY <2>1, <3>2, <3>3
  <2>5. CASE bytes[k + 1].kind = Newline
    <3> DEFINE line == LineAt(bytes, k + 1)
               body == Body(line)
    <3>1. k + 1 \in NewlinesIn(bytes)
      BY <1>1, <2>1, <2>5 DEF NewlinesIn
    <3>2. PICK p \in 0 .. (k + 1) - 1 :
             /\ p = 0 \/ p \in NewlinesIn(bytes)
             /\ body \in Seq(Byte) /\ Len(body) = (k + 1) - p - 1
             /\ \A i \in 1 .. (k + 1) - p - 1 : body[i] = bytes[p + i]
      BY <3>1, LineFacts
    <3> HIDE DEF line
    <3>3. done[k + 1] = ProcessLine(done[k], line)
      BY <2>2, <2>5 DEF LineStep, line
    <3>4. AccIn(T, T, done[k + 1])
      <4>1. BodyIn(T, T, Body(line))
        BY <3>2, BodyTyped
      <4>2. <<>> \in T /\ AccIn(T, T, done[k])
        BY <1>1, <2>3
      <4> HIDE DEF T
      <4>3. AccIn(T, T, ProcessLine(done[k], line))
        BY ONLY <4>1, <4>2, LineStays
      <4> QED BY <3>3, <4>3
    <3>5. /\ \A b : IsKept(done[k], b) => IsKept(done[k + 1], b)
          /\ \A b \in Range(body) : b.kind \in Headers \/ IsKept(done[k + 1], b)
      <4>1. done[k].decoder \in [Streams -> Seq(Byte)]
        BY <2>3 DEF AccIn
      <4>2. Body(line) \in Seq(Byte)
        BY <3>2
      <4>3. /\ \A b : IsKept(done[k], b) => IsKept(ProcessLine(done[k], line), b)
            /\ \A b \in Range(Body(line)) :
                  b.kind \in Headers \/ IsKept(ProcessLine(done[k], line), b)
        BY ONLY <4>1, <4>2, LineKeeps
      <4> QED BY <3>3, <4>3
    <3> HIDE DEF body
    <3>6. Pending(k + 1)
      BY <2>3, <3>5
    <3>7. ASSUME NEW i \in 1 .. k + 1 PROVE Settled(done[k + 1], bytes[i])
      <4>1. CASE i = k + 1
        BY <2>5, <4>1 DEF Settled
      <4>2. CASE i <= p
        <5>1. p \in 1 .. k /\ bytes[p].kind = Newline /\ i \in 1 .. p
          BY <2>1, <3>2, <4>2 DEF NewlinesIn
        <5>2. Settled(done[k], bytes[i])
          BY <2>3, <5>1
        <5> QED BY <3>5, <5>2 DEF Settled
      <4>3. CASE p < i /\ i < k + 1
        <5>1. i - p \in 1 .. (k + 1) - p - 1 /\ p + (i - p) = i
          BY <2>1, <3>2, <4>3
        <5>2. body[i - p] = bytes[i]
          BY <3>2, <5>1
        <5>3. bytes[i] \in Range(body)
          BY <3>2, <5>1, <5>2, RangeFacts
        <5> QED BY <3>5, <5>3 DEF Settled
      <4> QED BY <2>1, <3>2, <4>1, <4>2, <4>3
    <3>8. Lines(k + 1)
      <4> SUFFICES ASSUME NEW end \in 1 .. k + 1, NEW i \in 1 .. end
                   PROVE  Settled(done[k + 1], bytes[i])
        OBVIOUS
      <4>1. i \in 1 .. k + 1
        BY <2>1
      <4> QED BY <3>7, <4>1
    <3> QED BY <2>1, <3>4, <3>6, <3>8
  <2> QED BY <2>4, <2>5
<1>5. 0 .. n \subseteq S
  <2> HIDE DEF S, n
  <2> QED BY <1>1, <1>3, <1>4, ReachesEnd
<1>6. n \in S
  BY <1>1, <1>5
<1>7. Pending(n) /\ Lines(n)
  BY <1>6
<1>8. ASSUME NEW i \in 1 .. n PROVE Settled(done[n], bytes[i])
  <2>1. bytes # <<>> /\ n \in 1 .. n
    BY <1>1
  <2> QED BY <1>7, <2>1
<1> QED BY <1>2, <1>7, <1>8

-----------------------------------------------------------------------------
(* Messages.                                                               *)

(* The first bytes of a contiguous message.                                *)
LEMMA ContiguousFirst ==
  ASSUME NEW m \in Seq(Byte), Contiguous(m), NEW n \in Nat
  PROVE  Contiguous(FirstBytes(m, n))
<1> DEFINE f == FirstBytes(m, n)
<1>1. /\ f \in Seq(Byte) /\ Len(f) = IF n < Len(m) THEN n ELSE Len(m)
      /\ \A i \in 1 .. Len(f) : f[i] = m[i]
  BY FirstBytesFacts
<1>2. Len(m) \in Nat /\ DOMAIN m = 1 .. Len(m) /\ DOMAIN f = 1 .. Len(f) /\ Len(f) \in Nat
  BY <1>1, LenProperties
<1> HIDE DEF f
<1>3. ASSUME NEW i \in 1 .. Len(f)
      PROVE  InFile(f[i]) /\ (Begins(f[i]) \/ (i > 1 /\ f[i - 1].pos = f[i].pos - 1))
  <2>1. i \in 1 .. Len(m) /\ f[i] = m[i]
    BY <1>1, <1>2
  <2>2. i > 1 => i - 1 \in 1 .. Len(f) /\ f[i - 1] = m[i - 1]
    BY <1>1, <1>2
  <2>3. InFile(m[i]) /\ (Begins(m[i]) \/ (i > 1 /\ m[i - 1].pos = m[i].pos - 1))
    BY <1>2, <2>1 DEF Contiguous
  <2> QED BY <2>1, <2>2, <2>3
<1> QED BY <1>2, <1>3 DEF Contiguous, f

(* Two contiguous messages one after the other.                            *)
LEMMA ContiguousConcat ==
  ASSUME NEW d \in Seq(Byte), NEW t \in Seq(Byte), Contiguous(d), Contiguous(t)
  PROVE  Contiguous(d \o t)
<1> DEFINE w == d \o t
<1>1. /\ w \in Seq(Byte) /\ Len(w) = Len(d) + Len(t)
      /\ \A i \in 1 .. Len(d) + Len(t) : w[i] = IF i <= Len(d) THEN d[i] ELSE t[i - Len(d)]
  BY ConcatProperties
<1>2. /\ Len(d) \in Nat /\ Len(t) \in Nat /\ DOMAIN d = 1 .. Len(d) /\ DOMAIN t = 1 .. Len(t)
      /\ DOMAIN w = 1 .. Len(d) + Len(t)
  BY <1>1, LenProperties
<1> HIDE DEF w
<1>3. ASSUME NEW i \in 1 .. Len(d) + Len(t)
      PROVE  InFile(w[i]) /\ (Begins(w[i]) \/ (i > 1 /\ w[i - 1].pos = w[i].pos - 1))
  <2>1. CASE i <= Len(d)
    <3>1. i \in 1 .. Len(d) /\ w[i] = d[i]
      BY <1>1, <1>2, <2>1
    <3>2. i > 1 => i - 1 \in 1 .. Len(d) + Len(t) /\ i - 1 <= Len(d)
      BY <1>2, <2>1
    <3>3. i > 1 => w[i - 1] = d[i - 1]
      BY <1>1, <3>2
    <3>4. InFile(d[i]) /\ (Begins(d[i]) \/ (i > 1 /\ d[i - 1].pos = d[i].pos - 1))
      BY <1>2, <3>1 DEF Contiguous
    <3> QED BY <3>1, <3>3, <3>4
  <2>2. CASE ~(i <= Len(d))
    <3> DEFINE j == i - Len(d)
    <3>1. j \in 1 .. Len(t) /\ w[i] = t[j]
      BY <1>1, <1>2, <2>2
    <3>2. j > 1 => i - 1 \in 1 .. Len(d) + Len(t) /\ ~(i - 1 <= Len(d)) /\ (i - 1) - Len(d) = j - 1
      BY <1>2, <2>2
    <3>3. j > 1 => w[i - 1] = t[j - 1] /\ i > 1
      BY <1>1, <1>2, <3>2
    <3> HIDE DEF j
    <3>4. InFile(t[j]) /\ (Begins(t[j]) \/ (j > 1 /\ t[j - 1].pos = t[j].pos - 1))
      BY <1>2, <3>1 DEF Contiguous
    <3> QED BY <3>1, <3>3, <3>4
  <2> QED BY <2>1, <2>2
<1> QED BY <1>2, <1>3 DEF Contiguous, w

(* A piece of the file in which the first byte begins a line or follows a  *)
(* header.                                                                 *)
LEMMA PieceContiguous ==
  ASSUME file \in Seq(Byte), FileState, NEW m \in Seq(Byte), NEW a \in Nat,
         a + Len(m) <= Len(file), \A i \in 1 .. Len(m) : m[i] = file[a + i],
         Len(m) > 0 => a \in Boundaries \/ file[a].kind \in Headers
  PROVE  /\ Contiguous(m)
         /\ \A i \in 1 .. Len(m) : InFile(m[i]) /\ m[i].pos = a + i
<1>1. Len(m) \in Nat /\ DOMAIN m = 1 .. Len(m) /\ Len(file) \in Nat /\ DOMAIN file = 1 .. Len(file)
  BY LenProperties
<1>2. ASSUME NEW i \in 1 .. Len(m) PROVE InFile(m[i]) /\ m[i].pos = a + i
  <2>1. a + i \in 1 .. Len(file) /\ m[i] = file[a + i]
    BY <1>1
  <2> QED BY <1>1, <2>1 DEF FileState, InFile
<1>3. ASSUME NEW i \in 1 .. Len(m)
      PROVE  Begins(m[i]) \/ (i > 1 /\ m[i - 1].pos = m[i].pos - 1)
  <2>1. CASE i = 1
    <3>1. m[i].pos - 1 = a /\ Len(m) > 0
      BY <1>1, <1>2, <2>1
    <3> QED BY <3>1 DEF Begins
  <2>2. CASE i # 1
    <3>1. i - 1 \in 1 .. Len(m) /\ a + (i - 1) = (a + i) - 1 /\ i > 1
      BY <1>1, <2>2
    <3>2. m[i - 1].pos = a + (i - 1) /\ m[i].pos = a + i
      BY <1>2, <3>1
    <3> QED BY <3>1, <3>2
  <2> QED BY <2>1, <2>2
<1> QED BY <1>1, <1>2, <1>3 DEF Contiguous

(* A line of the file makes a record, extends a pending message, or        *)
(* completes one.                                                          *)
LEMMA BodyOfFile ==
  ASSUME file \in Seq(Byte), FileState, NEW body \in Seq(Byte), NEW a \in Nat,
         a + Len(body) <= Len(file), \A i \in 1 .. Len(body) : body[i] = file[a + i],
         \A i \in 1 .. Len(body) : body[i].kind # Newline,
         MaxRead <= MaxRemainder /\ Len(body) > 0 => a \in Boundaries
  PROVE  BodyIn(Pendings, Messages, body)
<1>1. Len(body) \in Nat /\ DOMAIN body = 1 .. Len(body) /\ Len(file) \in Nat
      /\ DOMAIN file = 1 .. Len(file) /\ MaxRemainder \in Nat
  BY LenProperties, FramingAssumptions
<1>2. body \in Messages
  <2>1. MaxRead <= MaxRemainder => Contiguous(body)
    BY PieceContiguous
  <2> QED BY <2>1 DEF Messages
<1>3. ASSUME body # <<>>, body[1].kind \in Headers, NEW d \in Pendings
      PROVE  FirstBytes(d \o Tail(body), MaxRemainder)
                \in IF body[1].kind[1] = "full" THEN Messages ELSE Pendings
  <2> DEFINE t == Tail(body)
             w == d \o t
             f == FirstBytes(w, MaxRemainder)
  <2>1. /\ t \in Seq(Byte) /\ Len(t) = Len(body) - 1
        /\ \A i \in 1 .. Len(t) : t[i] = body[i + 1]
    BY <1>3, HeadTailProperties
  <2>2. Len(body) > 0 /\ body[1] = file[a + 1] /\ Len(t) \in Nat
    BY <1>1, <1>3, <2>1, EmptySeq, LenProperties
  <2>3. a + 1 \in Nat /\ (a + 1) + Len(t) <= Len(file) /\ file[a + 1].kind \in Headers
    BY <1>1, <1>3, <2>1, <2>2
  <2>4. ASSUME NEW i \in 1 .. Len(t) PROVE t[i] = file[(a + 1) + i]
    <3>1. i + 1 \in 1 .. Len(body) /\ a + (i + 1) = (a + 1) + i
      BY <1>1, <2>1, <2>2
    <3> QED BY <2>1, <3>1
  <2> HIDE DEF t
  <2>5. Contiguous(t) /\ \A i \in 1 .. Len(t) : InFile(t[i]) /\ t[i].pos = (a + 1) + i
    BY <2>1, <2>3, <2>4, PieceContiguous
  <2>6. d \in Seq(Byte) /\ (MaxRead <= MaxRemainder => Contiguous(d)) /\ Len(d) \in Nat
        /\ \A b \in Range(d) : InFile(b) /\ PartialLine(b.pos)
    BY LenProperties DEF Pendings, Messages
  <2>7. /\ w \in Seq(Byte) /\ Len(w) = Len(d) + Len(t)
        /\ \A i \in 1 .. Len(d) + Len(t) : w[i] = IF i <= Len(d) THEN d[i] ELSE t[i - Len(d)]
    <3>1. d \in Seq(Byte) /\ t \in Seq(Byte)
      BY <2>1, <2>6
    <3> QED BY ONLY <3>1, ConcatProperties DEF w
  <2>8. MaxRead <= MaxRemainder => Contiguous(w)
    BY <2>1, <2>5, <2>6, ContiguousConcat
  <2> HIDE DEF w
  <2>9. /\ f \in Seq(Byte) /\ Len(f) = IF MaxRemainder < Len(w) THEN MaxRemainder ELSE Len(w)
        /\ \A i \in 1 .. Len(f) : f[i] = w[i]
    BY <1>1, <2>7, FirstBytesFacts
  <2>10. MaxRead <= MaxRemainder => Contiguous(f)
    BY <1>1, <2>7, <2>8, ContiguousFirst
  <2> HIDE DEF f
  <2>11. f \in Messages /\ Len(f) <= MaxRemainder /\ Len(f) \in Nat /\ Len(f) <= Len(w)
    BY <1>1, <2>1, <2>2, <2>6, <2>7, <2>9, <2>10 DEF Messages
  <2>12. ASSUME body[1].kind[1] # "full", NEW b \in Range(f)
         PROVE  InFile(b) /\ PartialLine(b.pos)
    <3>1. PICK i \in 1 .. Len(f) : b = f[i]
      BY <2>9, RangeFacts
    <3>2. i \in 1 .. Len(d) + Len(t) /\ b = w[i]
      BY <2>2, <2>6, <2>7, <2>9, <2>11, <3>1
    <3>3. CASE i <= Len(d)
      <4>1. i \in 1 .. Len(d) /\ b = d[i]
        BY <2>6, <2>7, <3>2, <3>3
      <4>2. b \in Range(d)
        BY <2>6, <4>1, RangeFacts
      <4> QED BY <2>6, <4>2
    <3>4. CASE ~(i <= Len(d))
      <4>1. PICK j \in 1 .. Len(t) : b = t[j]
        <5>1. i - Len(d) \in 1 .. Len(t) /\ b = t[i - Len(d)]
          BY <2>2, <2>6, <2>7, <3>2, <3>4
        <5> QED BY <5>1
      <4>2. InFile(b) /\ b.pos = (a + 1) + j
        BY <2>5, <4>1
      <4>3. file[a + 1].kind[1] = "partial"
        BY <2>2, <2>3, <2>12 DEF Headers
      <4>4. a + 1 \in 1 .. (a + 1) + j
        BY <1>1
      <4>5. ASSUME NEW k \in a + 1 .. ((a + 1) + j) - 1 PROVE file[k].kind # Newline
        <5>1. k - a \in 1 .. Len(body) /\ a + (k - a) = k
          BY <1>1, <2>1
        <5>2. body[k - a] = file[k]
          BY <5>1
        <5> QED BY <5>1, <5>2
      <4>6. PartialLine((a + 1) + j)
        BY <4>3, <4>4, <4>5 DEF PartialLine
      <4> QED BY <4>2, <4>6
    <3> QED BY <2>6, <3>2, <3>3, <3>4
  <2>13. CASE body[1].kind[1] = "full"
    BY <2>11, <2>13 DEF f, w, t
  <2>14. CASE body[1].kind[1] # "full"
    <3>1. f \in Pendings
      BY <2>11, <2>12, <2>14 DEF Pendings
    <3> QED BY <2>14, <3>1 DEF f, w, t
  <2> QED BY <2>13, <2>14
<1> QED BY <1>2, <1>3 DEF BodyIn

(* Nothing is a pending message.                                           *)
LEMMA EmptyPending ==
  <<>> \in Pendings /\ <<>> \in Seq(Byte) /\ Range(<<>>) = {} /\ Len(<<>>) = 0
<1>1. <<>> \in Seq(Byte) /\ Len(<<>>) = 0 /\ MaxRemainder \in Nat
  BY EmptySeq, FramingAssumptions
<1>2. Range(<<>>) = {}
  <2>1. \A b : b \in Range(<<>>) <=> \E i \in 1 .. Len(<<>>) : b = <<>>[i]
    BY <1>1, RangeFacts
  <2>2. 1 .. Len(<<>>) = {}
    BY <1>1
  <2> QED BY <2>1, <2>2
<1>3. Contiguous(<<>>)
  BY DEF Contiguous
<1> QED BY <1>1, <1>2, <1>3 DEF Pendings, Messages

(* Pending messages are sequences of bytes.                                *)
LEMMA PendingTyped ==
  ASSUME NEW decoder \in [Streams -> Pendings]
  PROVE  /\ decoder \in [Streams -> Seq(Byte)]
         /\ \A s \in Streams : Len(decoder[s]) <= MaxRemainder
  BY DEF Pendings, Messages

(* The lines of a piece of the file.                                       *)
LEMMA LinesOfFile ==
  ASSUME file \in Seq(Byte), FileState, NEW seg \in Seq(Byte), NEW a \in Nat,
         a + Len(seg) <= Len(file), \A i \in 1 .. Len(seg) : seg[i] = file[a + i],
         MaxRead <= MaxRemainder /\ Len(seg) > 0 => a \in Boundaries,
         NEW decoder \in [Streams -> Pendings]
  PROVE  AccIn(Pendings, Messages, ProcessLines(decoder, seg))
<1>1. Len(seg) \in Nat /\ DOMAIN seg = 1 .. Len(seg) /\ Len(file) \in Nat
      /\ DOMAIN file = 1 .. Len(file)
  BY LenProperties
<1>2. ASSUME NEW end \in NewlinesIn(seg)
      PROVE  BodyIn(Pendings, Messages, Body(LineAt(seg, end)))
  <2> DEFINE body == Body(LineAt(seg, end))
  <2>1. end \in 1 .. Len(seg)
    BY <1>1 DEF NewlinesIn
  <2>2. PICK p \in 0 .. end - 1 :
           /\ p = 0 \/ p \in NewlinesIn(seg)
           /\ \A i \in p + 1 .. end - 1 : seg[i].kind # Newline
           /\ body \in Seq(Byte) /\ Len(body) = end - p - 1
           /\ \A i \in 1 .. end - p - 1 : body[i] = seg[p + i]
    BY LineFacts
  <2> HIDE DEF body
  <2>3. a + p \in Nat /\ (a + p) + Len(body) <= Len(file)
    BY <1>1, <2>1, <2>2
  <2>4. ASSUME NEW i \in 1 .. Len(body)
        PROVE  body[i] = file[(a + p) + i] /\ body[i].kind # Newline
    <3>1. /\ i \in 1 .. end - p - 1 /\ p + i \in p + 1 .. end - 1 /\ p + i \in 1 .. Len(seg)
          /\ a + (p + i) = (a + p) + i
      BY <1>1, <2>1, <2>2
    <3>2. body[i] = seg[p + i] /\ seg[p + i] = file[a + (p + i)] /\ seg[p + i].kind # Newline
      BY <2>2, <3>1
    <3> QED BY <3>1, <3>2
  <2>5. ASSUME MaxRead <= MaxRemainder PROVE a + p \in Boundaries
    <3>1. CASE p = 0
      BY <1>1, <2>1, <2>5, <3>1
    <3>2. CASE p # 0
      <4>1. p \in 1 .. Len(seg) /\ seg[p].kind = Newline /\ seg[p] = file[a + p]
        BY <1>1, <2>2, <3>2 DEF NewlinesIn
      <4>2. a + p \in 1 .. Len(file)
        BY <1>1, <4>1
      <4> QED BY <1>1, <4>1, <4>2 DEF Boundaries, NewlinesIn
    <3> QED BY <3>1, <3>2
  <2>6. body \in Seq(Byte)
    BY <2>2
  <2>7. BodyIn(Pendings, Messages, body)
    BY <2>3, <2>4, <2>5, <2>6, BodyOfFile
  <2> QED BY <2>7 DEF body
<1>3. <<>> \in Pendings
  BY EmptyPending
<1> QED BY <1>2, <1>3, LinesStay

(* The line that an end of file makes of a remainder.                      *)
LEMMA LineOfRemainder ==
  ASSUME file \in Seq(Byte), FileState, NEW rem \in Seq(Byte), NEW a \in Nat,
         a + Len(rem) <= Len(file), \A i \in 1 .. Len(rem) : rem[i] = file[a + i],
         \A i \in 1 .. Len(rem) : rem[i].kind # Newline,
         MaxRead <= MaxRemainder => a \in Boundaries,
         NEW nl \in Byte, nl.kind = Newline, NEW decoder \in [Streams -> Pendings]
  PROVE  /\ AccIn(Pendings, Messages, ProcessLines(decoder, Append(rem, nl)))
         /\ \A s \in Streams : \A b \in Range(decoder[s]) :
               IsKept(ProcessLines(decoder, Append(rem, nl)), b)
         /\ \A i \in 1 .. Len(rem) : Settled(ProcessLines(decoder, Append(rem, nl)), rem[i])
<1> DEFINE line == Append(rem, nl)
<1>1. Len(rem) \in Nat /\ DOMAIN rem = 1 .. Len(rem)
  BY LenProperties
<1>2. /\ line \in Seq(Byte) /\ Len(line) = Len(rem) + 1 /\ line[Len(rem) + 1] = nl
      /\ \A i \in 1 .. Len(rem) : line[i] = rem[i]
  BY AppendProperties
<1> HIDE DEF line
<1>3. DOMAIN line = 1 .. Len(rem) + 1
  BY <1>2, LenProperties
<1>4. ASSUME NEW end \in NewlinesIn(line) PROVE BodyIn(Pendings, Messages, Body(LineAt(line, end)))
  <2> DEFINE body == Body(LineAt(line, end))
  <2>1. end = Len(rem) + 1
    BY <1>1, <1>2, <1>3 DEF NewlinesIn
  <2>2. PICK p \in 0 .. end - 1 :
           /\ p = 0 \/ p \in NewlinesIn(line)
           /\ body \in Seq(Byte) /\ Len(body) = end - p - 1
           /\ \A i \in 1 .. end - p - 1 : body[i] = line[p + i]
    BY <1>2, LineFacts
  <2> HIDE DEF body
  <2>3. p = 0
    BY <1>1, <1>2, <1>3, <2>1, <2>2 DEF NewlinesIn
  <2>4. Len(body) = Len(rem) /\ \A i \in 1 .. Len(rem) : body[i] = rem[i]
    <3>1. Len(body) = Len(rem) /\ end - p - 1 = Len(rem)
      BY <1>1, <2>1, <2>2, <2>3
    <3>2. ASSUME NEW i \in 1 .. Len(rem) PROVE body[i] = rem[i]
      <4>1. i \in 1 .. end - p - 1 /\ p + i = i
        BY <1>1, <2>3, <3>1
      <4>2. body[i] = line[p + i] /\ line[i] = rem[i]
        BY <1>2, <2>2, <4>1
      <4> QED BY <4>1, <4>2
    <3> QED BY <3>1, <3>2
  <2>5. body \in Seq(Byte) /\ a + Len(body) <= Len(file)
        /\ \A i \in 1 .. Len(body) : body[i] = file[a + i] /\ body[i].kind # Newline
    BY <2>2, <2>4
  <2>6. BodyIn(Pendings, Messages, body)
    BY <2>5, BodyOfFile
  <2> QED BY <2>6 DEF body
<1>5. AccIn(Pendings, Messages, ProcessLines(decoder, line))
  BY <1>2, <1>4, EmptyPending, LinesStay
<1>6. decoder \in [Streams -> Seq(Byte)]
  BY PendingTyped
<1>7. line # <<>> => line[Len(line)].kind = Newline
  BY <1>2
<1>8. /\ \A s \in Streams : \A b \in Range(decoder[s]) : IsKept(ProcessLines(decoder, line), b)
      /\ \A i \in 1 .. Len(line) : Settled(ProcessLines(decoder, line), line[i])
  BY <1>2, <1>6, <1>7, LinesKeep
<1>9. \A i \in 1 .. Len(rem) : Settled(ProcessLines(decoder, line), rem[i])
  BY <1>1, <1>2, <1>8
<1> QED BY <1>5, <1>8, <1>9 DEF line

(* Without a line nothing happens.                                         *)
LEMMA NoLines ==
  ASSUME NEW decoder
  PROVE  ProcessLines(decoder, <<>>) = Started(decoder)
<1>1. Len(<<>>) = 0 /\ Len(<<>>) \in Nat
  BY EmptySeq
<1> QED BY <1>1, ScanDefined

-----------------------------------------------------------------------------
(* A file that grows keeps what it had.                                    *)

Grows ==
    /\ file' \in Seq(Byte) /\ gen' = gen /\ cuts \subseteq cuts'
    /\ \A n \in DOMAIN file : n \in DOMAIN file' /\ file'[n] = file[n]

(* Boundaries, partial lines, records and pending messages stay what they  *)
(* are when the file grows.                                                *)
LEMMA GrowsKeeps ==
  ASSUME file \in Seq(Byte), FileState, Grows
  PROVE  /\ Boundaries \subseteq Boundaries'
         /\ \A n \in DOMAIN file : PartialLine(n) => PartialLine(n)'
         /\ Messages \subseteq Messages' /\ Pendings \subseteq Pendings'
<1>1. /\ Len(file) \in Nat /\ DOMAIN file = 1 .. Len(file)
      /\ Len(file') \in Nat /\ DOMAIN file' = 1 .. Len(file')
  BY LenProperties DEF Grows
<1>2. Boundaries \subseteq Boundaries'
  BY DEF Boundaries, NewlinesIn, Grows
<1>3. ASSUME NEW n \in DOMAIN file, PartialLine(n) PROVE PartialLine(n)'
  <2>1. PICK h \in 1 .. n : /\ file[h].kind[1] = "partial"
                            /\ \A k \in h .. (n - 1) : file[k].kind # Newline
    BY <1>3 DEF PartialLine
  <2>2. file'[h] = file[h] /\ \A k \in h .. (n - 1) : file'[k] = file[k]
    BY <1>1 DEF Grows
  <2> QED BY <2>1, <2>2 DEF PartialLine
<1>4. ASSUME NEW b, InFile(b) PROVE InFile(b)'
  BY <1>4 DEF InFile, Grows
<1>5. ASSUME NEW b, InFile(b), Begins(b) PROVE Begins(b)'
  <2>1. CASE b.pos - 1 \in Boundaries
    BY <1>2, <2>1 DEF Begins
  <2>2. CASE b.pos - 1 \notin Boundaries /\ file[b.pos - 1].kind \in Headers
    <3>1. b.pos \in 1 .. Len(file) /\ b.pos - 1 # 0
      BY <1>1, <1>5, <2>2 DEF InFile, Boundaries
    <3>2. b.pos - 1 \in DOMAIN file
      BY <1>1, <3>1
    <3> QED BY <2>2, <3>2 DEF Begins, Grows
  <2> QED BY <1>5, <2>1, <2>2 DEF Begins
<1>6. ASSUME NEW m, Contiguous(m) PROVE Contiguous(m)'
  BY <1>4, <1>5, <1>6 DEF Contiguous
<1>7. Messages \subseteq Messages'
  BY <1>6 DEF Messages
<1>8. ASSUME NEW m \in Pendings PROVE m \in Pendings'
  <2>1. m \in Messages' /\ Len(m) <= MaxRemainder
    BY <1>7 DEF Pendings
  <2>2. ASSUME NEW b \in Range(m) PROVE InFile(b)' /\ PartialLine(b.pos)'
    <3>1. InFile(b) /\ PartialLine(b.pos)
      BY DEF Pendings
    <3> QED BY <1>3, <1>4, <3>1 DEF InFile
  <2> QED BY <2>1, <2>2 DEF Pendings
<1> QED BY <1>2, <1>3, <1>7, <1>8

-----------------------------------------------------------------------------
(* Reads.                                                                  *)

(* A piece of a sequence.                                                  *)
LEMMA PieceFacts ==
  ASSUME NEW s \in Seq(Byte), NEW p \in Nat, NEW q \in Nat, p <= q, q <= Len(s)
  PROVE  /\ SubSeq(s, p + 1, q) \in Seq(Byte) /\ Len(SubSeq(s, p + 1, q)) = q - p
         /\ \A i \in 1 .. q - p : SubSeq(s, p + 1, q)[i] = s[p + i]
<1>1. Len(s) \in Nat /\ \A i \in 1 .. Len(s) : s[i] \in Byte
  BY LenProperties, ElementOfSeq
<1>2. p + 1 \in Int /\ q \in Int /\ \A i \in p + 1 .. q : s[i] \in Byte
  BY <1>1
<1> DEFINE t == SubSeq(s, p + 1, q)
<1>3. /\ t \in Seq(Byte) /\ Len(t) = IF p + 1 <= q THEN q - (p + 1) + 1 ELSE 0
      /\ \A i \in 1 .. q - (p + 1) + 1 : t[i] = s[(p + 1) + i - 1]
  BY <1>2, SubSeqProperties
<1> HIDE DEF t
<1>4. Len(t) = q - p
  BY <1>3
<1>5. ASSUME NEW i \in 1 .. q - p PROVE t[i] = s[p + i]
  <2>1. i \in 1 .. q - (p + 1) + 1 /\ (p + 1) + i - 1 = p + i
    OBVIOUS
  <2> QED BY <1>3, <2>1
<1> QED BY <1>3, <1>4, <1>5 DEF t

(* The last n elements of a sequence.                                      *)
LEMMA LastBytesFacts ==
  ASSUME NEW s \in Seq(Byte), NEW n \in Nat
  PROVE  \E m \in Nat : /\ m = IF n < Len(s) THEN n ELSE Len(s)
                        /\ LastBytes(s, n) \in Seq(Byte) /\ Len(LastBytes(s, n)) = m
                        /\ \A i \in 1 .. m : LastBytes(s, n)[i] = s[(Len(s) - m) + i]
<1> DEFINE m == IF n < Len(s) THEN n ELSE Len(s)
           p == Len(s) - m
<1>1. Len(s) \in Nat
  BY LenProperties
<1>2. m \in Nat /\ p \in Nat /\ p <= Len(s) /\ Len(s) - p = m
  BY <1>1
<1>3. LastBytes(s, n) = SubSeq(s, p + 1, Len(s))
  <2>1. p + 1 = IF n < Len(s) THEN Len(s) - n + 1 ELSE 1
    BY <1>1
  <2> HIDE DEF p
  <2> QED BY <2>1 DEF LastBytes
<1> HIDE DEF p
<1>4. /\ SubSeq(s, p + 1, Len(s)) \in Seq(Byte) /\ Len(SubSeq(s, p + 1, Len(s))) = Len(s) - p
      /\ \A i \in 1 .. Len(s) - p : SubSeq(s, p + 1, Len(s))[i] = s[p + i]
  BY <1>1, <1>2, PieceFacts
<1> QED BY <1>2, <1>3, <1>4 DEF p

HeldBy(st, b) ==
    b \in Range(st.remainder) \/ \E s \in Streams : b \in Range(st.decoder[s])

(* What a handler makes of a byte: it is held, emitted or dropped.         *)
Covers(result, b) ==
    \/ b.kind = Newline \/ b.kind \in Headers
    \/ b \in result.discarded
    \/ \E record \in result.emitted : b \in Range(record)
    \/ HeldBy(result.state, b)

(* The remainder and n bytes behind it.                                    *)
ChunkFramed(st, bytes, n) ==
    LET k     == Len(st.remainder)
        len   == st.tracker.remainder_len
        chunk == st.remainder \o bytes
    IN  /\ k \in Nat /\ len \in Nat /\ k <= len /\ len <= offset
        /\ k = IF len > MaxRemainder THEN MaxRemainder ELSE len
        /\ Len(bytes) = n
        /\ chunk \in Seq(Byte) /\ Len(chunk) = k + n
        /\ \A i \in 1 .. k + n : chunk[i] = file[(offset - k) + i]
        /\ \A i \in 1 .. k : /\ chunk[i] = st.remainder[i]
                             /\ chunk[i].kind # Newline
        /\ offset - len \in Boundaries
        /\ \A i \in (offset - len + 1) .. offset : file[i].kind # Newline
        /\ MaxRead <= MaxRemainder => (st.overflow_tainted <=> len > MaxRemainder)
        /\ st.decoder \in [Streams -> Pendings]
        /\ MaxRemainder \in Nat \ {0}

(* A chunk is the remainder and the bytes behind it: a piece of the file.  *)
LEMMA ChunkOfFile ==
  ASSUME file \in Seq(Byte), offset \in Nat, NEW st \in SourceState, Framed(st, offset),
         NEW n \in Nat, offset + n <= Len(file),
         NEW bytes, bytes = SubSeq(file, offset + 1, offset + n)
  PROVE  ChunkFramed(st, bytes, n)
<1> DEFINE k == Len(st.remainder)
           len == st.tracker.remainder_len
           rem == st.remainder
           chunk == rem \o bytes
<1>1. MaxRemainder \in Nat \ {0}
  BY FramingAssumptions
<1>2. rem \in Seq(Byte) /\ len \in Nat /\ k \in Nat
  BY LenProperties DEF SourceState
<1>3. /\ len <= offset
      /\ offset - len \in Boundaries
      /\ k = IF len > MaxRemainder THEN MaxRemainder ELSE len
      /\ \A i \in 1 .. k : rem[i] = file[offset - k + i]
      /\ \A i \in (offset - len + 1) .. offset : file[i].kind # Newline
      /\ MaxRead <= MaxRemainder => (st.overflow_tainted <=> len > MaxRemainder)
      /\ st.decoder \in [Streams -> Pendings]
  BY DEF Framed
<1>4. /\ bytes \in Seq(Byte) /\ Len(bytes) = n
      /\ \A i \in 1 .. n : bytes[i] = file[offset + i]
  <2>1. Len(file) \in Nat /\ offset + n \in Nat /\ offset <= offset + n /\ (offset + n) - offset = n
    BY LenProperties
  <2>2. PICK m \in Nat : m = offset + n
    BY <2>1
  <2>3. /\ SubSeq(file, offset + 1, m) \in Seq(Byte)
        /\ Len(SubSeq(file, offset + 1, m)) = m - offset
        /\ \A i \in 1 .. m - offset : SubSeq(file, offset + 1, m)[i] = file[offset + i]
    BY ONLY <2>1, <2>2, file \in Seq(Byte), offset \in Nat, offset + n <= Len(file), PieceFacts
  <2> QED BY <2>1, <2>2, <2>3
<1> HIDE DEF k, len, rem
<1>5. k <= len /\ k <= offset
  BY <1>1, <1>2, <1>3
<1>6. /\ chunk \in Seq(Byte) /\ Len(chunk) = k + n
      /\ \A i \in 1 .. k + n : chunk[i] = IF i <= k THEN rem[i] ELSE bytes[i - k]
  <2>1. k = Len(rem) /\ rem \in Seq(Byte) /\ bytes \in Seq(Byte) /\ Len(bytes) = n
    BY <1>2, <1>4 DEF k, rem
  <2>2. /\ rem \o bytes \in Seq(Byte) /\ Len(rem \o bytes) = Len(rem) + Len(bytes)
        /\ \A i \in 1 .. Len(rem) + Len(bytes) :
              (rem \o bytes)[i] = IF i <= Len(rem) THEN rem[i] ELSE bytes[i - Len(rem)]
    BY ONLY <2>1, ConcatProperties
  <2> QED BY ONLY <2>1, <2>2 DEF chunk
<1> HIDE DEF chunk
<1>7. ASSUME NEW i \in 1 .. k + n PROVE chunk[i] = file[(offset - k) + i]
  <2>1. CASE i <= k
    BY <1>2, <1>3, <1>6, <2>1
  <2>2. CASE ~(i <= k)
    <3>1. i - k \in 1 .. n /\ offset + (i - k) = (offset - k) + i
      BY <1>2, <2>2
    <3> QED BY <1>4, <1>6, <2>2, <3>1
  <2> QED BY <1>2, <2>1, <2>2
<1>8. ASSUME NEW i \in 1 .. k PROVE chunk[i] = rem[i] /\ chunk[i].kind # Newline
  <2>1. i \in 1 .. k + n /\ i <= k /\ (offset - k) + i \in (offset - len + 1) .. offset
    <3>1. len <= offset
      BY <1>3
    <3> QED BY ONLY <1>2, <1>5, <3>1, i \in 1 .. k, n \in Nat, offset \in Nat
  <2> QED BY <1>3, <1>6, <1>7, <2>1
<1> QED BY <1>1, <1>2, <1>3, <1>4, <1>5, <1>6, <1>7, <1>8 DEF k, len, rem, chunk, ChunkFramed

(* A read keeps the state framed, emits only messages, and accounts for    *)
(* the bytes that were held and for those that it reads.                   *)
LEMMA ReadFacts ==
  ASSUME file \in Seq(Byte), FileState, offset \in Nat,
         NEW st \in SourceState, Framed(st, offset),
         NEW n \in 1 .. MaxRead, offset + n <= Len(file),
         NEW bytes, bytes = SubSeq(file, offset + 1, offset + n)
  PROVE  /\ Read(st, bytes).state \in SourceState
         /\ Framed(Read(st, bytes).state, offset + n)
         /\ Read(st, bytes).emitted \subseteq Messages
         /\ \A b : HeldBy(st, b) => Covers(Read(st, bytes), b)
         /\ \A i \in 1 .. n : Covers(Read(st, bytes), file[offset + i])
<1> DEFINE k        == Len(st.remainder)
           len      == st.tracker.remainder_len
           chunk    == st.remainder \o bytes
           newlines == NewlinesIn(chunk)
           last     == Max(newlines \cup {0})
           tail     == SubSeq(chunk, last + 1, Len(chunk))
           kept     == LastBytes(tail, MaxRemainder)
           overflow == Len(tail) > MaxRemainder
           start    == ProcessStart(st, newlines)
           seg      == SubSeq(chunk, start + 1, last)
           dec      == IF overflow THEN ResetDecoder ELSE st.decoder
           lines    == ProcessLines(dec, seg)
           broken   == IF overflow THEN UNION {Range(st.decoder[s]) : s \in Streams} ELSE {}
           tracker  == ApplyRead(st.tracker, Len(bytes),
                                 IF last > Len(st.remainder) THEN last - Len(st.remainder) ELSE 0)
           taint    == IF st.overflow_tainted /\ last > 0 THEN FALSE
                       ELSE st.overflow_tainted \/ overflow
           first    == SubSeq(chunk, 1, start)
           r        == Read(st, bytes)
<1>1. /\ r.state.remainder = kept /\ r.state.decoder = lines.decoder
      /\ r.state.tracker = tracker /\ r.state.overflow_tainted = taint
      /\ r.state = [remainder |-> kept, decoder |-> lines.decoder, tracker |-> tracker,
                    overflow_tainted |-> taint]
      /\ r.emitted = lines.emitted
      /\ r.discarded = lines.discarded \cup broken \cup (Range(tail) \ Range(kept)) \cup Range(first)
  <2> HIDE DEF newlines, kept, start, lines, broken, tracker, taint, first
  <2>1. r = [state |-> [remainder |-> kept, decoder |-> lines.decoder, tracker |-> tracker,
                        overflow_tainted |-> taint],
             emitted |-> lines.emitted,
             discarded |-> lines.discarded \cup broken \cup (Range(tail) \ Range(kept)) \cup Range(first)]
    BY DEF Read, newlines, kept, start, lines, broken, tracker, taint, first
  <2> HIDE DEF r, tail
  <2> QED BY <2>1
<1>2. /\ k \in Nat /\ len \in Nat /\ k <= len /\ len <= offset
      /\ k = IF len > MaxRemainder THEN MaxRemainder ELSE len
      /\ Len(bytes) = n
      /\ chunk \in Seq(Byte) /\ Len(chunk) = k + n
      /\ \A i \in 1 .. k + n : chunk[i] = file[(offset - k) + i]
      /\ \A i \in 1 .. k : chunk[i] = st.remainder[i] /\ chunk[i].kind # Newline
      /\ offset - len \in Boundaries
      /\ \A i \in (offset - len + 1) .. offset : file[i].kind # Newline
      /\ MaxRead <= MaxRemainder => (st.overflow_tainted <=> len > MaxRemainder)
      /\ st.decoder \in [Streams -> Pendings]
      /\ MaxRemainder \in Nat \ {0}
  <2>1. /\ file \in Seq(Byte) /\ offset \in Nat /\ st \in SourceState /\ Framed(st, offset)
        /\ n \in Nat /\ offset + n <= Len(file) /\ bytes = SubSeq(file, offset + 1, offset + n)
    BY FramingAssumptions
  <2>2. ChunkFramed(st, bytes, n)
    BY ONLY <2>1, ChunkOfFile
  <2> HIDE DEF r
  <2> QED BY ONLY <2>2 DEF ChunkFramed
<1> HIDE DEF r, chunk, k, len
<1>3. Len(bytes) = n /\ st.decoder \in [Streams -> Pendings]
  BY <1>2
<1>4. /\ chunk \in Seq(Byte) /\ Len(chunk) = k + n
      /\ \A i \in 1 .. k + n : chunk[i] = file[(offset - k) + i]
      /\ \A i \in 1 .. k : chunk[i] = st.remainder[i] /\ chunk[i].kind # Newline
  BY <1>2
<1>5. /\ offset - len \in Boundaries
      /\ \A i \in (offset - len + 1) .. offset : file[i].kind # Newline
  BY <1>2
<1>6. /\ MaxRead <= MaxRemainder => (st.overflow_tainted <=> len > MaxRemainder)
  BY <1>2
<1>7. /\ k \in Nat /\ len \in Nat /\ k <= len /\ len <= offset /\ k <= offset /\ offset \in Nat
      /\ k = IF len > MaxRemainder THEN MaxRemainder ELSE len
      /\ MaxRemainder \in Nat \ {0} /\ MaxRead \in Nat
      /\ n \in Nat /\ n > 0 /\ n <= MaxRead
  <2>1. k \in Nat /\ len \in Nat /\ k <= len /\ len <= offset /\ MaxRemainder \in Nat \ {0}
        /\ k = IF len > MaxRemainder THEN MaxRemainder ELSE len
    BY <1>2
  <2> QED BY <2>1, FramingAssumptions
<1>8. /\ Len(file) \in Nat /\ DOMAIN file = 1 .. Len(file) /\ DOMAIN chunk = 1 .. k + n
      /\ offset + n <= Len(file)
  BY <1>4, LenProperties
<1>9. st.remainder \in Seq(Byte) /\ st.tracker.read_offset \in Nat /\ st.overflow_tainted \in BOOLEAN
      /\ st.tracker \in [read_offset : Nat, processed_offset : Nat, remainder_len : Nat]
  BY DEF SourceState
<1>10. newlines \subseteq 1 .. k + n /\ \A i \in newlines : i > k /\ chunk[i].kind = Newline
  <2>1. newlines \subseteq 1 .. k + n /\ \A i \in newlines : chunk[i].kind = Newline
    BY <1>7, <1>8 DEF NewlinesIn
  <2>2. ASSUME NEW i \in newlines PROVE i > k
    <3>1. i \in 1 .. k + n /\ i \notin 1 .. k
      BY <1>4, <2>1
    <3> QED BY <1>7, <3>1
  <2> QED BY <2>1, <2>2
<1>11. /\ last \in newlines \cup {0} /\ \A y \in newlines : y <= last
       /\ \A i \in last + 1 .. k + n : chunk[i].kind # Newline
  <2> DEFINE N == newlines \cup {0}
  <2>1. N \in SUBSET (0 .. k + n) /\ N # {} /\ k + n \in Nat
    BY <1>7, <1>8, <1>10
  <2>2. Max(N) \in N /\ \A y \in N : y <= Max(N)
    <3> HIDE DEF N
    <3> QED BY <2>1, MaxPosition
  <2>3. last = Max(N)
    OBVIOUS
  <2>4. last \in 0 .. k + n
    BY <1>7, <1>8, <1>10, <2>2
  <2>5. ASSUME NEW i \in last + 1 .. k + n PROVE chunk[i].kind # Newline
    <3>1. i \in 1 .. k + n /\ ~(i <= last)
      BY <1>7, <1>8, <2>4
    <3>2. i \notin newlines
      BY <2>2, <3>1
    <3> QED BY <1>7, <1>8, <3>1, <3>2 DEF NewlinesIn
  <2> QED BY <2>2, <2>5
<1>12. /\ start \in 0 .. last /\ (start = 0 \/ start \in newlines)
       /\ st.overflow_tainted /\ newlines # {} => start \in newlines
  <2>1. CASE st.overflow_tainted /\ newlines # {}
    <3>1. newlines \in SUBSET Nat
      BY <1>7, <1>8, <1>10
    <3>2. Min(newlines) \in newlines
      <4> HIDE DEF newlines
      <4> QED BY <2>1, <3>1, MinPosition
    <3>3. start = Min(newlines)
      BY <2>1 DEF ProcessStart
    <3>4. start \in newlines
      BY <3>2, <3>3
    <3>5. start \in 1 .. k + n /\ start <= last
      BY <1>10, <1>11, <3>4
    <3>6. last \in 0 .. k + n
      BY <1>7, <1>10, <1>11
    <3> HIDE DEF last, start
    <3> QED BY <1>7, <3>4, <3>5, <3>6
  <2>2. CASE ~(st.overflow_tainted /\ newlines # {})
    <3>1. start = 0
      BY <2>2 DEF ProcessStart
    <3> QED BY <1>7, <1>8, <1>10, <1>11, <2>2, <3>1
  <2> QED BY <2>1, <2>2
<1> HIDE DEF newlines
<1>13. /\ last \in 0 .. k + n /\ (last = 0 \/ (last > k /\ last \in newlines))
       /\ start \in Nat /\ start <= last /\ (last = 0 <=> newlines = {})
  <2> HIDE DEF last, start
  <2>1. CASE newlines = {}
    <3>1. last = 0
      BY <1>11, <2>1
    <3> QED BY <1>7, <1>12, <2>1, <3>1
  <2>2. CASE newlines # {}
    <3>1. PICK y \in newlines : TRUE
      BY <2>2
    <3>2. y <= last /\ y > k /\ y \in 1 .. k + n
      BY <1>10, <1>11, <3>1
    <3>3. last # 0 /\ last \in newlines
      BY <1>7, <1>11, <3>2
    <3>4. last \in 1 .. k + n /\ last > k
      BY <1>10, <3>3
    <3> QED BY <1>7, <1>12, <2>2, <3>3, <3>4
  <2> QED BY <2>1, <2>2
<1> HIDE DEF last, start
<1>14. last \in Nat /\ last <= k + n /\ start \in Nat /\ start <= last /\ (last = 0 \/ last > k)
  BY <1>7, <1>13
<1>15. /\ tail \in Seq(Byte) /\ Len(tail) = (k + n) - last
       /\ \A i \in 1 .. (k + n) - last : tail[i] = chunk[last + i]
  <2>1. last \in Nat /\ k + n \in Nat /\ last <= k + n
    BY <1>7, <1>14
  <2>2. chunk \in Seq(Byte) /\ Len(chunk) = k + n /\ k + n <= Len(chunk)
    BY <1>4, <1>7
  <2>3. tail = SubSeq(chunk, last + 1, k + n)
    BY <2>2
  <2> HIDE DEF tail
  <2>4. /\ SubSeq(chunk, last + 1, k + n) \in Seq(Byte)
        /\ Len(SubSeq(chunk, last + 1, k + n)) = (k + n) - last
        /\ \A i \in 1 .. (k + n) - last : SubSeq(chunk, last + 1, k + n)[i] = chunk[last + i]
    <3> DEFINE q == k + n
    <3>1. last \in Nat /\ q \in Nat /\ last <= q /\ q <= Len(chunk) /\ chunk \in Seq(Byte)
      BY <2>1, <2>2
    <3> HIDE DEF q
    <3>2. /\ SubSeq(chunk, last + 1, q) \in Seq(Byte) /\ Len(SubSeq(chunk, last + 1, q)) = q - last
          /\ \A i \in 1 .. q - last : SubSeq(chunk, last + 1, q)[i] = chunk[last + i]
      BY ONLY <3>1, PieceFacts
    <3> QED BY <3>2 DEF q
  <2> QED BY <2>3, <2>4
<1> HIDE DEF tail
<1>16. PICK m \in Nat : /\ m = IF MaxRemainder < Len(tail) THEN MaxRemainder ELSE Len(tail)
                        /\ kept \in Seq(Byte) /\ Len(kept) = m
                        /\ \A i \in 1 .. m : kept[i] = tail[(Len(tail) - m) + i]
  <2>1. tail \in Seq(Byte) /\ MaxRemainder \in Nat
    BY <1>7, <1>15
  <2> QED BY ONLY <2>1, LastBytesFacts DEF kept
<1> HIDE DEF kept
<1>17. /\ seg \in Seq(Byte) /\ Len(seg) = last - start
       /\ \A i \in 1 .. last - start : seg[i] = chunk[start + i]
  <2>1. last \in Nat /\ start \in Nat /\ start <= last /\ last <= Len(chunk) /\ chunk \in Seq(Byte)
    BY <1>4, <1>14
  <2> QED BY ONLY <2>1, PieceFacts DEF seg
<1>18. /\ first \in Seq(Byte) /\ Len(first) = start /\ \A i \in 1 .. start : first[i] = chunk[i]
  <2>1. start <= Len(chunk) /\ chunk \in Seq(Byte) /\ start \in Nat
    BY <1>4, <1>7, <1>14
  <2>2. 0 \in Nat /\ 0 <= start /\ 0 + 1 = 1 /\ start - 0 = start
    BY <2>1
  <2>3. /\ SubSeq(chunk, 0 + 1, start) \in Seq(Byte) /\ Len(SubSeq(chunk, 0 + 1, start)) = start - 0
        /\ \A i \in 1 .. start - 0 : SubSeq(chunk, 0 + 1, start)[i] = chunk[0 + i]
    BY ONLY <2>1, <2>2, PieceFacts
  <2>4. first \in Seq(Byte) /\ Len(first) = start /\ \A i \in 1 .. start : first[i] = chunk[0 + i]
    BY <2>2, <2>3
  <2>5. \A i \in 1 .. start : 0 + i = i
    OBVIOUS
  <2> HIDE DEF first
  <2> QED BY <2>4, <2>5
<1> HIDE DEF seg, first
<1>19. dec \in [Streams -> Pendings]
  BY <1>3, EmptyPending DEF ResetDecoder
<1> HIDE DEF dec
<1>20. /\ (offset - k) + start \in Nat /\ ((offset - k) + start) + Len(seg) <= Len(file)
       /\ \A i \in 1 .. Len(seg) : seg[i] = file[((offset - k) + start) + i]
       /\ MaxRead <= MaxRemainder /\ Len(seg) > 0 => (offset - k) + start \in Boundaries
       /\ seg # <<>> => seg[Len(seg)].kind = Newline
  <2>1. (offset - k) + start \in Nat /\ ((offset - k) + start) + Len(seg) <= Len(file)
    BY <1>7, <1>8, <1>14, <1>17
  <2>2. ASSUME NEW i \in 1 .. Len(seg) PROVE seg[i] = file[((offset - k) + start) + i]
    <3>1. i \in 1 .. last - start /\ start + i \in 1 .. k + n
          /\ (offset - k) + (start + i) = ((offset - k) + start) + i
      BY <1>7, <1>8, <1>14, <1>17
    <3>2. seg[i] = chunk[start + i] /\ chunk[start + i] = file[(offset - k) + (start + i)]
      BY <1>4, <1>17, <3>1
    <3> QED BY <3>1, <3>2
  <2>3. ASSUME MaxRead <= MaxRemainder, Len(seg) > 0 PROVE (offset - k) + start \in Boundaries
    <3>1. last # 0 /\ newlines # {}
      BY <1>13, <1>14, <1>17, <2>3
    <3>2. CASE start = 0
      <4>1. ~st.overflow_tainted
        BY <1>7, <1>8, <1>10, <1>12, <3>1, <3>2
      <4>2. k = len /\ (offset - k) + start = offset - len
        BY <1>6, <1>7, <2>3, <3>2, <4>1
      <4> QED BY <1>5, <4>2
    <3>3. CASE start # 0
      <4>1. start \in newlines /\ start \in 1 .. k + n /\ (offset - k) + start \in 1 .. Len(file)
        BY <1>7, <1>8, <1>10, <1>12, <3>3
      <4>2. file[(offset - k) + start].kind = Newline
        BY <1>4, <1>10, <4>1
      <4> QED BY <1>7, <1>8, <4>1, <4>2 DEF Boundaries, NewlinesIn
    <3> QED BY <3>2, <3>3
  <2>4. ASSUME seg # <<>> PROVE seg[Len(seg)].kind = Newline
    <3>1. Len(seg) \in Nat \ {0}
      BY <1>17, <2>4, EmptySeq
    <3>2. last - start \in 1 .. last - start /\ start + (last - start) = last /\ last # 0
      BY <1>14, <1>17, <3>1
    <3>3. last \in newlines
      BY <1>13, <3>2
    <3> QED BY <1>10, <1>17, <3>2, <3>3
  <2> QED BY <2>1, <2>2, <2>3, <2>4
<1>21. AccIn(Pendings, Messages, lines)
  BY <1>17, <1>19, <1>20, LinesOfFile
<1>22. dec \in [Streams -> Seq(Byte)]
  BY <1>19, PendingTyped
<1>23. /\ \A s \in Streams : \A b \in Range(dec[s]) : IsKept(lines, b)
       /\ \A i \in 1 .. Len(seg) : Settled(lines, seg[i])
  BY <1>17, <1>20, <1>22, LinesKeep
<1> HIDE DEF lines
<1>24. lines.decoder \in [Streams -> Pendings] /\ lines.emitted \subseteq Messages
  BY <1>21 DEF AccIn
<1> DEFINE len2 == IF last > k THEN n - (last - k) ELSE len + n
<1>25. tracker.remainder_len = len2 /\ len2 \in Nat
       /\ tracker \in [read_offset : Nat, processed_offset : Nat, remainder_len : Nat]
  <2> DEFINE nl == IF last > k THEN last - k ELSE 0
  <2>1. tracker = ApplyRead(st.tracker, n, nl)
    BY <1>3 DEF k
  <2>2. CASE last > k
    <3>1. nl = last - k /\ nl # 0 /\ nl \in Nat /\ n - nl \in Nat /\ len2 = n - nl
      BY <1>7, <1>14, <2>2
    <3>2. tracker = [read_offset |-> st.tracker.read_offset + n,
                     processed_offset |-> st.tracker.read_offset + nl,
                     remainder_len |-> n - nl]
      <4> HIDE DEF nl, tracker
      <4> QED BY <2>1, <3>1 DEF ApplyRead
    <3> HIDE DEF nl, tracker
    <3>3. tracker.remainder_len = n - nl
      BY <3>2
    <3>4. st.tracker.read_offset + n \in Nat /\ st.tracker.read_offset + nl \in Nat
      <4>1. st.tracker.read_offset \in Nat /\ n \in Nat /\ nl \in Nat
        BY <1>7, <1>9, <3>1
      <4> QED BY ONLY <4>1
    <3> HIDE DEF len2
    <3> QED BY <3>1, <3>2, <3>3, <3>4
  <2>3. CASE ~(last > k)
    <3>1. nl = 0
      BY <2>3
    <3>2. tracker = [st.tracker EXCEPT !.read_offset = @ + n, !.remainder_len = @ + n]
      <4> HIDE DEF nl, tracker
      <4> QED BY <2>1, <3>1 DEF ApplyRead
    <3> HIDE DEF nl, tracker
    <3>3. len2 = len + n /\ len = st.tracker.remainder_len /\ len2 \in Nat
      BY <1>7, <2>3 DEF len
    <3> HIDE DEF len2
    <3>4. tracker.remainder_len = len2
      BY <1>9, <3>2, <3>3
    <3>5. tracker.read_offset = st.tracker.read_offset + n /\ st.tracker.read_offset + n \in Nat
      BY <1>7, <1>9, <3>2
    <3> QED BY <1>9, <3>2, <3>3, <3>4, <3>5
  <2> QED BY <2>2, <2>3
<1> HIDE DEF tracker
<1>26. taint \in BOOLEAN
  BY <1>9
<1>27. r.state \in SourceState
  <2>1. lines.decoder \in [Streams -> Seq(Byte)]
    BY <1>24, PendingTyped
  <2> HIDE DEF taint
  <2> QED BY <1>1, <1>16, <1>25, <1>26, <2>1 DEF SourceState
<1>28. /\ len2 <= offset + n /\ (offset + n) - len2 \in Boundaries
       /\ \A i \in ((offset + n) - len2 + 1) .. offset + n : file[i].kind # Newline
       /\ m = IF len2 > MaxRemainder THEN MaxRemainder ELSE len2
       /\ Len(tail) <= len2
  <2>1. CASE last = 0
    <3>1. len2 = len + n /\ Len(tail) = k + n /\ (offset + n) - len2 = offset - len
      BY <1>7, <1>15, <2>1
    <3> HIDE DEF len2
    <3>2. ASSUME NEW i \in ((offset + n) - len2 + 1) .. offset + n PROVE file[i].kind # Newline
      <4>1. CASE i <= offset
        BY <1>5, <1>7, <3>1, <4>1
      <4>2. CASE ~(i <= offset)
        <5>1. /\ i - (offset - k) \in last + 1 .. k + n /\ i - (offset - k) \in 1 .. k + n
              /\ (offset - k) + (i - (offset - k)) = i
          BY <1>7, <2>1, <3>1, <4>2
        <5> QED BY <1>4, <1>11, <5>1
      <4> QED BY <1>7, <3>1, <4>1, <4>2
    <3>3. len2 <= offset + n /\ Len(tail) <= len2 /\ m = IF len2 > MaxRemainder THEN MaxRemainder ELSE len2
      <4>1. m = IF MaxRemainder < Len(tail) THEN MaxRemainder ELSE Len(tail)
        BY <1>16
      <4> QED BY <1>7, <3>1, <4>1
    <3>4. (offset + n) - len2 \in Boundaries
      BY <1>5, <3>1
    <3> QED BY <3>2, <3>3, <3>4
  <2>2. CASE last > k
    <3>1. len2 = (k + n) - last /\ Len(tail) = len2 /\ (offset + n) - len2 = (offset - k) + last
          /\ len2 \in Nat
      BY <1>7, <1>14, <1>15, <2>2
    <3> HIDE DEF len2
    <3>2. ASSUME NEW i \in ((offset + n) - len2 + 1) .. offset + n PROVE file[i].kind # Newline
      <4>1. /\ i - (offset - k) \in last + 1 .. k + n /\ i - (offset - k) \in 1 .. k + n
            /\ (offset - k) + (i - (offset - k)) = i
        BY <1>7, <1>14, <3>1
      <4> QED BY <1>4, <1>11, <4>1
    <3>3. (offset - k) + last \in Boundaries
      <4>1. last \in 1 .. k + n /\ chunk[last].kind = Newline
        BY <1>7, <1>10, <1>13, <2>2
      <4>2. (offset - k) + last \in 1 .. Len(file) /\ file[(offset - k) + last].kind = Newline
        <5>1. (offset - k) + last \in 1 .. Len(file)
          BY <1>7, <1>8, <4>1
        <5> QED BY <1>4, <4>1, <5>1
      <4> QED BY <1>7, <1>8, <4>2 DEF Boundaries, NewlinesIn
    <3>4. len2 <= offset + n /\ Len(tail) <= len2 /\ m = IF len2 > MaxRemainder THEN MaxRemainder ELSE len2
      <4>1. m = IF MaxRemainder < Len(tail) THEN MaxRemainder ELSE Len(tail)
        BY <1>16
      <4> QED BY <1>7, <1>14, <3>1, <4>1
    <3>5. (offset + n) - len2 \in Boundaries
      BY <3>1, <3>3
    <3> QED BY <3>2, <3>4, <3>5
  <2> QED BY <1>14, <2>1, <2>2
<1>29. ASSUME MaxRead <= MaxRemainder PROVE taint <=> len2 > MaxRemainder
  <2>1. CASE last = 0
    <3>1. len2 = len + n /\ Len(tail) = k + n
      BY <1>7, <1>15, <2>1
    <3>2. taint <=> st.overflow_tainted \/ k + n > MaxRemainder
      BY <2>1, <3>1
    <3> HIDE DEF len2, taint
    <3> QED BY <1>6, <1>7, <1>29, <3>1, <3>2
  <2>2. CASE last > k
    <3>1. len2 = (k + n) - last /\ Len(tail) = len2 /\ len2 <= MaxRemainder /\ last > 0 /\ len2 \in Nat
      BY <1>7, <1>14, <1>15, <1>29, <2>2
    <3>2. ~overflow
      <4> HIDE DEF len2
      <4> QED BY <1>7, <3>1
    <3>3. ~taint
      BY <3>1, <3>2
    <3> HIDE DEF taint, len2
    <3> QED BY <1>7, <3>1, <3>3
  <2> QED BY <1>14, <2>1, <2>2
<1>30. \A i \in 1 .. m : kept[i] = file[(offset + n) - m + i]
  <2> TAKE i \in 1 .. m
  <2>1. /\ (Len(tail) - m) + i \in 1 .. (k + n) - last
        /\ last + ((Len(tail) - m) + i) \in 1 .. k + n
        /\ (offset - k) + (last + ((Len(tail) - m) + i)) = (offset + n) - m + i
    <3>1. m = IF MaxRemainder < Len(tail) THEN MaxRemainder ELSE Len(tail)
      BY <1>16
    <3>2. Len(tail) = (k + n) - last
      BY <1>15
    <3> QED BY <1>7, <1>14, <3>1, <3>2
  <2>2. kept[i] = tail[(Len(tail) - m) + i]
    BY <1>16
  <2>3. tail[(Len(tail) - m) + i] = chunk[last + ((Len(tail) - m) + i)]
    BY <1>15, <2>1
  <2>4. chunk[last + ((Len(tail) - m) + i)] = file[(offset - k) + (last + ((Len(tail) - m) + i))]
    BY <1>4, <2>1
  <2> QED BY <2>1, <2>2, <2>3, <2>4
<1>31. Framed(r.state, offset + n)
  <2>1. r.state.tracker.remainder_len = len2 /\ Len(r.state.remainder) = m
    BY <1>1, <1>16, <1>25
  <2> HIDE DEF len2, taint
  <2>2. /\ r.state.remainder = kept /\ r.state.decoder = lines.decoder
        /\ r.state.overflow_tainted = taint
    BY <1>1
  <2>3. \A i \in 1 .. m : r.state.remainder[i] = file[(offset + n) - m + i]
    BY <1>30, <2>2
  <2>4. MaxRead <= MaxRemainder => (r.state.overflow_tainted <=> len2 > MaxRemainder)
    BY <1>29, <2>2
  <2>5. r.state.decoder \in [Streams -> Pendings]
    BY <1>24, <2>2
  <2>6. /\ len2 <= offset + n /\ (offset + n) - len2 \in Boundaries
        /\ m = IF len2 > MaxRemainder THEN MaxRemainder ELSE len2
    BY <1>28
  <2>7. \A i \in ((offset + n) - len2 + 1) .. offset + n : file[i].kind # Newline
    BY <1>28
  <2> QED BY ONLY <2>1, <2>3, <2>4, <2>5, <2>6, <2>7 DEF Framed
<1>32. ASSUME NEW b, IsKept(lines, b) PROVE Covers(r, b)
  <2> HIDE DEF broken
  <2> QED BY <1>1, <1>32 DEF IsKept, Covers, HeldBy
<1>33. ASSUME NEW i \in 1 .. k + n PROVE Covers(r, chunk[i])
  <2>1. CASE i <= start
    <3>1. i \in 1 .. start
      BY <1>7, <1>14, <2>1
    <3>2. chunk[i] \in Range(first)
      BY <1>18, <3>1, RangeFacts
    <3> QED BY <1>1, <3>2 DEF Covers
  <2>2. CASE start < i /\ i <= last
    <3>1. i - start \in 1 .. Len(seg) /\ i - start \in 1 .. last - start /\ start + (i - start) = i
      BY <1>7, <1>14, <1>17, <2>2
    <3>2. Settled(lines, chunk[i])
      BY <1>17, <1>23, <3>1
    <3> QED BY <1>32, <3>2 DEF Settled, Covers
  <2>3. CASE last < i
    <3>1. i - last \in 1 .. Len(tail) /\ i - last \in 1 .. (k + n) - last /\ last + (i - last) = i
      BY <1>7, <1>14, <1>15, <2>3
    <3>2. chunk[i] \in Range(tail)
      BY <1>15, <3>1, RangeFacts
    <3> QED BY <1>1, <3>2 DEF Covers, HeldBy
  <2> QED BY <1>7, <1>14, <2>1, <2>2, <2>3
<1>34. ASSUME NEW b, HeldBy(st, b) PROVE Covers(r, b)
  <2>1. CASE b \in Range(st.remainder)
    <3>1. PICK i \in 1 .. k : b = st.remainder[i]
      BY <1>9, <2>1, RangeFacts DEF k
    <3>2. i \in 1 .. k + n /\ b = chunk[i]
      BY <1>4, <1>7, <3>1
    <3> QED BY <1>33, <3>2
  <2>2. ASSUME NEW s \in Streams, b \in Range(st.decoder[s]) PROVE Covers(r, b)
    <3>1. CASE overflow
      <4>1. b \in broken
        BY <2>2, <3>1
      <4> HIDE DEF broken
      <4> QED BY <1>1, <4>1 DEF Covers
    <3>2. CASE ~overflow
      <4>1. dec = st.decoder
        BY <3>2 DEF dec
      <4>2. IsKept(lines, b)
        BY <1>23, <2>2, <4>1
      <4> QED BY <1>32, <4>2
    <3> QED BY <3>1, <3>2
  <2> QED BY <1>34, <2>1, <2>2 DEF HeldBy
<1>35. ASSUME NEW i \in 1 .. n PROVE Covers(r, file[offset + i])
  <2>1. k + i \in 1 .. k + n /\ (offset - k) + (k + i) = offset + i
    BY <1>7, <1>8
  <2> QED BY <1>4, <1>33, <2>1
<1>36. r.emitted \subseteq Messages
  BY <1>1, <1>24
<1> HIDE DEF broken
<1> QED BY <1>27, <1>31, <1>34, <1>35, <1>36 DEF r

(* An end of file empties the remainder and accounts for what was held.    *)
LEMMA FlushFacts ==
  ASSUME file \in Seq(Byte), FileState, gen \in 0 .. MaxTruncations,
         offset \in Nat, offset <= Len(file),
         NEW st \in SourceState, Framed(st, offset), st.remainder # <<>>
  PROVE  /\ FlushRemainder(st).state \in SourceState
         /\ FlushRemainder(st).state.remainder = <<>>
         /\ FlushRemainder(st).state.tracker.remainder_len = 0
         /\ FlushRemainder(st).state.overflow_tainted = FALSE
         /\ FlushRemainder(st).state.decoder \in [Streams -> Pendings]
         /\ FlushRemainder(st).emitted \subseteq Messages
         /\ \A b : HeldBy(st, b) => Covers(FlushRemainder(st), b)
<1> DEFINE nl    == [gen |-> gen, pos |-> 0, kind |-> Newline]
           line  == Append(st.remainder, nl)
           lines == ProcessLines(st.decoder, IF st.overflow_tainted THEN <<>> ELSE line)
           trk   == ApplyRemainderConsumed(st.tracker)
           lost  == IF st.overflow_tainted THEN Range(st.remainder) ELSE {}
           r     == FlushRemainder(st)
           k     == Len(st.remainder)
           len   == st.tracker.remainder_len
<1>1. /\ r.state = [remainder |-> <<>>, decoder |-> lines.decoder, tracker |-> trk,
                    overflow_tainted |-> FALSE]
      /\ r.emitted = lines.emitted /\ r.discarded = lines.discarded \cup lost
  <2> HIDE DEF lines, trk, lost
  <2>1. r = [state |-> [remainder |-> <<>>, decoder |-> lines.decoder, tracker |-> trk,
                        overflow_tainted |-> FALSE],
             emitted |-> lines.emitted, discarded |-> lines.discarded \cup lost]
    BY DEF FlushRemainder, lines, trk, lost
  <2> HIDE DEF r
  <2> QED BY <2>1
<1> HIDE DEF r
<1>2. st.remainder \in Seq(Byte) /\ st.overflow_tainted \in BOOLEAN
      /\ st.tracker \in [read_offset : Nat, processed_offset : Nat, remainder_len : Nat]
  BY DEF SourceState
<1>3. trk \in [read_offset : Nat, processed_offset : Nat, remainder_len : Nat]
      /\ trk.remainder_len = 0
  BY <1>2 DEF ApplyRemainderConsumed
<1> HIDE DEF trk
<1>4. /\ k \in Nat /\ len \in Nat /\ k <= len /\ len <= offset
      /\ k = IF len > MaxRemainder THEN MaxRemainder ELSE len
      /\ \A i \in 1 .. k : st.remainder[i] = file[(offset - k) + i] /\ st.remainder[i].kind # Newline
      /\ offset - len \in Boundaries
      /\ MaxRead <= MaxRemainder => (st.overflow_tainted <=> len > MaxRemainder)
      /\ st.decoder \in [Streams -> Pendings]
      /\ MaxRemainder \in Nat \ {0}
  <2> DEFINE bytes == SubSeq(file, offset + 1, offset + 0)
             chunk == st.remainder \o bytes
  <2>1. /\ file \in Seq(Byte) /\ offset \in Nat /\ st \in SourceState /\ Framed(st, offset)
        /\ 0 \in Nat /\ offset + 0 <= Len(file)
    OBVIOUS
  <2>2. ChunkFramed(st, bytes, 0)
    BY ONLY <2>1, ChunkOfFile
  <2> HIDE DEF bytes
  <2>3. /\ k \in Nat /\ len \in Nat /\ k <= len /\ len <= offset
        /\ k = IF len > MaxRemainder THEN MaxRemainder ELSE len
        /\ \A i \in 1 .. k + 0 : chunk[i] = file[(offset - k) + i]
        /\ \A i \in 1 .. k : chunk[i] = st.remainder[i] /\ chunk[i].kind # Newline
        /\ offset - len \in Boundaries
        /\ MaxRead <= MaxRemainder => (st.overflow_tainted <=> len > MaxRemainder)
        /\ st.decoder \in [Streams -> Pendings]
        /\ MaxRemainder \in Nat \ {0}
    BY ONLY <2>2 DEF ChunkFramed
  <2> HIDE DEF k, len, chunk
  <2>4. k + 0 = k
    BY <2>3
  <2> QED BY <2>3, <2>4
<1> HIDE DEF k, len
<1>5. /\ lines.decoder \in [Streams -> Pendings] /\ lines.emitted \subseteq Messages
      /\ \A s \in Streams : \A b \in Range(st.decoder[s]) : IsKept(lines, b)
      /\ ~st.overflow_tainted => \A i \in 1 .. k : Settled(lines, st.remainder[i])
  <2>1. CASE st.overflow_tainted
    <3>1. lines = Started(st.decoder)
      BY <2>1, NoLines
    <3> HIDE DEF lines
    <3> QED BY <1>4, <2>1, <3>1 DEF Started, IsKept
  <2>2. CASE ~st.overflow_tainted
    <3>1. lines = ProcessLines(st.decoder, line)
      BY <2>2
    <3>2. nl \in Byte /\ nl.kind = Newline
      BY FramingAssumptions DEF Byte, Kinds, Newline
    <3>3. MaxRead <= MaxRemainder => offset - k \in Boundaries
      <4>1. MaxRead <= MaxRemainder => k = len
        BY <1>4, <2>2
      <4> QED BY <1>4, <4>1
    <3>4. offset - k \in Nat /\ (offset - k) + k <= Len(file)
      <4>1. k \in Nat /\ len \in Nat /\ k <= len /\ len <= offset
        BY <1>4
      <4> QED BY <4>1
    <3>5. /\ file \in Seq(Byte) /\ FileState /\ st.remainder \in Seq(Byte)
          /\ offset - k \in Nat /\ (offset - k) + Len(st.remainder) <= Len(file)
          /\ \A i \in 1 .. Len(st.remainder) : st.remainder[i] = file[(offset - k) + i]
          /\ \A i \in 1 .. Len(st.remainder) : st.remainder[i].kind # Newline
          /\ st.decoder \in [Streams -> Pendings]
      BY <1>2, <1>4, <3>4 DEF k
    <3> HIDE DEF nl, lines
    <3>6. /\ AccIn(Pendings, Messages, ProcessLines(st.decoder, line))
          /\ \A s \in Streams : \A b \in Range(st.decoder[s]) :
                IsKept(ProcessLines(st.decoder, line), b)
          /\ \A i \in 1 .. Len(st.remainder) :
                Settled(ProcessLines(st.decoder, line), st.remainder[i])
      BY ONLY <3>2, <3>3, <3>5, LineOfRemainder
    <3> HIDE DEF line
    <3> QED BY <3>1, <3>6 DEF AccIn, k
  <2> QED BY <1>2, <2>1, <2>2
<1> HIDE DEF lines
<1>6. r.state \in SourceState
  <2>1. lines.decoder \in [Streams -> Seq(Byte)]
    BY <1>5, PendingTyped
  <2>2. <<>> \in Seq(Byte)
    BY EmptyPending
  <2> QED BY <1>1, <1>3, <2>1, <2>2 DEF SourceState
<1>7. /\ r.state.remainder = <<>> /\ r.state.tracker.remainder_len = 0
      /\ r.state.overflow_tainted = FALSE /\ r.state.decoder = lines.decoder
  BY <1>1, <1>3
<1>8. ASSUME NEW b, IsKept(lines, b) PROVE Covers(r, b)
  BY <1>1, <1>7, <1>8 DEF IsKept, Covers, HeldBy
<1>9. ASSUME NEW b, HeldBy(st, b) PROVE Covers(r, b)
  <2>1. CASE b \in Range(st.remainder)
    <3>1. CASE st.overflow_tainted
      BY <1>1, <2>1, <3>1 DEF Covers
    <3>2. CASE ~st.overflow_tainted
      <4>1. PICK i \in 1 .. k : b = st.remainder[i]
        BY <1>2, <2>1, RangeFacts DEF k
      <4>2. Settled(lines, b)
        BY <1>5, <3>2, <4>1
      <4> QED BY <1>8, <4>2 DEF Settled, Covers
    <3> QED BY <3>1, <3>2
  <2>2. ASSUME NEW s \in Streams, b \in Range(st.decoder[s]) PROVE Covers(r, b)
    BY <1>5, <1>8, <2>2
  <2> QED BY <1>9, <2>1, <2>2 DEF HeldBy
<1>10. r.emitted \subseteq Messages /\ r.state.decoder \in [Streams -> Pendings]
  BY <1>1, <1>5, <1>7
<1> QED BY <1>6, <1>7, <1>9, <1>10 DEF r

-----------------------------------------------------------------------------
(* What the parts of the invariant rest on.                                *)

(* Ends of lines are positions in the file.                                *)
LEMMA BoundaryTypes ==
  ASSUME file \in Seq(Byte), FileState
  PROVE  Boundaries \subseteq 0 .. Len(file) /\ 0 \in Boundaries
<1>1. Len(file) \in Nat /\ DOMAIN file = 1 .. Len(file)
  BY LenProperties
<1>2. NewlinesIn(file) \subseteq 0 .. Len(file)
  BY <1>1 DEF NewlinesIn
<1>3. cuts \subseteq 0 .. Len(file)
  BY DEF FileState
<1>4. 0 \in 0 .. Len(file)
  BY <1>1
<1>5. Boundaries = {0} \cup NewlinesIn(file) \cup cuts
  BY DEF Boundaries
<1> QED BY ONLY <1>2, <1>3, <1>4, <1>5

(* A framed state keeps within its buffers.                                *)
LEMMA FramedBuffers ==
  ASSUME NEW st, NEW off, Framed(st, off)
  PROVE  Len(st.remainder) <= MaxRemainder /\ \A s \in Streams : Len(st.decoder[s]) <= MaxRemainder
<1>1. st.decoder \in [Streams -> Pendings]
      /\ Len(st.remainder) = IF st.tracker.remainder_len > MaxRemainder
                             THEN MaxRemainder ELSE st.tracker.remainder_len
  BY DEF Framed
<1>2. MaxRemainder \in Nat
  BY FramingAssumptions
<1>3. \A s \in Streams : Len(st.decoder[s]) <= MaxRemainder
  BY <1>1, PendingTyped
<1> QED BY <1>1, <1>2, <1>3

(* A source without state may begin at any end of a line.                  *)
LEMMA NewFramed ==
  ASSUME offset \in Nat, offset \in Boundaries
  PROVE  NewState \in SourceState /\ Framed(NewState, offset)
<1>1. /\ NewState.remainder = <<>> /\ NewState.tracker.remainder_len = 0
      /\ NewState.overflow_tainted = FALSE /\ NewState.decoder \in [Streams -> Pendings]
  BY EmptyPending DEF NewState, NewTracker, ResetDecoder
<1>2. <<>> \in Seq(Byte) /\ Len(<<>>) = 0
  BY EmptyPending
<1>3. NewState.decoder \in [Streams -> Seq(Byte)]
  BY <1>1, PendingTyped
<1>4. NewState \in SourceState
  BY <1>2, <1>3 DEF NewState, NewTracker, SourceState
<1>5. MaxRemainder \in Nat \ {0} /\ offset - 0 = offset
  BY FramingAssumptions
<1> HIDE DEF NewState
<1>6. /\ Len(NewState.remainder) = 0 /\ 1 .. 0 = {}
      /\ (offset - 0 + 1) .. offset = {} /\ ~(0 > MaxRemainder)
  BY <1>1, <1>2, <1>5
<1>7. Framed(NewState, offset)
  BY <1>1, <1>5, <1>6 DEF Framed
<1> QED BY <1>4, <1>7

(* The state of the source, whether there is one or not.                   *)
Current == IF source = None THEN NewState ELSE source

(* The current state is framed and holds what the source holds.            *)
LEMMA CurrentFramed ==
  ASSUME TypeOK, FileState, SourceFramed
  PROVE  /\ Current \in SourceState /\ Framed(Current, offset) /\ offset \in Nat
         /\ \A n : Held(n) => HeldBy(Current, file[n])
<1>1. offset \in Nat
  BY LenProperties DEF TypeOK
<1>2. CASE source = None
  BY <1>1, <1>2, NewFramed DEF SourceFramed, Current, Held
<1>3. CASE source # None
  BY <1>1, <1>3 DEF SourceFramed, Current, Held, HeldBy, TypeOK
<1> QED BY <1>2, <1>3

(* A state stays framed when the file grows.                               *)
LEMMA GrowsFramed ==
  ASSUME file \in Seq(Byte), FileState, Grows, NEW st \in SourceState, NEW off \in Nat,
         off <= Len(file), Framed(st, off)
  PROVE  Framed(st, off)'
<1> DEFINE len == st.tracker.remainder_len
           kept == Len(st.remainder)
<1>1. /\ len <= off /\ off - len \in Boundaries
      /\ kept = IF len > MaxRemainder THEN MaxRemainder ELSE len
      /\ \A i \in 1 .. kept : st.remainder[i] = file[off - kept + i]
      /\ \A n \in (off - len + 1) .. off : file[n].kind # Newline
      /\ MaxRead <= MaxRemainder => (st.overflow_tainted <=> len > MaxRemainder)
      /\ st.decoder \in [Streams -> Pendings]
  BY DEF Framed
<1>2. len \in Nat /\ kept \in Nat /\ MaxRemainder \in Nat
  BY FramingAssumptions, LenProperties DEF SourceState
<1> HIDE DEF len, kept
<1>3. \A n \in 1 .. Len(file) : file'[n] = file[n]
  BY LenProperties DEF Grows
<1>4. Boundaries \subseteq Boundaries' /\ Pendings \subseteq Pendings'
  BY GrowsKeeps
<1>5. Len(file) \in Nat
  BY LenProperties
<1>6. ASSUME NEW i \in 1 .. kept PROVE st.remainder[i] = file'[off - kept + i]
  <2>1. kept <= len /\ len <= off
    BY <1>1, <1>2
  <2>2. off - kept + i \in 1 .. Len(file)
    BY <1>2, <1>5, <2>1
  <2> QED BY <1>1, <1>3, <2>2
<1>7. ASSUME NEW n \in (off - len + 1) .. off PROVE file'[n].kind # Newline
  <2>1. n \in 1 .. Len(file)
    <3>1. len <= off
      BY <1>1
    <3> QED BY <1>2, <1>5, <3>1
  <2> QED BY <1>1, <1>3, <2>1
<1>8. off - len \in Boundaries' /\ st.decoder \in [Streams -> Pendings']
  BY <1>1, <1>4
<1>9. len <= off /\ kept = IF len > MaxRemainder THEN MaxRemainder ELSE len
  BY <1>1
<1>10. MaxRead <= MaxRemainder => (st.overflow_tainted <=> len > MaxRemainder)
  BY <1>1
<1> QED BY ONLY <1>6, <1>7, <1>8, <1>9, <1>10 DEF Framed, len, kept

(* What was processed stays processed.                                     *)
LEMMA ProcessedStays ==
  ASSUME Grows, emitted \subseteq emitted', discarded \subseteq discarded',
         NEW n \in DOMAIN file, Processed(n)
  PROVE  Processed(n)'
<1>1. file'[n] = file[n]
  BY DEF Grows
<1> QED BY <1>1 DEF Processed

(* The stored checkpoint stays what it is when the file grows.             *)
LEMMA DurableStays ==
  ASSUME TypeOK, FileState, DurableState, Grows, durable' = durable,
         emitted \subseteq emitted', discarded \subseteq discarded'
  PROVE  DurableState'
<1>1. file \in Seq(Byte) /\ Len(file) \in Nat /\ DOMAIN file = 1 .. Len(file)
      /\ durable.offset \in Nat
  BY LenProperties DEF TypeOK
<1>2. Boundaries \subseteq Boundaries' /\ \A n \in DOMAIN file : PartialLine(n) => PartialLine(n)'
  BY <1>1, GrowsKeeps
<1>3. gen' = gen /\ durable.gen <= gen
  BY DEF Grows, DurableState
<1>4. ASSUME durable.gen = gen
      PROVE  /\ durable.offset \in Boundaries'
             /\ \A n \in 1 .. durable.offset : Processed(n)' \/ PartialLine(n)'
  <2>1. durable.offset \in Boundaries
        /\ \A n \in 1 .. durable.offset : Processed(n) \/ PartialLine(n)
    BY <1>4 DEF DurableState
  <2>2. durable.offset <= Len(file)
    BY <1>1, <2>1, BoundaryTypes
  <2>3. ASSUME NEW n \in 1 .. durable.offset PROVE Processed(n)' \/ PartialLine(n)'
    <3>1. n \in DOMAIN file
      BY <1>1, <2>2
    <3>2. Processed(n) => Processed(n)'
      BY <3>1, ProcessedStays
    <3> QED BY <1>2, <2>1, <3>1, <3>2
  <2> QED BY <1>2, <2>1, <2>3
<1> QED BY <1>3, <1>4 DEF DurableState

(* Records stay records, and new ones are added.                           *)
LEMMA EmittedStay ==
  ASSUME file \in Seq(Byte), FileState, Grows, emitted \subseteq Messages,
         NEW new, new \subseteq Messages, emitted' = emitted \cup new
  PROVE  (emitted \subseteq Messages)'
  BY GrowsKeeps

(* A byte that a handler accounts for is accounted for.                    *)
LEMMA CoveredIsAccounted ==
  ASSUME NEW result, NEW n, Covers(result, file[n]), file'[n] = file[n],
         result.emitted \subseteq emitted', result.discarded \subseteq discarded',
         \/ source' # None /\ source' = result.state
         \/ ~HeldBy(result.state, file[n])
  PROVE  Processed(n)' \/ Held(n)'
  BY DEF Covers, HeldBy, Processed, Held

-----------------------------------------------------------------------------
(* The steps.                                                              *)

(* Nothing is read yet.                                                    *)
LEMMA FramingInit == Init => FramingInv
<1> SUFFICES ASSUME Init PROVE FramingInv
  OBVIOUS
<1>1. <<>> \in Seq(Byte) /\ Len(<<>>) = 0 /\ DOMAIN <<>> = {}
  BY EmptyPending, LenProperties
<1>2. 0 \in 0 .. MaxTruncations /\ 0 \in 0 .. MaxRestarts /\ 0 \in 0 .. MaxLength
  BY FramingAssumptions
<1>3. TypeOK
  BY <1>1, <1>2 DEF Init, TypeOK
<1>4. FileState
  BY <1>1 DEF Init, FileState
<1>5. 0 \in Boundaries /\ 1 .. 0 = {}
  BY DEF Boundaries
<1>6. SourceFramed /\ DurableState /\ emitted \subseteq Messages /\ BytesAccountedFor
  BY <1>5 DEF Init, SourceFramed, DurableState, BytesAccountedFor
<1> QED BY <1>3, <1>4, <1>6 DEF FramingInv

(* A source that keeps its state keeps it framed when the file grows.      *)
LEMMA SourceStays ==
  ASSUME TypeOK, FileState, SourceFramed, Grows, source' = source, offset' = offset
  PROVE  SourceFramed'
<1>1. file \in Seq(Byte) /\ offset \in Nat /\ offset <= Len(file)
  BY LenProperties DEF TypeOK
<1>2. CASE source = None
  <2>1. Boundaries \subseteq Boundaries'
    BY <1>1, GrowsKeeps
  <2> QED BY <1>2, <2>1 DEF SourceFramed
<1>3. CASE source # None
  <2>1. PICK st, off : st = source /\ off = offset
    OBVIOUS
  <2>2. st \in SourceState /\ off \in Nat /\ off <= Len(file) /\ Framed(st, off)
    BY <1>1, <1>3, <2>1 DEF TypeOK, SourceFramed
  <2>3. Framed(st, off)'
    BY <1>1, <2>2, GrowsFramed
  <2>4. source' = st /\ offset' = off
    BY <2>1
  <2>5. Framed(source, offset)'
    BY <2>3, <2>4
  <2> QED BY <1>3, <2>5 DEF SourceFramed
<1> QED BY <1>2, <1>3

(* What is accounted for stays so when the file grows.                     *)
LEMMA AccountStays ==
  ASSUME TypeOK, FileState, BytesAccountedFor, Grows, source' = source, offset' = offset,
         restarts' = restarts, emitted \subseteq emitted', discarded \subseteq discarded'
  PROVE  BytesAccountedFor'
<1>1. file \in Seq(Byte) /\ Len(file) \in Nat /\ DOMAIN file = 1 .. Len(file)
      /\ offset \in 0 .. Len(file)
  BY LenProperties DEF TypeOK
<1>2. \A n \in DOMAIN file : PartialLine(n) => PartialLine(n)'
  BY <1>1, GrowsKeeps
<1>3. ASSUME NEW n \in 1 .. offset
      PROVE  Processed(n)' \/ Held(n)' \/ (restarts > 0 /\ PartialLine(n)')
  <2>1. n \in DOMAIN file
    BY <1>1
  <2>2. Processed(n) => Processed(n)'
    BY <2>1, ProcessedStays
  <2>3. Held(n) => Held(n)'
    BY <2>1 DEF Held, Grows
  <2>4. Processed(n) \/ Held(n) \/ (restarts > 0 /\ PartialLine(n))
    BY DEF BytesAccountedFor
  <2> QED BY <1>2, <2>1, <2>2, <2>3, <2>4
<1> QED BY <1>3 DEF BytesAccountedFor

(* The log grows by a byte.                                                *)
LEMMA WriteFramed ==
  ASSUME FramingInv, NEW kind \in Kinds, Write(kind)
  PROVE  FramingInv'
<1>1. /\ TypeOK /\ FileState /\ SourceFramed /\ DurableState /\ BytesAccountedFor
      /\ emitted \subseteq Messages
  BY DEF FramingInv
<1>2. file \in Seq(Byte) /\ Len(file) \in Nat /\ DOMAIN file = 1 .. Len(file) /\ Len(file) < MaxLength
      /\ MaxLength \in Nat /\ gen \in 0 .. MaxTruncations
  BY <1>1, LenProperties, FramingAssumptions DEF TypeOK, Write
<1> DEFINE b == [gen |-> gen, pos |-> Len(file) + 1, kind |-> kind]
<1>3. b \in Byte /\ b.gen = gen /\ b.pos = Len(file) + 1
  BY <1>2 DEF Byte
<1> HIDE DEF b
<1>4. /\ file' \in Seq(Byte) /\ Len(file') = Len(file) + 1 /\ file'[Len(file) + 1] = b
      /\ \A i \in 1 .. Len(file) : file'[i] = file[i]
  <2>1. file' = Append(file, b)
    BY DEF Write, b
  <2> QED BY <1>2, <1>3, <2>1, AppendProperties
<1>5. DOMAIN file' = 1 .. Len(file) + 1
  BY <1>4, LenProperties
<1>6. /\ format' = format /\ gen' = gen /\ offset' = offset /\ source' = source
      /\ durable' = durable /\ restarts' = restarts
      /\ emitted' = emitted /\ discarded' = discarded /\ cuts' = cuts
  BY DEF Write, ghostVars
<1>7. Grows
  BY <1>2, <1>4, <1>5, <1>6 DEF Grows
<1>8. TypeOK'
  <2>1. Len(file') <= MaxLength
    BY <1>2, <1>4
  <2>2. offset \in 0 .. Len(file')
    BY <1>1, <1>2, <1>4 DEF TypeOK
  <2> QED BY <1>1, <1>4, <1>6, <2>1, <2>2 DEF TypeOK
<1>9. FileState'
  <2>1. ASSUME NEW n \in 1 .. Len(file) + 1 PROVE file'[n].gen = gen /\ file'[n].pos = n
    <3>1. CASE n = Len(file) + 1
      BY <1>3, <1>4, <3>1
    <3>2. CASE n # Len(file) + 1
      <4>1. n \in 1 .. Len(file)
        BY <1>2, <3>2
      <4> QED BY <1>1, <1>2, <1>4, <4>1 DEF FileState
    <3> QED BY <3>1, <3>2
  <2>2. 0 .. Len(file) \subseteq 0 .. Len(file')
    BY <1>2, <1>4
  <2>3. cuts \subseteq 0 .. Len(file')
    BY <1>1, <2>2 DEF FileState
  <2> QED BY <1>5, <1>6, <2>1, <2>3 DEF FileState
<1>10. SourceFramed'
  BY <1>1, <1>6, <1>7, SourceStays
<1>11. DurableState'
  BY <1>1, <1>6, <1>7, DurableStays
<1>12. (emitted \subseteq Messages)'
  BY <1>1, <1>2, <1>6, <1>7, EmittedStay
<1>13. BytesAccountedFor'
  BY <1>1, <1>6, <1>7, AccountStays
<1> QED BY <1>8, <1>9, <1>10, <1>11, <1>12, <1>13 DEF FramingInv

(* A truncated file starts again; its checkpoint is that of another file.  *)
LEMMA TruncatedFramed ==
  ASSUME FramingInv, Truncated
  PROVE  FramingInv'
<1>1. TypeOK /\ DurableState
  BY DEF FramingInv
<1>2. gen \in 0 .. MaxTruncations /\ gen < MaxTruncations /\ MaxTruncations \in Nat
      /\ durable.gen \in 0 .. MaxTruncations /\ durable.gen <= gen
  BY <1>1, FramingAssumptions DEF TypeOK, Truncated, DurableState
<1>3. gen' = gen + 1 /\ gen' \in 0 .. MaxTruncations /\ durable.gen <= gen' /\ durable.gen # gen'
  BY <1>2 DEF Truncated
<1>4. <<>> \in Seq(Byte) /\ Len(<<>>) = 0 /\ DOMAIN <<>> = {} /\ MaxLength \in Nat
  BY EmptyPending, LenProperties, FramingAssumptions
<1>5. /\ file' = <<>> /\ offset' = 0 /\ source' = None /\ emitted' = {} /\ cuts' = {}
      /\ format' = format /\ durable' = durable /\ restarts' = restarts
  BY DEF Truncated
<1>6. TypeOK'
  <2>1. Len(file') = 0 /\ 0 <= MaxLength /\ 0 \in 0 .. 0
    BY <1>4, <1>5
  <2>2. format \in Formats /\ durable \in [gen : 0 .. MaxTruncations, offset : 0 .. MaxLength]
        /\ restarts \in 0 .. MaxRestarts
    BY <1>1 DEF TypeOK
  <2> QED BY <1>3, <1>4, <1>5, <2>1, <2>2 DEF TypeOK
<1>7. FileState'
  BY <1>4, <1>5 DEF FileState
<1>8. 0 \in Boundaries'
  BY DEF Boundaries
<1>9. SourceFramed' /\ (emitted \subseteq Messages)'
  BY <1>5, <1>8 DEF SourceFramed
<1>10. DurableState'
  BY <1>3, <1>5 DEF DurableState
<1>11. BytesAccountedFor'
  BY <1>5 DEF BytesAccountedFor
<1> QED BY <1>6, <1>7, <1>9, <1>10, <1>11 DEF FramingInv

(* A read.                                                                 *)
LEMMA DataFramed ==
  ASSUME FramingInv, NEW n \in 1 .. MaxRead, Data(n)
  PROVE  FramingInv'
<1>1. /\ TypeOK /\ FileState /\ SourceFramed /\ DurableState /\ BytesAccountedFor
      /\ emitted \subseteq Messages
  BY DEF FramingInv
<1>2. /\ file \in Seq(Byte) /\ Len(file) \in Nat /\ DOMAIN file = 1 .. Len(file) /\ offset \in Nat
      /\ offset + n <= Len(file) /\ n \in Nat
  BY <1>1, LenProperties, FramingAssumptions DEF TypeOK, Data
<1>3. /\ format' = format /\ file' = file /\ gen' = gen /\ cuts' = cuts
      /\ offset' = offset + n /\ durable' = durable /\ restarts' = restarts
  BY DEF Data, fileVars
<1>4. PICK r, off : r = Read(Current, SubSeq(file, offset + 1, offset + n)) /\ off = offset + n
  OBVIOUS
<1>5. /\ source' = r.state /\ emitted' = emitted \cup r.emitted
      /\ discarded' = discarded \cup r.discarded
  BY <1>4 DEF Data, Current
<1>6. /\ Current \in SourceState /\ Framed(Current, offset)
      /\ \A i : Held(i) => HeldBy(Current, file[i])
  BY <1>1, CurrentFramed
<1>7. /\ r.state \in SourceState /\ Framed(r.state, offset + n)
      /\ r.emitted \subseteq Messages
      /\ \A b : HeldBy(Current, b) => Covers(r, b)
      /\ \A i \in 1 .. n : Covers(r, file[offset + i])
  <2> DEFINE st == Current
             bytes == SubSeq(file, offset + 1, offset + n)
  <2>1. /\ file \in Seq(Byte) /\ FileState /\ offset \in Nat /\ st \in SourceState /\ Framed(st, offset)
        /\ n \in 1 .. MaxRead /\ offset + n <= Len(file)
    BY <1>1, <1>2, <1>6
  <2>2. bytes = SubSeq(file, offset + 1, offset + n)
    OBVIOUS
  <2>3. r = Read(st, bytes)
    BY <1>4
  <2> HIDE DEF st, bytes
  <2>4. /\ Read(st, bytes).state \in SourceState
        /\ Framed(Read(st, bytes).state, offset + n)
        /\ Read(st, bytes).emitted \subseteq Messages
        /\ \A b : HeldBy(st, b) => Covers(Read(st, bytes), b)
        /\ \A i \in 1 .. n : Covers(Read(st, bytes), file[offset + i])
    BY ONLY <2>1, <2>2, ReadFacts
  <2> QED BY <2>3, <2>4 DEF st
<1>8. r.state # None
  BY <1>7, StateAssumption
<1>9. Grows
  BY <1>2, <1>3 DEF Grows
<1>10. PICK st : st = r.state
  OBVIOUS
<1>11. Framed(st, off)'
  <2>1. st \in SourceState /\ off \in Nat /\ off <= Len(file) /\ Framed(st, off)
    BY <1>2, <1>4, <1>7, <1>10
  <2> QED BY <1>1, <1>2, <1>9, <2>1, GrowsFramed
<1>12. source' = st /\ offset' = off
  BY <1>3, <1>4, <1>5, <1>10
<1>13. SourceFramed'
  <2>1. Framed(source, offset)'
    BY <1>11, <1>12
  <2> QED BY <1>5, <1>8, <2>1 DEF SourceFramed
<1>14. TypeOK'
  <2>1. /\ Len(st.remainder) <= MaxRemainder
        /\ \A s \in Streams : Len(st.decoder[s]) <= MaxRemainder
    BY <1>4, <1>7, <1>10, FramedBuffers
  <2>2. offset + n \in 0 .. Len(file)
    BY <1>2
  <2>3. source' \in SourceState \cup {None} /\ source' = st
    BY <1>5, <1>7, <1>10
  <2> QED BY <1>1, <1>3, <2>1, <2>2, <2>3 DEF TypeOK
<1>15. FileState'
  BY <1>1, <1>3 DEF FileState
<1>16. emitted \subseteq emitted' /\ discarded \subseteq discarded'
  BY <1>5
<1>17. DurableState'
  BY <1>1, <1>3, <1>9, <1>16, DurableStays
<1>18. (emitted \subseteq Messages)'
  <2>1. PICK new : new = r.emitted
    OBVIOUS
  <2>2. new \subseteq Messages /\ emitted' = emitted \cup new
    BY <1>5, <1>7, <2>1
  <2> QED BY <1>1, <1>2, <1>9, <2>2, EmittedStay
<1>19. BytesAccountedFor'
  <2>1. ASSUME NEW i, Covers(r, file[i]) PROVE Processed(i)' \/ Held(i)'
    <3>1. /\ file'[i] = file[i] /\ r.emitted \subseteq emitted' /\ r.discarded \subseteq discarded'
          /\ source' # None /\ source' = r.state
      BY <1>3, <1>5, <1>8
    <3> QED BY <2>1, <3>1, CoveredIsAccounted
  <2>2. ASSUME NEW i \in 1 .. offset + n
        PROVE  Processed(i)' \/ Held(i)' \/ (restarts' > 0 /\ PartialLine(i)')
    <3>1. CASE i <= offset
      <4>1. i \in 1 .. offset /\ i \in DOMAIN file
        BY <1>2, <3>1
      <4>2. Processed(i) \/ Held(i) \/ (restarts > 0 /\ PartialLine(i))
        BY <1>1, <4>1 DEF BytesAccountedFor
      <4>3. Processed(i) => Processed(i)'
        BY <1>9, <1>16, <4>1, ProcessedStays
      <4>4. Held(i) => Processed(i)' \/ Held(i)'
        BY <1>6, <1>7, <2>1
      <4>5. PartialLine(i) => PartialLine(i)'
        BY <1>1, <1>2, <1>9, <4>1, GrowsKeeps
      <4> QED BY <1>3, <4>2, <4>3, <4>4, <4>5
    <3>2. CASE ~(i <= offset)
      <4>1. i - offset \in 1 .. n /\ offset + (i - offset) = i
        BY <1>2, <3>2
      <4>2. Covers(r, file[i])
        BY <1>7, <4>1
      <4> QED BY <2>1, <4>2
    <3> QED BY <3>1, <3>2
  <2> QED BY <1>3, <2>2 DEF BytesAccountedFor
<1> QED BY <1>13, <1>14, <1>15, <1>17, <1>18, <1>19 DEF FramingInv

(* An end of file.                                                         *)
LEMMA EndOfFileFramed ==
  ASSUME FramingInv, EndOfFile
  PROVE  FramingInv'
<1>1. /\ TypeOK /\ FileState /\ SourceFramed /\ DurableState /\ BytesAccountedFor
      /\ emitted \subseteq Messages
  BY DEF FramingInv
<1>2. /\ file \in Seq(Byte) /\ Len(file) \in Nat /\ DOMAIN file = 1 .. Len(file) /\ offset \in Nat
      /\ offset <= Len(file) /\ gen \in 0 .. MaxTruncations
      /\ source # None /\ source \in SourceState /\ Framed(source, offset)
  BY <1>1, LenProperties DEF TypeOK, EndOfFile, SourceFramed
<1>3. /\ format' = format /\ file' = file /\ gen' = gen
      /\ offset' = offset /\ durable' = durable /\ restarts' = restarts
  BY DEF EndOfFile, fileVars
<1>4. PICK r : r = FlushRemainder(source)
  OBVIOUS
<1>5. /\ source' = IF IsReclaimable(r.state) THEN None ELSE r.state
      /\ emitted' = emitted \cup r.emitted /\ discarded' = discarded \cup r.discarded
      /\ cuts' = IF source.remainder = <<>> THEN cuts ELSE cuts \cup {offset}
  BY <1>4 DEF EndOfFile
<1>6. Grows
  BY <1>2, <1>3, <1>5 DEF Grows
<1>7. /\ r.state \in SourceState /\ r.emitted \subseteq Messages /\ Framed(r.state, offset)'
      /\ offset \in Boundaries' \/ ~IsReclaimable(r.state)
      /\ \A b : HeldBy(source, b) => Covers(r, b)
  <2>1. PICK st, off : st = r.state /\ off = offset
    OBVIOUS
  <2>2. CASE source.remainder = <<>>
    <3>1. r = [state |-> source, emitted |-> {}, discarded |-> {}]
      BY <1>4, <2>2 DEF FlushRemainder
    <3>2. r.state = source /\ r.emitted = {}
      BY <3>1
    <3>3. st \in SourceState /\ off \in Nat /\ off <= Len(file) /\ Framed(st, off)
      BY <1>2, <2>1, <3>2
    <3>4. Framed(st, off)'
      BY <1>1, <1>2, <1>6, <3>3, GrowsFramed
    <3>5. offset \in Boundaries
      <4>1. Len(source.remainder) = 0
        BY <2>2, EmptyPending
      <4>2. source.tracker.remainder_len \in Nat /\ MaxRemainder \in Nat \ {0}
        BY <1>2, FramingAssumptions DEF SourceState
      <4>3. /\ offset - source.tracker.remainder_len \in Boundaries
            /\ 0 = IF source.tracker.remainder_len > MaxRemainder
                   THEN MaxRemainder ELSE source.tracker.remainder_len
        BY <1>2, <4>1 DEF Framed
      <4>4. source.tracker.remainder_len = 0
        BY <4>2, <4>3
      <4>5. offset - 0 = offset
        BY <1>2
      <4> QED BY <4>3, <4>4, <4>5
    <3>6. offset \in Boundaries'
      BY <1>1, <1>2, <1>6, <3>5, GrowsKeeps
    <3>7. Framed(r.state, offset)'
      BY <1>3, <2>1, <3>4
    <3>8. \A b : HeldBy(source, b) => Covers(r, b)
      BY <3>2 DEF Covers
    <3> QED BY <1>2, <3>2, <3>6, <3>7, <3>8
  <2>3. CASE source.remainder # <<>>
    <3> DEFINE src == source
    <3>1. /\ file \in Seq(Byte) /\ FileState /\ gen \in 0 .. MaxTruncations
          /\ offset \in Nat /\ offset <= Len(file)
          /\ src \in SourceState /\ Framed(src, offset) /\ src.remainder # <<>>
      BY <1>1, <1>2, <2>3
    <3> HIDE DEF src
    <3>2. /\ FlushRemainder(src).state \in SourceState
          /\ FlushRemainder(src).state.remainder = <<>>
          /\ FlushRemainder(src).state.tracker.remainder_len = 0
          /\ FlushRemainder(src).state.overflow_tainted = FALSE
          /\ FlushRemainder(src).state.decoder \in [Streams -> Pendings]
          /\ FlushRemainder(src).emitted \subseteq Messages
          /\ \A b : HeldBy(src, b) => Covers(FlushRemainder(src), b)
      BY ONLY <3>1, FlushFacts
    <3>3. r = FlushRemainder(src)
      BY <1>4 DEF src
    <3>4. /\ st \in SourceState /\ st.remainder = <<>> /\ st.tracker.remainder_len = 0
          /\ st.overflow_tainted = FALSE /\ st.decoder \in [Streams -> Pendings]
      BY <2>1, <3>2, <3>3
    <3>5. r.emitted \subseteq Messages /\ \A b : HeldBy(source, b) => Covers(r, b)
      BY <3>2, <3>3 DEF src
    <3>6. off \in Boundaries'
      BY <1>5, <2>1, <2>3 DEF Boundaries
    <3>7. st.decoder \in [Streams -> Pendings']
      BY <1>1, <1>2, <1>6, <3>4, GrowsKeeps
    <3>8. /\ Len(st.remainder) = 0 /\ MaxRemainder \in Nat \ {0} /\ off \in Nat
          /\ off - 0 = off
      BY <1>2, <2>1, <3>4, EmptyPending, FramingAssumptions
    <3>9. /\ 1 .. 0 = {} /\ (off - 0 + 1) .. off = {} /\ ~(0 > MaxRemainder)
      BY <3>8
    <3>10. Framed(st, off)'
      BY <3>4, <3>6, <3>7, <3>8, <3>9 DEF Framed
    <3>11. Framed(r.state, offset)'
      BY <1>3, <2>1, <3>10
    <3> QED BY <2>1, <3>4, <3>5, <3>6, <3>11
  <2> QED BY <2>2, <2>3
<1>8. r.state # None
  BY <1>7, StateAssumption
<1>9. SourceFramed'
  <2>1. CASE IsReclaimable(r.state)
    BY <1>3, <1>5, <1>7, <2>1 DEF SourceFramed
  <2>2. CASE ~IsReclaimable(r.state)
    <3>1. source' = r.state
      BY <1>5, <2>2
    <3>2. Framed(source, offset)'
      BY <1>7, <3>1
    <3> QED BY <1>8, <3>1, <3>2 DEF SourceFramed
  <2> QED BY <2>1, <2>2
<1>10. TypeOK'
  <2>1. ASSUME source' # None
        PROVE  /\ Len(source'.remainder) <= MaxRemainder
               /\ \A s \in Streams : Len(source'.decoder[s]) <= MaxRemainder
    <3>1. PICK st, off : st = r.state /\ off = offset
      OBVIOUS
    <3>2. source' = st
      BY <1>5, <2>1, <3>1
    <3>3. Len(st.remainder) <= MaxRemainder
          /\ \A s \in Streams : Len(st.decoder[s]) <= MaxRemainder
      <4>1. /\ Len(st.remainder) = IF st.tracker.remainder_len > MaxRemainder
                                   THEN MaxRemainder ELSE st.tracker.remainder_len
            /\ st.decoder \in [Streams -> Pendings']
        BY <1>7, <3>1 DEF Framed
      <4>2. st.tracker.remainder_len \in Nat /\ MaxRemainder \in Nat
        BY <1>7, <3>1, FramingAssumptions DEF SourceState
      <4>3. \A m \in Pendings' : Len(m) <= MaxRemainder
        BY DEF Pendings
      <4>4. Len(st.remainder) <= MaxRemainder
        BY <4>1, <4>2
      <4> QED BY <4>1, <4>3, <4>4
    <3> QED BY <3>2, <3>3
  <2>2. source' \in SourceState \cup {None}
    BY <1>5, <1>7
  <2> QED BY <1>1, <1>3, <2>1, <2>2 DEF TypeOK
<1>11. FileState'
  <2>1. cuts' \subseteq 0 .. Len(file)
    BY <1>1, <1>2, <1>5 DEF FileState
  <2> QED BY <1>1, <1>3, <2>1 DEF FileState
<1>12. emitted \subseteq emitted' /\ discarded \subseteq discarded'
  BY <1>5
<1>13. DurableState'
  BY <1>1, <1>3, <1>6, <1>12, DurableStays
<1>14. (emitted \subseteq Messages)'
  <2>1. PICK new : new = r.emitted
    OBVIOUS
  <2>2. new \subseteq Messages /\ emitted' = emitted \cup new
    BY <1>5, <1>7, <2>1
  <2> QED BY <1>1, <1>2, <1>6, <2>2, EmittedStay
<1>15. BytesAccountedFor'
  <2>1. ASSUME NEW i \in 1 .. offset
        PROVE  Processed(i)' \/ Held(i)' \/ (restarts' > 0 /\ PartialLine(i)')
    <3>1. i \in DOMAIN file
      BY <1>2
    <3>2. Processed(i) \/ Held(i) \/ (restarts > 0 /\ PartialLine(i))
      BY <1>1 DEF BytesAccountedFor
    <3>3. Processed(i) => Processed(i)'
      BY <1>6, <1>12, <3>1, ProcessedStays
    <3>4. ASSUME Held(i) PROVE Processed(i)' \/ Held(i)'
      <4>1. Covers(r, file[i])
        BY <1>7, <3>4 DEF Held, HeldBy
      <4>2. file'[i] = file[i] /\ r.emitted \subseteq emitted' /\ r.discarded \subseteq discarded'
        BY <1>3, <1>5
      <4>3. (source' # None /\ source' = r.state) \/ ~HeldBy(r.state, file[i])
        <5>1. CASE IsReclaimable(r.state)
          BY <5>1, EmptyPending DEF IsReclaimable, HeldBy
        <5>2. CASE ~IsReclaimable(r.state)
          BY <1>5, <1>8, <5>2
        <5> QED BY <5>1, <5>2
      <4> QED BY <4>1, <4>2, <4>3, CoveredIsAccounted
    <3>5. PartialLine(i) => PartialLine(i)'
      BY <1>1, <1>2, <1>6, <3>1, GrowsKeeps
    <3> QED BY <1>3, <3>2, <3>3, <3>4, <3>5
  <2> QED BY <1>3, <2>1 DEF BytesAccountedFor
<1> QED BY <1>9, <1>10, <1>11, <1>13, <1>14, <1>15 DEF FramingInv

(* The checkpoint that would be reported now: an end of a line, with       *)
(* nothing before it in the remainder, and only partial lines pending.     *)
LEMMA CheckpointFacts ==
  ASSUME TypeOK, FileState, SourceFramed
  PROVE  /\ CheckpointAtBoundary /\ Checkpoint \in 0 .. offset /\ offset \in Nat
         /\ \A n \in 1 .. Checkpoint : Held(n) => PartialLine(n)
<1>1. /\ file \in Seq(Byte) /\ Len(file) \in Nat /\ DOMAIN file = 1 .. Len(file)
      /\ offset \in Nat /\ offset <= Len(file)
  BY LenProperties DEF TypeOK
<1>2. NewlinesIn(file) \subseteq 1 .. Len(file)
  BY <1>1 DEF NewlinesIn
<1>3. CASE source = None
  <2>1. Checkpoint = offset /\ offset \in Boundaries /\ \A n : ~Held(n)
    BY <1>3 DEF Checkpoint, SourceFramed, Held
  <2> QED BY <1>1, <1>3, <2>1 DEF CheckpointAtBoundary
<1>4. CASE source # None
  <2> DEFINE len == source.tracker.remainder_len
             kept == Len(source.remainder)
  <2>1. source \in SourceState /\ Framed(source, offset)
    BY <1>4 DEF TypeOK, SourceFramed
  <2>2. /\ len <= offset /\ offset - len \in Boundaries
        /\ kept = IF len > MaxRemainder THEN MaxRemainder ELSE len
        /\ \A i \in 1 .. kept : source.remainder[i] = file[offset - kept + i]
        /\ \A n \in (offset - len + 1) .. offset : file[n].kind # Newline
        /\ source.decoder \in [Streams -> Pendings]
    BY <2>1 DEF Framed
  <2>3. len \in Nat /\ kept \in Nat /\ MaxRemainder \in Nat \ {0} /\ source.remainder \in Seq(Byte)
    BY <2>1, FramingAssumptions, LenProperties DEF SourceState
  <2>4. ~(len > offset) /\ len <= offset /\ kept = IF len > MaxRemainder THEN MaxRemainder ELSE len
    BY <1>1, <2>2, <2>3
  <2>5. Checkpoint = offset - len
    BY <1>4, <2>4 DEF Checkpoint
  <2> HIDE DEF len, kept
  <2>6. offset - len \in 0 .. offset /\ kept <= len /\ (kept = 0 => len = 0)
    BY <1>1, <2>3, <2>4
  <2>7. ASSUME NEW n \in NewlinesIn(file), n <= offset PROVE n <= offset - len
    <3>1. n \in 1 .. Len(file) /\ file[n].kind = Newline
      BY <1>2 DEF NewlinesIn
    <3>2. n \notin (offset - len + 1) .. offset
      BY <2>2, <3>1
    <3> QED BY <1>1, <2>3, <2>4, <2>7, <3>1, <3>2
  <2>8. source.remainder = <<>> => offset - len = offset
    <3>1. source.remainder = <<>> => kept = 0
      BY EmptyPending DEF kept
    <3> QED BY <1>1, <2>3, <2>6, <3>1
  <2>9. CheckpointAtBoundary
    BY <2>2, <2>5, <2>7, <2>8 DEF CheckpointAtBoundary
  <2>10. ASSUME NEW n \in 1 .. offset - len, Held(n) PROVE PartialLine(n)
    <3>1. n \in 1 .. Len(file) /\ file[n].pos = n
      BY <1>1, <2>6 DEF FileState
    <3>2. ~(file[n] \in Range(source.remainder))
      <4> SUFFICES ASSUME file[n] \in Range(source.remainder) PROVE FALSE
        OBVIOUS
      <4>1. PICK i \in 1 .. kept : file[n] = source.remainder[i]
        BY <2>3, RangeFacts DEF kept
      <4>2. file[n] = file[offset - kept + i]
        BY <2>2, <4>1
      <4>3. offset - kept + i \in 1 .. Len(file)
        BY <1>1, <2>3, <2>4, <2>6, <4>1
      <4>4. file[offset - kept + i].pos = offset - kept + i
        BY <1>1, <4>3 DEF FileState
      <4>5. n = offset - kept + i
        BY <3>1, <4>2, <4>4
      <4> QED BY <1>1, <2>3, <2>6, <4>1, <4>5
    <3>3. PICK s \in Streams : file[n] \in Range(source.decoder[s])
      BY <2>10, <3>2 DEF Held
    <3>4. source.decoder[s] \in Pendings
      BY <2>2, <3>3
    <3>5. PartialLine(file[n].pos)
      BY <3>3, <3>4 DEF Pendings
    <3> QED BY <3>1, <3>5
  <2> QED BY <1>1, <2>5, <2>6, <2>9, <2>10
<1> QED BY <1>3, <1>4

(* A checkpoint is stored.                                                 *)
LEMMA PersistFramed ==
  ASSUME FramingInv, Persist
  PROVE  FramingInv'
<1>1. /\ TypeOK /\ FileState /\ SourceFramed /\ DurableState /\ BytesAccountedFor
      /\ emitted \subseteq Messages
  BY DEF FramingInv
<1>2. file \in Seq(Byte) /\ Len(file) \in Nat /\ Len(file) <= MaxLength /\ offset \in 0 .. Len(file)
      /\ MaxLength \in Nat /\ gen \in 0 .. MaxTruncations
  BY <1>1, LenProperties, FramingAssumptions DEF TypeOK
<1>3. /\ format' = format /\ file' = file /\ gen' = gen /\ offset' = offset /\ source' = source
      /\ restarts' = restarts /\ emitted' = emitted /\ discarded' = discarded /\ cuts' = cuts
      /\ durable' = [gen |-> gen, offset |-> Checkpoint]
  BY DEF Persist, fileVars, ghostVars
<1>4. Grows
  BY <1>2, <1>3 DEF Grows
<1>5. /\ CheckpointAtBoundary /\ Checkpoint \in 0 .. offset
      /\ \A n \in 1 .. Checkpoint : Held(n) => PartialLine(n)
  BY <1>1, CheckpointFacts
<1>6. durable' \in [gen : 0 .. MaxTruncations, offset : 0 .. MaxLength]
  <2>1. Checkpoint \in 0 .. MaxLength
    BY <1>2, <1>5
  <2> QED BY <1>2, <1>3, <2>1
<1>7. TypeOK'
  BY <1>1, <1>3, <1>6 DEF TypeOK
<1>8. FileState'
  BY <1>1, <1>3 DEF FileState
<1>9. SourceFramed'
  BY <1>1, <1>3, <1>4, SourceStays
<1>10. BytesAccountedFor'
  BY <1>1, <1>3, <1>4, AccountStays
<1>11. (emitted \subseteq Messages)'
  BY <1>1, <1>2, <1>3, <1>4, EmittedStay
<1>12. DurableState'
  <2>1. PICK c : c = Checkpoint
    OBVIOUS
  <2>2. durable'.gen = gen /\ durable'.offset = c
    BY <1>3, <2>1
  <2>3. c \in Boundaries'
    BY <1>3, <1>5, <2>1 DEF CheckpointAtBoundary, Boundaries
  <2>4. ASSUME NEW n \in 1 .. c PROVE Processed(n)' \/ PartialLine(n)'
    <3>1. n \in 1 .. offset
      BY <1>2, <1>5, <2>1
    <3>2. n \in DOMAIN file
      BY <1>2, <3>1, LenProperties
    <3>3. Processed(n) \/ PartialLine(n)
      BY <1>1, <1>5, <2>1, <3>1 DEF BytesAccountedFor
    <3>4. Processed(n) => Processed(n)'
      BY <1>3, <1>4, <3>2, ProcessedStays
    <3>5. PartialLine(n) => PartialLine(n)'
      BY <1>1, <1>2, <1>4, <3>2, GrowsKeeps
    <3> QED BY <3>3, <3>4, <3>5
  <2>5. durable'.gen <= gen'
    BY <1>2, <1>3, <2>2
  <2> QED BY <2>2, <2>3, <2>4, <2>5 DEF DurableState
<1> QED BY <1>7, <1>8, <1>9, <1>10, <1>11, <1>12 DEF FramingInv

(* A restart resumes at the stored checkpoint, or at the beginning of a    *)
(* file that the store does not know.                                      *)
LEMMA RestartFramed ==
  ASSUME FramingInv, Restart
  PROVE  FramingInv'
<1>1. /\ TypeOK /\ FileState /\ SourceFramed /\ DurableState /\ BytesAccountedFor
      /\ emitted \subseteq Messages
  BY DEF FramingInv
<1>2. file \in Seq(Byte) /\ Len(file) \in Nat /\ DOMAIN file = 1 .. Len(file)
      /\ restarts \in 0 .. MaxRestarts /\ MaxRestarts \in Nat /\ restarts < MaxRestarts
      /\ durable.offset \in 0 .. MaxLength
  BY <1>1, LenProperties, FramingAssumptions DEF TypeOK, Restart
<1>3. /\ format' = format /\ file' = file /\ gen' = gen /\ cuts' = cuts /\ source' = None
      /\ restarts' = restarts + 1 /\ emitted' = emitted /\ discarded' = discarded
      /\ durable' = durable /\ offset' = IF durable.gen = gen THEN durable.offset ELSE 0
  BY DEF Restart, fileVars, ghostVars
<1>4. Grows
  BY <1>2, <1>3 DEF Grows
<1>5. offset' \in Boundaries
  BY <1>1, <1>2, <1>3, BoundaryTypes DEF DurableState
<1>6. offset' \in 0 .. Len(file)
  BY <1>1, <1>2, <1>5, BoundaryTypes
<1>7. restarts' \in 0 .. MaxRestarts /\ restarts' > 0
  BY <1>2, <1>3
<1>8. TypeOK'
  BY <1>1, <1>3, <1>6, <1>7 DEF TypeOK
<1>9. FileState'
  BY <1>1, <1>3 DEF FileState
<1>10. SourceFramed'
  <2>1. offset' \in Boundaries'
    BY <1>1, <1>2, <1>4, <1>5, GrowsKeeps
  <2> QED BY <1>3, <2>1 DEF SourceFramed
<1>11. DurableState'
  BY <1>1, <1>3, <1>4, DurableStays
<1>12. (emitted \subseteq Messages)'
  BY <1>1, <1>2, <1>3, <1>4, EmittedStay
<1>13. BytesAccountedFor'
  <2>1. ASSUME NEW n \in 1 .. offset' PROVE Processed(n)' \/ PartialLine(n)'
    <3>1. durable.gen = gen /\ n \in 1 .. durable.offset
      BY <1>3
    <3>2. Processed(n) \/ PartialLine(n)
      BY <1>1, <3>1 DEF DurableState
    <3>3. n \in DOMAIN file
      BY <1>2, <1>6
    <3>4. Processed(n) => Processed(n)'
      BY <1>3, <1>4, <3>3, ProcessedStays
    <3>5. PartialLine(n) => PartialLine(n)'
      BY <1>1, <1>2, <1>4, <3>3, GrowsKeeps
    <3> QED BY <3>2, <3>4, <3>5
  <2> QED BY <1>7, <2>1 DEF BytesAccountedFor
<1> QED BY <1>8, <1>9, <1>10, <1>11, <1>12, <1>13 DEF FramingInv

(* Stuttering steps.                                                       *)
LEMMA FramingStutters ==
  ASSUME FramingInv, UNCHANGED vars
  PROVE  FramingInv'
<1>1. /\ TypeOK /\ FileState /\ SourceFramed /\ DurableState /\ BytesAccountedFor
      /\ emitted \subseteq Messages
  BY DEF FramingInv
<1>2. /\ format' = format /\ file' = file /\ gen' = gen /\ offset' = offset /\ source' = source
      /\ durable' = durable /\ restarts' = restarts
      /\ emitted' = emitted /\ discarded' = discarded /\ cuts' = cuts
  BY DEF vars, fileVars, ghostVars
<1>3. file \in Seq(Byte)
  BY <1>1 DEF TypeOK
<1>4. Grows
  BY <1>2, <1>3 DEF Grows
<1>5. TypeOK' /\ FileState'
  BY <1>1, <1>2 DEF TypeOK, FileState
<1>6. SourceFramed' /\ BytesAccountedFor'
  BY <1>1, <1>2, <1>4, SourceStays, AccountStays
<1>7. DurableState' /\ (emitted \subseteq Messages)'
  BY <1>1, <1>2, <1>3, <1>4, DurableStays, EmittedStay
<1> QED BY <1>5, <1>6, <1>7 DEF FramingInv

-----------------------------------------------------------------------------
(* The theorems.                                                           *)

(* The framing invariant: the bytes since the last end of a line are what  *)
(* process_raw_events keeps or has cut, and the tracker counts them.       *)
THEOREM FramingInvariant == Spec => []FramingInv
<1>1. Init => FramingInv
  BY FramingInit
<1>2. FramingInv /\ [Next]_vars => FramingInv'
  <2> SUFFICES ASSUME FramingInv, [Next]_vars PROVE FramingInv'
    OBVIOUS
  <2>1. ASSUME NEW kind \in Kinds, Write(kind) PROVE FramingInv'
    BY <2>1, WriteFramed
  <2>2. CASE Truncated
    BY <2>2, TruncatedFramed
  <2>3. ASSUME NEW n \in 1 .. MaxRead, Data(n) PROVE FramingInv'
    BY <2>3, DataFramed
  <2>4. CASE EndOfFile
    BY <2>4, EndOfFileFramed
  <2>5. CASE Persist
    BY <2>5, PersistFramed
  <2>6. CASE Restart
    BY <2>6, RestartFramed
  <2>7. CASE UNCHANGED vars
    BY <2>7, FramingStutters
  <2> QED BY <2>1, <2>2, <2>3, <2>4, <2>5, <2>6, <2>7 DEF Next
<1> QED BY <1>1, <1>2, PTL DEF Spec

(* Type correctness, with the buffers of a source within their limits.     *)
THEOREM FramingTypes == Spec => []TypeOK
<1>1. FramingInv => TypeOK
  BY DEF FramingInv
<1> QED BY <1>1, FramingInvariant, PTL

(* What checkpoint_data reports is the end of a line, behind which no line *)
(* was completed, for all sizes of buffer and read: through overflows,     *)
(* ends of file in the middle of a line, truncation and restart.           *)
THEOREM CheckpointsAtBoundary == Spec => []CheckpointAtBoundary
<1>1. FramingInv => CheckpointAtBoundary
  BY CheckpointFacts DEF FramingInv
<1> QED BY <1>1, FramingInvariant, PTL

(* Every byte behind the read position was emitted, dropped on purpose or  *)
(* is buffered; after a crash only what partial CRI lines held is not.     *)
THEOREM BytesAccounted == Spec => []BytesAccountedFor
<1>1. FramingInv => BytesAccountedFor
  BY DEF FramingInv
<1> QED BY <1>1, FramingInvariant, PTL

(* If a read fits in the buffer, as with the default budget, no record     *)
(* begins in the middle of a line or mixes in bytes of an earlier file:    *)
(* the line completed from a cut remainder is dropped.                     *)
THEOREM NoFragments ==
  ASSUME MaxRead <= MaxRemainder
  PROVE  Spec => []NoGarbledFragment
<1>1. FramingInv => NoGarbledFragment
  <2> SUFFICES ASSUME FramingInv, NEW record \in emitted, NEW b \in Range(record)
               PROVE  /\ b.gen = gen
                      /\ \/ b.pos - 1 \in Boundaries
                         \/ file[b.pos - 1].kind \in Headers
                         \/ \E before \in Range(record) : before.pos = b.pos - 1
    BY DEF NoGarbledFragment
  <2>1. record \in Seq(Byte) /\ Contiguous(record)
    BY DEF FramingInv, Messages
  <2>2. PICK i \in 1 .. Len(record) : b = record[i]
    BY <2>1, RangeFacts
  <2>3. Len(record) \in Nat /\ DOMAIN record = 1 .. Len(record)
    BY <2>1, LenProperties
  <2>4. InFile(b) /\ (Begins(b) \/ (i > 1 /\ record[i - 1].pos = b.pos - 1))
    BY <2>1, <2>2, <2>3 DEF Contiguous
  <2>5. b.gen = gen
    BY <2>4 DEF FramingInv, FileState, InFile
  <2>6. CASE Begins(b)
    BY <2>5, <2>6 DEF Begins
  <2>7. CASE i > 1 /\ record[i - 1].pos = b.pos - 1
    <3>1. i - 1 \in 1 .. Len(record)
      BY <2>3, <2>7
    <3>2. record[i - 1] \in Range(record)
      BY <2>1, <3>1, RangeFacts
    <3> QED BY <2>5, <2>7, <3>2
  <2> QED BY <2>4, <2>6, <2>7
<1> QED BY <1>1, FramingInvariant, PTL
-----------------------------------------------------------------------------
(* The tailer below the framing.  Each is a specification of its own with  *)
(* the part of the file it needs; no step of one is a step of the other.   *)

(* The bytes in s were written.                                            *)
OldBytes(s) == s \in Seq(1 .. written)

(* What a handle remembers of its file: with a fingerprint it has read     *)
(* something to compare, and without one nothing was delivered.  It reads  *)
(* at its offset, unless a failed read has led it astray.                  *)
HandleOK(h) ==
    /\ h \in Files
    /\ OldBytes(h.fp) /\ OldBytes(h.cmp)
    /\ h.len > 0 => h.fp # <<>> /\ h.cmp # <<>>
    /\ h.inode \notin strayed => h.cursor = h.offset /\ (h.len = 0 => h.offset = 0)

(* The first byte tells whether a fingerprint is of the present content.   *)
Of(f, s) == f # <<>> /\ s # <<>> /\ f[1] = s[1]

(* Inodes of which an offset can be wrong.                                 *)
Blurred == raced \cup strayed \cup (unseen \ Linked)

(* The offset has only delivered bytes before it, if the content is still  *)
(* the one the fingerprint was taken from.                                 *)
Covered(i, f, off) ==
    i \notin Blurred /\ Of(f, content[i]) =>
       off <= Len(content[i]) /\ \A k \in 1 .. off : content[i][k] \notin owed

(* A handle, open or evicted.                                              *)
HandleInv(h) ==
    /\ HandleOK(h)
    /\ Covered(h.inode, h.fp, h.offset)
    /\ Covered(h.inode, h.cmp, h.offset)

(* Names, inodes and contents: an inode has at most one watched name.      *)
FsTypes ==
    /\ Nil \notin Inodes
    /\ {FingerprintBytes, Budget} \subseteq Nat \ {0} /\ MaxBytes \in Nat
    /\ written \in 0 .. MaxBytes
    /\ content \in [Inodes -> Seq(1 .. written)]
    /\ \A i \in Inodes : Len(content[i]) <= written
    /\ link \in [Paths -> Inodes \cup {Nil}]
    /\ \A p, q \in Paths : link[p] = link[q] /\ link[p] # Nil => p = q
    /\ elsewhere \subseteq Inodes

GhostTypes ==
    /\ unseen \subseteq Inodes /\ raced \subseteq Inodes /\ strayed \subseteq Inodes
    /\ owed \subseteq 1 .. written
    /\ abandoned \in BOOLEAN

PollTypes ==
    /\ DOMAIN files \cup DOMAIN evicted \subseteq watch /\ watch \subseteq Paths
    /\ pc \in {"idle", "rescan", "detect", "read", "cleanup", "stopped"}
    /\ todo \subseteq Paths
    /\ pc = "rescan" => todo \cap watch = {}
    /\ pc = "detect" => todo \subseteq watch
    /\ pc \in {"read", "cleanup"} => todo \subseteq DOMAIN files

(* The saved offsets.                                                      *)
SavedInv ==
    \A sid \in DOMAIN saved :
       /\ sid \in Inodes \X Seq(1 .. written)
       /\ saved[sid] \in Nat
       /\ Covered(sid[1], sid[2], saved[sid])

(* A handle is of the present content of its file, or at its beginning,    *)
(* unless the file was truncated behind the back of the tailer or a failed *)
(* read led the handle astray; if it was truncated between polls the       *)
(* handle is compared before it is read.                                   *)
InStep(p) ==
    LET h == files[p]
        i == h.inode
    IN  /\ i \notin Unsure => h.len = 0 \/ Of(h.cmp, content[i])
        /\ i \in unseen \ Blurred =>
              /\ link[p] = i
              /\ \/ pc \in {"idle", "rescan"}
                 \/ pc = "detect" /\ p \in todo

(* The inductive invariant of the tailer.                                  *)
TailInv ==
    /\ FsTypes /\ GhostTypes /\ PollTypes
    /\ \A p \in DOMAIN files : HandleInv(files[p]) /\ InStep(p)
    /\ \A p \in DOMAIN evicted : HandleInv(evicted[p])
    /\ SavedInv
    /\ LossOnlyAtClose

-----------------------------------------------------------------------------
(* Sequences.                                                              *)

(* A sequence of bytes: its positions and what is at them.                 *)
LEMMA BytesOf ==
  ASSUME NEW w \in Nat, NEW s \in Seq(1 .. w)
  PROVE  /\ Len(s) \in Nat /\ DOMAIN s = 1 .. Len(s)
         /\ \A k \in 1 .. Len(s) : s[k] \in 1 .. w
         /\ s = <<>> <=> Len(s) = 0
         /\ Bytes(s) = {s[k] : k \in 1 .. Len(s)}
<1>1. Len(s) \in Nat /\ DOMAIN s = 1 .. Len(s)
  BY LenProperties
<1>2. \A k \in 1 .. Len(s) : s[k] \in 1 .. w
  BY <1>1, ElementOfSeq
<1>3. s = <<>> <=> Len(s) = 0
  BY EmptySeq
<1> QED BY <1>1, <1>2, <1>3 DEF Bytes

(* More bytes may have been written since.                                 *)
LEMMA StillBytes ==
  ASSUME NEW w \in Nat, NEW v \in Nat, w <= v, NEW s \in Seq(1 .. w)
  PROVE  s \in Seq(1 .. v)
<1>1. Len(s) \in Nat /\ DOMAIN s = 1 .. Len(s) /\ \A k \in 1 .. Len(s) : s[k] \in 1 .. w
  BY BytesOf
<1>2. s = [k \in 1 .. Len(s) |-> s[k]]
  BY <1>1
<1>3. [k \in 1 .. Len(s) |-> s[k]] \in Seq(1 .. v)
  <2>1. \A k \in 1 .. Len(s) : s[k] \in 1 .. v
    BY <1>1
  <2> QED BY <1>1, <2>1, IsASeq
<1> QED BY <1>2, <1>3

(* What a prefix has.                                                      *)
LEMMA PrefixFacts ==
  ASSUME NEW w \in Nat, NEW s \in Seq(1 .. w), NEW n \in Nat
  PROVE  /\ Prefix(s, n) \in Seq(1 .. w)
         /\ Len(Prefix(s, n)) = Least(n, Len(s))
         /\ \A k \in 1 .. Least(n, Len(s)) : Prefix(s, n)[k] = s[k]
<1>1. Len(s) \in Nat /\ Least(n, Len(s)) \in 0 .. Len(s)
  BY BytesOf DEF Least
<1>2. CASE Least(n, Len(s)) = 0
  <2>1. Prefix(s, n) = SubSeq(s, 1, 0)
    BY <1>2 DEF Prefix
  <2>2. SubSeq(s, 1, 0) = << >>
    BY SubSeqEmpty
  <2> QED BY <1>2, <2>1, <2>2
<1>3. CASE Least(n, Len(s)) # 0
  <2> DEFINE m == Least(n, Len(s))
  <2>1. m \in Nat /\ 1 <= m /\ m <= Len(s) /\ m + 1 - 1 = m
    BY <1>1, <1>3
  <2>2. 1 \in 1 .. m + 1 /\ m \in 1 - 1 .. Len(s)
    BY <1>1, <2>1
  <2>3. Prefix(s, n) = SubSeq(s, 1, m)
    BY DEF Prefix
  <2> HIDE DEF m
  <2>4. SubSeq(s, 1, m) \in Seq(1 .. w) /\ Len(SubSeq(s, 1, m)) = m
    BY <2>1, <2>2, <1>1, SubSeqProperties
  <2>5. \A k \in 1 .. m : SubSeq(s, 1, m)[k] = s[k]
    BY <2>1, <2>2, <1>1, SubSeqProperties
  <2> QED BY <2>3, <2>4, <2>5 DEF m
<1> QED BY <1>2, <1>3

(* A fingerprint is of the bytes it is taken from.                         *)
LEMMA FingerprintFacts ==
  ASSUME NEW w \in Nat, NEW s \in Seq(1 .. w), FingerprintBytes \in Nat \ {0}
  PROVE  /\ Fingerprint(s) \in Seq(1 .. w)
         /\ Fingerprint(s) = <<>> <=> s = <<>>
         /\ s # <<>> => Of(Fingerprint(s), s)
<1>1. /\ Len(s) \in Nat
      /\ Len(Fingerprint(s)) = Least(FingerprintBytes, Len(s))
      /\ \A k \in 1 .. Least(FingerprintBytes, Len(s)) : Fingerprint(s)[k] = s[k]
      /\ Fingerprint(s) \in Seq(1 .. w)
  BY BytesOf, PrefixFacts DEF Fingerprint
<1>2. Fingerprint(s) = <<>> <=> Len(Fingerprint(s)) = 0
  BY <1>1, BytesOf
<1>3. s = <<>> <=> Len(s) = 0
  BY BytesOf
<1>4. ASSUME s # <<>> PROVE Of(Fingerprint(s), s)
  <2>1. 1 \in 1 .. Least(FingerprintBytes, Len(s))
    BY <1>1, <1>3, <1>4 DEF Least
  <2> QED BY <1>1, <1>2, <1>4, <2>1 DEF Of
<1> QED BY <1>1, <1>2, <1>3, <1>4 DEF Least

(* Prefixes with a byte are of the same content.                           *)
LEMMA PrefixOf ==
  ASSUME NEW w \in Nat, NEW s \in Seq(1 .. w), NEW n \in Nat, Prefix(s, n) # <<>>
  PROVE  Of(Prefix(s, n), s)
<1>1. Len(s) \in Nat /\ (Prefix(s, n) = <<>> <=> Len(Prefix(s, n)) = 0)
      /\ (s = <<>> <=> Len(s) = 0)
  BY BytesOf, PrefixFacts
<1>2. 1 \in 1 .. Least(n, Len(s)) /\ s # <<>>
  BY <1>1, PrefixFacts DEF Least
<1> QED BY <1>2, PrefixFacts DEF Of

-----------------------------------------------------------------------------
(* Steps.                                                                  *)

(* The content of a file stays, is cut to nothing or gets the next byte.   *)
Appended(i) ==
    \/ content'[i] = content[i]
    \/ /\ written' = written + 1
       /\ content'[i] = Append(content[i], written + 1)

(* What every step does to contents and to the bytes that are owed.        *)
Evolves ==
    /\ written' \in {written, written + 1}
    /\ owed' \subseteq owed \cup {written + 1}
    /\ \A i \in Inodes : content'[i] = <<>> \/ Appended(i)
    /\ \A i \in Inodes : i \in Blurred /\ i \notin Blurred' => content'[i] = <<>>
    /\ strayed \subseteq strayed'

(* What a file has after it has grown.                                     *)
LEMMA Grown ==
  ASSUME FsTypes, NEW i \in Inodes, Appended(i)
  PROVE  /\ content[i] \in Seq(1 .. written) /\ Len(content[i]) \in Nat
         /\ written' \in {written, written + 1} => content'[i] \in Seq(1 .. written')
         /\ Len(content'[i]) \in {Len(content[i]), Len(content[i]) + 1}
         /\ \A k \in 1 .. Len(content[i]) : content'[i][k] = content[i][k]
         /\ \A k \in 1 .. Len(content'[i]) :
               k > Len(content[i]) => content'[i][k] = written + 1
         /\ Len(content'[i]) > Len(content[i]) => written' = written + 1
<1>1. content[i] \in Seq(1 .. written) /\ Len(content[i]) \in Nat /\ written \in Nat
  BY BytesOf DEF FsTypes
<1>2. CASE content'[i] = content[i]
  <2>1. written' \in {written, written + 1} => content'[i] \in Seq(1 .. written')
    BY <1>1, <1>2, StillBytes
  <2> QED BY <1>1, <1>2, <2>1
<1>3. CASE written' = written + 1 /\ content'[i] = Append(content[i], written + 1)
  <2>1. content[i] \in Seq(1 .. written')
    BY <1>1, <1>3, StillBytes
  <2>2. content'[i] \in Seq(1 .. written')
    BY <1>1, <1>3, <2>1
  <2>3. Len(content'[i]) = Len(content[i]) + 1
    BY <1>1, <1>3
  <2>4. \A k \in 1 .. Len(content'[i]) :
           content'[i][k] = IF k <= Len(content[i]) THEN content[i][k] ELSE written + 1
    BY <1>1, <1>3, <2>3
  <2> QED BY <1>1, <1>3, <2>2, <2>3, <2>4
<1> QED BY <1>2, <1>3 DEF Appended

(* A fingerprint taken before fits after a step only if it fitted before.  *)
LEMMA OfBefore ==
  ASSUME FsTypes, Evolves, NEW i \in Inodes, NEW f \in Seq(1 .. written), Of(f, content'[i])
  PROVE  Of(f, content[i]) /\ Appended(i)
<1>1. Appended(i) /\ content'[i] # <<>>
  BY DEF Evolves, Of
<1>2. written \in Nat /\ written' \in Nat /\ written' \in {written, written + 1}
  BY DEF FsTypes, Evolves
<1>3. content[i] = <<>> <=> Len(content[i]) = 0
  BY <1>2, BytesOf DEF FsTypes
<1>4. content'[i] = <<>> <=> Len(content'[i]) = 0
  BY <1>1, <1>2, Grown, BytesOf
<1>5. f[1] \in 1 .. written
  BY <1>2, BytesOf DEF Of
<1>6. content[i] # <<>>
  <2>1. f[1] = content'[i][1] /\ f[1] # written + 1
    BY <1>2, <1>5 DEF Of
  <2>2. Len(content[i]) \in Nat /\ Len(content'[i]) \in Nat /\ Len(content'[i]) # 0
    BY <1>1, <1>4, Grown
  <2>3. Len(content[i]) = 0 => content'[i][1] = written + 1
    BY <1>1, <2>2, Grown
  <2> QED BY <1>3, <2>1, <2>3
<1>7. content'[i][1] = content[i][1]
  <2>1. 1 \in 1 .. Len(content[i])
    BY <1>1, <1>3, <1>6, Grown
  <2> QED BY <1>1, <2>1, Grown
<1> QED BY <1>1, <1>6, <1>7 DEF Of

(* Offsets stay covered.                                                   *)
LEMMA CoveredStays ==
  ASSUME FsTypes, Evolves, NEW i \in Inodes, NEW f \in Seq(1 .. written), NEW off \in Nat,
         Covered(i, f, off)
  PROVE  Covered(i, f, off)'
<1> SUFFICES ASSUME i \notin Blurred', Of(f, content'[i])
             PROVE  off <= Len(content'[i]) /\ \A k \in 1 .. off : content'[i][k] \notin owed'
  BY DEF Covered, Of
<1>1. Of(f, content[i]) /\ Appended(i)
  BY OfBefore
<1>2. i \notin Blurred
  BY DEF Evolves, Of
<1>3. off <= Len(content[i]) /\ \A k \in 1 .. off : content[i][k] \notin owed
  BY <1>1, <1>2 DEF Covered
<1>4. written \in Nat
  BY DEF FsTypes
<1>5. /\ Len(content[i]) \in Nat
      /\ Len(content'[i]) \in {Len(content[i]), Len(content[i]) + 1}
      /\ \A k \in 1 .. Len(content[i]) : content'[i][k] = content[i][k]
  BY <1>1, Grown
<1>6. \A k \in 1 .. Len(content[i]) : content[i][k] \in 1 .. written
  BY <1>4, BytesOf DEF FsTypes
<1>7. ASSUME NEW k \in 1 .. off PROVE content'[i][k] \notin owed'
  <2>1. k \in 1 .. Len(content[i])
    BY <1>3, <1>5
  <2>2. content[i][k] \notin owed /\ content[i][k] # written + 1
    BY <1>3, <1>4, <1>6, <2>1
  <2> QED BY <1>5, <2>1, <2>2 DEF Evolves
<1> QED BY <1>3, <1>5, <1>7

(* The handles and saved offsets that a step leaves alone.                 *)
LEMMA HandleStays ==
  ASSUME FsTypes, Evolves, NEW h, HandleInv(h)
  PROVE  HandleInv(h)'
<1>1. /\ h.inode \in Inodes /\ h.offset \in Nat /\ written \in Nat
      /\ h.fp \in Seq(1 .. written) /\ h.cmp \in Seq(1 .. written)
  BY DEF HandleInv, HandleOK, OldBytes, Files, FsTypes
<1>2. written' \in Nat /\ written <= written'
  BY <1>1 DEF Evolves
<1>3. h.fp \in Seq(1 .. written') /\ h.cmp \in Seq(1 .. written')
  BY <1>1, <1>2, StillBytes
<1>4. HandleOK(h)'
  BY <1>3 DEF HandleInv, HandleOK, OldBytes, Files, Evolves
<1>5. Covered(h.inode, h.fp, h.offset)'
  BY <1>1, CoveredStays DEF HandleInv
<1>6. Covered(h.inode, h.cmp, h.offset)'
  BY <1>1, CoveredStays DEF HandleInv
<1> QED BY <1>4, <1>5, <1>6 DEF HandleInv

(* The checkpoint store, while it is not written.                          *)
LEMMA SavedStays ==
  ASSUME FsTypes, Evolves, SavedInv, saved' = saved
  PROVE  SavedInv'
<1> SUFFICES ASSUME NEW sid \in DOMAIN saved
             PROVE  /\ sid \in Inodes \X Seq(1 .. written')
                    /\ saved[sid] \in Nat
                    /\ Covered(sid[1], sid[2], saved[sid])'
  BY DEF SavedInv
<1>1. PICK off : off = saved[sid]
  OBVIOUS
<1>2. /\ sid[1] \in Inodes /\ sid[2] \in Seq(1 .. written) /\ sid = <<sid[1], sid[2]>>
      /\ off \in Nat /\ Covered(sid[1], sid[2], off)
  BY <1>1 DEF SavedInv
<1>3. written \in Nat /\ written' \in Nat /\ written <= written' /\ off \in Nat
  BY <1>2 DEF Evolves, FsTypes
<1>4. sid[2] \in Seq(1 .. written')
  BY <1>2, <1>3, StillBytes
<1>5. Covered(sid[1], sid[2], off)'
  BY <1>2, <1>3, CoveredStays
<1> QED BY <1>1, <1>2, <1>4, <1>5

-----------------------------------------------------------------------------
(* FileReader.                                                             *)

(* The position at which a read begins and the one at which it ends.       *)
Start(h, before) == IF Len(before) < h.offset THEN 0 ELSE h.offset
Stop(h, before, now) ==
    IF Len(before) <= Start(h, before) THEN Start(h, before)
    ELSE Least(Start(h, before) + Budget, Len(now))

(* The bytes between two positions.                                        *)
Delivers(data, before, now, s, e) ==
    /\ s \in Nat /\ e \in Nat /\ s <= e
    /\ Len(data) = e - s /\ s + Len(data) = e
    /\ data = <<>> <=> Len(before) <= s
    /\ data # <<>> => now # <<>> /\ s < e /\ e <= Len(now)
    /\ Bytes(data) = {now[k] : k \in s + 1 .. e}

(* What a read returns.                                                    *)
LEMMA ReadData ==
  ASSUME NEW v \in Nat, NEW before, NEW now \in Seq(1 .. v), Len(before) \in Nat,
         Len(before) <= Len(now), Budget \in Nat \ {0}, NEW h, h.offset \in Nat,
         NEW s, s = Start(h, before), NEW e, e = Stop(h, before, now), NEW data,
         data = IF Len(before) <= s THEN <<>> ELSE SubSeq(now, s + 1, Least(s + Budget, Len(now)))
  PROVE  Delivers(data, before, now, s, e)
<1>1. s \in Nat /\ Len(now) \in Nat /\ (now = <<>> <=> Len(now) = 0)
      /\ \A k \in 1 .. Len(now) : now[k] \in 1 .. v
  BY BytesOf DEF Start
<1>2. CASE Len(before) <= s
  <2>1. data = <<>> /\ e = s
    BY <1>2 DEF Stop
  <2>2. Bytes(<<>>) = {}
    BY DEF Bytes
  <2>3. {now[k] : k \in s + 1 .. e} = {}
    BY <1>1, <2>1
  <2> QED BY <1>1, <1>2, <2>1, <2>2, <2>3 DEF Delivers
<1>3. CASE ~(Len(before) <= s)
  <2>1. /\ e = Least(s + Budget, Len(now)) /\ e \in Nat /\ s + 1 \in Nat
        /\ s + 1 <= e /\ e <= Len(now)
    <3>1. e = Least(s + Budget, Len(now))
      BY <1>3 DEF Stop
    <3>2. Len(before) \in Nat /\ Len(now) \in Nat /\ s \in Nat /\ s < Len(now)
      BY <1>1, <1>3
    <3>3. PICK n \in Nat : n = Len(now)
      BY <3>2
    <3> QED BY ONLY <3>1, <3>2, <3>3, Budget \in Nat \ {0} DEF Least
  <2>2. data = SubSeq(now, s + 1, e)
    BY <1>3, <2>1
  <2>3. \A k \in s + 1 .. e : now[k] \in 1 .. v
    BY <1>1, <2>1
  <2>4. PICK m \in Nat : m = s + 1
    BY <1>1
  <2>5. /\ SubSeq(now, m, e) \in Seq(1 .. v)
        /\ Len(SubSeq(now, m, e)) = e - m + 1
        /\ \A k \in 1 .. e - m + 1 : SubSeq(now, m, e)[k] = now[m + k - 1]
    BY <2>1, <2>3, <2>4, SubSeqProperties
  <2>6. /\ data \in Seq(1 .. v) /\ Len(data) = e - s
        /\ \A k \in 1 .. e - s : data[k] = now[s + k]
    <3>1. e - m + 1 = e - s
      BY ONLY <1>1, <2>1, <2>4
    <3>2. \A k \in 1 .. e - s : m + k - 1 = s + k
      BY ONLY <1>1, <2>1, <2>4
    <3>3. data = SubSeq(now, m, e)
      BY <2>2, <2>4
    <3>4. \A k \in 1 .. e - s : data[k] = now[s + k]
      BY ONLY <2>5, <3>1, <3>2, <3>3
    <3> QED BY <2>5, <3>1, <3>3, <3>4
  <2>7. Bytes(data) = {data[k] : k \in 1 .. e - s} /\ data # <<>>
    <3>1. Bytes(data) = {data[k] : k \in 1 .. Len(data)} /\ (data = <<>> <=> Len(data) = 0)
      BY <2>6, BytesOf
    <3>2. e - s # 0
      BY ONLY <1>1, <2>1
    <3> QED BY <2>6, <3>1, <3>2
  <2>8. \A k \in 1 .. e - s : s + k \in s + 1 .. e
    BY ONLY <1>1, <2>1
  <2>9. \A k \in s + 1 .. e : k - s \in 1 .. e - s /\ s + (k - s) = k
    BY ONLY <1>1, <2>1
  <2>10. {data[k] : k \in 1 .. e - s} = {now[k] : k \in s + 1 .. e}
    <3>1. ASSUME NEW k \in 1 .. e - s PROVE data[k] \in {now[j] : j \in s + 1 .. e}
      BY <2>6, <2>8
    <3>2. ASSUME NEW j \in s + 1 .. e PROVE now[j] \in {data[k] : k \in 1 .. e - s}
      <4>1. data[j - s] = now[j] /\ j - s \in 1 .. e - s
        BY <2>6, <2>9
      <4> QED BY <4>1
    <3>3. {data[k] : k \in 1 .. e - s} \subseteq {now[j] : j \in s + 1 .. e}
      <4> SUFFICES ASSUME NEW x \in {data[k] : k \in 1 .. e - s}
                   PROVE  x \in {now[j] : j \in s + 1 .. e}
        OBVIOUS
      <4>1. PICK k \in 1 .. e - s : x = data[k]
        OBVIOUS
      <4> QED BY <3>1, <4>1
    <3>4. {now[j] : j \in s + 1 .. e} \subseteq {data[k] : k \in 1 .. e - s}
      BY <3>2
    <3> QED BY ONLY <3>3, <3>4
  <2>11. s \in Nat /\ s <= e /\ s + (e - s) = e /\ s < e
    BY ONLY <1>1, <2>1
  <2>12. now # <<>> /\ e <= Len(now)
    BY <1>1, <2>1
  <2>13. Bytes(data) = {now[k] : k \in s + 1 .. e}
    BY <2>7, <2>10
  <2> QED BY ONLY <1>3, <2>1, <2>6, <2>7, <2>11, <2>12, <2>13 DEF Delivers
<1> QED BY <1>2, <1>3

(* What read_new_data returns and does to the handle, when v bytes are     *)
(* written.                                                                *)
ReadsTo(h, before, now, v, r) ==
    /\ r.truncated <=> Len(before) < h.offset
    /\ r.data = <<>> <=> Len(before) <= Start(h, before)
    /\ Len(r.data) = Stop(h, before, now) - Start(h, before)
    /\ Bytes(r.data) = {now[k] : k \in Start(h, before) + 1 .. Stop(h, before, now)}
    /\ r.file \in Files /\ r.file.inode = h.inode
    /\ r.file.offset = Stop(h, before, now) /\ r.file.cursor = r.file.offset
    /\ r.file.fp \in Seq(1 .. v) /\ r.file.cmp \in Seq(1 .. v)
    /\ r.file.len > 0 => r.file.fp # <<>> /\ r.file.cmp # <<>>
    /\ r.file.len = 0 => r.file.offset = 0
    /\ \/ r.file.cmp = Fingerprint(now)
       \/ r.file.cmp = h.cmp /\ r.file.len = h.len

(* What was not read at the offset: types only.                            *)
LEMMA TakenTypes ==
  ASSUME NEW v \in Nat, NEW before, NEW now \in Seq(1 .. v), NEW g, g.cursor \in Nat,
         Budget \in Nat \ {0}, NEW data, data = Taken(g, before, now)
  PROVE  Len(data) \in Nat /\ data \in Seq(1 .. v) /\ (data # <<>> => now # <<>>)
<1>1. Len(now) \in Nat /\ (now = <<>> <=> Len(now) = 0) /\ \A k \in 1 .. Len(now) : now[k] \in 1 .. v
  BY BytesOf
<1>2. PICK m \in Nat, n \in Nat : m = g.cursor + 1 /\ n = Least(g.cursor + Budget, Len(now))
  BY <1>1 DEF Least
<1>3. m >= 1 /\ n <= Len(now)
  BY <1>1, <1>2 DEF Least
<1>4. \A k \in m .. n : now[k] \in 1 .. v
  BY <1>1, <1>3
<1>5. /\ SubSeq(now, m, n) \in Seq(1 .. v)
      /\ n < m => SubSeq(now, m, n) = <<>>
  BY <1>4, SubSeqProperties, SubSeqEmpty
<1>6. data = <<>> \/ data = SubSeq(now, m, n)
  BY <1>2 DEF Taken
<1>7. now = <<>> => n < m
  BY <1>1, <1>3
<1>8. data \in Seq(1 .. v)
  <2>1. <<>> \in Seq(1 .. v)
    OBVIOUS
  <2> QED BY <1>5, <1>6, <2>1
<1> QED BY <1>5, <1>6, <1>7, <1>8, BytesOf

(* What a file that is begun again, or not, has to remember.               *)
Remembers(g, h, v) ==
    /\ g \in [inode : {h.inode}, fp : Seq(1 .. v), cmp : Seq(1 .. v), len : 0 .. FingerprintBytes,
              offset : Nat, cursor : Nat, eof : {"fresh", "idle", "emitted"}]
    /\ g.len > 0 => g.fp # <<>> /\ g.cmp # <<>>

(* Rewound.                                                                *)
LEMMA RewoundTypes ==
  ASSUME NEW v \in Nat, FingerprintBytes \in Nat \ {0},
         NEW before, NEW now \in Seq(1 .. v), Len(before) \in Nat,
         NEW h, Remembers(h, h, v), NEW g, g = Rewound(h, before, now)
  PROVE  /\ Remembers(g, h, v)
         /\ Len(before) >= h.offset => g = h
         /\ Len(before) < h.offset =>
               /\ g.offset = 0 /\ g.cursor = 0 /\ g.cmp = Fingerprint(now)
               /\ g.len = ObservedFingerprintLen(Fingerprint(now), Len(before))
<1> DEFINE fp == Fingerprint(now)
           len == ObservedFingerprintLen(fp, Len(before))
<1>1. fp \in Seq(1 .. v)
  BY FingerprintFacts
<1>2. len \in 0 .. FingerprintBytes /\ (len > 0 => fp # <<>>)
  BY DEF ObservedFingerprintLen, Least
<1> HIDE DEF fp, len
<1>3. h.offset \in Nat
  BY DEF Remembers
<1>4. CASE Len(before) >= h.offset
  <2>1. g = h
    BY <1>3, <1>4 DEF Rewound
  <2> QED BY <1>3, <1>4, <2>1
<1>5. CASE Len(before) < h.offset
  <2>1. g = [h EXCEPT !.offset = 0, !.cursor = 0, !.eof = "fresh", !.fp = fp, !.cmp = fp, !.len = len]
    BY <1>5 DEF Rewound, fp, len
  <2>2. h \in [inode : {h.inode}, fp : Seq(1 .. v), cmp : Seq(1 .. v), len : 0 .. FingerprintBytes,
               offset : Nat, cursor : Nat, eof : {"fresh", "idle", "emitted"}]
    BY DEF Remembers
  <2>3. g.offset = 0 /\ g.cursor = 0 /\ g.cmp = fp /\ g.fp = fp /\ g.len = len
    BY <2>1, <2>2
  <2>4. g \in [inode : {h.inode}, fp : Seq(1 .. v), cmp : Seq(1 .. v), len : 0 .. FingerprintBytes,
               offset : Nat, cursor : Nat, eof : {"fresh", "idle", "emitted"}]
    <3>1. PICK S, L : S = Seq(1 .. v) /\ L = 0 .. FingerprintBytes
      OBVIOUS
    <3>2. fp \in S /\ len \in L /\ 0 \in Nat
      BY <1>1, <1>2, <3>1
    <3>3. h \in [inode : {h.inode}, fp : S, cmp : S, len : L, offset : Nat, cursor : Nat,
                 eof : {"fresh", "idle", "emitted"}]
      BY <2>2, <3>1
    <3>4. g \in [inode : {h.inode}, fp : S, cmp : S, len : L, offset : Nat, cursor : Nat,
                 eof : {"fresh", "idle", "emitted"}]
      BY ONLY <2>1, <3>2, <3>3
    <3> QED BY <3>1, <3>4
  <2>5. Remembers(g, h, v)
    BY <1>2, <2>3, <2>4 DEF Remembers
  <2> QED BY <1>3, <1>5, <2>3, <2>5 DEF fp, len
<1> QED BY <1>3, <1>4, <1>5

(* A handle after a read.                                                  *)
LEMMA AdvancedTypes ==
  ASSUME NEW v \in Nat, NEW h, NEW g, Remembers(g, h, v), NEW data, Len(data) \in Nat,
         NEW a, a = Advanced(g, data)
  PROVE  Remembers(a, h, v) /\ a.fp = g.fp /\ a.cursor \in Nat /\ g.cursor \in Nat
<1>1. g \in [inode : {h.inode}, fp : Seq(1 .. v), cmp : Seq(1 .. v), len : 0 .. FingerprintBytes,
             offset : Nat, cursor : Nat, eof : {"fresh", "idle", "emitted"}]
  BY DEF Remembers
<1>2. PICK m \in Nat, n \in Nat : m = g.offset + Len(data) /\ n = g.cursor + Len(data)
  BY <1>1
<1>3. a = [g EXCEPT !.offset = m, !.cursor = n]
  BY <1>2 DEF Advanced
<1>4. a.fp = g.fp /\ a.cmp = g.cmp /\ a.len = g.len /\ a.cursor = n
  BY <1>1, <1>3
<1>5. a \in [inode : {h.inode}, fp : Seq(1 .. v), cmp : Seq(1 .. v), len : 0 .. FingerprintBytes,
             offset : Nat, cursor : Nat, eof : {"fresh", "idle", "emitted"}]
  BY <1>1, <1>2, <1>3
<1> QED BY <1>1, <1>4, <1>5 DEF Remembers

(* read_new_data, of a handle that may be astray.                          *)
LEMMA ReadTypes ==
  ASSUME NEW v \in Nat, Budget \in Nat \ {0}, FingerprintBytes \in Nat \ {0},
         NEW before, NEW now \in Seq(1 .. v), Len(before) \in Nat,
         NEW h, Remembers(h, h, v), NEW r, r = ReadNewData(h, before, now)
  PROVE  Remembers(r.file, h, v)
<1>1. PICK g : g = Rewound(h, before, now)
  OBVIOUS
<1>2. PICK data : data = Taken(g, before, now)
  OBVIOUS
<1>3. PICK a : a = Advanced(g, data)
  OBVIOUS
<1>4. PICK fp : fp = Fingerprint(now)
  OBVIOUS
<1>5. PICK len : len = ObservedFingerprintLen(fp, Len(before))
  OBVIOUS
<1>6. Remembers(g, h, v)
  BY <1>1, RewoundTypes
<1>7. g.cursor \in Nat /\ g.offset \in Nat
  BY <1>6 DEF Remembers
<1>8. Len(data) \in Nat /\ (data # <<>> => now # <<>>)
  BY <1>2, <1>7, TakenTypes
<1>9. Remembers(a, h, v) /\ a.fp = g.fp
  BY <1>3, <1>6, <1>8, AdvancedTypes
<1>10. /\ fp \in Seq(1 .. v) /\ len \in 0 .. FingerprintBytes /\ (len > 0 => fp # <<>>)
  BY <1>4, <1>5, FingerprintFacts DEF ObservedFingerprintLen, Least
<1>11. PICK promoted : promoted = [a EXCEPT !.fp = IF g.fp = <<>> THEN fp ELSE g.fp, !.cmp = fp,
                                            !.len = len]
  OBVIOUS
<1>12. /\ promoted.len = len /\ promoted.cmp = fp
       /\ promoted.fp = (IF g.fp = <<>> THEN fp ELSE g.fp)
       /\ promoted \in [inode : {h.inode}, fp : Seq(1 .. v), cmp : Seq(1 .. v),
                        len : 0 .. FingerprintBytes, offset : Nat, cursor : Nat,
                        eof : {"fresh", "idle", "emitted"}]
  BY <1>6, <1>9, <1>10, <1>11 DEF Remembers
<1>13. Remembers(promoted, h, v)
  BY <1>10, <1>12 DEF Remembers
<1>14. r = [file |-> IF Promotes(g, data, before) THEN promoted ELSE a, data |-> data,
            truncated |-> Len(before) < h.offset]
  BY <1>1, <1>2, <1>3, <1>4, <1>5, <1>11 DEF ReadNewData
<1>15. r.file \in {promoted, a}
  BY <1>14
<1> QED BY <1>9, <1>13, <1>15

(* read_new_data.                                                          *)
LEMMA ReadHandle ==
  ASSUME NEW w \in Nat, NEW v \in Nat, w <= v,
         Budget \in Nat \ {0}, FingerprintBytes \in Nat \ {0},
         NEW before, NEW now \in Seq(1 .. v), Len(before) \in Nat,
         Len(before) <= Len(now), Len(now) <= v,
         NEW h \in Files, h.fp \in Seq(1 .. w), h.cmp \in Seq(1 .. w),
         h.len > 0 => h.fp # <<>> /\ h.cmp # <<>>, h.len = 0 => h.offset = 0,
         h.cursor = h.offset, NEW r, r = ReadNewData(h, before, now)
  PROVE  ReadsTo(h, before, now, v, r)
<1> DEFINE fp == Fingerprint(now)
           size == Len(before)
           len == ObservedFingerprintLen(fp, size)
           h1 == IF size < h.offset
                 THEN [h EXCEPT !.offset = 0, !.cursor = 0, !.eof = "fresh", !.fp = fp, !.cmp = fp,
                                !.len = len]
                 ELSE h
           data == IF size <= h1.offset THEN <<>>
                   ELSE SubSeq(now, h1.cursor + 1, Least(h1.cursor + Budget, Len(now)))
           h2 == [h1 EXCEPT !.offset = h1.offset + Len(data), !.cursor = h1.cursor + Len(data)]
           promoted == [h2 EXCEPT !.fp = IF h1.fp = <<>> THEN fp ELSE h1.fp, !.cmp = fp, !.len = len]
           after == IF data # <<>> /\ h1.len < FingerprintBytes /\ size > h1.len
                    THEN promoted ELSE h2
           s == Start(h, before)
           e == Stop(h, before, now)
<1>1. r = [file |-> after, data |-> data, truncated |-> size < h.offset]
  BY DEF ReadNewData, Rewound, Taken, Advanced, Promotes
<1>2. /\ fp \in Seq(1 .. v) /\ (fp = <<>> <=> now = <<>>)
      /\ now = <<>> <=> Len(now) = 0
  BY FingerprintFacts, BytesOf
<1>3. h.fp \in Seq(1 .. v) /\ h.cmp \in Seq(1 .. v) /\ Seq(1 .. v) \subseteq Seq(Nat)
  BY StillBytes
<1>4. /\ len \in 0 .. FingerprintBytes
      /\ len > 0 => fp # <<>>
      /\ size > 0 /\ fp # <<>> => len > 0
  BY DEF ObservedFingerprintLen, Least
<1> HIDE DEF fp, len
<1>5. h1 \in [inode : {h.inode}, fp : Seq(1 .. v), cmp : Seq(1 .. v), len : 0 .. FingerprintBytes,
              offset : {s}, cursor : {s}, eof : {"fresh", "idle", "emitted"}]
  BY <1>2, <1>3, <1>4 DEF Start, Files
<1>6. /\ h1.len > 0 => h1.fp # <<>> /\ h1.cmp # <<>>
      /\ h1.len = 0 => h1.offset = 0
      /\ h1.cmp = fp \/ (h1.cmp = h.cmp /\ h1.len = h.len)
  BY <1>4 DEF Files
<1>7. h1.offset = s /\ h1.cursor = s
  BY <1>5
<1>8. data = IF size <= s THEN <<>> ELSE SubSeq(now, s + 1, Least(s + Budget, Len(now)))
  BY <1>7
<1>9. h.offset \in Nat
  BY DEF Files
<1> HIDE DEF h1, data
<1>10. /\ s \in Nat /\ e \in Nat /\ s <= e
       /\ Len(data) = e - s /\ s + Len(data) = e
       /\ data = <<>> <=> size <= s
       /\ data # <<>> => now # <<>> /\ s < e /\ e <= Len(now)
       /\ Bytes(data) = {now[k] : k \in s + 1 .. e}
  <2>1. s = Start(h, before) /\ e = Stop(h, before, now)
    OBVIOUS
  <2> HIDE DEF s, e, size
  <2>2. data = IF Len(before) <= s THEN <<>> ELSE SubSeq(now, s + 1, Least(s + Budget, Len(now)))
    BY <1>8 DEF size
  <2>3. Delivers(data, before, now, s, e)
    BY ONLY v \in Nat, now \in Seq(1 .. v), Len(before) \in Nat, Len(before) <= Len(now),
            Budget \in Nat \ {0}, <1>9, <2>1, <2>2, ReadData
  <2> QED BY <2>3 DEF Delivers, size
<1> HIDE DEF s, e
<1>11. h2 \in [inode : {h.inode}, fp : Seq(1 .. v), cmp : Seq(1 .. v), len : 0 .. FingerprintBytes,
              offset : {e}, cursor : {e}, eof : {"fresh", "idle", "emitted"}]
       /\ h2.fp = h1.fp /\ h2.cmp = h1.cmp /\ h2.len = h1.len
  BY <1>5, <1>7, <1>10
<1> HIDE DEF h2
<1>12. promoted \in [inode : {h.inode}, fp : Seq(1 .. v), cmp : Seq(1 .. v),
                     len : 0 .. FingerprintBytes, offset : {e}, cursor : {e},
                     eof : {"fresh", "idle", "emitted"}]
       /\ promoted.fp = (IF h1.fp = <<>> THEN fp ELSE h1.fp)
       /\ promoted.cmp = fp /\ promoted.len = len
  BY <1>11, <1>2, <1>4, <1>5
<1> HIDE DEF promoted
<1>13. /\ after \in [inode : {h.inode}, fp : Seq(1 .. v), cmp : Seq(1 .. v),
                    len : 0 .. FingerprintBytes, offset : {e}, cursor : {e},
                    eof : {"fresh", "idle", "emitted"}]
       /\ after.cmp = fp \/ (after.cmp = h.cmp /\ after.len = h.len)
  BY <1>11, <1>12, <1>6
<1>14. after.len > 0 => after.fp # <<>> /\ after.cmp # <<>>
  BY <1>11, <1>12, <1>6, <1>4
<1>15. after.len = 0 => e = 0
  <2>1. CASE data # <<>> /\ h1.len < FingerprintBytes /\ size > h1.len
    BY <2>1, <1>2, <1>4, <1>5, <1>10, <1>12
  <2>2. CASE ~(data # <<>> /\ h1.len < FingerprintBytes /\ size > h1.len)
    BY <2>2, <1>5, <1>6, <1>7, <1>10, <1>11
  <2> QED BY <2>1, <2>2
<1> HIDE DEF after
<1>16. after \in Files /\ after.inode = h.inode /\ after.offset = e /\ after.cursor = e
       /\ after.fp \in Seq(1 .. v) /\ after.cmp \in Seq(1 .. v)
  BY <1>3, <1>10, <1>13 DEF Files
<1>17. r.file = after /\ r.data = data /\ r.truncated = (size < h.offset)
  <2>1. r.file = after
    BY <1>1
  <2>2. r.data = data
    BY <1>1
  <2>3. r.truncated = (size < h.offset)
    BY <1>1
  <2> QED BY <2>1, <2>2, <2>3
<1> QED BY <1>10, <1>13, <1>14, <1>15, <1>16, <1>17 DEF ReadsTo, s, e, fp, size

(* A file that grows is still the same.                                    *)
LEMMA OfAfter ==
  ASSUME FsTypes, NEW i \in Inodes, Appended(i), NEW f, Of(f, content[i])
  PROVE  Of(f, content'[i])
<1>1. /\ content[i] \in Seq(1 .. written) /\ written \in Nat /\ Len(content[i]) \in Nat
      /\ content[i] = <<>> <=> Len(content[i]) = 0
  BY BytesOf DEF FsTypes
<1>2. 1 \in 1 .. Len(content[i])
  BY <1>1 DEF Of
<1>3. content'[i] # <<>>
  BY <1>1, <1>2 DEF Appended
<1> QED BY <1>2, <1>3, Grown DEF Of

(* Bytes that were delivered stay delivered.                               *)
LEMMA DeliveredStays ==
  ASSUME FsTypes, Evolves, NEW i \in Inodes, Appended(i), NEW off \in Nat,
         off <= Len(content[i]), \A k \in 1 .. off : content[i][k] \notin owed
  PROVE  \A k \in 1 .. off : content'[i][k] \notin owed'
<1>1. written \in Nat
  BY DEF FsTypes
<1>2. /\ Len(content[i]) \in Nat
      /\ \A k \in 1 .. Len(content[i]) : content'[i][k] = content[i][k]
  BY Grown
<1>3. \A k \in 1 .. Len(content[i]) : content[i][k] \in 1 .. written
  BY <1>1, BytesOf DEF FsTypes
<1> SUFFICES ASSUME NEW k \in 1 .. off PROVE content'[i][k] \notin owed'
  OBVIOUS
<1>4. k \in 1 .. Len(content[i])
  BY <1>2
<1>5. content[i][k] \notin owed /\ content[i][k] # written + 1
  BY <1>1, <1>3, <1>4
<1> QED BY <1>2, <1>4, <1>5 DEF Evolves

(* The offset of a handle that is up to date.                              *)
LEMMA UpToDate ==
  ASSUME FsTypes, NEW h, HandleInv(h), NEW i, i = h.inode, i \notin Blurred,
         h.len = 0 \/ Of(h.cmp, content[i])
  PROVE  h.offset <= Len(content[i]) /\ \A k \in 1 .. h.offset : content[i][k] \notin owed
<1>1. i \in Inodes /\ h.offset \in Nat /\ Len(content[i]) \in Nat
  BY BytesOf DEF HandleInv, HandleOK, Files, FsTypes
<1>2. CASE h.len = 0
  <2>1. h.offset = 0
    BY <1>2 DEF HandleInv, HandleOK, Blurred
  <2> QED BY <1>1, <2>1
<1>3. CASE Of(h.cmp, content[i])
  BY <1>3 DEF HandleInv, Covered
<1> QED BY <1>2, <1>3

(* A handle that remembers the same of the file, at the same offset.       *)
LEMMA SameHandle ==
  ASSUME NEW g, HandleInv(g)', NEW f \in Files, f.inode = g.inode, f.fp = g.fp, f.cmp = g.cmp,
         f.len = g.len, f.offset = g.offset, f.inode \in strayed' \/ f.cursor = f.offset
  PROVE  HandleInv(f)'
<1>1. HandleOK(f)'
  BY DEF HandleInv, HandleOK, OldBytes, Files
<1> QED BY <1>1 DEF HandleInv

(* A handle that is astray has only to have its types.                     *)
LEMMA AstrayHandle ==
  ASSUME FsTypes, NEW h, NEW f, Remembers(f, h, written'), h.inode \in Inodes,
         h.inode \in strayed', written' \in Nat
  PROVE  HandleInv(f)' /\ f.inode = h.inode
<1>1. Seq(1 .. written') \subseteq Seq(Nat)
  BY StillBytes
<1>2. f \in Files /\ f.inode = h.inode
  BY <1>1 DEF Remembers, Files
<1>3. HandleOK(f)'
  BY <1>2 DEF Remembers, HandleOK, OldBytes, Files
<1>4. h.inode \in Blurred'
  BY DEF Blurred
<1> QED BY <1>2, <1>3, <1>4 DEF HandleInv, Covered

(* What the invariant says of a handle is what a read needs.               *)
LEMMA HandleRemembers ==
  ASSUME FsTypes, Evolves, NEW h, HandleInv(h), NEW i, i = h.inode, Appended(i)
  PROVE  /\ i \in Inodes /\ written \in Nat /\ written' \in Nat /\ written <= written'
         /\ Budget \in Nat \ {0} /\ FingerprintBytes \in Nat \ {0}
         /\ content'[i] \in Seq(1 .. written') /\ Len(content[i]) \in Nat
         /\ Len(content'[i]) \in Nat /\ Len(content[i]) <= Len(content'[i])
         /\ Remembers(h, h, written')
<1>1. /\ i \in Inodes /\ h \in Files /\ written \in Nat /\ written' \in Nat /\ written <= written'
      /\ Budget \in Nat \ {0} /\ FingerprintBytes \in Nat \ {0}
      /\ h.fp \in Seq(1 .. written) /\ h.cmp \in Seq(1 .. written)
      /\ h.len > 0 => h.fp # <<>> /\ h.cmp # <<>>
  BY DEF HandleInv, HandleOK, OldBytes, Files, FsTypes, Evolves
<1>2. /\ content'[i] \in Seq(1 .. written') /\ Len(content[i]) \in Nat
      /\ Len(content'[i]) \in {Len(content[i]), Len(content[i]) + 1}
  BY <1>1, Grown DEF Evolves
<1>3. h.fp \in Seq(1 .. written') /\ h.cmp \in Seq(1 .. written')
  BY <1>1, StillBytes
<1>4. Remembers(h, h, written')
  BY <1>1, <1>3 DEF Remembers, Files
<1> QED BY <1>1, <1>2, <1>4

(* A read of a handle: the offset has only delivered bytes before it.      *)
LEMMA ReadCovers ==
  ASSUME FsTypes, Evolves, NEW h, HandleInv(h), NEW i, i = h.inode, Appended(i),
         Len(content'[i]) <= written',
         i \notin Unsure => h.len = 0 \/ Of(h.cmp, content[i]),
         i \in unseen => i \in Blurred,
         NEW r, r = ReadNewData(h, content[i], content'[i]), Bytes(r.data) \cap owed' = {}
  PROVE  /\ HandleInv(r.file)' /\ r.file.inode = i
         /\ i \notin Unsure => r.file.len = 0 \/ Of(r.file.cmp, content'[i])
<1> DEFINE before == content[i]
           now == content'[i]
           f == r.file
<1> SUFFICES ASSUME i \notin strayed
             PROVE  /\ HandleInv(f)' /\ f.inode = i
                    /\ i \notin Unsure => f.len = 0 \/ Of(f.cmp, now)
  <2> SUFFICES ASSUME i \in strayed
               PROVE  /\ HandleInv(f)' /\ f.inode = i
                      /\ i \notin Unsure => f.len = 0 \/ Of(f.cmp, now)
    OBVIOUS
  <2> HIDE DEF f
  <2>1. PICK v \in Nat : v = written'
    BY HandleRemembers
  <2>2. i \in strayed' /\ i \in Unsure
    BY DEF Evolves, Unsure
  <2>3. /\ now \in Seq(1 .. v) /\ Len(before) \in Nat /\ Remembers(h, h, v) /\ i \in Inodes
        /\ Budget \in Nat \ {0} /\ FingerprintBytes \in Nat \ {0} /\ r = ReadNewData(h, before, now)
    BY <2>1, HandleRemembers
  <2> HIDE DEF before, now
  <2>4. Remembers(f, h, v)
    BY ONLY <2>1, <2>3, ReadTypes DEF f
  <2>5. HandleInv(f)' /\ f.inode = i
    BY <2>1, <2>2, <2>3, <2>4, AstrayHandle
  <2> QED BY <2>2, <2>5
<1>1. /\ i \in Inodes /\ h \in Files /\ written \in Nat /\ written' \in Nat
      /\ written <= written'
      /\ Budget \in Nat \ {0} /\ FingerprintBytes \in Nat \ {0}
      /\ h.fp \in Seq(1 .. written) /\ h.cmp \in Seq(1 .. written)
      /\ h.len > 0 => h.fp # <<>> /\ h.cmp # <<>>
      /\ h.len = 0 => h.offset = 0
      /\ h.cursor = h.offset
      /\ h.len \in Nat /\ h.offset \in Nat
  BY DEF HandleInv, HandleOK, OldBytes, Files, FsTypes, Evolves
<1>2. /\ now \in Seq(1 .. written') /\ Len(before) \in Nat /\ Len(now) \in Nat
      /\ Len(before) <= Len(now)
  BY HandleRemembers
<1>3. /\ Bytes(r.data) = {now[k] : k \in Start(h, before) + 1 .. Stop(h, before, now)}
      /\ f \in Files /\ f.inode = i
      /\ f.offset = Stop(h, before, now) /\ f.cursor = f.offset
      /\ f.fp \in Seq(1 .. written') /\ f.cmp \in Seq(1 .. written')
      /\ f.len > 0 => f.fp # <<>> /\ f.cmp # <<>>
      /\ f.len = 0 => f.offset = 0
      /\ f.cmp = Fingerprint(now) \/ (f.cmp = h.cmp /\ f.len = h.len)
  <2> HIDE DEF before, now, f
  <2>1. r = ReadNewData(h, before, now) /\ Len(now) <= written'
    BY DEF before, now
  <2>2. PICK v \in Nat : v = written'
    BY <1>1
  <2>3. written <= v /\ now \in Seq(1 .. v) /\ Len(now) <= v
    BY <1>1, <1>2, <2>1, <2>2
  <2>4. ReadsTo(h, before, now, v, r)
    BY ONLY <1>1, <1>2, <2>1, <2>2, <2>3, ReadHandle
  <2> QED BY <2>2, <2>4 DEF ReadsTo, f
<1> HIDE DEF f
<1>4. HandleOK(f)'
  BY <1>3 DEF HandleOK, OldBytes, Files
<1>5. ASSUME i \notin Blurred
      PROVE  f.offset <= Len(now) /\ \A k \in 1 .. f.offset : now[k] \notin owed'
  <2>1. i \notin Unsure
    BY <1>5 DEF Blurred, Unsure
  <2>2. h.offset <= Len(before) /\ \A k \in 1 .. h.offset : before[k] \notin owed
    BY <1>5, <2>1, UpToDate
  <2>3. \A k \in 1 .. h.offset : now[k] \notin owed'
    BY <1>1, <2>2, DeliveredStays
  <2> HIDE DEF before, now
  <2>4. Start(h, before) = h.offset
    BY <1>1, <1>2, <2>2 DEF Start
  <2>5. \A k \in h.offset + 1 .. f.offset : now[k] \notin owed'
    BY <1>3, <2>4
  <2>6. f.offset \in Nat /\ h.offset <= f.offset /\ f.offset <= Len(now)
    <3>1. CASE Len(before) <= h.offset
      BY <1>1, <1>2, <1>3, <2>2, <2>4, <3>1 DEF Stop
    <3>2. CASE ~(Len(before) <= h.offset)
      <4>1. f.offset = Least(h.offset + Budget, Len(now))
        BY <1>3, <2>4, <3>2 DEF Stop
      <4>2. PICK n \in Nat, m \in Nat, b \in Nat, o \in Nat :
              n = Len(now) /\ m = Len(before) /\ b = Budget /\ o = h.offset
        BY <1>1, <1>2
      <4>3. f.offset = (IF o + b < n THEN o + b ELSE n) /\ o < m /\ m <= n
        BY <1>2, <3>2, <4>1, <4>2 DEF Least
      <4> QED BY <4>2, <4>3
    <3> QED BY <3>1, <3>2
  <2>7. ASSUME NEW k \in 1 .. f.offset PROVE k \in 1 .. h.offset \/ k \in h.offset + 1 .. f.offset
    BY ONLY <1>1, <2>6, k \in 1 .. f.offset
  <2> QED BY <2>3, <2>5, <2>6, <2>7
<1>6. ASSUME NEW g, Of(g, now), i \notin Blurred' PROVE i \notin Blurred
  BY <1>1, <1>6 DEF Of, Evolves
<1>7. Covered(i, f.fp, f.offset)' /\ Covered(i, f.cmp, f.offset)'
  BY <1>5, <1>6 DEF Covered, Of
<1>8. HandleInv(f)'
  BY <1>3, <1>4, <1>7 DEF HandleInv
<1>9. ASSUME i \notin Unsure PROVE f.len = 0 \/ Of(f.cmp, now)
  <2>1. f.len \in Nat
    BY <1>3 DEF Files
  <2>2. CASE f.cmp = Fingerprint(now)
    <3>1. Fingerprint(now) = <<>> <=> now = <<>>
      BY <1>1, <1>2, FingerprintFacts
    <3>2. now # <<>> => Of(Fingerprint(now), now)
      BY <1>1, <1>2, FingerprintFacts
    <3> QED BY <1>3, <2>1, <2>2, <3>1, <3>2
  <2>3. CASE f.cmp = h.cmp /\ f.len = h.len
    BY <1>1, <1>9, <2>3, OfAfter
  <2> QED BY <1>3, <2>2, <2>3
<1> QED BY <1>3, <1>8, <1>9

(* A handle at the beginning of its file.                                  *)
LEMMA HandleAtStart ==
  ASSUME FsTypes, NEW h, NEW f, Remembers(f, h, written'), NEW i \in Inodes, i = h.inode,
         f.offset = 0, f.cursor = 0, written' \in Nat, Len(content'[i]) \in Nat
  PROVE  HandleInv(f)' /\ f.inode = i
<1>1. Seq(1 .. written') \subseteq Seq(Nat)
  BY StillBytes
<1>2. f \in Files /\ f.inode = i
  BY <1>1 DEF Remembers, Files
<1>3. HandleOK(f)'
  BY <1>2 DEF Remembers, HandleOK, OldBytes, Files
<1>4. 0 <= Len(content'[i]) /\ \A k \in 1 .. 0 : content'[i][k] \notin owed'
  OBVIOUS
<1> QED BY <1>2, <1>3, <1>4 DEF HandleInv, Covered

(* A read that fails: the handle is as before, at the beginning of its     *)
(* file, or known to be astray.                                            *)
LEMMA FailedCovers ==
  ASSUME FsTypes, Evolves, NEW h, HandleInv(h), NEW i, i = h.inode, Appended(i),
         i \notin Unsure => h.len = 0 \/ Of(h.cmp, content[i]),
         i \in unseen => i \in Blurred, raced' = raced, unseen' = unseen,
         NEW r, r \in FailedReads(h, content[i], content'[i]), Stray(r)
  PROVE  /\ HandleInv(r.file)' /\ r.file.inode = i
         /\ i \notin Unsure' => r.file.len = 0 \/ Of(r.file.cmp, content'[i])
<1>1. PICK before : before = content[i]
  OBVIOUS
<1>2. PICK now : now = content'[i]
  OBVIOUS
<1>3. PICK v \in Nat : v = written'
  BY HandleRemembers
<1>4. /\ now \in Seq(1 .. v) /\ Len(before) \in Nat /\ Len(now) \in Nat
      /\ Remembers(h, h, v) /\ i \in Inodes
      /\ Budget \in Nat \ {0} /\ FingerprintBytes \in Nat \ {0}
  BY <1>1, <1>2, <1>3, HandleRemembers
<1>5. PICK g : g = Rewound(h, before, now)
  OBVIOUS
<1>6. PICK data : data = Taken(g, before, now)
  OBVIOUS
<1>7. PICK a : a = Advanced(g, data)
  OBVIOUS
<1>8. /\ Remembers(g, h, v) /\ h.offset \in Nat /\ h.cursor \in Nat
      /\ Len(before) >= h.offset => g = h
      /\ Len(before) < h.offset => g.offset = 0 /\ g.cursor = 0
  <2>1. h.offset \in Nat /\ h.cursor \in Nat
    BY <1>4 DEF Remembers
  <2>2. /\ Remembers(g, h, v)
        /\ Len(before) >= h.offset => g = h
        /\ Len(before) < h.offset =>
              /\ g.offset = 0 /\ g.cursor = 0 /\ g.cmp = Fingerprint(now)
              /\ g.len = ObservedFingerprintLen(Fingerprint(now), Len(before))
    BY ONLY v \in Nat, <1>4, <1>5, RewoundTypes
  <2> QED BY <2>1, <2>2
<1>9. Remembers(a, h, v) /\ a.cursor \in Nat /\ g.cursor \in Nat /\ g.offset \in Nat
  <2>1. g.cursor \in Nat /\ g.offset \in Nat
    BY <1>8 DEF Remembers
  <2>2. Len(data) \in Nat
    BY <1>4, <1>6, <2>1, TakenTypes
  <2> QED BY <1>7, <1>8, <2>1, <2>2, AdvancedTypes
<1>10. PICK z : z = [h EXCEPT !.offset = 0, !.eof = "fresh"]
  OBVIOUS
<1>11. Remembers(z, h, v) /\ z.offset = 0
  <2>1. h \in [inode : {h.inode}, fp : Seq(1 .. v), cmp : Seq(1 .. v), len : 0 .. FingerprintBytes,
               offset : Nat, cursor : Nat, eof : {"fresh", "idle", "emitted"}]
    BY <1>4 DEF Remembers
  <2>2. z \in [inode : {h.inode}, fp : Seq(1 .. v), cmp : Seq(1 .. v), len : 0 .. FingerprintBytes,
               offset : Nat, cursor : Nat, eof : {"fresh", "idle", "emitted"}]
        /\ z.offset = 0 /\ z.len = h.len /\ z.fp = h.fp /\ z.cmp = h.cmp
    BY <1>10, <2>1
  <2> QED BY <1>4, <2>2 DEF Remembers
<1>12. CursorsLeft(h.cursor, now) \subseteq Nat /\ CursorsLeft(a.cursor, now) \subseteq Nat
       /\ {g.offset} \cup g.cursor .. a.cursor \subseteq Nat
  <2>1. 0 .. Least(FingerprintBytes, Len(now)) \subseteq Nat
    OBVIOUS
  <2>2. g.cursor .. a.cursor \subseteq Nat
    BY <1>9
  <2> QED BY <1>8, <1>9, <2>1, <2>2 DEF CursorsLeft
<1>13. \E b \in {h, z, g, a}, c \in Nat, dropped \in BOOLEAN :
          /\ r = [file |-> [b EXCEPT !.cursor = c], strays |-> dropped \/ c # b.offset]
          /\ \/ b = h
             \/ b = z /\ Len(before) < h.offset
             \/ b = g
             \/ dropped
  <2>1. r \in FailedReads(h, before, now)
    BY <1>1, <1>2
  <2> DEFINE Left(f, cursors, dropped) ==
                {[file |-> [f EXCEPT !.cursor = c], strays |-> dropped \/ c # f.offset] : c \in cursors}
  <2>2. \/ r \in Left(h, {h.cursor}, FALSE)
        \/ r \in Left(z, CursorsLeft(h.cursor, now), FALSE) /\ Len(before) < h.offset
        \/ r \in Left(g, {g.offset} \cup g.cursor .. a.cursor, FALSE)
        \/ r \in Left(a, CursorsLeft(a.cursor, now), TRUE)
    BY <2>1, <1>5, <1>6, <1>7, <1>10 DEF FailedReads
  <2>3. CASE r \in Left(h, {h.cursor}, FALSE)
    BY <2>3, <1>8
  <2>4. CASE r \in Left(z, CursorsLeft(h.cursor, now), FALSE) /\ Len(before) < h.offset
    BY <2>4, <1>12
  <2>5. CASE r \in Left(g, {g.offset} \cup g.cursor .. a.cursor, FALSE)
    BY <2>5, <1>12
  <2>6. CASE r \in Left(a, CursorsLeft(a.cursor, now), TRUE)
    BY <2>6, <1>12
  <2> HIDE DEF Left
  <2> QED BY <2>2, <2>3, <2>4, <2>5, <2>6
<1>14. PICK b \in {h, z, g, a}, c \in Nat, dropped \in BOOLEAN :
          /\ r = [file |-> [b EXCEPT !.cursor = c], strays |-> dropped \/ c # b.offset]
          /\ \/ b = h
             \/ b = z /\ Len(before) < h.offset
             \/ b = g
             \/ dropped
  BY <1>13
<1>15. PICK f : f = r.file
  OBVIOUS
<1>16. f = [b EXCEPT !.cursor = c] /\ (r.strays <=> dropped \/ c # b.offset)
  BY <1>14, <1>15
<1>17. Remembers(b, h, v)
  BY <1>4, <1>8, <1>9, <1>11, <1>14
<1>18. /\ Remembers(f, h, v)
       /\ f.inode = i /\ f.fp = b.fp /\ f.cmp = b.cmp /\ f.len = b.len /\ f.offset = b.offset
       /\ f.cursor = c
  <2>1. b \in [inode : {h.inode}, fp : Seq(1 .. v), cmp : Seq(1 .. v), len : 0 .. FingerprintBytes,
               offset : Nat, cursor : Nat, eof : {"fresh", "idle", "emitted"}]
    BY <1>17 DEF Remembers
  <2>2. f \in [inode : {h.inode}, fp : Seq(1 .. v), cmp : Seq(1 .. v), len : 0 .. FingerprintBytes,
               offset : Nat, cursor : Nat, eof : {"fresh", "idle", "emitted"}]
        /\ f.inode = b.inode /\ f.fp = b.fp /\ f.cmp = b.cmp /\ f.len = b.len /\ f.offset = b.offset
        /\ f.cursor = c
    BY <1>14, <1>16, <2>1
  <2> QED BY <1>17, <2>1, <2>2 DEF Remembers
<1>19. CASE i \in strayed'
  <2>1. HandleInv(f)' /\ f.inode = i
    BY <1>3, <1>4, <1>18, <1>19, AstrayHandle
  <2> QED BY <1>15, <1>19, <2>1 DEF Unsure
<1>20. CASE i \notin strayed'
  <2>1. c = b.offset /\ ~dropped /\ strayed' = strayed
    BY <1>15, <1>16, <1>18, <1>20 DEF Stray
  <2>2. i \notin Unsure' => ~(Len(before) < h.offset)
    <3> SUFFICES ASSUME i \notin Unsure' PROVE h.offset <= Len(before)
      BY <1>4, <1>8
    <3>1. i \notin Unsure /\ i \notin Blurred
      BY <2>1 DEF Unsure, Blurred
    <3> QED BY <1>1, <3>1, UpToDate
  <2>3. CASE Len(before) < h.offset /\ b # h
    <3>1. f.offset = 0 /\ f.cursor = 0
      BY <1>8, <1>11, <1>14, <1>18, <2>1, <2>3
    <3>2. HandleInv(f)' /\ f.inode = i
      BY <1>2, <1>3, <1>4, <1>18, <3>1, HandleAtStart
    <3> QED BY <1>15, <2>2, <2>3, <3>2
  <2>4. CASE ~(Len(before) < h.offset /\ b # h)
    <3>1. b = h
      BY <1>4, <1>8, <1>14, <2>1, <2>4
    <3>2. HandleInv(h)'
      BY HandleStays
    <3>3. f \in Files
      <4>1. Seq(1 .. v) \subseteq Seq(Nat)
        BY StillBytes
      <4> QED BY <1>4, <1>18, <4>1 DEF Remembers, Files
    <3>4. HandleInv(f)'
      BY <1>18, <2>1, <3>1, <3>2, <3>3, SameHandle
    <3>5. i \notin Unsure' => h.len = 0 \/ Of(h.cmp, content'[i])
      <4>1. i \notin Unsure' => i \notin Unsure
        BY <2>1 DEF Unsure
      <4> QED BY <1>4, <4>1, OfAfter
    <3> QED BY <1>15, <1>18, <3>1, <3>4, <3>5
  <2> QED BY <2>3, <2>4
<1> QED BY <1>19, <1>20

(* What is behind an offset.                                               *)
LEMMA RestBytes ==
  ASSUME NEW w \in Nat, NEW s \in Seq(1 .. w), NEW n \in Nat, NEW k \in n + 1 .. Len(s)
  PROVE  s[k] \in Bytes(Rest(s, n))
<1>1. Len(s) \in Nat /\ \A j \in 1 .. Len(s) : s[j] \in 1 .. w
  BY BytesOf
<1>2. PICK m \in Nat : m = n + 1
  OBVIOUS
<1>3. PICK e \in Nat : e = Len(s)
  BY <1>1
<1>4. \A j \in m .. e : s[j] \in 1 .. w
  BY <1>1, <1>2, <1>3
<1>5. /\ SubSeq(s, m, e) \in Seq(1 .. w)
      /\ Len(SubSeq(s, m, e)) = e - m + 1
      /\ \A j \in 1 .. e - m + 1 : SubSeq(s, m, e)[j] = s[m + j - 1]
  BY <1>2, <1>4, <1>3, SubSeqProperties
<1>6. k - n \in 1 .. e - m + 1 /\ m + (k - n) - 1 = k
  BY <1>2, <1>3
<1>7. Rest(s, n) = SubSeq(s, m, e)
  BY <1>2, <1>3 DEF Rest
<1>8. DOMAIN SubSeq(s, m, e) = 1 .. e - m + 1
  BY <1>5, BytesOf
<1>9. SubSeq(s, m, e)[k - n] = s[k] /\ k - n \in DOMAIN SubSeq(s, m, e)
  BY <1>5, <1>6, <1>8
<1> QED BY <1>7, <1>9 DEF Bytes

(* A handle that is dropped after a read leaves nothing owed but what was  *)
(* behind a full read budget.                                              *)
LEMMA DroppedIsRead ==
  ASSUME FsTypes, NEW h, HandleInv(h), NEW i, i = h.inode, i \notin Unsure,
         h.len = 0 \/ Of(h.cmp, content[i]),
         NEW r, r = ReadNewData(h, content[i], content[i]),
         NEW b \in owed, b \in Bytes(content[i])
  PROVE  b \in Bytes(r.data) \/ b \in Unread(r, content[i])
<1> DEFINE s == content[i]
<1>1. /\ i \in Inodes /\ h \in Files /\ written \in Nat /\ written <= written
      /\ Budget \in Nat \ {0} /\ FingerprintBytes \in Nat \ {0}
      /\ h.fp \in Seq(1 .. written) /\ h.cmp \in Seq(1 .. written)
      /\ h.len > 0 => h.fp # <<>> /\ h.cmp # <<>>
      /\ h.len = 0 => h.offset = 0
      /\ h.cursor = h.offset
      /\ h.len \in Nat /\ h.offset \in Nat
  BY DEF HandleInv, HandleOK, OldBytes, Files, FsTypes, Unsure
<1>2. s \in Seq(1 .. written) /\ Len(s) <= written
  BY <1>1 DEF FsTypes
<1>3. h.offset <= Len(s) /\ \A k \in 1 .. h.offset : s[k] \notin owed
  <2>1. i \notin Blurred
    BY DEF Blurred, Unsure
  <2> QED BY <2>1, UpToDate
<1> HIDE DEF s
<1>4. Len(s) \in Nat /\ Bytes(s) = {s[k] : k \in 1 .. Len(s)}
  BY <1>1, <1>2, BytesOf
<1>5. ReadsTo(h, s, s, written, r)
  <2>1. r = ReadNewData(h, s, s) /\ Len(s) <= Len(s)
    BY <1>4 DEF s
  <2> QED BY ONLY <1>1, <1>2, <1>4, <2>1, ReadHandle
<1>6. PICK k \in 1 .. Len(s) : b = s[k]
  BY <1>4 DEF s
<1>7. k > h.offset
  BY <1>1, <1>3, <1>4, <1>6
<1>8. Start(h, s) = h.offset
  BY <1>1, <1>3, <1>4 DEF Start
<1> DEFINE e == Stop(h, s, s)
<1>9. /\ Len(r.data) = e - h.offset /\ r.file.offset = e
      /\ Bytes(r.data) = {s[j] : j \in h.offset + 1 .. e}
  BY <1>5, <1>8 DEF ReadsTo
<1>10. e = (IF Len(s) <= h.offset THEN h.offset ELSE Least(h.offset + Budget, Len(s)))
  BY <1>8 DEF Stop
<1> HIDE DEF e
<1>11. e \in Nat
  BY <1>1, <1>4, <1>10 DEF Least
<1>12. CASE k <= e
  <2>1. k \in h.offset + 1 .. e
    BY <1>1, <1>4, <1>7, <1>11, <1>12
  <2> QED BY <1>6, <1>9, <2>1
<1>13. CASE k > e
  <2>1. e = h.offset + Budget /\ e - h.offset = Budget
    BY <1>1, <1>4, <1>7, <1>10, <1>13 DEF Least
  <2>2. k \in e + 1 .. Len(s)
    BY <1>4, <1>11, <1>13
  <2>3. s[k] \in Bytes(Rest(s, e))
    BY <1>1, <1>2, <1>11, <2>2, RestBytes
  <2> QED BY <1>6, <1>9, <2>1, <2>3 DEF Unread, s
<1> QED BY <1>4, <1>11, <1>12, <1>13

(* A file that is opened: a saved offset is taken only for the content it  *)
(* was saved for.                                                          *)
LEMMA OpenCovers ==
  ASSUME FsTypes, Evolves, NEW i \in Inodes, Appended(i),
         \A q \in DOMAIN evicted : HandleInv(evicted[q]),
         NEW key, key # Nil => key \in DOMAIN evicted,
         NEW f, f = OpenFileAt(key, i, content[i], content'[i])
  PROVE  /\ HandleInv(f)' /\ f.inode = i
         /\ f.len = 0 \/ Of(f.cmp, content'[i])
<1> DEFINE before == content[i]
           now == content'[i]
           fp == Fingerprint(before)
           size == Len(now)
           fresh == [inode |-> i, fp |-> fp, cmp |-> fp, offset |-> 0, cursor |-> 0,
                     eof |-> "fresh", len |-> ObservedFingerprintLen(fp, size)]
<1>1. /\ written \in Nat /\ written' \in Nat /\ written <= written' /\ MaxBytes \in Nat
      /\ FingerprintBytes \in Nat \ {0} /\ before \in Seq(1 .. written)
      /\ now \in Seq(1 .. written') /\ Len(now) \in Nat
  <2>1. written \in Nat /\ written' \in {written, written + 1} /\ MaxBytes \in Nat
        /\ FingerprintBytes \in Nat \ {0} /\ before \in Seq(1 .. written)
    BY DEF FsTypes, Evolves
  <2>2. now \in Seq(1 .. written')
    BY <2>1, Grown
  <2>3. Len(now) \in Nat
    BY <2>1, <2>2, BytesOf
  <2> QED BY <2>1, <2>2, <2>3
<1>2. /\ fp \in Seq(1 .. written) /\ (fp = <<>> <=> before = <<>>)
      /\ fp # <<>> => Of(fp, now)
  BY <1>1, FingerprintFacts, OfAfter
<1>3. CASE key # Nil /\ EvictedMatches(evicted[key], i, fp, now, size)
  <2>1. PICK e : e = evicted[key]
    OBVIOUS
  <2>2. f = [e EXCEPT !.cursor = e.offset] /\ HandleInv(e)
    BY <1>3, <2>1 DEF OpenFileAt
  <2>3. HandleInv(f)' /\ f.inode = e.inode /\ f.len = e.len /\ f.cmp = e.cmp
    <3>1. HandleInv(e)' /\ e \in Files
      BY <2>2, HandleStays DEF HandleInv, HandleOK
    <3>2. /\ f \in Files /\ f.inode = e.inode /\ f.len = e.len /\ f.cmp = e.cmp /\ f.fp = e.fp
          /\ f.offset = e.offset /\ f.cursor = f.offset
      BY <2>2, <3>1 DEF Files
    <3> QED BY <3>1, <3>2, SameHandle
  <2>4. e.inode = i /\ e.len \in Nat /\ (e.len > 0 => e.cmp # <<>>)
    BY <1>3, <2>1, <2>2 DEF EvictedMatches, HandleInv, HandleOK, Files
  <2>5. e.len = 0 \/ Of(e.cmp, now)
    <3>1. CASE e.len > 0 /\ e.len < FingerprintBytes
      <4>1. e.cmp = Prefix(now, e.len) /\ e.cmp # <<>>
        BY <1>3, <2>1, <2>4, <3>1 DEF EvictedMatches
      <4> HIDE DEF now
      <4> QED BY <1>1, <2>4, <4>1, PrefixOf
    <3>2. CASE ~(e.len > 0 /\ e.len < FingerprintBytes)
      <4>1. e.cmp = fp
        BY <1>3, <2>1, <3>2 DEF EvictedMatches
      <4> QED BY <1>2, <2>4, <4>1
    <3> QED BY <3>1, <3>2
  <2> QED BY <2>3, <2>4, <2>5
<1>4. CASE ~(key # Nil /\ EvictedMatches(evicted[key], i, fp, now, size))
  <2>1. f = fresh
    BY <1>4 DEF OpenFileAt
  <2> HIDE DEF fp, now, before
  <2>2. /\ f.inode = i /\ f.fp = fp /\ f.cmp = fp /\ f.offset = 0 /\ f.cursor = 0
        /\ f.len = ObservedFingerprintLen(fp, size)
    BY <2>1
  <2>3. /\ f.len \in 0 .. FingerprintBytes
        /\ f.len > 0 => fp # <<>>
    BY <1>1, <2>2 DEF ObservedFingerprintLen, Least
  <2>4. fp \in Seq(1 .. written') /\ fp \in Seq(Nat)
    BY <1>1, <1>2, StillBytes
  <2>5. f \in Files
    BY <1>1, <2>1, <2>3, <2>4 DEF Files
  <2>6. HandleOK(f)'
    BY <2>2, <2>3, <2>4, <2>5 DEF HandleOK, OldBytes, Files
  <2>7. 0 <= Len(content'[i]) /\ \A k \in 1 .. 0 : content'[i][k] \notin owed'
    BY <1>1 DEF now
  <2>8. Covered(f.inode, f.fp, f.offset)' /\ Covered(f.inode, f.cmp, f.offset)'
    BY <2>2, <2>7 DEF Covered
  <2>9. f.len = 0 \/ Of(f.cmp, now)
    BY <1>2, <2>2, <2>3
  <2> QED BY <2>2, <2>6, <2>8, <2>9 DEF HandleInv, now
<1> QED BY <1>3, <1>4

-----------------------------------------------------------------------------
(* What the steps of a poll have in common.                                *)

(* A late write appends one byte to one file.                              *)
LEMMA LateWriteFacts ==
  ASSUME FsTypes, NEW j \in Inodes \cup {Nil}, LateWrite(j)
  PROVE  /\ written' \in {written, written + 1} /\ written' \in 0 .. MaxBytes
         /\ written' # written => j # Nil
         /\ content' \in [Inodes -> Seq(1 .. written')]
         /\ \A i \in Inodes : Appended(i) /\ Len(content'[i]) <= written'
         /\ \A i \in Inodes : i # j => content'[i] = content[i]
         /\ j # Nil => written + 1 \in Bytes(content'[j])
<1>1. written \in 0 .. MaxBytes /\ MaxBytes \in Nat /\ content \in [Inodes -> Seq(1 .. written)]
      /\ Nil \notin Inodes
  BY DEF FsTypes
<1>2. CASE j = Nil
  BY <1>1, <1>2 DEF LateWrite, Appended, FsTypes
<1>3. CASE j # Nil
  <2>1. /\ written' = written + 1 /\ written < MaxBytes /\ j \in Inodes
        /\ content' = [content EXCEPT ![j] = Append(content[j], written + 1)]
    BY <1>3 DEF LateWrite
  <2>2. \A i \in Inodes : i # j => content'[i] = content[i]
    BY <1>1, <2>1
  <2>3. content'[j] = Append(content[j], written + 1)
    BY <1>1, <2>1
  <2>4. \A i \in Inodes : Appended(i)
    BY <2>1, <2>2, <2>3 DEF Appended
  <2>5. written' \in Nat /\ written' \in {written, written + 1}
    BY <1>1, <2>1
  <2>6. ASSUME NEW i \in Inodes PROVE content'[i] \in Seq(1 .. written') /\ Len(content'[i]) <= written'
    <3>1. content'[i] \in Seq(1 .. written') /\ Len(content'[i]) \in {Len(content[i]), Len(content[i]) + 1}
          /\ Len(content[i]) \in Nat
      BY <2>4, <2>5, Grown
    <3>2. Len(content[i]) <= written
      BY DEF FsTypes
    <3> QED BY <1>1, <2>1, <3>1, <3>2
  <2>7. content' = [i \in Inodes |-> content'[i]]
    BY <1>1, <2>1
  <2>8. content' \in [Inodes -> Seq(1 .. written')]
    BY <2>6, <2>7
  <2>9. written + 1 \in Bytes(content'[j])
    <3>1. content[j] \in Seq(1 .. written) /\ Len(content[j]) \in Nat /\ written \in Nat
      BY <1>1, <2>1, BytesOf
    <3>2. Len(content[j]) + 1 \in DOMAIN Append(content[j], written + 1)
          /\ Append(content[j], written + 1)[Len(content[j]) + 1] = written + 1
      BY <3>1
    <3> QED BY <2>3, <3>2 DEF Bytes
  <2> QED BY <1>1, <1>3, <2>1, <2>2, <2>4, <2>6, <2>8, <2>9
<1> QED BY <1>2, <1>3

(* The bytes of a file that grows stay in it.                              *)
LEMMA BytesStay ==
  ASSUME FsTypes, NEW i \in Inodes, Appended(i)
  PROVE  Bytes(content[i]) \subseteq Bytes(content'[i])
<1>1. written \in Nat /\ content[i] \in Seq(1 .. written)
  BY DEF FsTypes
<1>2. Len(content[i]) \in Nat /\ Bytes(content[i]) = {content[i][k] : k \in 1 .. Len(content[i])}
      /\ DOMAIN content[i] = 1 .. Len(content[i])
  BY <1>1, BytesOf
<1>3. CASE content'[i] = content[i]
  BY <1>3
<1>4. CASE content'[i] = Append(content[i], written + 1)
  <2>1. \A k \in 1 .. Len(content[i]) :
           /\ k \in DOMAIN Append(content[i], written + 1)
           /\ Append(content[i], written + 1)[k] = content[i][k]
    BY <1>1, <1>2
  <2> QED BY <1>2, <1>4, <2>1 DEF Bytes
<1> QED BY <1>3, <1>4 DEF Appended

(* What is owed stays within reach if no file is given up that has it.     *)
LEMMA LossKept ==
  ASSUME FsTypes, LossOnlyAtClose, owed' \subseteq owed \cup {written + 1},
         written + 1 \in owed' =>
            \E j \in Inodes : Reachable(j)' /\ written + 1 \in Bytes(content'[j]),
         \A i \in Inodes : Reachable(i) =>
            \/ Reachable(i)' /\ Appended(i)
            \/ \A b \in owed \cap owed' : b \notin Bytes(content[i])
  PROVE  LossOnlyAtClose'
<1> SUFFICES ASSUME NEW b \in owed'
             PROVE  \E i \in Inodes : Reachable(i)' /\ b \in Bytes(content'[i])
  BY DEF LossOnlyAtClose, Bytes
<1>1. CASE b = written + 1
  BY <1>1
<1>2. CASE b \in owed
  <2>1. PICK i \in Inodes : Reachable(i) /\ b \in Bytes(content[i])
    BY <1>2 DEF LossOnlyAtClose
  <2>2. Reachable(i)' /\ Appended(i)
    BY <1>2, <2>1
  <2> QED BY <2>1, <2>2, BytesStay
<1> QED BY <1>1, <1>2

(* A step that changes the handle of one path only.                        *)
LEMMA OthersStay ==
  ASSUME TailInv, Evolves, NEW p,
         \A q \in DOMAIN files' : q # p => q \in DOMAIN files /\ files'[q] = files[q],
         p \in DOMAIN files' => HandleInv(files[p])',
         \A q \in DOMAIN evicted' : q \in DOMAIN evicted /\ evicted'[q] = evicted[q]
  PROVE  /\ \A q \in DOMAIN files' : HandleInv(files[q])'
         /\ \A q \in DOMAIN evicted' : HandleInv(evicted[q])'
<1>1. FsTypes
  BY DEF TailInv
<1>2. ASSUME NEW q \in DOMAIN files' PROVE HandleInv(files[q])'
  <2>1. CASE q = p
    BY <2>1
  <2>2. CASE q # p
    <3>1. PICK h : h = files[q]
      OBVIOUS
    <3>2. HandleInv(h) /\ files'[q] = h
      BY <2>2, <3>1 DEF TailInv
    <3>3. HandleInv(h)'
      BY <1>1, <3>2, HandleStays
    <3> QED BY <3>2, <3>3
  <2> QED BY <2>1, <2>2
<1>3. ASSUME NEW q \in DOMAIN evicted' PROVE HandleInv(evicted[q])'
  <2>1. PICK h : h = evicted[q]
    OBVIOUS
  <2>2. HandleInv(h) /\ evicted'[q] = h
    BY <2>1 DEF TailInv
  <2>3. HandleInv(h)'
    BY <1>1, <2>2, HandleStays
  <2> QED BY <2>2, <2>3
<1> QED BY <1>2, <1>3

(* The bytes that are owed after a step with a late write.                 *)
LEMMA OweFacts ==
  ASSUME NEW less, written \in Nat, written' \in {written, written + 1},
         owed \subseteq 1 .. written, Owe(less)
  PROVE  /\ owed' \subseteq owed \cup {written + 1} /\ owed' \subseteq 1 .. written'
         /\ written + 1 \in owed' => written' = written + 1
         /\ owed' \cap less = {}
<1>1. owed' = (owed \cup (written + 1) .. written') \ less
  BY DEF Owe
<1>2. written + 1 \notin owed /\ 1 .. written \subseteq 1 .. written + 1
  OBVIOUS
<1>3. CASE written' = written
  <2>1. (written + 1) .. written' = {}
    BY <1>3
  <2>2. owed' = owed \ less
    BY <1>1, <2>1
  <2> QED BY <1>2, <1>3, <2>2
<1>4. CASE written' = written + 1
  <2>1. (written + 1) .. written' = {written + 1} /\ written + 1 \in 1 .. written'
    BY <1>4
  <2>2. owed' = (owed \cup {written + 1}) \ less
    BY <1>1, <2>1
  <2>3. owed \subseteq 1 .. written'
    BY <1>2, <1>4
  <2>4. owed' \subseteq 1 .. written'
    BY <2>1, <2>2, <2>3
  <2> QED BY <1>4, <2>2, <2>4
<1> QED BY <1>3, <1>4

(* open_file_at for a path without a handle.                               *)
LEMMA OpenNewFacts ==
  ASSUME TailInv, NEW p \in Paths, link[p] # Nil, p \notin DOMAIN files,
         NEW late \in {Nil, link[p]}, OpenNew(p, late),
         link' = link, elsewhere' = elsewhere, Blurred' = Blurred,
         strayed' = strayed
  PROVE  /\ FsTypes' /\ Evolves /\ \A i \in Inodes : Appended(i)
         /\ owed' \subseteq 1 .. written'
         /\ \A q \in DOMAIN files' : HandleInv(files[q])'
         /\ \A q \in DOMAIN evicted' : HandleInv(evicted[q])'
         /\ DOMAIN files' = DOMAIN files \cup {p} /\ DOMAIN evicted' \subseteq DOMAIN evicted
         /\ \A q \in DOMAIN files : files'[q] = files[q]
         /\ files'[p].inode = link[p]
         /\ files'[p].len = 0 \/ Of(files'[p].cmp, content'[link[p]])
         /\ LossOnlyAtClose'
<1> DEFINE i == link[p]
<1>1. FsTypes /\ i \in Inodes /\ written \in Nat /\ Nil \notin Inodes
  BY DEF TailInv, FsTypes
<1>2. LateWrite(late) /\ Owe({}) /\ late \in Inodes \cup {Nil}
  BY <1>1 DEF OpenNew
<1>3. /\ written' \in {written, written + 1} /\ written' \in 0 .. MaxBytes
      /\ written' # written => late # Nil
      /\ content' \in [Inodes -> Seq(1 .. written')]
      /\ \A j \in Inodes : Appended(j) /\ Len(content'[j]) <= written'
      /\ late # Nil => written + 1 \in Bytes(content'[late])
  BY <1>1, <1>2, LateWriteFacts
<1>4. FsTypes'
  BY <1>1, <1>3 DEF FsTypes
<1>5. /\ owed' \subseteq owed \cup {written + 1} /\ owed' \subseteq 1 .. written'
      /\ written + 1 \in owed' => late # Nil
  <2>1. owed \subseteq 1 .. written /\ written' \in Nat /\ written + 1 # written
    BY <1>1, <1>3 DEF TailInv, GhostTypes
  <2> QED BY <1>1, <1>2, <1>3, <2>1, OweFacts
<1>6. Evolves
  BY <1>3, <1>5 DEF Evolves
<1>7. PICK key \in EvictedKeys(p, i, Fingerprint(content[i])) :
         /\ files' = With(files, p, OpenFileAt(key, i, content[i], content'[i]))
         /\ evicted' = Without(evicted, {key})
  BY DEF OpenNew
<1>8. key # Nil => key \in DOMAIN evicted
  BY <1>7 DEF EvictedKeys
<1>9. PICK f : f = OpenFileAt(key, i, content[i], content'[i])
  OBVIOUS
<1>10. /\ HandleInv(f)' /\ f.inode = i
       /\ f.len = 0 \/ Of(f.cmp, content'[i])
  <2>1. \A q \in DOMAIN evicted : HandleInv(evicted[q])
    BY DEF TailInv
  <2> QED BY <1>1, <1>3, <1>6, <1>8, <1>9, <2>1, OpenCovers
<1>11. /\ DOMAIN files' = DOMAIN files \cup {p} /\ files'[p] = f
       /\ \A q \in DOMAIN files : q # p => files'[q] = files[q]
  BY <1>7, <1>9 DEF With
<1>12. \A q \in DOMAIN evicted' : q \in DOMAIN evicted /\ evicted'[q] = evicted[q]
  BY <1>7 DEF Without
<1>13. /\ \A q \in DOMAIN files' : HandleInv(files[q])'
       /\ \A q \in DOMAIN evicted' : HandleInv(evicted[q])'
  <2>1. HandleInv(files[p])'
    BY <1>10, <1>11
  <2> QED BY <1>6, <1>11, <1>12, <2>1, OthersStay
<1>14. \A j \in Inodes : Reachable(j) => Reachable(j)'
  BY <1>11 DEF Reachable, Opened
<1>15. LossOnlyAtClose'
  <2>1. Reachable(i)'
    BY DEF Reachable
  <2>2. written + 1 \in owed' =>
            \E j \in Inodes : Reachable(j)' /\ written + 1 \in Bytes(content'[j])
    BY <1>1, <1>3, <1>5, <2>1
  <2>3. LossOnlyAtClose
    BY DEF TailInv
  <2> QED BY <1>1, <1>3, <1>5, <1>14, <2>2, <2>3, LossKept
<1> QED BY <1>3, <1>4, <1>5, <1>6, <1>10, <1>11, <1>12, <1>13, <1>15

(* A handle that is still up to date, in a step that does not touch the    *)
(* names and the truncations known so far.                                 *)
LEMMA InStepStays ==
  ASSUME TailInv, NEW q \in DOMAIN files, q \in DOMAIN files', files'[q] = files[q],
         \A i \in Inodes : Appended(i), link' = link, raced' = raced, unseen' = unseen,
         strayed \subseteq strayed',
         pc \in {"idle", "rescan"} \/ (pc = "detect" /\ q \in todo) =>
            pc' \in {"idle", "rescan"} \/ (pc' = "detect" /\ q \in todo')
  PROVE  InStep(q)'
<1>1. PICK h : h = files[q]
  OBVIOUS
<1>2. FsTypes /\ InStep(q) /\ h.inode \in Inodes
  BY <1>1 DEF TailInv, HandleInv, HandleOK, Files
<1>3. Blurred \subseteq Blurred' /\ Unsure \subseteq Unsure'
  BY DEF Blurred, Linked, Unsure
<1>4. Of(h.cmp, content[h.inode]) => Of(h.cmp, content'[h.inode])
  BY <1>2, OfAfter
<1> QED BY <1>1, <1>2, <1>3, <1>4 DEF InStep, Of

(* A failed open may have taken a saved offset away.                       *)
LEMMA NotOpenedFacts ==
  ASSUME NEW p, NotOpened(p)
  PROVE  \A q \in DOMAIN evicted' : q \in DOMAIN evicted /\ evicted'[q] = evicted[q]
<1>1. PICK key : evicted' = Without(evicted, {key})
  BY DEF NotOpened
<1> QED BY <1>1 DEF Without

(* rescan_globs.                                                           *)
LEMMA RescanKeeps ==
  ASSUME TailInv, NEW p \in Paths, Rescan(p)
  PROVE  TailInv'
<1>1. /\ pc = "rescan" /\ pc' = pc /\ p \in todo /\ todo' = todo \ {p} /\ watch' = watch \cup {p}
      /\ link' = link /\ elsewhere' = elsewhere /\ saved' = saved
      /\ abandoned' = abandoned /\ unseen' = unseen /\ raced' = raced
      /\ strayed' = strayed
  BY DEF Rescan, Turn
<1>2. FsTypes /\ GhostTypes /\ PollTypes /\ SavedInv /\ LossOnlyAtClose
  BY DEF TailInv
<1>3. p \notin DOMAIN files
  BY <1>1, <1>2 DEF PollTypes
<1>4. Blurred' = Blurred
  BY <1>1 DEF Blurred, Linked
<1>5. CASE \E late \in {Nil, link[p]} : link[p] # Nil /\ OpenNew(p, late)
  <2>1. PICK late \in {Nil, link[p]} : link[p] # Nil /\ OpenNew(p, late)
    BY <1>5
  <2>2. /\ FsTypes' /\ Evolves /\ \A i \in Inodes : Appended(i)
        /\ owed' \subseteq 1 .. written'
        /\ \A q \in DOMAIN files' : HandleInv(files[q])'
        /\ \A q \in DOMAIN evicted' : HandleInv(evicted[q])'
        /\ DOMAIN files' = DOMAIN files \cup {p} /\ DOMAIN evicted' \subseteq DOMAIN evicted
        /\ \A q \in DOMAIN files : files'[q] = files[q]
        /\ files'[p].inode = link[p]
        /\ files'[p].len = 0 \/ Of(files'[p].cmp, content'[link[p]])
        /\ LossOnlyAtClose'
    BY <1>1, <1>3, <1>4, <2>1, OpenNewFacts
  <2>3. SavedInv'
    BY <1>1, <1>2, <2>2, SavedStays
  <2>4. GhostTypes' /\ PollTypes'
    BY <1>1, <1>2, <2>2 DEF GhostTypes, PollTypes
  <2>5. InStep(p)'
    BY <1>1, <2>2 DEF InStep, Of
  <2>6. ASSUME NEW q \in DOMAIN files PROVE InStep(q)'
    BY <1>1, <2>2, InStepStays
  <2> QED BY <2>2, <2>3, <2>4, <2>5, <2>6 DEF TailInv
<1>6. CASE /\ UNCHANGED <<content, written, files, owed>>
           /\ \A q \in DOMAIN evicted' : q \in DOMAIN evicted /\ evicted'[q] = evicted[q]
  <2>1. Evolves /\ \A i \in Inodes : Appended(i)
    BY <1>1, <1>4, <1>6 DEF Evolves, Appended
  <2>2. FsTypes' /\ GhostTypes' /\ PollTypes'
    BY <1>1, <1>2, <1>6 DEF FsTypes, GhostTypes, PollTypes
  <2>3. SavedInv'
    BY <1>1, <1>2, <2>1, SavedStays
  <2>4. LossOnlyAtClose'
    BY <1>1, <1>2, <1>6 DEF LossOnlyAtClose, Reachable, Opened, Bytes
  <2>5. /\ \A q \in DOMAIN files' : HandleInv(files[q])'
        /\ \A q \in DOMAIN evicted' : HandleInv(evicted[q])'
    BY <1>3, <1>6, <2>1, OthersStay
  <2>6. ASSUME NEW q \in DOMAIN files PROVE InStep(q)'
    BY <1>1, <1>6, <2>1, InStepStays
  <2> QED BY <1>6, <2>2, <2>3, <2>4, <2>5, <2>6 DEF TailInv
<1>7. CASE OpenFails(p)
  BY <1>6, <1>7, NotOpenedFacts DEF OpenFails
<1>8. CASE UNCHANGED <<content, written, files, evicted, owed>>
  BY <1>6, <1>8
<1> QED BY <1>5, <1>7, <1>8 DEF Rescan

(* A rotated file is read once more before its handle is dropped.          *)
LEMMA RotateFacts ==
  ASSUME TailInv, NEW p \in Paths, link[p] # Nil, p \in DOMAIN files, Rotate(p),
         link' = link, elsewhere' = elsewhere, Blurred' = Blurred,
         strayed' = strayed
  PROVE  /\ FsTypes' /\ Evolves /\ \A i \in Inodes : Appended(i)
         /\ owed' \subseteq 1 .. written' /\ abandoned' \in BOOLEAN
         /\ \A q \in DOMAIN files' : HandleInv(files[q])'
         /\ \A q \in DOMAIN evicted' : HandleInv(evicted[q])'
         /\ DOMAIN files' \subseteq DOMAIN files /\ DOMAIN evicted' \subseteq DOMAIN evicted
         /\ \A q \in DOMAIN files' : q # p => files'[q] = files[q]
         /\ p \in DOMAIN files' =>
               /\ files'[p].inode = link[p]
               /\ files'[p].len = 0 \/ Of(files'[p].cmp, content'[link[p]])
         /\ LossOnlyAtClose'
<1> DEFINE i == link[p]
<1>1. FsTypes /\ i \in Inodes /\ written \in Nat /\ Nil \notin Inodes
  BY DEF TailInv, FsTypes
<1>2. PICK late \in {Nil, i} : LateWrite(late)
  BY DEF Rotate
<1>3. /\ written' \in {written, written + 1} /\ written' \in 0 .. MaxBytes
      /\ written' # written => late # Nil
      /\ content' \in [Inodes -> Seq(1 .. written')]
      /\ \A j \in Inodes : Appended(j) /\ Len(content'[j]) <= written'
      /\ \A j \in Inodes : j # late => content'[j] = content[j]
      /\ late # Nil => written + 1 \in Bytes(content'[late])
  BY <1>1, <1>2, LateWriteFacts
<1>4. FsTypes'
  BY <1>1, <1>3 DEF FsTypes
<1>5. PICK h : h = files[p]
  OBVIOUS
<1>6. PICK r : r = ReadNewData(h, content[h.inode], content'[h.inode])
  OBVIOUS
<1>7. PICK now : now = content'[h.inode]
  OBVIOUS
<1>8. PICK drained \in BOOLEAN, opened \in BOOLEAN :
         /\ Owe(Bytes(IF drained THEN r.data ELSE <<>>)
                \cup (IF h.inode \in Linked THEN {} ELSE IF drained THEN Unread(r, now) ELSE Bytes(now))
                \cup InWindow(h.inode))
         /\ abandoned' \in BOOLEAN
         /\ IF opened
            THEN \E key \in EvictedKeys(p, i, Fingerprint(content[i])) :
                    /\ files' = With(files, p, OpenFileAt(key, i, content[i], content'[i]))
                    /\ evicted' = Without(evicted, {key})
            ELSE files' = Without(files, {p}) /\ NotOpened(p)
  BY <1>5, <1>6, <1>7 DEF Rotate
<1>9. PICK data, left :
         /\ data = IF drained THEN r.data ELSE <<>>
         /\ left = IF h.inode \in Linked THEN {} ELSE IF drained THEN Unread(r, now) ELSE Bytes(now)
  OBVIOUS
<1>10. /\ owed' \subseteq owed \cup {written + 1} /\ owed' \subseteq 1 .. written'
       /\ written + 1 \in owed' => late # Nil
       /\ owed' \cap (Bytes(data) \cup left \cup InWindow(h.inode)) = {}
  <2>1. owed \subseteq 1 .. written /\ written' \in Nat /\ written + 1 # written
    BY <1>1, <1>3 DEF TailInv, GhostTypes
  <2>2. Owe(Bytes(data) \cup left \cup InWindow(h.inode))
    BY <1>8, <1>9
  <2> QED BY <1>1, <1>3, <2>1, <2>2, OweFacts
<1>11. Evolves
  BY <1>3, <1>10 DEF Evolves
<1>12. /\ p \in DOMAIN files' => /\ HandleInv(files[p])' /\ files'[p].inode = i
                                 /\ files'[p].len = 0 \/ Of(files'[p].cmp, content'[i])
       /\ DOMAIN files' \subseteq DOMAIN files
       /\ \A q \in DOMAIN files : q # p => q \in DOMAIN files' /\ files'[q] = files[q]
       /\ \A q \in DOMAIN evicted' : q \in DOMAIN evicted /\ evicted'[q] = evicted[q]
  <2>1. CASE files' = Without(files, {p}) /\ NotOpened(p)
    BY <2>1, NotOpenedFacts DEF Without
  <2>2. CASE \E key \in EvictedKeys(p, i, Fingerprint(content[i])) :
                /\ files' = With(files, p, OpenFileAt(key, i, content[i], content'[i]))
                /\ evicted' = Without(evicted, {key})
    <3>1. PICK key \in EvictedKeys(p, i, Fingerprint(content[i])) :
             /\ files' = With(files, p, OpenFileAt(key, i, content[i], content'[i]))
             /\ evicted' = Without(evicted, {key})
      BY <2>2
    <3>2. key # Nil => key \in DOMAIN evicted
      BY <3>1 DEF EvictedKeys
    <3>3. PICK f : f = OpenFileAt(key, i, content[i], content'[i])
      OBVIOUS
    <3>4. /\ HandleInv(f)' /\ f.inode = i
          /\ f.len = 0 \/ Of(f.cmp, content'[i])
      <4>1. \A q \in DOMAIN evicted : HandleInv(evicted[q])
        BY DEF TailInv
      <4> QED BY <1>1, <1>3, <1>11, <3>2, <3>3, <4>1, OpenCovers
    <3>5. /\ DOMAIN files' = DOMAIN files /\ files'[p] = f
          /\ \A q \in DOMAIN files : q # p => files'[q] = files[q]
      BY <3>1, <3>3 DEF With
    <3>6. \A q \in DOMAIN evicted' : q \in DOMAIN evicted /\ evicted'[q] = evicted[q]
      BY <3>1 DEF Without
    <3> QED BY <3>4, <3>5, <3>6
  <2> QED BY <1>8, <2>1, <2>2
<1>13. /\ \A q \in DOMAIN files' : HandleInv(files[q])'
       /\ \A q \in DOMAIN evicted' : HandleInv(evicted[q])'
  BY <1>11, <1>12, OthersStay
<1>14. ASSUME NEW j \in Inodes, Reachable(j), ~Reachable(j)'
       PROVE  \A b \in owed \cap owed' : b \notin Bytes(content[j])
  <2>1. \A q \in Paths : link[q] # j
    BY <1>14 DEF Reachable
  <2>2. j = h.inode /\ j \notin Linked /\ j # late
    BY <1>1, <1>5, <1>12, <1>14, <2>1 DEF Reachable, Opened, Linked
  <2>3. content'[j] = content[j]
    BY <1>3, <2>2
  <2>4. CASE j \in Unsure
    BY <1>10, <2>2, <2>4 DEF InWindow
  <2>5. CASE j \notin Unsure
    <3>1. HandleInv(h) /\ (h.len = 0 \/ Of(h.cmp, content[j]))
      BY <1>5, <2>2, <2>5 DEF TailInv, InStep
    <3>2. /\ r = ReadNewData(h, content[j], content[j])
          /\ drained => data = r.data /\ left = Unread(r, content[j])
          /\ ~drained => left = Bytes(content[j])
      BY <1>6, <1>7, <1>9, <2>2, <2>3
    <3>3. \A b \in owed : b \in Bytes(content[j]) =>
             b \in Bytes(r.data) \/ b \in Unread(r, content[j])
      BY <1>1, <2>2, <2>5, <3>1, <3>2, DroppedIsRead
    <3> QED BY <1>10, <3>2, <3>3
  <2> QED BY <2>4, <2>5
<1>15. LossOnlyAtClose'
  <2>1. Reachable(i)'
    BY DEF Reachable
  <2>2. written + 1 \in owed' =>
            \E j \in Inodes : Reachable(j)' /\ written + 1 \in Bytes(content'[j])
    BY <1>1, <1>3, <1>10, <2>1
  <2>3. LossOnlyAtClose
    BY DEF TailInv
  <2> QED BY <1>1, <1>3, <1>10, <1>14, <2>2, <2>3, LossKept
<1> QED BY <1>3, <1>4, <1>8, <1>10, <1>11, <1>12, <1>13, <1>15

(* A file that is not rotated is the one the handle was opened for.        *)
LEMMA NotRotated ==
  ASSUME FsTypes, NEW p \in Paths, link[p] # Nil, NEW h, HandleInv(h), ~ShouldRotate(h, p)
  PROVE  h.inode = link[p] /\ (h.len = 0 \/ Of(h.cmp, content[h.inode]))
<1>1. /\ written \in Nat /\ link[p] \in Inodes /\ content[link[p]] \in Seq(1 .. written)
      /\ h.len \in Nat /\ (h.len > 0 => h.cmp # <<>>)
  BY DEF FsTypes, HandleInv, HandleOK, Files
<1>2. h.inode = link[p]
  BY DEF ShouldRotate
<1>3. CASE h.len > 0
  <2>1. h.cmp = Prefix(content[link[p]], h.len) /\ h.cmp # <<>>
    BY <1>1, <1>3 DEF ShouldRotate
  <2> QED BY <1>1, <1>2, <2>1, PrefixOf
<1> QED BY <1>1, <1>2, <1>3

(* The handles of other paths when the file at p has been looked at.       *)
LEMMA DetectOthers ==
  ASSUME TailInv, NEW p \in Paths, NEW q \in DOMAIN files, q # p,
         q \in DOMAIN files', files'[q] = files[q], \A i \in Inodes : Appended(i),
         pc = "detect", pc' = "detect", todo' = todo \ {p},
         link' = link, raced \subseteq raced', unseen' = unseen \ {link[p]},
         strayed' = strayed
  PROVE  InStep(q)'
<1>1. PICK h : h = files[q]
  OBVIOUS
<1>2. FsTypes /\ InStep(q) /\ h.inode \in Inodes /\ q \in Paths
  BY <1>1 DEF TailInv, HandleInv, HandleOK, Files, PollTypes
<1>3. Blurred \subseteq Blurred' /\ Linked' = Linked
  <2>1. link[p] = Nil \/ link[p] \in Linked
    BY DEF Linked
  <2>2. Nil \notin unseen
    BY DEF TailInv, FsTypes, GhostTypes
  <2>3. Linked' = Linked
    BY DEF Linked
  <2> QED BY <2>1, <2>2, <2>3 DEF Blurred
<1>4. Of(h.cmp, content[h.inode]) => Of(h.cmp, content'[h.inode])
  BY <1>2, OfAfter
<1>5. ASSUME h.inode \in unseen, h.inode \notin raced \cup strayed, h.inode \notin unseen'
      PROVE  FALSE
  <2>1. h.inode = link[p] /\ h.inode \in Linked
    BY <1>2, <1>5 DEF Linked, TailInv, FsTypes
  <2>2. link[q] = h.inode
    BY <1>1, <1>2, <1>5, <2>1 DEF InStep, Blurred
  <2> QED BY <1>2, <2>1, <2>2 DEF TailInv, FsTypes
<1>6. h.inode \notin Unsure' => h.len = 0 \/ Of(h.cmp, content'[h.inode])
  BY <1>1, <1>2, <1>4, <1>5 DEF InStep, Unsure
<1>7. h.inode \in unseen' \ Blurred' => link'[q] = h.inode /\ q \in todo'
  BY <1>1, <1>2, <1>3 DEF InStep
<1> QED BY <1>1, <1>6, <1>7 DEF InStep, Of

(* detect_changes.                                                         *)
LEMMA DetectKeeps ==
  ASSUME TailInv, NEW p \in Paths, Detect(p)
  PROVE  TailInv'
<1>1. /\ pc = "detect" /\ pc' = "detect" /\ p \in todo /\ todo' = todo \ {p} /\ watch' = watch
      /\ link' = link /\ elsewhere' = elsewhere /\ saved' = saved
      /\ unseen' = unseen \ {link[p]}
      /\ raced \subseteq raced' /\ raced' \subseteq raced \cup unseen
      /\ strayed' = strayed
  BY DEF Detect, Turn
<1>2. FsTypes /\ GhostTypes /\ PollTypes /\ SavedInv /\ LossOnlyAtClose
  BY DEF TailInv
<1>3. /\ link[p] = Nil \/ link[p] \in Linked
      /\ Nil \notin unseen /\ Nil \notin Inodes /\ Linked' = Linked
  BY <1>1, <1>2 DEF Linked, FsTypes, GhostTypes
<1>4. Blurred \subseteq Blurred' /\ (raced' = raced => Blurred' = Blurred)
  BY <1>1, <1>3 DEF Blurred
<1>5. ASSUME FsTypes', Evolves, \A i \in Inodes : Appended(i), owed' \subseteq 1 .. written',
             abandoned' \in BOOLEAN, LossOnlyAtClose',
             \A q \in DOMAIN files' : HandleInv(files[q])',
             \A q \in DOMAIN evicted' : HandleInv(evicted[q])',
             DOMAIN files' \subseteq DOMAIN files \cup {p}, DOMAIN evicted' \subseteq DOMAIN evicted,
             \A q \in DOMAIN files' : q # p => files'[q] = files[q],
             p \in DOMAIN files' => InStep(p)'
      PROVE  TailInv'
  <2>1. SavedInv'
    BY <1>1, <1>2, <1>5, SavedStays
  <2>2. GhostTypes' /\ PollTypes'
    BY <1>1, <1>2, <1>5 DEF GhostTypes, PollTypes
  <2>3. ASSUME NEW q \in DOMAIN files' PROVE InStep(q)'
    <3>1. CASE q = p
      BY <1>5, <3>1
    <3>2. CASE q # p
      BY <1>1, <1>5, <3>2, DetectOthers
    <3> QED BY <3>1, <3>2
  <2> QED BY <1>5, <2>1, <2>2, <2>3 DEF TailInv
<1>6. ASSUME UNCHANGED <<content, written, files, owed>>, abandoned' \in BOOLEAN,
             \A q \in DOMAIN evicted' : q \in DOMAIN evicted /\ evicted'[q] = evicted[q],
             p \in DOMAIN files => InStep(p)'
      PROVE  TailInv'
  <2>1. Evolves /\ \A i \in Inodes : Appended(i)
    BY <1>1, <1>4, <1>6 DEF Evolves, Appended
  <2>2. FsTypes' /\ owed' \subseteq 1 .. written'
    BY <1>1, <1>2, <1>6 DEF FsTypes, GhostTypes
  <2>3. LossOnlyAtClose'
    BY <1>1, <1>2, <1>6 DEF LossOnlyAtClose, Reachable, Opened, Bytes
  <2>4. p \in DOMAIN files => HandleInv(files[p])'
    <3>1. PICK h : h = files[p]
      OBVIOUS
    <3>2. p \in DOMAIN files => HandleInv(h)'
      BY <1>2, <2>1, <3>1, HandleStays DEF TailInv
    <3> QED BY <1>6, <3>1, <3>2
  <2>5. /\ \A q \in DOMAIN files' : HandleInv(files[q])'
        /\ \A q \in DOMAIN evicted' : HandleInv(evicted[q])'
    BY <1>6, <2>1, <2>4, OthersStay
  <2> QED BY <1>5, <1>6, <2>1, <2>2, <2>3, <2>5
<1>7. abandoned \in BOOLEAN
  BY <1>2 DEF GhostTypes
<1>8. ASSUME UNCHANGED <<files, content>>, p \in DOMAIN files,
             files[p].inode \in unseen /\ files[p].inode = link[p] => files[p].inode \in raced',
             files[p].inode \in unseen \ Blurred => link[p] = files[p].inode
      PROVE  InStep(p)'
  <2>1. PICK h : h = files[p]
    OBVIOUS
  <2>2. InStep(p)
    BY <1>8 DEF TailInv
  <2>3. h.inode \notin Unsure' => h.inode \notin Unsure
    BY <1>1, <1>8, <2>1 DEF Unsure
  <2>4. h.inode \in unseen' \ Blurred' => FALSE
    BY <1>1, <1>4, <1>8, <2>1
  <2> QED BY <1>8, <2>1, <2>2, <2>3, <2>4 DEF InStep, Of
<1>9. ASSUME NEW q \in DOMAIN files
      PROVE  files[q].inode \in Inodes /\ (files[q].inode \in unseen \ Blurred => link[q] = files[q].inode)
  BY DEF TailInv, InStep, HandleInv, HandleOK, Files
<1>10. CASE /\ link[p] # Nil /\ Fail /\ raced' = raced \cup ({link[p]} \cap unseen)
            /\ UNCHANGED <<content, written, files, evicted, had_data, owed, unflushed, abandoned>>
  <2>1. p \in DOMAIN files => InStep(p)'
    BY <1>8, <1>9, <1>10
  <2> QED BY <1>6, <1>7, <1>10, <2>1
<1>11. CASE link[p] # Nil /\ p \in DOMAIN files /\ Rotate(p) /\ UNCHANGED raced
  <2>1. Blurred' = Blurred
    BY <1>4, <1>11
  <2>2. /\ FsTypes' /\ Evolves /\ \A i \in Inodes : Appended(i)
        /\ owed' \subseteq 1 .. written' /\ abandoned' \in BOOLEAN
        /\ \A q \in DOMAIN files' : HandleInv(files[q])'
        /\ \A q \in DOMAIN evicted' : HandleInv(evicted[q])'
        /\ DOMAIN files' \subseteq DOMAIN files /\ DOMAIN evicted' \subseteq DOMAIN evicted
        /\ \A q \in DOMAIN files' : q # p => files'[q] = files[q]
        /\ p \in DOMAIN files' =>
              /\ files'[p].inode = link[p]
              /\ files'[p].len = 0 \/ Of(files'[p].cmp, content'[link[p]])
        /\ LossOnlyAtClose'
    BY <1>1, <1>11, <2>1, RotateFacts
  <2>3. p \in DOMAIN files' => InStep(p)'
    BY <1>1, <2>2 DEF InStep, Of
  <2> QED BY <1>5, <2>2, <2>3
<1>12. CASE /\ link[p] # Nil => p \in DOMAIN files /\ ~ShouldRotate(files[p], p)
            /\ UNCHANGED <<content, written, files, evicted, had_data, owed, unflushed, abandoned,
                           raced>>
  <2>1. ASSUME p \in DOMAIN files, link[p] = Nil PROVE InStep(p)'
    BY <1>3, <1>8, <1>9, <1>12, <2>1
  <2>2. ASSUME p \in DOMAIN files, link[p] # Nil PROVE InStep(p)'
    <3>1. PICK h : h = files[p]
      OBVIOUS
    <3>2. HandleInv(h)
      BY <2>2, <3>1 DEF TailInv
    <3>3. h.inode = link[p] /\ (h.len = 0 \/ Of(h.cmp, content[h.inode]))
      BY <1>2, <1>12, <2>2, <3>1, <3>2, NotRotated
    <3> QED BY <1>1, <1>12, <3>1, <3>3 DEF InStep, Of
  <2> QED BY <1>6, <1>7, <1>12, <2>1, <2>2
<1>13. CASE /\ link[p] # Nil /\ p \notin DOMAIN files
            /\ \E late \in {Nil, link[p]} : OpenNew(p, late)
            /\ UNCHANGED <<had_data, unflushed, abandoned, raced>>
  <2>1. PICK late \in {Nil, link[p]} : OpenNew(p, late)
    BY <1>13
  <2>2. Blurred' = Blurred
    BY <1>4, <1>13
  <2>3. /\ FsTypes' /\ Evolves /\ \A i \in Inodes : Appended(i)
        /\ owed' \subseteq 1 .. written'
        /\ \A q \in DOMAIN files' : HandleInv(files[q])'
        /\ \A q \in DOMAIN evicted' : HandleInv(evicted[q])'
        /\ DOMAIN files' = DOMAIN files \cup {p} /\ DOMAIN evicted' \subseteq DOMAIN evicted
        /\ \A q \in DOMAIN files : files'[q] = files[q]
        /\ files'[p].inode = link[p]
        /\ files'[p].len = 0 \/ Of(files'[p].cmp, content'[link[p]])
        /\ LossOnlyAtClose'
    BY <1>1, <1>13, <2>1, <2>2, OpenNewFacts
  <2>4. InStep(p)'
    BY <1>1, <2>3 DEF InStep, Of
  <2> QED BY <1>5, <1>7, <1>13, <2>3, <2>4
<1>14. CASE link[p] # Nil /\ p \notin DOMAIN files /\ OpenFails(p)
            /\ UNCHANGED <<had_data, unflushed, abandoned, raced>>
  BY <1>6, <1>7, <1>14, NotOpenedFacts DEF OpenFails
<1> QED BY <1>10, <1>11, <1>12, <1>13, <1>14 DEF Detect

(* The end-of-file state of a handle is of no concern here.                *)
LEMMA EofOnly ==
  ASSUME NEW g, HandleInv(g)', NEW e \in {"fresh", "idle", "emitted"}, NEW f,
         f = [g EXCEPT !.eof = e]
  PROVE  HandleInv(f)' /\ f.inode = g.inode /\ f.len = g.len /\ f.cmp = g.cmp
<1>1. g \in Files
  BY DEF HandleInv, HandleOK, Files
<1>2. /\ f \in Files /\ f.inode = g.inode /\ f.len = g.len /\ f.cmp = g.cmp /\ f.fp = g.fp
      /\ f.offset = g.offset
  BY <1>1 DEF Files
<1>3. HandleOK(f)'
  BY <1>2 DEF HandleInv, HandleOK, OldBytes, Files
<1> QED BY <1>2, <1>3 DEF HandleInv

(* read_all.                                                               *)
LEMMA ReadKeeps ==
  ASSUME TailInv, NEW p \in Paths, ReadAll(p)
  PROVE  TailInv'
<1>1. /\ pc = "read" /\ pc' = "read" /\ p \in todo /\ todo' = todo \ {p} /\ watch' = watch
      /\ link' = link /\ elsewhere' = elsewhere /\ saved' = saved /\ evicted' = evicted
      /\ abandoned' = abandoned /\ unseen' = unseen /\ raced' = raced
  BY DEF ReadAll, Turn
<1>2. FsTypes /\ GhostTypes /\ PollTypes /\ SavedInv /\ LossOnlyAtClose
  BY DEF TailInv
<1>3. (strayed \subseteq strayed' => Blurred \subseteq Blurred') /\ p \in DOMAIN files
  BY <1>1, <1>2 DEF Blurred, Linked, PollTypes
<1>4. PICK h : h = files[p]
  OBVIOUS
<1>5. PICK i : i = h.inode
  OBVIOUS
<1>6. /\ HandleInv(h) /\ i \in Inodes
      /\ i \notin Unsure => h.len = 0 \/ Of(h.cmp, content[i])
      /\ i \in unseen => i \in Blurred
  BY <1>1, <1>3, <1>4, <1>5 DEF TailInv, InStep, HandleInv, HandleOK, Files
<1>7. ASSUME NEW late \in {Nil, i}, LateWrite(late), NEW less, Owe(less), NEW f,
             HandleInv(f)', f.inode = i,
             i \notin Unsure' => f.len = 0 \/ Of(f.cmp, content'[i]),
             strayed \subseteq strayed', strayed' \subseteq Inodes, files' = [files EXCEPT ![p] = f]
      PROVE  TailInv'
  <2>1. /\ written' \in {written, written + 1} /\ written' \in 0 .. MaxBytes
        /\ written' # written => late # Nil
        /\ content' \in [Inodes -> Seq(1 .. written')]
        /\ \A j \in Inodes : Appended(j) /\ Len(content'[j]) <= written'
        /\ late # Nil => written + 1 \in Bytes(content'[late])
    BY <1>2, <1>6, <1>7, LateWriteFacts
  <2>2. written \in Nat /\ FsTypes'
    BY <1>1, <1>2, <2>1 DEF FsTypes
  <2>3. /\ owed' \subseteq owed \cup {written + 1} /\ owed' \subseteq 1 .. written'
        /\ written + 1 \in owed' => late # Nil
    <3>1. owed \subseteq 1 .. written /\ written + 1 # written
      BY <1>2, <2>2 DEF GhostTypes
    <3> QED BY <1>7, <2>1, <2>2, <3>1, OweFacts
  <2>4. Evolves
    BY <1>3, <1>7, <2>1, <2>3 DEF Evolves
  <2>5. /\ DOMAIN files' = DOMAIN files /\ files'[p] = f
        /\ \A q \in DOMAIN files : q # p => files'[q] = files[q]
    BY <1>3, <1>7
  <2>6. /\ \A q \in DOMAIN files' : HandleInv(files[q])'
        /\ \A q \in DOMAIN evicted' : HandleInv(evicted[q])'
    <3>1. HandleInv(files[p])'
      BY <1>7, <2>5
    <3> QED BY <1>1, <2>4, <2>5, <3>1, OthersStay
  <2>7. SavedInv' /\ GhostTypes' /\ PollTypes'
    <3>1. SavedInv'
      BY <1>1, <1>2, <2>4, SavedStays
    <3> QED BY <1>1, <1>2, <1>7, <2>3, <2>5, <3>1 DEF GhostTypes, PollTypes
  <2>8. \A j \in Inodes : Reachable(j) <=> Reachable(j)'
    BY <1>1, <1>3, <1>4, <1>5, <1>7, <2>5 DEF Reachable, Opened
  <2>9. LossOnlyAtClose'
    <3>1. Reachable(i)
      BY <1>3, <1>4, <1>5 DEF Reachable, Opened
    <3>2. written + 1 \in owed' =>
             \E j \in Inodes : Reachable(j)' /\ written + 1 \in Bytes(content'[j])
      BY <1>6, <2>1, <2>3, <2>8, <3>1
    <3> QED BY <1>2, <2>1, <2>3, <2>8, <3>2, LossKept
  <2>10. InStep(p)'
    <3>1. i \in unseen' => i \in Blurred'
      BY <1>1, <1>3, <1>6, <1>7
    <3> QED BY <1>7, <2>5, <3>1 DEF InStep, Of
  <2>11. ASSUME NEW q \in DOMAIN files, q # p PROVE InStep(q)'
    BY <1>1, <1>7, <2>1, <2>5, <2>11, InStepStays
  <2> QED BY <2>2, <2>5, <2>6, <2>7, <2>9, <2>10, <2>11 DEF TailInv
<1>8. ASSUME NEW late \in {Nil, i}, LateWrite(late), NEW less, Owe(less),
             NEW r, r = ReadNewData(h, content[i], content'[i]), Bytes(r.data) \subseteq less,
             strayed' = strayed
      PROVE  /\ HandleInv(r.file)' /\ r.file.inode = i
             /\ i \notin Unsure' => r.file.len = 0 \/ Of(r.file.cmp, content'[i])
  <2>1. /\ written' \in {written, written + 1} /\ written' \in 0 .. MaxBytes
        /\ \A j \in Inodes : Appended(j) /\ Len(content'[j]) <= written'
    BY <1>2, <1>6, <1>8, LateWriteFacts
  <2>2. owed' \subseteq owed \cup {written + 1} /\ owed' \cap less = {}
    <3>1. owed \subseteq 1 .. written /\ written \in Nat
      BY <1>2 DEF GhostTypes, FsTypes
    <3> QED BY <1>8, <2>1, <3>1, OweFacts
  <2>3. Evolves
    BY <1>3, <1>8, <2>1, <2>2 DEF Evolves
  <2>4. Bytes(r.data) \cap owed' = {}
    BY <1>8, <2>2
  <2>5. Unsure' = Unsure
    BY <1>1, <1>8 DEF Unsure
  <2> QED BY <1>2, <1>5, <1>6, <1>8, <2>1, <2>3, <2>4, <2>5, ReadCovers
<1>9. CASE \E late \in {Nil, i} : LateWrite(late) /\
              LET r == ReadNewData(h, content[i], content'[i])
              IN  /\ Owe(Bytes(r.data)) /\ strayed' = strayed
                  /\ files' = [files EXCEPT ![p] = OnData(r.file)]
  <2>1. PICK r : r = ReadNewData(h, content[i], content'[i])
    OBVIOUS
  <2>2. PICK late \in {Nil, i} : /\ LateWrite(late) /\ Owe(Bytes(r.data)) /\ strayed' = strayed
                                  /\ files' = [files EXCEPT ![p] = OnData(r.file)]
    BY <1>9, <2>1
  <2>3. PICK f : f = OnData(r.file)
    OBVIOUS
  <2>4. /\ HandleInv(r.file)' /\ r.file.inode = i
        /\ i \notin Unsure' => r.file.len = 0 \/ Of(r.file.cmp, content'[i])
    BY <1>8, <2>1, <2>2
  <2>5. HandleInv(f)' /\ f.inode = r.file.inode /\ f.len = r.file.len /\ f.cmp = r.file.cmp
    BY <2>3, <2>4, EofOnly DEF OnData
  <2>6. strayed' \subseteq Inodes
    BY <1>2, <2>2 DEF GhostTypes
  <2> QED BY <1>7, <2>2, <2>3, <2>4, <2>5, <2>6
<1>10. CASE \E late \in {Nil, i} : LateWrite(late) /\
              LET r == ReadNewData(h, content[i], content'[i])
              IN  /\ r.data = <<>> /\ Owe({}) /\ strayed' = strayed
                  /\ \E elapsed \in BOOLEAN : files' = [files EXCEPT ![p] = OnNoData(r.file, elapsed)]
  <2>1. PICK r : r = ReadNewData(h, content[i], content'[i])
    OBVIOUS
  <2>2. PICK late \in {Nil, i}, elapsed \in BOOLEAN :
           /\ LateWrite(late) /\ r.data = <<>> /\ Owe({}) /\ strayed' = strayed
           /\ files' = [files EXCEPT ![p] = OnNoData(r.file, elapsed)]
    BY <1>10, <2>1
  <2>3. PICK f : f = OnNoData(r.file, elapsed)
    OBVIOUS
  <2>4. /\ HandleInv(r.file)' /\ r.file.inode = i
        /\ i \notin Unsure' => r.file.len = 0 \/ Of(r.file.cmp, content'[i])
    <3>1. Bytes(r.data) \subseteq {}
      BY <2>2 DEF Bytes
    <3> QED BY <1>8, <2>1, <2>2, <3>1
  <2>5. \E e \in {"fresh", "idle", "emitted"} : f = [r.file EXCEPT !.eof = e]
    <3>1. r.file.eof \in {"fresh", "idle", "emitted"}
      BY <2>4 DEF HandleInv, HandleOK, Files
    <3>2. PICK e : e = (CASE r.file.eof = "fresh" -> "idle"
                          [] r.file.eof = "idle" /\ elapsed -> "emitted"
                          [] OTHER -> r.file.eof)
      OBVIOUS
    <3>3. f = [r.file EXCEPT !.eof = e]
      BY <2>3, <3>2 DEF OnNoData
    <3>4. e \in {"fresh", "idle", "emitted"}
      BY <3>1, <3>2
    <3> QED BY <3>3, <3>4
  <2>6. HandleInv(f)' /\ f.inode = r.file.inode /\ f.len = r.file.len /\ f.cmp = r.file.cmp
    BY <2>4, <2>5, EofOnly
  <2>7. strayed' \subseteq Inodes
    BY <1>2, <2>2 DEF GhostTypes
  <2> QED BY <1>7, <2>2, <2>3, <2>4, <2>6, <2>7
<1>11. CASE \E late \in {Nil, i} : LateWrite(late) /\ Owe({}) /\
              \E r \in FailedReads(h, content[i], content'[i]) :
                 files' = [files EXCEPT ![p] = r.file] /\ Stray(r)
  <2>1. PICK late \in {Nil, i}, r \in FailedReads(h, content[i], content'[i]) :
           /\ LateWrite(late) /\ Owe({})
           /\ files' = [files EXCEPT ![p] = r.file] /\ Stray(r)
    BY <1>11
  <2>2. /\ written' \in {written, written + 1} /\ written' \in 0 .. MaxBytes
        /\ \A j \in Inodes : Appended(j)
    BY <1>2, <1>6, <2>1, LateWriteFacts
  <2>3. owed' \subseteq owed \cup {written + 1}
    <3>1. owed \subseteq 1 .. written /\ written \in Nat
      BY <1>2 DEF GhostTypes, FsTypes
    <3> QED BY <2>1, <2>2, <3>1, OweFacts
  <2>4. strayed \subseteq strayed'
    BY <2>1 DEF Stray
  <2>5. Evolves
    BY <1>3, <2>2, <2>3, <2>4 DEF Evolves
  <2>6. /\ HandleInv(r.file)' /\ r.file.inode = i
        /\ i \notin Unsure' => r.file.len = 0 \/ Of(r.file.cmp, content'[i])
    BY <1>1, <1>2, <1>5, <1>6, <2>1, <2>2, <2>5, FailedCovers
  <2>7. strayed' \subseteq Inodes
    BY <1>2, <1>6, <2>1, <2>6 DEF Stray, GhostTypes
  <2> QED BY <1>7, <2>1, <2>4, <2>6, <2>7
<1> QED BY <1>4, <1>5, <1>9, <1>10, <1>11 DEF ReadAll

(* cleanup_deleted, of one file.                                           *)
LEMMA CleanupKeeps ==
  ASSUME TailInv, NEW p \in Paths, Cleanup(p)
  PROVE  TailInv'
<1>1. /\ pc = "cleanup" /\ pc' = "cleanup" /\ p \in todo /\ todo' = todo \ {p}
      /\ link' = link /\ elsewhere' = elsewhere /\ saved' = saved
      /\ content' = content /\ written' = written /\ unseen' = unseen /\ raced' = raced
  BY DEF Cleanup, Turn, fsVars
<1>2. FsTypes /\ GhostTypes /\ PollTypes /\ SavedInv /\ LossOnlyAtClose
  BY DEF TailInv
<1>3. (strayed \subseteq strayed' => Blurred \subseteq Blurred') /\ p \in DOMAIN files
  BY <1>1, <1>2 DEF Blurred, Linked, PollTypes
<1>4. PICK h : h = files[p]
  OBVIOUS
<1>5. PICK i : i = h.inode
  OBVIOUS
<1>6. /\ HandleInv(h) /\ i \in Inodes
      /\ i \notin Unsure => h.len = 0 \/ Of(h.cmp, content[i])
      /\ i \in unseen => i \in Blurred
  BY <1>1, <1>3, <1>4, <1>5 DEF TailInv, InStep, HandleInv, HandleOK, Files
<1>7. PICK r : r = ReadNewData(h, content[i], content[i])
  OBVIOUS
<1>8. ASSUME owed' \subseteq owed, abandoned' \in BOOLEAN,
             strayed \subseteq strayed', strayed' \subseteq Inodes,
             \A q \in DOMAIN files' : q # p => q \in DOMAIN files /\ files'[q] = files[q],
             \A q \in DOMAIN files : q # p => q \in DOMAIN files',
             \A q \in DOMAIN evicted' : q \in DOMAIN evicted /\ evicted'[q] = evicted[q],
             watch' \in {watch, watch \ {p}},
             watch' # watch => p \notin DOMAIN files' /\ p \notin DOMAIN evicted',
             p \in DOMAIN files' => HandleInv(files[p])' /\ InStep(p)' /\ files'[p].inode = i,
             p \notin DOMAIN files' => \A b \in owed \cap owed' : b \notin Bytes(content[i])
      PROVE  TailInv'
  <2>1. \A j \in Inodes : Appended(j)
    BY <1>1 DEF Appended
  <2>2. Evolves
    BY <1>1, <1>3, <1>8, <2>1 DEF Evolves
  <2>3. FsTypes' /\ GhostTypes'
    BY <1>1, <1>2, <1>8 DEF FsTypes, GhostTypes
  <2>4. PollTypes'
    BY <1>1, <1>2, <1>3, <1>8 DEF PollTypes
  <2>5. SavedInv'
    BY <1>1, <1>2, <2>2, SavedStays
  <2>6. /\ \A q \in DOMAIN files' : HandleInv(files[q])'
        /\ \A q \in DOMAIN evicted' : HandleInv(evicted[q])'
    BY <1>8, <2>2, OthersStay
  <2>7. ASSUME NEW j \in Inodes, Reachable(j), ~Reachable(j)'
        PROVE  j = i /\ p \notin DOMAIN files'
    BY <1>1, <1>4, <1>5, <1>8, <2>7 DEF Reachable, Opened
  <2>8. LossOnlyAtClose'
    <3>1. written + 1 \notin owed'
      BY <1>2, <1>8 DEF GhostTypes, FsTypes
    <3> QED BY <1>2, <1>8, <2>1, <2>7, <3>1, LossKept
  <2>9. ASSUME NEW q \in DOMAIN files', q # p PROVE InStep(q)'
    BY <1>1, <1>8, <2>1, <2>9, InStepStays
  <2> QED BY <1>8, <2>3, <2>4, <2>5, <2>6, <2>8, <2>9 DEF TailInv
<1>9. abandoned \in BOOLEAN
  BY <1>2 DEF GhostTypes
<1>10. ASSUME NEW f, HandleInv(f)', f.inode = i, i \notin Unsure' => f.len = 0 \/ Of(f.cmp, content[i]),
              strayed \subseteq strayed', strayed' \subseteq Inodes, abandoned' \in BOOLEAN,
              NEW data, NEW unread, NEW pending, NEW gone,
              \A b \in owed : b \in Bytes(content[i]) => b \in data \cup unread \cup InWindow(i),
              CloseDeleted(p, f, data, unread, pending, gone)
       PROVE  TailInv'
  <2>1. PICK close : close = (~shutdown \/ gone \/ f.offset >= Len(content[i]))
    OBVIOUS
  <2>2. /\ files' = IF close THEN Without(files, {p}) ELSE [files EXCEPT ![p] = f]
        /\ evicted' = IF close THEN Without(evicted, {p}) ELSE evicted
        /\ watch' = IF close /\ IsGlob THEN watch \ {p} ELSE watch
        /\ owed' = owed \ (data \cup IF close THEN unread \cup InWindow(i) ELSE {})
    BY <1>10, <2>1 DEF CloseDeleted
  <2>3. owed' \subseteq owed /\ watch' \in {watch, watch \ {p}}
    BY <2>2
  <2>4. CASE close
    <3>1. /\ \A q \in DOMAIN files' : q # p /\ q \in DOMAIN files /\ files'[q] = files[q]
          /\ \A q \in DOMAIN files : q # p => q \in DOMAIN files'
          /\ \A q \in DOMAIN evicted' : q # p /\ q \in DOMAIN evicted /\ evicted'[q] = evicted[q]
          /\ p \notin DOMAIN files' /\ p \notin DOMAIN evicted'
      BY <2>2, <2>4 DEF Without
    <3>2. \A b \in owed \cap owed' : b \notin Bytes(content[i])
      BY <1>10, <2>2, <2>4
    <3> QED BY <1>8, <1>10, <2>3, <3>1, <3>2
  <2>5. CASE ~close
    <3>1. /\ DOMAIN files' = DOMAIN files /\ files'[p] = f
          /\ \A q \in DOMAIN files : q # p => files'[q] = files[q]
          /\ evicted' = evicted /\ watch' = watch
      BY <1>3, <2>2, <2>5
    <3>2. HandleInv(files[p])' /\ files'[p].inode = i
      BY <1>10, <3>1
    <3>3. i \in unseen' => i \in Blurred'
      BY <1>1, <1>3, <1>6, <1>10
    <3>4. InStep(p)'
      BY <1>1, <1>10, <3>1, <3>3 DEF InStep, Of
    <3> QED BY <1>3, <1>8, <1>10, <2>3, <3>1, <3>2, <3>4
  <2> QED BY <2>4, <2>5
<1> DEFINE f == IF r.data # <<>> \/ r.truncated THEN OnData(r.file) ELSE r.file
<1>11. ASSUME NEW data, NEW unread, NEW pending, NEW gone, NEW g, CloseDeleted(p, g, data, unread, pending, gone)
       PROVE  owed' \subseteq owed /\ owed' \cap data = {}
  BY <1>11 DEF CloseDeleted
<1>12. CASE \E gone \in {FALSE, shutdown} :
               /\ CloseDeleted(p, f, Bytes(r.data), Unread(r, content[i]), Unflushed(p, h, r), gone)
               /\ abandoned' \in BOOLEAN /\ strayed' = strayed
  <2>1. PICK gone \in {FALSE, shutdown} :
           /\ CloseDeleted(p, f, Bytes(r.data), Unread(r, content[i]), Unflushed(p, h, r), gone)
           /\ abandoned' \in BOOLEAN /\ strayed' = strayed
    BY <1>12
  <2>2. owed' \subseteq owed /\ owed' \cap Bytes(r.data) = {}
    <3> HIDE DEF f
    <3> QED BY <1>11, <2>1
  <2>3. Evolves /\ \A j \in Inodes : Appended(j)
    BY <1>1, <1>3, <2>1, <2>2 DEF Evolves, Appended
  <2>4. Bytes(r.data) \cap owed' = {} /\ Len(content'[i]) <= written'
    BY <1>1, <1>2, <1>6, <2>2 DEF FsTypes
  <2>5. r = ReadNewData(h, content[i], content'[i])
    BY <1>1, <1>7
  <2>6. /\ HandleInv(r.file)' /\ r.file.inode = i
        /\ i \notin Unsure => r.file.len = 0 \/ Of(r.file.cmp, content'[i])
    BY <1>2, <1>5, <1>6, <2>3, <2>4, <2>5, ReadCovers
  <2>7. HandleInv(f)' /\ f.inode = r.file.inode /\ f.len = r.file.len /\ f.cmp = r.file.cmp
    <3>1. CASE f = OnData(r.file)
      BY <2>6, <3>1, EofOnly DEF OnData
    <3>2. CASE f = r.file
      BY <2>6, <3>2
    <3> QED BY <3>1, <3>2
  <2>8. PICK g : g = f
    OBVIOUS
  <2> HIDE DEF f
  <2>9. Unsure' = Unsure
    BY <1>1, <2>1 DEF Unsure
  <2>10. i \notin Unsure' => g.len = 0 \/ Of(g.cmp, content[i])
    BY <1>1, <2>6, <2>7, <2>8, <2>9
  <2>11. \A b \in owed : b \in Bytes(content[i]) =>
            b \in Bytes(r.data) \cup Unread(r, content[i]) \cup InWindow(i)
    <3>1. CASE i \in Unsure
      BY <3>1 DEF InWindow
    <3>2. CASE i \notin Unsure
      <4>1. \A b \in owed : b \in Bytes(content[i]) =>
                               b \in Bytes(r.data) \/ b \in Unread(r, content[i])
        BY <1>2, <1>5, <1>6, <1>7, <3>2, DroppedIsRead
      <4> QED BY <4>1
    <3> QED BY <3>1, <3>2
  <2>12. strayed' \subseteq Inodes /\ HandleInv(g)' /\ g.inode = i
    BY <1>2, <2>1, <2>6, <2>7, <2>8 DEF GhostTypes
  <2>13. CloseDeleted(p, g, Bytes(r.data), Unread(r, content[i]), Unflushed(p, h, r), gone)
    BY <2>1, <2>8
  <2> QED BY <1>10, <2>1, <2>10, <2>11, <2>12, <2>13
<1>13. CASE \E gone \in {FALSE, shutdown} : \E b \in FailedReads(h, content[i], content[i]) :
               /\ CloseDeleted(p, b.file, {}, Bytes(content[i]), unflushed, gone)
               /\ Stray(b) /\ abandoned' = abandoned
  <2>1. PICK gone \in {FALSE, shutdown}, b \in FailedReads(h, content[i], content[i]) :
           /\ CloseDeleted(p, b.file, {}, Bytes(content[i]), unflushed, gone)
           /\ Stray(b) /\ abandoned' = abandoned
    BY <1>13
  <2>2. owed' \subseteq owed
    BY <1>11, <2>1
  <2>3. strayed \subseteq strayed'
    BY <2>1 DEF Stray
  <2>4. Evolves /\ \A j \in Inodes : Appended(j)
    BY <1>1, <1>3, <2>2, <2>3 DEF Evolves, Appended
  <2>5. b \in FailedReads(h, content[i], content'[i])
    BY <1>1, <2>1
  <2>6. /\ HandleInv(b.file)' /\ b.file.inode = i
        /\ i \notin Unsure' => b.file.len = 0 \/ Of(b.file.cmp, content'[i])
    BY <1>1, <1>2, <1>5, <1>6, <2>1, <2>4, <2>5, FailedCovers
  <2>7. strayed' \subseteq Inodes
    BY <1>2, <1>6, <2>1, <2>6 DEF Stray, GhostTypes
  <2>8. i \notin Unsure' => b.file.len = 0 \/ Of(b.file.cmp, content[i])
    BY <1>1, <2>6
  <2>9. \A x \in owed : x \in Bytes(content[i]) => x \in {} \cup Bytes(content[i]) \cup InWindow(i)
    OBVIOUS
  <2> QED BY <1>9, <1>10, <2>1, <2>3, <2>6, <2>7, <2>8, <2>9
<1> QED BY <1>4, <1>5, <1>7, <1>12, <1>13 DEF Cleanup

(* The end of a poll, with evict_lru.                                      *)
LEMMA PollEndsKeeps ==
  ASSUME TailInv, PollEnds
  PROVE  TailInv'
<1>1. /\ pc = "cleanup" /\ todo = {} /\ watch' = watch /\ saved' = saved
      /\ link' = link /\ elsewhere' = elsewhere
      /\ content' = content /\ written' = written /\ unseen' = unseen /\ raced' = raced
      /\ strayed' = strayed
      /\ \/ pc' \in {"idle", "stopped"} /\ todo' = todo
         \/ pc' = "detect" /\ todo' = watch
  BY DEF PollEnds, fsVars
<1>2. FsTypes /\ GhostTypes /\ PollTypes /\ SavedInv /\ LossOnlyAtClose
  BY DEF TailInv
<1>3. PICK keep \in SUBSET DOMAIN files :
         /\ files' = [p \in keep |-> files[p]]
         /\ evicted' = [p \in DOMAIN evicted \cup (DOMAIN files \ keep) |->
                           IF p \in DOMAIN files THEN files[p] ELSE evicted[p]]
  BY DEF PollEnds
<1>4. PICK left : left = UNION {Bytes(content[files[p].inode]) :
                     p \in {q \in DOMAIN files \ DOMAIN files' : files[q].inode \notin Linked}}
  OBVIOUS
<1>5. owed' = owed \ left /\ abandoned' = (abandoned \/ left \cap owed # {})
  BY <1>4 DEF PollEnds
<1>6. Evolves /\ \A j \in Inodes : Appended(j)
  BY <1>1, <1>5 DEF Evolves, Appended, Blurred, Linked
<1>7. owed' \subseteq owed /\ abandoned' \in BOOLEAN
  BY <1>5
<1>8. FsTypes' /\ GhostTypes'
  BY <1>1, <1>2, <1>7 DEF FsTypes, GhostTypes
<1>9. DOMAIN files' = keep /\ DOMAIN evicted' = DOMAIN evicted \cup (DOMAIN files \ keep)
  BY <1>3
<1>10. PollTypes'
  BY <1>1, <1>2, <1>9 DEF PollTypes
<1>11. SavedInv'
  BY <1>1, <1>2, <1>6, SavedStays
<1>12. ASSUME NEW h, HandleInv(h) PROVE HandleInv(h)'
  BY <1>2, <1>6, <1>12, HandleStays
<1>13. ASSUME NEW q \in DOMAIN files' PROVE HandleInv(files[q])' /\ InStep(q)'
  <2>1. PICK h : h = files[q]
    OBVIOUS
  <2>2. q \in DOMAIN files /\ files'[q] = h /\ HandleInv(h)
    BY <1>3, <2>1 DEF TailInv
  <2>3. HandleInv(h)'
    BY <1>12, <2>2
  <2>4. InStep(q)'
    BY <1>1, <1>6, <1>13, <2>1, <2>2, InStepStays
  <2> QED BY <2>2, <2>3, <2>4
<1>14. ASSUME NEW q \in DOMAIN evicted' PROVE HandleInv(evicted[q])'
  <2>1. PICK h : h = evicted'[q]
    OBVIOUS
  <2>2. HandleInv(h)
    BY <1>3, <2>1 DEF TailInv
  <2> QED BY <1>12, <2>1, <2>2
<1>15. ASSUME NEW j \in Inodes, Reachable(j), ~Reachable(j)'
       PROVE  \A b \in owed \cap owed' : b \notin Bytes(content[j])
  <2>1. j \notin Linked
    BY <1>1, <1>15 DEF Reachable, Linked
  <2>2. PICK q \in DOMAIN files : files[q].inode = j
    BY <1>1, <1>15 DEF Reachable, Opened
  <2>3. q \notin DOMAIN files'
    BY <1>3, <1>15, <2>2 DEF Reachable, Opened
  <2>4. Bytes(content[j]) \subseteq left
    BY <1>4, <2>1, <2>2, <2>3
  <2> QED BY <1>5, <2>4
<1>16. LossOnlyAtClose'
  <2>1. written + 1 \notin owed'
    BY <1>2, <1>7 DEF GhostTypes, FsTypes
  <2> QED BY <1>2, <1>6, <1>7, <1>15, <2>1, LossKept
<1> QED BY <1>8, <1>10, <1>11, <1>13, <1>14, <1>16 DEF TailInv

(* Steps that only move the poll on.                                       *)
LEMMA QuietKeeps ==
  ASSUME TailInv, UNCHANGED <<fsVars, tailVars, ghosts>>, PollTypes', SavedInv',
         \A q \in DOMAIN files :
            pc \in {"idle", "rescan"} \/ (pc = "detect" /\ q \in todo) =>
               pc' \in {"idle", "rescan"} \/ (pc' = "detect" /\ q \in todo')
  PROVE  TailInv'
<1>1. /\ link' = link /\ elsewhere' = elsewhere /\ content' = content /\ written' = written
      /\ files' = files /\ evicted' = evicted /\ watch' = watch
      /\ owed' = owed /\ abandoned' = abandoned /\ unseen' = unseen /\ raced' = raced
      /\ strayed' = strayed
  BY DEF fsVars, tailVars, ghosts
<1>2. FsTypes /\ GhostTypes /\ LossOnlyAtClose
  BY DEF TailInv
<1>3. Evolves /\ \A j \in Inodes : Appended(j)
  BY <1>1 DEF Evolves, Appended, Blurred, Linked
<1>4. FsTypes' /\ GhostTypes'
  BY <1>1, <1>2 DEF FsTypes, GhostTypes
<1>5. LossOnlyAtClose'
  BY <1>1, <1>2 DEF LossOnlyAtClose, Reachable, Opened, Bytes
<1>6. ASSUME NEW h, HandleInv(h) PROVE HandleInv(h)'
  BY <1>2, <1>3, <1>6, HandleStays
<1>7. ASSUME NEW q \in DOMAIN files PROVE HandleInv(files[q])' /\ InStep(q)'
  <2>1. PICK h : h = files[q]
    OBVIOUS
  <2>2. HandleInv(h)'
    BY <1>6, <2>1 DEF TailInv
  <2>3. InStep(q)'
    BY <1>1, <1>3, InStepStays
  <2> QED BY <1>1, <2>1, <2>2, <2>3
<1>8. ASSUME NEW q \in DOMAIN evicted PROVE HandleInv(evicted[q])'
  <2>1. PICK h : h = evicted[q]
    OBVIOUS
  <2>2. HandleInv(h)'
    BY <1>6, <2>1 DEF TailInv
  <2> QED BY <1>1, <2>1, <2>2
<1> QED BY <1>1, <1>4, <1>5, <1>7, <1>8 DEF TailInv

(* The saved offsets of a step that only moves the poll on.                *)
LEMMA QuietSaved ==
  ASSUME TailInv, UNCHANGED <<fsVars, tailVars, ghosts, saved>>
  PROVE  SavedInv'
<1>1. /\ link' = link /\ content' = content /\ written' = written
      /\ owed' = owed /\ unseen' = unseen /\ raced' = raced /\ saved' = saved
      /\ strayed' = strayed
  BY DEF fsVars, ghosts
<1>2. Evolves
  BY <1>1 DEF Evolves, Appended, Blurred, Linked
<1> QED BY <1>1, <1>2, SavedStays DEF TailInv

(* The steps between the parts of a poll.                                  *)
LEMMA PollMovesKeep ==
  ASSUME TailInv,
         \/ PollBegins \/ BackoffElapses
         \/ Advance \/ BeginShutdown
         \/ UNCHANGED allVars
  PROVE  TailInv'
<1>1. UNCHANGED <<fsVars, tailVars, ghosts, saved>>
  BY DEF PollBegins, BackoffElapses, Advance, BeginShutdown, allVars
<1>2. SavedInv'
  BY <1>1, QuietSaved
<1>3. PollTypes /\ watch' = watch /\ files' = files /\ evicted' = evicted
  BY <1>1 DEF TailInv, tailVars
<1>4. CASE PollBegins
  <2>1. /\ pc = "idle"
        /\ \/ pc' = "rescan" /\ todo' = Globbed
           \/ pc' = "detect" /\ todo' = watch
    BY <1>4 DEF PollBegins
  <2>2. Globbed \subseteq Paths /\ Globbed \cap watch = {}
    BY DEF Globbed
  <2>3. PollTypes'
    BY <1>3, <2>1, <2>2 DEF PollTypes
  <2>4. DOMAIN files \subseteq watch
    BY <1>3 DEF PollTypes
  <2> QED BY <1>1, <1>2, <2>1, <2>3, <2>4, QuietKeeps
<1>5. CASE BackoffElapses \/ UNCHANGED allVars
  <2>1. pc' = pc /\ todo' = todo
    BY <1>5 DEF BackoffElapses, allVars, pollVars
  <2>2. PollTypes'
    BY <1>3, <2>1 DEF PollTypes
  <2> QED BY <1>1, <1>2, <2>1, <2>2, QuietKeeps
<1>6. CASE Advance
  <2>1. /\ todo = {}
        /\ \/ pc = "rescan" /\ pc' = "detect" /\ todo' = watch
           \/ pc = "detect" /\ pc' = "read" /\ todo' = DOMAIN files
           \/ /\ pc = "read" /\ pc' = "cleanup"
              /\ todo' = {p \in DOMAIN files : Deleted(files[p].inode)}
    BY <1>6 DEF Advance
  <2>2. PollTypes'
    BY <1>3, <2>1 DEF PollTypes
  <2>3. DOMAIN files \subseteq watch
    BY <1>3 DEF PollTypes
  <2> QED BY <1>1, <1>2, <2>1, <2>2, <2>3, QuietKeeps
<1>7. CASE BeginShutdown
  <2>1. pc = "idle" /\ pc' = "detect" /\ todo' = watch
    BY <1>7 DEF BeginShutdown
  <2>2. PollTypes'
    BY <1>3, <2>1 DEF PollTypes
  <2>3. DOMAIN files \subseteq watch
    BY <1>3 DEF PollTypes
  <2> QED BY <1>1, <1>2, <2>1, <2>2, <2>3, QuietKeeps
<1> QED BY <1>4, <1>5, <1>6, <1>7

(* file_offsets are written to the checkpoint store.                       *)
LEMMA CheckpointKeeps ==
  ASSUME TailInv, CheckpointOffsets
  PROVE  TailInv'
<1>1. /\ UNCHANGED <<fsVars, tailVars, ghosts>> /\ pc' = pc /\ todo' = todo
      /\ saved' = [sid \in DOMAIN saved \cup {c[1] : c \in FileOffsets} |->
                      LET offsets == {c[2] : c \in {d \in FileOffsets : d[1] = sid}}
                      IN  IF offsets = {} THEN saved[sid] ELSE CHOOSE o \in offsets : TRUE]
  BY DEF CheckpointOffsets, pollVars
<1>2. /\ link' = link /\ content' = content /\ written' = written
      /\ owed' = owed /\ unseen' = unseen /\ raced' = raced
      /\ strayed' = strayed
      /\ files' = files /\ evicted' = evicted /\ watch' = watch
  BY <1>1 DEF fsVars, ghosts, tailVars
<1>3. PollTypes'
  BY <1>1, <1>2 DEF TailInv, PollTypes
<1> DEFINE SavedOK(sid, off) == /\ sid \in Inodes \X Seq(1 .. written)
                                /\ off \in Nat
                                /\ Covered(sid[1], sid[2], off)
<1>4. ASSUME NEW c \in FileOffsets PROVE SavedOK(c[1], c[2])
  <2>1. PICK h \in Tracked : c = <<SourceId(h), h.offset>>
    BY DEF FileOffsets
  <2>2. HandleInv(h)
    BY <2>1 DEF Tracked, TailInv
  <2> QED BY <2>1, <2>2 DEF SourceId, HandleInv, HandleOK, OldBytes, Files
<1>5. ASSUME NEW sid \in DOMAIN saved PROVE SavedOK(sid, saved[sid])
  BY DEF TailInv, SavedInv
<1>6. ASSUME NEW sid \in DOMAIN saved' PROVE SavedOK(sid, saved'[sid])
  <2>1. PICK offsets : offsets = {c[2] : c \in {d \in FileOffsets : d[1] = sid}}
    OBVIOUS
  <2>2. saved'[sid] = IF offsets = {} THEN saved[sid] ELSE CHOOSE o \in offsets : TRUE
    BY <1>1, <2>1
  <2> HIDE DEF SavedOK
  <2>3. \A o \in offsets : SavedOK(sid, o)
    BY <1>4, <2>1
  <2>4. CASE offsets = {}
    <3>1. sid \in DOMAIN saved
      BY <1>1, <2>1, <2>4
    <3> QED BY <1>5, <2>2, <2>4, <3>1
  <2>5. CASE offsets # {}
    <3>1. saved'[sid] \in offsets
      BY <2>2, <2>5
    <3> QED BY <2>3, <3>1
  <2> QED BY <2>4, <2>5
<1>7. SavedInv'
  BY <1>2, <1>6 DEF SavedInv, Covered, Of, Blurred, Linked
<1> QED BY <1>1, <1>3, <1>7, QuietKeeps

-----------------------------------------------------------------------------
(* The file system.                                                        *)

(* A step of other processes: the tailer's own state stays.                *)
LEMMA OutsideKeeps ==
  ASSUME TailInv, Evolves, UNCHANGED fsQuiet, FsTypes', GhostTypes', LossOnlyAtClose',
         \A q \in DOMAIN files : InStep(q)'
  PROVE  TailInv'
<1>1. /\ files' = files /\ evicted' = evicted /\ watch' = watch
      /\ pc' = pc /\ todo' = todo /\ saved' = saved
  BY DEF fsQuiet, tailVars, pollVars
<1>2. FsTypes /\ PollTypes /\ SavedInv
  BY DEF TailInv
<1>3. PollTypes'
  BY <1>1, <1>2 DEF PollTypes
<1>4. SavedInv'
  BY <1>1, <1>2, SavedStays
<1>5. ASSUME NEW h, HandleInv(h) PROVE HandleInv(h)'
  BY <1>2, <1>5, HandleStays
<1>6. ASSUME NEW q \in DOMAIN files PROVE HandleInv(files[q])'
  <2>1. PICK h : h = files[q]
    OBVIOUS
  <2>2. HandleInv(h)'
    BY <1>5, <2>1 DEF TailInv
  <2> QED BY <1>1, <2>1, <2>2
<1>7. ASSUME NEW q \in DOMAIN evicted PROVE HandleInv(evicted[q])'
  <2>1. PICK h : h = evicted[q]
    OBVIOUS
  <2>2. HandleInv(h)'
    BY <1>5, <2>1 DEF TailInv
  <2> QED BY <1>1, <2>1, <2>2
<1> QED BY <1>1, <1>3, <1>4, <1>6, <1>7 DEF TailInv

(* A new file takes an inode that is free and open nowhere.                *)
LEMMA CreateKeeps ==
  ASSUME TailInv, NEW p \in Paths, Create(p)
  PROVE  TailInv'
<1>1. FsTypes /\ GhostTypes /\ LossOnlyAtClose /\ Nil \notin Inodes
  BY DEF TailInv, FsTypes
<1>2. /\ UNCHANGED fsQuiet /\ link[p] = Nil /\ elsewhere' = elsewhere
      /\ written' = written /\ owed' = owed
  BY DEF Create
<1>3. files' = files /\ pc' = pc /\ todo' = todo /\ abandoned' = abandoned
  BY <1>2 DEF fsQuiet, tailVars, pollVars
<1>4. PICK i \in Inodes :
         /\ Deleted(i) /\ ~Opened(i)
         /\ link' = [link EXCEPT ![p] = i]
         /\ content' = [content EXCEPT ![i] = <<>>]
         /\ unseen' = unseen \ {i}
         /\ raced' = raced \ {i} /\ strayed' = strayed
  BY DEF Create, fsQuiet
<1>5. link \in [Paths -> Inodes \cup {Nil}] /\ content \in [Inodes -> Seq(1 .. written)]
      /\ written \in 0 .. MaxBytes /\ MaxBytes \in Nat
  BY <1>1 DEF FsTypes
<1>6. /\ \A q \in Paths : link[q] # i
      /\ \A q \in DOMAIN files : files[q].inode # i
  BY <1>4 DEF Deleted, Opened
<1>7. \A q \in Paths : link'[q] = IF q = p THEN i ELSE link[q]
  BY <1>4, <1>5
<1>8. content'[i] = <<>> /\ \A j \in Inodes : j # i => content'[j] = content[j]
  BY <1>4, <1>5
<1>9. Linked' = Linked \cup {i}
  BY <1>1, <1>2, <1>4, <1>7 DEF Linked
<1>10. \A j \in Inodes : j # i => (j \in Blurred' <=> j \in Blurred)
  BY <1>4, <1>9 DEF Blurred
<1>11. Evolves
  BY <1>2, <1>4, <1>8, <1>10 DEF Evolves, Appended
<1>12. FsTypes'
  <2>1. link' \in [Paths -> Inodes \cup {Nil}] /\ content' \in [Inodes -> Seq(1 .. written')]
    BY <1>2, <1>4, <1>5
  <2>2. \A j \in Inodes : Len(content'[j]) <= written'
    <3>1. Len(content'[i]) = 0 /\ 0 <= written' /\ \A j \in Inodes : Len(content[j]) <= written
      BY <1>1, <1>2, <1>5, <1>8 DEF FsTypes
    <3> QED BY <1>2, <1>8, <3>1
  <2>3. \A q, r \in Paths : link'[q] = link'[r] /\ link'[q] # Nil => q = r
    BY <1>1, <1>6, <1>7 DEF FsTypes
  <2> QED BY <1>1, <1>2, <2>1, <2>2, <2>3 DEF FsTypes
<1>13. GhostTypes'
  BY <1>1, <1>2, <1>3, <1>4 DEF GhostTypes
<1>14. ASSUME NEW q \in DOMAIN files PROVE InStep(q)'
  <2>1. PICK h : h = files[q]
    OBVIOUS
  <2>2. /\ h.inode \in Inodes /\ h.inode # i /\ q \in Paths
        /\ InStep(q)
    BY <1>6, <2>1 DEF TailInv, HandleInv, HandleOK, Files, PollTypes
  <2>3. h.inode \in unseen \ Blurred => q # p /\ link'[q] = link[q]
    BY <1>1, <1>2, <1>7, <2>1, <2>2 DEF InStep
  <2> QED BY <1>3, <1>4, <1>8, <1>10, <2>1, <2>2, <2>3 DEF InStep, Unsure
<1>15. LossOnlyAtClose'
  <2>1. ASSUME NEW j \in Inodes, Reachable(j) PROVE Reachable(j)' /\ Appended(j)
    <3>1. j # i
      BY <1>6, <2>1 DEF Reachable, Opened
    <3>2. \A q \in Paths : link[q] = j => link'[q] = j
      BY <1>1, <1>2, <1>7
    <3> QED BY <1>3, <1>8, <2>1, <3>1, <3>2 DEF Reachable, Opened, Appended
  <2>2. owed' \subseteq owed \cup {written + 1} /\ written + 1 \notin owed'
    BY <1>1, <1>2, <1>5 DEF GhostTypes
  <2> QED BY <1>1, <2>1, <2>2, LossKept
<1> QED BY <1>2, <1>11, <1>12, <1>13, <1>14, <1>15, OutsideKeeps

(* A byte is appended to a file within reach.                              *)
LEMMA WriteKeeps ==
  ASSUME TailInv, NEW i \in Inodes, WriterAppends(i)
  PROVE  TailInv'
<1>1. FsTypes /\ GhostTypes /\ LossOnlyAtClose /\ written \in Nat
  BY DEF TailInv, FsTypes
<1>2. /\ UNCHANGED fsQuiet /\ LateWrite(i) /\ Owe({}) /\ Reachable(i)
      /\ link' = link /\ elsewhere' = elsewhere /\ unseen' = unseen /\ raced' = raced
      /\ strayed' = strayed
  BY DEF WriterAppends, fsQuiet
<1>3. files' = files /\ pc' = pc /\ todo' = todo /\ abandoned' = abandoned
  BY <1>2 DEF fsQuiet, tailVars, pollVars
<1>4. /\ written' \in {written, written + 1} /\ written' \in 0 .. MaxBytes
      /\ content' \in [Inodes -> Seq(1 .. written')]
      /\ \A j \in Inodes : Appended(j) /\ Len(content'[j]) <= written'
      /\ i # Nil => written + 1 \in Bytes(content'[i])
  BY <1>1, <1>2, LateWriteFacts
<1>5. /\ owed' \subseteq owed \cup {written + 1} /\ owed' \subseteq 1 .. written'
  BY <1>1, <1>2, <1>4, OweFacts DEF GhostTypes
<1>6. Evolves
  BY <1>2, <1>4, <1>5 DEF Evolves, Blurred, Linked
<1>7. FsTypes' /\ GhostTypes'
  BY <1>1, <1>2, <1>3, <1>4, <1>5 DEF FsTypes, GhostTypes
<1>8. ASSUME NEW q \in DOMAIN files PROVE InStep(q)'
  BY <1>2, <1>3, <1>4, InStepStays
<1>9. LossOnlyAtClose'
  <2>1. \A j \in Inodes : Reachable(j) => Reachable(j)'
    BY <1>2, <1>3 DEF Reachable, Opened
  <2>2. i # Nil
    BY <1>1 DEF FsTypes
  <2> QED BY <1>1, <1>2, <1>4, <1>5, <2>1, <2>2, LossKept
<1> QED BY <1>2, <1>6, <1>7, <1>8, <1>9, OutsideKeeps

(* A name is moved or removed: what can no longer be reached is not owed.  *)
LEMMA MoveKeeps ==
  ASSUME TailInv, NEW p \in Paths, NEW to, Move(p, to)
  PROVE  TailInv'
<1>1. FsTypes /\ GhostTypes /\ LossOnlyAtClose /\ Nil \notin Inodes
  BY DEF TailInv, FsTypes
<1>2. /\ UNCHANGED fsQuiet /\ link[p] # Nil /\ to # p
      /\ link' = [q \in Paths |-> IF q = p THEN Nil ELSE IF q = to THEN link[p] ELSE link[q]]
      /\ elsewhere' = IF to = "elsewhere" THEN elsewhere \cup {link[p]} ELSE elsewhere
      /\ raced' = raced \cup ({link[p]} \cap unseen) /\ strayed' = strayed
      /\ content' = content /\ written' = written /\ unseen' = unseen
  BY DEF Move, fsQuiet
<1>3. files' = files /\ pc' = pc /\ todo' = todo /\ abandoned' = abandoned
  BY <1>2 DEF fsQuiet, tailVars, pollVars
<1>4. PICK gone : gone = {i \in Linked : ~Opened(i) /\ \A q \in Paths : link'[q] # i}
  OBVIOUS
<1>5. owed' = owed \ UNION {Bytes(content[i]) : i \in gone}
  BY <1>4 DEF Move
<1>6. /\ link \in [Paths -> Inodes \cup {Nil}]
      /\ \A q, r \in Paths : link[q] = link[r] /\ link[q] # Nil => q = r
      /\ link[p] \in Inodes
  BY <1>1, <1>2 DEF FsTypes
<1>7. \A q \in Paths : link'[q] = IF q = p THEN Nil ELSE IF q = to THEN link[p] ELSE link[q]
  BY <1>2
<1>8. Linked' \subseteq Linked
  <2> SUFFICES ASSUME NEW j \in Linked' PROVE j \in Linked
    OBVIOUS
  <2>1. PICK q \in Paths : link'[q] = j /\ j # Nil
    BY DEF Linked
  <2> QED BY <1>7, <2>1 DEF Linked
<1>9. Blurred \subseteq Blurred'
  BY <1>2, <1>8 DEF Blurred
<1>10. owed' \subseteq owed
  BY <1>5
<1>11. Evolves /\ \A j \in Inodes : Appended(j)
  BY <1>2, <1>9, <1>10 DEF Evolves, Appended
<1>12. FsTypes'
  <2>1. link' \in [Paths -> Inodes \cup {Nil}]
    BY <1>2, <1>6
  <2>2. \A q, r \in Paths : link'[q] = link'[r] /\ link'[q] # Nil => q = r
    BY <1>6, <1>7
  <2>3. elsewhere' \subseteq Inodes
    BY <1>1, <1>2, <1>6 DEF FsTypes
  <2> QED BY <1>1, <1>2, <2>1, <2>2, <2>3 DEF FsTypes
<1>13. GhostTypes'
  BY <1>1, <1>2, <1>3, <1>10 DEF GhostTypes
<1>14. ASSUME NEW q \in DOMAIN files PROVE InStep(q)'
  <2>1. PICK h : h = files[q]
    OBVIOUS
  <2>2. h.inode \in Inodes /\ q \in Paths /\ InStep(q)
    BY <2>1 DEF TailInv, HandleInv, HandleOK, Files, PollTypes
  <2>3. ASSUME h.inode \in unseen' \ Blurred' PROVE link'[q] = h.inode /\ h.inode \in unseen \ Blurred
    <3>1. h.inode \in unseen \ Blurred /\ h.inode \in Linked' /\ h.inode # link[p]
      BY <1>2, <1>9, <2>3 DEF Blurred
    <3>2. link[q] = h.inode
      BY <2>1, <2>2, <3>1 DEF InStep
    <3>3. PICK r \in Paths : link'[r] = h.inode
      BY <3>1 DEF Linked
    <3>4. link[r] = h.inode
      BY <1>1, <1>7, <2>2, <3>1, <3>3
    <3>5. r = q
      BY <1>1, <1>6, <2>2, <3>2, <3>4
    <3> QED BY <3>1, <3>3, <3>5
  <2> QED BY <1>2, <1>3, <2>1, <2>2, <2>3 DEF InStep, Unsure
<1>15. LossOnlyAtClose'
  <2>1. ASSUME NEW j \in Inodes, Reachable(j), ~Reachable(j)'
        PROVE  \A b \in owed \cap owed' : b \notin Bytes(content[j])
    <3>1. ~Opened(j) /\ \A q \in Paths : link'[q] # j
      BY <1>3, <2>1 DEF Reachable, Opened
    <3>2. j \in Linked
      BY <1>1, <2>1, <3>1 DEF Reachable, Linked
    <3>3. j \in gone
      BY <1>4, <3>1, <3>2
    <3> QED BY <1>5, <3>3
  <2>2. written + 1 \notin owed'
    BY <1>1, <1>10 DEF GhostTypes, FsTypes
  <2> QED BY <1>1, <1>10, <1>11, <2>1, <2>2, LossKept
<1> QED BY <1>2, <1>11, <1>12, <1>13, <1>14, <1>15, OutsideKeeps

(* A file is truncated.                                                    *)
LEMMA TruncateKeeps ==
  ASSUME TailInv, NEW i \in Inodes, Truncate(i)
  PROVE  TailInv'
<1>1. FsTypes /\ GhostTypes /\ LossOnlyAtClose /\ Nil \notin Inodes
  BY DEF TailInv, FsTypes
<1>2. /\ UNCHANGED fsQuiet /\ i \in Linked
      /\ content' = [content EXCEPT ![i] = <<>>]
      /\ owed' = owed \ Bytes(content[i])
      /\ link' = link /\ elsewhere' = elsewhere /\ written' = written
  BY DEF Truncate
<1>3. \/ /\ pc = "idle" /\ \A p \in DOMAIN files : files[p].inode = i => link[p] = i
         /\ unseen' = unseen \cup {i} /\ raced' = raced
      \/ raced' = raced \cup {i} /\ unseen' = unseen
  BY DEF Truncate
<1>4. files' = files /\ pc' = pc /\ todo' = todo /\ abandoned' = abandoned /\ strayed' = strayed
  BY <1>2 DEF fsQuiet, tailVars, pollVars
<1>5. content \in [Inodes -> Seq(1 .. written)] /\ written \in 0 .. MaxBytes /\ MaxBytes \in Nat
  BY <1>1 DEF FsTypes
<1>6. content'[i] = <<>> /\ \A j \in Inodes : j # i => content'[j] = content[j]
  BY <1>2, <1>5
<1>7. Linked' = Linked
  BY <1>2 DEF Linked
<1>8. Blurred \subseteq Blurred' /\ \A j \in Inodes : j # i => (j \in Blurred' <=> j \in Blurred)
  BY <1>3, <1>4, <1>7 DEF Blurred
<1>9. Evolves
  BY <1>2, <1>4, <1>6, <1>8 DEF Evolves, Appended
<1>10. FsTypes'
  <2>1. content' \in [Inodes -> Seq(1 .. written')]
    BY <1>2, <1>5
  <2>2. \A j \in Inodes : Len(content'[j]) <= written'
    <3>1. Len(content'[i]) = 0 /\ 0 <= written' /\ \A j \in Inodes : Len(content[j]) <= written
      BY <1>1, <1>2, <1>5, <1>6 DEF FsTypes
    <3> QED BY <1>2, <1>6, <3>1
  <2> QED BY <1>1, <1>2, <2>1, <2>2 DEF FsTypes
<1>11. GhostTypes'
  <2>1. unseen' \subseteq Inodes /\ raced' \subseteq Inodes /\ strayed' \subseteq Inodes
    BY <1>1, <1>3, <1>4 DEF GhostTypes
  <2> QED BY <1>1, <1>2, <1>4, <2>1 DEF GhostTypes
<1>12. ASSUME NEW q \in DOMAIN files PROVE InStep(q)'
  <2>1. PICK h : h = files[q]
    OBVIOUS
  <2>2. h.inode \in Inodes /\ InStep(q)
    BY <2>1 DEF TailInv, HandleInv, HandleOK, Files
  <2>3. CASE h.inode = i
    <3>1. h.inode \in Unsure'
      BY <1>3, <2>3 DEF Unsure
    <3>2. h.inode \in unseen' \ Blurred' => pc = "idle" /\ link[q] = i
      BY <1>3, <2>1, <2>3 DEF Blurred
    <3> QED BY <1>2, <1>4, <2>1, <2>3, <3>1, <3>2 DEF InStep
  <2>4. CASE h.inode # i
    <3>1. /\ h.inode \in unseen' <=> h.inode \in unseen
          /\ h.inode \in raced' <=> h.inode \in raced
          /\ h.inode \in Blurred' <=> h.inode \in Blurred
          /\ content'[h.inode] = content[h.inode]
      BY <1>3, <1>6, <1>8, <2>2, <2>4
    <3> QED BY <1>2, <1>4, <2>1, <2>2, <3>1 DEF InStep, Unsure
  <2> QED BY <2>3, <2>4
<1>13. LossOnlyAtClose'
  <2>1. ASSUME NEW j \in Inodes, Reachable(j)
        PROVE  \/ Reachable(j)' /\ Appended(j)
               \/ \A b \in owed \cap owed' : b \notin Bytes(content[j])
    <3>1. CASE j = i
      BY <1>2, <3>1
    <3>2. CASE j # i
      BY <1>2, <1>4, <1>6, <2>1, <3>2 DEF Reachable, Opened, Appended
    <3> QED BY <3>1, <3>2
  <2>2. owed' \subseteq owed \cup {written + 1} /\ written + 1 \notin owed'
    BY <1>1, <1>2, <1>5 DEF GhostTypes
  <2> QED BY <1>1, <2>1, <2>2, LossKept
<1> QED BY <1>2, <1>9, <1>10, <1>11, <1>12, <1>13, OutsideKeeps

-----------------------------------------------------------------------------
(* Restart.                                                                *)

(* A restored handle is of the file's content, and its offset is 0 or one  *)
(* that was saved for this content.                                        *)
LEMMA RestoredCovers ==
  ASSUME FsTypes, SavedInv, NEW i \in Inodes, NEW f, f = Restored(i)
  PROVE  HandleInv(f) /\ f.inode = i /\ (f.len = 0 \/ Of(f.cmp, content[i]))
<1> DEFINE s == content[i]
           fp == Fingerprint(s)
           sid == <<i, fp>>
           off == IF fp # <<>> /\ sid \in DOMAIN saved /\ saved[sid] <= Len(s)
                  THEN saved[sid] ELSE 0
           len == ObservedFingerprintLen(fp, Len(s))
<1>1. f = [inode |-> i, fp |-> fp, cmp |-> fp, offset |-> off, cursor |-> off, eof |-> "fresh",
          len |-> len]
  BY DEF Restored
<1>2. /\ written \in Nat /\ MaxBytes \in Nat /\ FingerprintBytes \in Nat \ {0}
      /\ s \in Seq(1 .. written)
  BY DEF FsTypes
<1>3. Len(s) \in Nat /\ (s = <<>> <=> Len(s) = 0)
  BY <1>2, BytesOf
<1>4. fp \in Seq(1 .. written) /\ (fp = <<>> <=> s = <<>>) /\ (s # <<>> => Of(fp, s))
  BY <1>2, FingerprintFacts
<1>5. off \in Nat /\ (fp = <<>> => off = 0)
  BY <1>2 DEF SavedInv
<1>6. Covered(i, fp, off)
  <2>1. CASE off = 0
    BY <1>3, <2>1 DEF Covered
  <2>2. CASE off # 0
    <3>1. sid \in DOMAIN saved /\ off = saved[sid]
      BY <2>2
    <3>2. Covered(sid[1], sid[2], saved[sid])
      BY <3>1 DEF SavedInv
    <3> QED BY <3>1, <3>2
  <2> QED BY <2>1, <2>2
<1> HIDE DEF s, fp, off
<1>7. /\ len \in 0 .. FingerprintBytes
      /\ len > 0 => fp # <<>>
      /\ len = 0 => off = 0
  BY <1>2, <1>3, <1>4, <1>5 DEF ObservedFingerprintLen, Least
<1> HIDE DEF len
<1>8. /\ f.inode = i /\ f.fp = fp /\ f.cmp = fp /\ f.offset = off /\ f.cursor = off /\ f.len = len
  BY <1>1
<1>9. fp \in Seq(Nat)
  BY <1>2, <1>4
<1>10. f \in Files
  BY <1>1, <1>5, <1>7, <1>9 DEF Files
<1>11. HandleOK(f)
  BY <1>4, <1>7, <1>8, <1>10 DEF HandleOK, OldBytes
<1>12. f.len = 0 \/ Of(f.cmp, content[i])
  BY <1>4, <1>7, <1>8 DEF s
<1> QED BY <1>6, <1>8, <1>11, <1>12 DEF HandleInv

(* The process dies and starts again from the checkpoint store.            *)
LEMMA RestartKeeps ==
  ASSUME TailInv, RestartTailer
  PROVE  TailInv'
<1>1. FsTypes /\ GhostTypes /\ SavedInv /\ LossOnlyAtClose /\ Nil \notin Inodes
  BY DEF TailInv, FsTypes
<1>2. /\ link' = link /\ elsewhere' = elsewhere /\ content' = content /\ written' = written
      /\ saved' = saved /\ abandoned' = abandoned
      /\ files' = StartFiles /\ evicted' = Empty
      /\ watch' = IF IsGlob THEN {p \in Paths : link[p] # Nil} ELSE Paths
      /\ pc' = "idle" /\ todo' = {}
      /\ owed' = owed \cap UNION {Bytes(content[i]) : i \in Linked}
      /\ unseen' = {} /\ raced' = raced \cup unseen /\ strayed' = strayed
  BY DEF RestartTailer, fsVars
<1>3. Blurred \subseteq Blurred'
  BY <1>2 DEF Blurred
<1>4. Evolves
  BY <1>2, <1>3 DEF Evolves, Appended
<1>5. FsTypes'
  BY <1>1, <1>2 DEF FsTypes
<1>6. GhostTypes'
  BY <1>1, <1>2 DEF GhostTypes
<1>7. SavedInv'
  BY <1>1, <1>2, <1>4, SavedStays
<1>8. DOMAIN files' = {q \in Paths : link[q] # Nil} /\ DOMAIN evicted' = {}
  BY <1>2 DEF StartFiles, Empty
<1>9. PollTypes'
  BY <1>2, <1>8 DEF PollTypes
<1>10. ASSUME NEW q \in DOMAIN files' PROVE HandleInv(files[q])' /\ InStep(q)'
  <2>1. PICK h : h = Restored(link[q])
    OBVIOUS
  <2>2. PICK i : i = link[q]
    OBVIOUS
  <2>3. files'[q] = h /\ i \in Inodes
    BY <1>1, <1>2, <1>8, <2>1, <2>2 DEF StartFiles, FsTypes
  <2>4. HandleInv(h) /\ h.inode = i /\ (h.len = 0 \/ Of(h.cmp, content[i]))
    BY <1>1, <2>1, <2>2, <2>3, RestoredCovers
  <2>5. HandleInv(h)'
    BY <1>1, <1>4, <2>4, HandleStays
  <2> QED BY <1>2, <2>3, <2>4, <2>5 DEF InStep
<1>11. LossOnlyAtClose'
  <2> SUFFICES ASSUME NEW b \in owed'
               PROVE  \E i \in Inodes : Reachable(i)' /\ b \in Bytes(content'[i])
    BY DEF LossOnlyAtClose, Bytes
  <2>1. PICK i \in Linked : b \in Bytes(content[i])
    BY <1>2
  <2>2. i \in Inodes /\ Reachable(i)'
    BY <1>1, <1>2, <2>1 DEF Linked, Reachable, FsTypes
  <2> QED BY <1>2, <2>1, <2>2
<1> QED BY <1>5, <1>6, <1>7, <1>8, <1>9, <1>10, <1>11 DEF TailInv

-----------------------------------------------------------------------------
(* The tailer.                                                             *)

(* The tailer starts with nothing.                                         *)
LEMMA TailStarts ==
  ASSUME TailInit
  PROVE  TailInv
<1>1. FsTypes
  <2>1. content \in [Inodes -> Seq(1 .. written)] /\ \A i \in Inodes : Len(content[i]) <= written
    BY DEF TailInit
  <2> QED BY <2>1, TailAssumptions DEF TailInit, FsTypes
<1>2. GhostTypes
  BY DEF TailInit, GhostTypes
<1>3. DOMAIN files = {} /\ DOMAIN evicted = {} /\ DOMAIN saved = {}
  BY DEF TailInit, Empty
<1>4. PollTypes
  BY <1>3 DEF TailInit, PollTypes
<1>5. SavedInv /\ LossOnlyAtClose
  BY <1>3 DEF TailInit, SavedInv, LossOnlyAtClose
<1> QED BY <1>1, <1>2, <1>3, <1>4, <1>5 DEF TailInv

(* Every step keeps the invariant.                                         *)
LEMMA TailStep ==
  ASSUME TailInv, [TailNext]_allVars
  PROVE  TailInv'
<1>1. ASSUME NEW p \in Paths,
             Rescan(p) \/ Detect(p) \/ ReadAll(p) \/ Cleanup(p)
      PROVE  TailInv'
  BY <1>1, RescanKeeps, DetectKeeps, ReadKeeps, CleanupKeeps
<1>2. CASE PollStep
  BY <1>1, <1>2, PollMovesKeep, PollEndsKeeps DEF PollStep
<1>3. ASSUME NEW p \in Paths, NEW to, Create(p) \/ Move(p, to) PROVE TailInv'
  BY <1>3, CreateKeeps, MoveKeeps
<1>4. ASSUME NEW i \in Inodes, WriterAppends(i) \/ Truncate(i) PROVE TailInv'
  BY <1>4, WriteKeeps, TruncateKeeps
<1>5. CASE FileSystem
  BY <1>3, <1>4, <1>5 DEF FileSystem
<1> QED BY <1>2, <1>5, PollMovesKeep, CheckpointKeeps, RestartKeeps DEF TailNext

(* Whatever other processes do to the files between two system calls of a  *)
(* poll, whichever of these calls fails, and wherever the process dies:    *)
(* the offsets of open, evicted and checkpointed files hold only for the   *)
(* content they were taken from, except those of files of which a failed   *)
(* read has dropped bytes or lost the cursor (strayed).                    *)
THEOREM TailInvariant == TailSpec => []TailInv
<1>1. TailInit => TailInv
  BY TailStarts
<1>2. TailInv /\ [TailNext]_allVars => TailInv'
  BY TailStep
<1> QED BY <1>1, <1>2, PTL DEF TailSpec

(* FileTailer keeps handles only of paths it watches, with offsets, sizes  *)
(* of fingerprints and states of the end of file within their ranges.      *)
THEOREM TailTypes == TailSpec => []TailTypeOK
<1>1. TailInv => TailTypeOK
  <2> SUFFICES ASSUME TailInv PROVE TailTypeOK
    OBVIOUS
  <2>1. ASSUME NEW i \in Inodes PROVE Bytes(content[i]) \subseteq 1 .. written
    <3>1. written \in Nat /\ content[i] \in Seq(1 .. written)
      BY DEF TailInv, FsTypes
    <3> QED BY <3>1, BytesOf
  <2> QED BY <2>1 DEF TailInv, FsTypes, GhostTypes, PollTypes, HandleInv, HandleOK, TailTypeOK
<1> QED BY <1>1, TailInvariant, PTL

(* Outside the copytruncate window no offset of an open file is ahead of   *)
(* what was delivered: rotation, eviction, restoration by path or source   *)
(* id, inode reuse, growing fingerprints, failed opens and reads and       *)
(* restarts never skip a byte.  The files of which read_new_data has       *)
(* returned an error with the bytes dropped (compute_fingerprint after a   *)
(* read) or the cursor astray are excepted (strayed).                      *)
THEOREM OffsetsAreCovered == TailSpec => []OffsetCovered
<1>1. TailInv => OffsetCovered
  <2> SUFFICES ASSUME TailInv, NEW p \in DOMAIN files, files[p].inode \notin Unsure
               PROVE  Passed(files[p]) \cap owed = {}
    BY DEF OffsetCovered
  <2>1. PICK h : h = files[p]
    OBVIOUS
  <2>2. PICK i : i = h.inode
    OBVIOUS
  <2>3. /\ FsTypes /\ HandleInv(h) /\ i \in Inodes /\ i \notin Blurred
        /\ h.len = 0 \/ Of(h.cmp, content[i])
        /\ h.offset \in Nat /\ written \in Nat /\ content[i] \in Seq(1 .. written)
    BY <2>1, <2>2 DEF TailInv, FsTypes, InStep, Blurred, Unsure, HandleInv, HandleOK, Files
  <2>4. h.offset <= Len(content[i]) /\ \A k \in 1 .. h.offset : content[i][k] \notin owed
    BY <2>2, <2>3, UpToDate
  <2>5. Len(content[i]) \in Nat
    BY <2>3, BytesOf
  <2>6. PICK s : s = Prefix(content[i], h.offset)
    OBVIOUS
  <2>7. s \in Seq(1 .. written) /\ Len(s) = h.offset /\ \A k \in 1 .. h.offset : s[k] = content[i][k]
    <3>1. Least(h.offset, Len(content[i])) = h.offset
      BY <2>3, <2>4, <2>5 DEF Least
    <3> QED BY <2>3, <2>6, <3>1, PrefixFacts
  <2>8. Bytes(s) = {s[k] : k \in 1 .. h.offset}
    BY <2>3, <2>7, BytesOf
  <2> QED BY <2>1, <2>2, <2>4, <2>6, <2>7, <2>8 DEF Passed
<1> QED BY <1>1, TailInvariant, PTL

(* A byte written within reach of the tailer is delivered or still in an   *)
(* open or watched file; it is lost only where cleanup_deleted, a rotation *)
(* or evict_lru drops the last handle of a file without a watched name,    *)
(* also when the read before it fails.  A byte that a failed read drops is *)
(* in its file still, behind an offset that OffsetCovered excepts.         *)
THEOREM LossOnlyWhenClosed == TailSpec => []LossOnlyAtClose
<1>1. TailInv => LossOnlyAtClose
  BY DEF TailInv
<1> QED BY <1>1, TailInvariant, PTL
=============================================================================
