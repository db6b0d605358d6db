---------------------------- MODULE BatchEncoding ----------------------------
(***************************************************************************)
(* The request body of a POST cycle: write_batch(), run once with a        *)
(* BatchCounter to size the body and once with a BatchAppender to fill it. *)
(* The two passes share the path and differ in what a call of the sink     *)
(* does, so WriteBatch is the sequence of those calls, and each pass       *)
(* interprets it.                                                          *)
(*                                                                         *)
(* A character is its code.  A key of the document, with its quotes, is    *)
(* one symbol: the literals that hold the keys are never escaped.          *)
(*                                                                         *)
(* A definition marked "Mutant" is a planted fault that no action uses.    *)
(***************************************************************************)
EXTENDS JsonReader

CONSTANTS
    Headers,      \* gateway id, firmware, mac and numbers of a batch
    Batches,      \* sequences of advertisements, as the stack reports them
    NameMax       \* sizeof(tmp) - 1 in extract_local_name(), extract_name()

Byte == 0..255
BatchHeader == [gateway_id : Seq(Byte), firmware : Seq(Byte), mac : Seq(Byte),
                uptime_s : Nat, free_heap : Nat]
Advertisement == [bda : Seq(Byte), rssi : Int, name : Seq(Byte), adv_data : Seq(Byte)]

ASSUME BatchAssumption ==
    /\ Headers \subseteq BatchHeader
    /\ Batches \subseteq Seq(Advertisement)
    /\ NameMax \in Nat

VARIABLES
    phase,        \* what post_task_function() has done with its batch
    header,       \* the BatchHeader
    to_post,      \* the batch
    counted,      \* counter.length()
    body          \* what the appender has written

vars == <<phase, header, to_post, counted, body>>

Key == [gateway_id |-> 256, hostname |-> 257, firmware |-> 258, uptime |-> 259,
        free_heap |-> 260, mac |-> 261, devices |-> 262, rssi |-> 263,
        name |-> 264, adv_data |-> 265]

-----------------------------------------------------------------------------
(* Texts.                                                                  *)

UpperHex(n) == IF n < 10 THEN Zero + n ELSE 55 + n
LowerHex(n) == IF n < 10 THEN Zero + n ELSE 87 + n

\* Two digits to a byte.
Hex(bytes) == FlattenSeq([i \in DOMAIN bytes |->
                             <<UpperHex(bytes[i] \div 16), UpperHex(bytes[i] % 16)>>])

\* format_bda()
FormatBda(bda) == FlattenSeq([i \in DOMAIN bda |->
    (IF i = 1 THEN <<>> ELSE <<Colon>>) \o Hex(<<bda[i]>>)])

\* extract_local_name(), and NimBLE's extract_name(): the field is cut at what the buffer holds, and, as a
\* C string, at its first NUL.
LocalName(field) ==
    LET kept == SubSeq(field, 1, IF Len(field) < NameMax THEN Len(field) ELSE NameMax)
    IN  IF 0 \in ToSet(kept) THEN SubSeq(kept, 1, SelectInSeq(kept, LAMBDA c : c = 0) - 1)
                             ELSE kept

\* batch_number_text() of a value and its sign.
BatchNumberText(value) ==
    LET magnitude == IF value < 0 THEN -value ELSE value
        digits[n \in 0..magnitude] ==
            IF n < 10 THEN <<Zero + n>> ELSE Append(digits[n \div 10], Zero + (n % 10))
    IN  (IF value < 0 THEN <<Minus>> ELSE <<>>) \o digits[magnitude]

\* kShortEscape: the controls with a letter, and the letter.
ShortEscape == [c \in {8, 9, 10, 12, 13} |->
    CASE c = 8 -> 98 [] c = 9 -> 116 [] c = 10 -> 110 [] c = 12 -> 102 [] c = 13 -> 114]

\* Mutant: the last control is taken for a character.
EscapedBelow31(c) ==
    IF c \in {Quote, Backslash} THEN <<Backslash, c>>
    ELSE IF c >= Space - 1 THEN <<c>>
    ELSE IF c \in DOMAIN ShortEscape THEN <<Backslash, ShortEscape[c]>>
    ELSE <<Backslash, LetterU, Zero, Zero, LowerHex(c \div 16), LowerHex(c % 16)>>
\* Mutant: a backslash is taken for a character.
EscapedQuoteOnly(c) ==
    IF c = Quote THEN <<Backslash, c>>
    ELSE IF c >= Space THEN <<c>>
    ELSE IF c \in DOMAIN ShortEscape THEN <<Backslash, ShortEscape[c]>>
    ELSE <<Backslash, LetterU, Zero, Zero, LowerHex(c \div 16), LowerHex(c % 16)>>
Escaped(c) ==
    IF c \in {Quote, Backslash} THEN <<Backslash, c>>
    ELSE IF c >= Space THEN <<c>>
    ELSE IF c \in DOMAIN ShortEscape THEN <<Backslash, ShortEscape[c]>>
    ELSE <<Backslash, LetterU, Zero, Zero, LowerHex(c \div 16), LowerHex(c % 16)>>

\* json_append_quoted()
JsonQuoted(text) ==
    <<Quote>> \o FlattenSeq([i \in DOMAIN text |-> Escaped(text[i])]) \o <<Quote>>

\* A length that is added up.
Total(lengths) == FoldLeft(LAMBDA sum, n : sum + n, 0, lengths)

\* Mutant: a control is counted as if each had a short form.
EscapedLengthShort(c) == IF c \in {Quote, Backslash} \/ c < Space THEN 2 ELSE 1
EscapedLength(c) ==
    IF c \in {Quote, Backslash} \cup DOMAIN ShortEscape THEN 2
    ELSE IF c < Space THEN 6
    ELSE 1

\* json_quoted_length(), with the quotes.
JsonQuotedLength(text) == 2 + Total([i \in DOMAIN text |-> EscapedLength(text[i])])

-----------------------------------------------------------------------------
(* write_batch().                                                          *)

Call(sink, text, value) == <<[sink |-> sink, text |-> text, value |-> value]>>
Raw(text) == Call("raw", text, 0)
Quoted(text) == Call("quoted", text, 0)
Number(value) == Call("number", <<>>, value)
Bytes(bytes) == Call("hex", bytes, 0)

\* A key and its value, after another or first in its object.
First(key, value) == Raw(<<OpenBrace, key, Colon>>) \o value
Then(key, value) == Raw(<<Comma, key, Colon>>) \o value
\* An optional field, which its zero length omits.
Unless(empty, calls) == IF empty THEN <<>> ELSE calls

\* The caller's device_at(), and then the calls for the device.
WriteDevice(ad) ==
    LET name == LocalName(ad.name)
    IN  First(Key.mac, Quoted(FormatBda(ad.bda)))
        \o Then(Key.rssi, Number(ad.rssi))
        \o Unless(name = <<>>, Then(Key.name, Quoted(name)))
        \o Unless(ad.adv_data = <<>>,
                  Then(Key.adv_data,
                       Raw(<<Quote>>) \o Bytes(ad.adv_data) \o Raw(<<Quote>>)))
        \o Raw(<<CloseBrace>>)

WriteBatch(h, ads) ==
    First(Key.gateway_id, Quoted(h.gateway_id))
    \o Then(Key.hostname, Quoted(h.gateway_id))
    \o Then(Key.firmware, Quoted(h.firmware))
    \o Then(Key.uptime, Number(h.uptime_s))
    \o Then(Key.free_heap, Number(h.free_heap))
    \o Unless(h.mac = <<>>, Then(Key.mac, Quoted(FormatBda(h.mac))))
    \o Then(Key.devices, Raw(<<OpenBracket>>))
    \o FlattenSeq([i \in DOMAIN ads |->
                      Unless(i = 1, Raw(<<Comma>>)) \o WriteDevice(ads[i])])
    \o Raw(<<CloseBracket, CloseBrace>>)

\* What a call adds to a BatchCounter.
Counted(call) ==
    CASE call.sink = "raw" -> Len(call.text)
      [] call.sink = "quoted" -> JsonQuotedLength(call.text)
      [] call.sink = "number" -> Len(BatchNumberText(call.value))
      [] call.sink = "hex" -> 2 * Len(call.text)

\* What a call appends to a BatchAppender's string.
Appended(call) ==
    CASE call.sink = "raw" -> call.text
      [] call.sink = "quoted" -> JsonQuoted(call.text)
      [] call.sink = "number" -> BatchNumberText(call.value)
      [] call.sink = "hex" -> Hex(call.text)

-----------------------------------------------------------------------------
(* The cycle.                                                              *)

Init ==
    /\ phase = "posted"
    /\ header \in Headers /\ to_post = <<>>
    /\ counted = 0 /\ body = <<>>

\* The batch is drained, and its header put together.
Collect ==
    /\ phase = "posted"
    /\ phase' = "collected"
    /\ header' \in Headers
    /\ to_post' \in Batches
    /\ counted' = 0 /\ body' = <<>>

\* The pass with the counter, whose total the body is reserved for.
Size ==
    /\ phase = "collected"
    /\ phase' = "sized"
    /\ LET calls == WriteBatch(header, to_post)
       IN  counted' = Total([i \in DOMAIN calls |-> Counted(calls[i])])
    /\ UNCHANGED <<header, to_post, body>>

\* The pass with the appender.
Fill ==
    /\ phase = "sized"
    /\ phase' = "filled"
    /\ LET calls == WriteBatch(header, to_post)
       IN  body' = FlattenSeq([i \in DOMAIN calls |-> Appended(calls[i])])
    /\ UNCHANGED <<header, to_post, counted>>

\* The body is sent or dropped.
Post ==
    /\ phase = "filled"
    /\ phase' = "posted"
    /\ to_post' = <<>> /\ counted' = 0 /\ body' = <<>>
    /\ UNCHANGED header

Next == Collect \/ Size \/ Fill \/ Post

Spec == Init /\ [][Next]_vars

-----------------------------------------------------------------------------
(* Properties.                                                             *)

Str(path, text) == <<<<path, "string", text>>>>
Num(path, value) == <<<<path, "number", <<value>>>>>>

\* The leaves that the server should read: the caller's header and
\* advertisements, an optional field where there is something to tell.
Document ==
    LET leaf(i, key) == <<Key.devices, i, key>>
        device(i, ad) ==
            Str(leaf(i, Key.mac), FormatBda(ad.bda))
            \o Num(leaf(i, Key.rssi), ad.rssi)
            \o Unless(LocalName(ad.name) = <<>>,
                      Str(leaf(i, Key.name), LocalName(ad.name)))
            \o Unless(ad.adv_data = <<>>, Str(leaf(i, Key.adv_data), ad.adv_data))
    IN  Str(<<Key.gateway_id>>, header.gateway_id)
        \o Str(<<Key.hostname>>, header.gateway_id)
        \o Str(<<Key.firmware>>, header.firmware)
        \o Num(<<Key.uptime>>, header.uptime_s)
        \o Num(<<Key.free_heap>>, header.free_heap)
        \o Unless(header.mac = <<>>, Str(<<Key.mac>>, FormatBda(header.mac)))
        \o FlattenSeq([i \in DOMAIN to_post |-> device(i, to_post[i])])

\* A reader takes the payload for the bytes its digits stand for.
Understood(l) ==
    IF Last(l[1]) = Key.adv_data THEN <<l[1], l[2], Unhex(l[3])>> ELSE l

\* Every character of a body is one that JSON lets stand for itself.
TypeOK ==
    /\ phase \in {"posted", "collected", "sized", "filled"}
    /\ counted \in Nat
    /\ \A i \in DOMAIN body : body[i] >= Space

\* The sizing pass and the writing pass agree to the byte, so the string that
\* was reserved never grows, whatever the names hold.
SizesAgree == phase = "filled" => counted = Len(body)

\* Whatever peripherals call themselves, the body is one document, and what a
\* reader finds in it is the header and the batch: no name ends its string
\* early, adds a field or loses a character.  That is up to the validity of
\* UTF-8, which the code does not promise: a name is passed on byte by byte.
BodyIsTheBatch ==
    phase = "filled" =>
        LET found == ReadText(body)
        IN  /\ found.valid
            /\ [i \in DOMAIN found.leaves |-> Understood(found.leaves[i])] = Document
=============================================================================
