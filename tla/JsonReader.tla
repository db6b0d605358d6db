------------------------------ MODULE JsonReader ------------------------------
(***************************************************************************)
(* A reader of JSON documents (RFC 8259), which is what the server of the  *)
(* gateway has: the reference that BatchEncoding's bodies are read back    *)
(* with.  It knows nothing of how they were written.                       *)
(*                                                                         *)
(* A document is a sequence of bytes; a code of 256 and more stands for a  *)
(* key with its quotes.  A byte of 128 and more is taken as it is: whether *)
(* such bytes make up UTF-8, as the RFC asks, is not looked at, and the    *)
(* writer does not look either.  What is read is the sequence of the       *)
(* document's leaves, each with the path of keys and array indices that    *)
(* leads to it.                                                            *)
(***************************************************************************)
EXTENDS Integers, SequencesExt

Quote == 34
Comma == 44
Minus == 45
Colon == 58
OpenBracket == 91
Backslash == 92
CloseBracket == 93
OpenBrace == 123
CloseBrace == 125
Space == 32
Zero == 48
LetterU == 117
Digits == Zero .. Zero + 9
Punctuation == {Comma, Colon, OpenBracket, CloseBracket, OpenBrace, CloseBrace}
IsKey(c) == c >= 256

-----------------------------------------------------------------------------
(* Tokens.                                                                 *)

\* The escapes of one letter, and what they stand for.
Unescaped == [c \in {Quote, Backslash, 47, 98, 116, 110, 102, 114} |->
    CASE c = 98 -> 8 [] c = 116 -> 9 [] c = 110 -> 10 [] c = 102 -> 12 [] c = 114 -> 13
      [] OTHER -> c]

HexValue(c) == IF c \in Digits THEN c - Zero ELSE IF c >= 97 THEN c - 87 ELSE c - 55
IsHex(c) == c \in Digits \cup 65..70 \cup 97..102

\* Four digits to a character, two to a byte.
CodeOf(d) == 4096 * HexValue(d[1]) + 256 * HexValue(d[2])
             + 16 * HexValue(d[3]) + HexValue(d[4])
Unhex(text) ==
    [i \in 1 .. Len(text) \div 2 |->
        16 * HexValue(text[2 * i - 1]) + HexValue(text[2 * i])]

Magnitude(digits) ==
    LET upTo[i \in 0..Len(digits)] ==
            IF i = 0 THEN 0 ELSE 10 * upTo[i - 1] + HexValue(digits[i])
    IN  upTo[Len(digits)]
IntegerOf(text) ==
    IF text[1] = Minus THEN -Magnitude(Tail(text)) ELSE Magnitude(text)

Scanner == [mode |-> "between", text |-> <<>>, code |-> <<>>, tokens |-> <<>>]

Token(kind, text) == [kind |-> kind, text |-> text]
Mark(c) == Token("punctuation", <<c>>)
Emits(s, kind, text) ==
    [s EXCEPT !.mode = "between", !.text = <<>>, !.tokens = Append(@, Token(kind, text))]
Fails(s) == [s EXCEPT !.mode = "error"]
Takes(s, mode, c) == [s EXCEPT !.mode = mode, !.text = Append(@, c), !.code = <<>>]

Between(s, c) ==
    CASE c = Quote -> [s EXCEPT !.mode = "string"]
      [] c \in Digits \cup {Minus} -> Takes(s, "number", c)
      [] c \in Punctuation -> Emits(s, "punctuation", <<c>>)
      [] IsKey(c) -> Emits(s, "string", <<c>>)
      [] OTHER -> Fails(s)

Scan(s, c) ==
    CASE s.mode = "between" -> Between(s, c)
      [] s.mode = "number" ->
            IF c \in Digits THEN Takes(s, "number", c)
            ELSE Between(Emits(s, "number", <<IntegerOf(s.text)>>), c)
      [] s.mode = "string" ->
            CASE c = Quote -> Emits(s, "string", s.text)
              [] c = Backslash -> [s EXCEPT !.mode = "escape"]
              [] c < Space \/ IsKey(c) -> Fails(s)
              [] OTHER -> Takes(s, "string", c)
      [] s.mode = "escape" ->
            CASE c \in DOMAIN Unescaped -> Takes(s, "string", Unescaped[c])
              [] c = LetterU -> [s EXCEPT !.mode = "code"]
              [] OTHER -> Fails(s)
      [] s.mode = "code" ->
            IF ~IsHex(c) THEN Fails(s)
            ELSE IF Len(s.code) < 3 THEN [s EXCEPT !.code = Append(@, c)]
            ELSE Takes(s, "string", CodeOf(Append(s.code, c)))
      [] s.mode = "error" -> s

-----------------------------------------------------------------------------
(* Documents.                                                              *)

Reader == [expects |-> "value", nest |-> <<>>, path |-> <<>>, leaves |-> <<>>]

Opens(r, kind) ==
    [r EXCEPT !.nest = Append(@, kind),
              !.path = IF kind = "array" THEN Append(@, 1) ELSE @,
              !.expects = IF kind = "array" THEN "first_value" ELSE "first_name"]

\* The innermost object or array ends; what it was a value of goes on.
Shuts(r) == [r EXCEPT !.nest = Front(@), !.expects = "after"]

Value(r, t) ==
    CASE t.kind # "punctuation" ->
            [r EXCEPT !.expects = "after",
                      !.leaves = Append(@, <<r.path, t.kind, t.text>>)]
      [] t = Mark(OpenBrace) -> Opens(r, "object")
      [] t = Mark(OpenBracket) -> Opens(r, "array")
      [] OTHER -> [r EXCEPT !.expects = "error"]

Name(r, t) ==
    IF t.kind = "string" /\ Len(t.text) = 1
      THEN [r EXCEPT !.expects = "colon", !.path = Append(@, t.text[1])]
      ELSE [r EXCEPT !.expects = "error"]

After(r, t) ==
    LET done == [r EXCEPT !.path = Front(@)]
        inner == IF r.nest = <<>> THEN "document" ELSE Last(r.nest)
    IN  CASE inner = "object" /\ t = Mark(Comma) -> [done EXCEPT !.expects = "name"]
          [] inner = "object" /\ t = Mark(CloseBrace) -> Shuts(done)
          [] inner = "array" /\ t = Mark(Comma) ->
                [r EXCEPT !.expects = "value", !.path[Len(r.path)] = @ + 1]
          [] inner = "array" /\ t = Mark(CloseBracket) -> Shuts(done)
          [] OTHER -> [r EXCEPT !.expects = "error"]

Read(r, t) ==
    CASE r.expects = "value" -> Value(r, t)
      [] r.expects = "first_value" ->
            IF t = Mark(CloseBracket) THEN Shuts([r EXCEPT !.path = Front(@)])
                                         ELSE Value(r, t)
      [] r.expects = "name" -> Name(r, t)
      [] r.expects = "first_name" ->
            IF t = Mark(CloseBrace) THEN Shuts(r) ELSE Name(r, t)
      [] r.expects = "colon" ->
            [r EXCEPT !.expects = IF t = Mark(Colon) THEN "value" ELSE "error"]
      [] r.expects = "after" -> After(r, t)
      [] r.expects = "error" -> r

Scanned(text) ==
    LET scan[i \in 0..Len(text)] == IF i = 0 THEN Scanner ELSE Scan(scan[i - 1], text[i])
    IN  scan[Len(text)]

ReadTokens(tokens) ==
    LET read[i \in 0..Len(tokens)] == IF i = 0 THEN Reader ELSE Read(read[i - 1], tokens[i])
    IN  read[Len(tokens)]

\* A text is a document when its last token is followed by nothing, and
\* nothing is left open.
ReadText(text) ==
    LET end == ReadTokens(Scanned(text).tokens)
    IN  [valid |-> /\ Scanned(text).mode = "between"
                   /\ end.expects = "after" /\ end.nest = <<>>,
         leaves |-> end.leaves]
=============================================================================
