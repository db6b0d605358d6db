------------------------- MODULE BatchReadingProofs -------------------------
(***************************************************************************)
(* Proofs about BatchEncoding, second part: what JsonReader reads of a     *)
(* body is the header and the batch, for every header, every batch and     *)
(* every name, up to the validity of UTF-8, which JsonReader leaves aside. *)
(*                                                                         *)
(* First the scanner: each text that a sink writes is scanned for the      *)
(* token it stands for.  Then the reader: each token moves it as the place *)
(* it has come to allows.  The two are one in Leads(text, m, w), the text  *)
(* takes a reader from m to w, and Sends(calls, m, w), the calls of        *)
(* write_batch() do; calls after calls compose, and a loop over the batch  *)
(* is followed device by device.  A number is a token only when the next   *)
(* character has been seen, so the reader is one token late after it.      *)
(***************************************************************************)
EXTENDS BatchEncodingProofs

-----------------------------------------------------------------------------
(* What is flattened in one go, and piece by piece.                        *)

\* FlattenSeq() is reached by appending one text after the other.
LEMMA FlattenSteps ==
    ASSUME NEW S, NEW seqs \in Seq(Seq(S))
    PROVE  \E g : /\ g[0] = <<>>
                  /\ \A k \in 1..Len(seqs) : g[k] = g[k - 1] \o seqs[k]
                  /\ \A k \in 0..Len(seqs) : g[k] \in Seq(S)
                  /\ FlattenSeq(seqs) = g[Len(seqs)]
<1> DEFINE n == Len(seqs)
<1>1. n \in Nat /\ DOMAIN seqs = 1..n /\ \A i \in 1..n : seqs[i] \in Seq(S)
  BY LenProperties, ElementOfSeq
<1>2. CASE n = 0
  <2> DEFINE g == [k \in 0..0 |-> <<>>]
  <2>1. FlattenSeq(seqs) = <<>>
    BY <1>2, EmptySeq DEF FlattenSeq
  <2>2. /\ g[0] = <<>>
        /\ \A k \in 1..n : g[k] = g[k - 1] \o seqs[k]
        /\ \A k \in 0..n : g[k] \in Seq(S)
        /\ FlattenSeq(seqs) = g[n]
    BY <1>2, <2>1
  <2>3. QED
    BY <2>2
<1>3. CASE n # 0
  <2>1. PICK f : /\ f = [i \in 1..n |-> IF i = 1 THEN seqs[i] ELSE f[i - 1] \o seqs[i]]
                 /\ FlattenSeq(seqs) = f[n]
    BY <1>1, <1>3, FlattenIs
  <2> DEFINE g == [k \in 0..n |-> IF k = 0 THEN <<>> ELSE f[k]]
  <2>2. g[0] = <<>> /\ g[n] = f[n]
    BY <1>1, <1>3
  <2>3. ASSUME NEW k \in 1..n
        PROVE  g[k] = f[k] /\ (k # 1 => g[k - 1] = f[k - 1]) /\ (k = 1 => g[k - 1] = <<>>)
    BY <1>1
  <2> HIDE DEF g
  <2>4. ASSUME NEW k \in 1..n
        PROVE  g[k] = g[k - 1] \o seqs[k]
    <3>1. CASE k = 1
      <4>1. f[k] = seqs[k] /\ g[k] = f[k] /\ g[k - 1] = <<>> /\ seqs[k] \in Seq(S)
        BY <1>1, <2>1, <2>3, <3>1
      <4>2. <<>> \o seqs[k] = seqs[k]
        BY <4>1, ConcatEmptySeq
      <4>3. QED
        BY <4>1, <4>2
    <3>2. CASE k # 1
      <4>1. f[k] = f[k - 1] \o seqs[k]
        BY <2>1, <3>2
      <4>2. QED
        BY <2>3, <3>2, <4>1
    <3>3. QED
      BY <3>1, <3>2
  <2> DEFINE R == {k \in Nat : k <= n => g[k] \in Seq(S)}
  <2>5. 0 \in R
    BY <2>2, Tuples
  <2>6. ASSUME NEW k \in Nat, k \in R
        PROVE  k + 1 \in R
    <3>1. SUFFICES ASSUME k + 1 <= n
                   PROVE  g[k + 1] \in Seq(S)
      OBVIOUS
    <3>2. k + 1 \in 1..n /\ (k + 1) - 1 = k /\ g[k] \in Seq(S)
      BY <1>1, <2>6, <3>1
    <3>3. g[k + 1] = g[k] \o seqs[k + 1] /\ seqs[k + 1] \in Seq(S)
      BY <1>1, <2>4, <3>2
    <3>4. QED
      BY <3>2, <3>3, Joining
  <2> HIDE DEF R
  <2>7. Nat \subseteq R
    BY <2>5, <2>6, Induction
  <2>8. \A k \in 0..n : g[k] \in Seq(S)
    BY <1>1, <2>7 DEF R
  <2>9. QED
    BY <2>1, <2>2, <2>4, <2>8
<1>4. QED
  BY <1>2, <1>3

\* Two lists of texts, one after the other.
LEMMA FlattenJoined ==
    ASSUME NEW S, NEW a \in Seq(Seq(S)), NEW b \in Seq(Seq(S))
    PROVE  FlattenSeq(a \o b) = FlattenSeq(a) \o FlattenSeq(b)
<1> DEFINE n == Len(a)
           m == Len(b)
           c == a \o b
<1>1. /\ n \in Nat /\ m \in Nat /\ c \in Seq(Seq(S)) /\ Len(c) = n + m
      /\ \A i \in 1..n : c[i] = a[i]
      /\ \A j \in 1..m : c[n + j] = b[j]
      /\ \A j \in 1..m : b[j] \in Seq(S)
  BY ConcatProperties, LenProperties, ElementOfSeq
<1>2. PICK f : /\ f[0] = <<>>
               /\ \A k \in 1..n : f[k] = f[k - 1] \o a[k]
               /\ \A k \in 0..n : f[k] \in Seq(S)
               /\ FlattenSeq(a) = f[n]
  BY FlattenSteps
<1>3. PICK g : /\ g[0] = <<>>
               /\ \A k \in 1..m : g[k] = g[k - 1] \o b[k]
               /\ \A k \in 0..m : g[k] \in Seq(S)
               /\ FlattenSeq(b) = g[m]
  BY FlattenSteps
<1> HIDE DEF c
<1>4. PICK h : /\ h[0] = <<>>
               /\ \A k \in 1..Len(c) : h[k] = h[k - 1] \o c[k]
               /\ \A k \in 0..Len(c) : h[k] \in Seq(S)
               /\ FlattenSeq(c) = h[Len(c)]
  BY <1>1, FlattenSteps
<1> HIDE DEF n, m
<1> DEFINE R == {k \in Nat : k <= n => h[k] = f[k]}
           Shifted(k) == h[n + k] = f[n] \o g[k]
           T == {k \in Nat : k <= m => Shifted(k)}
<1>5. n \in R
  <2>1. 0 \in R
    BY <1>2, <1>4
  <2>2. ASSUME NEW k \in Nat, k \in R
        PROVE  k + 1 \in R
    <3>1. SUFFICES ASSUME k + 1 <= n
                   PROVE  h[k + 1] = f[k + 1]
      OBVIOUS
    <3>2. k + 1 \in 1..n /\ k + 1 \in 1..Len(c) /\ (k + 1) - 1 = k /\ h[k] = f[k]
      BY <1>1, <2>2, <3>1
    <3>3. h[k + 1] = h[k] \o c[k + 1] /\ f[k + 1] = f[k] \o a[k + 1]
      BY <1>2, <1>4, <3>2
    <3>4. c[k + 1] = a[k + 1]
      BY <1>1, <3>2
    <3>5. QED
      BY <3>2, <3>3, <3>4
  <2> HIDE DEF R
  <2>3. QED
    BY <1>1, <2>1, <2>2, Induction
<1>6. h[n] = f[n] /\ f[n] \in Seq(S)
  BY <1>1, <1>2, <1>5
<1>7. m \in T
  <2>1. n + 0 = n /\ f[n] \o <<>> = f[n]
    BY <1>1, <1>6, ConcatEmptySeq
  <2>2. h[n + 0] = f[n] \o g[0]
    BY <1>3, <1>6, <2>1
  <2>3. Shifted(0)
    BY <2>2
  <2>4. 0 \in T
    BY <2>3
  <2>5. ASSUME NEW k \in Nat, k \in T
        PROVE  k + 1 \in T
    <3>1. CASE k + 1 <= m
      <4>1. /\ k + 1 \in 1..m /\ k \in 0..m /\ n + (k + 1) \in 1..(n + m)
            /\ (n + (k + 1)) - 1 = n + k /\ (k + 1) - 1 = k /\ k <= m
        BY <1>1, <3>1
      <4>2. h[n + k] = f[n] \o g[k]
        BY <2>5, <4>1
      <4>3. h[n + (k + 1)] = h[n + k] \o c[n + (k + 1)] /\ g[k + 1] = g[k] \o b[k + 1]
        BY <1>1, <1>3, <1>4, <4>1
      <4>4. c[n + (k + 1)] = b[k + 1] /\ b[k + 1] \in Seq(S) /\ g[k] \in Seq(S)
        BY <1>1, <1>3, <4>1
      <4>5. \A x, y, z \in Seq(S) : (x \o y) \o z = x \o (y \o z)
        BY ConcatAssociative, SMTT(30)
      <4>6. (f[n] \o g[k]) \o b[k + 1] = f[n] \o (g[k] \o b[k + 1])
        BY <1>6, <4>4, <4>5, Zenon
      <4>7. h[n + (k + 1)] = f[n] \o g[k + 1]
        BY <4>2, <4>3, <4>4, <4>6, Zenon
      <4>8. Shifted(k + 1)
        BY <4>7
      <4> HIDE DEF Shifted
      <4>9. QED
        BY <4>8
    <3>2. CASE ~ (k + 1 <= m)
      <4> HIDE DEF Shifted
      <4>1. QED
        BY <3>2
    <3>3. QED
      BY <3>1, <3>2
  <2> HIDE DEF T
  <2>6. QED
    BY <1>1, <2>4, <2>5, Induction
<1>8. h[n + m] = f[n] \o g[m]
  <2>1. m <= m
    BY <1>1
  <2>2. QED
    BY <1>7, <2>1
<1>9. QED
  BY <1>1, <1>2, <1>3, <1>4, <1>8 DEF n, m, c

-----------------------------------------------------------------------------
(* The scanner of the reader, piece by piece.                              *)

\* Text takes the scanner from s to x.
Scans(s, text, x) ==
    \E f : /\ f[0] = s
           /\ \A i \in 1..Len(text) : f[i] = Scan(f[i - 1], text[i])
           /\ f[Len(text)] = x

\* Nothing is scanned of the empty text.
LEMMA ScansNothing == \A s : Scans(s, <<>>, s)
<1> SUFFICES ASSUME NEW s
             PROVE  Scans(s, <<>>, s)
  OBVIOUS
<1> DEFINE f == [i \in 0..0 |-> s]
<1>1. f[0] = s /\ Len(<<>>) = 0 /\ 1..0 = {}
  OBVIOUS
<1> HIDE DEF f
<1>2. QED
  BY <1>1 DEF Scans

\* Of one character, what Scan makes of it.
LEMMA ScansOne ==
    ASSUME NEW s, NEW c
    PROVE  Scans(s, <<c>>, Scan(s, c))
<1> DEFINE f == [i \in 0..1 |-> IF i = 0 THEN s ELSE Scan(s, c)]
<1>1. f[0] = s /\ f[1] = Scan(s, c) /\ Len(<<c>>) = 1 /\ <<c>>[1] = c
  OBVIOUS
<1> HIDE DEF f
<1>2. \A i \in 1..1 : f[i] = Scan(f[i - 1], <<c>>[i])
  <2>1. \A i \in 1..1 : i = 1
    OBVIOUS
  <2>2. 1 - 1 = 0
    OBVIOUS
  <2>3. QED
    BY <1>1, <2>1, <2>2
<1>3. QED
  BY <1>1, <1>2 DEF Scans

\* A text after a text is scanned from where the first has led.
LEMMA ScansJoined ==
    ASSUME NEW S, NEW a \in Seq(S), NEW b \in Seq(S), NEW s, NEW x, NEW y,
           Scans(s, a, x), Scans(x, b, y)
    PROVE  Scans(s, a \o b, y)
<1>1. PICK f : /\ f[0] = s
               /\ \A i \in 1..Len(a) : f[i] = Scan(f[i - 1], a[i])
               /\ f[Len(a)] = x
  BY DEF Scans
<1>2. PICK g : /\ g[0] = x
               /\ \A i \in 1..Len(b) : g[i] = Scan(g[i - 1], b[i])
               /\ g[Len(b)] = y
  BY DEF Scans
<1>3. /\ Len(a) \in Nat /\ Len(b) \in Nat /\ Len(a \o b) = Len(a) + Len(b)
      /\ \A i \in 1..Len(a) : (a \o b)[i] = a[i]
      /\ \A i \in (Len(a) + 1)..(Len(a) + Len(b)) : (a \o b)[i] = b[i - Len(a)]
  BY ConcatProperties, LenProperties
<1> DEFINE n == Len(a)
           m == Len(b)
           c == a \o b
           h == [i \in 0..(n + m) |-> IF i <= n THEN f[i] ELSE g[i - n]]
<1>4. /\ \A i \in 0..n : h[i] = f[i]
      /\ \A i \in 1..m : h[n + i] = g[i]
      /\ h[n] = g[0]
  BY <1>1, <1>2, <1>3
<1> HIDE DEF h
<1>5. ASSUME NEW i \in 1..(n + m)
      PROVE  h[i] = Scan(h[i - 1], c[i])
  <2>1. CASE i <= n
    <3>1. i \in 1..n /\ i - 1 \in 0..n /\ i \in 0..n
      BY <1>3, <2>1
    <3>2. h[i] = f[i] /\ h[i - 1] = f[i - 1] /\ c[i] = a[i]
      BY <1>3, <1>4, <3>1
    <3>3. QED
      BY <1>1, <3>1, <3>2
  <2>2. CASE i > n
    <3> DEFINE j == i - n
    <3>1. j \in 1..m /\ i = n + j /\ i - 1 = n + (j - 1) /\ i \in (n + 1)..(n + m)
      BY <1>3, <2>2
    <3>2. j - 1 = 0 \/ j - 1 \in 1..m
      BY <1>3, <3>1
    <3>3. c[i] = b[j]
      BY <1>3, <3>1
    <3> HIDE DEF j
    <3>4. h[i] = g[j]
      BY <1>4, <3>1
    <3>5. h[i - 1] = g[j - 1]
      <4>1. CASE j - 1 = 0
        <5>1. i - 1 = n
          BY <1>3, <3>1, <4>1
        <5>2. QED
          BY <1>4, <4>1, <5>1
      <4>2. CASE j - 1 \in 1..m
        BY <1>4, <3>1, <4>2
      <4>3. QED
        BY <3>2, <4>1, <4>2
    <3>6. QED
      BY <1>2, <3>1, <3>3, <3>4, <3>5
  <2>3. QED
    BY <1>3, <2>1, <2>2
<1>6. h[0] = s
  BY <1>1, <1>3, <1>4
<1>7. h[n + m] = y
  <2>1. CASE m = 0
    BY <1>2, <1>3, <1>4, <2>1
  <2>2. CASE m # 0
    <3>1. m \in 1..m
      BY <1>3, <2>2
    <3>2. QED
      BY <1>2, <1>4, <3>1
  <2>3. QED
    BY <2>1, <2>2
<1>8. Len(c) = n + m
  BY <1>3
<1> HIDE DEF n, m, c
<1>9. Scans(s, c, y)
  BY <1>5, <1>6, <1>7, <1>8 DEF Scans
<1>10. QED
  BY <1>9 DEF c

\* Scanned() is where the scanner comes to from its start.
LEMMA ScannedIs ==
    ASSUME NEW text, Len(text) \in Nat, NEW x, Scans(Scanner, text, x)
    PROVE  Scanned(text) = x
<1> DEFINE n == Len(text)
<1>1. PICK f : /\ f[0] = Scanner
               /\ \A i \in 1..n : f[i] = Scan(f[i - 1], text[i])
               /\ f[n] = x
  BY DEF Scans
<1>2. \E g : g = [i \in 0..n |-> IF i = 0 THEN Scanner ELSE Scan(g[i - 1], text[i])]
  <2> DEFINE g == [i \in 0..n |-> f[i]]
  <2>1. ASSUME NEW i \in 0..n
        PROVE  g[i] = IF i = 0 THEN Scanner ELSE Scan(g[i - 1], text[i])
    <3>1. i # 0 => i \in 1..n /\ i - 1 \in 0..n
      OBVIOUS
    <3>2. g[i] = f[i] /\ (i # 0 => g[i - 1] = f[i - 1])
      BY <3>1
    <3> HIDE DEF g
    <3>3. QED
      BY <1>1, <3>1, <3>2
  <2>2. g = [i \in 0..n |-> g[i]]
    OBVIOUS
  <2> HIDE DEF g
  <2>3. g = [i \in 0..n |-> IF i = 0 THEN Scanner ELSE Scan(g[i - 1], text[i])]
    BY <2>1, <2>2
  <2>4. QED
    BY <2>3
<1>3. PICK g : /\ g = [i \in 0..n |-> IF i = 0 THEN Scanner ELSE Scan(g[i - 1], text[i])]
               /\ Scanned(text) = g[n]
  BY <1>2 DEF Scanned
<1>4. g[0] = Scanner /\ \A i \in 1..n : g[i] = Scan(g[i - 1], text[i])
  <2>1. 0 \in 0..n /\ \A i \in 1..n : i \in 0..n /\ i # 0
    OBVIOUS
  <2>2. QED
    BY <1>3, <2>1
<1> DEFINE R == {k \in Nat : k <= n => g[k] = f[k]}
<1>5. 0 \in R
  BY <1>1, <1>4
<1>6. ASSUME NEW k \in Nat, k \in R
      PROVE  k + 1 \in R
  <2>1. SUFFICES ASSUME k + 1 <= n
                 PROVE  g[k + 1] = f[k + 1]
    OBVIOUS
  <2>2. k + 1 \in 1..n /\ (k + 1) - 1 = k /\ g[k] = f[k]
    BY <1>6, <2>1
  <2>3. QED
    BY <1>1, <1>4, <2>2
<1> HIDE DEF R
<1>7. n \in R
  BY <1>5, <1>6, Induction
<1>8. QED
  BY <1>1, <1>3, <1>7 DEF R

\* Of six characters, which is what the longest escape has.
LEMMA ScansSix ==
    ASSUME NEW s, NEW a, NEW b, NEW c, NEW d, NEW e, NEW g, NEW s1, NEW s2, NEW s3,
           NEW s4, NEW s5, NEW s6,
           s1 = Scan(s, a), s2 = Scan(s1, b), s3 = Scan(s2, c),
           s4 = Scan(s3, d), s5 = Scan(s4, e), s6 = Scan(s5, g)
    PROVE  Scans(s, <<a, b, c, d, e, g>>, s6)
<1> DEFINE f == [i \in 0..6 |-> IF i = 0 THEN s ELSE IF i = 1 THEN s1 ELSE
                   IF i = 2 THEN s2 ELSE IF i = 3 THEN s3 ELSE IF i = 4 THEN s4 ELSE
                   IF i = 5 THEN s5 ELSE s6]
           text == <<a, b, c, d, e, g>>
<1>1. /\ f[0] = s /\ f[1] = s1 /\ f[2] = s2 /\ f[3] = s3 /\ f[4] = s4
      /\ f[5] = s5 /\ f[6] = s6
  OBVIOUS
<1>2. /\ Len(text) = 6
      /\ text[1] = a /\ text[2] = b /\ text[3] = c /\ text[4] = d /\ text[5] = e
      /\ text[6] = g
  OBVIOUS
<1> HIDE DEF f, text
<1>3. ASSUME NEW i \in 1..6
      PROVE  f[i] = Scan(f[i - 1], text[i])
  <2>1. i = 1 \/ i = 2 \/ i = 3 \/ i = 4 \/ i = 5 \/ i = 6
    OBVIOUS
  <2>2. 1 - 1 = 0 /\ 2 - 1 = 1 /\ 3 - 1 = 2 /\ 4 - 1 = 3 /\ 5 - 1 = 4 /\ 6 - 1 = 5
    OBVIOUS
  <2>3. QED
    BY <1>1, <1>2, <2>1, <2>2
<1>4. Scans(s, text, s6)
  BY <1>1, <1>2, <1>3 DEF Scans
<1>5. QED
  BY <1>4 DEF text

\* Of two characters.
LEMMA ScansTwo ==
    ASSUME NEW s, NEW a, NEW b
    PROVE  Scans(s, <<a, b>>, Scan(Scan(s, a), b))
<1> DEFINE f == [i \in 0..2 |-> IF i = 0 THEN s ELSE IF i = 1 THEN Scan(s, a)
                                ELSE Scan(Scan(s, a), b)]
           text == <<a, b>>
<1>1. f[0] = s /\ f[1] = Scan(s, a) /\ f[2] = Scan(Scan(s, a), b)
  OBVIOUS
<1>2. Len(text) = 2 /\ text[1] = a /\ text[2] = b
  OBVIOUS
<1> HIDE DEF f, text
<1>3. ASSUME NEW i \in 1..2
      PROVE  f[i] = Scan(f[i - 1], text[i])
  <2>1. i = 1 \/ i = 2
    OBVIOUS
  <2>2. 1 - 1 = 0 /\ 2 - 1 = 1
    OBVIOUS
  <2>3. QED
    BY <1>1, <1>2, <2>1, <2>2
<1>4. Scans(s, text, Scan(Scan(s, a), b))
  BY <1>1, <1>2, <1>3 DEF Scans
<1>5. QED
  BY <1>4 DEF text

\* A text is its beginnings, one longer than the other.
LEMMA Beginnings ==
    ASSUME NEW S, NEW text \in Seq(S)
    PROVE  /\ SubSeq(text, 1, 0) = <<>>
           /\ SubSeq(text, 1, Len(text)) = text
           /\ \A i \in 1..Len(text) :
                 /\ SubSeq(text, 1, i) = Append(SubSeq(text, 1, i - 1), text[i])
                 /\ SubSeq(text, 1, i) \in Seq(S)
                 /\ SubSeq(text, 1, i - 1) \in Seq(S)
                 /\ text[i] \in S
<1>1. SubSeq(text, 1, 0) = <<>>
  BY SubSeqEmpty
<1>2. SubSeq(text, 1, Len(text)) = text
  BY SubSeqFull
<1>3. ASSUME NEW i \in 1..Len(text)
      PROVE  /\ SubSeq(text, 1, i) = Append(SubSeq(text, 1, i - 1), text[i])
             /\ SubSeq(text, 1, i) \in Seq(S) /\ SubSeq(text, 1, i - 1) \in Seq(S)
             /\ text[i] \in S
  <2>1. Len(text) \in Nat /\ \A j \in 1..Len(text) : text[j] \in S
    BY LenProperties, ElementOfSeq
  <2>2. /\ 1 \in Int /\ i \in Int /\ i - 1 \in Int
        /\ \A j \in 1..i : text[j] \in S
        /\ \A j \in 1..(i - 1) : text[j] \in S
    BY <2>1
  <2>3. SubSeq(text, 1, i) \in Seq(S) /\ SubSeq(text, 1, i - 1) \in Seq(S)
    BY <2>2, SubSeqProperties
  <2>4. SubSeq(text, 1, i) = SubSeq(text, 1, i - 1) \o <<text[i]>>
    <3>1. 1 \in 1..Len(text) /\ i \in 1..Len(text)
      BY <2>1
    <3>2. QED
      BY <3>1, SubSeqRecursiveSecond
  <2>5. \A t \in Seq(S), c \in S : Append(t, c) = t \o <<c>>
    BY AppendIsConcat
  <2>6. QED
    BY <2>1, <2>3, <2>4, <2>5
<1>4. QED
  BY <1>1, <1>2, <1>3

-----------------------------------------------------------------------------
(* The inside of a string.                                                 *)

\* The scanner after the tokens ts, with what it has taken of the next one.
At(mode, text, code, ts) == [mode |-> mode, text |-> text, code |-> code, tokens |-> ts]
InString(text, ts) == At("string", text, <<>>, ts)

\* The fields of a scanner.
LEMMA AtHas ==
    ASSUME NEW m, NEW t, NEW k, NEW ts
    PROVE  /\ At(m, t, k, ts).mode = m /\ At(m, t, k, ts).text = t
           /\ At(m, t, k, ts).code = k /\ At(m, t, k, ts).tokens = ts
  BY DEF At

\* What Takes() makes of a scanner.
LEMMA TakesIs ==
    ASSUME NEW m, NEW t, NEW k, NEW ts, NEW x, NEW c
    PROVE  Takes(At(m, t, k, ts), x, c) = At(x, Append(t, c), <<>>, ts)
<1> DEFINE s == At(m, t, k, ts)
<1>1. Takes(s, x, c) =
         [[[s EXCEPT !.mode = x] EXCEPT !.text = Append(s.text, c)] EXCEPT !.code = <<>>]
  BY DEF Takes
<1>2. s.text = t
  BY AtHas
<1> DEFINE more == Append(t, c)
           none == <<>>
<1>3. Takes(s, x, c) = [[[s EXCEPT !.mode = x] EXCEPT !.text = more] EXCEPT !.code = none]
  BY <1>1, <1>2, Zenon
<1> HIDE DEF more, none
<1>4. [s EXCEPT !.mode = x] = At(x, t, k, ts)
  BY DEF At
<1>5. [At(x, t, k, ts) EXCEPT !.text = more] = At(x, more, k, ts)
  BY DEF At
<1>6. [At(x, more, k, ts) EXCEPT !.code = none] = At(x, more, none, ts)
  BY DEF At
<1> HIDE DEF s
<1>7. Takes(s, x, c) = At(x, more, none, ts)
  BY <1>3, <1>4, <1>5, <1>6, Zenon
<1>8. QED
  BY <1>7 DEF more, none, s

\* What Emits() makes of a scanner.
LEMMA EmitsIs ==
    ASSUME NEW m, NEW t, NEW k, NEW ts, NEW kind, NEW text
    PROVE  Emits(At(m, t, k, ts), kind, text) =
              At("between", <<>>, k, Append(ts, Token(kind, text)))
<1> DEFINE s == At(m, t, k, ts)
<1>1. Emits(s, kind, text) =
         [[[s EXCEPT !.mode = "between"] EXCEPT !.text = <<>>]
             EXCEPT !.tokens = Append(s.tokens, Token(kind, text))]
  BY DEF Emits
<1>2. s.tokens = ts
  BY AtHas
<1> DEFINE between == "between"
           none == <<>>
           more == Append(ts, Token(kind, text))
<1>3. Emits(s, kind, text) =
         [[[s EXCEPT !.mode = between] EXCEPT !.text = none] EXCEPT !.tokens = more]
  BY <1>1, <1>2, Zenon
<1> HIDE DEF between, none, more
<1>4. [s EXCEPT !.mode = between] = At(between, t, k, ts)
  BY DEF At
<1>5. [At(between, t, k, ts) EXCEPT !.text = none] = At(between, none, k, ts)
  BY DEF At
<1>6. [At(between, none, k, ts) EXCEPT !.tokens = more] = At(between, none, k, more)
  BY DEF At
<1> HIDE DEF s
<1>7. Emits(s, kind, text) = At(between, none, k, more)
  BY <1>3, <1>4, <1>5, <1>6, Zenon
<1>8. QED
  BY <1>7 DEF between, none, more, s

\* Short texts, character after character.
LEMMA Appending ==
    ASSUME NEW a, NEW b, NEW c, NEW d
    PROVE  /\ Append(<<>>, a) = <<a>> /\ Append(<<a>>, b) = <<a, b>>
           /\ Append(<<a, b>>, c) = <<a, b, c>>
           /\ Append(<<a, b, c>>, d) = <<a, b, c, d>>
<1> DEFINE S == {a, b, c, d}
<1>1. a \in S /\ b \in S /\ c \in S /\ d \in S
  OBVIOUS
<1>2. ASSUME NEW s \in Seq(S), NEW t \in Seq(S), NEW e \in S,
             Len(t) = Len(s) + 1, \A i \in 1..Len(s) : t[i] = s[i], t[Len(s) + 1] = e
      PROVE  Append(s, e) = t
  <2> HIDE DEF S
  <2>1. /\ Append(s, e) \in Seq(S) /\ Len(Append(s, e)) = Len(t)
        /\ \A i \in 1..Len(s) : Append(s, e)[i] = t[i]
        /\ Append(s, e)[Len(s) + 1] = t[Len(s) + 1] /\ Len(s) \in Nat
    BY <1>2, AppendProperties, LenProperties
  <2>2. \A i \in 1..Len(t) : Append(s, e)[i] = t[i]
    BY <1>2, <2>1
  <2>3. QED
    BY <2>1, <2>2, SeqEqual
<1>3. /\ <<>> \in Seq(S) /\ <<a>> \in Seq(S) /\ <<a, b>> \in Seq(S)
      /\ <<a, b, c>> \in Seq(S) /\ <<a, b, c, d>> \in Seq(S)
  BY <1>1
<1> HIDE DEF S
<1>4. Append(<<>>, a) = <<a>>
  BY <1>1, <1>2, <1>3
<1>5. Append(<<a>>, b) = <<a, b>>
  <2> DEFINE s == <<a>>
             t == <<a, b>>
  <2>1. /\ s \in Seq(S) /\ t \in Seq(S) /\ Len(t) = Len(s) + 1
        /\ \A i \in 1..Len(s) : t[i] = s[i]
        /\ t[Len(s) + 1] = b
    BY <1>3
  <2> HIDE DEF s, t
  <2>2. Append(s, b) = t
    BY <1>1, <1>2, <2>1
  <2>3. QED
    BY <2>2 DEF s, t
<1>6. Append(<<a, b>>, c) = <<a, b, c>>
  <2> DEFINE s == <<a, b>>
             t == <<a, b, c>>
  <2>1. /\ s \in Seq(S) /\ t \in Seq(S) /\ Len(t) = Len(s) + 1
        /\ \A i \in 1..Len(s) : t[i] = s[i]
        /\ t[Len(s) + 1] = c
    BY <1>3
  <2> HIDE DEF s, t
  <2>2. Append(s, c) = t
    BY <1>1, <1>2, <2>1
  <2>3. QED
    BY <2>2 DEF s, t
<1>7. Append(<<a, b, c>>, d) = <<a, b, c, d>>
  <2> DEFINE s == <<a, b, c>>
             t == <<a, b, c, d>>
  <2>1. /\ s \in Seq(S) /\ t \in Seq(S) /\ Len(t) = Len(s) + 1
        /\ \A i \in 1..Len(s) : t[i] = s[i]
        /\ t[Len(s) + 1] = d
    BY <1>3
  <2> HIDE DEF s, t
  <2>2. Append(s, d) = t
    BY <1>1, <1>2, <2>1
  <2>3. QED
    BY <2>2 DEF s, t
<1>8. QED
  BY <1>4, <1>5, <1>6, <1>7

\* The characters that mean something, by their codes.
LEMMA Codes ==
    /\ Quote = 34 /\ Comma = 44 /\ Minus = 45 /\ Colon = 58 /\ OpenBracket = 91
    /\ Backslash = 92 /\ CloseBracket = 93 /\ OpenBrace = 123 /\ CloseBrace = 125
    /\ Space = 32 /\ Zero = 48 /\ LetterU = 117 /\ Digits = 48..57
    /\ Punctuation = {44, 58, 91, 93, 123, 125}
  BY DEF Quote, Comma, Minus, Colon, OpenBracket, Backslash, CloseBracket, OpenBrace,
     CloseBrace, Space, Zero, LetterU, Digits, Punctuation

\* The characters that a reader takes for themselves inside a string.
Verbatim == {c \in Byte : c >= Space /\ c # Quote /\ c # Backslash}

\* A character that stands for itself is taken as it is.
LEMMA VerbatimStep ==
    ASSUME NEW text, NEW ts, NEW c \in Verbatim
    PROVE  Scan(InString(text, ts), c) = InString(Append(text, c), ts)
<1>1. c # Quote /\ c # Backslash /\ ~ (c < Space \/ IsKey(c))
  BY Codes DEF Verbatim, Byte, IsKey
<1>2. InString(text, ts).mode = "string"
  BY DEF InString, At
<1>3. Scan(InString(text, ts), c) = Takes(InString(text, ts), "string", c)
  BY <1>1, <1>2 DEF Scan
<1>4. Takes(InString(text, ts), "string", c) = InString(Append(text, c), ts)
  BY TakesIs DEF InString
<1>5. QED
  BY <1>3, <1>4

\* The escapes that the reader knows.
LEMMA Letters ==
    /\ DOMAIN Unescaped = {34, 92, 47, 98, 116, 110, 102, 114}
    /\ Unescaped[34] = 34 /\ Unescaped[92] = 92
    /\ \A c \in DOMAIN ShortEscape :
          ShortEscape[c] \in DOMAIN Unescaped /\ Unescaped[ShortEscape[c]] = c
<1>1. DOMAIN Unescaped = {34, 92, 47, 98, 116, 110, 102, 114}
  BY Codes DEF Unescaped
<1>2. /\ Unescaped[34] = 34 /\ Unescaped[92] = 92 /\ Unescaped[98] = 8
      /\ Unescaped[116] = 9 /\ Unescaped[110] = 10 /\ Unescaped[102] = 12
      /\ Unescaped[114] = 13
  BY Codes DEF Unescaped
<1>3. /\ DOMAIN ShortEscape = {8, 9, 10, 12, 13}
      /\ ShortEscape[8] = 98 /\ ShortEscape[9] = 116 /\ ShortEscape[10] = 110
      /\ ShortEscape[12] = 102 /\ ShortEscape[13] = 114
  BY DEF ShortEscape
<1>4. QED
  BY <1>1, <1>2, <1>3

\* A backslash and a letter stand for one character.
LEMMA EscapeSteps ==
    ASSUME NEW text, NEW ts, NEW c \in DOMAIN Unescaped
    PROVE  Scan(Scan(InString(text, ts), Backslash), c) =
              InString(Append(text, Unescaped[c]), ts)
<1>1. Scan(InString(text, ts), Backslash) = At("escape", text, <<>>, ts)
  <2>1. InString(text, ts).mode = "string" /\ Backslash # Quote
    BY Codes, AtHas DEF InString
  <2>2. Scan(InString(text, ts), Backslash) =
           [InString(text, ts) EXCEPT !.mode = "escape"]
    BY <2>1, Codes DEF Scan, IsKey
  <2>3. QED
    BY <2>2 DEF InString, At
<1>2. At("escape", text, <<>>, ts).mode = "escape"
  BY DEF At
<1>3. Scan(At("escape", text, <<>>, ts), c) =
         Takes(At("escape", text, <<>>, ts), "string", Unescaped[c])
  <2>1. c # LetterU
    BY Codes, Letters
  <2>2. QED
    BY <1>2, <2>1 DEF Scan
<1>4. QED
  BY <1>1, <1>3, TakesIs DEF InString

\* The digits of a byte, in either case, and their values.
LEMMA HexDigits ==
    ASSUME NEW n \in 0..15
    PROVE  /\ IsHex(LowerHex(n)) /\ HexValue(LowerHex(n)) = n
           /\ HexValue(UpperHex(n)) = n /\ UpperHex(n) \in Verbatim
  BY Codes DEF IsHex, LowerHex, UpperHex, HexValue, Verbatim, Byte

\* \u and four digits stand for one character.
LEMMA CodeSteps ==
    ASSUME NEW text, NEW ts, NEW c \in 0..31
    PROVE  Scans(InString(text, ts),
                 <<Backslash, LetterU, Zero, Zero, LowerHex(c \div 16), LowerHex(c % 16)>>,
                 InString(Append(text, c), ts))
<1> DEFINE hi == LowerHex(c \div 16)
           lo == LowerHex(c % 16)
<1>1. /\ c \div 16 \in 0..15 /\ (c % 16) \in 0..15
      /\ c = 16 * (c \div 16) + (c % 16)
  <2>1. c \in Byte
    BY DEF Byte
  <2>2. c = 16 * (c \div 16) + (c % 16)
    OBVIOUS
  <2>3. QED
    BY <2>1, <2>2, Nibbles
<1>2. IsHex(hi) /\ IsHex(lo) /\ HexValue(hi) = c \div 16 /\ HexValue(lo) = c % 16
  BY <1>1, HexDigits
<1>3. IsHex(Zero) /\ HexValue(Zero) = 0 /\ LetterU \notin DOMAIN Unescaped
  BY Codes, Letters DEF IsHex, HexValue
<1> HIDE DEF hi, lo
<1>4. Scan(InString(text, ts), Backslash) = At("escape", text, <<>>, ts)
  <2>1. InString(text, ts).mode = "string" /\ Backslash # Quote
    BY Codes, AtHas DEF InString
  <2>2. Scan(InString(text, ts), Backslash) =
           [InString(text, ts) EXCEPT !.mode = "escape"]
    BY <2>1, Codes DEF Scan, IsKey
  <2>3. QED
    BY <2>2 DEF InString, At
<1>5. Scan(At("escape", text, <<>>, ts), LetterU) = At("code", text, <<>>, ts)
  <2>1. At("escape", text, <<>>, ts).mode = "escape"
    BY DEF At
  <2>2. Scan(At("escape", text, <<>>, ts), LetterU) =
           [At("escape", text, <<>>, ts) EXCEPT !.mode = "code"]
    BY <1>3, <2>1 DEF Scan
  <2>3. QED
    BY <2>2 DEF At
<1>6. ASSUME NEW d, IsHex(d), NEW code, Len(code) < 3
      PROVE  Scan(At("code", text, code, ts), d) = At("code", text, Append(code, d), ts)
  <2>1. At("code", text, code, ts).mode = "code" /\ At("code", text, code, ts).code = code
    BY DEF At
  <2>2. Scan(At("code", text, code, ts), d) =
           [At("code", text, code, ts) EXCEPT !.code = Append(@, d)]
    BY <1>6, <2>1 DEF Scan
  <2>3. QED
    BY <2>2 DEF At
<1>7. /\ Len(<<>>) < 3 /\ Len(<<Zero>>) < 3 /\ Len(<<Zero, Zero>>) < 3
      /\ Append(<<>>, Zero) = <<Zero>> /\ Append(<<Zero>>, Zero) = <<Zero, Zero>>
      /\ Append(<<Zero, Zero>>, hi) = <<Zero, Zero, hi>>
      /\ Append(<<Zero, Zero, hi>>, lo) = <<Zero, Zero, hi, lo>>
      /\ ~ (Len(<<Zero, Zero, hi>>) < 3)
  <2>1. /\ Len(<<>>) < 3 /\ Len(<<Zero>>) < 3 /\ Len(<<Zero, Zero>>) < 3
        /\ ~ (Len(<<Zero, Zero, hi>>) < 3)
    OBVIOUS
  <2>2. QED
    BY <2>1, Appending
<1>8. CodeOf(<<Zero, Zero, hi, lo>>) = c
  BY <1>1, <1>2, <1>3 DEF CodeOf
<1>9. Scan(At("code", text, <<Zero, Zero, hi>>, ts), lo) = InString(Append(text, c), ts)
  <2> DEFINE s == At("code", text, <<Zero, Zero, hi>>, ts)
  <2>1. s.mode = "code" /\ s.code = <<Zero, Zero, hi>>
    BY DEF At
  <2>2. Scan(s, lo) = Takes(s, "string", CodeOf(Append(s.code, lo)))
    BY <1>2, <1>7, <2>1 DEF Scan
  <2>3. Scan(s, lo) = Takes(s, "string", c)
    BY <1>7, <1>8, <2>1, <2>2
  <2>4. QED
    BY <2>3, TakesIs DEF InString
<1>10. /\ Scan(At("code", text, <<>>, ts), Zero) = At("code", text, <<Zero>>, ts)
       /\ Scan(At("code", text, <<Zero>>, ts), Zero) = At("code", text, <<Zero, Zero>>, ts)
       /\ Scan(At("code", text, <<Zero, Zero>>, ts), hi) =
             At("code", text, <<Zero, Zero, hi>>, ts)
  BY <1>2, <1>3, <1>6, <1>7
<1>11. Scans(InString(text, ts), <<Backslash, LetterU, Zero, Zero, hi, lo>>,
             InString(Append(text, c), ts))
  BY <1>4, <1>5, <1>9, <1>10, ScansSix
<1>12. QED
  BY <1>11 DEF hi, lo

\* What json_append_quoted() makes of a character, a reader takes for it.
LEMMA EscapedIsRead ==
    ASSUME NEW text, NEW ts, NEW c \in Byte
    PROVE  Scans(InString(text, ts), Escaped(c), InString(Append(text, c), ts))
<1>1. CASE c \in {Quote, Backslash}
  <2>1. Escaped(c) = <<Backslash, c>> /\ c \in DOMAIN Unescaped /\ Unescaped[c] = c
    BY <1>1, Codes, Letters DEF Escaped
  <2>2. QED
    BY <2>1, EscapeSteps, ScansTwo
<1>2. CASE c \notin {Quote, Backslash} /\ c >= Space
  <2>1. Escaped(c) = <<c>> /\ c \in Verbatim
    BY <1>2 DEF Escaped, Verbatim
  <2>2. QED
    BY <2>1, VerbatimStep, ScansOne
<1>3. CASE ~ (c >= Space) /\ c \notin {Quote, Backslash} /\ c \in DOMAIN ShortEscape
  <2>1. Escaped(c) = <<Backslash, ShortEscape[c]>>
    BY <1>3 DEF Escaped
  <2>2. ShortEscape[c] \in DOMAIN Unescaped /\ Unescaped[ShortEscape[c]] = c
    BY <1>3, Letters
  <2>3. QED
    BY <2>1, <2>2, EscapeSteps, ScansTwo
<1>4. CASE ~ (c >= Space) /\ c \notin {Quote, Backslash} /\ c \notin DOMAIN ShortEscape
  <2>1. Escaped(c) = <<Backslash, LetterU, Zero, Zero,
                       LowerHex(c \div 16), LowerHex(c % 16)>>
    BY <1>4 DEF Escaped
  <2>2. c \in 0..31
    BY <1>4, Codes DEF Byte
  <2>3. QED
    BY <2>1, <2>2, CodeSteps
<1>5. QED
  BY <1>1, <1>2, <1>3, <1>4

\* A text that is flattened is scanned as its pieces are.
LEMMA FlattenScans ==
    ASSUME NEW S, NEW seqs \in Seq(Seq(S)), NEW st,
           \A k \in 1..Len(seqs) : Scans(st[k - 1], seqs[k], st[k])
    PROVE  Scans(st[0], FlattenSeq(seqs), st[Len(seqs)])
<1> DEFINE n == Len(seqs)
<1>1. n \in Nat /\ \A i \in 1..n : seqs[i] \in Seq(S)
  BY LenProperties, ElementOfSeq
<1>2. PICK g : /\ g[0] = <<>>
               /\ \A k \in 1..n : g[k] = g[k - 1] \o seqs[k]
               /\ \A k \in 0..n : g[k] \in Seq(S)
               /\ FlattenSeq(seqs) = g[n]
  BY FlattenSteps
<1> DEFINE R == {k \in Nat : k <= n => Scans(st[0], g[k], st[k])}
<1>3. 0 \in R
  BY <1>2, ScansNothing
<1>4. ASSUME NEW k \in Nat, k \in R
      PROVE  k + 1 \in R
  <2>1. SUFFICES ASSUME k + 1 <= n
                 PROVE  Scans(st[0], g[k + 1], st[k + 1])
    OBVIOUS
  <2>2. k + 1 \in 1..n /\ (k + 1) - 1 = k /\ k \in 0..n /\ Scans(st[0], g[k], st[k])
    BY <1>1, <1>4, <2>1
  <2>3. Scans(st[k], seqs[k + 1], st[k + 1]) /\ g[k + 1] = g[k] \o seqs[k + 1]
    BY <1>2, <2>2
  <2>4. g[k] \in Seq(S) /\ seqs[k + 1] \in Seq(S)
    BY <1>1, <1>2, <2>2
  <2>5. QED
    BY <2>2, <2>3, <2>4, ScansJoined
<1> HIDE DEF R
<1>5. n \in R
  BY <1>1, <1>3, <1>4, Induction
<1>6. QED
  BY <1>1, <1>2, <1>5 DEF R

\* The escapes of a text are read for the text.
LEMMA EscapesAreRead ==
    ASSUME NEW text \in Seq(Byte), NEW ts
    PROVE  Scans(InString(<<>>, ts), FlattenSeq([i \in DOMAIN text |-> Escaped(text[i])]),
                 InString(text, ts))
<1> DEFINE n == Len(text)
           escapes == [i \in DOMAIN text |-> Escaped(text[i])]
           st == [i \in 0..n |-> InString(SubSeq(text, 1, i), ts)]
<1>1. n \in Nat /\ DOMAIN text = 1..n /\ \A i \in 1..n : text[i] \in Byte
  BY LenProperties, ElementOfSeq
<1>2. /\ DOMAIN escapes = DOMAIN text /\ escapes = [i \in DOMAIN escapes |-> escapes[i]]
      /\ \A i \in DOMAIN text : escapes[i] = Escaped(text[i])
  OBVIOUS
<1>3. \A i \in DOMAIN text : escapes[i] \in Seq(Plain)
  BY <1>1, <1>2, EscapeHasItsLength
<1> HIDE DEF escapes
<1>4. escapes \in Seq(Seq(Plain)) /\ Len(escapes) = n
  BY <1>2, <1>3, Mapped
<1>5. \A i \in 0..n : st[i] = InString(SubSeq(text, 1, i), ts)
  OBVIOUS
<1> HIDE DEF st
<1>6. ASSUME NEW k \in 1..n
      PROVE  Scans(st[k - 1], escapes[k], st[k])
  <2>1. k - 1 \in 0..n /\ k \in 0..n
    BY <1>1
  <2>2. SubSeq(text, 1, k) = Append(SubSeq(text, 1, k - 1), text[k])
    BY Beginnings
  <2>3. Scans(InString(SubSeq(text, 1, k - 1), ts), Escaped(text[k]),
              InString(Append(SubSeq(text, 1, k - 1), text[k]), ts))
    BY <1>1, EscapedIsRead
  <2>4. QED
    BY <1>1, <1>2, <1>5, <2>1, <2>2, <2>3
<1>7. st[0] = InString(<<>>, ts) /\ st[n] = InString(text, ts)
  <2>1. 0 \in 0..n /\ n \in 0..n
    BY <1>1
  <2>2. SubSeq(text, 1, 0) = <<>> /\ SubSeq(text, 1, n) = text
    BY Beginnings
  <2>3. QED
    BY <1>5, <2>1, <2>2
<1> HIDE DEF n
<1>8. Scans(st[0], FlattenSeq(escapes), st[n])
  BY <1>4, <1>6, FlattenScans
<1>9. QED
  BY <1>7, <1>8 DEF escapes

\* A text of characters that stand for themselves is read as it is.
LEMMA VerbatimIsRead ==
    ASSUME NEW text \in Seq(Verbatim), NEW ts
    PROVE  Scans(InString(<<>>, ts), text, InString(text, ts))
<1> DEFINE n == Len(text)
           st == [i \in 0..n |-> InString(SubSeq(text, 1, i), ts)]
<1>1. n \in Nat /\ \A i \in 1..n : text[i] \in Verbatim
  BY LenProperties, ElementOfSeq
<1>2. \A i \in 0..n : st[i] = InString(SubSeq(text, 1, i), ts)
  OBVIOUS
<1> HIDE DEF st
<1>3. ASSUME NEW k \in 1..n
      PROVE  st[k] = Scan(st[k - 1], text[k])
  <2>1. k - 1 \in 0..n /\ k \in 0..n
    BY <1>1
  <2>2. SubSeq(text, 1, k) = Append(SubSeq(text, 1, k - 1), text[k])
    BY Beginnings
  <2>3. Scan(InString(SubSeq(text, 1, k - 1), ts), text[k]) =
           InString(Append(SubSeq(text, 1, k - 1), text[k]), ts)
    BY <1>1, VerbatimStep
  <2>4. QED
    BY <1>2, <2>1, <2>2, <2>3
<1>4. st[0] = InString(<<>>, ts) /\ st[n] = InString(text, ts)
  <2>1. 0 \in 0..n /\ n \in 0..n
    BY <1>1
  <2>2. SubSeq(text, 1, 0) = <<>> /\ SubSeq(text, 1, n) = text
    BY Beginnings
  <2>3. QED
    BY <1>2, <2>1, <2>2
<1>5. QED
  BY <1>3, <1>4 DEF Scans

-----------------------------------------------------------------------------
(* Tokens.                                                                 *)

\* The scanner between two tokens.
Ready(ts) == At("between", <<>>, <<>>, ts)

\* A string begins and ends with a quote.
LEMMA QuoteSteps ==
    ASSUME NEW text, NEW ts
    PROVE  /\ Scan(Ready(ts), Quote) = InString(<<>>, ts)
           /\ Scan(InString(text, ts), Quote) = Ready(Append(ts, Token("string", text)))
<1>1. Scan(Ready(ts), Quote) = InString(<<>>, ts)
  <2>1. Ready(ts).mode = "between"
    BY AtHas DEF Ready
  <2>2. Scan(Ready(ts), Quote) = Between(Ready(ts), Quote)
    BY <2>1 DEF Scan
  <2>3. Between(Ready(ts), Quote) = [Ready(ts) EXCEPT !.mode = "string"]
    BY Codes DEF Between, IsKey
  <2>4. [Ready(ts) EXCEPT !.mode = "string"] = InString(<<>>, ts)
    BY DEF Ready, InString, At
  <2>5. QED
    BY <2>2, <2>3, <2>4
<1>2. Scan(InString(text, ts), Quote) = Ready(Append(ts, Token("string", text)))
  <2>1. InString(text, ts).mode = "string" /\ InString(text, ts).text = text
    BY AtHas DEF InString
  <2>2. Scan(InString(text, ts), Quote) = Emits(InString(text, ts), "string", text)
    BY <2>1, Codes DEF Scan, IsKey
  <2>3. QED
    BY <2>2, EmitsIs DEF InString, Ready
<1>3. QED
  BY <1>1, <1>2

\* A text in quotes is one token, and the token is the text.
LEMMA QuotesAreRead ==
    ASSUME NEW S, NEW inner \in Seq(S), Quote \in S, NEW text, NEW ts,
           Scans(InString(<<>>, ts), inner, InString(text, ts))
    PROVE  Scans(Ready(ts), <<Quote>> \o inner \o <<Quote>>,
                 Ready(Append(ts, Token("string", text))))
<1>1. <<Quote>> \in Seq(S) /\ <<Quote>> \o inner \in Seq(S)
  BY Tuples, Joining
<1>2. Scans(Ready(ts), <<Quote>>, InString(<<>>, ts))
  BY QuoteSteps, ScansOne
<1>3. Scans(InString(text, ts), <<Quote>>, Ready(Append(ts, Token("string", text))))
  BY QuoteSteps, ScansOne
<1>4. Scans(Ready(ts), <<Quote>> \o inner, InString(text, ts))
  BY <1>1, <1>2, ScansJoined
<1>5. QED
  BY <1>1, <1>3, <1>4, ScansJoined

\* json_append_quoted() writes one string, whose content is the text.
LEMMA QuotedIsRead ==
    ASSUME NEW text \in Seq(Byte), NEW ts
    PROVE  Scans(Ready(ts), JsonQuoted(text), Ready(Append(ts, Token("string", text))))
<1> DEFINE escapes == [i \in DOMAIN text |-> Escaped(text[i])]
           inner == FlattenSeq(escapes)
<1>1. inner \in Seq(Plain)
  <2>1. /\ DOMAIN escapes = DOMAIN text /\ escapes = [i \in DOMAIN escapes |-> escapes[i]]
        /\ \A i \in DOMAIN text : escapes[i] = Escaped(text[i])
    OBVIOUS
  <2>2. \A i \in DOMAIN text : escapes[i] \in Seq(Plain)
    BY <2>1, EscapeHasItsLength, LenProperties, ElementOfSeq
  <2> HIDE DEF escapes
  <2>3. escapes \in Seq(Seq(Plain))
    BY <2>1, <2>2, Mapped
  <2>4. QED
    BY <2>3, Flattening
<1>2. Scans(InString(<<>>, ts), inner, InString(text, ts))
  BY EscapesAreRead
<1>3. JsonQuoted(text) = <<Quote>> \o inner \o <<Quote>>
  BY DEF JsonQuoted
<1> HIDE DEF inner
<1>4. QED
  BY <1>1, <1>2, <1>3, QuotesAreRead, MarksArePlain

\* Two digits to a byte, each in its place.
LEMMA HexPlaces ==
    ASSUME NEW bytes \in Seq(Byte)
    PROVE  /\ Hex(bytes) \in Seq(Verbatim) /\ Len(Hex(bytes)) = 2 * Len(bytes)
           /\ \A i \in 1..Len(bytes) :
                 /\ Hex(bytes)[2 * i - 1] = UpperHex(bytes[i] \div 16)
                 /\ Hex(bytes)[2 * i] = UpperHex(bytes[i] % 16)
<1> DEFINE n == Len(bytes)
           hi(i) == UpperHex(bytes[i] \div 16)
           lo(i) == UpperHex(bytes[i] % 16)
           pairs == [i \in DOMAIN bytes |-> <<hi(i), lo(i)>>]
<1>1. n \in Nat /\ DOMAIN bytes = 1..n /\ \A i \in 1..n : bytes[i] \in Byte
  BY LenProperties, ElementOfSeq
<1>2. \A i \in 1..n : hi(i) \in Verbatim /\ lo(i) \in Verbatim
  BY <1>1, Nibbles, HexDigits
<1>3. /\ DOMAIN pairs = DOMAIN bytes /\ pairs = [i \in DOMAIN pairs |-> pairs[i]]
      /\ \A i \in DOMAIN bytes : pairs[i] = <<hi(i), lo(i)>>
  OBVIOUS
<1>4. Hex(bytes) = FlattenSeq(pairs)
  BY DEF Hex
<1> HIDE DEF pairs, hi, lo
<1>5. ASSUME NEW i \in 1..n
      PROVE  /\ pairs[i] \in Seq(Verbatim) /\ Len(pairs[i]) = 2
             /\ pairs[i][1] = hi(i) /\ pairs[i][2] = lo(i)
  <2>1. \A a, b \in Verbatim : <<a, b>>[1] = a /\ <<a, b>>[2] = b
    OBVIOUS
  <2>2. pairs[i] = <<hi(i), lo(i)>> /\ hi(i) \in Verbatim /\ lo(i) \in Verbatim
    BY <1>1, <1>2, <1>3
  <2>3. /\ <<hi(i), lo(i)>> \in Seq(Verbatim) /\ Len(<<hi(i), lo(i)>>) = 2
        /\ <<hi(i), lo(i)>>[1] = hi(i) /\ <<hi(i), lo(i)>>[2] = lo(i)
    BY <2>1, <2>2, Tuples, Zenon
  <2>4. QED
    BY <2>2, <2>3, Zenon
<1>6. pairs \in Seq(Seq(Verbatim)) /\ Len(pairs) = n
  BY <1>1, <1>3, <1>5, Mapped
<1>7. PICK g : /\ g[0] = <<>>
               /\ \A k \in 1..Len(pairs) : g[k] = g[k - 1] \o pairs[k]
               /\ \A k \in 0..Len(pairs) : g[k] \in Seq(Verbatim)
               /\ FlattenSeq(pairs) = g[Len(pairs)]
  BY <1>6, FlattenSteps
<1> DEFINE Placed(k) == /\ Len(g[k]) = 2 * k
                        /\ \A i \in 1..k : g[k][2 * i - 1] = hi(i) /\ g[k][2 * i] = lo(i)
           R == {k \in Nat : k <= n => Placed(k)}
<1>8. Placed(0)
  BY <1>7
<1>9. ASSUME NEW k \in Nat, k + 1 <= n, Placed(k)
      PROVE  Placed(k + 1)
  <2>1. k + 1 \in 1..n /\ k \in 0..n /\ (k + 1) - 1 = k
    BY <1>1, <1>9
  <2>2. g[k + 1] = g[k] \o pairs[k + 1] /\ g[k] \in Seq(Verbatim)
    BY <1>6, <1>7, <2>1
  <2>3. /\ pairs[k + 1] \in Seq(Verbatim) /\ Len(pairs[k + 1]) = 2
        /\ pairs[k + 1][1] = hi(k + 1) /\ pairs[k + 1][2] = lo(k + 1)
    BY <1>5, <2>1
  <2>4. Len(g[k]) = 2 * k /\ 2 * k \in Nat
    BY <1>9
  <2>5. /\ Len(g[k + 1]) = 2 * k + 2
        /\ \A j \in 1..(2 * k + 2) :
              g[k + 1][j] = IF j <= 2 * k THEN g[k][j] ELSE pairs[k + 1][j - 2 * k]
    <3> DEFINE t == g[k]
               p == pairs[k + 1]
               m == 2 * k
    <3>1. t \in Seq(Verbatim) /\ p \in Seq(Verbatim) /\ Len(t) = m /\ Len(p) = 2
      BY <2>2, <2>3, <2>4
    <3>2. m \in Nat /\ g[k + 1] = t \o p
      BY <2>2, <2>4
    <3> HIDE DEF t, p, m
    <3>3. /\ Len(t \o p) = m + 2
          /\ \A j \in 1..(m + 2) : (t \o p)[j] = IF j <= m THEN t[j] ELSE p[j - m]
      <4>1. /\ Len(t \o p) = Len(t) + Len(p)
            /\ \A i \in 1 .. Len(t) + Len(p) :
                  (t \o p)[i] = IF i <= Len(t) THEN t[i] ELSE p[i - Len(t)]
        BY <3>1, ConcatProperties
      <4>2. QED
        BY <3>1, <4>1, Zenon
    <3>4. /\ Len(g[k + 1]) = m + 2
          /\ \A j \in 1..(m + 2) : g[k + 1][j] = IF j <= m THEN t[j] ELSE p[j - m]
      BY <3>2, <3>3
    <3>5. QED
      BY <3>4 DEF t, p, m
  <2>6. ASSUME NEW i \in 1..(k + 1)
        PROVE  g[k + 1][2 * i - 1] = hi(i) /\ g[k + 1][2 * i] = lo(i)
    <3>1. CASE i \in 1..k
      <4>1. /\ 2 * i - 1 \in 1..(2 * k + 2) /\ 2 * i - 1 <= 2 * k
            /\ 2 * i \in 1..(2 * k + 2) /\ 2 * i <= 2 * k
        BY <3>1
      <4>2. g[k + 1][2 * i - 1] = g[k][2 * i - 1] /\ g[k + 1][2 * i] = g[k][2 * i]
        BY <2>5, <4>1
      <4>3. QED
        BY <1>9, <3>1, <4>2
    <3>2. CASE i = k + 1
      <4>1. /\ 2 * i - 1 = 2 * k + 1 /\ 2 * i = 2 * k + 2
            /\ (2 * k + 1) - 2 * k = 1 /\ (2 * k + 2) - 2 * k = 2
            /\ 2 * k + 1 \in 1..(2 * k + 2) /\ 2 * k + 2 \in 1..(2 * k + 2)
            /\ ~ (2 * k + 1 <= 2 * k) /\ ~ (2 * k + 2 <= 2 * k)
        BY <3>2
      <4>2. g[k + 1][2 * k + 1] = pairs[k + 1][1] /\ g[k + 1][2 * k + 2] = pairs[k + 1][2]
        BY <2>5, <4>1
      <4>3. QED
        BY <2>3, <3>2, <4>1, <4>2
    <3>3. QED
      BY <3>1, <3>2
  <2>7. 2 * k + 2 = 2 * (k + 1)
    OBVIOUS
  <2>8. QED
    BY <2>5, <2>6, <2>7
<1> HIDE DEF Placed
<1>10. 0 \in R /\ \A k \in Nat : k \in R => k + 1 \in R
  BY <1>8, <1>9
<1> HIDE DEF R
<1>11. n \in R
  BY <1>1, <1>10, Induction
<1>12. Placed(n)
  BY <1>1, <1>11 DEF R
<1>13. Hex(bytes) = g[n] /\ g[n] \in Seq(Verbatim)
  BY <1>1, <1>4, <1>6, <1>7
<1>14. QED
  BY <1>12, <1>13 DEF Placed, hi, lo

\* The server takes a payload for the bytes that its digits stand for.
LEMMA HexIsUnderstood ==
    ASSUME NEW bytes \in Seq(Byte)
    PROVE  Unhex(Hex(bytes)) = bytes
<1> DEFINE n == Len(bytes)
           text == Hex(bytes)
<1>1. n \in Nat /\ DOMAIN bytes = 1..n /\ \A i \in 1..n : bytes[i] \in Byte
  BY LenProperties, ElementOfSeq
<1>2. Len(text) = 2 * n
  BY HexPlaces
<1> HIDE DEF text
<1>3. Len(text) \div 2 = n
  <2>1. \A k \in Nat : (2 * k) \div 2 = k
    OBVIOUS
  <2>2. QED
    BY <1>1, <1>2, <2>1, Zenon
<1>4. ASSUME NEW i \in 1..n
      PROVE  16 * HexValue(text[2 * i - 1]) + HexValue(text[2 * i]) = bytes[i]
  <2>1. bytes[i] \in Byte
    BY <1>1
  <2>2. /\ HexValue(text[2 * i - 1]) = bytes[i] \div 16
        /\ HexValue(text[2 * i]) = bytes[i] % 16
    BY <2>1, HexPlaces, Nibbles, HexDigits DEF text
  <2>3. \A b \in 0..255 : b = 16 * (b \div 16) + (b % 16)
    OBVIOUS
  <2>4. bytes[i] = 16 * (bytes[i] \div 16) + (bytes[i] % 16)
    BY <2>1, <2>3, Zenon DEF Byte
  <2>5. QED
    BY <2>2, <2>4
<1>5. bytes = [i \in 1..n |-> bytes[i]]
  <2>1. bytes \in [1..n -> Byte]
    BY <1>1, LenProperties, SeqDef
  <2>2. QED
    BY <2>1
<1>6. Unhex(text) = [i \in 1..n |-> bytes[i]]
  BY <1>3, <1>4 DEF Unhex
<1>7. QED
  BY <1>5, <1>6 DEF text

\* A payload between quotes is one token of digits.
LEMMA PayloadIsRead ==
    ASSUME NEW bytes \in Seq(Byte), NEW ts
    PROVE  Scans(Ready(ts), <<Quote>> \o Hex(bytes) \o <<Quote>>,
                 Ready(Append(ts, Token("string", Hex(bytes)))))
<1>1. Hex(bytes) \in Seq(Verbatim) /\ Hex(bytes) \in Seq(Plain)
  BY HexPlaces, HexHasItsLength
<1>2. Scans(InString(<<>>, ts), Hex(bytes), InString(Hex(bytes), ts))
  BY <1>1, VerbatimIsRead
<1>3. QED
  BY <1>1, <1>2, MarksArePlain, QuotesAreRead

-----------------------------------------------------------------------------
(* Numbers.                                                                *)

\* Two loops that start alike and keep alike end alike.
LEMMA StepByStep ==
    ASSUME NEW f, NEW g, NEW n \in Nat, f[0] = g[0],
           \A k \in 1..n : f[k - 1] = g[k - 1] => f[k] = g[k]
    PROVE  f[n] = g[n]
<1> DEFINE R == {k \in Nat : k <= n => f[k] = g[k]}
<1>1. 0 \in R
  OBVIOUS
<1>2. ASSUME NEW k \in Nat, k \in R
      PROVE  k + 1 \in R
  <2>1. SUFFICES ASSUME k + 1 <= n
                 PROVE  f[k + 1] = g[k + 1]
    OBVIOUS
  <2>2. k + 1 \in 1..n /\ (k + 1) - 1 = k /\ f[k] = g[k]
    BY <1>2, <2>1
  <2>3. QED
    BY <2>2
<1> HIDE DEF R
<1>3. n \in R
  BY <1>1, <1>2, Induction
<1>4. QED
  BY <1>3 DEF R

\* The function that Magnitude() is defined by exists.
LEMMA MagnitudeExists ==
    ASSUME NEW ds
    PROVE  \A n \in Nat : \E f :
              f = [i \in 0..n |-> IF i = 0 THEN 0 ELSE 10 * f[i - 1] + HexValue(ds[i])]
<1> DEFINE Good(n) == \E f :
              f = [i \in 0..n |-> IF i = 0 THEN 0 ELSE 10 * f[i - 1] + HexValue(ds[i])]
           S == {n \in Nat : Good(n)}
<1>1. Good(0)
  <2> DEFINE f == [i \in 0..0 |-> 0]
  <2>1. \A i \in 0..0 : i = 0
    OBVIOUS
  <2>2. f = [i \in 0..0 |-> IF i = 0 THEN 0 ELSE 10 * f[i - 1] + HexValue(ds[i])]
    BY <2>1
  <2>3. QED
    BY <2>2
<1>2. ASSUME NEW n \in Nat, Good(n)
      PROVE  Good(n + 1)
  <2>1. PICK f : f = [i \in 0..n |->
                        IF i = 0 THEN 0 ELSE 10 * f[i - 1] + HexValue(ds[i])]
    BY <1>2
  <2> DEFINE g == [i \in 0..(n + 1) |->
                     IF i \in 0..n THEN f[i] ELSE 10 * f[i - 1] + HexValue(ds[i])]
  <2>2. ASSUME NEW i \in 0..(n + 1)
        PROVE  g[i] = IF i = 0 THEN 0 ELSE 10 * g[i - 1] + HexValue(ds[i])
    <3>1. i # 0 => i - 1 \in 0..n /\ i - 1 \in 0..(n + 1)
      OBVIOUS
    <3>2. i # 0 => g[i - 1] = f[i - 1]
      BY <3>1
    <3>3. CASE i \in 0..n
      <4>1. f[i] = IF i = 0 THEN 0 ELSE 10 * f[i - 1] + HexValue(ds[i])
        BY <2>1, <3>3
      <4>2. g[i] = f[i]
        BY <3>3
      <4> HIDE DEF g
      <4>3. QED
        BY <3>2, <4>1, <4>2
    <3>4. CASE i \notin 0..n
      <4>1. g[i] = 10 * f[i - 1] + HexValue(ds[i]) /\ i # 0
        BY <3>4
      <4> HIDE DEF g
      <4>2. QED
        BY <3>2, <4>1
    <3>5. QED
      BY <3>3, <3>4
  <2>3. g = [i \in 0..(n + 1) |-> g[i]]
    OBVIOUS
  <2> HIDE DEF g
  <2>4. g = [i \in 0..(n + 1) |-> IF i = 0 THEN 0 ELSE 10 * g[i - 1] + HexValue(ds[i])]
    BY <2>2, <2>3
  <2>5. QED
    BY <2>4
<1> HIDE DEF Good
<1>3. 0 \in S /\ \A n \in Nat : n \in S => n + 1 \in S
  BY <1>1, <1>2
<1> HIDE DEF S
<1>4. Nat \subseteq S
  BY <1>3, Induction
<1>5. ASSUME NEW n \in Nat
      PROVE  Good(n)
  BY <1>4 DEF S
<1>6. QED
  BY <1>5 DEF Good

\* Magnitude() adds up digit by digit.
LEMMA MagnitudeIs ==
    ASSUME NEW ds, Len(ds) \in Nat
    PROVE  \E f : /\ f[0] = 0
                  /\ \A k \in 1..Len(ds) : f[k] = 10 * f[k - 1] + HexValue(ds[k])
                  /\ Magnitude(ds) = f[Len(ds)]
<1>1. \E f : f = [i \in 0..Len(ds) |->
                    IF i = 0 THEN 0 ELSE 10 * f[i - 1] + HexValue(ds[i])]
  BY MagnitudeExists
<1>2. PICK f : /\ f = [i \in 0..Len(ds) |->
                         IF i = 0 THEN 0 ELSE 10 * f[i - 1] + HexValue(ds[i])]
               /\ Magnitude(ds) = f[Len(ds)]
  BY <1>1 DEF Magnitude
<1>3. 0 \in 0..Len(ds) /\ \A k \in 1..Len(ds) : k \in 0..Len(ds) /\ k # 0
  OBVIOUS
<1>4. QED
  BY <1>2, <1>3

\* One more digit.
LEMMA MagnitudeGrows ==
    ASSUME NEW ds \in Seq(Digits), NEW c \in Digits
    PROVE  /\ Magnitude(<<>>) = 0
           /\ Magnitude(Append(ds, c)) = 10 * Magnitude(ds) + HexValue(c)
<1> DEFINE n == Len(ds)
           more == Append(ds, c)
<1>1. /\ n \in Nat /\ Len(more) = n + 1 /\ more[n + 1] = c
      /\ \A i \in 1..n : more[i] = ds[i]
  BY AppendProperties, LenProperties
<1>2. Magnitude(<<>>) = 0
  <2>1. Len(<<>>) = 0 /\ 0 \in Nat
    OBVIOUS
  <2>2. QED
    BY <2>1, MagnitudeIs
<1>3. PICK f : /\ f[0] = 0
               /\ \A k \in 1..n : f[k] = 10 * f[k - 1] + HexValue(ds[k])
               /\ Magnitude(ds) = f[n]
  BY <1>1, MagnitudeIs
<1>4. n + 1 \in Nat
  BY <1>1
<1> HIDE DEF more
<1>5. PICK g : /\ g[0] = 0
               /\ \A k \in 1..(n + 1) : g[k] = 10 * g[k - 1] + HexValue(more[k])
               /\ Magnitude(more) = g[n + 1]
  BY <1>1, <1>4, MagnitudeIs
<1> HIDE DEF n
<1>6. f[n] = g[n]
  <2>1. \A k \in 1..n : f[k - 1] = g[k - 1] => f[k] = g[k]
    <3>1. \A k \in 1..n : k \in 1..(n + 1)
      BY <1>1
    <3>2. QED
      BY <1>1, <1>3, <1>5, <3>1
  <2>2. f[0] = g[0] /\ n \in Nat
    BY <1>1, <1>3, <1>5
  <2>3. QED
    BY <2>1, <2>2, StepByStep
<1>7. n + 1 \in 1..(n + 1) /\ (n + 1) - 1 = n
  BY <1>1
<1>8. g[n + 1] = 10 * g[n] + HexValue(c)
  BY <1>1, <1>5, <1>7
<1>9. QED
  BY <1>2, <1>3, <1>5, <1>6, <1>8 DEF more

\* What the reader takes a digit for.
LEMMA DigitIs ==
    ASSUME NEW d \in 0..9
    PROVE  /\ Zero + d \in Digits /\ HexValue(Zero + d) = d
           /\ <<Zero + d>> \in Seq(Digits) /\ Magnitude(<<Zero + d>>) = d
<1>1. Zero + d \in Digits /\ HexValue(Zero + d) = d
  BY Codes DEF HexValue
<1> DEFINE c == Zero + d
<1>2. c \in Digits /\ HexValue(c) = d
  BY <1>1
<1> HIDE DEF c
<1>3. <<c>> \in Seq(Digits) /\ <<>> \in Seq(Digits)
  BY <1>2, Tuples
<1>4. Append(<<>>, c) = <<c>>
  BY Appending
<1>5. Magnitude(<<c>>) = 10 * 0 + d
  BY <1>2, <1>3, <1>4, MagnitudeGrows
<1>6. 10 * 0 + d = d
  OBVIOUS
<1>7. QED
  BY <1>1, <1>3, <1>5, <1>6 DEF c

\* batch_number_text() writes digits, at least one, that stand for the magnitude.
LEMMA NumberHasDigits ==
    ASSUME NEW value \in Int
    PROVE  \E ds \in Seq(Digits) :
              /\ Len(ds) >= 1
              /\ Magnitude(ds) = IF value < 0 THEN -value ELSE value
              /\ BatchNumberText(value) = (IF value < 0 THEN <<Minus>> ELSE <<>>) \o ds
<1> DEFINE magnitude == IF value < 0 THEN -value ELSE value
           sign == IF value < 0 THEN <<Minus>> ELSE <<>>
<1>1. magnitude \in Nat
  OBVIOUS
<1>2. \E f : f = [i \in 0..magnitude |->
                     IF i < 10 THEN <<Zero + i>>
                     ELSE Append(f[i \div 10], Zero + (i % 10))]
  BY <1>1, DigitsExist
<1>3. PICK f : /\ f = [i \in 0..magnitude |->
                          IF i < 10 THEN <<Zero + i>>
                          ELSE Append(f[i \div 10], Zero + (i % 10))]
               /\ BatchNumberText(value) = sign \o f[magnitude]
  BY <1>2 DEF BatchNumberText
<1> HIDE DEF magnitude, sign
<1> DEFINE Right(i) == f[i] \in Seq(Digits) /\ Len(f[i]) >= 1 /\ Magnitude(f[i]) = i
           S == {n \in Nat : \A i \in 0..n : i <= magnitude => Right(i)}
<1>4. ASSUME NEW i \in 0..9, i <= magnitude
      PROVE  Right(i)
  <2>1. i \in 0..magnitude /\ i < 10
    BY <1>1, <1>4
  <2>2. f[i] = <<Zero + i>>
    BY <1>3, <2>1
  <2>3. Len(<<Zero + i>>) = 1
    OBVIOUS
  <2>4. QED
    BY <2>2, <2>3, DigitIs
<1>5. 0 \in S
  <2>1. 0 \in 0..9 /\ \A i \in 0..0 : i = 0
    OBVIOUS
  <2> HIDE DEF Right
  <2>2. QED
    BY <1>4, <2>1
<1>6. ASSUME NEW n \in Nat, n \in S
      PROVE  n + 1 \in S
  <2> HIDE DEF Right
  <2>1. SUFFICES ASSUME n + 1 <= magnitude
                 PROVE  Right(n + 1)
    BY <1>6
  <2>2. n + 1 \in 0..magnitude
    BY <1>1, <2>1
  <2>3. CASE n + 1 < 10
    <3>1. n + 1 \in 0..9
      BY <2>3
    <3>2. QED
      BY <1>4, <2>1, <3>1
  <2>4. CASE n + 1 >= 10
    <3> DEFINE i == n + 1
               j == i \div 10
               d == i % 10
    <3>1. j \in 0..n /\ j <= magnitude /\ d \in 0..9
      BY <1>1, <2>1, <2>4, Tenth
    <3>2. i \in 0..magnitude /\ ~ (i < 10)
      BY <2>2, <2>4
    <3>3. i = 10 * j + d
      <4>1. \A x \in Nat : x = 10 * (x \div 10) + (x % 10)
        OBVIOUS
      <4>2. i \in Nat
        OBVIOUS
      <4> HIDE DEF i
      <4>3. QED
        BY <4>1, <4>2
    <3> HIDE DEF i
    <3>4. f[i] = Append(f[j], Zero + d)
      BY <1>3, <3>2
    <3>5. f[j] \in Seq(Digits) /\ Len(f[j]) >= 1 /\ Magnitude(f[j]) = j
      BY <1>6, <3>1 DEF Right
    <3> HIDE DEF j, d
    <3>6. Zero + d \in Digits /\ HexValue(Zero + d) = d
      BY <3>1, DigitIs
    <3>7. /\ Append(f[j], Zero + d) \in Seq(Digits)
          /\ Len(Append(f[j], Zero + d)) = Len(f[j]) + 1
      BY <3>5, <3>6, AppendProperties
    <3>8. Magnitude(Append(f[j], Zero + d)) = 10 * j + d
      BY <3>5, <3>6, MagnitudeGrows
    <3>9. Len(f[j]) \in Nat
      BY <3>5, LenProperties
    <3>10. Right(i)
      BY <3>3, <3>4, <3>5, <3>7, <3>8, <3>9 DEF Right
    <3>11. QED
      BY <3>10 DEF i
  <2>5. QED
    BY <2>3, <2>4
<1> HIDE DEF S
<1>7. magnitude \in S
  BY <1>1, <1>5, <1>6, Induction
<1> HIDE DEF Right
<1>8. Right(magnitude)
  BY <1>1, <1>7 DEF S
<1>9. QED
  BY <1>3, <1>8 DEF Right, magnitude, sign

\* The sign of a number is not one of its digits.
LEMMA Signs ==
    ASSUME NEW ds \in Seq(Digits), Len(ds) >= 1
    PROVE  /\ IntegerOf(ds) = Magnitude(ds)
           /\ IntegerOf(<<Minus>> \o ds) = -Magnitude(ds)
           /\ ds[1] \in Digits
           /\ (<<Minus>> \o ds)[1] = Minus
           /\ Len(<<Minus>> \o ds) = Len(ds) + 1
           /\ \A i \in 2..(Len(ds) + 1) : (<<Minus>> \o ds)[i] \in Digits
<1> DEFINE S == Digits \cup {Minus}
           text == <<Minus>> \o ds
<1>1. Len(ds) \in Nat /\ \A i \in 1..Len(ds) : ds[i] \in Digits
  BY LenProperties, ElementOfSeq
<1>2. ds[1] \in Digits /\ Minus \notin Digits
  BY <1>1, Codes
<1>3. ds \in Seq(S) /\ <<Minus>> \in Seq(S) /\ Len(<<Minus>>) = 1 /\ <<Minus>>[1] = Minus
  OBVIOUS
<1>4. /\ text \in Seq(S) /\ Len(text) = 1 + Len(ds)
      /\ \A i \in 1..(1 + Len(ds)) :
            text[i] = IF i <= 1 THEN <<Minus>>[i] ELSE ds[i - 1]
  BY <1>3, ConcatProperties
<1> HIDE DEF text
<1>5. text[1] = Minus
  BY <1>1, <1>3, <1>4
<1>6. \A i \in 2..(Len(ds) + 1) : text[i] \in Digits
  <2>1. ASSUME NEW i \in 2..(Len(ds) + 1)
        PROVE  text[i] = ds[i - 1] /\ i - 1 \in 1..Len(ds)
    BY <1>1, <1>4
  <2>2. QED
    BY <1>1, <2>1
<1>7. Tail(text) = ds
  <2>1. \A x \in Seq(S), c \in S : Tail(<<c>> \o x) = x
    OBVIOUS
  <2>2. QED
    BY <1>3, <2>1 DEF text
<1>8. IntegerOf(text) = -Magnitude(ds)
  BY <1>5, <1>7 DEF IntegerOf
<1>9. IntegerOf(ds) = Magnitude(ds)
  <2>1. ds[1] # Minus
    BY <1>2
  <2>2. QED
    BY <2>1 DEF IntegerOf
<1>10. Len(text) = Len(ds) + 1
  BY <1>1, <1>4
<1>11. QED
  BY <1>2, <1>5, <1>6, <1>8, <1>9, <1>10 DEF text

\* What batch_number_text() writes is a number to a reader, and the number is
\* the value.
LEMMA NumberIsUnderstood ==
    ASSUME NEW value \in Int
    PROVE  /\ IntegerOf(BatchNumberText(value)) = value
           /\ Len(BatchNumberText(value)) >= 1
           /\ BatchNumberText(value) \in Seq(Digits \cup {Minus})
           /\ BatchNumberText(value)[1] \in Digits \cup {Minus}
           /\ \A i \in 2..Len(BatchNumberText(value)) : BatchNumberText(value)[i] \in Digits
<1>1. PICK ds \in Seq(Digits) :
              /\ Len(ds) >= 1
              /\ Magnitude(ds) = IF value < 0 THEN -value ELSE value
              /\ BatchNumberText(value) = (IF value < 0 THEN <<Minus>> ELSE <<>>) \o ds
  BY NumberHasDigits
<1>2. ds \in Seq(Digits \cup {Minus}) /\ <<Minus>> \in Seq(Digits \cup {Minus})
  OBVIOUS
<1>3. Len(ds) \in Nat /\ \A i \in 2..Len(ds) : ds[i] \in Digits
  BY LenProperties, ElementOfSeq
<1>4. CASE value < 0
  <2> DEFINE text == <<Minus>> \o ds
  <2>1. BatchNumberText(value) = text
    BY <1>1, <1>4
  <2>2. IntegerOf(text) = -(-value) /\ text[1] = Minus
    BY <1>1, <1>4, Signs
  <2>3. Len(text) = Len(ds) + 1 /\ \A i \in 2..(Len(ds) + 1) : text[i] \in Digits
    BY <1>1, Signs
  <2>4. text \in Seq(Digits \cup {Minus})
    BY <1>2, Joining
  <2> HIDE DEF text
  <2>5. /\ IntegerOf(text) = value /\ Len(text) >= 1 /\ text[1] \in Digits \cup {Minus}
        /\ \A i \in 2..Len(text) : text[i] \in Digits
    BY <1>1, <1>3, <2>2, <2>3
  <2>6. QED
    BY <2>1, <2>4, <2>5, Zenon
<1>5. CASE ~ (value < 0)
  <2>1. BatchNumberText(value) = ds
    BY <1>1, <1>5, ConcatEmptySeq
  <2>2. IntegerOf(ds) = value /\ ds[1] \in Digits
    BY <1>1, <1>5, Signs
  <2>3. QED
    BY <1>1, <1>2, <1>3, <2>1, <2>2
<1>6. QED
  BY <1>4, <1>5

\* A digit or a minus begins a number.
LEMMA NumberStarts ==
    ASSUME NEW ts, NEW c \in Digits \cup {Minus}
    PROVE  Scan(Ready(ts), c) = At("number", Append(<<>>, c), <<>>, ts)
<1>1. Ready(ts).mode = "between"
  BY AtHas DEF Ready
<1>2. Scan(Ready(ts), c) = Between(Ready(ts), c)
  BY <1>1 DEF Scan
<1>3. Between(Ready(ts), c) = Takes(Ready(ts), "number", c)
  <2>1. c # Quote /\ c \in Digits \cup {Minus}
    BY Codes
  <2>2. \A s : Between(s, c) = Takes(s, "number", c)
    BY <2>1, Codes DEF Between, IsKey
  <2>3. QED
    BY <2>2
<1>4. Takes(Ready(ts), "number", c) = At("number", Append(<<>>, c), <<>>, ts)
  <2> DEFINE none == <<>>
  <2> HIDE DEF none
  <2>1. Takes(At("between", none, <<>>, ts), "number", c) =
           At("number", Append(none, c), <<>>, ts)
    BY TakesIs
  <2>2. QED
    BY <2>1, Zenon DEF Ready, none
<1>5. QED
  BY <1>2, <1>3, <1>4, Zenon

\* A number is scanned to its last digit, where it is not known to be the last.
LEMMA NumberIsScanned ==
    ASSUME NEW S, NEW text \in Seq(S), NEW ts, Len(text) >= 1,
           text[1] \in Digits \cup {Minus}, \A i \in 2..Len(text) : text[i] \in Digits
    PROVE  Scans(Ready(ts), text, At("number", text, <<>>, ts))
<1> DEFINE n == Len(text)
           st == [i \in 0..n |-> IF i = 0 THEN Ready(ts)
                                 ELSE At("number", SubSeq(text, 1, i), <<>>, ts)]
<1>1. n \in Nat
  BY LenProperties
<1>2. st[0] = Ready(ts) /\ \A i \in 1..n : st[i] = At("number", SubSeq(text, 1, i), <<>>, ts)
  BY <1>1
<1> HIDE DEF st
<1>3. ASSUME NEW k \in 1..n
      PROVE  st[k] = Scan(st[k - 1], text[k])
  <2>1. SubSeq(text, 1, k) = Append(SubSeq(text, 1, k - 1), text[k])
    BY Beginnings
  <2>2. CASE k = 1
    <3>1. k - 1 = 0 /\ SubSeq(text, 1, 0) = <<>>
      BY <2>2, Beginnings
    <3>2. Scan(Ready(ts), text[1]) = At("number", Append(<<>>, text[1]), <<>>, ts)
      BY NumberStarts
    <3>3. st[1] = At("number", Append(<<>>, text[1]), <<>>, ts)
      BY <1>2, <2>1, <2>2, <3>1
    <3>4. QED
      BY <1>2, <2>2, <3>1, <3>2, <3>3
  <2>3. CASE k # 1
    <3> DEFINE t == SubSeq(text, 1, k - 1)
               c == text[k]
    <3>1. k - 1 \in 1..n /\ c \in Digits
      BY <1>1, <2>3
    <3>2. st[k - 1] = At("number", t, <<>>, ts) /\ st[k] = At("number", Append(t, c), <<>>, ts)
      BY <1>2, <2>1, <3>1
    <3> HIDE DEF t, c
    <3>3. At("number", t, <<>>, ts).mode = "number"
      BY AtHas
    <3>4. Scan(At("number", t, <<>>, ts), c) = Takes(At("number", t, <<>>, ts), "number", c)
      BY <3>1, <3>3 DEF Scan
    <3>5. Scan(st[k - 1], c) = st[k]
      BY <3>2, <3>4, TakesIs
    <3>6. QED
      BY <3>5 DEF c
  <2>4. QED
    BY <2>2, <2>3
<1>4. st[n] = At("number", text, <<>>, ts)
  <2>1. n \in 1..n /\ SubSeq(text, 1, n) = text
    BY <1>1, Beginnings
  <2>2. QED
    BY <1>2, <2>1
<1>5. QED
  BY <1>2, <1>3, <1>4 DEF Scans

-----------------------------------------------------------------------------
(* Tokens, one after the other.                                            *)

AnyToken == [kind : {"punctuation", "string", "number"}, text : Seq(Int)]

\* The function that ReadTokens() is defined by exists.
LEMMA ReadExists ==
    ASSUME NEW ts
    PROVE  \A n \in Nat : \E f :
              f = [i \in 0..n |-> IF i = 0 THEN Reader ELSE Read(f[i - 1], ts[i])]
<1> DEFINE Good(n) == \E f :
              f = [i \in 0..n |-> IF i = 0 THEN Reader ELSE Read(f[i - 1], ts[i])]
           S == {n \in Nat : Good(n)}
<1>1. Good(0)
  <2> DEFINE f == [i \in 0..0 |-> Reader]
  <2>1. \A i \in 0..0 : i = 0
    OBVIOUS
  <2>2. f = [i \in 0..0 |-> IF i = 0 THEN Reader ELSE Read(f[i - 1], ts[i])]
    BY <2>1
  <2>3. QED
    BY <2>2
<1>2. ASSUME NEW n \in Nat, Good(n)
      PROVE  Good(n + 1)
  <2>1. PICK f : f = [i \in 0..n |-> IF i = 0 THEN Reader ELSE Read(f[i - 1], ts[i])]
    BY <1>2
  <2> DEFINE g == [i \in 0..(n + 1) |->
                     IF i \in 0..n THEN f[i] ELSE Read(f[i - 1], ts[i])]
  <2>2. ASSUME NEW i \in 0..(n + 1)
        PROVE  g[i] = IF i = 0 THEN Reader ELSE Read(g[i - 1], ts[i])
    <3>1. i # 0 => i - 1 \in 0..n /\ i - 1 \in 0..(n + 1)
      OBVIOUS
    <3>2. i # 0 => g[i - 1] = f[i - 1]
      BY <3>1
    <3>3. CASE i \in 0..n
      <4>1. f[i] = IF i = 0 THEN Reader ELSE Read(f[i - 1], ts[i])
        BY <2>1, <3>3
      <4>2. g[i] = f[i]
        BY <3>3
      <4> HIDE DEF g
      <4>3. QED
        BY <3>2, <4>1, <4>2
    <3>4. CASE i \notin 0..n
      <4>1. g[i] = Read(f[i - 1], ts[i]) /\ i # 0
        BY <3>4
      <4> HIDE DEF g
      <4>2. QED
        BY <3>2, <4>1
    <3>5. QED
      BY <3>3, <3>4
  <2>3. g = [i \in 0..(n + 1) |-> g[i]]
    OBVIOUS
  <2> HIDE DEF g
  <2>4. g = [i \in 0..(n + 1) |-> IF i = 0 THEN Reader ELSE Read(g[i - 1], ts[i])]
    BY <2>2, <2>3
  <2>5. QED
    BY <2>4
<1> HIDE DEF Good
<1>3. 0 \in S /\ \A n \in Nat : n \in S => n + 1 \in S
  BY <1>1, <1>2
<1> HIDE DEF S
<1>4. Nat \subseteq S
  BY <1>3, Induction
<1>5. ASSUME NEW n \in Nat
      PROVE  Good(n)
  BY <1>4 DEF S
<1>6. QED
  BY <1>5 DEF Good

\* ReadTokens() reads token by token.
LEMMA ReadIs ==
    ASSUME NEW ts, Len(ts) \in Nat
    PROVE  \E f : /\ f[0] = Reader
                  /\ \A k \in 1..Len(ts) : f[k] = Read(f[k - 1], ts[k])
                  /\ ReadTokens(ts) = f[Len(ts)]
<1>1. \E f : f = [i \in 0..Len(ts) |-> IF i = 0 THEN Reader ELSE Read(f[i - 1], ts[i])]
  BY ReadExists
<1>2. PICK f : /\ f = [i \in 0..Len(ts) |->
                         IF i = 0 THEN Reader ELSE Read(f[i - 1], ts[i])]
               /\ ReadTokens(ts) = f[Len(ts)]
  BY <1>1 DEF ReadTokens
<1>3. 0 \in 0..Len(ts) /\ \A k \in 1..Len(ts) : k \in 0..Len(ts) /\ k # 0
  OBVIOUS
<1>4. QED
  BY <1>2, <1>3

\* One more token.
LEMMA ReadGrows ==
    ASSUME NEW ts \in Seq(AnyToken), NEW t \in AnyToken
    PROVE  /\ ReadTokens(<<>>) = Reader
           /\ ReadTokens(Append(ts, t)) = Read(ReadTokens(ts), t)
<1> DEFINE n == Len(ts)
           more == Append(ts, t)
<1>1. /\ n \in Nat /\ Len(more) = n + 1 /\ more[n + 1] = t
      /\ \A i \in 1..n : more[i] = ts[i]
  BY AppendProperties, LenProperties
<1>2. ReadTokens(<<>>) = Reader
  <2>1. Len(<<>>) = 0 /\ 0 \in Nat
    OBVIOUS
  <2>2. QED
    BY <2>1, ReadIs
<1>3. PICK f : /\ f[0] = Reader
               /\ \A k \in 1..n : f[k] = Read(f[k - 1], ts[k])
               /\ ReadTokens(ts) = f[n]
  BY <1>1, ReadIs
<1>4. n + 1 \in Nat
  BY <1>1
<1> HIDE DEF more
<1>5. PICK g : /\ g[0] = Reader
               /\ \A k \in 1..(n + 1) : g[k] = Read(g[k - 1], more[k])
               /\ ReadTokens(more) = g[n + 1]
  BY <1>1, <1>4, ReadIs
<1> HIDE DEF n
<1>6. f[n] = g[n]
  <2>1. \A k \in 1..n : f[k - 1] = g[k - 1] => f[k] = g[k]
    <3>1. \A k \in 1..n : k \in 1..(n + 1)
      BY <1>1
    <3>2. QED
      BY <1>1, <1>3, <1>5, <3>1
  <2>2. f[0] = g[0] /\ n \in Nat
    BY <1>1, <1>3, <1>5
  <2>3. QED
    BY <2>1, <2>2, StepByStep
<1>7. n + 1 \in 1..(n + 1) /\ (n + 1) - 1 = n
  BY <1>1
<1>8. g[n + 1] = Read(g[n], t)
  BY <1>1, <1>5, <1>7
<1>9. QED
  BY <1>2, <1>3, <1>5, <1>6, <1>8 DEF more

-----------------------------------------------------------------------------
(* Scanner and reader together.                                            *)

\* A text over some characters is one over more of them.
LEMMA Widened ==
    ASSUME NEW S, NEW T, \A c \in S : c \in T, NEW text \in Seq(S)
    PROVE  text \in Seq(T)
<1>1. Len(text) \in Nat /\ text \in [1..Len(text) -> S]
  BY LenProperties
<1>2. text \in [1..Len(text) -> T]
  BY <1>1
<1>3. QED
  BY <1>1, <1>2, SeqDef

Named(c) == Token("string", <<c>>)
Counts(text) == Token("number", <<IntegerOf(text)>>)

\* The tokens that a scanner emits.
LEMMA TokensAre ==
    /\ \A c \in Int : Mark(c) \in AnyToken /\ Named(c) \in AnyToken
    /\ \A text \in Seq(Int) : Token("string", text) \in AnyToken
    /\ \A v \in Int : Token("number", <<v>>) \in AnyToken
<1>1. ASSUME NEW kind \in {"punctuation", "string", "number"}, NEW text \in Seq(Int)
      PROVE  Token(kind, text) \in AnyToken
  BY DEF Token, AnyToken
<1>2. \A c \in Int : <<c>> \in Seq(Int)
  OBVIOUS
<1>3. QED
  BY <1>1, <1>2 DEF Mark, Named

\* The scanner s has the tokens that the reader r has read: all of them, or,
\* when Late, all but the number that it is in.
Clean(s, r) == \E ts \in Seq(AnyToken) : s = Ready(ts) /\ ReadTokens(ts) = r
Late(s, r) ==
    \/ Clean(s, r)
    \/ \E ts \in Seq(AnyToken) : \E text :
          /\ s = At("number", text, <<>>, ts)
          /\ Counts(text) \in AnyToken
          /\ Read(ReadTokens(ts), Counts(text)) = r

\* A mark ends the number before it and is a token of its own.
LEMMA MarkSteps ==
    ASSUME NEW ts, NEW c
    PROVE  /\ c \in Punctuation => Scan(Ready(ts), c) = Ready(Append(ts, Mark(c)))
           /\ c \in Nat /\ c >= 256 => Scan(Ready(ts), c) = Ready(Append(ts, Named(c)))
           /\ c \notin Digits =>
                 \A text : Scan(At("number", text, <<>>, ts), c) =
                              Scan(Ready(Append(ts, Counts(text))), c)
<1>1. \A x : Ready(x).mode = "between"
  BY AtHas DEF Ready
<1>2. \A x : Scan(Ready(x), c) = Between(Ready(x), c)
  BY <1>1 DEF Scan
<1>3. \A x, kind, text : Emits(Ready(x), kind, text) = Ready(Append(x, Token(kind, text)))
  BY EmitsIs DEF Ready
<1>4. ASSUME c \in Punctuation
      PROVE  Scan(Ready(ts), c) = Ready(Append(ts, Mark(c)))
  <2>1. c # Quote /\ c \notin Digits \cup {Minus}
    BY <1>4, Codes
  <2>2. c \in Int
    BY <1>4, Codes
  <2>3. Between(Ready(ts), c) = Emits(Ready(ts), "punctuation", <<c>>)
    BY <1>4, <2>1, <2>2, Codes DEF Between, IsKey
  <2>4. QED
    BY <1>2, <1>3, <2>3 DEF Mark
<1>5. ASSUME c \in Nat, c >= 256
      PROVE  Scan(Ready(ts), c) = Ready(Append(ts, Named(c)))
  <2>1. c # Quote /\ c \notin Digits \cup {Minus} /\ c \notin Punctuation
    BY <1>5, Codes
  <2>2. Between(Ready(ts), c) = Emits(Ready(ts), "string", <<c>>)
    BY <1>5, <2>1, Codes DEF Between, IsKey
  <2>3. QED
    BY <1>2, <1>3, <2>2 DEF Named
<1>6. ASSUME c \notin Digits, NEW text
      PROVE  Scan(At("number", text, <<>>, ts), c) = Scan(Ready(Append(ts, Counts(text))), c)
  <2> DEFINE s == At("number", text, <<>>, ts)
  <2>1. s.mode = "number" /\ s.text = text
    BY AtHas
  <2>2. Emits(s, "number", <<IntegerOf(text)>>) = Ready(Append(ts, Counts(text)))
    BY EmitsIs DEF Ready, Counts
  <2> HIDE DEF s
  <2>3. Scan(s, c) = Between(Emits(s, "number", <<IntegerOf(s.text)>>), c)
    BY <1>6, <2>1 DEF Scan
  <2>4. Scan(s, c) = Between(Ready(Append(ts, Counts(text))), c)
    BY <2>1, <2>2, <2>3
  <2>5. QED
    BY <1>2, <2>4 DEF s
<1>7. QED
  BY <1>4, <1>5, <1>6

\* Punctuation ends a number, and is a token.
LEMMA MarkIsRead ==
    ASSUME NEW s, NEW r, Late(s, r), NEW c \in Punctuation
    PROVE  Clean(Scan(s, c), Read(r, Mark(c)))
<1>1. c \in Int /\ c \notin Digits
  BY Codes
<1>2. Mark(c) \in AnyToken
  BY <1>1, TokensAre
<1>3. ASSUME NEW ts \in Seq(AnyToken)
      PROVE  Clean(Scan(Ready(ts), c), Read(ReadTokens(ts), Mark(c)))
  <2>1. Append(ts, Mark(c)) \in Seq(AnyToken)
    BY <1>2, AppendProperties
  <2>2. Scan(Ready(ts), c) = Ready(Append(ts, Mark(c)))
    BY MarkSteps
  <2>3. ReadTokens(Append(ts, Mark(c))) = Read(ReadTokens(ts), Mark(c))
    BY <1>2, ReadGrows
  <2>4. QED
    BY <2>1, <2>2, <2>3 DEF Clean
<1>4. CASE Clean(s, r)
  BY <1>3, <1>4 DEF Clean
<1>5. CASE ~ Clean(s, r)
  <2>0. PICK ts \in Seq(AnyToken) :
           \E text : /\ s = At("number", text, <<>>, ts)
                     /\ Counts(text) \in AnyToken
                     /\ Read(ReadTokens(ts), Counts(text)) = r
    BY <1>5 DEF Late
  <2>1. PICK text : /\ s = At("number", text, <<>>, ts)
                    /\ Counts(text) \in AnyToken
                    /\ Read(ReadTokens(ts), Counts(text)) = r
    BY <2>0
  <2> DEFINE more == Append(ts, Counts(text))
  <2>2. more \in Seq(AnyToken)
    BY <2>1, AppendProperties
  <2>3. ReadTokens(more) = r
    BY <2>1, ReadGrows
  <2>4. Scan(s, c) = Scan(Ready(more), c)
    <3>1. \A t : Scan(At("number", t, <<>>, ts), c) = Scan(Ready(Append(ts, Counts(t))), c)
      BY <1>1, MarkSteps
    <3>2. QED
      BY <2>1, <3>1
  <2> HIDE DEF more
  <2>5. QED
    BY <1>3, <2>2, <2>3, <2>4
<1>6. QED
  BY <1>4, <1>5

\* A key is one token.
LEMMA KeyIsRead ==
    ASSUME NEW s, NEW r, Clean(s, r), NEW c \in Nat, c >= 256
    PROVE  Clean(Scan(s, c), Read(r, Named(c)))
<1>1. Named(c) \in AnyToken
  BY TokensAre
<1>2. PICK ts \in Seq(AnyToken) : s = Ready(ts) /\ ReadTokens(ts) = r
  BY DEF Clean
<1>3. Append(ts, Named(c)) \in Seq(AnyToken)
  BY <1>1, AppendProperties
<1>4. Scan(s, c) = Ready(Append(ts, Named(c)))
  BY <1>2, MarkSteps
<1>5. ReadTokens(Append(ts, Named(c))) = Read(r, Named(c))
  BY <1>1, <1>2, ReadGrows
<1>6. QED
  BY <1>3, <1>4, <1>5 DEF Clean

\* The text is one token.
Spells(text, t) ==
    \A s, r : Clean(s, r) => \E x : Scans(s, text, x) /\ Late(x, Read(r, t))

\* What json_append_quoted() writes spells a string.
LEMMA QuotedSpells ==
    ASSUME NEW text \in Seq(Byte)
    PROVE  Spells(JsonQuoted(text), Token("string", text))
<1> DEFINE t == Token("string", text)
<1>1. t \in AnyToken
  <2>1. text \in Seq(Int)
    <3>1. \A c \in Byte : c \in Int
      BY DEF Byte
    <3>2. QED
      BY <3>1, Widened
  <2>2. QED
    BY <2>1, TokensAre
<1>2. ASSUME NEW ts \in Seq(AnyToken)
      PROVE  \E x : Scans(Ready(ts), JsonQuoted(text), x) /\ Late(x, Read(ReadTokens(ts), t))
  <2>1. Append(ts, t) \in Seq(AnyToken) /\ ReadTokens(Append(ts, t)) = Read(ReadTokens(ts), t)
    BY <1>1, AppendProperties, ReadGrows
  <2>2. Scans(Ready(ts), JsonQuoted(text), Ready(Append(ts, t)))
    BY QuotedIsRead
  <2> HIDE DEF t
  <2>3. Late(Ready(Append(ts, t)), Read(ReadTokens(ts), t))
    BY <2>1 DEF Late, Clean
  <2>4. QED
    BY <2>2, <2>3
<1> HIDE DEF t
<1>3. Spells(JsonQuoted(text), t)
  BY <1>2 DEF Spells, Clean
<1>4. QED
  BY <1>3 DEF t

\* What append_hex() writes between quotes spells a string.
LEMMA PayloadSpells ==
    ASSUME NEW bytes \in Seq(Byte)
    PROVE  Spells(<<Quote>> \o Hex(bytes) \o <<Quote>>, Token("string", Hex(bytes)))
<1> DEFINE t == Token("string", Hex(bytes))
           text == <<Quote>> \o Hex(bytes) \o <<Quote>>
<1>1. t \in AnyToken
  <2>1. Hex(bytes) \in Seq(Int)
    <3>1. Hex(bytes) \in Seq(Verbatim)
      BY HexPlaces
    <3>2. \A c \in Verbatim : c \in Int
      BY DEF Verbatim, Byte
    <3>3. QED
      BY <3>1, <3>2, Widened
  <2>2. QED
    BY <2>1, TokensAre
<1>2. ASSUME NEW ts \in Seq(AnyToken)
      PROVE  \E x : Scans(Ready(ts), text, x) /\ Late(x, Read(ReadTokens(ts), t))
  <2>1. Append(ts, t) \in Seq(AnyToken) /\ ReadTokens(Append(ts, t)) = Read(ReadTokens(ts), t)
    BY <1>1, AppendProperties, ReadGrows
  <2>2. Scans(Ready(ts), text, Ready(Append(ts, t)))
    BY PayloadIsRead
  <2> HIDE DEF t, text
  <2>3. Late(Ready(Append(ts, t)), Read(ReadTokens(ts), t))
    BY <2>1 DEF Late, Clean
  <2>4. QED
    BY <2>2, <2>3
<1> HIDE DEF t, text
<1>3. Spells(text, t)
  BY <1>2 DEF Spells, Clean
<1>4. QED
  BY <1>3 DEF t, text

\* What batch_number_text() makes of a number spells the number.
LEMMA NumberSpells ==
    ASSUME NEW value \in Int
    PROVE  Spells(BatchNumberText(value), Token("number", <<value>>))
<1> DEFINE t == Token("number", <<value>>)
           text == BatchNumberText(value)
<1>1. t \in AnyToken
  BY TokensAre
<1>2. Counts(text) = t
  BY NumberIsUnderstood DEF Counts
<1>3. ASSUME NEW ts \in Seq(AnyToken)
      PROVE  \E x : Scans(Ready(ts), text, x) /\ Late(x, Read(ReadTokens(ts), t))
  <2>1. Scans(Ready(ts), text, At("number", text, <<>>, ts))
    BY NumberIsUnderstood, NumberIsScanned
  <2> HIDE DEF t, text
  <2>2. Late(At("number", text, <<>>, ts), Read(ReadTokens(ts), t))
    BY <1>1, <1>2 DEF Late
  <2>3. QED
    BY <2>1, <2>2
<1> HIDE DEF t, text
<1>4. Spells(text, t)
  BY <1>3 DEF Spells, Clean
<1>5. QED
  BY <1>4 DEF t, text

-----------------------------------------------------------------------------
(* The steps of the reader.                                                *)

\* The reader that expects e, in the objects and arrays n, at the path p, with
\* the leaves ls.
Where(e, n, p, ls) == [expects |-> e, nest |-> n, path |-> p, leaves |-> ls]

\* The fields of a reader.
LEMMA WhereHas ==
    ASSUME NEW e, NEW n, NEW p, NEW ls
    PROVE  /\ Where(e, n, p, ls).expects = e /\ Where(e, n, p, ls).nest = n
           /\ Where(e, n, p, ls).path = p /\ Where(e, n, p, ls).leaves = ls
  BY DEF Where

Expecting(r, e) == [r EXCEPT !.expects = e]
Inside(r, n) == [r EXCEPT !.nest = n]
AtPath(r, p) == [r EXCEPT !.path = p]
Having(r, ls) == [r EXCEPT !.leaves = ls]

\* A reader that differs in one field.
LEMMA Moves ==
    ASSUME NEW e, NEW n, NEW p, NEW ls, NEW x
    PROVE  /\ Expecting(Where(e, n, p, ls), x) = Where(x, n, p, ls)
           /\ Inside(Where(e, n, p, ls), x) = Where(e, x, p, ls)
           /\ AtPath(Where(e, n, p, ls), x) = Where(e, n, x, ls)
           /\ Having(Where(e, n, p, ls), x) = Where(e, n, p, x)
<1>1. Expecting(Where(e, n, p, ls), x) = Where(x, n, p, ls)
  BY DEF Where, Expecting
<1>2. Inside(Where(e, n, p, ls), x) = Where(e, x, p, ls)
  BY DEF Where, Inside
<1>3. AtPath(Where(e, n, p, ls), x) = Where(e, n, x, ls)
  BY DEF Where, AtPath
<1>4. Having(Where(e, n, p, ls), x) = Where(e, n, p, x)
  BY DEF Where, Having
<1>5. QED
  BY <1>1, <1>2, <1>3, <1>4

\* What was appended last is the last, and what was before it is the front.
LEMMA Undoing ==
    ASSUME NEW S, NEW s \in Seq(S), NEW x \in S
    PROVE  /\ Front(Append(s, x)) = s /\ Last(Append(s, x)) = x
           /\ Append(s, x) # <<>> /\ Append(s, x) \in Seq(S)
<1>1. /\ Append(s, x) \in Seq(S) /\ Append(s, x) # <<>>
      /\ Len(Append(s, x)) = Len(s) + 1 /\ Len(s) \in Nat
      /\ \A i \in 1..Len(s) : Append(s, x)[i] = s[i]
      /\ Append(s, x)[Len(s) + 1] = x
  BY AppendProperties, LenProperties
<1>2. Last(Append(s, x)) = x
  BY <1>1 DEF Last
<1>3. Front(Append(s, x)) = s
  <2> DEFINE t == Append(s, x)
             f == SubSeq(t, 1, Len(s))
  <2>1. Front(t) = f
    <3>1. Len(t) - 1 = Len(s)
      BY <1>1
    <3>2. QED
      BY <3>1 DEF Front
  <2> HIDE DEF t
  <2>2. /\ f \in Seq(S) /\ Len(f) = Len(s)
        /\ \A i \in 1..Len(s) : f[i] = t[i]
    <3>1. t \in Seq(S) /\ Len(t) = Len(s) + 1
      BY <1>1 DEF t
    <3>2. \A i \in 1..Len(s) : t[i] \in S
      BY <1>1, <3>1, ElementOfSeq
    <3>3. /\ SubSeq(t, 1, Len(s)) \in Seq(S)
          /\ Len(SubSeq(t, 1, Len(s))) = IF 1 <= Len(s) THEN Len(s) - 1 + 1 ELSE 0
          /\ \A i \in 1..(Len(s) - 1 + 1) : SubSeq(t, 1, Len(s))[i] = t[1 + i - 1]
      BY <1>1, <3>2, SubSeqProperties
    <3>4. QED
      BY <1>1, <3>3
  <2>3. f = s
    <3>1. \A i \in 1..Len(s) : f[i] = s[i]
      BY <1>1, <2>2 DEF t
    <3> HIDE DEF f
    <3>2. QED
      BY <2>2, <3>1, SeqEqual
  <2>4. QED
    BY <2>1, <2>3 DEF t
<1>4. QED
  BY <1>1, <1>2, <1>3

\* Two marks are one only if their characters are.
LEMMA MarksDiffer ==
    /\ \A c : Mark(c).kind = "punctuation" /\ Mark(c).text = <<c>>
    /\ \A c : Named(c).kind = "string" /\ Named(c).text = <<c>>
    /\ \A c : Len(<<c>>) = 1 /\ <<c>>[1] = c
    /\ Mark(Comma) # Mark(CloseBrace) /\ Mark(Comma) # Mark(CloseBracket)
    /\ Mark(CloseBrace) # Mark(CloseBracket)
    /\ Mark(OpenBrace) # Mark(OpenBracket) /\ Mark(OpenBrace) # Mark(CloseBracket)
<1>1. \A c : Mark(c).kind = "punctuation" /\ Mark(c).text = <<c>>
  BY DEF Mark, Token
<1>2. \A c : Named(c).kind = "string" /\ Named(c).text = <<c>>
  BY DEF Named, Token
<1>3. \A c : Len(<<c>>) = 1 /\ <<c>>[1] = c
  OBVIOUS
<1>4. ASSUME NEW c, NEW d, c # d
      PROVE  Mark(c) # Mark(d)
  <2>1. <<c>> # <<d>>
    BY <1>4
  <2>2. QED
    BY <1>1, <2>1
<1>5. QED
  BY <1>1, <1>2, <1>3, <1>4, Codes

\* A string or a number is a leaf, at the path.
LEMMA LeafStep ==
    ASSUME NEW n, NEW p, NEW ls, NEW t, t.kind # "punctuation",
           NEW e \in {"value", "first_value"}
    PROVE  Read(Where(e, n, p, ls), t) =
              Where("after", n, p, Append(ls, <<p, t.kind, t.text>>))
<1> DEFINE r == Where(e, n, p, ls)
<1>1. r.expects = e /\ r.path = p /\ r.leaves = ls
  BY WhereHas
<1> HIDE DEF r
<1>2. \A c : t # Mark(c)
  BY MarksDiffer
<1>3. Read(r, t) = Value(r, t)
  BY <1>1, <1>2 DEF Read
<1>4. Value(r, t) =
         Having(Expecting(r, "after"), Append(r.leaves, <<r.path, t.kind, t.text>>))
  <2>1. Value(r, t) = [r EXCEPT !.expects = "after",
                                !.leaves = Append(@, <<r.path, t.kind, t.text>>)]
    BY <1>2 DEF Value
  <2>2. QED
    BY <2>1 DEF Having, Expecting
<1>5. QED
  BY <1>1, <1>3, <1>4, Moves DEF r

\* A comma, and the next name is expected.
LEMMA CommaStep ==
    ASSUME NEW n, NEW p, NEW ls, n # <<>>, Last(n) = "object"
    PROVE  Read(Where("after", n, p, ls), Mark(Comma)) = Where("name", n, Front(p), ls)
<1> DEFINE r == Where("after", n, p, ls)
           t == Mark(Comma)
<1>1. r.expects = "after" /\ r.path = p /\ r.nest = n
  BY WhereHas
<1>2. t = Mark(Comma) /\ t # Mark(CloseBrace)
  BY MarksDiffer
<1> HIDE DEF r, t
<1>3. Read(r, t) = After(r, t)
  BY <1>1 DEF Read
<1>4. After(r, t) = Expecting(AtPath(r, Front(r.path)), "name")
  <2>1. After(r, t) = [[r EXCEPT !.path = Front(@)] EXCEPT !.expects = "name"]
    BY <1>1, <1>2 DEF After
  <2>2. QED
    BY <2>1 DEF AtPath, Expecting
<1>5. QED
  BY <1>1, <1>3, <1>4, Moves DEF r, t

\* A name leads one down.
LEMMA NameStep ==
    ASSUME NEW n, NEW p, NEW ls, NEW c \in Nat, c >= 256,
           NEW e \in {"name", "first_name"}
    PROVE  Read(Where(e, n, p, ls), Named(c)) = Where("colon", n, Append(p, c), ls)
<1> DEFINE r == Where(e, n, p, ls)
           t == Named(c)
<1>1. r.expects = e /\ r.path = p
  BY WhereHas
<1>2. t.kind = "string" /\ t.text = <<c>>
  BY MarksDiffer
<1>3. Len(t.text) = 1 /\ t.text[1] = c
  BY <1>2, MarksDiffer
<1>4. t # Mark(CloseBrace)
  BY <1>2, MarksDiffer
<1> HIDE DEF r, t
<1>5. Read(r, t) = Name(r, t)
  BY <1>1, <1>4 DEF Read
<1>6. Name(r, t) = AtPath(Expecting(r, "colon"), Append(r.path, t.text[1]))
  BY <1>2, <1>3 DEF Name, AtPath, Expecting
<1>7. QED
  BY <1>1, <1>3, <1>5, <1>6, Moves DEF r, t

\* After a name comes the colon, and then the value.
LEMMA ColonStep ==
    ASSUME NEW n, NEW p, NEW ls
    PROVE  Read(Where("colon", n, p, ls), Mark(Colon)) = Where("value", n, p, ls)
<1> DEFINE r == Where("colon", n, p, ls)
           t == Mark(Colon)
<1>1. r.expects = "colon" /\ t = Mark(Colon)
  BY WhereHas
<1> HIDE DEF r, t
<1>2. Read(r, t) = Expecting(r, "value")
  BY <1>1 DEF Read, Expecting
<1>3. QED
  BY <1>2, Moves DEF r, t

\* An object begins.
LEMMA OpenStep ==
    ASSUME NEW n, NEW p, NEW ls, NEW e \in {"value", "first_value"}
    PROVE  Read(Where(e, n, p, ls), Mark(OpenBrace)) =
              Where("first_name", Append(n, "object"), p, ls)
<1> DEFINE r == Where(e, n, p, ls)
           t == Mark(OpenBrace)
<1>1. r.expects = e /\ r.path = p /\ r.nest = n
  BY WhereHas
<1>2. /\ t = Mark(OpenBrace) /\ t.kind = "punctuation"
      /\ t # Mark(CloseBracket) /\ t # Mark(OpenBracket)
  BY MarksDiffer
<1> HIDE DEF r, t
<1>3. Read(r, t) = Value(r, t)
  BY <1>1, <1>2 DEF Read
<1>4. Value(r, t) = Opens(r, "object")
  BY <1>2 DEF Value
<1>5. Opens(r, "object") =
         Expecting(AtPath(Inside(r, Append(r.nest, "object")), r.path), "first_name")
  BY DEF Opens, Expecting, AtPath, Inside
<1>6. QED
  BY <1>1, <1>3, <1>4, <1>5, Moves DEF r, t

\* An array begins, with its first place.
LEMMA ArrayStep ==
    ASSUME NEW n, NEW p, NEW ls
    PROVE  Read(Where("value", n, p, ls), Mark(OpenBracket)) =
              Where("first_value", Append(n, "array"), Append(p, 1), ls)
<1> DEFINE r == Where("value", n, p, ls)
           t == Mark(OpenBracket)
<1>1. r.expects = "value" /\ r.path = p /\ r.nest = n
  BY WhereHas
<1>2. t = Mark(OpenBracket) /\ t.kind = "punctuation" /\ t # Mark(OpenBrace)
  BY MarksDiffer
<1> HIDE DEF r, t
<1>3. Read(r, t) = Value(r, t)
  BY <1>1 DEF Read
<1>4. Value(r, t) = Opens(r, "array")
  BY <1>2 DEF Value
<1>5. Opens(r, "array") =
         Expecting(AtPath(Inside(r, Append(r.nest, "array")), Append(r.path, 1)),
                   "first_value")
  BY DEF Opens, Expecting, AtPath, Inside
<1>6. QED
  BY <1>1, <1>3, <1>4, <1>5, Moves DEF r, t

\* The next place of an array.
LEMMA NextPlace ==
    ASSUME NEW p \in Seq(Int), NEW i \in Int
    PROVE  [Append(p, i) EXCEPT ![Len(Append(p, i))] = @ + 1] = Append(p, i + 1)
<1> DEFINE a == Append(p, i)
           b == Append(p, i + 1)
           c == [a EXCEPT ![Len(a)] = @ + 1]
<1>1. /\ a \in Seq(Int) /\ Len(a) = Len(p) + 1 /\ Len(p) \in Nat
      /\ \A k \in 1..Len(p) : a[k] = p[k]
      /\ a[Len(p) + 1] = i
  BY AppendProperties, LenProperties
<1>2. i + 1 \in Int
  OBVIOUS
<1>3. /\ b \in Seq(Int) /\ Len(b) = Len(p) + 1
      /\ \A k \in 1..Len(p) : b[k] = p[k]
      /\ b[Len(p) + 1] = i + 1
  BY <1>2, AppendProperties
<1>4. DOMAIN a = 1..(Len(p) + 1) /\ DOMAIN b = 1..(Len(p) + 1)
  BY <1>1, <1>3, LenProperties
<1> HIDE DEF a, b
<1>5. a = [k \in DOMAIN a |-> a[k]] /\ b = [k \in DOMAIN b |-> b[k]]
  BY <1>1, <1>3, LenProperties
<1>6. DOMAIN c = DOMAIN a /\ c = [k \in DOMAIN c |-> c[k]]
  OBVIOUS
<1>7. ASSUME NEW k \in 1..(Len(p) + 1)
      PROVE  c[k] = b[k]
  <2>1. k = Len(p) + 1 \/ k \in 1..Len(p)
    BY <1>1
  <2>2. CASE k = Len(p) + 1
    <3>1. c[k] = a[k] + 1
      BY <1>1, <1>4, <2>2
    <3>2. QED
      BY <1>1, <1>3, <2>2, <3>1
  <2>3. CASE k \in 1..Len(p)
    <3>1. k # Len(a) /\ c[k] = a[k]
      BY <1>1, <1>4, <2>3
    <3>2. QED
      BY <1>1, <1>3, <2>3, <3>1
  <2>4. QED
    BY <2>1, <2>2, <2>3
<1> HIDE DEF c
<1>8. c = b
  BY <1>4, <1>5, <1>6, <1>7
<1>9. QED
  BY <1>8 DEF a, b, c

\* A comma in a list leads to the next place.
LEMMA PlaceStep ==
    ASSUME NEW n, NEW p \in Seq(Int), NEW i \in Int, NEW ls, n # <<>>, Last(n) = "array"
    PROVE  Read(Where("after", n, Append(p, i), ls), Mark(Comma)) =
              Where("value", n, Append(p, i + 1), ls)
<1> DEFINE down == Append(p, i)
           beside == Append(p, i + 1)
           r == Where("after", n, down, ls)
           t == Mark(Comma)
<1>1. [down EXCEPT ![Len(down)] = @ + 1] = beside
  BY NextPlace
<1> HIDE DEF down, beside
<1>2. r.expects = "after" /\ r.path = down /\ r.nest = n
  BY WhereHas
<1>3. t = Mark(Comma) /\ t # Mark(CloseBracket)
  BY MarksDiffer
<1> HIDE DEF r, t
<1>4. Read(r, t) = After(r, t)
  BY <1>2 DEF Read
<1>5. After(r, t) =
         AtPath(Expecting(r, "value"), [r.path EXCEPT ![Len(r.path)] = @ + 1])
  BY <1>2, <1>3 DEF After, AtPath, Expecting
<1>6. Read(r, t) = AtPath(Expecting(r, "value"), beside)
  BY <1>1, <1>2, <1>4, <1>5
<1>7. Read(r, t) = Where("value", n, beside, ls)
  BY <1>6, Moves DEF r
<1>8. QED
  BY <1>7 DEF r, t, down, beside

\* An object or an array ends, and with it the path goes one up.
LEMMA ShutStep ==
    ASSUME NEW n, NEW p, NEW ls, NEW e
    PROVE  Shuts(AtPath(Where(e, n, p, ls), Front(p))) =
              Where("after", Front(n), Front(p), ls)
<1> DEFINE up == Front(p)
           r == Where(e, n, up, ls)
<1> HIDE DEF up
<1>1. AtPath(Where(e, n, p, ls), up) = r
  BY Moves
<1>2. r.nest = n
  BY WhereHas
<1> HIDE DEF r
<1>3. Shuts(r) = Expecting(Inside(r, Front(r.nest)), "after")
  BY DEF Shuts, Expecting, Inside
<1>4. Shuts(r) = Where("after", Front(n), up, ls)
  BY <1>2, <1>3, Moves DEF r
<1>5. QED
  BY <1>1, <1>4 DEF up

\* A bracket ends the list it is in.
LEMMA CloseStep ==
    ASSUME NEW n, NEW p, NEW ls, n # <<>>
    PROVE  /\ Last(n) = "object" =>
                 Read(Where("after", n, p, ls), Mark(CloseBrace)) =
                    Where("after", Front(n), Front(p), ls)
           /\ Last(n) = "array" =>
                 Read(Where("after", n, p, ls), Mark(CloseBracket)) =
                    Where("after", Front(n), Front(p), ls)
           /\ Read(Where("first_value", n, p, ls), Mark(CloseBracket)) =
                 Where("after", Front(n), Front(p), ls)
<1>1. ASSUME Last(n) = "object"
      PROVE  Read(Where("after", n, p, ls), Mark(CloseBrace)) =
                Where("after", Front(n), Front(p), ls)
  <2> DEFINE r == Where("after", n, p, ls)
             t == Mark(CloseBrace)
  <2>1. r.expects = "after" /\ r.path = p /\ r.nest = n
    BY WhereHas
  <2>2. t = Mark(CloseBrace) /\ t # Mark(Comma)
    BY MarksDiffer
  <2> HIDE DEF r, t
  <2>3. Read(r, t) = After(r, t)
    BY <2>1 DEF Read
  <2>4. After(r, t) = Shuts(AtPath(r, Front(r.path)))
    BY <1>1, <2>1, <2>2 DEF After, AtPath
  <2>5. QED
    BY <2>1, <2>3, <2>4, ShutStep DEF r, t
<1>2. ASSUME Last(n) = "array"
      PROVE  Read(Where("after", n, p, ls), Mark(CloseBracket)) =
                Where("after", Front(n), Front(p), ls)
  <2> DEFINE r == Where("after", n, p, ls)
             t == Mark(CloseBracket)
  <2>1. r.expects = "after" /\ r.path = p /\ r.nest = n
    BY WhereHas
  <2>2. t = Mark(CloseBracket) /\ t # Mark(Comma)
    BY MarksDiffer
  <2> HIDE DEF r, t
  <2>3. Read(r, t) = After(r, t)
    BY <2>1 DEF Read
  <2>4. After(r, t) = Shuts(AtPath(r, Front(r.path)))
    BY <1>2, <2>1, <2>2 DEF After, AtPath
  <2>5. QED
    BY <2>1, <2>3, <2>4, ShutStep DEF r, t
<1>3. Read(Where("first_value", n, p, ls), Mark(CloseBracket)) =
         Where("after", Front(n), Front(p), ls)
  <2> DEFINE r == Where("first_value", n, p, ls)
             t == Mark(CloseBracket)
  <2>1. r.expects = "first_value" /\ r.path = p
    BY WhereHas
  <2>2. t = Mark(CloseBracket)
    OBVIOUS
  <2> HIDE DEF r, t
  <2>3. Read(r, t) = Shuts(AtPath(r, Front(r.path)))
    BY <2>1, <2>2 DEF Read, AtPath
  <2>4. QED
    BY <2>1, <2>3, ShutStep DEF r, t
<1>4. QED
  BY <1>1, <1>2, <1>3

-----------------------------------------------------------------------------
(* What a text tells.                                                      *)

Leaf == Seq(Int) \X {"string", "number"} \X Seq(Int)
Meaning(ls) == [i \in DOMAIN ls |-> Understood(ls[i])]

\* The scanner s has come to where m is, whose leaves are those of the document.
Settled(s, m) == \E ls \in Seq(Leaf) :
    Clean(s, Where(m.expects, m.nest, m.path, ls)) /\ Meaning(ls) = m.leaves
Stands(s, m) == \E ls \in Seq(Leaf) :
    Late(s, Where(m.expects, m.nest, m.path, ls)) /\ Meaning(ls) = m.leaves

\* The text takes a reader from m to w.
Leads(text, m, w) == \A s : Stands(s, m) => \E x : Scans(s, text, x) /\ Stands(x, w)

\* Where a scanner stands, in terms of what the reader has read.
LEMMA StandsIs ==
    ASSUME NEW s, NEW e, NEW n, NEW p, NEW d
    PROVE  /\ Stands(s, Where(e, n, p, d)) <=>
                 \E ls \in Seq(Leaf) : Late(s, Where(e, n, p, ls)) /\ Meaning(ls) = d
           /\ Settled(s, Where(e, n, p, d)) <=>
                 \E ls \in Seq(Leaf) : Clean(s, Where(e, n, p, ls)) /\ Meaning(ls) = d
           /\ Settled(s, Where(e, n, p, d)) => Stands(s, Where(e, n, p, d))
<1> DEFINE m == Where(e, n, p, d)
<1>1. m.expects = e /\ m.nest = n /\ m.path = p /\ m.leaves = d
  BY WhereHas
<1> HIDE DEF m
<1>2. Stands(s, m) <=>
         \E ls \in Seq(Leaf) : Late(s, Where(e, n, p, ls)) /\ Meaning(ls) = d
  BY <1>1 DEF Stands
<1>3. Settled(s, m) <=>
         \E ls \in Seq(Leaf) : Clean(s, Where(e, n, p, ls)) /\ Meaning(ls) = d
  BY <1>1 DEF Settled
<1>4. Settled(s, m) => Stands(s, m)
  BY DEF Settled, Stands, Late
<1>5. QED
  BY <1>2, <1>3, <1>4 DEF m

\* The empty text leads nowhere.
LEMMA LeadsNothing == \A m : Leads(<<>>, m, m)
  BY ScansNothing DEF Leads

\* A text after a text leads on from where the first has led.
LEMMA LeadsJoined ==
    ASSUME NEW S, NEW a \in Seq(S), NEW b \in Seq(S), NEW m, NEW w, NEW v,
           Leads(a, m, w), Leads(b, w, v)
    PROVE  Leads(a \o b, m, v)
<1> SUFFICES ASSUME NEW s, Stands(s, m)
             PROVE  \E y : Scans(s, a \o b, y) /\ Stands(y, v)
  BY DEF Leads
<1>1. PICK x : Scans(s, a, x) /\ Stands(x, w)
  BY DEF Leads
<1>2. PICK y : Scans(x, b, y) /\ Stands(y, v)
  BY <1>1 DEF Leads
<1>3. Scans(s, a \o b, y)
  BY <1>1, <1>2, ScansJoined
<1>4. QED
  BY <1>2, <1>3

\* Of three characters.
LEMMA ScansThree ==
    ASSUME NEW s, NEW a, NEW b, NEW c
    PROVE  Scans(s, <<a, b, c>>, Scan(Scan(Scan(s, a), b), c))
<1> DEFINE S == {a, b, c}
           x == Scan(Scan(s, a), b)
<1>1. Scans(s, <<a, b>>, x) /\ Scans(x, <<c>>, Scan(x, c))
  BY ScansTwo, ScansOne
<1>2. a \in S /\ b \in S /\ c \in S
  OBVIOUS
<1> HIDE DEF S
<1>3. <<a, b>> \in Seq(S) /\ <<c>> \in Seq(S)
  BY <1>2, Tuples
<1>4. <<a, b>> \o <<c>> = <<a, b, c>>
  <2>1. Append(<<a, b>>, c) = <<a, b, c>>
    BY Appending
  <2>2. \A u \in Seq(S), e \in S : Append(u, e) = u \o <<e>>
    BY AppendIsConcat
  <2>3. Append(<<a, b>>, c) = <<a, b>> \o <<c>>
    BY <1>2, <1>3, <2>2, Zenon
  <2>4. QED
    BY <2>1, <2>3, Zenon
<1> HIDE DEF x
<1>5. Scans(s, <<a, b>> \o <<c>>, Scan(x, c))
  BY <1>1, <1>3, ScansJoined
<1>6. Scans(s, <<a, b, c>>, Scan(x, c))
  BY <1>4, <1>5, Zenon
<1>7. QED
  BY <1>6 DEF x

\* One more leaf.
LEMMA MeaningGrows ==
    ASSUME NEW ls \in Seq(Leaf), NEW l \in Leaf
    PROVE  /\ Append(ls, l) \in Seq(Leaf)
           /\ Meaning(Append(ls, l)) = Meaning(ls) \o <<Understood(l)>>
           /\ Meaning(<<>>) = <<>>
<1> DEFINE S == {Understood(x) : x \in Leaf}
           more == Append(ls, l)
           a == Meaning(more)
           c == Meaning(ls)
           u == Understood(l)
           b == Append(c, u)
           n == Len(ls)
<1>1. /\ more \in Seq(Leaf) /\ Len(more) = n + 1 /\ n \in Nat
      /\ \A i \in 1..n : more[i] = ls[i]
      /\ more[n + 1] = l
  BY AppendProperties, LenProperties
<1>2. DOMAIN more = 1..(n + 1) /\ DOMAIN ls = 1..n
  BY <1>1, LenProperties
<1>3. u \in S /\ \A i \in 1..n : ls[i] \in Leaf /\ Understood(ls[i]) \in S
  BY <1>1, ElementOfSeq
<1>4. /\ DOMAIN a = 1..(n + 1) /\ a = [i \in DOMAIN a |-> a[i]]
      /\ \A i \in 1..(n + 1) : a[i] = Understood(more[i])
  BY <1>2 DEF Meaning
<1>5. /\ DOMAIN c = 1..n /\ c = [i \in DOMAIN c |-> c[i]]
      /\ \A i \in 1..n : c[i] = Understood(ls[i])
  BY <1>2 DEF Meaning
<1> HIDE DEF S, more, a, c
<1>6. c \in Seq(S) /\ Len(c) = n
  <2>1. \A i \in DOMAIN ls : c[i] \in S
    BY <1>2, <1>3, <1>5
  <2>2. QED
    BY <1>2, <1>5, <2>1, Mapped
<1>7. /\ b \in Seq(S) /\ Len(b) = n + 1
      /\ \A i \in 1..n : b[i] = c[i]
      /\ b[n + 1] = u
      /\ b = c \o <<u>>
  BY <1>3, <1>6, AppendProperties, AppendIsConcat
<1>8. DOMAIN b = 1..(n + 1) /\ b = [i \in DOMAIN b |-> b[i]]
  BY <1>1, <1>7, LenProperties
<1> HIDE DEF b
<1>9. ASSUME NEW i \in 1..(n + 1)
      PROVE  a[i] = b[i]
  <2>1. i = n + 1 \/ i \in 1..n
    BY <1>1
  <2>2. CASE i = n + 1
    BY <1>1, <1>4, <1>7, <2>2
  <2>3. CASE i \in 1..n
    BY <1>1, <1>4, <1>5, <1>7, <2>3
  <2>4. QED
    BY <2>1, <2>2, <2>3
<1>10. a = b
  BY <1>4, <1>8, <1>9
<1>11. Meaning(<<>>) = <<>>
  BY DEF Meaning
<1>12. QED
  BY <1>1, <1>7, <1>10, <1>11 DEF a, c, more

\* A key is read where a name is expected.
LEMMA NameTold ==
    ASSUME NEW s, NEW r, Late(s, r), NEW a \in Punctuation, NEW key \in Nat, key >= 256,
           NEW e \in {"name", "first_name"}, NEW n, NEW p, NEW ls,
           Read(r, Mark(a)) = Where(e, n, p, ls)
    PROVE  \E y : /\ Scans(s, <<a, key, Colon>>, y)
                  /\ Clean(y, Where("value", n, Append(p, key), ls))
<1> DEFINE x1 == Scan(s, a)
           x2 == Scan(x1, key)
           x3 == Scan(x2, Colon)
<1>1. Clean(x1, Where(e, n, p, ls))
  BY MarkIsRead
<1> HIDE DEF x1
<1>2. Clean(x2, Where("colon", n, Append(p, key), ls))
  BY <1>1, KeyIsRead, NameStep
<1>3. Late(x2, Where("colon", n, Append(p, key), ls)) /\ Colon \in Punctuation
  BY <1>2 DEF Late, Punctuation
<1> HIDE DEF x2
<1>4. Clean(x3, Where("value", n, Append(p, key), ls))
  BY <1>3, MarkIsRead, ColonStep
<1>5. Scans(s, <<a, key, Colon>>, x3)
  BY ScansThree DEF x1, x2
<1> HIDE DEF x3
<1>6. QED
  BY <1>4, <1>5

\* A string or a number is read where a value is expected.
LEMMA ValueTold ==
    ASSUME NEW y, NEW n, NEW p \in Seq(Int), NEW ls \in Seq(Leaf),
           Clean(y, Where("value", n, p, ls)),
           NEW text, NEW kind \in {"string", "number"}, NEW content \in Seq(Int),
           Spells(text, Token(kind, content))
    PROVE  \E x : /\ Scans(y, text, x)
                  /\ Stands(x, Where("after", n, p,
                                     Meaning(ls) \o <<Understood(<<p, kind, content>>)>>))
<1> DEFINE t == Token(kind, content)
           leaf == <<p, kind, content>>
<1>1. t.kind = kind /\ t.text = content /\ t.kind # "punctuation"
  BY DEF Token
<1> HIDE DEF t
<1>2. PICK x : Scans(y, text, x) /\ Late(x, Read(Where("value", n, p, ls), t))
  BY DEF Spells, t
<1>3. Read(Where("value", n, p, ls), t) = Where("after", n, p, Append(ls, leaf))
  BY <1>1, LeafStep
<1>4. leaf \in Leaf
  BY DEF Leaf
<1> HIDE DEF leaf
<1>5. /\ Append(ls, leaf) \in Seq(Leaf)
      /\ Meaning(Append(ls, leaf)) = Meaning(ls) \o <<Understood(leaf)>>
  BY <1>4, MeaningGrows
<1> DEFINE more == Append(ls, leaf)
           told == Meaning(ls) \o <<Understood(leaf)>>
<1>6. Late(x, Where("after", n, p, more)) /\ more \in Seq(Leaf) /\ Meaning(more) = told
  BY <1>2, <1>3, <1>5
<1> HIDE DEF more, told
<1>7. Stands(x, Where("after", n, p, told))
  BY <1>6, StandsIs
<1>8. QED
  BY <1>2, <1>7 DEF leaf, told

\* One more member of an object.
LEMMA ThenLeads ==
    ASSUME NEW n, n # <<>>, Last(n) = "object", NEW p \in Seq(Int), NEW k \in Int,
           NEW key \in Nat, key >= 256, NEW d, NEW text \in Seq(Plain),
           NEW kind \in {"string", "number"}, NEW content \in Seq(Int),
           Spells(text, Token(kind, content))
    PROVE  Leads(<<Comma, key, Colon>> \o text, Where("after", n, Append(p, k), d),
                 Where("after", n, Append(p, key),
                       d \o <<Understood(<<Append(p, key), kind, content>>)>>))
<1> DEFINE q == Append(p, key)
           head == <<Comma, key, Colon>>
           told == Where("after", n, q, d \o <<Understood(<<q, kind, content>>)>>)
           m == Where("after", n, Append(p, k), d)
<1>1. q \in Seq(Int) /\ Append(p, k) \in Seq(Int)
  BY AppendProperties
<1>2. head \in Seq(Plain)
  <2>1. key \in Plain
    BY Codes DEF Plain
  <2>2. QED
    BY <2>1, MarksArePlain, Tuples
<1>3. Front(Append(p, k)) = p /\ Comma \in Punctuation
  BY Undoing DEF Punctuation
<1>4. ASSUME NEW s, Stands(s, m)
      PROVE  \E x : Scans(s, head \o text, x) /\ Stands(x, told)
  <2>1. PICK ls \in Seq(Leaf) :
           Late(s, Where("after", n, Append(p, k), ls)) /\ Meaning(ls) = d
    BY <1>4, StandsIs
  <2>2. Read(Where("after", n, Append(p, k), ls), Mark(Comma)) = Where("name", n, p, ls)
    BY <1>3, CommaStep
  <2> HIDE DEF told, q
  <2>3. PICK y : Scans(s, head, y) /\ Clean(y, Where("value", n, q, ls))
    BY <1>3, <2>1, <2>2, NameTold DEF q
  <2>4. PICK x : /\ Scans(y, text, x)
                 /\ Stands(x, Where("after", n, q,
                                    Meaning(ls) \o <<Understood(<<q, kind, content>>)>>))
    BY <1>1, <2>3, ValueTold
  <2>5. Stands(x, told)
    BY <2>1, <2>4 DEF told
  <2> HIDE DEF head
  <2>6. Scans(s, head \o text, x)
    BY <1>2, <2>3, <2>4, ScansJoined
  <2>7. QED
    BY <2>5, <2>6
<1> HIDE DEF m, head, told
<1>5. Leads(head \o text, m, told)
  BY <1>4 DEF Leads
<1>6. QED
  BY <1>5 DEF m, head, told

\* The first member of an object.
LEMMA FirstLeads ==
    ASSUME NEW n, NEW p \in Seq(Int), NEW e \in {"value", "first_value"},
           NEW key \in Nat, key >= 256, NEW d, NEW text \in Seq(Plain),
           NEW kind \in {"string", "number"}, NEW content \in Seq(Int),
           Spells(text, Token(kind, content))
    PROVE  Leads(<<OpenBrace, key, Colon>> \o text, Where(e, n, p, d),
                 Where("after", Append(n, "object"), Append(p, key),
                       d \o <<Understood(<<Append(p, key), kind, content>>)>>))
<1> DEFINE q == Append(p, key)
           down == Append(n, "object")
           head == <<OpenBrace, key, Colon>>
           told == Where("after", down, q, d \o <<Understood(<<q, kind, content>>)>>)
           m == Where(e, n, p, d)
<1>1. q \in Seq(Int)
  BY AppendProperties
<1>2. head \in Seq(Plain)
  <2>1. key \in Plain
    BY Codes DEF Plain
  <2>2. QED
    BY <2>1, MarksArePlain, Tuples
<1>3. OpenBrace \in Punctuation
  BY DEF Punctuation
<1>4. ASSUME NEW s, Stands(s, m)
      PROVE  \E x : Scans(s, head \o text, x) /\ Stands(x, told)
  <2>1. PICK ls \in Seq(Leaf) : Late(s, Where(e, n, p, ls)) /\ Meaning(ls) = d
    BY <1>4, StandsIs
  <2>2. Read(Where(e, n, p, ls), Mark(OpenBrace)) = Where("first_name", down, p, ls)
    BY OpenStep
  <2> HIDE DEF told, q, down
  <2>3. PICK y : Scans(s, head, y) /\ Clean(y, Where("value", down, q, ls))
    BY <1>3, <2>1, <2>2, NameTold DEF q
  <2>4. PICK x : /\ Scans(y, text, x)
                 /\ Stands(x, Where("after", down, q,
                                    Meaning(ls) \o <<Understood(<<q, kind, content>>)>>))
    BY <1>1, <2>3, ValueTold
  <2>5. Stands(x, told)
    BY <2>1, <2>4 DEF told
  <2> HIDE DEF head
  <2>6. Scans(s, head \o text, x)
    BY <1>2, <2>3, <2>4, ScansJoined
  <2>7. QED
    BY <2>5, <2>6
<1> HIDE DEF m, head, told
<1>5. Leads(head \o text, m, told)
  BY <1>4 DEF Leads
<1>6. QED
  BY <1>5 DEF m, head, told, down, q

\* One mark, after whatever.
LEMMA MarkLeads ==
    ASSUME NEW c \in Punctuation, NEW e, NEW n, NEW p, NEW d, NEW e2, NEW n2, NEW p2,
           \A ls : Read(Where(e, n, p, ls), Mark(c)) = Where(e2, n2, p2, ls)
    PROVE  /\ \A s : Stands(s, Where(e, n, p, d)) =>
                        Settled(Scan(s, c), Where(e2, n2, p2, d))
           /\ Leads(<<c>>, Where(e, n, p, d), Where(e2, n2, p2, d))
<1>1. ASSUME NEW s, Stands(s, Where(e, n, p, d))
      PROVE  /\ Settled(Scan(s, c), Where(e2, n2, p2, d))
             /\ Stands(Scan(s, c), Where(e2, n2, p2, d))
  <2>1. PICK ls \in Seq(Leaf) : Late(s, Where(e, n, p, ls)) /\ Meaning(ls) = d
    BY <1>1, StandsIs
  <2>2. Clean(Scan(s, c), Read(Where(e, n, p, ls), Mark(c)))
    BY <2>1, MarkIsRead
  <2>3. Clean(Scan(s, c), Where(e2, n2, p2, ls))
    BY <2>2
  <2>4. QED
    BY <2>1, <2>3, StandsIs
<1>2. Leads(<<c>>, Where(e, n, p, d), Where(e2, n2, p2, d))
  BY <1>1, ScansOne DEF Leads
<1>3. QED
  BY <1>1, <1>2

\* An object ends.
LEMMA ShutLeads ==
    ASSUME NEW n, n # <<>>, Last(n) = "object", NEW p, NEW d
    PROVE  Leads(<<CloseBrace>>, Where("after", n, p, d),
                 Where("after", Front(n), Front(p), d))
<1>1. \A ls : Read(Where("after", n, p, ls), Mark(CloseBrace)) =
                 Where("after", Front(n), Front(p), ls)
  BY CloseStep
<1>2. CloseBrace \in Punctuation
  BY DEF Punctuation
<1>3. QED
  BY <1>1, <1>2, MarkLeads

\* The next place of an array.
LEMMA PlaceLeads ==
    ASSUME NEW n, n # <<>>, Last(n) = "array", NEW p \in Seq(Int), NEW i \in Int, NEW d
    PROVE  Leads(<<Comma>>, Where("after", n, Append(p, i), d),
                 Where("value", n, Append(p, i + 1), d))
<1>1. \A ls : Read(Where("after", n, Append(p, i), ls), Mark(Comma)) =
                 Where("value", n, Append(p, i + 1), ls)
  BY PlaceStep
<1>2. Comma \in Punctuation
  BY DEF Punctuation
<1> DEFINE q == Append(p, i)
           r == Append(p, i + 1)
<1> HIDE DEF q, r
<1>3. \A ls : Read(Where("after", n, q, ls), Mark(Comma)) = Where("value", n, r, ls)
  BY <1>1 DEF q, r
<1>4. Leads(<<Comma>>, Where("after", n, q, d), Where("value", n, r, d))
  BY <1>2, <1>3, MarkLeads
<1>5. QED
  BY <1>4 DEF q, r

\* A member of an object that is an array.
LEMMA ArrayLeads ==
    ASSUME NEW n, n # <<>>, Last(n) = "object", NEW p \in Seq(Int), NEW k \in Int,
           NEW key \in Nat, key >= 256, NEW d
    PROVE  Leads(<<Comma, key, Colon>> \o <<OpenBracket>>,
                 Where("after", n, Append(p, k), d),
                 Where("first_value", Append(n, "array"), Append(Append(p, key), 1), d))
<1> DEFINE q == Append(p, key)
           head == <<Comma, key, Colon>>
           mark == <<OpenBracket>>
           told == Where("first_value", Append(n, "array"), Append(q, 1), d)
           m == Where("after", n, Append(p, k), d)
<1>1. head \in Seq(Plain) /\ mark \in Seq(Plain)
  <2>1. key \in Plain
    BY Codes DEF Plain
  <2>2. QED
    BY <2>1, MarksArePlain, Tuples
<1>2. Front(Append(p, k)) = p /\ Comma \in Punctuation /\ OpenBracket \in Punctuation
  BY Undoing DEF Punctuation
<1>3. ASSUME NEW s, Stands(s, m)
      PROVE  \E x : Scans(s, head \o mark, x) /\ Stands(x, told)
  <2>1. PICK ls \in Seq(Leaf) :
           Late(s, Where("after", n, Append(p, k), ls)) /\ Meaning(ls) = d
    BY <1>3, StandsIs
  <2>2. Read(Where("after", n, Append(p, k), ls), Mark(Comma)) = Where("name", n, p, ls)
    BY <1>2, CommaStep
  <2> HIDE DEF told, q
  <2>3. PICK y : Scans(s, head, y) /\ Clean(y, Where("value", n, q, ls))
    BY <1>2, <2>1, <2>2, NameTold DEF q
  <2> DEFINE x == Scan(y, OpenBracket)
             down == Append(n, "array")
             place == Append(q, 1)
  <2>4. Scans(y, mark, x)
    BY ScansOne
  <2>5. Read(Where("value", n, q, ls), Mark(OpenBracket)) =
           Where("first_value", down, place, ls)
    BY ArrayStep
  <2> HIDE DEF down, place
  <2>6. Clean(x, Where("first_value", down, place, ls))
    BY <1>2, <2>3, <2>5, MarkIsRead DEF Late
  <2> HIDE DEF x
  <2>7. Stands(x, Where("first_value", down, place, d))
    BY <2>1, <2>6, StandsIs
  <2>8. Stands(x, told)
    BY <2>7 DEF told, down, place
  <2> HIDE DEF head, mark
  <2>9. Scans(s, head \o mark, x)
    BY <1>1, <2>3, <2>4, ScansJoined
  <2>10. QED
    BY <2>8, <2>9
<1> HIDE DEF m, head, mark, told
<1>4. Leads(head \o mark, m, told)
  BY <1>3 DEF Leads
<1>5. QED
  BY <1>4 DEF m, head, mark, told, q

\* The array ends, and the object that it is a member of.
LEMMA EndSettles ==
    ASSUME NEW n \in Seq({"object", "array"}), NEW p, NEW d,
           NEW e \in {"after", "first_value"}, NEW s,
           n # <<>>, Last(n) = "object",
           Stands(s, Where(e, Append(n, "array"), p, d))
    PROVE  \E x : /\ Scans(s, <<CloseBracket, CloseBrace>>, x)
                  /\ Settled(x, Where("after", Front(n), Front(Front(p)), d))
<1> DEFINE down == Append(n, "array")
           y == Scan(s, CloseBracket)
           x == Scan(y, CloseBrace)
<1>1. down # <<>> /\ Last(down) = "array" /\ Front(down) = n
  <2> DEFINE array == "array"
  <2>1. array \in {"object", "array"}
    OBVIOUS
  <2> HIDE DEF array
  <2>2. /\ Append(n, array) # <<>> /\ Last(Append(n, array)) = array
        /\ Front(Append(n, array)) = n
    BY <2>1, Undoing
  <2>3. QED
    BY <2>2, Zenon DEF array
<1>2. CloseBracket \in Punctuation /\ CloseBrace \in Punctuation
  BY DEF Punctuation
<1> HIDE DEF down
<1>3. \A ls : Read(Where(e, down, p, ls), Mark(CloseBracket)) =
                 Where("after", n, Front(p), ls)
  <2>1. \A ls : /\ Read(Where("after", down, p, ls), Mark(CloseBracket)) =
                     Where("after", n, Front(p), ls)
                /\ Read(Where("first_value", down, p, ls), Mark(CloseBracket)) =
                     Where("after", n, Front(p), ls)
    BY <1>1, CloseStep
  <2>2. e = "after" \/ e = "first_value"
    OBVIOUS
  <2>3. QED
    BY <2>1, <2>2
<1>4. Stands(s, Where(e, down, p, d))
  BY DEF down
<1>5. Settled(y, Where("after", n, Front(p), d))
  BY <1>2, <1>3, <1>4, MarkLeads
<1> HIDE DEF y
<1>6. Stands(y, Where("after", n, Front(p), d))
  BY <1>5, StandsIs
<1>7. \A ls : Read(Where("after", n, Front(p), ls), Mark(CloseBrace)) =
                 Where("after", Front(n), Front(Front(p)), ls)
  BY CloseStep
<1>8. Settled(x, Where("after", Front(n), Front(Front(p)), d))
  BY <1>2, <1>6, <1>7, MarkLeads
<1>9. Scans(s, <<CloseBracket, CloseBrace>>, x)
  BY ScansTwo DEF y
<1> HIDE DEF x
<1>10. QED
  BY <1>8, <1>9

-----------------------------------------------------------------------------
(* What the calls of write_batch() tell.                                   *)

\* What the pass with the appender writes.
Text(calls) == FlattenSeq([i \in DOMAIN calls |-> Appended(calls[i])])

\* The text of the calls is put together call by call.
LEMMA TextIs ==
    ASSUME NEW calls \in Calls
    PROVE  /\ [i \in DOMAIN calls |-> Appended(calls[i])] \in Seq(Seq(Plain))
           /\ Len([i \in DOMAIN calls |-> Appended(calls[i])]) = Len(calls)
           /\ Text(calls) \in Seq(Plain)
           /\ \A i \in 1..Len(calls) :
                 [j \in DOMAIN calls |-> Appended(calls[j])][i] = Appended(calls[i])
<1> DEFINE texts == [i \in DOMAIN calls |-> Appended(calls[i])]
<1>1. /\ calls \in Seq(SinkCall) /\ DOMAIN calls = 1..Len(calls)
      /\ \A i \in DOMAIN calls : calls[i] \in SinkCall
  BY ElementOfSeq, LenProperties DEF Calls
<1>2. /\ DOMAIN texts = DOMAIN calls /\ texts = [i \in DOMAIN texts |-> texts[i]]
      /\ \A i \in DOMAIN calls : texts[i] = Appended(calls[i])
  OBVIOUS
<1> HIDE DEF texts
<1>3. \A i \in DOMAIN calls : texts[i] \in Seq(Plain)
  BY <1>1, <1>2, CallHasItsLength
<1>4. texts \in Seq(Seq(Plain)) /\ Len(texts) = Len(calls)
  BY <1>1, <1>2, <1>3, Mapped
<1>5. FlattenSeq(texts) \in Seq(Plain)
  BY <1>4, Flattening
<1>6. Text(calls) \in Seq(Plain)
  BY <1>5 DEF Text, texts
<1>7. QED
  BY <1>1, <1>2, <1>4, <1>6 DEF texts

\* Calls after calls write text after text.
LEMMA TextJoined ==
    ASSUME NEW a \in Calls, NEW b \in Calls
    PROVE  Text(a \o b) = Text(a) \o Text(b)
<1> DEFINE c == a \o b
           n == Len(a)
           m == Len(b)
           A == [i \in DOMAIN a |-> Appended(a[i])]
           B == [i \in DOMAIN b |-> Appended(b[i])]
           C == [i \in DOMAIN c |-> Appended(c[i])]
<1>1. /\ A \in Seq(Seq(Plain)) /\ B \in Seq(Seq(Plain)) /\ Len(A) = n /\ Len(B) = m
      /\ \A i \in 1..n : A[i] = Appended(a[i])
      /\ \A i \in 1..m : B[i] = Appended(b[i])
  BY TextIs
<1>2. /\ c \in Calls /\ Len(c) = n + m /\ n \in Nat /\ m \in Nat
      /\ \A i \in 1..(n + m) : c[i] = IF i <= n THEN a[i] ELSE b[i - n]
  <2>1. a \in Seq(SinkCall) /\ b \in Seq(SinkCall)
    BY DEF Calls
  <2>2. QED
    BY <2>1, ConcatProperties, LenProperties DEF Calls
<1> HIDE DEF c
<1>3. /\ C \in Seq(Seq(Plain)) /\ Len(C) = n + m
      /\ \A i \in 1..(n + m) : C[i] = Appended(c[i])
  BY <1>2, TextIs
<1> HIDE DEF A, B, C, n, m
<1>4. /\ A \o B \in Seq(Seq(Plain)) /\ Len(A \o B) = n + m
      /\ \A i \in 1..(n + m) : (A \o B)[i] = IF i <= n THEN A[i] ELSE B[i - n]
  <2>1. /\ A \o B \in Seq(Seq(Plain)) /\ Len(A \o B) = Len(A) + Len(B)
        /\ \A i \in 1..(Len(A) + Len(B)) :
              (A \o B)[i] = IF i <= Len(A) THEN A[i] ELSE B[i - Len(A)]
    BY <1>1, ConcatProperties
  <2>2. QED
    BY <1>1, <2>1, Zenon
<1> DEFINE D == A \o B
<1>5. ASSUME NEW i \in 1..(n + m)
      PROVE  C[i] = D[i]
  <2> HIDE DEF D
  <2>1. CASE i <= n
    <3>1. i \in 1..n
      BY <1>2, <2>1
    <3>2. D[i] = A[i] /\ c[i] = a[i]
      BY <1>2, <1>4, <2>1 DEF D
    <3>3. QED
      BY <1>1, <1>3, <3>1, <3>2
  <2>2. CASE ~ (i <= n)
    <3>1. i - n \in 1..m
      BY <1>2, <2>2
    <3>2. D[i] = B[i - n] /\ c[i] = b[i - n]
      BY <1>2, <1>4, <2>2 DEF D
    <3>3. QED
      BY <1>1, <1>3, <3>1, <3>2
  <2>3. QED
    BY <2>1, <2>2
<1>6. D \in Seq(Seq(Plain)) /\ Len(D) = n + m
  BY <1>4
<1> HIDE DEF D
<1>7. C = D
  BY <1>3, <1>5, <1>6, SeqEqual
<1>8. FlattenSeq(A \o B) = FlattenSeq(A) \o FlattenSeq(B)
  BY <1>1, FlattenJoined
<1>9. FlattenSeq(C) = FlattenSeq(A) \o FlattenSeq(B)
  BY <1>7, <1>8 DEF D
<1>10. QED
  BY <1>9 DEF Text, A, B, C, c

\* No call writes nothing.
LEMMA TextOfNone == Text(<<>>) = <<>> /\ <<>> \in Calls
<1>1. <<>> \in Calls
  BY Tuples DEF Calls
<1> DEFINE none == [i \in DOMAIN <<>> |-> Appended(<<>>[i])]
<1>2. none = <<>>
  OBVIOUS
<1>3. FlattenSeq(<<>>) = <<>>
  BY EmptySeq DEF FlattenSeq
<1> HIDE DEF none
<1>4. FlattenSeq(none) = <<>>
  BY <1>2, <1>3
<1>5. QED
  BY <1>1, <1>4 DEF Text, none

\* One call writes what it appends.
LEMMA TextOfOne ==
    ASSUME NEW sink, NEW text, NEW value,
           [sink |-> sink, text |-> text, value |-> value] \in SinkCall
    PROVE  Text(Call(sink, text, value)) =
              Appended([sink |-> sink, text |-> text, value |-> value])
<1> DEFINE call == [sink |-> sink, text |-> text, value |-> value]
           calls == <<call>>
           texts == [i \in DOMAIN calls |-> Appended(calls[i])]
<1>1. calls = Call(sink, text, value)
  BY DEF Call
<1>2. calls \in Calls /\ Len(calls) = 1 /\ calls[1] = call
  BY Tuples DEF Calls
<1> HIDE DEF calls, call
<1>3. /\ texts \in Seq(Seq(Plain)) /\ Len(texts) = Len(calls)
      /\ \A i \in 1..Len(calls) : texts[i] = Appended(calls[i])
  BY <1>2, TextIs
<1> HIDE DEF texts
<1>4. texts[1] = Appended(call) /\ Len(texts) = 1 /\ 1 \in 1..1
  BY <1>2, <1>3
<1>5. PICK g : /\ g[0] = <<>>
               /\ \A k \in 1..Len(texts) : g[k] = g[k - 1] \o texts[k]
               /\ FlattenSeq(texts) = g[Len(texts)]
  BY <1>3, FlattenSteps
<1>6. g[1] = <<>> \o texts[1]
  <2>1. 1 \in 1..1 /\ 1 - 1 = 0
    OBVIOUS
  <2>2. QED
    BY <1>5, <1>4, <2>1
<1>7. texts[1] \in Seq(Plain)
  BY <1>3, <1>4, ElementOfSeq
<1>8. <<>> \o texts[1] = texts[1]
  BY <1>7, ConcatEmptySeq
<1>9. FlattenSeq(texts) = Appended(call)
  BY <1>4, <1>5, <1>6, <1>8
<1>10. QED
  BY <1>1, <1>9 DEF Text, texts, call

\* What each sink writes.
LEMMA TextOfCalls ==
    /\ \A text \in Seq(Plain) : Text(Raw(text)) = text
    /\ \A text \in Seq(Byte) :
          Text(Quoted(text)) = JsonQuoted(text) /\ Text(Bytes(text)) = Hex(text)
    /\ \A value \in Int : Text(Number(value)) = BatchNumberText(value)
<1>1. ASSUME NEW text \in Seq(Plain)
      PROVE  Text(Raw(text)) = text
  <2> DEFINE call == [sink |-> "raw", text |-> text, value |-> 0]
  <2>1. call \in SinkCall
    BY DEF SinkCall
  <2>2. Appended(call) = text
    BY DEF Appended
  <2>3. QED
    BY <2>1, <2>2, TextOfOne DEF Raw
<1>2. ASSUME NEW text \in Seq(Byte)
      PROVE  Text(Quoted(text)) = JsonQuoted(text)
  <2> DEFINE call == [sink |-> "quoted", text |-> text, value |-> 0]
  <2>1. call \in SinkCall
    BY DEF SinkCall
  <2>2. Appended(call) = JsonQuoted(text)
    BY DEF Appended
  <2>3. QED
    BY <2>1, <2>2, TextOfOne DEF Quoted
<1>3. ASSUME NEW text \in Seq(Byte)
      PROVE  Text(Bytes(text)) = Hex(text)
  <2> DEFINE call == [sink |-> "hex", text |-> text, value |-> 0]
  <2>1. call \in SinkCall
    BY DEF SinkCall
  <2>2. Appended(call) = Hex(text)
    BY DEF Appended
  <2>3. QED
    BY <2>1, <2>2, TextOfOne DEF Bytes
<1>4. ASSUME NEW value \in Int
      PROVE  Text(Number(value)) = BatchNumberText(value)
  <2> DEFINE call == [sink |-> "number", text |-> <<>>, value |-> value]
  <2>1. call \in SinkCall
    BY DEF SinkCall
  <2>2. Appended(call) = BatchNumberText(value)
    BY DEF Appended
  <2>3. QED
    BY <2>1, <2>2, TextOfOne DEF Number
<1>5. QED
  BY <1>1, <1>2, <1>3, <1>4

\* The calls take a reader from m to w.
Sends(calls, m, w) == calls \in Calls /\ Leads(Text(calls), m, w)

\* No call leads nowhere.
LEMMA SendsNothing == \A m : Sends(<<>>, m, m)
  BY TextOfNone, LeadsNothing DEF Sends

\* Calls after calls lead on from where the first have led.
LEMMA SendsJoined ==
    ASSUME NEW a, NEW b, NEW m, NEW w, NEW v, Sends(a, m, w), Sends(b, w, v)
    PROVE  Sends(a \o b, m, v)
<1>1. /\ a \in Calls /\ b \in Calls /\ Leads(Text(a), m, w) /\ Leads(Text(b), w, v)
  BY DEF Sends
<1>2. a \o b \in Calls /\ Text(a \o b) = Text(a) \o Text(b)
  BY <1>1, Composing, TextJoined
<1>3. Leads(Text(a) \o Text(b), m, v)
  BY <1>1, TextIs, LeadsJoined
<1>4. QED
  BY <1>2, <1>3 DEF Sends

\* Calls that are flattened.
LEMMA FlattenSends ==
    ASSUME NEW cs \in Seq(Calls), NEW st,
           \A k \in 1..Len(cs) : Sends(cs[k], st[k - 1], st[k])
    PROVE  Sends(FlattenSeq(cs), st[0], st[Len(cs)])
<1> DEFINE n == Len(cs)
<1>1. n \in Nat /\ cs \in Seq(Seq(SinkCall))
  BY LenProperties DEF Calls
<1>2. PICK g : /\ g[0] = <<>>
               /\ \A k \in 1..n : g[k] = g[k - 1] \o cs[k]
               /\ FlattenSeq(cs) = g[n]
  BY <1>1, FlattenSteps
<1> DEFINE R == {k \in Nat : k <= n => Sends(g[k], st[0], st[k])}
<1>3. 0 \in R
  BY <1>2, SendsNothing
<1>4. ASSUME NEW k \in Nat, k \in R
      PROVE  k + 1 \in R
  <2>1. SUFFICES ASSUME k + 1 <= n
                 PROVE  Sends(g[k + 1], st[0], st[k + 1])
    OBVIOUS
  <2>2. k + 1 \in 1..n /\ (k + 1) - 1 = k /\ Sends(g[k], st[0], st[k])
    BY <1>1, <1>4, <2>1
  <2>3. Sends(cs[k + 1], st[k], st[k + 1]) /\ g[k + 1] = g[k] \o cs[k + 1]
    BY <1>2, <2>2
  <2>4. QED
    BY <2>2, <2>3, SendsJoined
<1> HIDE DEF R
<1>5. n \in R
  BY <1>1, <1>3, <1>4, Induction
<1>6. QED
  BY <1>1, <1>2, <1>5 DEF R

Nests == Seq({"object", "array"})
Keys == {key \in Nat : key >= 256}

\* After the member k of the object at p.
Past(n, p, k, d) == Where("after", n, Append(p, k), d)

\* What a leaf of an object is taken for.
LEMMA UnderstoodIs ==
    ASSUME NEW p \in Seq(Int), NEW key \in Int, NEW kind, NEW content
    PROVE  Understood(<<Append(p, key), kind, content>>) =
              <<Append(p, key), kind,
                IF key = Key.adv_data THEN Unhex(content) ELSE content>>
<1> DEFINE q == Append(p, key)
           l == <<q, kind, content>>
<1>1. Last(q) = key
  BY Undoing
<1> HIDE DEF q
<1>2. l[1] = q /\ l[2] = kind /\ l[3] = content
  OBVIOUS
<1>3. Understood(l) = IF Last(l[1]) = Key.adv_data THEN <<l[1], l[2], Unhex(l[3])>> ELSE l
  BY DEF Understood
<1>4. Last(l[1]) = key
  BY <1>1, <1>2
<1>5. CASE key = Key.adv_data
  <2>1. Understood(l) = <<l[1], l[2], Unhex(l[3])>>
    BY <1>3, <1>4, <1>5
  <2>2. Understood(l) = <<q, kind, Unhex(content)>>
    BY <1>2, <2>1
  <2>3. QED
    BY <1>5, <2>2 DEF q
<1>6. CASE key # Key.adv_data
  <2>1. Understood(l) = l
    BY <1>3, <1>4, <1>6
  <2>2. QED
    BY <1>6, <2>1 DEF q
<1>7. QED
  BY <1>5, <1>6

\* Only a payload is not as it is read.
LEMMA AsItIsRead ==
    ASSUME NEW p \in Seq(Int), NEW key \in Keys, key # Key.adv_data,
           NEW kind, NEW content
    PROVE  Understood(<<Append(p, key), kind, content>>) = <<Append(p, key), kind, content>>
<1> DEFINE q == Append(p, key)
           told == IF key = Key.adv_data THEN Unhex(content) ELSE content
<1>1. key \in Int
  BY DEF Keys
<1>2. Understood(<<q, kind, content>>) = <<q, kind, told>>
  BY <1>1, UnderstoodIs
<1>3. told = content
  OBVIOUS
<1> HIDE DEF told, q
<1>4. Understood(<<q, kind, content>>) = <<q, kind, content>>
  BY <1>2, <1>3
<1>5. QED
  BY <1>4 DEF q

\* The text of a member: a mark, its key, a colon and its value.
LEMMA MemberText ==
    ASSUME NEW mark \in {Comma, OpenBrace}, NEW key \in Keys, NEW value \in Calls
    PROVE  /\ Raw(<<mark, key, Colon>>) \o value \in Calls
           /\ Text(Raw(<<mark, key, Colon>>) \o value) = <<mark, key, Colon>> \o Text(value)
<1>1. <<mark, key, Colon>> \in Seq(Plain)
  <2>1. key \in Plain /\ mark \in Plain
    BY MarksArePlain, Codes DEF Plain, Keys
  <2>2. QED
    BY <2>1, MarksArePlain, Tuples
<1>2. /\ Raw(<<mark, key, Colon>>) \in Calls
      /\ Text(Raw(<<mark, key, Colon>>)) = <<mark, key, Colon>>
  BY <1>1, OneCall, TextOfCalls
<1>3. Raw(<<mark, key, Colon>>) \o value \in Calls
  BY <1>2, Composing
<1>4. QED
  BY <1>2, <1>3, TextJoined

\* A member after another adds its leaf.
LEMMA MemberSends ==
    ASSUME NEW n, n # <<>>, Last(n) = "object", NEW p \in Seq(Int), NEW k \in Int,
           NEW key \in Keys, NEW d, NEW value \in Calls,
           NEW kind \in {"string", "number"}, NEW content \in Seq(Int),
           Spells(Text(value), Token(kind, content)), NEW leaf,
           leaf = Understood(<<Append(p, key), kind, content>>)
    PROVE  Sends(Then(key, value), Past(n, p, k, d), Past(n, p, key, d \o <<leaf>>))
<1>1. key \in Nat /\ key >= 256
  BY DEF Keys
<1>2. Text(value) \in Seq(Plain)
  BY TextIs
<1>3. Leads(<<Comma, key, Colon>> \o Text(value), Where("after", n, Append(p, k), d),
            Where("after", n, Append(p, key), d \o <<leaf>>))
  BY <1>1, <1>2, ThenLeads
<1>4. /\ Then(key, value) \in Calls
      /\ Text(Then(key, value)) = <<Comma, key, Colon>> \o Text(value)
  BY MemberText DEF Then
<1>5. QED
  BY <1>3, <1>4 DEF Sends, Past

\* A member with a text.
LEMMA TextSends ==
    ASSUME NEW n, n # <<>>, Last(n) = "object", NEW p \in Seq(Int), NEW k \in Int,
           NEW key \in Keys, key # Key.adv_data, NEW d, NEW text \in Seq(Byte)
    PROVE  Sends(Then(key, Quoted(text)), Past(n, p, k, d),
                 Past(n, p, key, d \o Str(Append(p, key), text)))
<1> DEFINE leaf == <<Append(p, key), "string", text>>
<1>1. Quoted(text) \in Calls /\ Text(Quoted(text)) = JsonQuoted(text)
  BY OneCall, TextOfCalls
<1>2. Spells(Text(Quoted(text)), Token("string", text))
  BY <1>1, QuotedSpells
<1>3. text \in Seq(Int)
  <2>1. \A c \in Byte : c \in Int
    BY DEF Byte
  <2>2. QED
    BY <2>1, Widened
<1>4. key \in Int
  BY DEF Keys
<1>5. Str(Append(p, key), text) = <<leaf>>
  BY DEF Str
<1>6. leaf = Understood(<<Append(p, key), "string", text>>)
  BY AsItIsRead
<1> HIDE DEF leaf
<1>7. Sends(Then(key, Quoted(text)), Past(n, p, k, d), Past(n, p, key, d \o <<leaf>>))
  BY <1>1, <1>2, <1>3, <1>6, MemberSends
<1>8. QED
  BY <1>5, <1>7

\* A member with a number.
LEMMA NumberSends ==
    ASSUME NEW n, n # <<>>, Last(n) = "object", NEW p \in Seq(Int), NEW k \in Int,
           NEW key \in Keys, key # Key.adv_data, NEW d, NEW value \in Int
    PROVE  Sends(Then(key, Number(value)), Past(n, p, k, d),
                 Past(n, p, key, d \o Num(Append(p, key), value)))
<1> DEFINE leaf == <<Append(p, key), "number", <<value>>>>
<1>1. Number(value) \in Calls /\ Text(Number(value)) = BatchNumberText(value)
  BY OneCall, TextOfCalls
<1>2. Spells(Text(Number(value)), Token("number", <<value>>))
  BY <1>1, NumberSpells
<1>3. <<value>> \in Seq(Int)
  OBVIOUS
<1>4. key \in Int
  BY DEF Keys
<1>5. Num(Append(p, key), value) = <<leaf>>
  BY DEF Num
<1>6. leaf = Understood(<<Append(p, key), "number", <<value>>>>)
  BY AsItIsRead
<1> HIDE DEF leaf
<1>7. Sends(Then(key, Number(value)), Past(n, p, k, d), Past(n, p, key, d \o <<leaf>>))
  BY <1>1, <1>2, <1>3, <1>6, MemberSends
<1>8. QED
  BY <1>5, <1>7

\* The member with the payload, whose leaf is the bytes themselves.
LEMMA PayloadSends ==
    ASSUME NEW n, n # <<>>, Last(n) = "object", NEW p \in Seq(Int), NEW k \in Int,
           NEW d, NEW bytes \in Seq(Byte)
    PROVE  Sends(Then(Key.adv_data, Raw(<<Quote>>) \o Bytes(bytes) \o Raw(<<Quote>>)),
                 Past(n, p, k, d),
                 Past(n, p, Key.adv_data, d \o Str(Append(p, Key.adv_data), bytes)))
<1> DEFINE key == Key.adv_data
           leaf == <<Append(p, key), "string", bytes>>
           value == Raw(<<Quote>>) \o Bytes(bytes) \o Raw(<<Quote>>)
           text == <<Quote>> \o Hex(bytes) \o <<Quote>>
<1>1. key \in Keys /\ key \in Int /\ key = Key.adv_data
  BY DEF Key, Keys
<1>2. /\ Raw(<<Quote>>) \in Calls /\ Bytes(bytes) \in Calls
      /\ Text(Raw(<<Quote>>)) = <<Quote>> /\ Text(Bytes(bytes)) = Hex(bytes)
  BY MarksArePlain, Tuples, OneCall, TextOfCalls
<1>3. value \in Calls /\ Text(value) = text
  <2>1. /\ Raw(<<Quote>>) \o Bytes(bytes) \in Calls
        /\ Text(Raw(<<Quote>>) \o Bytes(bytes)) = <<Quote>> \o Hex(bytes)
    BY <1>2, Composing, TextJoined
  <2>2. QED
    BY <1>2, <2>1, Composing, TextJoined
<1> HIDE DEF value
<1>4. Spells(Text(value), Token("string", Hex(bytes)))
  BY <1>3, PayloadSpells
<1>5. Hex(bytes) \in Seq(Int)
  <2>1. Hex(bytes) \in Seq(Verbatim) /\ \A c \in Verbatim : c \in Int
    BY HexPlaces DEF Verbatim, Byte
  <2>2. QED
    BY <2>1, Widened
<1> HIDE DEF key
<1>6. leaf = Understood(<<Append(p, key), "string", Hex(bytes)>>)
  <2> DEFINE q == Append(p, key)
             told == IF key = Key.adv_data THEN Unhex(Hex(bytes)) ELSE Hex(bytes)
  <2>1. Understood(<<q, "string", Hex(bytes)>>) = <<q, "string", told>>
    BY <1>1, UnderstoodIs
  <2>2. told = bytes
    BY <1>1, HexIsUnderstood
  <2> HIDE DEF told, q
  <2>3. Understood(<<q, "string", Hex(bytes)>>) = <<q, "string", bytes>>
    BY <2>1, <2>2
  <2>4. QED
    BY <2>3 DEF q
<1>7. Str(Append(p, key), bytes) = <<leaf>>
  BY DEF Str
<1> HIDE DEF leaf
<1>8. Sends(Then(key, value), Past(n, p, k, d), Past(n, p, key, d \o <<leaf>>))
  BY <1>1, <1>3, <1>4, <1>5, <1>6, MemberSends
<1>9. QED
  BY <1>7, <1>8 DEF key, value

\* The first member of an object is a text.
LEMMA FirstSends ==
    ASSUME NEW n, NEW p \in Seq(Int), NEW e \in {"value", "first_value"},
           NEW key \in Keys, key # Key.adv_data, NEW d, NEW text \in Seq(Byte)
    PROVE  Sends(First(key, Quoted(text)), Where(e, n, p, d),
                 Past(Append(n, "object"), p, key, d \o Str(Append(p, key), text)))
<1> DEFINE leaf == <<Append(p, key), "string", text>>
           down == Append(n, "object")
<1>1. Quoted(text) \in Calls /\ Text(Quoted(text)) = JsonQuoted(text)
  BY OneCall, TextOfCalls
<1>2. Spells(Text(Quoted(text)), Token("string", text)) /\ Text(Quoted(text)) \in Seq(Plain)
  BY <1>1, QuotedSpells, TextIs
<1>3. text \in Seq(Int)
  <2>1. \A c \in Byte : c \in Int
    BY DEF Byte
  <2>2. QED
    BY <2>1, Widened
<1>4. key \in Nat /\ key >= 256 /\ key \in Int
  BY DEF Keys
<1>5. Str(Append(p, key), text) = <<leaf>>
  BY DEF Str
<1>6. leaf = Understood(<<Append(p, key), "string", text>>)
  BY AsItIsRead
<1> HIDE DEF leaf, down
<1>7. Leads(<<OpenBrace, key, Colon>> \o Text(Quoted(text)), Where(e, n, p, d),
            Where("after", down, Append(p, key), d \o <<leaf>>))
  BY <1>2, <1>3, <1>4, <1>6, FirstLeads DEF down
<1>8. /\ First(key, Quoted(text)) \in Calls
      /\ Text(First(key, Quoted(text))) = <<OpenBrace, key, Colon>> \o Text(Quoted(text))
  BY <1>1, MemberText DEF First
<1>9. QED
  BY <1>5, <1>7, <1>8 DEF Sends, Past, down

\* A member that is left out tells nothing.
LEMMA OptionalSends ==
    ASSUME NEW n, NEW p, NEW k, NEW key, NEW S, NEW d \in Seq(S), NEW more,
           NEW calls, NEW empty \in BOOLEAN,
           Sends(calls, Past(n, p, k, d), Past(n, p, key, d \o more))
    PROVE  Sends(Unless(empty, calls), Past(n, p, k, d),
                 Past(n, p, IF empty THEN k ELSE key, d \o Unless(empty, more)))
<1>1. CASE empty
  <2>1. Unless(empty, calls) = <<>> /\ Unless(empty, more) = <<>>
    BY <1>1 DEF Unless
  <2>2. d \o <<>> = d
    BY ConcatEmptySeq
  <2>3. (IF empty THEN k ELSE key) = k
    BY <1>1
  <2>4. QED
    BY <2>1, <2>2, <2>3, SendsNothing
<1>2. CASE ~ empty
  <2>1. Unless(empty, calls) = calls /\ Unless(empty, more) = more
    BY <1>2 DEF Unless
  <2>2. (IF empty THEN k ELSE key) = key
    BY <1>2
  <2>3. QED
    BY <2>1, <2>2
<1>3. QED
  BY <1>1, <1>2

-----------------------------------------------------------------------------
(* A device, and the devices.                                              *)

Outer == <<"object">>
List == <<"object", "array">>
Inner == <<"object", "array", "object">>
Place(i) == <<Key.devices, i>>

\* Inside the document, its list and a device of it.
LEMMA Nesting ==
    /\ Outer = Append(<<>>, "object") /\ List = Append(Outer, "array")
    /\ Inner = Append(List, "object")
    /\ Outer \in Nests /\ List \in Nests /\ Inner \in Nests
    /\ Outer # <<>> /\ List # <<>> /\ Inner # <<>>
    /\ Last(Outer) = "object" /\ Last(List) = "array" /\ Last(Inner) = "object"
    /\ Front(Outer) = <<>> /\ Front(List) = Outer /\ Front(Inner) = List
<1> DEFINE none == <<>>
           S == {"object", "array"}
<1>1. /\ Outer = Append(none, "object") /\ List = Append(Outer, "array")
      /\ Inner = Append(List, "object")
  BY Appending DEF Outer, List, Inner
<1>2. none \in Seq(S) /\ "object" \in S /\ "array" \in S
  BY Tuples
<1> HIDE DEF none, S
<1>3. ASSUME NEW n \in Seq(S), NEW x \in S
      PROVE  /\ Append(n, x) \in Seq(S) /\ Append(n, x) # <<>>
             /\ Last(Append(n, x)) = x /\ Front(Append(n, x)) = n
  BY Undoing
<1>4. /\ Outer \in Seq(S) /\ Outer # <<>> /\ Last(Outer) = "object" /\ Front(Outer) = none
  BY <1>1, <1>2, <1>3, Zenon
<1>5. /\ List \in Seq(S) /\ List # <<>> /\ Last(List) = "array" /\ Front(List) = Outer
  BY <1>1, <1>2, <1>3, <1>4, Zenon
<1>6. /\ Inner \in Seq(S) /\ Inner # <<>> /\ Last(Inner) = "object" /\ Front(Inner) = List
  BY <1>1, <1>2, <1>3, <1>5, Zenon
<1>7. QED
  BY <1>1, <1>4, <1>5, <1>6 DEF none, S, Nests

\* The paths to a field, a device and a field of a device.
LEMMA Paths ==
    /\ \A k \in Int : <<k>> = Append(<<>>, k) /\ <<k>> \in Seq(Int)
    /\ \A i \in Int : /\ Place(i) \in Seq(Int) /\ Place(i) = Append(<<Key.devices>>, i)
                      /\ Place(i) = Append(Append(<<>>, Key.devices), i)
    /\ \A i, k \in Int : Append(Place(i), k) = <<Key.devices, i, k>>
<1>1. Key.devices \in Int
  BY DEF Key
<1>2. \A k \in Int : <<k>> = Append(<<>>, k) /\ <<k>> \in Seq(Int)
  BY Appending, Tuples
<1>3. ASSUME NEW i \in Int
      PROVE  /\ Place(i) \in Seq(Int) /\ Place(i) = Append(<<Key.devices>>, i)
             /\ Place(i) = Append(Append(<<>>, Key.devices), i)
  <2>1. Place(i) = Append(<<Key.devices>>, i) /\ <<Key.devices>> = Append(<<>>, Key.devices)
    BY Appending DEF Place
  <2>2. Place(i) \in Seq(Int)
    BY <1>1, Tuples DEF Place
  <2>3. QED
    BY <2>1, <2>2
<1>4. \A i, k \in Int : Append(Place(i), k) = <<Key.devices, i, k>>
  BY Appending DEF Place
<1>5. QED
  BY <1>2, <1>3, <1>4

\* A leaf by itself is a sequence of leaves.
LEMMA OneLeaf ==
    ASSUME NEW path \in Seq(Int)
    PROVE  /\ \A text \in Seq(Int) : Str(path, text) \in Seq(Leaf)
           /\ \A value \in Int : Num(path, value) \in Seq(Leaf)
<1>1. ASSUME NEW kind \in {"string", "number"}, NEW text \in Seq(Int)
      PROVE  <<<<path, kind, text>>>> \in Seq(Leaf)
  <2>1. <<path, kind, text>> \in Leaf
    BY DEF Leaf
  <2>2. QED
    BY <2>1, Tuples
<1>2. \A value \in Int : <<value>> \in Seq(Int)
  OBVIOUS
<1>3. QED
  BY <1>1, <1>2 DEF Str, Num

\* Bytes are characters to the reader.
LEMMA BytesAreInt == \A text \in Seq(Byte) : text \in Seq(Int)
<1>1. \A c \in Byte : c \in Int
  BY DEF Byte
<1>2. QED
  BY <1>1, Widened

\* The marks that write_batch() closes with.
LEMMA OneMark ==
    ASSUME NEW c \in {Comma, OpenBrace, CloseBrace, OpenBracket, CloseBracket},
           NEW m, NEW w, Leads(<<c>>, m, w)
    PROVE  Sends(Raw(<<c>>), m, w)
<1>1. <<c>> \in Seq(Plain)
  BY MarksArePlain, Tuples
<1>2. Raw(<<c>>) \in Calls /\ Text(Raw(<<c>>)) = <<c>>
  BY <1>1, OneCall, TextOfCalls
<1>3. QED
  BY <1>2 DEF Sends

\* The leaves of the device ad, at its place in the document.
DeviceLeaves(i, ad) ==
    Str(<<Key.devices, i, Key.mac>>, FormatBda(ad.bda))
    \o Num(<<Key.devices, i, Key.rssi>>, ad.rssi)
    \o Unless(LocalName(ad.name) = <<>>,
              Str(<<Key.devices, i, Key.name>>, LocalName(ad.name)))
    \o Unless(ad.adv_data = <<>>, Str(<<Key.devices, i, Key.adv_data>>, ad.adv_data))

\* Each key is one symbol, and only the payload has its own.
LEMMA TheKeys ==
    /\ Key.adv_data \in Keys /\ Key.adv_data \in Int
    /\ \A key \in {Key.gateway_id, Key.hostname, Key.firmware, Key.uptime,
                   Key.free_heap, Key.mac, Key.devices, Key.rssi, Key.name} :
          key \in Keys /\ key \in Int /\ key # Key.adv_data
  BY DEF Key, Keys

\* Leaves after leaves.
Joined(a, b) == a \o b

\* How leaves after leaves are grouped makes no difference.
LEMMA Regrouping ==
    /\ \A x, y, z \in Seq(Leaf) : Joined(Joined(x, y), z) = Joined(x, Joined(y, z))
    /\ \A x, y \in Seq(Leaf) : Joined(x, y) \in Seq(Leaf)
<1>1. \A x, y, z \in Seq(Leaf) : (x \o y) \o z = x \o (y \o z)
  BY ConcatAssociative, SMTT(30)
<1>2. \A x, y \in Seq(Leaf) : x \o y \in Seq(Leaf)
  BY Joining
<1>3. QED
  BY <1>1, <1>2, Zenon DEF Joined

\* The same of the four fields of a device.
LEMMA FourJoined ==
    ASSUME NEW w \in Seq(Leaf), NEW a \in Seq(Leaf), NEW b \in Seq(Leaf),
           NEW c \in Seq(Leaf), NEW f \in Seq(Leaf)
    PROVE  Joined(Joined(Joined(Joined(w, a), b), c), f) =
              Joined(w, Joined(Joined(Joined(a, b), c), f))
<1> DEFINE ab == Joined(a, b)
           abc == Joined(ab, c)
<1>1. ab \in Seq(Leaf) /\ Joined(Joined(w, a), b) = Joined(w, ab)
  BY Regrouping
<1> HIDE DEF ab
<1>2. abc \in Seq(Leaf) /\ Joined(Joined(w, ab), c) = Joined(w, abc)
  BY <1>1, Regrouping
<1> HIDE DEF abc
<1>3. Joined(Joined(w, abc), f) = Joined(w, Joined(abc, f))
  BY <1>2, Regrouping
<1>4. Joined(Joined(Joined(Joined(w, a), b), c), f) = Joined(w, Joined(abc, f))
  BY <1>1, <1>2, <1>3
<1>5. QED
  BY <1>4 DEF ab, abc

\* write_device() leads from the place of a device to behind it, and adds its
\* four leaves or fewer.
LEMMA DeviceSends ==
    ASSUME NEW ad \in Advertisement, NEW i \in Int, NEW d \in Seq(Leaf),
           NEW e \in {"value", "first_value"}
    PROVE  Sends(WriteDevice(ad), Where(e, List, Place(i), d),
                 Where("after", List, Place(i), d \o DeviceLeaves(i, ad)))
<1> DEFINE p == Place(i)
           bda == FormatBda(ad.bda)
           name == LocalName(ad.name)
           data == ad.adv_data
           aA == First(Key.mac, Quoted(bda))
           aB == Then(Key.rssi, Number(ad.rssi))
           tC == Then(Key.name, Quoted(name))
           aC == Unless(name = <<>>, tC)
           tD == Then(Key.adv_data, Raw(<<Quote>>) \o Bytes(data) \o Raw(<<Quote>>))
           aD == Unless(data = <<>>, tD)
           aE == Raw(<<CloseBrace>>)
           lA == Str(Append(p, Key.mac), bda)
           lB == Num(Append(p, Key.rssi), ad.rssi)
           mC == Str(Append(p, Key.name), name)
           lC == Unless(name = <<>>, mC)
           mD == Str(Append(p, Key.adv_data), data)
           lD == Unless(data = <<>>, mD)
           k3 == IF name = <<>> THEN Key.rssi ELSE Key.name
           k4 == IF data = <<>> THEN k3 ELSE Key.adv_data
           d1 == d \o lA
           d2 == d1 \o lB
           d3 == d2 \o lC
           d4 == d3 \o lD
           m0 == Where(e, List, p, d)
           m1 == Past(Inner, p, Key.mac, d1)
           m2 == Past(Inner, p, Key.rssi, d2)
           m3 == Past(Inner, p, k3, d3)
           m4 == Past(Inner, p, k4, d4)
           m5 == Where("after", List, p, d4)
<1>1. /\ bda \in Seq(Byte) /\ name \in Seq(Byte) /\ data \in Seq(Byte) /\ ad.rssi \in Int
      /\ bda \in Seq(Int) /\ name \in Seq(Int) /\ data \in Seq(Int)
  <2>1. ad.bda \in Seq(Byte) /\ ad.name \in Seq(Byte) /\ data \in Seq(Byte) /\ ad.rssi \in Int
    BY DEF Advertisement
  <2>2. bda \in Seq(Byte) /\ name \in Seq(Byte)
    BY <2>1, FormatBdaIsText, LocalNameIsText
  <2>3. QED
    BY <2>1, <2>2, BytesAreInt
<1>2. p \in Seq(Int) /\ \A k \in Int : Append(p, k) \in Seq(Int)
  <2>1. p \in Seq(Int)
    BY Paths
  <2>2. QED
    BY <2>1, Undoing
<1>3. /\ lA \in Seq(Leaf) /\ lB \in Seq(Leaf) /\ mC \in Seq(Leaf) /\ mD \in Seq(Leaf)
  BY <1>1, <1>2, OneLeaf, TheKeys
<1>4. lC \in Seq(Leaf) /\ lD \in Seq(Leaf)
  BY <1>3, Tuples DEF Unless
<1>5. WriteDevice(ad) = (((aA \o aB) \o aC) \o aD) \o aE
  BY DEF WriteDevice
<1>6. DeviceLeaves(i, ad) = ((lA \o lB) \o lC) \o lD
  <2>1. /\ Append(p, Key.mac) = <<Key.devices, i, Key.mac>>
        /\ Append(p, Key.rssi) = <<Key.devices, i, Key.rssi>>
        /\ Append(p, Key.name) = <<Key.devices, i, Key.name>>
        /\ Append(p, Key.adv_data) = <<Key.devices, i, Key.adv_data>>
    BY Paths, TheKeys
  <2>2. QED
    BY <2>1, Zenon DEF DeviceLeaves
<1>7. /\ d1 \in Seq(Leaf) /\ d2 \in Seq(Leaf) /\ d3 \in Seq(Leaf) /\ d4 \in Seq(Leaf)
      /\ d4 = d \o DeviceLeaves(i, ad)
  <2> HIDE DEF lA, lB, lC, lD
  <2>1. /\ d1 \in Seq(Leaf) /\ d2 \in Seq(Leaf) /\ d3 \in Seq(Leaf) /\ d4 \in Seq(Leaf)
    BY <1>3, <1>4, Joining, Zenon
  <2>2. Joined(Joined(Joined(Joined(d, lA), lB), lC), lD) =
           Joined(d, Joined(Joined(Joined(lA, lB), lC), lD))
    BY <1>3, <1>4, FourJoined
  <2>3. (((d \o lA) \o lB) \o lC) \o lD = d \o (((lA \o lB) \o lC) \o lD)
    BY <2>2 DEF Joined
  <2>4. QED
    BY <1>6, <2>1, <2>3, Zenon
<1>8. /\ Inner # <<>> /\ Last(Inner) = "object"
      /\ Front(Inner) = List /\ Inner = Append(List, "object")
  BY Nesting
<1>9. /\ Key.mac \in Keys /\ Key.mac \in Int /\ Key.mac # Key.adv_data
      /\ Key.rssi \in Keys /\ Key.rssi \in Int /\ Key.rssi # Key.adv_data
      /\ Key.name \in Keys /\ Key.name \in Int /\ Key.name # Key.adv_data
      /\ k3 \in Int /\ k4 \in Int
  BY TheKeys
<1> HIDE DEF p, bda, name, data, d1, d2, d3, d4, k3, k4
<1>10. Sends(aA, m0, m1)
  <2>1. Sends(aA, m0, Past(Append(List, "object"), p, Key.mac, d \o lA))
    BY <1>1, <1>2, <1>9, FirstSends
  <2>2. QED
    BY <1>8, <2>1 DEF d1
<1>11. Sends(aB, m1, m2)
  BY <1>1, <1>2, <1>8, <1>9, NumberSends DEF d2
<1>12. Sends(aC, m2, m3)
  <2>1. Sends(tC, m2, Past(Inner, p, Key.name, d2 \o mC))
    BY <1>1, <1>2, <1>8, <1>9, TextSends
  <2> DEFINE empty == name = <<>>
  <2>2. empty \in BOOLEAN /\ aC = Unless(empty, tC) /\ lC = Unless(empty, mC)
        /\ k3 = IF empty THEN Key.rssi ELSE Key.name
    BY DEF k3
  <2> HIDE DEF empty, tC, aC, mC, lC
  <2>3. Sends(Unless(empty, tC), m2,
              Past(Inner, p, IF empty THEN Key.rssi ELSE Key.name, d2 \o Unless(empty, mC)))
    BY <1>7, <2>1, <2>2, OptionalSends
  <2>4. QED
    BY <2>2, <2>3 DEF d3
<1>13. Sends(aD, m3, m4)
  <2>1. Sends(tD, m3, Past(Inner, p, Key.adv_data, d3 \o mD))
    BY <1>1, <1>2, <1>8, <1>9, PayloadSends
  <2> DEFINE empty == data = <<>>
  <2>2. empty \in BOOLEAN /\ aD = Unless(empty, tD) /\ lD = Unless(empty, mD)
        /\ k4 = IF empty THEN k3 ELSE Key.adv_data
    BY DEF k4
  <2> HIDE DEF empty, tD, aD, mD, lD
  <2>3. Sends(Unless(empty, tD), m3,
              Past(Inner, p, IF empty THEN k3 ELSE Key.adv_data, d3 \o Unless(empty, mD)))
    BY <1>7, <2>1, <2>2, OptionalSends
  <2>4. QED
    BY <2>2, <2>3 DEF d4
<1>14. Sends(aE, m4, m5)
  <2>1. Leads(<<CloseBrace>>, Where("after", Inner, Append(p, k4), d4),
              Where("after", Front(Inner), Front(Append(p, k4)), d4))
    BY <1>8, ShutLeads
  <2>2. Front(Append(p, k4)) = p
    BY <1>2, <1>9, Undoing
  <2>3. Leads(<<CloseBrace>>, m4, m5)
    BY <1>8, <2>1, <2>2 DEF Past
  <2>4. QED
    BY <2>3, OneMark
<1> HIDE DEF aA, aB, aC, aD, aE, m0, m1, m2, m3, m4, m5
<1>15. Sends((((aA \o aB) \o aC) \o aD) \o aE, m0, m5)
  <2>1. Sends(aA \o aB, m0, m2)
    BY <1>10, <1>11, SendsJoined
  <2>2. Sends((aA \o aB) \o aC, m0, m3)
    BY <1>12, <2>1, SendsJoined
  <2>3. Sends(((aA \o aB) \o aC) \o aD, m0, m4)
    BY <1>13, <2>2, SendsJoined
  <2>4. QED
    BY <1>14, <2>3, SendsJoined
<1>16. QED
  BY <1>5, <1>7, <1>15, Zenon DEF m0, m5, p

\* The leaves of a device are leaves.
LEMMA DeviceLeavesAre ==
    ASSUME NEW ad \in Advertisement, NEW i \in Int
    PROVE  DeviceLeaves(i, ad) \in Seq(Leaf)
<1> DEFINE place(k) == <<Key.devices, i, k>>
           name == LocalName(ad.name)
           a == Str(place(Key.mac), FormatBda(ad.bda))
           b == Num(place(Key.rssi), ad.rssi)
           c == Unless(name = <<>>, Str(place(Key.name), name))
           f == Unless(ad.adv_data = <<>>, Str(place(Key.adv_data), ad.adv_data))
<1>1. /\ ad.bda \in Seq(Byte) /\ ad.name \in Seq(Byte)
      /\ ad.adv_data \in Seq(Byte) /\ ad.rssi \in Int
  BY DEF Advertisement
<1>2. FormatBda(ad.bda) \in Seq(Byte) /\ name \in Seq(Byte)
  BY <1>1, FormatBdaIsText, LocalNameIsText
<1>3. FormatBda(ad.bda) \in Seq(Int) /\ name \in Seq(Int) /\ ad.adv_data \in Seq(Int)
  BY <1>1, <1>2, BytesAreInt
<1>4. \A k \in Int : place(k) \in Seq(Int)
  <2>1. Key.devices \in Int
    BY TheKeys
  <2>2. QED
    BY <2>1, Tuples
<1>5. /\ place(Key.mac) \in Seq(Int) /\ place(Key.rssi) \in Seq(Int)
      /\ place(Key.name) \in Seq(Int) /\ place(Key.adv_data) \in Seq(Int)
  BY <1>4, TheKeys
<1> HIDE DEF place, name
<1>6. /\ a \in Seq(Leaf) /\ b \in Seq(Leaf) /\ Str(place(Key.name), name) \in Seq(Leaf)
      /\ Str(place(Key.adv_data), ad.adv_data) \in Seq(Leaf)
  BY <1>1, <1>3, <1>5, OneLeaf
<1>7. c \in Seq(Leaf) /\ f \in Seq(Leaf)
  BY <1>6, Tuples DEF Unless
<1> HIDE DEF a, b, c, f
<1>8. ((a \o b) \o c) \o f \in Seq(Leaf)
  BY <1>6, <1>7, Joining
<1>9. QED
  BY <1>8, Zenon DEF DeviceLeaves, a, b, c, f, place, name

\* The loop over the devices leads from the start of the list to its end.
LEMMA DevicesSend ==
    ASSUME NEW ads \in Seq(Advertisement), NEW d \in Seq(Leaf)
    PROVE  \E e \in {"after", "first_value"}, p \in Seq(Int) :
              Sends(FlattenSeq([i \in DOMAIN ads |->
                                   Unless(i = 1, Raw(<<Comma>>)) \o WriteDevice(ads[i])]),
                    Where("first_value", List, Place(1), d),
                    Where(e, List, p,
                          d \o FlattenSeq([i \in DOMAIN ads |-> DeviceLeaves(i, ads[i])])))
<1> DEFINE cs == [i \in DOMAIN ads |->
                     Unless(i = 1, Raw(<<Comma>>)) \o WriteDevice(ads[i])]
           ds == [i \in DOMAIN ads |-> DeviceLeaves(i, ads[i])]
           n == Len(ads)
<1>1. /\ n \in Nat /\ DOMAIN ads = 1..n
      /\ \A i \in 1..n : ads[i] \in Advertisement
  BY LenProperties, ElementOfSeq
<1>2. /\ DOMAIN cs = DOMAIN ads /\ cs = [i \in DOMAIN cs |-> cs[i]]
      /\ DOMAIN ds = DOMAIN ads /\ ds = [i \in DOMAIN ds |-> ds[i]]
      /\ \A i \in 1..n : /\ cs[i] = Unless(i = 1, Raw(<<Comma>>)) \o WriteDevice(ads[i])
                         /\ ds[i] = DeviceLeaves(i, ads[i])
  BY <1>1
<1> HIDE DEF cs, ds
<1>3. Raw(<<Comma>>) \in Calls
  BY MarksArePlain, Tuples, OneCall
<1>4. \A i \in 1..n : cs[i] \in Calls /\ ds[i] \in Seq(Leaf)
  <2> TAKE i \in 1..n
  <2>1. WriteDevice(ads[i]) \in Calls
    BY <1>1, DeviceIsCalls
  <2>2. Unless(i = 1, Raw(<<Comma>>)) \in Calls
    BY <1>3, Omitting
  <2>3. ds[i] \in Seq(Leaf)
    BY <1>1, <1>2, DeviceLeavesAre
  <2>4. Unless(i = 1, Raw(<<Comma>>)) \o WriteDevice(ads[i]) \in Calls
    BY <2>1, <2>2, Composing
  <2>5. QED
    BY <1>2, <2>3, <2>4, Zenon
<1>5. cs \in Seq(Calls) /\ Len(cs) = n /\ ds \in Seq(Seq(Leaf)) /\ Len(ds) = n
  <2>1. cs \in Seq(Calls) /\ Len(cs) = Len(ads)
    <3>1. \A i \in DOMAIN ads : cs[i] \in Calls
      BY <1>1, <1>4
    <3>2. QED
      BY <1>2, <3>1, Mapped
  <2>2. ds \in Seq(Seq(Leaf)) /\ Len(ds) = Len(ads)
    <3>1. \A i \in DOMAIN ads : ds[i] \in Seq(Leaf)
      BY <1>1, <1>4
    <3>2. QED
      BY <1>2, <3>1, Mapped
  <2>3. QED
    BY <2>1, <2>2
<1>6. PICK g : /\ g[0] = <<>>
               /\ \A k \in 1..n : g[k] = g[k - 1] \o ds[k]
               /\ \A k \in 0..n : g[k] \in Seq(Leaf)
               /\ FlattenSeq(ds) = g[n]
  <2>1. PICK g : /\ g[0] = <<>>
                 /\ \A k \in 1..Len(ds) : g[k] = g[k - 1] \o ds[k]
                 /\ \A k \in 0..Len(ds) : g[k] \in Seq(Leaf)
                 /\ FlattenSeq(ds) = g[Len(ds)]
    BY <1>5, FlattenSteps
  <2>2. QED
    BY <1>5, <2>1
<1> DEFINE e(k) == IF k = 0 THEN "first_value" ELSE "after"
           p(k) == Place(IF k = 0 THEN 1 ELSE k)
           at(k) == Where(e(k), List, p(k), d \o g[k])
           st == [k \in 0..n |-> at(k)]
<1>7. ASSUME NEW k \in 1..n
      PROVE  Sends(cs[k], at(k - 1), at(k))
  <2> DEFINE dk == d \o g[k - 1]
  <2>1. k \in Int /\ k # 0 /\ k - 1 \in 0..n /\ ads[k] \in Advertisement
    BY <1>1
  <2>2. g[k - 1] \in Seq(Leaf) /\ ds[k] \in Seq(Leaf) /\ dk \in Seq(Leaf)
    BY <1>4, <1>6, <2>1, Joining
  <2>3. dk \o DeviceLeaves(k, ads[k]) = d \o g[k]
    <3> DEFINE x == g[k - 1]
               y == ds[k]
    <3>1. x \in Seq(Leaf) /\ y \in Seq(Leaf)
      BY <2>2
    <3> HIDE DEF x, y
    <3>2. Joined(Joined(d, x), y) = Joined(d, Joined(x, y))
      BY <3>1, Regrouping
    <3>3. (d \o g[k - 1]) \o ds[k] = d \o (g[k - 1] \o ds[k])
      BY <3>2 DEF x, y, Joined
    <3>4. QED
      BY <1>2, <1>6, <3>3
  <2>4. at(k) = Where("after", List, Place(k), d \o g[k])
    BY <2>1
  <2> HIDE DEF dk
  <2>5. \A x \in {"value", "first_value"} :
           Sends(WriteDevice(ads[k]), Where(x, List, Place(k), dk), at(k))
    BY <2>1, <2>2, <2>3, <2>4, DeviceSends
  <2>6. CASE k = 1
    <3>1. cs[k] = <<>> \o WriteDevice(ads[k])
      BY <1>2, <2>6 DEF Unless
    <3>2. WriteDevice(ads[k]) \in Seq(SinkCall)
      BY <2>1, DeviceIsCalls DEF Calls
    <3>3. cs[k] = WriteDevice(ads[k])
      BY <3>1, <3>2, ConcatEmptySeq
    <3>4. at(k - 1) = Where("first_value", List, Place(k), dk)
      BY <2>6 DEF dk
    <3>5. QED
      BY <2>5, <3>3, <3>4
  <2>7. CASE k # 1
    <3>1. cs[k] = Raw(<<Comma>>) \o WriteDevice(ads[k])
      BY <1>2, <2>7 DEF Unless
    <3>2. at(k - 1) = Where("after", List, Place(k - 1), dk)
      <4>1. k - 1 # 0
        BY <2>1, <2>7
      <4>2. QED
        BY <4>1 DEF dk
    <3>3. /\ Place(k - 1) = Append(<<Key.devices>>, k - 1)
          /\ Place(k) = Append(<<Key.devices>>, (k - 1) + 1)
          /\ <<Key.devices>> \in Seq(Int) /\ k - 1 \in Int
      <4>1. (k - 1) + 1 = k /\ k - 1 \in Int /\ k \in Int /\ Key.devices \in Int
        BY <2>1, TheKeys
      <4>2. QED
        BY <4>1, Paths
    <3>4. List # <<>> /\ Last(List) = "array"
      BY Nesting
    <3> DEFINE here == <<Key.devices>>
               before == k - 1
    <3> HIDE DEF here, before
    <3>5. Leads(<<Comma>>, Where("after", List, Append(here, before), dk),
                Where("value", List, Append(here, before + 1), dk))
      <4>1. here \in Seq(Int) /\ before \in Int
        BY <3>3 DEF here, before
      <4>2. QED
        BY <3>4, <4>1, PlaceLeads
    <3>6. Leads(<<Comma>>, at(k - 1), Where("value", List, Place(k), dk))
      BY <3>2, <3>3, <3>5 DEF here, before
    <3>7. Sends(Raw(<<Comma>>), at(k - 1), Where("value", List, Place(k), dk))
      BY <3>6, OneMark
    <3>8. Sends(WriteDevice(ads[k]), Where("value", List, Place(k), dk), at(k))
      BY <2>5
    <3>9. QED
      BY <3>1, <3>7, <3>8, SendsJoined
  <2>8. QED
    BY <2>6, <2>7
<1>8. \A k \in 1..Len(cs) : Sends(cs[k], st[k - 1], st[k])
  <2>1. \A k \in 1..n : k \in 0..n /\ k - 1 \in 0..n
    BY <1>1
  <2> HIDE DEF at
  <2>2. \A k \in 1..n : st[k] = at(k) /\ st[k - 1] = at(k - 1)
    BY <2>1
  <2>3. QED
    BY <1>5, <1>7, <2>2
<1>9. Sends(FlattenSeq(cs), at(0), at(n))
  <2>1. st[0] = at(0) /\ st[n] = at(n)
    BY <1>1
  <2> HIDE DEF st, at
  <2>2. Sends(FlattenSeq(cs), st[0], st[Len(cs)])
    BY <1>5, <1>8, FlattenSends
  <2>3. QED
    BY <1>5, <2>1, <2>2
<1>10. at(0) = Where("first_value", List, Place(1), d)
  <2>1. d \o <<>> = d
    BY ConcatEmptySeq
  <2>2. QED
    BY <1>6, <2>1
<1>11. at(n) = Where(e(n), List, p(n), d \o FlattenSeq(ds))
  BY <1>6
<1>12. e(n) \in {"after", "first_value"} /\ p(n) \in Seq(Int)
  <2>1. (IF n = 0 THEN 1 ELSE n) \in Int
    BY <1>1
  <2>2. QED
    BY <2>1, Paths
<1> HIDE DEF at, e, p
<1>13. Sends(FlattenSeq(cs), Where("first_value", List, Place(1), d),
             Where(e(n), List, p(n), d \o FlattenSeq(ds)))
  BY <1>9, <1>10, <1>11
<1>14. QED
  BY <1>12, <1>13 DEF cs, ds

-----------------------------------------------------------------------------
(* The batch.                                                              *)

\* The fields of the header, and their leaves in the object at p.
HeaderCalls(h) ==
    First(Key.gateway_id, Quoted(h.gateway_id))
    \o Then(Key.hostname, Quoted(h.gateway_id))
    \o Then(Key.firmware, Quoted(h.firmware))
    \o Then(Key.uptime, Number(h.uptime_s))
    \o Then(Key.free_heap, Number(h.free_heap))
    \o Unless(h.mac = <<>>, Then(Key.mac, Quoted(FormatBda(h.mac))))
HeaderLeaves(p, h) ==
    Str(Append(p, Key.gateway_id), h.gateway_id)
    \o Str(Append(p, Key.hostname), h.gateway_id)
    \o Str(Append(p, Key.firmware), h.firmware)
    \o Num(Append(p, Key.uptime), h.uptime_s)
    \o Num(Append(p, Key.free_heap), h.free_heap)
    \o Unless(h.mac = <<>>, Str(Append(p, Key.mac), FormatBda(h.mac)))

\* The header opens the document and adds its fields.
LEMMA HeaderSends ==
    ASSUME NEW h \in BatchHeader, NEW n, NEW p \in Seq(Int),
           Append(n, "object") # <<>>, Last(Append(n, "object")) = "object"
    PROVE  /\ HeaderLeaves(p, h) \in Seq(Leaf)
           /\ \E k \in Int : Sends(HeaderCalls(h), Where("value", n, p, <<>>),
                                   Past(Append(n, "object"), p, k, HeaderLeaves(p, h)))
<1> DEFINE down == Append(n, "object")
           id == h.gateway_id
           fw == h.firmware
           mac == FormatBda(h.mac)
           none == <<>>
           a1 == First(Key.gateway_id, Quoted(id))
           a2 == Then(Key.hostname, Quoted(id))
           a3 == Then(Key.firmware, Quoted(fw))
           a4 == Then(Key.uptime, Number(h.uptime_s))
           a5 == Then(Key.free_heap, Number(h.free_heap))
           t6 == Then(Key.mac, Quoted(mac))
           empty == h.mac = <<>>
           a6 == Unless(empty, t6)
           l1 == Str(Append(p, Key.gateway_id), id)
           l2 == Str(Append(p, Key.hostname), id)
           l3 == Str(Append(p, Key.firmware), fw)
           l4 == Num(Append(p, Key.uptime), h.uptime_s)
           l5 == Num(Append(p, Key.free_heap), h.free_heap)
           m6 == Str(Append(p, Key.mac), mac)
           l6 == Unless(empty, m6)
           d2 == l1 \o l2
           d3 == d2 \o l3
           d4 == d3 \o l4
           d5 == d4 \o l5
           d6 == d5 \o l6
           k6 == IF empty THEN Key.free_heap ELSE Key.mac
           w0 == Where("value", n, p, none)
           w1 == Past(down, p, Key.gateway_id, l1)
           w2 == Past(down, p, Key.hostname, d2)
           w3 == Past(down, p, Key.firmware, d3)
           w4 == Past(down, p, Key.uptime, d4)
           w5 == Past(down, p, Key.free_heap, d5)
           w6 == Past(down, p, k6, d6)
<1>1. /\ id \in Seq(Byte) /\ fw \in Seq(Byte) /\ mac \in Seq(Byte)
      /\ id \in Seq(Int) /\ fw \in Seq(Int) /\ mac \in Seq(Int)
      /\ h.uptime_s \in Int /\ h.free_heap \in Int
  <2>1. /\ id \in Seq(Byte) /\ fw \in Seq(Byte) /\ h.mac \in Seq(Byte)
        /\ h.uptime_s \in Int /\ h.free_heap \in Int
    BY DEF BatchHeader
  <2>2. mac \in Seq(Byte)
    BY <2>1, FormatBdaIsText
  <2>3. QED
    BY <2>1, <2>2, BytesAreInt
<1>2. \A k \in Int : Append(p, k) \in Seq(Int)
  BY Undoing
<1>3. /\ l1 \in Seq(Leaf) /\ l2 \in Seq(Leaf) /\ l3 \in Seq(Leaf)
      /\ l4 \in Seq(Leaf) /\ l5 \in Seq(Leaf) /\ m6 \in Seq(Leaf)
  BY <1>1, <1>2, OneLeaf, TheKeys
<1>4. l6 \in Seq(Leaf)
  BY <1>3, Tuples DEF Unless
<1>5. /\ HeaderCalls(h) = ((((a1 \o a2) \o a3) \o a4) \o a5) \o a6
      /\ HeaderLeaves(p, h) = d6
  BY DEF HeaderCalls, HeaderLeaves
<1>6. down # <<>> /\ Last(down) = "object" /\ empty \in BOOLEAN
  OBVIOUS
<1>7. /\ Key.gateway_id \in Keys /\ Key.gateway_id \in Int /\ Key.gateway_id # Key.adv_data
      /\ Key.hostname \in Keys /\ Key.hostname \in Int /\ Key.hostname # Key.adv_data
      /\ Key.firmware \in Keys /\ Key.firmware \in Int /\ Key.firmware # Key.adv_data
      /\ Key.uptime \in Keys /\ Key.uptime \in Int /\ Key.uptime # Key.adv_data
      /\ Key.free_heap \in Keys /\ Key.free_heap \in Int /\ Key.free_heap # Key.adv_data
      /\ Key.mac \in Keys /\ Key.mac \in Int /\ Key.mac # Key.adv_data
      /\ k6 \in Int
  BY TheKeys
<1>8. Sends(a1, w0, w1)
  <2>1. "value" \in {"value", "first_value"}
    OBVIOUS
  <2>2. none \o l1 = l1
    BY <1>3, ConcatEmptySeq
  <2> HIDE DEF none, id
  <2>3. Sends(a1, w0, Past(down, p, Key.gateway_id, none \o l1))
    BY <1>1, <1>7, <2>1, FirstSends
  <2>4. QED
    BY <2>2, <2>3
<1> HIDE DEF down, id, fw, mac, none, empty
<1>9. Sends(a2, w1, w2)
  BY <1>1, <1>6, <1>7, TextSends
<1>10. Sends(a3, w2, w3)
  <2> HIDE DEF d2
  <2>1. QED
    BY <1>1, <1>6, <1>7, TextSends
<1>11. Sends(a4, w3, w4)
  <2> HIDE DEF d3
  <2>1. QED
    BY <1>1, <1>6, <1>7, NumberSends
<1>12. Sends(a5, w4, w5)
  <2> HIDE DEF d4
  <2>1. QED
    BY <1>1, <1>6, <1>7, NumberSends
<1>13. /\ d2 \in Seq(Leaf) /\ d3 \in Seq(Leaf) /\ d4 \in Seq(Leaf)
       /\ d5 \in Seq(Leaf) /\ d6 \in Seq(Leaf)
  <2> HIDE DEF l1, l2, l3, l4, l5, l6
  <2>1. QED
    BY <1>3, <1>4, Joining, Zenon
<1>14. Sends(a6, w5, w6)
  <2> HIDE DEF d5
  <2>1. Sends(t6, w5, Past(down, p, Key.mac, d5 \o m6))
    BY <1>1, <1>6, <1>7, TextSends
  <2> HIDE DEF t6, m6
  <2>2. Sends(Unless(empty, t6), w5,
              Past(down, p, IF empty THEN Key.free_heap ELSE Key.mac, d5 \o Unless(empty, m6)))
    BY <1>6, <1>13, <2>1, OptionalSends
  <2>3. QED
    BY <2>2
<1> HIDE DEF a1, a2, a3, a4, a5, a6, w0, w1, w2, w3, w4, w5, w6
<1>15. Sends(((((a1 \o a2) \o a3) \o a4) \o a5) \o a6, w0, w6)
  <2>1. Sends(a1 \o a2, w0, w2)
    BY <1>8, <1>9, SendsJoined
  <2>2. Sends((a1 \o a2) \o a3, w0, w3)
    BY <1>10, <2>1, SendsJoined
  <2>3. Sends(((a1 \o a2) \o a3) \o a4, w0, w4)
    BY <1>11, <2>2, SendsJoined
  <2>4. Sends((((a1 \o a2) \o a3) \o a4) \o a5, w0, w5)
    BY <1>12, <2>3, SendsJoined
  <2>5. QED
    BY <1>14, <2>4, SendsJoined
<1> HIDE DEF d6, k6
<1>16. Sends(HeaderCalls(h), w0, Past(down, p, k6, HeaderLeaves(p, h)))
  BY <1>5, <1>15 DEF w6
<1>17. HeaderLeaves(p, h) \in Seq(Leaf)
  BY <1>5, <1>13
<1>18. QED
  BY <1>7, <1>16, <1>17 DEF w0, down, none

\* The list is opened.
LEMMA ListSends ==
    ASSUME NEW k \in Int, NEW p \in Seq(Int), NEW d
    PROVE  Sends(Then(Key.devices, Raw(<<OpenBracket>>)), Past(Outer, p, k, d),
                 Where("first_value", List, Append(Append(p, Key.devices), 1), d))
<1> DEFINE key == Key.devices
           mark == <<OpenBracket>>
<1>1. key \in Keys /\ key \in Nat /\ key >= 256
  BY TheKeys DEF Keys
<1>2. Outer # <<>> /\ Last(Outer) = "object" /\ List = Append(Outer, "array")
  BY Nesting
<1> HIDE DEF key
<1>3. Leads(<<Comma, key, Colon>> \o mark, Past(Outer, p, k, d),
            Where("first_value", List, Append(Append(p, key), 1), d))
  BY <1>1, <1>2, ArrayLeads DEF Past
<1>4. Raw(mark) \in Calls /\ Text(Raw(mark)) = mark
  BY MarksArePlain, Tuples, OneCall, TextOfCalls
<1> HIDE DEF mark
<1>5. /\ Then(key, Raw(mark)) \in Calls
      /\ Text(Then(key, Raw(mark))) = <<Comma, key, Colon>> \o mark
  BY <1>1, <1>4, MemberText DEF Then
<1>6. QED
  BY <1>3, <1>5 DEF Sends, key, mark

\* Nothing has been read.
LEMMA NothingRead == Stands(Scanner, Where("value", <<>>, <<>>, <<>>))
<1> DEFINE none == <<>>
<1>1. Scanner = Ready(none)
  BY DEF Scanner, Ready, At
<1>2. none \in Seq(AnyToken) /\ none \in Seq(Leaf) /\ Len(none) = 0
  BY Tuples
<1>3. Meaning(none) = none
  BY DEF Meaning
<1>4. ReadTokens(none) = Reader
  <2>1. PICK f : /\ f[0] = Reader
                 /\ ReadTokens(none) = f[Len(none)]
    BY <1>2, ReadIs
  <2>2. QED
    BY <1>2, <2>1
<1>5. Reader = Where("value", none, none, none)
  BY DEF Reader, Where
<1> HIDE DEF none
<1>6. Clean(Scanner, Where("value", none, none, none))
  BY <1>1, <1>2, <1>4, <1>5 DEF Clean
<1>7. Settled(Scanner, Where("value", none, none, none))
  <2>1. \E ls \in Seq(Leaf) :
           Clean(Scanner, Where("value", none, none, ls)) /\ Meaning(ls) = none
    BY <1>2, <1>3, <1>6
  <2>2. QED
    BY <2>1, StandsIs
<1>8. QED
  BY <1>7, StandsIs DEF none

\* The leaves of the header and of the batch.
BatchLeaves(h, ads) ==
    HeaderLeaves(<<>>, h) \o FlattenSeq([i \in DOMAIN ads |-> DeviceLeaves(i, ads[i])])

\* write_batch() leads to where only the two closing marks are missing.
LEMMA BatchSends ==
    ASSUME NEW h \in BatchHeader, NEW ads \in Seq(Advertisement)
    PROVE  \E calls \in Calls, e \in {"after", "first_value"}, p \in Seq(Int) :
              /\ WriteBatch(h, ads) = calls \o Raw(<<CloseBracket, CloseBrace>>)
              /\ Sends(calls, Where("value", <<>>, <<>>, <<>>),
                       Where(e, List, p, BatchLeaves(h, ads)))
<1> DEFINE none == <<>>
           d == HeaderLeaves(none, h)
           open == Then(Key.devices, Raw(<<OpenBracket>>))
           devices == FlattenSeq([i \in DOMAIN ads |->
                                     Unless(i = 1, Raw(<<Comma>>)) \o WriteDevice(ads[i])])
           leaves == FlattenSeq([i \in DOMAIN ads |-> DeviceLeaves(i, ads[i])])
           calls == (HeaderCalls(h) \o open) \o devices
           start == Where("value", none, none, none)
           begun == Where("first_value", List, Place(1), d)
<1>1. WriteBatch(h, ads) = calls \o Raw(<<CloseBracket, CloseBrace>>)
  BY DEF WriteBatch, HeaderCalls
<1>2. none \in Seq(Int) /\ Append(none, "object") = Outer /\ none = <<>>
  BY Tuples, Nesting
<1>3. Outer # <<>> /\ Last(Outer) = "object"
  BY Nesting
<1>4. Append(Append(none, Key.devices), 1) = Place(1)
  <2>1. 1 \in Int
    OBVIOUS
  <2>2. QED
    BY <2>1, Paths, Zenon
<1> HIDE DEF none
<1>5. /\ d \in Seq(Leaf)
      /\ \E k \in Int : Sends(HeaderCalls(h), Where("value", none, none, <<>>),
                              Past(Append(none, "object"), none, k, d))
  BY <1>2, <1>3, HeaderSends
<1>6. PICK k \in Int : Sends(HeaderCalls(h), start, Past(Outer, none, k, d))
  BY <1>2, <1>5
<1> HIDE DEF d
<1>7. Sends(open, Past(Outer, none, k, d), begun)
  BY <1>2, <1>4, ListSends
<1>8. PICK e \in {"after", "first_value"}, p \in Seq(Int) :
         Sends(devices, begun, Where(e, List, p, d \o leaves))
  BY <1>5, DevicesSend
<1>9. BatchLeaves(h, ads) = d \o leaves
  BY <1>2 DEF BatchLeaves, d
<1> HIDE DEF open, devices, leaves, start, begun
<1>10. Sends(HeaderCalls(h) \o open, start, begun)
  BY <1>6, <1>7, SendsJoined
<1>11. Sends(calls, start, Where(e, List, p, d \o leaves))
  BY <1>8, <1>10, SendsJoined
<1>12. calls \in Calls
  BY <1>11 DEF Sends
<1> HIDE DEF calls
<1>13. Sends(calls, Where("value", <<>>, <<>>, <<>>), Where(e, List, p, BatchLeaves(h, ads)))
  BY <1>2, <1>9, <1>11 DEF start
<1>14. QED
  BY <1>1, <1>12, <1>13

\* What is read of the text of a batch.
LEMMA BatchIsRead ==
    ASSUME NEW h \in BatchHeader, NEW ads \in Seq(Advertisement)
    PROVE  /\ ReadText(Text(WriteBatch(h, ads))).valid
           /\ Meaning(ReadText(Text(WriteBatch(h, ads))).leaves) = BatchLeaves(h, ads)
<1> DEFINE text == Text(WriteBatch(h, ads))
           none == <<>>
           start == Where("value", <<>>, <<>>, <<>>)
           end == <<CloseBracket, CloseBrace>>
           d == BatchLeaves(h, ads)
<1>1. PICK calls \in Calls, e \in {"after", "first_value"}, p \in Seq(Int) :
         /\ WriteBatch(h, ads) = calls \o Raw(end)
         /\ Sends(calls, start, Where(e, List, p, d))
  BY BatchSends
<1>2. end \in Seq(Plain) /\ Raw(end) \in Calls /\ Text(Raw(end)) = end
  <2>1. end \in Seq(Plain)
    BY MarksArePlain, Tuples
  <2> HIDE DEF end
  <2>2. QED
    BY <2>1, OneCall, TextOfCalls
<1>3. Text(calls) \in Seq(Plain) /\ text \in Seq(Plain)
  BY BatchIsCalls, TextIs
<1>4. text = Text(calls) \o end
  BY <1>1, <1>2, TextJoined
<1> HIDE DEF text, start, d
<1>5. PICK x : Scans(Scanner, Text(calls), x) /\ Stands(x, Where(e, List, p, d))
  BY <1>1, NothingRead DEF Sends, Leads, start
<1>6. PICK y : /\ Scans(x, end, y)
               /\ Settled(y, Where("after", none, Front(Front(p)), d))
  <2>1. /\ Outer \in Nests /\ Outer # <<>> /\ Last(Outer) = "object"
        /\ Append(Outer, "array") = List /\ Front(Outer) = none
    BY Nesting
  <2> HIDE DEF none, end
  <2>2. \E y : /\ Scans(x, <<CloseBracket, CloseBrace>>, y)
               /\ Settled(y, Where("after", Front(Outer), Front(Front(p)), d))
    BY <1>5, <2>1, EndSettles DEF Nests
  <2>3. QED
    BY <2>1, <2>2 DEF end
<1> HIDE DEF none, end
<1>7. Scans(Scanner, text, y)
  BY <1>2, <1>3, <1>4, <1>5, <1>6, ScansJoined
<1>8. Scanned(text) = y
  <2>1. Len(text) \in Nat
    BY <1>3, LenProperties
  <2>2. QED
    BY <1>7, <2>1, ScannedIs
<1>9. PICK ls \in Seq(Leaf) : /\ Clean(y, Where("after", none, Front(Front(p)), ls))
                              /\ Meaning(ls) = d
  BY <1>6, StandsIs
<1> DEFINE r == Where("after", none, Front(Front(p)), ls)
<1>10. PICK ts : y = Ready(ts) /\ ReadTokens(ts) = r
  BY <1>9 DEF Clean
<1>11. y.mode = "between" /\ y.tokens = ts
  BY <1>10, AtHas DEF Ready
<1>12. r.expects = "after" /\ r.nest = <<>> /\ r.leaves = ls
  BY WhereHas DEF none
<1> HIDE DEF r
<1>13. ReadTokens(Scanned(text).tokens) = r /\ Scanned(text).mode = "between"
  BY <1>8, <1>10, <1>11
<1>14. ReadText(text).valid /\ ReadText(text).leaves = ls
  BY <1>12, <1>13 DEF ReadText
<1>15. QED
  BY <1>9, <1>14 DEF text, d

\* The leaves so far are those of the property.
LEMMA DocumentIs == Document = BatchLeaves(header, to_post)
<1>1. /\ Append(<<>>, Key.gateway_id) = <<Key.gateway_id>>
      /\ Append(<<>>, Key.hostname) = <<Key.hostname>>
      /\ Append(<<>>, Key.firmware) = <<Key.firmware>>
      /\ Append(<<>>, Key.uptime) = <<Key.uptime>>
      /\ Append(<<>>, Key.free_heap) = <<Key.free_heap>>
      /\ Append(<<>>, Key.mac) = <<Key.mac>>
  BY Appending
<1> DEFINE none == <<>>
<1>2. none = <<>>
  OBVIOUS
<1> HIDE DEF none
<1>3. HeaderLeaves(none, header) =
         Str(<<Key.gateway_id>>, header.gateway_id)
         \o Str(<<Key.hostname>>, header.gateway_id)
         \o Str(<<Key.firmware>>, header.firmware)
         \o Num(<<Key.uptime>>, header.uptime_s)
         \o Num(<<Key.free_heap>>, header.free_heap)
         \o Unless(header.mac = <<>>, Str(<<Key.mac>>, FormatBda(header.mac)))
  BY <1>1, <1>2, Zenon DEF HeaderLeaves
<1>4. QED
  BY <1>2, <1>3, Zenon DEF Document, BatchLeaves, DeviceLeaves

\* What the server reads of a body is the header and the batch: for every
\* header, every batch and whatever a peripheral calls itself, the body is one
\* document, no name ends its string early, and no field is lost or added.
\* The server must not mind bytes that are no UTF-8: those of a name are passed
\* on as they are.
THEOREM BodyIsTheBatchAlways == Spec => []BodyIsTheBatch
<1>1. CycleInv => BodyIsTheBatch
  <2>1. SUFFICES ASSUME CycleInv, phase = "filled"
                 PROVE  /\ ReadText(body).valid
                        /\ Meaning(ReadText(body).leaves) = Document
    BY DEF BodyIsTheBatch, Meaning
  <2>2. /\ header \in BatchHeader /\ to_post \in Seq(Advertisement) /\ body = Filled
    BY <2>1 DEF CycleInv
  <2>3. Filled = Text(WriteBatch(header, to_post))
    BY DEF Filled, Text
  <2>4. QED
    BY <2>2, <2>3, BatchIsRead, DocumentIs
<1>2. QED
  BY <1>1, CycleAlways, PTL
=============================================================================
