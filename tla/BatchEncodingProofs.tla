------------------------ MODULE BatchEncodingProofs ------------------------
(***************************************************************************)
(* Proofs about BatchEncoding: for every header, every batch and every     *)
(* name, the pass that sizes the body and the pass that fills it agree.    *)
(*                                                                         *)
(* What a loop over data computes is proved by induction over the set of   *)
(* the numbers for which it holds, and not with the induction theorems of  *)
(* the library, whose parameter is an operator.                            *)
(***************************************************************************)
EXTENDS BatchEncoding, SequenceTheorems, WellFoundedInduction, TLAPS

-----------------------------------------------------------------------------
(* Loops.                                                                  *)

\* A set that holds 0 and every successor holds all numbers: the least number
\* that it lacks would have a predecessor.
LEMMA Induction ==
    ASSUME NEW S, 0 \in S, \A n \in Nat : n \in S => n + 1 \in S
    PROVE  Nat \subseteq S
<1> DEFINE R == OpToRel(<, Nat)
           T == Nat \ S
<1>1. IsWellFoundedOn(R, Nat)
  BY NatLessThanWellFounded
<1>2. \A x, y \in Nat : x < y => <<x, y>> \in R
  BY DEF OpToRel
<1> HIDE DEF R
<1>3. SUFFICES ASSUME T # {}
               PROVE  FALSE
  OBVIOUS
<1>4. PICK x \in T : \A y \in T : <<y, x>> \notin R
  BY <1>1, <1>3, WFMin
<1>5. x \in Nat /\ x # 0 /\ x - 1 \in Nat /\ x - 1 < x
  BY <1>4
<1>6. x - 1 \in S
  BY <1>2, <1>4, <1>5
<1>7. QED
  BY <1>4, <1>5, <1>6

LEMMA MinIsIn ==
    ASSUME NEW I, I \subseteq Nat, I # {}
    PROVE  Min(I) \in I
<1> DEFINE R == OpToRel(<, Nat)
<1>1. IsWellFoundedOn(R, Nat)
  BY NatLessThanWellFounded
<1>2. \A x, y \in Nat : x < y => <<x, y>> \in R
  BY DEF OpToRel
<1> HIDE DEF R
<1>3. PICK x \in I : \A y \in I : <<y, x>> \notin R
  BY <1>1, WFMin
<1>4. \A y \in I : ~ (y < x)
  BY <1>2, <1>3, Zenon
<1>5. \A y \in I : x =< y
  BY <1>4
<1>6. QED
  BY <1>5 DEF Min

\* A function on 1..n with values in S is a sequence.
LEMMA FunctionIsSeq ==
    ASSUME NEW S, NEW n \in Nat, NEW f \in [1..n -> S]
    PROVE  f \in Seq(S) /\ Len(f) = n /\ DOMAIN f = 1..n
<1>1. f \in Seq(S)
  BY SeqDef
<1>2. QED
  BY <1>1, LenProperties

\* FlattenSeq() is defined by a function that names itself; there is one.
LEMMA FlattenExists ==
    ASSUME NEW seqs
    PROVE  \A n \in Nat : \E f :
              f = [i \in 1..n |-> IF i = 1 THEN seqs[i] ELSE f[i - 1] \o seqs[i]]
<1> DEFINE Good(n) ==
               \E f : f = [i \in 1..n |-> IF i = 1 THEN seqs[i] ELSE f[i - 1] \o seqs[i]]
           S == {n \in Nat : Good(n)}
<1>1. Good(0)
  <2> DEFINE f == [i \in 1..0 |-> i]
  <2>1. f = [i \in 1..0 |-> IF i = 1 THEN seqs[i] ELSE f[i - 1] \o seqs[i]]
    OBVIOUS
  <2>2. QED
    BY <2>1
<1>2. ASSUME NEW n \in Nat, Good(n)
      PROVE  Good(n + 1)
  <2>1. PICK f : f = [i \in 1..n |-> IF i = 1 THEN seqs[i] ELSE f[i - 1] \o seqs[i]]
    BY <1>2
  <2> DEFINE g == [i \in 1..(n + 1) |-> IF i \in 1..n THEN f[i]
                     ELSE IF i = 1 THEN seqs[i] ELSE f[i - 1] \o seqs[i]]
  <2>2. ASSUME NEW i \in 1..(n + 1)
        PROVE  g[i] = IF i = 1 THEN seqs[i] ELSE g[i - 1] \o seqs[i]
    <3>1. CASE i \in 1..n
      <4>1. f[i] = IF i = 1 THEN seqs[i] ELSE f[i - 1] \o seqs[i]
        BY <2>1, <3>1
      <4>2. i # 1 => i - 1 \in 1..n
        BY <3>1
      <4>3. QED
        BY <3>1, <4>1, <4>2
    <3>2. CASE i = n + 1
      <4>1. i \notin 1..n /\ (i # 1 => i - 1 \in 1..n)
        BY <3>2
      <4>2. QED
        BY <3>2, <4>1
    <3>3. QED
      BY <3>1, <3>2
  <2>3. g = [i \in 1..(n + 1) |-> g[i]]
    OBVIOUS
  <2> HIDE DEF g
  <2>4. g = [i \in 1..(n + 1) |-> IF i = 1 THEN seqs[i] ELSE g[i - 1] \o seqs[i]]
    BY <2>2, <2>3
  <2>5. QED
    BY <2>4
<1> HIDE DEF Good
<1>3. 0 \in S /\ \A n \in Nat : n \in S => n + 1 \in S
  BY <1>1, <1>2
<1> HIDE DEF S
<1>4. Nat \subseteq S
  BY <1>3, Induction
<1>5. ASSUME NEW n \in Nat
      PROVE  Good(n)
  BY <1>4 DEF S
<1>6. QED
  BY <1>5 DEF Good

LEMMA FlattenIs ==
    ASSUME NEW seqs, Len(seqs) \in Nat, Len(seqs) # 0
    PROVE  \E f :
              /\ f = [i \in 1..Len(seqs) |->
                         IF i = 1 THEN seqs[i] ELSE f[i - 1] \o seqs[i]]
              /\ FlattenSeq(seqs) = f[Len(seqs)]
<1>1. \E f : f = [i \in 1..Len(seqs) |-> IF i = 1 THEN seqs[i] ELSE f[i - 1] \o seqs[i]]
  BY FlattenExists
<1>2. QED
  BY <1>1 DEF FlattenSeq

\* FoldLeft() adds from the left, and is defined over the sets of indices.
LEMMA MaxOfInterval ==
    ASSUME NEW n \in Nat, NEW s \in SUBSET (1..(n + 1)), n + 1 \in s
    PROVE  Max(s) = n + 1
<1>1. \A y \in s : n + 1 >= y
  OBVIOUS
<1>2. ASSUME NEW x \in s, \A y \in s : x >= y
      PROVE  x = n + 1
  <2>1. x >= n + 1 /\ x \in Int /\ n + 1 >= x
    BY <1>1, <1>2
  <2>2. QED
    BY <2>1
<1> DEFINE P(x) == x \in s /\ \A y \in s : x >= y
<1>3. P(n + 1) /\ \A x : P(x) => x = n + 1
  BY <1>1, <1>2
<1> HIDE DEF P
<1>4. (CHOOSE x : P(x)) = n + 1
  BY <1>3
<1>5. (CHOOSE x : P(x)) = CHOOSE x : x \in s /\ \A y \in s : x >= y
  BY DEF P
<1>6. QED
  BY <1>4, <1>5, Zenon DEF Max

LEMMA TotalExists ==
    ASSUME NEW lengths
    PROVE  \A n \in Nat : \E f :
              f = [s \in SUBSET (1..n) |->
                      IF s = {} THEN 0 ELSE f[s \ {Max(s)}] + lengths[Max(s)]]
<1> DEFINE Good(n) ==
               \E f : f = [s \in SUBSET (1..n) |->
                      IF s = {} THEN 0 ELSE f[s \ {Max(s)}] + lengths[Max(s)]]
           S == {n \in Nat : Good(n)}
<1>1. Good(0)
  <2> DEFINE f == [s \in SUBSET (1..0) |-> 0]
  <2>1. \A s \in SUBSET (1..0) : s = {}
    OBVIOUS
  <2>2. f = [s \in SUBSET (1..0) |->
                IF s = {} THEN 0 ELSE f[s \ {Max(s)}] + lengths[Max(s)]]
    BY <2>1
  <2>3. QED
    BY <2>2
<1>2. ASSUME NEW n \in Nat, Good(n)
      PROVE  Good(n + 1)
  <2>1. PICK f : f = [s \in SUBSET (1..n) |->
                         IF s = {} THEN 0 ELSE f[s \ {Max(s)}] + lengths[Max(s)]]
    BY <1>2
  <2> DEFINE more == SUBSET (1..(n + 1))
             g == [s \in more |->
                      IF n + 1 \in s THEN f[s \ {n + 1}] + lengths[n + 1] ELSE f[s]]
  <2>2. ASSUME NEW s \in more
        PROVE  g[s] = IF s = {} THEN 0 ELSE g[s \ {Max(s)}] + lengths[Max(s)]
    <3>1. CASE n + 1 \in s
      <4>1. Max(s) = n + 1
        BY <3>1, MaxOfInterval
      <4>2. s \ {n + 1} \in more /\ n + 1 \notin s \ {n + 1}
        OBVIOUS
      <4>3. g[s \ {n + 1}] = f[s \ {n + 1}]
        BY <4>2
      <4>4. QED
        BY <3>1, <4>1, <4>3
    <3>2. CASE n + 1 \notin s
      <4>1. s \in SUBSET (1..n)
        BY <3>2
      <4>2. f[s] = IF s = {} THEN 0 ELSE f[s \ {Max(s)}] + lengths[Max(s)]
        BY <2>1, <4>1
      <4>3. s \ {Max(s)} \in more /\ n + 1 \notin s \ {Max(s)}
        BY <3>2
      <4>4. g[s \ {Max(s)}] = f[s \ {Max(s)}] /\ g[s] = f[s]
        BY <3>2, <4>3
      <4>5. QED
        BY <4>2, <4>4
    <3>3. QED
      BY <3>1, <3>2
  <2>3. g = [s \in more |-> g[s]]
    OBVIOUS
  <2> HIDE DEF g
  <2>4. g = [s \in more |-> IF s = {} THEN 0 ELSE g[s \ {Max(s)}] + lengths[Max(s)]]
    BY <2>2, <2>3
  <2>5. QED
    BY <2>4
<1> HIDE DEF Good
<1>3. 0 \in S /\ \A n \in Nat : n \in S => n + 1 \in S
  BY <1>1, <1>2
<1> HIDE DEF S
<1>4. Nat \subseteq S
  BY <1>3, Induction
<1>5. ASSUME NEW n \in Nat
      PROVE  Good(n)
  BY <1>4 DEF S
<1>6. QED
  BY <1>5 DEF Good

\* Total() is reached by adding one length after the other.
LEMMA TotalIs ==
    ASSUME NEW lengths, NEW n \in Nat, DOMAIN lengths = 1..n
    PROVE  \E t : /\ t[0] = 0
                  /\ \A k \in 1..n : t[k] = t[k - 1] + lengths[k]
                  /\ Total(lengths) = t[n]
<1>1. \E f : f = [s \in SUBSET (1..n) |->
                     IF s = {} THEN 0 ELSE f[s \ {Max(s)}] + lengths[Max(s)]]
  BY TotalExists
<1>2. PICK f : /\ f = [s \in SUBSET (1..n) |->
                          IF s = {} THEN 0 ELSE f[s \ {Max(s)}] + lengths[Max(s)]]
               /\ Total(lengths) = f[1..n]
  BY <1>1 DEF Total, FoldLeft, MapThenFoldSet
<1> DEFINE t == [k \in 0..n |-> f[1..k]]
<1>3. t[0] = 0
  BY <1>2
<1>4. ASSUME NEW k \in 1..n
      PROVE  t[k] = t[k - 1] + lengths[k]
  <2>1. 1..k \in SUBSET (1..n) /\ 1..k # {} /\ (1..k) \ {k} = 1..(k - 1)
    OBVIOUS
  <2>2. Max(1..k) = k
    <3>1. k - 1 \in Nat /\ k = (k - 1) + 1 /\ k \in 1..k
      OBVIOUS
    <3>2. 1..k \in SUBSET (1..((k - 1) + 1)) /\ (k - 1) + 1 \in 1..k
      BY <3>1
    <3> HIDE DEF t
    <3>3. Max(1..k) = (k - 1) + 1
      BY <3>1, <3>2, MaxOfInterval
    <3>4. QED
      BY <3>1, <3>3
  <2>3. f[1..k] = f[(1..k) \ {k}] + lengths[k]
    BY <1>2, <2>1, <2>2
  <2>4. t[k] = f[1..k] /\ t[k - 1] = f[1..(k - 1)]
    OBVIOUS
  <2> HIDE DEF t
  <2>5. QED
    BY <2>1, <2>3, <2>4
<1>5. t[n] = f[1..n]
  OBVIOUS
<1> HIDE DEF t
<1>6. QED
  BY <1>2, <1>3, <1>4, <1>5

\* A total of numbers is a number.
LEMMA TotalIsNat ==
    ASSUME NEW n \in Nat, NEW lengths \in [1..n -> Nat]
    PROVE  Total(lengths) \in Nat
<1>1. PICK t : /\ t[0] = 0
               /\ \A k \in 1..n : t[k] = t[k - 1] + lengths[k]
               /\ Total(lengths) = t[n]
  BY TotalIs
<1> DEFINE S == {k \in Nat : k <= n => t[k] \in Nat}
<1>2. 0 \in S
  BY <1>1
<1>3. ASSUME NEW k \in Nat, k \in S
      PROVE  k + 1 \in S
  <2>1. SUFFICES ASSUME k + 1 <= n
                 PROVE  t[k + 1] \in Nat
    OBVIOUS
  <2>2. k + 1 \in 1..n /\ (k + 1) - 1 = k /\ k <= n
    BY <2>1
  <2>3. t[k + 1] = t[k] + lengths[k + 1] /\ t[k] \in Nat /\ lengths[k + 1] \in Nat
    BY <1>1, <1>3, <2>2
  <2>4. QED
    BY <2>3
<1> HIDE DEF S
<1>4. n \in S
  BY <1>2, <1>3, Induction
<1>5. QED
  BY <1>1, <1>4 DEF S

\* The total of n equal lengths.
LEMMA TotalOfTwos ==
    ASSUME NEW n \in Nat, NEW lengths, lengths = [i \in 1..n |-> 2]
    PROVE  Total(lengths) = 2 * n
<1>1. PICK t : /\ t[0] = 0
               /\ \A k \in 1..n : t[k] = t[k - 1] + lengths[k]
               /\ Total(lengths) = t[n]
  BY TotalIs
<1> DEFINE S == {k \in Nat : k <= n => t[k] = 2 * k}
<1>2. 0 \in S
  BY <1>1
<1>3. ASSUME NEW k \in Nat, k \in S
      PROVE  k + 1 \in S
  <2>1. SUFFICES ASSUME k + 1 <= n
                 PROVE  t[k + 1] = 2 * (k + 1)
    OBVIOUS
  <2>2. k + 1 \in 1..n /\ (k + 1) - 1 = k /\ k <= n
    BY <2>1
  <2>3. t[k + 1] = t[k] + 2 /\ t[k] = 2 * k
    BY <1>1, <1>3, <2>2
  <2>4. QED
    BY <2>3
<1> HIDE DEF S
<1>4. n \in S
  BY <1>2, <1>3, Induction
<1>5. QED
  BY <1>1, <1>4 DEF S

\* What is put together out of texts is a text, as long as they are together.
LEMMA Flattening ==
    ASSUME NEW S, NEW seqs \in Seq(Seq(S))
    PROVE  /\ FlattenSeq(seqs) \in Seq(S)
           /\ Len(FlattenSeq(seqs)) = Total([i \in DOMAIN seqs |-> Len(seqs[i])])
<1> DEFINE n == Len(seqs)
           lengths == [i \in DOMAIN seqs |-> Len(seqs[i])]
<1>1. n \in Nat /\ DOMAIN seqs = 1..n /\ DOMAIN lengths = 1..n
  BY LenProperties
<1>2. \A i \in 1..n : seqs[i] \in Seq(S) /\ lengths[i] = Len(seqs[i])
  BY <1>1, ElementOfSeq
<1> HIDE DEF lengths
<1>3. PICK t : /\ t[0] = 0
               /\ \A k \in 1..n : t[k] = t[k - 1] + lengths[k]
               /\ Total(lengths) = t[n]
  BY <1>1, TotalIs
<1>4. CASE n = 0
  <2>1. FlattenSeq(seqs) = <<>> /\ seqs = <<>>
    BY <1>4, EmptySeq DEF FlattenSeq
  <2>2. QED
    BY <1>3, <1>4, <2>1 DEF lengths
<1>5. CASE n # 0
  <2>1. PICK f : /\ f = [i \in 1..n |-> IF i = 1 THEN seqs[i] ELSE f[i - 1] \o seqs[i]]
                 /\ FlattenSeq(seqs) = f[n]
    BY <1>1, <1>5, FlattenIs
  <2> DEFINE Ready(k) == f[k] \in Seq(S) /\ Len(f[k]) = t[k]
             R == {k \in Nat : k \in 1..n => Ready(k)}
  <2>2. 0 \in R
    OBVIOUS
  <2>3. ASSUME NEW k \in Nat, k \in R
        PROVE  k + 1 \in R
    <3>1. SUFFICES ASSUME k + 1 \in 1..n
                   PROVE  Ready(k + 1)
      OBVIOUS
    <3>2. CASE k = 0
      <4>1. f[1] = seqs[1] /\ t[1] = lengths[1] /\ seqs[1] \in Seq(S)
        <5>1. 1 \in 1..n /\ 1 - 1 = 0
          BY <3>1, <3>2
        <5>2. t[1] = 0 + lengths[1] /\ lengths[1] = Len(seqs[1]) /\ seqs[1] \in Seq(S)
          BY <1>2, <1>3, <5>1
        <5>3. Len(seqs[1]) \in Nat
          BY <5>2, LenProperties
        <5>4. QED
          BY <2>1, <5>1, <5>2, <5>3
      <4>2. QED
        BY <1>2, <3>1, <3>2, <4>1
    <3>3. CASE k # 0
      <4>1. k \in 1..n /\ k + 1 # 1 /\ (k + 1) - 1 = k
        BY <3>1, <3>3, <1>1
      <4>2. f[k] \in Seq(S) /\ Len(f[k]) = t[k]
        BY <2>3, <4>1
      <4>3. f[k + 1] = f[k] \o seqs[k + 1] /\ seqs[k + 1] \in Seq(S)
        BY <1>2, <2>1, <3>1, <4>1
      <4>4. t[k + 1] = t[k] + Len(seqs[k + 1])
        BY <1>2, <1>3, <3>1, <4>1
      <4>5. ASSUME NEW a \in Seq(S), NEW b \in Seq(S)
            PROVE  a \o b \in Seq(S) /\ Len(a \o b) = Len(a) + Len(b)
        BY ConcatProperties
      <4>6. /\ f[k] \o seqs[k + 1] \in Seq(S)
            /\ Len(f[k] \o seqs[k + 1]) = Len(f[k]) + Len(seqs[k + 1])
        BY <4>2, <4>3, <4>5, Zenon
      <4>7. QED
        BY <4>2, <4>3, <4>4, <4>6
    <3>4. QED
      BY <3>2, <3>3
  <2> HIDE DEF R
  <2>4. n \in R
    BY <1>1, <2>2, <2>3, Induction
  <2>5. f[n] \in Seq(S) /\ Len(f[n]) = t[n]
    BY <1>1, <1>5, <2>4 DEF R
  <2>6. QED
    BY <1>3, <2>1, <2>5 DEF lengths
<1>6. QED
  BY <1>4, <1>5

-----------------------------------------------------------------------------
(* Texts.                                                                  *)

\* The characters that a body is made of: codes that JSON lets stand for
\* themselves, and keys.
Plain == {c \in Nat : c >= Space}

LEMMA Tuples ==
    ASSUME NEW S
    PROVE  /\ <<>> \in Seq(S) /\ Len(<<>>) = 0
           /\ \A a \in S : <<a>> \in Seq(S) /\ Len(<<a>>) = 1
           /\ \A a, b \in S : <<a, b>> \in Seq(S) /\ Len(<<a, b>>) = 2
           /\ \A a, b, c \in S : <<a, b, c>> \in Seq(S) /\ Len(<<a, b, c>>) = 3
           /\ \A a, b, c, d, e, f \in S :
                 <<a, b, c, d, e, f>> \in Seq(S) /\ Len(<<a, b, c, d, e, f>>) = 6
<1>1. <<>> \in Seq(S) /\ Len(<<>>) = 0
  OBVIOUS
<1>2. \A a \in S : <<a>> \in Seq(S) /\ Len(<<a>>) = 1
  OBVIOUS
<1>3. \A a, b \in S : <<a, b>> \in Seq(S) /\ Len(<<a, b>>) = 2
  OBVIOUS
<1>4. \A a, b, c \in S : <<a, b, c>> \in Seq(S) /\ Len(<<a, b, c>>) = 3
  OBVIOUS
<1>5. \A a, b, c, d, e, f \in S :
         <<a, b, c, d, e, f>> \in Seq(S) /\ Len(<<a, b, c, d, e, f>>) = 6
  OBVIOUS
<1>6. QED
  BY <1>1, <1>2, <1>3, <1>4, <1>5

LEMMA Joining ==
    ASSUME NEW S, NEW a \in Seq(S), NEW b \in Seq(S)
    PROVE  a \o b \in Seq(S) /\ Len(a \o b) = Len(a) + Len(b)
  BY ConcatProperties

\* A text with something made out of each of its elements.
LEMMA Mapped ==
    ASSUME NEW S, NEW T, NEW text \in Seq(S), NEW f,
           DOMAIN f = DOMAIN text, \A i \in DOMAIN text : f[i] \in T,
           f = [i \in DOMAIN f |-> f[i]]
    PROVE  f \in Seq(T) /\ Len(f) = Len(text) /\ DOMAIN f = 1..Len(text)
<1>1. Len(text) \in Nat /\ DOMAIN text = 1..Len(text)
  BY LenProperties
<1>2. f \in [1..Len(text) -> T]
  BY <1>1
<1>3. QED
  BY <1>1, <1>2, FunctionIsSeq

\* kShortEscape, and where it has a letter.
LEMMA ShortEscapes ==
    /\ DOMAIN ShortEscape = {8, 9, 10, 12, 13}
    /\ \A c \in DOMAIN ShortEscape : ShortEscape[c] \in Plain
  BY DEF ShortEscape, Plain, Space

\* Both passes take a character alike: as two characters, as six, or as itself.
LEMMA EscapeHasItsLength ==
    ASSUME NEW c \in Byte
    PROVE  Escaped(c) \in Seq(Plain) /\ Len(Escaped(c)) = EscapedLength(c)
<1>1. /\ Quote \in Plain /\ Backslash \in Plain /\ LetterU \in Plain /\ Zero \in Plain
      /\ Quote >= Space /\ Backslash >= Space /\ Space = 32
  BY DEF Quote, Backslash, LetterU, Zero, Plain, Space
<1>2. CASE c \in {Quote, Backslash}
  <2>1. c \in Plain /\ Escaped(c) = <<Backslash, c>> /\ EscapedLength(c) = 2
    BY <1>1, <1>2 DEF Escaped, EscapedLength
  <2>2. <<Backslash, c>> \in Seq(Plain) /\ Len(<<Backslash, c>>) = 2
    BY <1>1, <2>1, Tuples
  <2>3. QED
    BY <2>1, <2>2
<1>3. CASE c \notin {Quote, Backslash} /\ c >= Space
  <2>1. c \in Plain /\ Escaped(c) = <<c>>
    BY <1>1, <1>3 DEF Escaped, Plain, Byte
  <2>2. c \notin DOMAIN ShortEscape /\ ~ (c < Space)
    BY <1>1, <1>3, ShortEscapes DEF Byte
  <2>3. EscapedLength(c) = 1
    BY <1>3, <2>2 DEF EscapedLength
  <2>4. QED
    BY <2>1, <2>3, Tuples
<1>4. CASE c < Space /\ c \notin {Quote, Backslash} /\ c \in DOMAIN ShortEscape
  <2>1. ~ (c >= Space)
    BY <1>1, <1>4 DEF Byte
  <2>2. Escaped(c) = <<Backslash, ShortEscape[c]>> /\ EscapedLength(c) = 2
    BY <1>4, <2>1 DEF Escaped, EscapedLength
  <2>3. ShortEscape[c] \in Plain
    BY <1>4, ShortEscapes
  <2>4. /\ <<Backslash, ShortEscape[c]>> \in Seq(Plain)
        /\ Len(<<Backslash, ShortEscape[c]>>) = 2
    BY <1>1, <2>3, Tuples
  <2>5. QED
    BY <2>2, <2>4
<1>5. CASE c < Space /\ c \notin {Quote, Backslash} /\ c \notin DOMAIN ShortEscape
  <2>1. ~ (c >= Space)
    BY <1>1, <1>5 DEF Byte
  <2>2. /\ Escaped(c) = <<Backslash, LetterU, Zero, Zero,
                          LowerHex(c \div 16), LowerHex(c % 16)>>
        /\ EscapedLength(c) = 6
    BY <1>5, <2>1 DEF Escaped, EscapedLength
  <2>3. c \div 16 \in Nat /\ c % 16 \in Nat
    BY DEF Byte
  <2>4. LowerHex(c \div 16) \in Plain /\ LowerHex(c % 16) \in Plain
    BY <2>3 DEF LowerHex, Plain, Zero, Space
  <2>5. QED
    BY <1>1, <2>2, <2>4, Tuples
<1>6. QED
  BY <1>1, <1>2, <1>3, <1>4, <1>5 DEF Byte

\* json_quoted_length() is the length of what json_append_quoted() appends.
LEMMA QuotedHasItsLength ==
    ASSUME NEW text \in Seq(Byte)
    PROVE  /\ JsonQuoted(text) \in Seq(Plain)
           /\ Len(JsonQuoted(text)) = JsonQuotedLength(text)
<1> DEFINE escapes == [i \in DOMAIN text |-> Escaped(text[i])]
           lengths == [i \in DOMAIN text |-> EscapedLength(text[i])]
           inner == FlattenSeq(escapes)
<1>1. \A i \in DOMAIN text : text[i] \in Byte
  BY ElementOfSeq, LenProperties
<1>2. \A i \in DOMAIN text : escapes[i] \in Seq(Plain) /\ Len(escapes[i]) = lengths[i]
  BY <1>1, EscapeHasItsLength
<1>3. DOMAIN escapes = DOMAIN text /\ escapes = [i \in DOMAIN escapes |-> escapes[i]]
  OBVIOUS
<1>4. lengths = [i \in DOMAIN text |-> Len(escapes[i])]
  BY <1>2
<1>5. /\ JsonQuoted(text) = <<Quote>> \o inner \o <<Quote>>
      /\ JsonQuotedLength(text) = 2 + Total(lengths)
  BY DEF JsonQuoted, JsonQuotedLength
<1> HIDE DEF escapes, lengths
<1>6. escapes \in Seq(Seq(Plain))
  BY <1>2, <1>3, Mapped
<1>7. inner \in Seq(Plain) /\ Len(inner) = Total(lengths) /\ Len(inner) \in Nat
  BY <1>3, <1>4, <1>6, Flattening, LenProperties
<1> HIDE DEF inner
<1>8. <<Quote>> \in Seq(Plain) /\ Len(<<Quote>>) = 1
  BY Tuples DEF Plain, Quote, Space
<1>9. <<Quote>> \o inner \in Seq(Plain) /\ Len(<<Quote>> \o inner) = 1 + Len(inner)
  BY <1>7, <1>8, Joining
<1>10. /\ <<Quote>> \o inner \o <<Quote>> \in Seq(Plain)
       /\ Len(<<Quote>> \o inner \o <<Quote>>) = 1 + Len(inner) + 1
  BY <1>8, <1>9, Joining
<1>11. QED
  BY <1>5, <1>7, <1>10

LEMMA Nibbles ==
    ASSUME NEW b \in Byte
    PROVE  (b \div 16) \in 0..15 /\ (b % 16) \in 0..15
<1>1. b \in Nat /\ b <= 255
  BY DEF Byte
<1>2. b % 16 \in Nat /\ b % 16 < 16
  BY <1>1
<1>3. b \div 16 \in Int /\ 16 * (b \div 16) <= b /\ 0 <= b \div 16
  BY <1>1
<1>4. QED
  BY <1>1, <1>2, <1>3

\* Two digits to a byte.
LEMMA HexHasItsLength ==
    ASSUME NEW bytes \in Seq(Byte)
    PROVE  /\ Hex(bytes) \in Seq(Plain) /\ Hex(bytes) \in Seq(Byte)
           /\ Len(Hex(bytes)) = 2 * Len(bytes)
<1> DEFINE Digit == Plain \cap Byte
           pairs == [i \in DOMAIN bytes |->
                        <<UpperHex(bytes[i] \div 16), UpperHex(bytes[i] % 16)>>]
<1>1. ASSUME NEW i \in DOMAIN bytes
      PROVE  pairs[i] \in Seq(Digit) /\ Len(pairs[i]) = 2
  <2>1. bytes[i] \in Byte
    BY ElementOfSeq, LenProperties
  <2>2. (bytes[i] \div 16) \in 0..15 /\ (bytes[i] % 16) \in 0..15
    BY <2>1, Nibbles
  <2>3. ASSUME NEW n \in 0..15
        PROVE  UpperHex(n) \in Digit
    BY DEF UpperHex, Plain, Byte, Zero, Space
  <2>4. pairs[i] = <<UpperHex(bytes[i] \div 16), UpperHex(bytes[i] % 16)>>
    OBVIOUS
  <2> HIDE DEF pairs, Digit
  <2>5. ASSUME NEW a \in Digit, NEW b \in Digit
        PROVE  <<a, b>> \in Seq(Digit) /\ Len(<<a, b>>) = 2
    BY Tuples
  <2>6. QED
    BY <2>2, <2>3, <2>4, <2>5
<1>2. DOMAIN pairs = DOMAIN bytes /\ pairs = [i \in DOMAIN pairs |-> pairs[i]]
  OBVIOUS
<1>3. Hex(bytes) = FlattenSeq(pairs)
  BY DEF Hex
<1> HIDE DEF pairs
<1>4. pairs \in Seq(Seq(Digit)) /\ DOMAIN pairs = 1..Len(bytes) /\ Len(bytes) \in Nat
  BY <1>1, <1>2, Mapped, LenProperties
<1>5. [i \in DOMAIN pairs |-> Len(pairs[i])] = [i \in 1..Len(bytes) |-> 2]
  BY <1>1, <1>2, <1>4
<1>6. /\ FlattenSeq(pairs) \in Seq(Digit)
      /\ Len(FlattenSeq(pairs)) = Total([i \in DOMAIN pairs |-> Len(pairs[i])])
  BY <1>4, Flattening
<1>7. Len(FlattenSeq(pairs)) = 2 * Len(bytes)
  BY <1>4, <1>5, <1>6, TotalOfTwos
<1>8. Digit \subseteq Plain /\ Digit \subseteq Byte
  OBVIOUS
<1> HIDE DEF Digit
<1>9. FlattenSeq(pairs) \in Seq(Plain) /\ FlattenSeq(pairs) \in Seq(Byte)
  BY <1>6, <1>8, SeqDef
<1>10. QED
  BY <1>3, <1>7, <1>9

LEMMA FormatBdaIsText ==
    ASSUME NEW bda \in Seq(Byte)
    PROVE  FormatBda(bda) \in Seq(Byte)
<1> DEFINE parts == [i \in DOMAIN bda |->
                        (IF i = 1 THEN <<>> ELSE <<Colon>>) \o Hex(<<bda[i]>>)]
<1>1. ASSUME NEW i \in DOMAIN bda
      PROVE  parts[i] \in Seq(Byte)
  <2>1. bda[i] \in Byte
    BY ElementOfSeq, LenProperties
  <2>2. <<bda[i]>> \in Seq(Byte) /\ <<Colon>> \in Seq(Byte) /\ <<>> \in Seq(Byte)
    BY <2>1, Tuples DEF Colon, Byte
  <2>3. Hex(<<bda[i]>>) \in Seq(Byte)
    BY <2>2, HexHasItsLength
  <2>4. QED
    BY <2>2, <2>3, Joining
<1>2. DOMAIN parts = DOMAIN bda /\ parts = [i \in DOMAIN parts |-> parts[i]]
  OBVIOUS
<1>3. FormatBda(bda) = FlattenSeq(parts)
  BY DEF FormatBda
<1> HIDE DEF parts
<1>4. parts \in Seq(Seq(Byte))
  BY <1>1, <1>2, Mapped
<1>5. QED
  BY <1>3, <1>4, Flattening

\* A name is cut, and stays a name.
LEMMA LocalNameIsText ==
    ASSUME NEW field \in Seq(Byte)
    PROVE  LocalName(field) \in Seq(Byte)
<1> DEFINE kept == SubSeq(field, 1, IF Len(field) < NameMax THEN Len(field) ELSE NameMax)
           first == SelectInSeq(kept, LAMBDA c : c = 0)
<1>1. Len(field) \in Nat /\ NameMax \in Nat
  BY LenProperties, BatchAssumption
<1>2. ASSUME NEW s \in Seq(Byte), NEW m \in Int, m <= Len(s)
      PROVE  SubSeq(s, 1, m) \in Seq(Byte)
  <2>1. \A i \in 1..m : s[i] \in Byte
    BY <1>2, ElementOfSeq, LenProperties
  <2>2. QED
    BY <2>1, SubSeqProperties
<1>3. kept \in Seq(Byte)
  BY <1>1, <1>2
<1>4. LocalName(field) = IF 0 \in ToSet(kept) THEN SubSeq(kept, 1, first - 1) ELSE kept
  BY DEF LocalName
<1> HIDE DEF kept
<1>5. ASSUME 0 \in ToSet(kept)
      PROVE  first \in 1..Len(kept)
  <2> DEFINE I == {i \in 1..Len(kept) : kept[i] = 0}
  <2>1. first = IF I # {} THEN Min(I) ELSE 0
    BY DEF SelectInSeq
  <2>2. I # {} /\ I \subseteq Nat /\ I \subseteq 1..Len(kept)
    BY <1>3, <1>5, LenProperties DEF ToSet
  <2> HIDE DEF I, first
  <2>3. Min(I) \in I
    BY <2>2, MinIsIn
  <2>4. QED
    BY <2>1, <2>2, <2>3
<1> HIDE DEF first
<1>6. QED
  BY <1>2, <1>3, <1>4, <1>5, LenProperties

\* What dividing by ten leaves is less, as long as there is a digit to drop.
LEMMA Tenth ==
    ASSUME NEW n \in Nat, NEW i \in 0..(n + 1)
    PROVE  (i % 10) \in 0..9 /\ (i >= 10 => (i \div 10) \in 0..n /\ (i \div 10) < i)
<1>1. i \in Nat /\ i <= n + 1
  OBVIOUS
<1>2. i % 10 \in Nat /\ i % 10 < 10
  BY <1>1
<1>3. i \div 10 \in Int /\ 10 * (i \div 10) <= i /\ 0 <= i \div 10
  BY <1>1
<1>4. QED
  BY <1>1, <1>2, <1>3

\* The digits of a number are defined by a function that names itself.
LEMMA DigitsExist ==
    \A n \in Nat : \E f :
       f = [i \in 0..n |-> IF i < 10 THEN <<Zero + i>>
                           ELSE Append(f[i \div 10], Zero + (i % 10))]
<1> DEFINE Good(n) ==
               \E f : f = [i \in 0..n |-> IF i < 10 THEN <<Zero + i>>
                                          ELSE Append(f[i \div 10], Zero + (i % 10))]
           S == {n \in Nat : Good(n)}
<1>1. Good(0)
  <2> DEFINE f == [i \in 0..0 |-> <<Zero + i>>]
  <2>1. \A i \in 0..0 : i < 10
    OBVIOUS
  <2>2. f = [i \in 0..0 |-> IF i < 10 THEN <<Zero + i>>
                            ELSE Append(f[i \div 10], Zero + (i % 10))]
    BY <2>1
  <2>3. QED
    BY <2>2
<1>2. ASSUME NEW n \in Nat, Good(n)
      PROVE  Good(n + 1)
  <2>1. PICK f : f = [i \in 0..n |-> IF i < 10 THEN <<Zero + i>>
                                     ELSE Append(f[i \div 10], Zero + (i % 10))]
    BY <1>2
  <2> DEFINE g == [i \in 0..(n + 1) |-> IF i \in 0..n THEN f[i]
                     ELSE IF i < 10 THEN <<Zero + i>>
                          ELSE Append(f[i \div 10], Zero + (i % 10))]
  <2>2. ASSUME NEW i \in 0..(n + 1)
        PROVE  g[i] = IF i < 10 THEN <<Zero + i>>
                      ELSE Append(g[i \div 10], Zero + (i % 10))
    <3>1. i >= 10 => i \div 10 \in 0..n /\ i \div 10 \in 0..(n + 1)
      BY Tenth
    <3>2. i >= 10 => g[i \div 10] = f[i \div 10]
      BY <3>1
    <3>3. CASE i \in 0..n
      <4>1. f[i] = IF i < 10 THEN <<Zero + i>>
                   ELSE Append(f[i \div 10], Zero + (i % 10))
        BY <2>1, <3>3
      <4>2. g[i] = f[i]
        BY <3>3
      <4> HIDE DEF g
      <4>3. QED
        BY <3>2, <4>1, <4>2
    <3>4. CASE i \notin 0..n
      <4>1. g[i] = IF i < 10 THEN <<Zero + i>>
                   ELSE Append(f[i \div 10], Zero + (i % 10))
        BY <3>4
      <4> HIDE DEF g
      <4>2. QED
        BY <3>2, <4>1
    <3>5. QED
      BY <3>3, <3>4
  <2>3. g = [i \in 0..(n + 1) |-> g[i]]
    OBVIOUS
  <2> HIDE DEF g
  <2>4. g = [i \in 0..(n + 1) |-> IF i < 10 THEN <<Zero + i>>
                                  ELSE Append(g[i \div 10], Zero + (i % 10))]
    BY <2>2, <2>3
  <2>5. QED
    BY <2>4
<1> HIDE DEF Good
<1>3. 0 \in S /\ \A n \in Nat : n \in S => n + 1 \in S
  BY <1>1, <1>2
<1> HIDE DEF S
<1>4. Nat \subseteq S
  BY <1>3, Induction
<1>5. ASSUME NEW n \in Nat
      PROVE  Good(n)
  BY <1>4 DEF S
<1>6. QED
  BY <1>5 DEF Good

LEMMA NumberIsText ==
    ASSUME NEW value \in Int
    PROVE  BatchNumberText(value) \in Seq(Plain)
<1> DEFINE magnitude == IF value < 0 THEN -value ELSE value
           sign == IF value < 0 THEN <<Minus>> ELSE <<>>
<1>1. magnitude \in Nat
  OBVIOUS
<1>2. \E f : f = [i \in 0..magnitude |->
                     IF i < 10 THEN <<Zero + i>>
                     ELSE Append(f[i \div 10], Zero + (i % 10))]
  BY <1>1, DigitsExist
<1>3. PICK f : /\ f = [i \in 0..magnitude |->
                          IF i < 10 THEN <<Zero + i>>
                          ELSE Append(f[i \div 10], Zero + (i % 10))]
               /\ BatchNumberText(value) = sign \o f[magnitude]
  BY <1>2 DEF BatchNumberText
<1>4. sign \in Seq(Plain)
  <2>1. Minus \in Plain
    BY DEF Plain, Minus, Space
  <2>2. <<Minus>> \in Seq(Plain) /\ <<>> \in Seq(Plain)
    BY <2>1, Tuples
  <2>3. QED
    BY <2>2
<1> HIDE DEF magnitude, sign
<1> DEFINE Typed(n) == \A i \in 0..n : i <= magnitude => f[i] \in Seq(Plain)
           S == {n \in Nat : Typed(n)}
<1>5. ASSUME NEW d \in 0..9
      PROVE  Zero + d \in Plain
  BY DEF Zero, Plain, Space
<1>6. 0 \in S
  <2>1. f[0] = <<Zero + 0>> /\ 0 \in 0..9
    BY <1>1, <1>3
  <2>2. <<Zero + 0>> \in Seq(Plain)
    BY <1>5, <2>1, Tuples
  <2>3. f[0] \in Seq(Plain)
    BY <2>1, <2>2
  <2>4. ASSUME NEW i \in 0..0
        PROVE  f[i] \in Seq(Plain)
    <3>1. i = 0
      OBVIOUS
    <3>2. QED
      BY <2>3, <3>1
  <2>5. QED
    BY <2>4
<1>7. ASSUME NEW n \in Nat, n \in S
      PROVE  n + 1 \in S
  <2>1. SUFFICES ASSUME n + 1 <= magnitude
                 PROVE  f[n + 1] \in Seq(Plain)
    BY <1>7
  <2>2. n + 1 \in 0..magnitude
    BY <1>1, <2>1
  <2>3. CASE n + 1 < 10
    <3>1. f[n + 1] = <<Zero + (n + 1)>> /\ n + 1 \in 0..9
      BY <1>3, <2>2, <2>3
    <3>2. <<Zero + (n + 1)>> \in Seq(Plain)
      BY <1>5, <3>1, Tuples
    <3>3. QED
      BY <3>1, <3>2
  <2>4. CASE n + 1 >= 10
    <3> DEFINE i == n + 1
    <3>1. i \div 10 \in 0..n /\ i \div 10 <= magnitude /\ (i % 10) \in 0..9
      BY <1>1, <2>1, <2>4, Tenth
    <3>2. i \in 0..magnitude /\ ~ (i < 10)
      BY <2>2, <2>4
    <3> HIDE DEF i
    <3>3. f[i] = Append(f[i \div 10], Zero + (i % 10))
      BY <1>3, <3>2
    <3>4. f[i \div 10] \in Seq(Plain)
      BY <1>7, <3>1
    <3>5. Zero + (i % 10) \in Plain
      BY <1>5, <3>1
    <3>6. ASSUME NEW s \in Seq(Plain), NEW c \in Plain
          PROVE  Append(s, c) \in Seq(Plain)
      OBVIOUS
    <3>7. f[i] \in Seq(Plain)
      BY <3>3, <3>4, <3>5, <3>6, Zenon
    <3>8. QED
      BY <3>7 DEF i
  <2>5. QED
    BY <2>3, <2>4
<1> HIDE DEF S
<1>8. magnitude \in S
  BY <1>1, <1>6, <1>7, Induction
<1>9. f[magnitude] \in Seq(Plain)
  BY <1>1, <1>8 DEF S
<1>10. QED
  BY <1>3, <1>4, <1>9, Joining

-----------------------------------------------------------------------------
(* The calls of the sink.                                                  *)

SinkCall ==
    [sink : {"raw"}, text : Seq(Plain), value : {0}]
    \cup [sink : {"quoted", "hex"}, text : Seq(Byte), value : {0}]
    \cup [sink : {"number"}, text : {<<>>}, value : Int]

Calls == Seq(SinkCall)

\* A call adds to the counter what it appends to the string.
LEMMA CallHasItsLength ==
    ASSUME NEW call \in SinkCall
    PROVE  Appended(call) \in Seq(Plain) /\ Len(Appended(call)) = Counted(call)
<1>1. CASE call \in [sink : {"raw"}, text : Seq(Plain), value : {0}]
  <2>1. call.sink = "raw" /\ call.text \in Seq(Plain)
    BY <1>1
  <2>2. Appended(call) = call.text /\ Counted(call) = Len(call.text)
    BY <2>1 DEF Appended, Counted
  <2>3. QED
    BY <2>1, <2>2
<1>2. CASE call \in [sink : {"quoted", "hex"}, text : Seq(Byte), value : {0}]
  <2>1. call.text \in Seq(Byte) /\ call.sink \in {"quoted", "hex"}
    BY <1>2
  <2>2. CASE call.sink = "quoted"
    <3>1. /\ Appended(call) = JsonQuoted(call.text)
          /\ Counted(call) = JsonQuotedLength(call.text)
      BY <2>2 DEF Appended, Counted
    <3>2. QED
      BY <2>1, <3>1, QuotedHasItsLength
  <2>3. CASE call.sink = "hex"
    <3>1. Appended(call) = Hex(call.text) /\ Counted(call) = 2 * Len(call.text)
      BY <2>3 DEF Appended, Counted
    <3>2. QED
      BY <2>1, <3>1, HexHasItsLength
  <2>4. QED
    BY <2>1, <2>2, <2>3
<1>3. CASE call \in [sink : {"number"}, text : {<<>>}, value : Int]
  <2>1. call.sink = "number" /\ call.value \in Int
    BY <1>3
  <2>2. /\ Appended(call) = BatchNumberText(call.value)
        /\ Counted(call) = Len(BatchNumberText(call.value))
    BY <2>1 DEF Appended, Counted
  <2>3. QED
    BY <2>1, <2>2, NumberIsText
<1>4. QED
  BY <1>1, <1>2, <1>3 DEF SinkCall

LEMMA OneCall ==
    /\ \A text \in Seq(Plain) : Raw(text) \in Calls
    /\ \A text \in Seq(Byte) : Quoted(text) \in Calls /\ Bytes(text) \in Calls
    /\ \A value \in Int : Number(value) \in Calls
<1>1. ASSUME NEW sink, NEW text, NEW value,
             [sink |-> sink, text |-> text, value |-> value] \in SinkCall
      PROVE  Call(sink, text, value) \in Calls
  BY <1>1, Tuples DEF Call, Calls
<1>2. ASSUME NEW text \in Seq(Plain)
      PROVE  Raw(text) \in Calls
  BY <1>1 DEF Raw, SinkCall
<1>3. ASSUME NEW text \in Seq(Byte)
      PROVE  Quoted(text) \in Calls
  BY <1>1 DEF Quoted, SinkCall
<1>4. ASSUME NEW text \in Seq(Byte)
      PROVE  Bytes(text) \in Calls
  BY <1>1 DEF Bytes, SinkCall
<1>5. ASSUME NEW value \in Int
      PROVE  Number(value) \in Calls
  BY <1>1 DEF Number, SinkCall
<1>6. QED
  BY <1>2, <1>3, <1>4, <1>5

\* What write_batch() sends of its own: keys and punctuation.
LEMMA KeysArePlain ==
    /\ Key.gateway_id \in Plain /\ Key.hostname \in Plain /\ Key.firmware \in Plain
    /\ Key.uptime \in Plain /\ Key.free_heap \in Plain /\ Key.mac \in Plain
    /\ Key.devices \in Plain /\ Key.rssi \in Plain /\ Key.name \in Plain
    /\ Key.adv_data \in Plain
  BY DEF Key, Plain, Space

LEMMA MarksArePlain ==
    /\ Quote \in Plain /\ Comma \in Plain /\ Colon \in Plain
    /\ OpenBrace \in Plain /\ CloseBrace \in Plain
    /\ OpenBracket \in Plain /\ CloseBracket \in Plain
  BY DEF Quote, Comma, Colon, OpenBrace, CloseBrace, OpenBracket, CloseBracket,
         Plain, Space

LEMMA Composing ==
    /\ \A a, b \in Calls : a \o b \in Calls
    /\ \A key \in Plain, calls \in Calls :
          First(key, calls) \in Calls /\ Then(key, calls) \in Calls
<1>1. ASSUME NEW a \in Calls, NEW b \in Calls
      PROVE  a \o b \in Calls
  BY Joining DEF Calls
<1>2. ASSUME NEW key \in Plain, NEW calls \in Calls
      PROVE  First(key, calls) \in Calls /\ Then(key, calls) \in Calls
  <2>1. <<OpenBrace, key, Colon>> \in Seq(Plain) /\ <<Comma, key, Colon>> \in Seq(Plain)
    BY MarksArePlain, Tuples
  <2>2. Raw(<<OpenBrace, key, Colon>>) \in Calls /\ Raw(<<Comma, key, Colon>>) \in Calls
    BY <2>1, OneCall
  <2>3. QED
    BY <1>1, <2>2 DEF First, Then
<1>3. QED
  BY <1>1, <1>2

LEMMA Omitting ==
    ASSUME NEW calls \in Calls, NEW empty
    PROVE  Unless(empty, calls) \in Calls
  BY Tuples DEF Unless, Calls

LEMMA DeviceIsCalls ==
    ASSUME NEW ad \in Advertisement
    PROVE  WriteDevice(ad) \in Calls
<1> DEFINE name == LocalName(ad.name)
           mac == First(Key.mac, Quoted(FormatBda(ad.bda)))
           rssi == Then(Key.rssi, Number(ad.rssi))
           named == Unless(name = <<>>, Then(Key.name, Quoted(name)))
           payload == Raw(<<Quote>>) \o Bytes(ad.adv_data) \o Raw(<<Quote>>)
           data == Unless(ad.adv_data = <<>>, Then(Key.adv_data, payload))
           close == Raw(<<CloseBrace>>)
<1>1. /\ ad.bda \in Seq(Byte) /\ ad.rssi \in Int
      /\ ad.name \in Seq(Byte) /\ ad.adv_data \in Seq(Byte)
  BY DEF Advertisement
<1>2. mac \in Calls
  BY <1>1, FormatBdaIsText, OneCall, KeysArePlain, Composing
<1>3. rssi \in Calls
  BY <1>1, OneCall, KeysArePlain, Composing
<1>4. named \in Calls
  <2>1. Quoted(name) \in Calls
    BY <1>1, LocalNameIsText, OneCall
  <2>2. Then(Key.name, Quoted(name)) \in Calls
    BY <2>1, KeysArePlain, Composing
  <2>3. QED
    BY <2>2, Omitting
<1>5. /\ Raw(<<Quote>>) \in Calls /\ Bytes(ad.adv_data) \in Calls /\ close \in Calls
  BY <1>1, MarksArePlain, Tuples, OneCall
<1>6. payload \in Calls
  BY <1>5, Composing
<1>7. data \in Calls
  BY <1>6, KeysArePlain, Composing, Omitting
<1>8. WriteDevice(ad) = mac \o rssi \o named \o data \o close
  BY DEF WriteDevice
<1> HIDE DEF mac, rssi, named, data, close
<1>9. QED
  BY <1>2, <1>3, <1>4, <1>5, <1>7, <1>8, Composing

LEMMA BatchIsCalls ==
    ASSUME NEW h \in BatchHeader, NEW ads \in Seq(Advertisement)
    PROVE  WriteBatch(h, ads) \in Calls
<1> DEFINE device == [i \in DOMAIN ads |->
                         Unless(i = 1, Raw(<<Comma>>)) \o WriteDevice(ads[i])]
           id == First(Key.gateway_id, Quoted(h.gateway_id))
           host == Then(Key.hostname, Quoted(h.gateway_id))
           firmware == Then(Key.firmware, Quoted(h.firmware))
           uptime == Then(Key.uptime, Number(h.uptime_s))
           heap == Then(Key.free_heap, Number(h.free_heap))
           mac == Unless(h.mac = <<>>, Then(Key.mac, Quoted(FormatBda(h.mac))))
           open == Then(Key.devices, Raw(<<OpenBracket>>))
           devices == FlattenSeq(device)
           close == Raw(<<CloseBracket, CloseBrace>>)
<1>1. /\ h.gateway_id \in Seq(Byte) /\ h.firmware \in Seq(Byte) /\ h.mac \in Seq(Byte)
      /\ h.uptime_s \in Int /\ h.free_heap \in Int
  BY DEF BatchHeader
<1>2. /\ id \in Calls /\ host \in Calls /\ firmware \in Calls
      /\ uptime \in Calls /\ heap \in Calls
  BY <1>1, OneCall, KeysArePlain, Composing
<1>3. mac \in Calls
  <2>1. Quoted(FormatBda(h.mac)) \in Calls
    BY <1>1, FormatBdaIsText, OneCall
  <2>2. QED
    BY <2>1, KeysArePlain, Composing, Omitting
<1>4. /\ Raw(<<Comma>>) \in Calls /\ Raw(<<OpenBracket>>) \in Calls /\ close \in Calls
  BY MarksArePlain, Tuples, OneCall
<1>5. open \in Calls
  BY <1>4, KeysArePlain, Composing
<1>6. ASSUME NEW i \in DOMAIN ads
      PROVE  device[i] \in Calls
  <2>1. ads[i] \in Advertisement
    BY ElementOfSeq, LenProperties
  <2>2. WriteDevice(ads[i]) \in Calls /\ Unless(i = 1, Raw(<<Comma>>)) \in Calls
    BY <1>4, <2>1, DeviceIsCalls, Omitting
  <2>3. QED
    BY <2>2, Composing
<1>7. DOMAIN device = DOMAIN ads /\ device = [i \in DOMAIN device |-> device[i]]
  OBVIOUS
<1>8. WriteBatch(h, ads) =
         id \o host \o firmware \o uptime \o heap \o mac \o open \o devices \o close
  BY DEF WriteBatch
<1> HIDE DEF device, id, host, firmware, uptime, heap, mac, open, close
<1>9. device \in Seq(Calls)
  BY <1>6, <1>7, Mapped
<1>10. devices \in Calls
  BY <1>9, Flattening DEF Calls
<1> HIDE DEF devices
<1>11. id \o host \o firmware \o uptime \o heap \in Calls
  BY <1>2, Composing
<1>12. QED
  BY <1>3, <1>4, <1>5, <1>8, <1>10, <1>11, Composing

\* The pass with the counter adds up to the length of what the pass with the
\* appender writes.
LEMMA PassesAgree ==
    ASSUME NEW h \in BatchHeader, NEW ads \in Seq(Advertisement), NEW calls,
           calls = WriteBatch(h, ads)
    PROVE  /\ FlattenSeq([i \in DOMAIN calls |-> Appended(calls[i])]) \in Seq(Plain)
           /\ Total([i \in DOMAIN calls |-> Counted(calls[i])]) =
                 Len(FlattenSeq([i \in DOMAIN calls |-> Appended(calls[i])]))
<1> DEFINE texts == [i \in DOMAIN calls |-> Appended(calls[i])]
           lengths == [i \in DOMAIN calls |-> Counted(calls[i])]
<1>1. calls \in Seq(SinkCall)
  BY BatchIsCalls DEF Calls
<1>2. ASSUME NEW i \in DOMAIN calls
      PROVE  texts[i] \in Seq(Plain) /\ Len(texts[i]) = lengths[i]
  <2>1. calls[i] \in SinkCall
    BY <1>1, ElementOfSeq, LenProperties
  <2>2. QED
    BY <2>1, CallHasItsLength
<1>3. DOMAIN texts = DOMAIN calls /\ texts = [i \in DOMAIN texts |-> texts[i]]
  OBVIOUS
<1>4. lengths = [i \in DOMAIN calls |-> Len(texts[i])]
  BY <1>2
<1> HIDE DEF texts, lengths
<1>5. texts \in Seq(Seq(Plain))
  BY <1>1, <1>2, <1>3, Mapped
<1>6. /\ FlattenSeq(texts) \in Seq(Plain)
      /\ Len(FlattenSeq(texts)) = Total([i \in DOMAIN texts |-> Len(texts[i])])
  BY <1>5, Flattening
<1>7. FlattenSeq(texts) \in Seq(Plain) /\ Total(lengths) = Len(FlattenSeq(texts))
  BY <1>3, <1>4, <1>6
<1>8. QED
  BY <1>7 DEF texts, lengths

-----------------------------------------------------------------------------
(* The cycle.                                                              *)

Sized == LET calls == WriteBatch(header, to_post)
         IN  Total([i \in DOMAIN calls |-> Counted(calls[i])])
Filled == LET calls == WriteBatch(header, to_post)
          IN  FlattenSeq([i \in DOMAIN calls |-> Appended(calls[i])])

\* The inductive invariant: between the two passes the batch and its header
\* stay what they were, so that what one pass counted is what the other writes.
CycleInv ==
    /\ phase \in {"posted", "collected", "sized", "filled"}
    /\ header \in BatchHeader
    /\ to_post \in Seq(Advertisement)
    /\ counted \in Nat
    /\ body \in Seq(Plain)
    /\ phase \in {"sized", "filled"} => counted = Sized
    /\ phase = "filled" => body = Filled

LEMMA Both ==
    ASSUME header \in BatchHeader, to_post \in Seq(Advertisement)
    PROVE  Filled \in Seq(Plain) /\ Sized = Len(Filled) /\ Sized \in Nat
<1>1. Filled \in Seq(Plain) /\ Sized = Len(Filled)
  BY PassesAgree DEF Filled, Sized
<1>2. QED
  BY <1>1, LenProperties

LEMMA CycleInit == Init => CycleInv
  BY BatchAssumption, Tuples DEF Init, CycleInv

LEMMA CycleStep == CycleInv /\ [Next]_vars => CycleInv'
<1> SUFFICES ASSUME CycleInv, [Next]_vars
             PROVE  CycleInv'
  OBVIOUS
<1>1. CASE Collect
  BY <1>1, BatchAssumption, Tuples DEF CycleInv, Collect
<1>2. CASE Size
  <2>1. counted' = Sized /\ phase' = "sized" /\ UNCHANGED <<header, to_post, body>>
    BY <1>2 DEF Size, Sized
  <2>2. Sized' = Sized
    BY <2>1 DEF Sized
  <2>3. Sized \in Nat
    BY Both DEF CycleInv
  <2>4. QED
    BY <2>1, <2>2, <2>3 DEF CycleInv
<1>3. CASE Fill
  <2>1. /\ body' = Filled /\ phase = "sized" /\ phase' = "filled"
        /\ UNCHANGED <<header, to_post, counted>>
    BY <1>3 DEF Fill, Filled
  <2>2. Sized' = Sized /\ Filled' = Filled
    BY <2>1 DEF Sized, Filled
  <2>3. Filled \in Seq(Plain)
    BY Both DEF CycleInv
  <2>4. QED
    BY <2>1, <2>2, <2>3 DEF CycleInv
<1>4. CASE Post
  <2>1. /\ phase' = "posted" /\ to_post' = <<>> /\ counted' = 0 /\ body' = <<>>
        /\ header' = header
    BY <1>4 DEF Post
  <2>2. QED
    BY <2>1, Tuples DEF CycleInv
<1>5. CASE UNCHANGED vars
  <2>1. UNCHANGED <<phase, header, to_post, counted, body>>
    BY <1>5 DEF vars
  <2>2. Sized' = Sized /\ Filled' = Filled
    BY <2>1 DEF Sized, Filled
  <2>3. QED
    BY <2>1, <2>2 DEF CycleInv
<1>6. QED
  BY <1>1, <1>2, <1>3, <1>4, <1>5 DEF Next

LEMMA CycleAlways == Spec => []CycleInv
  BY CycleInit, CycleStep, PTL DEF Spec

\* Every character that either pass puts into a body is one that JSON lets
\* stand for itself, whatever the names, the ids and the payloads hold.
THEOREM TypeCorrect == Spec => []TypeOK
<1>1. CycleInv => TypeOK
  <2>1. ASSUME body \in Seq(Plain)
        PROVE  \A i \in DOMAIN body : body[i] >= Space
    <3>1. \A i \in DOMAIN body : body[i] \in Plain
      BY <2>1, ElementOfSeq, LenProperties
    <3>2. QED
      BY <3>1 DEF Plain
  <2>2. QED
    BY <2>1 DEF CycleInv, TypeOK
<1>2. QED
  BY <1>1, CycleAlways, PTL

\* The sizing pass of write_batch() counts to the byte what its writing pass
\* appends, so the string that was reserved never grows: for every header, for
\* every batch, and whatever a peripheral calls itself.
THEOREM SizesAgreeAlways == Spec => []SizesAgree
<1>1. CycleInv => SizesAgree
  <2>1. ASSUME CycleInv, phase = "filled"
        PROVE  counted = Len(body)
    <3>1. counted = Sized /\ body = Filled
      BY <2>1 DEF CycleInv
    <3>2. Sized = Len(Filled)
      BY <2>1, Both DEF CycleInv
    <3>3. QED
      BY <3>1, <3>2
  <2>2. QED
    BY <2>1 DEF SizesAgree
<1>2. QED
  BY <1>1, CycleAlways, PTL
=============================================================================
