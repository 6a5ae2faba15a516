--------------------------- MODULE SequenceFacts ---------------------------
(***************************************************************************)
(* Facts about sequences that the proofs about the radar, a connection and *)
(* the database share: what Append, Head, Tail and concatenation do to the *)
(* elements of a sequence, and to their being all different.               *)
(***************************************************************************)
EXTENDS Integers, SequenceTheorems, TLAPS

\* t is an element of s; no element of s comes twice.
In(t, s) == \E i \in DOMAIN s : s[i] = t
Distinct(s) == \A i, j \in DOMAIN s : s[i] = s[j] => i = j

-----------------------------------------------------------------------------
(* Elements *)

\* What Append does.
LEMMA AppendFacts ==
  ASSUME NEW S, NEW s \in Seq(S), NEW x \in S
  PROVE  /\ Append(s, x) \in Seq(S) /\ Append(s, x) # <<>>
         /\ Len(s) \in Nat /\ Len(Append(s, x)) = Len(s) + 1
         /\ \A i \in 1 .. Len(s) : Append(s, x)[i] = s[i]
         /\ Append(s, x)[Len(s) + 1] = x
         /\ s # <<>> => Head(Append(s, x)) = Head(s)
<1>1. /\ Append(s, x) \in Seq(S) /\ Append(s, x) # <<>>
      /\ Len(s) \in Nat /\ Len(Append(s, x)) = Len(s) + 1
      /\ Append(s, x)[Len(s) + 1] = x
  OBVIOUS
<1>2. \A i \in 1 .. Len(s) : Append(s, x)[i] = s[i]
  OBVIOUS
<1>3. s # <<>> => Head(Append(s, x)) = Head(s)
  OBVIOUS
<1> QED
  BY <1>1, <1>2, <1>3

\* A sequence is empty when its length is 0.
LEMMA EmptyFacts ==
  ASSUME NEW S, NEW s \in Seq(S)
  PROVE  s = <<>> <=> Len(s) = 0
OBVIOUS

\* Sequences of one element.
LEMMA OneFacts ==
  ASSUME NEW x
  PROVE  /\ Append(<<>>, x) = <<x>> /\ <<x>> # <<>>
         /\ Head(<<x>>) = x /\ Tail(<<x>>) = <<>> /\ Len(<<x>>) = 1
OBVIOUS

\* What is put behind the empty sequence.
LEMMA FrontFacts ==
  ASSUME NEW S, NEW x \in S, NEW t \in Seq(S)
  PROVE  Append(<<>>, x) \in Seq(S) /\ <<>> \o t = t
BY EmptySeq, ConcatEmptySeq

\* What has been appended is the last element.
LEMMA Appended ==
  ASSUME NEW S, NEW s \in Seq(S), NEW x, Append(s, x) \in Seq(S)
  PROVE  /\ x \in S /\ Len(s) \in Nat
         /\ Len(Append(s, x)) = Len(s) + 1 /\ Append(s, x)[Len(s) + 1] = x
<1>1. Len(s) \in Nat /\ Len(Append(s, x)) = Len(s) + 1 /\ Append(s, x)[Len(s) + 1] = x
  OBVIOUS
<1> QED
  BY <1>1, ElementOfSeq

\* A sequence is a sequence over whatever set its elements are in.
LEMMA ElementsIn ==
  ASSUME NEW S, NEW T, NEW s \in Seq(S), \A i \in 1 .. Len(s) : s[i] \in T
  PROVE  s \in Seq(T)
BY ElementOfSeq, SeqDef

\* What Head and Tail are.
LEMMA TailFacts ==
  ASSUME NEW S, NEW s \in Seq(S), s # <<>>
  PROVE  /\ Head(s) \in S /\ Head(s) = s[1]
         /\ Tail(s) \in Seq(S)
         /\ Len(s) \in Nat \ {0} /\ Len(Tail(s)) = Len(s) - 1
         /\ \A i \in 1 .. Len(Tail(s)) : Tail(s)[i] = s[i + 1]
         /\ Tail(s) = <<>> <=> Len(s) = 1
<1>1. /\ Head(s) \in S /\ Head(s) = s[1]
      /\ Tail(s) \in Seq(S)
      /\ Len(s) \in Nat \ {0} /\ Len(Tail(s)) = Len(s) - 1
  OBVIOUS
<1>2. \A i \in 1 .. Len(Tail(s)) : Tail(s)[i] = s[i + 1]
  OBVIOUS
<1>3. Tail(s) = <<>> <=> Len(Tail(s)) = 0
  BY <1>1, EmptyFacts
<1>4. Len(Tail(s)) = 0 <=> Len(s) = 1
  BY <1>1
<1> QED
  BY <1>1, <1>2, <1>3, <1>4

-----------------------------------------------------------------------------
(* Sequences without repetition *)

\* The empty sequence has no elements.
LEMMA NothingIn ==
  /\ Distinct(<<>>)
  /\ \A t : ~ In(t, <<>>)
BY DEF Distinct, In

\* An element more.
LEMMA AppendNew ==
  ASSUME NEW S, NEW s \in Seq(S), NEW x \in S
  PROVE  /\ Append(s, x) \in Seq(S)
         /\ \A t : In(t, Append(s, x)) <=> In(t, s) \/ t = x
         /\ Distinct(s) /\ ~ In(x, s) => Distinct(Append(s, x))
<1> DEFINE r == Append(s, x)
           n == Len(s)
<1>1. /\ r \in Seq(S)
      /\ n \in Nat
      /\ DOMAIN s = 1 .. n /\ DOMAIN r = 1 .. (n + 1)
      /\ \A i \in 1 .. n : r[i] = s[i]
      /\ r[n + 1] = x
  OBVIOUS
<1> HIDE DEF r, n
<1>2. ASSUME NEW t PROVE In(t, r) <=> In(t, s) \/ t = x
  <2>1. \A i \in 1 .. (n + 1) : i \in 1 .. n \/ i = n + 1
    BY <1>1
  <2>2. \A i \in 1 .. n : i \in 1 .. (n + 1)
    BY <1>1
  <2>3. n + 1 \in 1 .. (n + 1)
    BY <1>1
  <2> QED
    BY <1>1, <2>1, <2>2, <2>3 DEF In
<1>3. ASSUME Distinct(s), ~ In(x, s) PROVE Distinct(r)
  <2> SUFFICES ASSUME NEW i \in 1 .. (n + 1), NEW j \in 1 .. (n + 1), r[i] = r[j]
               PROVE  i = j
    BY <1>1 DEF Distinct
  <2>1. CASE i \in 1 .. n /\ j \in 1 .. n
    BY <1>1, <1>3, <2>1 DEF Distinct
  <2>2. CASE i = n + 1 \/ j = n + 1
    BY <1>1, <1>3, <2>2 DEF In
  <2> QED
    BY <1>1, <2>1, <2>2
<1> QED
  BY <1>1, <1>2, <1>3 DEF r

\* An element less.
LEMMA DropHead ==
  ASSUME NEW S, NEW s \in Seq(S), s # <<>>
  PROVE  /\ Head(s) \in S
         /\ Tail(s) \in Seq(S)
         /\ \A t : In(t, s) <=> In(t, Tail(s)) \/ t = Head(s)
         /\ Distinct(s) => Distinct(Tail(s)) /\ ~ In(Head(s), Tail(s))
<1> DEFINE r == Tail(s)
           n == Len(s)
<1>1. /\ r \in Seq(S)
      /\ Head(s) = s[1] /\ Head(s) \in S
      /\ n \in Nat /\ n > 0
      /\ DOMAIN s = 1 .. n /\ DOMAIN r = 1 .. (n - 1)
      /\ \A i \in 1 .. (n - 1) : r[i] = s[i + 1]
  OBVIOUS
<1> HIDE DEF r, n
<1>2. ASSUME NEW t PROVE In(t, s) <=> In(t, r) \/ t = Head(s)
  <2>1. \A i \in 1 .. n : i = 1 \/ (i - 1 \in 1 .. (n - 1) /\ r[i - 1] = s[i])
    BY <1>1
  <2>2. \A i \in 1 .. (n - 1) : i + 1 \in 1 .. n
    BY <1>1
  <2>3. 1 \in 1 .. n
    BY <1>1
  <2> QED
    BY <1>1, <2>1, <2>2, <2>3 DEF In
<1>3. ASSUME Distinct(s) PROVE Distinct(r) /\ ~ In(Head(s), r)
  <2>1. \A i, j \in 1 .. (n - 1) : i + 1 \in 1 .. n /\ (i + 1 = j + 1 => i = j)
    BY <1>1
  <2>2. \A i, j \in 1 .. (n - 1) : r[i] = r[j] => i + 1 = j + 1
    BY <1>1, <1>3, <2>1 DEF Distinct
  <2>3. \A i \in 1 .. (n - 1) : i + 1 # 1 /\ 1 \in 1 .. n
    BY <1>1
  <2>4. \A i \in 1 .. (n - 1) : r[i] # s[1]
    BY <1>1, <1>3, <2>1, <2>3 DEF Distinct
  <2> QED
    BY <1>1, <2>1, <2>2, <2>4 DEF Distinct, In
<1> QED
  BY <1>1, <1>2, <1>3 DEF r

\* Two sequences, one behind the other.
LEMMA ConcatDistinct ==
  ASSUME NEW S, NEW a \in Seq(S), NEW b \in Seq(S)
  PROVE  /\ a \o b \in Seq(S)
         /\ \A t : In(t, a \o b) <=> In(t, a) \/ In(t, b)
         /\ Distinct(a) /\ Distinct(b) /\ (\A t \in S : ~ (In(t, a) /\ In(t, b)))
              => Distinct(a \o b)
<1> DEFINE r == a \o b
           m == Len(a)
           n == Len(b)
<1>1. /\ r \in Seq(S)
      /\ m \in Nat /\ n \in Nat
      /\ DOMAIN a = 1 .. m /\ DOMAIN b = 1 .. n /\ DOMAIN r = 1 .. (m + n)
      /\ \A i \in 1 .. m : r[i] = a[i] /\ a[i] \in S
      /\ \A i \in 1 .. n : r[m + i] = b[i] /\ b[i] \in S
  OBVIOUS
<1> HIDE DEF r, m, n
<1>2. /\ \A i \in 1 .. (m + n) : i \in 1 .. m \/ \E k \in 1 .. n : i = m + k
      /\ \A i \in 1 .. m : i \in 1 .. (m + n)
      /\ \A k \in 1 .. n : m + k \in 1 .. (m + n)
  <2>1. ASSUME NEW i \in 1 .. (m + n), i \notin 1 .. m
        PROVE  \E k \in 1 .. n : i = m + k
    <3>1. i - m \in 1 .. n /\ i = m + (i - m)
      BY <1>1, <2>1
    <3> QED
      BY <3>1
  <2>2. /\ \A i \in 1 .. m : i \in 1 .. (m + n)
        /\ \A k \in 1 .. n : m + k \in 1 .. (m + n)
    BY <1>1
  <2> QED
    BY <2>1, <2>2
<1>3. ASSUME NEW t PROVE In(t, r) <=> In(t, a) \/ In(t, b)
  <2>1. ASSUME NEW i \in 1 .. (m + n), r[i] = t PROVE In(t, a) \/ In(t, b)
    <3>1. CASE i \in 1 .. m
      BY <1>1, <2>1, <3>1, Zenon DEF In
    <3>2. CASE \E k \in 1 .. n : i = m + k
      BY <1>1, <2>1, <3>2, Zenon DEF In
    <3> QED
      BY <1>2, <3>1, <3>2
  <2>2. ASSUME NEW i \in 1 .. m, a[i] = t PROVE In(t, r)
    <3>1. i \in DOMAIN r /\ r[i] = t
      BY <1>1, <1>2, <2>2, Zenon
    <3> QED
      BY <3>1, Zenon DEF In
  <2>3. ASSUME NEW k \in 1 .. n, b[k] = t PROVE In(t, r)
    <3>1. m + k \in DOMAIN r /\ r[m + k] = t
      BY <1>1, <1>2, <2>3, Zenon
    <3> QED
      BY <3>1, Zenon DEF In
  <2> QED
    BY <1>1, <2>1, <2>2, <2>3, Zenon DEF In
<1>4. ASSUME Distinct(a), Distinct(b), \A t \in S : ~ (In(t, a) /\ In(t, b))
      PROVE  Distinct(r)
  <2>1. \A i \in 1 .. m, k \in 1 .. n : a[i] # b[k]
    BY <1>1, <1>4 DEF In
  <2> SUFFICES ASSUME NEW i \in 1 .. (m + n), NEW j \in 1 .. (m + n), r[i] = r[j]
               PROVE  i = j
    BY <1>1 DEF Distinct
  <2>2. CASE i \in 1 .. m /\ j \in 1 .. m
    BY <1>1, <1>4, <2>2 DEF Distinct
  <2>3. CASE i \in 1 .. m /\ \E k \in 1 .. n : j = m + k
    <3>1. PICK k \in 1 .. n : j = m + k
      BY <2>3
    <3>2. r[i] = a[i] /\ r[j] = b[k]
      BY <1>1, <2>3, <3>1
    <3> QED
      BY <2>1, <2>3, <3>2
  <2>4. CASE j \in 1 .. m /\ \E k \in 1 .. n : i = m + k
    <3>1. PICK k \in 1 .. n : i = m + k
      BY <2>4
    <3>2. r[j] = a[j] /\ r[i] = b[k]
      BY <1>1, <2>4, <3>1
    <3> QED
      BY <2>1, <2>4, <3>2
  <2>5. CASE (\E k \in 1 .. n : i = m + k) /\ (\E k \in 1 .. n : j = m + k)
    <3>1. PICK k \in 1 .. n : i = m + k
      BY <2>5
    <3>2. PICK l \in 1 .. n : j = m + l
      BY <2>5
    <3>3. r[i] = b[k] /\ r[j] = b[l]
      BY <1>1, <3>1, <3>2
    <3>4. k = l
      BY <1>1, <1>4, <3>3 DEF Distinct
    <3> QED
      BY <3>1, <3>2, <3>4
  <2> QED
    BY <1>2, <2>2, <2>3, <2>4, <2>5
<1> QED
  BY <1>1, <1>3, <1>4 DEF r
=============================================================================
