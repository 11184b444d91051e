--------------------------- MODULE SequenceLemmas ---------------------------
(***************************************************************************)
(* Positions in sequences: what Front, Last, InsertAt and RemoveAt of      *)
(* SequencesExt return, and where each element stands afterwards.          *)
(***************************************************************************)
EXTENDS Integers, SequencesExt, SequenceTheorems, TLAPS

\* Front drops the last element and nothing else.
LEMMA FrontProperties ==
    ASSUME NEW S, NEW s \in Seq(S), s # <<>>
    PROVE  /\ Front(s) \in Seq(S)
           /\ Last(s) \in S
           /\ Len(Front(s)) = Len(s) - 1
           /\ \A j \in 1 .. Len(s) - 1 : Front(s)[j] = s[j]
  <1>1. Len(s) \in Nat /\ Len(s) # 0 /\ \A i \in 1 .. Len(s) : s[i] \in S
    OBVIOUS
  <1>2. Last(s) \in S
    BY <1>1 DEF Last
  <1> DEFINE n == Len(s) - 1
  <1>3. n \in Nat /\ \A i \in 1 .. n : s[i] \in S
    BY <1>1
  <1> HIDE DEF n
  <1>4. /\ SubSeq(s, 1, n) \in Seq(S)
        /\ Len(SubSeq(s, 1, n)) = n
        /\ \A i \in 1 .. n : SubSeq(s, 1, n)[i] = s[i]
    BY <1>3, SubSeqProperties
  <1> QED
    BY <1>2, <1>4 DEF Front, n

\* InsertAt moves what stands at k or later one position on.
LEMMA InsertAtProperties ==
    ASSUME NEW S, NEW s \in Seq(S), NEW x \in S, NEW k \in 1 .. Len(s) + 1
    PROVE  /\ InsertAt(s, k, x) \in Seq(S)
           /\ Len(InsertAt(s, k, x)) = Len(s) + 1
           /\ \A j \in 1 .. Len(s) + 1 :
                InsertAt(s, k, x)[j] = IF j < k THEN s[j]
                                       ELSE IF j = k THEN x ELSE s[j - 1]
  <1> DEFINE a == SubSeq(s, 1, k - 1)
             b == SubSeq(s, k, Len(s))
             c == a \o <<x>>
  <1>1. Len(s) \in Nat /\ \A i \in 1 .. Len(s) : s[i] \in S
    OBVIOUS
  <1>2. /\ a \in Seq(S) /\ Len(a) = k - 1
        /\ \A j \in 1 .. k - 1 : a[j] = s[j]
    BY <1>1, SubSeqProperties
  <1>3. /\ b \in Seq(S) /\ Len(b) = Len(s) - k + 1
        /\ \A j \in 1 .. Len(s) - k + 1 : b[j] = s[k + j - 1]
    BY <1>1, SubSeqProperties
  <1> HIDE DEF a, b
  <1>4. <<x>> \in Seq(S) /\ Len(<<x>>) = 1 /\ <<x>>[1] = x
    OBVIOUS
  <1>5. /\ c \in Seq(S) /\ Len(c) = k
        /\ \A j \in 1 .. k : c[j] = IF j < k THEN s[j] ELSE x
    BY <1>1, <1>2, <1>4, ConcatProperties
  <1>6. InsertAt(s, k, x) = c \o b
    BY DEF InsertAt, a, b
  <1> HIDE DEF c
  <1>7. /\ c \o b \in Seq(S)
        /\ Len(c \o b) = Len(c) + Len(b)
        /\ \A j \in 1 .. Len(c) + Len(b) :
             (c \o b)[j] = IF j <= Len(c) THEN c[j] ELSE b[j - Len(c)]
    BY <1>3, <1>5, ConcatProperties
  <1>8. /\ c \o b \in Seq(S)
        /\ Len(c \o b) = Len(s) + 1
        /\ \A j \in 1 .. Len(s) + 1 :
             (c \o b)[j] = IF j <= k THEN c[j] ELSE b[j - k]
    BY <1>1, <1>3, <1>5, <1>7
  <1> QED
    BY <1>1, <1>3, <1>5, <1>6, <1>8

\* RemoveAt moves what stands behind k one position back.
LEMMA RemoveAtProperties ==
    ASSUME NEW S, NEW s \in Seq(S), NEW k \in 1 .. Len(s)
    PROVE  /\ RemoveAt(s, k) \in Seq(S)
           /\ Len(RemoveAt(s, k)) = Len(s) - 1
           /\ \A j \in 1 .. Len(s) - 1 :
                RemoveAt(s, k)[j] = IF j < k THEN s[j] ELSE s[j + 1]
  <1> DEFINE a == SubSeq(s, 1, k - 1)
             b == SubSeq(s, k + 1, Len(s))
  <1>1. Len(s) \in Nat /\ \A i \in 1 .. Len(s) : s[i] \in S
    OBVIOUS
  <1>2. /\ a \in Seq(S) /\ Len(a) = k - 1
        /\ \A j \in 1 .. k - 1 : a[j] = s[j]
    BY <1>1, SubSeqProperties
  <1>3. /\ b \in Seq(S) /\ Len(b) = Len(s) - k
        /\ \A j \in 1 .. Len(s) - k : b[j] = s[k + j]
    BY <1>1, SubSeqProperties
  <1>4. RemoveAt(s, k) = a \o b
    BY DEF RemoveAt
  <1> HIDE DEF a, b
  <1>5. /\ a \o b \in Seq(S)
        /\ Len(a \o b) = Len(a) + Len(b)
        /\ \A j \in 1 .. Len(a) + Len(b) :
             (a \o b)[j] = IF j <= Len(a) THEN a[j] ELSE b[j - Len(a)]
    BY <1>2, <1>3, ConcatProperties
  <1>6. /\ a \o b \in Seq(S)
        /\ Len(a \o b) = Len(s) - 1
        /\ \A j \in 1 .. Len(s) - 1 :
             (a \o b)[j] = IF j <= k - 1 THEN a[j] ELSE b[j - k + 1]
    BY <1>1, <1>2, <1>3, <1>5
  <1> QED
    BY <1>1, <1>2, <1>3, <1>4, <1>6

\* A single element in front moves everything one position on.
LEMMA ConsProperties ==
    ASSUME NEW S, NEW s \in Seq(S), NEW x \in S
    PROVE  /\ <<x>> \o s \in Seq(S)
           /\ Len(<<x>> \o s) = Len(s) + 1
           /\ \A j \in 1 .. Len(s) + 1 :
                (<<x>> \o s)[j] = IF j = 1 THEN x ELSE s[j - 1]
  <1>1. <<x>> \in Seq(S) /\ Len(<<x>>) = 1 /\ <<x>>[1] = x
    OBVIOUS
  <1> QED
    BY <1>1, ConcatProperties

-----------------------------------------------------------------------------
(* Elements: what the operations add or take away, and that they keep a    *)
(* sequence without repetitions one.                                       *)

LEMMA AppendContains ==
    ASSUME NEW S, NEW s \in Seq(S), NEW x \in S
    PROVE  /\ Append(s, x) \in Seq(S)
           /\ \A y : Contains(Append(s, x), y) <=> Contains(s, y) \/ y = x
           /\ IsInjective(s) /\ ~Contains(s, x) => IsInjective(Append(s, x))
  <1> DEFINE t == Append(s, x)
  <1>1. /\ t \in Seq(S) /\ Len(t) = Len(s) + 1 /\ Len(s) \in Nat
        /\ \A j \in 1 .. Len(s) + 1 : t[j] = IF j <= Len(s) THEN s[j] ELSE x
    OBVIOUS
  <1>2. DOMAIN s = 1 .. Len(s) /\ DOMAIN t = 1 .. Len(t)
    BY <1>1
  <1> HIDE DEF t
  <1>3. ASSUME NEW y PROVE Contains(t, y) <=> Contains(s, y) \/ y = x
    BY <1>1 DEF Contains
  <1>4. IsInjective(s) /\ ~Contains(s, x) => IsInjective(t)
    BY <1>1, <1>2 DEF Contains, IsInjective
  <1> QED
    BY <1>1, <1>3, <1>4 DEF t

LEMMA ConsContains ==
    ASSUME NEW S, NEW s \in Seq(S), NEW x \in S
    PROVE  /\ <<x>> \o s \in Seq(S)
           /\ \A y : Contains(<<x>> \o s, y) <=> Contains(s, y) \/ y = x
           /\ IsInjective(s) /\ ~Contains(s, x) => IsInjective(<<x>> \o s)
  <1> DEFINE t == <<x>> \o s
  <1>1. /\ t \in Seq(S) /\ Len(t) = Len(s) + 1 /\ Len(s) \in Nat
        /\ \A j \in 1 .. Len(s) + 1 : t[j] = IF j = 1 THEN x ELSE s[j - 1]
    BY ConsProperties
  <1> HIDE DEF t
  <1>2. DOMAIN s = 1 .. Len(s) /\ DOMAIN t = 1 .. Len(t)
    BY <1>1
  <1>3. ASSUME NEW y PROVE Contains(t, y) <=> Contains(s, y) \/ y = x
    <2>1. Contains(t, y) => Contains(s, y) \/ y = x
      BY <1>1 DEF Contains
    <2>2. ASSUME Contains(s, y) PROVE Contains(t, y)
      <3>1. PICK i \in 1 .. Len(s) : s[i] = y
        BY <2>2 DEF Contains
      <3>2. i + 1 \in 1 .. Len(t) /\ t[i + 1] = y
        BY <1>1, <3>1
      <3> QED
        BY <3>2 DEF Contains
    <2>3. ASSUME y = x PROVE Contains(t, y)
      <3>1. 1 \in 1 .. Len(t) /\ t[1] = y
        BY <1>1, <2>3
      <3> QED
        BY <3>1 DEF Contains
    <2> QED
      BY <2>1, <2>2, <2>3
  <1>4. IsInjective(s) /\ ~Contains(s, x) => IsInjective(t)
    BY <1>1, <1>2 DEF Contains, IsInjective
  <1> QED
    BY <1>1, <1>3, <1>4 DEF t

LEMMA RemoveAtContains ==
    ASSUME NEW S, NEW s \in Seq(S), IsInjective(s), NEW k \in 1 .. Len(s)
    PROVE  /\ RemoveAt(s, k) \in Seq(S)
           /\ \A y : Contains(RemoveAt(s, k), y) <=> Contains(s, y) /\ y # s[k]
           /\ IsInjective(RemoveAt(s, k))
  <1> DEFINE t == RemoveAt(s, k)
  <1>1. /\ t \in Seq(S) /\ Len(t) = Len(s) - 1 /\ Len(s) \in Nat
        /\ \A j \in 1 .. Len(s) - 1 : t[j] = IF j < k THEN s[j] ELSE s[j + 1]
    BY RemoveAtProperties
  <1> HIDE DEF t
  <1>2. DOMAIN s = 1 .. Len(s) /\ DOMAIN t = 1 .. Len(t)
    BY <1>1
  <1>3. \A i, j \in 1 .. Len(s) : s[i] = s[j] => i = j
    BY <1>2 DEF IsInjective
  <1>4. ASSUME NEW y PROVE Contains(t, y) <=> Contains(s, y) /\ y # s[k]
    <2>1. ASSUME Contains(t, y) PROVE Contains(s, y) /\ y # s[k]
      <3>1. PICK j \in 1 .. Len(t) : t[j] = y
        BY <2>1 DEF Contains
      <3>2. PICK i \in 1 .. Len(s) : s[i] = y /\ i # k
        BY <1>1, <3>1
      <3> QED
        BY <1>3, <3>2 DEF Contains
    <2>2. ASSUME Contains(s, y), y # s[k] PROVE Contains(t, y)
      <3>1. PICK i \in 1 .. Len(s) : s[i] = y
        BY <2>2 DEF Contains
      <3>2. CASE i < k
        <4>1. i \in 1 .. Len(t) /\ t[i] = y
          BY <1>1, <3>1, <3>2
        <4> QED
          BY <4>1 DEF Contains
      <3>3. CASE i > k
        <4>1. i - 1 \in 1 .. Len(t) /\ t[i - 1] = y
          BY <1>1, <3>1, <3>3
        <4> QED
          BY <4>1 DEF Contains
      <3> QED
        BY <2>2, <3>1, <3>2, <3>3
    <2> QED
      BY <2>1, <2>2
  <1>5. IsInjective(t)
    BY <1>1, <1>2, <1>3 DEF IsInjective
  <1> QED
    BY <1>1, <1>4, <1>5 DEF t

LEMMA TailContains ==
    ASSUME NEW S, NEW s \in Seq(S), s # <<>>, IsInjective(s)
    PROVE  /\ Tail(s) \in Seq(S) /\ Head(s) \in S
           /\ Contains(s, Head(s))
           /\ \A y : Contains(Tail(s), y) <=> Contains(s, y) /\ y # Head(s)
           /\ IsInjective(Tail(s))
  <1>1. Len(s) \in Nat /\ Len(s) >= 1 /\ Head(s) = s[1] /\ s[1] \in S
    OBVIOUS
  <1>2. Tail(s) = RemoveAt(s, 1)
    <2>1. SubSeq(s, 1, 0) = <<>>
      BY SubSeqEmpty
    <2>2. Tail(s) = SubSeq(s, 2, Len(s)) /\ Tail(s) \in Seq(S)
      BY TailIsSubSeq, HeadTailProperties
    <2>3. <<>> \o Tail(s) = Tail(s)
      BY <2>2, ConcatEmptySeq
    <2> QED
      BY <2>1, <2>2, <2>3 DEF RemoveAt
  <1>3. Contains(s, Head(s))
    BY <1>1 DEF Contains
  <1>4. 1 \in 1 .. Len(s)
    BY <1>1
  <1>5. /\ \A y : Contains(RemoveAt(s, 1), y) <=> Contains(s, y) /\ y # s[1]
        /\ IsInjective(RemoveAt(s, 1)) /\ RemoveAt(s, 1) \in Seq(S)
    BY <1>4, RemoveAtContains
  <1> QED
    BY <1>1, <1>2, <1>3, <1>5

LEMMA FrontContains ==
    ASSUME NEW S, NEW s \in Seq(S), s # <<>>, IsInjective(s)
    PROVE  /\ Front(s) \in Seq(S) /\ Last(s) \in S
           /\ Contains(s, Last(s))
           /\ \A y : Contains(Front(s), y) <=> Contains(s, y) /\ y # Last(s)
           /\ IsInjective(Front(s))
  <1>1. Len(s) \in Nat /\ Len(s) >= 1
    OBVIOUS
  <1>2. Front(s) = RemoveAt(s, Len(s))
    <2>1. SubSeq(s, Len(s) + 1, Len(s)) = <<>>
      BY <1>1, SubSeqEmpty
    <2>2. Front(s) \in Seq(S)
      BY FrontProperties
    <2>3. Front(s) \o <<>> = Front(s)
      BY <2>2, ConcatEmptySeq
    <2> QED
      BY <2>1, <2>3 DEF RemoveAt, Front
  <1>3. Contains(s, Last(s)) /\ Last(s) = s[Len(s)] /\ Last(s) \in S
    BY <1>1 DEF Contains, Last
  <1> QED
    BY <1>1, <1>2, <1>3, RemoveAtContains

LEMMA InsertAtContains ==
    ASSUME NEW S, NEW s \in Seq(S), NEW x \in S, NEW k \in 1 .. Len(s) + 1
    PROVE  /\ InsertAt(s, k, x) \in Seq(S)
           /\ \A y : Contains(InsertAt(s, k, x), y) <=> Contains(s, y) \/ y = x
           /\ IsInjective(s) /\ ~Contains(s, x) => IsInjective(InsertAt(s, k, x))
  <1> DEFINE t == InsertAt(s, k, x)
  <1>1. /\ t \in Seq(S) /\ Len(t) = Len(s) + 1 /\ Len(s) \in Nat
        /\ \A j \in 1 .. Len(s) + 1 :
             t[j] = IF j < k THEN s[j] ELSE IF j = k THEN x ELSE s[j - 1]
    BY InsertAtProperties
  <1> HIDE DEF t
  <1>2. DOMAIN s = 1 .. Len(s) /\ DOMAIN t = 1 .. Len(t)
    BY <1>1
  <1>3. ASSUME NEW y PROVE Contains(t, y) <=> Contains(s, y) \/ y = x
    <2>1. ASSUME Contains(t, y) PROVE Contains(s, y) \/ y = x
      <3>1. PICK j \in 1 .. Len(t) : t[j] = y
        BY <2>1 DEF Contains
      <3>2. CASE j < k
        <4>1. j \in 1 .. Len(s) /\ s[j] = y
          BY <1>1, <3>1, <3>2
        <4> QED
          BY <4>1 DEF Contains
      <3>3. CASE j = k
        BY <1>1, <3>1, <3>3
      <3>4. CASE j > k
        <4>1. j - 1 \in 1 .. Len(s) /\ s[j - 1] = y
          BY <1>1, <3>1, <3>4
        <4> QED
          BY <4>1 DEF Contains
      <3> QED
        BY <1>1, <3>1, <3>2, <3>3, <3>4
    <2>2. ASSUME Contains(s, y) PROVE Contains(t, y)
      <3>1. PICK i \in 1 .. Len(s) : s[i] = y
        BY <2>2 DEF Contains
      <3>2. CASE i < k
        <4>1. i \in 1 .. Len(t) /\ t[i] = y
          BY <1>1, <3>1, <3>2
        <4> QED
          BY <4>1 DEF Contains
      <3>3. CASE i >= k
        <4>1. i + 1 \in 1 .. Len(t) /\ t[i + 1] = y
          BY <1>1, <3>1, <3>3
        <4> QED
          BY <4>1 DEF Contains
      <3> QED
        BY <3>1, <3>2, <3>3
    <2>3. ASSUME y = x PROVE Contains(t, y)
      <3>1. k \in 1 .. Len(t) /\ t[k] = y
        BY <1>1, <2>3
      <3> QED
        BY <3>1 DEF Contains
    <2> QED
      BY <2>1, <2>2, <2>3
  <1>4. ASSUME IsInjective(s), ~Contains(s, x) PROVE IsInjective(t)
    <2>1. \A i, j \in 1 .. Len(s) : s[i] = s[j] => i = j
      BY <1>2, <1>4 DEF IsInjective
    <2>2. \A i \in 1 .. Len(s) : s[i] # x
      BY <1>4 DEF Contains
    <2> QED
      BY <1>1, <1>2, <2>1, <2>2 DEF IsInjective
  <1> QED
    BY <1>1, <1>3, <1>4 DEF t

=============================================================================
