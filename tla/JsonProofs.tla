----------------------------- MODULE JsonProofs -----------------------------
(***************************************************************************)
(* Proofs about Json: what the parser accepts is a document                *)
(* (AcceptedIsDocument), and every document without empty names is parsed, *)
(* to the value it denotes (EveryDocumentIsParsed).                        *)
(***************************************************************************)
EXTENDS Json, SequenceLemmas, WellFoundedInduction

-----------------------------------------------------------------------------
(* Induction over the naturals, for sets.                                  *)

LEMMA LeastElement ==
    ASSUME NEW S, S \subseteq Nat, S # {}
    PROVE  \E m \in S : \A k \in S : m <= k
  <1> DEFINE Less == {p \in Nat \X Nat : p[1] < p[2]}
  <1>1. IsWellFoundedOn(Less, Nat)
    BY NatLessThanWellFounded DEF OpToRel
  <1>2. PICK m \in S : \A k \in S : ~(<<k, m>> \in Less)
    <2> HIDE DEF Less
    <2> QED
      BY <1>1, WFMin
  <1>3. ASSUME NEW k \in S, k < m PROVE FALSE
    <2>1. <<k, m>> \in Less
      BY <1>3
    <2> QED
      BY <1>2, <2>1
  <1> QED
    BY <1>2, <1>3

LEMMA SetInduction ==
    ASSUME NEW S, 0 \in S, \A n \in Nat : n \in S => n + 1 \in S
    PROVE  Nat \subseteq S
  <1> SUFFICES ASSUME Nat \ S # {} PROVE FALSE
    OBVIOUS
  <1>1. PICK m \in Nat \ S : \A k \in Nat \ S : m <= k
    BY LeastElement
  <1>2. m # 0 /\ m - 1 \in Nat /\ m - 1 \in S
    BY <1>1
  <1> QED
    BY <1>1, <1>2

-----------------------------------------------------------------------------
(* Levels satisfies its recursive definition: the functions that satisfy   *)
(* it up to n exist for every n and agree.                                 *)

Extended(shorter, n, tc) == Append(shorter, Level(shorter, n, tc))

Follows(h, tc, n) ==
    h = [k \in 0 .. n |-> IF k = 0 THEN <<>> ELSE Extended(h[k - 1], k, tc)]

LEMMA FollowersExist ==
    ASSUME NEW tc, NEW n \in Nat
    PROVE  \E h : Follows(h, tc, n)
  <1> DEFINE S == {k \in Nat : \E h : Follows(h, tc, k)}
  <1>1. 0 \in S
    <2> DEFINE h == [k \in 0 .. 0 |-> <<>>]
    <2>1. h = [k \in 0 .. 0 |-> IF k = 0 THEN <<>> ELSE Extended(h[k - 1], k, tc)]
      OBVIOUS
    <2> QED
      BY <2>1 DEF Follows
  <1>2. ASSUME NEW k \in Nat, k \in S PROVE k + 1 \in S
    <2>1. PICK h : Follows(h, tc, k)
      BY <1>2
    <2> DEFINE g == [j \in 0 .. k + 1 |-> IF j = k + 1 THEN Extended(h[k], k + 1, tc) ELSE h[j]]
    <2>2. \A j \in 0 .. k : h[j] = IF j = 0 THEN <<>> ELSE Extended(h[j - 1], j, tc)
      BY <2>1 DEF Follows
    <2>3. \A j \in 0 .. k + 1 : g[j] = IF j = 0 THEN <<>> ELSE Extended(g[j - 1], j, tc)
      BY <2>2
    <2>4. Follows(g, tc, k + 1)
      <3> HIDE DEF g
      <3>1. g = [j \in 0 .. k + 1 |-> g[j]]
        BY DEF g
      <3> QED
        BY <2>3, <3>1 DEF Follows
    <2> QED
      BY <2>4
  <1>3. Nat \subseteq S
    <2> HIDE DEF S
    <2> QED
      BY <1>1, <1>2, SetInduction
  <1> QED
    BY <1>3

LEMMA FollowersAgree ==
    ASSUME NEW tc, NEW m \in Nat, NEW n \in Nat, NEW g, NEW h,
           Follows(g, tc, m), Follows(h, tc, n)
    PROVE  \A k \in Nat : k <= m /\ k <= n => g[k] = h[k]
  <1> DEFINE S == {k \in Nat : k <= m /\ k <= n => g[k] = h[k]}
  <1>0. /\ \A k \in 0 .. m : g[k] = IF k = 0 THEN <<>> ELSE Extended(g[k - 1], k, tc)
        /\ \A k \in 0 .. n : h[k] = IF k = 0 THEN <<>> ELSE Extended(h[k - 1], k, tc)
    BY DEF Follows
  <1>1. 0 \in S
    <2>1. g[0] = <<>> /\ h[0] = <<>>
      BY <1>0
    <2> QED
      BY <2>1
  <1>2. ASSUME NEW k \in Nat, k \in S PROVE k + 1 \in S
    BY <1>0, <1>2
  <1>3. Nat \subseteq S
    <2> HIDE DEF S
    <2> QED
      BY <1>1, <1>2, SetInduction
  <1> QED
    BY <1>3

LEMMA LevelsDefined ==
    ASSUME NEW tc
    PROVE  /\ Levels(tc)[0] = <<>>
           /\ \A n \in Nat : n # 0 =>
                Levels(tc)[n] = Append(Levels(tc)[n - 1], Level(Levels(tc)[n - 1], n, tc))
  <1> DEFINE h(n) == CHOOSE f : Follows(f, tc, n)
             L == [n \in Nat |-> h(n)[n]]
             IsFixed(f) == f = [n \in Nat |-> IF n = 0 THEN <<>> ELSE Extended(f[n - 1], n, tc)]
  <1>1. \A n \in Nat : Follows(h(n), tc, n)
    BY FollowersExist
  <1>2. ASSUME NEW n \in Nat
        PROVE  L[n] = IF n = 0 THEN <<>> ELSE Extended(L[n - 1], n, tc)
    <2>1. h(n)[n] = IF n = 0 THEN <<>> ELSE Extended(h(n)[n - 1], n, tc)
      <3> HIDE DEF h
      <3>1. \A k \in 0 .. n : h(n)[k] = IF k = 0 THEN <<>> ELSE Extended(h(n)[k - 1], k, tc)
        BY <1>1 DEF Follows
      <3> QED
        BY <3>1
    <2>2. n # 0 => h(n)[n - 1] = h(n - 1)[n - 1]
      <3> HIDE DEF h
      <3>1. CASE n # 0
        <4>1. n - 1 \in Nat /\ Follows(h(n), tc, n) /\ Follows(h(n - 1), tc, n - 1)
          BY <1>1, <3>1
        <4> QED
          BY <4>1, FollowersAgree
      <3> QED
        BY <3>1
    <2> HIDE DEF h
    <2> QED
      BY <2>1, <2>2
  <1>3. IsFixed(L)
    <2> HIDE DEF h
    <2>1. L = [n \in Nat |-> L[n]]
      OBVIOUS
    <2> HIDE DEF L
    <2> QED
      BY <1>2, <2>1
  <1>4. Levels(tc) = CHOOSE f : IsFixed(f)
    BY DEF Levels, Extended
  <1>5. IsFixed(Levels(tc))
    <2> HIDE DEF IsFixed, L
    <2> QED
      BY <1>3, <1>4
  <1> QED
    BY <1>5 DEF Extended

-----------------------------------------------------------------------------
(* What the levels hold.                                                   *)

\* The phrases of length n.
At(tc, n) == Levels(tc)[n][n]

LEMMA LevelsShape ==
    ASSUME NEW tc, NEW n \in Nat
    PROVE  /\ Len(Levels(tc)[n]) = n
           /\ \A k \in 1 .. n : Levels(tc)[n][k] = At(tc, k)
  <1> DEFINE L == Levels(tc)
             Shaped(k) == /\ \E T : L[k] \in Seq(T)
                          /\ Len(L[k]) = k
                          /\ \A j \in 1 .. k : L[k][j] = At(tc, j)
             S == {k \in Nat : Shaped(k)}
  <1>1. Shaped(0)
    <2>1. L[0] = <<>>
      BY LevelsDefined
    <2> HIDE DEF L
    <2>2. <<>> \in Seq({})
      OBVIOUS
    <2> QED
      BY <2>1, <2>2
  <1>2. ASSUME NEW k \in Nat, Shaped(k) PROVE Shaped(k + 1)
    <2> DEFINE new == Level(L[k], k + 1, tc)
    <2>1. L[k + 1] = Append(L[k], new)
      <3>1. k + 1 \in Nat /\ k + 1 # 0 /\ (k + 1) - 1 = k
        OBVIOUS
      <3> QED
        BY <3>1, LevelsDefined
    <2>2. At(tc, k + 1) = L[k + 1][k + 1]
      BY DEF At
    <2>3. PICK T : L[k] \in Seq(T)
      BY <1>2
    <2> HIDE DEF new, L
    <2>4. L[k] \in Seq(T \cup {new}) /\ new \in T \cup {new}
      BY <2>3, SeqMonotonic
    <2>5. /\ L[k + 1] \in Seq(T \cup {new})
          /\ Len(L[k + 1]) = k + 1
          /\ \A j \in 1 .. k : L[k + 1][j] = L[k][j]
      BY <1>2, <2>1, <2>4, AppendProperties
    <2>6. \A j \in 1 .. k + 1 : L[k + 1][j] = At(tc, j)
      BY <1>2, <2>2, <2>5
    <2> QED
      BY <2>5, <2>6
  <1>3. Nat \subseteq S
    <2>1. 0 \in S /\ \A k \in Nat : k \in S => k + 1 \in S
      <3> HIDE DEF Shaped
      <3> QED
        BY <1>1, <1>2
    <2> HIDE DEF S
    <2> QED
      BY <2>1, SetInduction
  <1> QED
    BY <1>3

LEMMA AtIsLevel ==
    ASSUME NEW tc, NEW n \in Nat, n # 0
    PROVE  At(tc, n) = Level(Levels(tc)[n - 1], n, tc)
  <1> DEFINE shorter == Levels(tc)[n - 1]
             new == Level(shorter, n, tc)
  <1>1. Levels(tc)[n] = Append(shorter, new)
    BY LevelsDefined
  <1>2. n - 1 \in Nat
    OBVIOUS
  <1>3. Len(shorter) = n - 1
    BY <1>2, LevelsShape
  <1> HIDE DEF new, shorter
  <1>4. Append(shorter, new)[Len(shorter) + 1] = new
    OBVIOUS
  <1> QED
    BY <1>1, <1>3, <1>4 DEF At, new, shorter

LEMMA LevelParts ==
    ASSUME NEW tc, NEW n \in Nat, n # 0
    PROVE  /\ At(tc, n).values = ScalarValues(n) \cup Arrays(Levels(tc)[n - 1], n, tc)
                                                 \cup Objects(Levels(tc)[n - 1], n, tc)
           /\ At(tc, n).elements = Elements(Levels(tc)[n - 1], n, At(tc, n).values)
           /\ At(tc, n).members = Members(Levels(tc)[n - 1], n)
  <1> DEFINE shorter == Levels(tc)[n - 1]
  <1>1. At(tc, n) = Level(shorter, n, tc)
    BY AtIsLevel
  <1> HIDE DEF shorter
  <1>2. /\ At(tc, n).values = ScalarValues(n) \cup Arrays(shorter, n, tc)
                                              \cup Objects(shorter, n, tc)
        /\ At(tc, n).elements = Elements(shorter, n, At(tc, n).values)
        /\ At(tc, n).members = Members(shorter, n)
    BY <1>1 DEF Level
  <1> QED
    BY <1>2 DEF shorter

LEMMA OfShorter ==
    ASSUME NEW tc, NEW n \in Nat, NEW k \in 1 .. n
    PROVE  Of(Levels(tc)[n], k) = At(tc, k)
  BY LevelsShape DEF Of

LEMMA OfNone ==
    ASSUME NEW tc, NEW n \in Nat, NEW k \in Int, k \notin 1 .. n
    PROVE  Of(Levels(tc)[n], k) = [values |-> {}, elements |-> {}, members |-> {}]
  BY LevelsShape DEF Of

-----------------------------------------------------------------------------
(* The grammar, rule by rule.                                              *)

IsValue(tc, s, v)    == Len(s) > 0 /\ Phrase(s, v) \in At(tc, Len(s)).values
IsElements(tc, s, v) == Len(s) > 0 /\ Phrase(s, v) \in At(tc, Len(s)).elements
IsMembers(tc, s, v)  == Len(s) > 0 /\ Phrase(s, v) \in At(tc, Len(s)).members

LEMMA Lexical ==
    /\ \A c \in Lexemes : <<c>> \in Seq(Lexemes) /\ Len(<<c>>) = 1
    /\ \A c, d \in Lexemes : <<c, d>> \in Seq(Lexemes) /\ Len(<<c, d>>) = 2
    /\ \A c, d, e \in Lexemes : <<c, d, e>> \in Seq(Lexemes) /\ Len(<<c, d, e>>) = 3
    /\ {"{", "}", "[", "]", ",", ":"} \subseteq Lexemes
    /\ Names \subseteq Scalars /\ Scalars \subseteq Lexemes
  BY DEF Lexemes, Scalars, Names

LEMMA Joined ==
    ASSUME NEW a \in Seq(Lexemes), NEW b \in Seq(Lexemes), NEW c \in Seq(Lexemes)
    PROVE  /\ a \o b \in Seq(Lexemes) /\ Len(a \o b) = Len(a) + Len(b)
           /\ a \o b \o c \in Seq(Lexemes) /\ Len(a \o b \o c) = Len(a) + Len(b) + Len(c)
           /\ (a \o b) \o c = a \o (b \o c)
           /\ Len(a) \in Nat
  OBVIOUS

LEMMA Pair ==
    ASSUME NEW x, NEW y
    PROVE  <<x>> \o <<y>> = <<x, y>>
  <1> DEFINE S == {x, y}
             a == <<x>>
             b == <<y>>
             c == <<x, y>>
  <1>1. a \in Seq(S) /\ Len(a) = 1 /\ a[1] = x /\ b \in Seq(S) /\ Len(b) = 1 /\ b[1] = y
    OBVIOUS
  <1>2. c \in Seq(S) /\ Len(c) = 2 /\ c[1] = x /\ c[2] = y
    OBVIOUS
  <1> HIDE DEF a, b, c, S
  <1>3. /\ a \o b \in Seq(S) /\ Len(a \o b) = 2
        /\ \A i \in 1 .. 2 : (a \o b)[i] = IF i <= 1 THEN a[i] ELSE b[i - 1]
    BY <1>1, ConcatProperties
  <1>4. (a \o b)[1] = x /\ (a \o b)[2] = y
    BY <1>1, <1>3
  <1>5. a \o b = c
    BY <1>2, <1>3, <1>4, SeqEqual
  <1> QED
    BY <1>5 DEF a, b, c

LEMMA Triple ==
    ASSUME NEW x, NEW y, NEW z
    PROVE  <<x>> \o <<y, z>> = <<x, y, z>>
  <1> DEFINE S == {x, y, z}
             a == <<x>>
             b == <<y, z>>
             c == <<x, y, z>>
  <1>1. /\ a \in Seq(S) /\ Len(a) = 1 /\ a[1] = x
        /\ b \in Seq(S) /\ Len(b) = 2 /\ b[1] = y /\ b[2] = z
    OBVIOUS
  <1>2. c \in Seq(S) /\ Len(c) = 3 /\ c[1] = x /\ c[2] = y /\ c[3] = z
    OBVIOUS
  <1> HIDE DEF a, b, c, S
  <1>3. /\ a \o b \in Seq(S)
        /\ Len(a \o b) = Len(a) + Len(b)
        /\ \A i \in 1 .. Len(a) + Len(b) : (a \o b)[i] = IF i <= Len(a) THEN a[i] ELSE b[i - Len(a)]
    <2>1. a \in Seq(S) /\ b \in Seq(S)
      BY <1>1
    <2> QED
      BY <2>1, ConcatProperties
  <1>6. Len(a \o b) = 3
    BY <1>1, <1>3
  <1>4. (a \o b)[1] = x /\ (a \o b)[2] = y /\ (a \o b)[3] = z
    BY <1>1, <1>3
  <1>5. a \o b = c
    BY <1>2, <1>3, <1>4, <1>6, SeqEqual
  <1> QED
    BY <1>5 DEF a, b, c

LEMMA ScalarIsValue ==
    ASSUME NEW tc, NEW c \in Scalars
    PROVE  IsValue(tc, <<c>>, Plain(c))
  <1>1. Len(<<c>>) = 1
    OBVIOUS
  <1>2. Phrase(<<c>>, Plain(c)) \in ScalarValues(1)
    BY DEF ScalarValues
  <1>3. ScalarValues(1) \subseteq At(tc, 1).values
    BY LevelParts
  <1> QED
    BY <1>1, <1>2, <1>3 DEF IsValue

\* A phrase that one of the rules for values of its length gives is a value.
LEMMA ValueRule ==
    ASSUME NEW tc, NEW n \in Nat, n # 0, NEW s, NEW v, Len(s) = n,
           Phrase(s, v) \in ScalarValues(n) \cup Arrays(Levels(tc)[n - 1], n, tc)
                                            \cup Objects(Levels(tc)[n - 1], n, tc)
    PROVE  IsValue(tc, s, v)
  BY LevelParts DEF IsValue

LEMMA EmptyIsValue ==
    ASSUME NEW tc
    PROVE  IsValue(tc, <<"[", "]">>, Plain("[")) /\ IsValue(tc, <<"{", "}">>, Plain("{"))
  <1> DEFINE a == <<"[", "]">>
             o == <<"{", "}">>
  <1>1. Len(a) = 2 /\ Len(o) = 2
    OBVIOUS
  <1>2. /\ Phrase(a, Plain("[")) \in Arrays(Levels(tc)[2 - 1], 2, tc)
        /\ Phrase(o, Plain("{")) \in Objects(Levels(tc)[2 - 1], 2, tc)
    BY DEF Arrays, Objects
  <1> HIDE DEF a, o
  <1>3. 2 \in Nat /\ 2 # 0
    OBVIOUS
  <1>4. IsValue(tc, a, Plain("[")) /\ IsValue(tc, o, Plain("{"))
    BY <1>1, <1>2, <1>3, ValueRule
  <1> QED
    BY <1>4 DEF a, o

LEMMA ArrayIsValue ==
    ASSUME NEW tc, NEW s \in Seq(Lexemes), NEW v, IsElements(tc, s, v)
    PROVE  IsValue(tc, <<"[">> \o s \o <<"]">>, v)
  <1> DEFINE b == Phrase(s, v)
             n == Len(s) + 2
             a == <<"[">>
             z == <<"]">>
  <1>1. n \in Nat /\ n > 2 /\ n - 2 = Len(s) /\ Len(s) \in 1 .. n - 1 /\ n - 1 \in Nat
    BY DEF IsElements
  <1>2. b \in Of(Levels(tc)[n - 1], n - 2).elements
    <2>1. b \in At(tc, Len(s)).elements
      BY DEF IsElements
    <2> HIDE DEF b, n
    <2> QED
      BY <1>1, <2>1, OfShorter
  <1>3. Closed("[", b, z) \in Arrays(Levels(tc)[n - 1], n, tc)
    <2> HIDE DEF b, n
    <2> QED
      BY <1>2 DEF Arrays
  <1>4. Closed("[", b, z) = Phrase(a \o s \o z, v)
    BY DEF Closed, Phrase
  <1>5. a \in Seq(Lexemes) /\ z \in Seq(Lexemes)
    BY Lexical
  <1>6. Len(a) = 1 /\ Len(z) = 1
    OBVIOUS
  <1> HIDE DEF a, b, z
  <1>7. Len(a \o s \o z) = n
    <2>1. Len(a \o s \o z) = Len(a) + Len(s) + Len(z) /\ Len(s) \in Nat
      BY <1>5, Joined
    <2> QED
      BY <1>6, <2>1
  <1> HIDE DEF n
  <1> DEFINE r == a \o s \o z
             shorter == Levels(tc)[n - 1]
  <1>8. IsValue(tc, r, v)
    <2>1. n # 0 /\ n \in Nat /\ Len(r) = n
      BY <1>1, <1>7
    <2>2. Phrase(r, v) \in ScalarValues(n) \cup Arrays(shorter, n, tc) \cup Objects(shorter, n, tc)
      BY <1>3, <1>4
    <2> HIDE DEF r
    <2> QED
      BY <2>1, <2>2, ValueRule
  <1> QED
    BY <1>8 DEF a, z

LEMMA ObjectIsValue ==
    ASSUME NEW tc, NEW s \in Seq(Lexemes), NEW v, IsMembers(tc, s, v)
    PROVE  IsValue(tc, <<"{">> \o s \o <<"}">>, v)
  <1> DEFINE b == Phrase(s, v)
             n == Len(s) + 2
             a == <<"{">>
             z == <<"}">>
  <1>1. n \in Nat /\ n > 2 /\ n - 2 = Len(s) /\ Len(s) \in 1 .. n - 1 /\ n - 1 \in Nat
    BY DEF IsMembers
  <1>2. b \in Of(Levels(tc)[n - 1], n - 2).members
    <2>1. b \in At(tc, Len(s)).members
      BY DEF IsMembers
    <2> HIDE DEF b, n
    <2> QED
      BY <1>1, <2>1, OfShorter
  <1>3. Closed("{", b, z) \in Objects(Levels(tc)[n - 1], n, tc)
    <2> HIDE DEF b, n
    <2> QED
      BY <1>2 DEF Objects
  <1>4. Closed("{", b, z) = Phrase(a \o s \o z, v)
    BY DEF Closed, Phrase
  <1>5. a \in Seq(Lexemes) /\ z \in Seq(Lexemes)
    BY Lexical
  <1>6. Len(a) = 1 /\ Len(z) = 1
    OBVIOUS
  <1> HIDE DEF a, b, z
  <1>7. Len(a \o s \o z) = n
    <2>1. Len(a \o s \o z) = Len(a) + Len(s) + Len(z) /\ Len(s) \in Nat
      BY <1>5, Joined
    <2> QED
      BY <1>6, <2>1
  <1> HIDE DEF n
  <1> DEFINE r == a \o s \o z
             shorter == Levels(tc)[n - 1]
  <1>8. IsValue(tc, r, v)
    <2>1. n # 0 /\ n \in Nat /\ Len(r) = n
      BY <1>1, <1>7
    <2>2. Phrase(r, v) \in ScalarValues(n) \cup Arrays(shorter, n, tc) \cup Objects(shorter, n, tc)
      BY <1>3, <1>4
    <2> HIDE DEF r
    <2> QED
      BY <2>1, <2>2, ValueRule
  <1> QED
    BY <1>8 DEF a, z

LEMMA CommaArrayIsValue ==
    ASSUME NEW s \in Seq(Lexemes), NEW v, IsElements(TRUE, s, v)
    PROVE  IsValue(TRUE, <<"[">> \o s \o <<",", "]">>, v)
  <1> DEFINE b == Phrase(s, v)
             n == Len(s) + 3
             a == <<"[">>
             z == <<",", "]">>
  <1>1. n \in Nat /\ n > 3 /\ n - 3 = Len(s) /\ Len(s) \in 1 .. n - 1 /\ n - 1 \in Nat
    BY DEF IsElements
  <1>2. b \in Of(Levels(TRUE)[n - 1], n - 3).elements
    <2>1. b \in At(TRUE, Len(s)).elements
      BY DEF IsElements
    <2> HIDE DEF b, n
    <2> QED
      BY <1>1, <2>1, OfShorter
  <1>3. Closed("[", b, z) \in Arrays(Levels(TRUE)[n - 1], n, TRUE)
    <2> HIDE DEF b, n
    <2> QED
      BY <1>2 DEF Arrays
  <1>4. Closed("[", b, z) = Phrase(a \o s \o z, v)
    BY DEF Closed, Phrase
  <1>5. a \in Seq(Lexemes) /\ z \in Seq(Lexemes)
    BY Lexical
  <1>6. Len(a) = 1 /\ Len(z) = 2
    OBVIOUS
  <1> HIDE DEF a, b, z
  <1>7. Len(a \o s \o z) = n
    <2>1. Len(a \o s \o z) = Len(a) + Len(s) + Len(z) /\ Len(s) \in Nat
      BY <1>5, Joined
    <2> QED
      BY <1>6, <2>1
  <1> HIDE DEF n
  <1> DEFINE r == a \o s \o z
             shorter == Levels(TRUE)[n - 1]
  <1>8. IsValue(TRUE, r, v)
    <2>1. n # 0 /\ n \in Nat /\ Len(r) = n
      BY <1>1, <1>7
    <2>2. Phrase(r, v) \in ScalarValues(n) \cup Arrays(shorter, n, TRUE) \cup Objects(shorter, n, TRUE)
      BY <1>3, <1>4
    <2> HIDE DEF r
    <2> QED
      BY <2>1, <2>2, ValueRule
  <1> QED
    BY <1>8 DEF a, z

LEMMA CommaObjectIsValue ==
    ASSUME NEW s \in Seq(Lexemes), NEW v, IsMembers(TRUE, s, v)
    PROVE  IsValue(TRUE, <<"{">> \o s \o <<",", "}">>, v)
  <1> DEFINE b == Phrase(s, v)
             n == Len(s) + 3
             a == <<"{">>
             z == <<",", "}">>
  <1>1. n \in Nat /\ n > 3 /\ n - 3 = Len(s) /\ Len(s) \in 1 .. n - 1 /\ n - 1 \in Nat
    BY DEF IsMembers
  <1>2. b \in Of(Levels(TRUE)[n - 1], n - 3).members
    <2>1. b \in At(TRUE, Len(s)).members
      BY DEF IsMembers
    <2> HIDE DEF b, n
    <2> QED
      BY <1>1, <2>1, OfShorter
  <1>3. Closed("{", b, z) \in Objects(Levels(TRUE)[n - 1], n, TRUE)
    <2> HIDE DEF b, n
    <2> QED
      BY <1>2 DEF Objects
  <1>4. Closed("{", b, z) = Phrase(a \o s \o z, v)
    BY DEF Closed, Phrase
  <1>5. a \in Seq(Lexemes) /\ z \in Seq(Lexemes)
    BY Lexical
  <1>6. Len(a) = 1 /\ Len(z) = 2
    OBVIOUS
  <1> HIDE DEF a, b, z
  <1>7. Len(a \o s \o z) = n
    <2>1. Len(a \o s \o z) = Len(a) + Len(s) + Len(z) /\ Len(s) \in Nat
      BY <1>5, Joined
    <2> QED
      BY <1>6, <2>1
  <1> HIDE DEF n
  <1> DEFINE r == a \o s \o z
             shorter == Levels(TRUE)[n - 1]
  <1>8. IsValue(TRUE, r, v)
    <2>1. n # 0 /\ n \in Nat /\ Len(r) = n
      BY <1>1, <1>7
    <2>2. Phrase(r, v) \in ScalarValues(n) \cup Arrays(shorter, n, TRUE) \cup Objects(shorter, n, TRUE)
      BY <1>3, <1>4
    <2> HIDE DEF r
    <2> QED
      BY <2>1, <2>2, ValueRule
  <1> QED
    BY <1>8 DEF a, z

LEMMA InsideRule ==
    ASSUME NEW tc, NEW n \in Nat, n # 0, NEW s, NEW v, Len(s) = n
    PROVE  /\ Phrase(s, v) \in Elements(Levels(tc)[n - 1], n, At(tc, n).values)
                => IsElements(tc, s, v)
           /\ Phrase(s, v) \in Members(Levels(tc)[n - 1], n) => IsMembers(tc, s, v)
  BY LevelParts DEF IsElements, IsMembers

LEMMA FirstElementRule ==
    ASSUME NEW tc, NEW t \in Seq(Lexemes), NEW w, IsValue(tc, t, w)
    PROVE  IsElements(tc, t, WithElement(Plain("["), w))
  <1> DEFINE v == WithElement(Plain("["), w)
             n == Len(t)
             shorter == Levels(tc)[n - 1]
  <1>1. n \in Nat /\ n # 0 /\ Phrase(t, w) \in At(tc, n).values
    BY DEF IsValue
  <1>2. FirstElement(Phrase(t, w)) = Phrase(t, v)
    BY DEF FirstElement, Phrase
  <1> HIDE DEF n, v, shorter
  <1>3. Phrase(t, v) \in Elements(shorter, n, At(tc, n).values)
    BY <1>1, <1>2 DEF Elements
  <1> QED
    BY <1>1, <1>3, InsideRule DEF n, v, shorter

LEMMA NextElementRule ==
    ASSUME NEW tc, NEW s \in Seq(Lexemes), NEW v, IsElements(tc, s, v),
           NEW t \in Seq(Lexemes), NEW w, IsValue(tc, t, w)
    PROVE  IsElements(tc, s \o <<",">> \o t, WithElement(v, w))
  <1> DEFINE a == <<",">>
             r == s \o a \o t
             k == Len(t)
             n == Len(s) + 1 + k
             u == WithElement(v, w)
             shorter == Levels(tc)[n - 1]
  <1>1. /\ n \in Nat /\ n # 0 /\ n - 1 \in Nat /\ k \in 1 .. n - 2 /\ k \in 1 .. n - 1
        /\ n - k - 1 = Len(s) /\ Len(s) \in 1 .. n - 1
    BY DEF IsElements, IsValue
  <1>2. /\ Phrase(s, v) \in At(tc, Len(s)).elements
        /\ Phrase(t, w) \in At(tc, k).values
    BY DEF IsElements, IsValue
  <1>3. NextElement(Phrase(s, v), Phrase(t, w)) = Phrase(r, u)
    BY DEF NextElement, Phrase
  <1>4. Len(r) = n
    <2>1. a \in Seq(Lexemes)
      BY Lexical
    <2>2. Len(a) = 1
      OBVIOUS
    <2> HIDE DEF a
    <2>3. Len(r) = Len(s) + Len(a) + Len(t) /\ Len(s) \in Nat /\ Len(t) \in Nat
      BY <2>1, Joined
    <2> QED
      BY <2>2, <2>3
  <1> HIDE DEF r, k, n, u
  <1>5. /\ Phrase(s, v) \in Of(shorter, n - k - 1).elements
        /\ Phrase(t, w) \in Of(shorter, k).values
    BY <1>1, <1>2, OfShorter
  <1> HIDE DEF shorter
  <1>6. Phrase(r, u) \in Elements(shorter, n, At(tc, n).values)
    <2>1. Phrase(r, u) \in {NextElement(b, x) : b \in Of(shorter, n - k - 1).elements,
                                               x \in Of(shorter, k).values}
      BY <1>3, <1>5
    <2> QED
      BY <1>1, <2>1 DEF Elements
  <1>7. IsElements(tc, r, u)
    BY <1>1, <1>4, <1>6, InsideRule DEF shorter
  <1> QED
    BY <1>7 DEF r, u

LEMMA FirstMemberRule ==
    ASSUME NEW tc, NEW m \in Names, NEW t \in Seq(Lexemes), NEW w, IsValue(tc, t, w)
    PROVE  IsMembers(tc, <<m, ":">> \o t, WithMember(Plain("{"), m, w))
  <1> DEFINE a == <<m, ":">>
             r == a \o t
             k == Len(t)
             n == k + 2
             u == WithMember(Plain("{"), m, w)
             shorter == Levels(tc)[n - 1]
  <1>1. n \in Nat /\ n # 0 /\ n - 1 \in Nat /\ n - 2 = k /\ k \in 1 .. n - 1
    BY DEF IsValue
  <1>2. Phrase(t, w) \in At(tc, k).values
    BY DEF IsValue
  <1>3. FirstMember(m, Phrase(t, w)) = Phrase(r, u)
    BY DEF FirstMember, Phrase
  <1>4. Len(r) = n
    <2>1. a \in Seq(Lexemes)
      BY Lexical
    <2>2. Len(a) = 2
      OBVIOUS
    <2> HIDE DEF a
    <2>3. Len(r) = Len(a) + Len(t) /\ Len(t) \in Nat
      BY <2>1, Joined
    <2> QED
      BY <2>2, <2>3
  <1> HIDE DEF r, k, n, u
  <1>5. Phrase(t, w) \in Of(shorter, n - 2).values
    BY <1>1, <1>2, OfShorter
  <1> HIDE DEF shorter
  <1>6. Phrase(r, u) \in Members(shorter, n)
    <2>1. Phrase(r, u) \in {FirstMember(x, y) : x \in Names, y \in Of(shorter, n - 2).values}
      BY <1>3, <1>5
    <2> QED
      BY <2>1 DEF Members
  <1>7. IsMembers(tc, r, u)
    BY <1>1, <1>4, <1>6, InsideRule DEF shorter
  <1> QED
    BY <1>7 DEF r, u

LEMMA NextMemberRule ==
    ASSUME NEW tc, NEW s \in Seq(Lexemes), NEW v, IsMembers(tc, s, v), NEW m \in Names,
           NEW t \in Seq(Lexemes), NEW w, IsValue(tc, t, w)
    PROVE  IsMembers(tc, s \o <<",", m, ":">> \o t, WithMember(v, m, w))
  <1> DEFINE a == <<",", m, ":">>
             r == s \o a \o t
             k == Len(t)
             n == Len(s) + 3 + k
             u == WithMember(v, m, w)
             shorter == Levels(tc)[n - 1]
  <1>1. /\ n \in Nat /\ n # 0 /\ n - 1 \in Nat /\ k \in 1 .. n - 4 /\ k \in 1 .. n - 1
        /\ n - k - 3 = Len(s) /\ Len(s) \in 1 .. n - 1
    BY DEF IsMembers, IsValue
  <1>2. /\ Phrase(s, v) \in At(tc, Len(s)).members
        /\ Phrase(t, w) \in At(tc, k).values
    BY DEF IsMembers, IsValue
  <1>3. NextMember(Phrase(s, v), m, Phrase(t, w)) = Phrase(r, u)
    BY DEF NextMember, Phrase
  <1>4. Len(r) = n
    <2>1. a \in Seq(Lexemes)
      BY Lexical
    <2>2. Len(a) = 3
      OBVIOUS
    <2> HIDE DEF a
    <2>3. Len(r) = Len(s) + Len(a) + Len(t) /\ Len(s) \in Nat /\ Len(t) \in Nat
      BY <2>1, Joined
    <2> QED
      BY <2>2, <2>3
  <1> HIDE DEF r, k, n, u
  <1>5. /\ Phrase(s, v) \in Of(shorter, n - k - 3).members
        /\ Phrase(t, w) \in Of(shorter, k).values
    BY <1>1, <1>2, OfShorter
  <1> HIDE DEF shorter
  <1>6. Phrase(r, u) \in Members(shorter, n)
    <2>1. Phrase(r, u) \in {NextMember(b, y, x) : b \in Of(shorter, n - k - 3).members,
                                                 y \in Names, x \in Of(shorter, k).values}
      BY <1>3, <1>5
    <2> QED
      BY <1>1, <2>1 DEF Members
  <1>7. IsMembers(tc, r, u)
    BY <1>1, <1>4, <1>6, InsideRule DEF shorter
  <1> QED
    BY <1>7 DEF r, u

-----------------------------------------------------------------------------
(* What a call has read.                                                   *)

\* An array or object with nothing behind its bracket or its last comma, and
\* one with nothing behind its last element or member; an object up to a name,
\* and up to the colon behind it.
BeforeElement(s, v) ==
    \/ s = <<"[">> /\ v = Plain("[")
    \/ \E b \in Seq(Lexemes) : IsElements(TRUE, b, v) /\ s = <<"[">> \o b \o <<",">>

AfterElement(s, v) == \E b \in Seq(Lexemes) : IsElements(TRUE, b, v) /\ s = <<"[">> \o b

BeforeMember(s, v) ==
    \/ s = <<"{">> /\ v = Plain("{")
    \/ \E b \in Seq(Lexemes) : IsMembers(TRUE, b, v) /\ s = <<"{">> \o b \o <<",">>

AfterMember(s, v) == \E b \in Seq(Lexemes) : IsMembers(TRUE, b, v) /\ s = <<"{">> \o b

AfterName(s, v, m) ==
    m \in Names /\ \E r \in Seq(Lexemes) : BeforeMember(r, v) /\ s = r \o <<m>>

AfterColon(s, v, m) ==
    m \in Names /\ \E r \in Seq(Lexemes) : BeforeMember(r, v) /\ s = r \o <<m, ":">>

LEMMA ElementRead ==
    ASSUME NEW s \in Seq(Lexemes), NEW v, BeforeElement(s, v),
           NEW t \in Seq(Lexemes), NEW w, IsValue(TRUE, t, w)
    PROVE  AfterElement(s \o t, WithElement(v, w))
  <1>1. CASE s = <<"[">> /\ v = Plain("[")
    BY <1>1, FirstElementRule DEF AfterElement
  <1>2. ASSUME NEW b \in Seq(Lexemes), IsElements(TRUE, b, v), s = <<"[">> \o b \o <<",">>
        PROVE  AfterElement(s \o t, WithElement(v, w))
    <2> DEFINE a == <<"[">>
               z == <<",">>
               r == b \o z \o t
    <2>1. a \in Seq(Lexemes) /\ z \in Seq(Lexemes)
      BY Lexical
    <2>2. IsElements(TRUE, r, WithElement(v, w))
      BY <1>2, NextElementRule
    <2> HIDE DEF a, z
    <2>3. r \in Seq(Lexemes)
      BY <2>1, Joined
    <2>4. (a \o b \o z) \o t = a \o r
      BY <2>1
    <2>5. s \o t = a \o r
      BY <1>2, <2>4 DEF a, z
    <2> HIDE DEF r
    <2> QED
      BY <2>2, <2>3, <2>5 DEF AfterElement, a
  <1> QED
    BY <1>1, <1>2 DEF BeforeElement

LEMMA ArrayGoesOn ==
    ASSUME NEW s \in Seq(Lexemes), NEW v, AfterElement(s, v)
    PROVE  BeforeElement(Append(s, ","), v)
  <1>1. PICK b \in Seq(Lexemes) : IsElements(TRUE, b, v) /\ s = <<"[">> \o b
    BY DEF AfterElement
  <1>2. "," \in Lexemes
    BY Lexical
  <1>3. Append(s, ",") = s \o <<",">>
    BY <1>2, AppendIsConcat
  <1>4. s \o <<",">> = <<"[">> \o b \o <<",">>
    BY <1>1
  <1> QED
    BY <1>1, <1>3, <1>4 DEF BeforeElement

LEMMA ArrayRead ==
    ASSUME NEW s \in Seq(Lexemes), NEW v, BeforeElement(s, v) \/ AfterElement(s, v)
    PROVE  IsValue(TRUE, Append(s, "]"), v)
  <1>0. "]" \in Lexemes
    BY Lexical
  <1>1. Append(s, "]") = s \o <<"]">>
    BY <1>0, AppendIsConcat
  <1>2. CASE s = <<"[">> /\ v = Plain("[")
    <2>1. <<"[">> \o <<"]">> = <<"[", "]">>
      BY Pair
    <2> QED
      BY <1>1, <1>2, <2>1, EmptyIsValue
  <1>3. ASSUME NEW b \in Seq(Lexemes), IsElements(TRUE, b, v), s = <<"[">> \o b \o <<",">>
        PROVE  IsValue(TRUE, Append(s, "]"), v)
    <2> DEFINE a == <<"[">>
               y == <<",">>
               z == <<"]">>
    <2>1. a \in Seq(Lexemes) /\ y \in Seq(Lexemes) /\ z \in Seq(Lexemes)
      BY Lexical
    <2>2. y \o z = <<",", "]">>
      BY Pair
    <2> HIDE DEF a, y, z
    <2>3. (a \o b \o y) \o z = a \o b \o (y \o z)
      BY <2>1
    <2>4. s \o <<"]">> = <<"[">> \o b \o <<",", "]">>
      BY <1>3, <2>2, <2>3 DEF a, y, z
    <2> QED
      BY <1>1, <1>3, <2>4, CommaArrayIsValue
  <1>4. ASSUME NEW b \in Seq(Lexemes), IsElements(TRUE, b, v), s = <<"[">> \o b
        PROVE  IsValue(TRUE, Append(s, "]"), v)
    <2>1. s \o <<"]">> = <<"[">> \o b \o <<"]">>
      BY <1>4
    <2> QED
      BY <1>1, <1>4, <2>1, ArrayIsValue
  <1> QED
    BY <1>2, <1>3, <1>4 DEF BeforeElement, AfterElement

LEMMA ObjectGoesOn ==
    ASSUME NEW s \in Seq(Lexemes), NEW v, AfterMember(s, v)
    PROVE  BeforeMember(Append(s, ","), v)
  <1>1. PICK b \in Seq(Lexemes) : IsMembers(TRUE, b, v) /\ s = <<"{">> \o b
    BY DEF AfterMember
  <1>2. "," \in Lexemes
    BY Lexical
  <1>3. Append(s, ",") = s \o <<",">>
    BY <1>2, AppendIsConcat
  <1>4. s \o <<",">> = <<"{">> \o b \o <<",">>
    BY <1>1
  <1> QED
    BY <1>1, <1>3, <1>4 DEF BeforeMember

LEMMA ObjectRead ==
    ASSUME NEW s \in Seq(Lexemes), NEW v, BeforeMember(s, v) \/ AfterMember(s, v)
    PROVE  IsValue(TRUE, Append(s, "}"), v)
  <1>0. "}" \in Lexemes
    BY Lexical
  <1>1. Append(s, "}") = s \o <<"}">>
    BY <1>0, AppendIsConcat
  <1>2. CASE s = <<"{">> /\ v = Plain("{")
    <2>1. <<"{">> \o <<"}">> = <<"{", "}">>
      BY Pair
    <2> QED
      BY <1>1, <1>2, <2>1, EmptyIsValue
  <1>3. ASSUME NEW b \in Seq(Lexemes), IsMembers(TRUE, b, v), s = <<"{">> \o b \o <<",">>
        PROVE  IsValue(TRUE, Append(s, "}"), v)
    <2> DEFINE a == <<"{">>
               y == <<",">>
               z == <<"}">>
    <2>1. a \in Seq(Lexemes) /\ y \in Seq(Lexemes) /\ z \in Seq(Lexemes)
      BY Lexical
    <2>2. y \o z = <<",", "}">>
      BY Pair
    <2> HIDE DEF a, y, z
    <2>3. (a \o b \o y) \o z = a \o b \o (y \o z)
      BY <2>1
    <2>4. s \o <<"}">> = <<"{">> \o b \o <<",", "}">>
      BY <1>3, <2>2, <2>3 DEF a, y, z
    <2> QED
      BY <1>1, <1>3, <2>4, CommaObjectIsValue
  <1>4. ASSUME NEW b \in Seq(Lexemes), IsMembers(TRUE, b, v), s = <<"{">> \o b
        PROVE  IsValue(TRUE, Append(s, "}"), v)
    <2>1. s \o <<"}">> = <<"{">> \o b \o <<"}">>
      BY <1>4
    <2> QED
      BY <1>1, <1>4, <2>1, ObjectIsValue
  <1> QED
    BY <1>2, <1>3, <1>4 DEF BeforeMember, AfterMember

LEMMA NameRead ==
    ASSUME NEW s \in Seq(Lexemes), NEW v, BeforeMember(s, v), NEW m \in Names
    PROVE  AfterName(Append(s, m), v, m)
  <1>1. m \in Lexemes
    BY Lexical
  <1>2. Append(s, m) = s \o <<m>>
    BY <1>1, AppendIsConcat
  <1> QED
    BY <1>2 DEF AfterName

LEMMA ColonRead ==
    ASSUME NEW s \in Seq(Lexemes), NEW v, NEW m, AfterName(s, v, m)
    PROVE  AfterColon(Append(s, ":"), v, m)
  <1>1. PICK r \in Seq(Lexemes) : BeforeMember(r, v) /\ s = r \o <<m>>
    BY DEF AfterName
  <1>2. m \in Names /\ m \in Lexemes /\ ":" \in Lexemes
    BY Lexical DEF AfterName
  <1> DEFINE a == <<m>>
             z == <<":">>
  <1>3. a \in Seq(Lexemes) /\ z \in Seq(Lexemes)
    BY <1>2
  <1>4. a \o z = <<m, ":">>
    BY Pair
  <1>5. Append(s, ":") = s \o z
    BY <1>2, AppendIsConcat
  <1>6. s = r \o a
    BY <1>1
  <1> HIDE DEF a, z
  <1>7. (r \o a) \o z = r \o (a \o z)
    BY <1>3, Joined
  <1> QED
    BY <1>1, <1>2, <1>4, <1>5, <1>6, <1>7 DEF AfterColon

\* A member's text behind the bracket, or behind the members before it.
LEMMA MemberText ==
    ASSUME NEW m \in Names, NEW t \in Seq(Lexemes)
    PROVE  /\ <<m, ":">> \o t \in Seq(Lexemes)
           /\ (<<"{">> \o <<m, ":">>) \o t = <<"{">> \o (<<m, ":">> \o t)
           /\ \A b \in Seq(Lexemes) :
                /\ b \o <<",", m, ":">> \o t \in Seq(Lexemes)
                /\ ((<<"{">> \o b \o <<",">>) \o <<m, ":">>) \o t
                     = <<"{">> \o (b \o <<",", m, ":">> \o t)
  <1> DEFINE a == <<"{">>
             y == <<",">>
             z == <<m, ":">>
             yz == <<",", m, ":">>
  <1>1. m \in Lexemes
    BY Lexical
  <1>2. a \in Seq(Lexemes) /\ y \in Seq(Lexemes) /\ z \in Seq(Lexemes) /\ yz \in Seq(Lexemes)
    BY <1>1, Lexical
  <1>3. y \o z = yz
    BY Triple
  <1> HIDE DEF a, y, z, yz
  <1>4. z \o t \in Seq(Lexemes) /\ (a \o z) \o t = a \o (z \o t)
    BY <1>2, Joined
  <1>5. ASSUME NEW b \in Seq(Lexemes)
        PROVE  /\ b \o yz \o t \in Seq(Lexemes)
               /\ ((a \o b \o y) \o z) \o t = a \o (b \o yz \o t)
    <2>0. b \o yz \o t \in Seq(Lexemes)
      BY <1>2, Joined
    <2>1. (a \o b) \o yz = a \o (b \o yz)
      BY <1>2
    <2> DEFINE ab == a \o b
               byz == b \o yz
    <2>2. ab \in Seq(Lexemes) /\ byz \in Seq(Lexemes)
      BY <1>2, Joined
    <2>3. ab \o yz = a \o byz
      BY <2>1
    <2> HIDE DEF ab, byz
    <2>4. (ab \o y) \o z = ab \o (y \o z)
      BY <1>2, <2>2
    <2>5. (a \o byz) \o t = a \o (byz \o t)
      BY <1>2, <2>2
    <2>6. ((ab \o y) \o z) \o t = a \o (byz \o t)
      BY <1>3, <2>3, <2>4, <2>5
    <2> QED
      BY <2>0, <2>6 DEF ab, byz
  <1> QED
    BY <1>4, <1>5 DEF a, y, z, yz

LEMMA MemberRead ==
    ASSUME NEW s \in Seq(Lexemes), NEW v, NEW m, AfterColon(s, v, m),
           NEW t \in Seq(Lexemes), NEW w, IsValue(TRUE, t, w)
    PROVE  AfterMember(s \o t, WithMember(v, m, w))
  <1>1. PICK r \in Seq(Lexemes) : BeforeMember(r, v) /\ s = r \o <<m, ":">>
    BY DEF AfterColon
  <1>2. m \in Names
    BY DEF AfterColon
  <1>3. CASE r = <<"{">> /\ v = Plain("{")
    <2>1. IsMembers(TRUE, <<m, ":">> \o t, WithMember(v, m, w))
      BY <1>2, <1>3, FirstMemberRule
    <2>2. /\ <<m, ":">> \o t \in Seq(Lexemes)
          /\ s \o t = <<"{">> \o (<<m, ":">> \o t)
      BY <1>1, <1>2, <1>3, MemberText
    <2> QED
      BY <2>1, <2>2 DEF AfterMember
  <1>4. ASSUME NEW b \in Seq(Lexemes), IsMembers(TRUE, b, v), r = <<"{">> \o b \o <<",">>
        PROVE  AfterMember(s \o t, WithMember(v, m, w))
    <2>1. IsMembers(TRUE, b \o <<",", m, ":">> \o t, WithMember(v, m, w))
      BY <1>2, <1>4, NextMemberRule
    <2>2. /\ b \o <<",", m, ":">> \o t \in Seq(Lexemes)
          /\ s \o t = <<"{">> \o (b \o <<",", m, ":">> \o t)
      BY <1>1, <1>2, <1>4, MemberText
    <2> QED
      BY <2>1, <2>2 DEF AfterMember
  <1> QED
    BY <1>1, <1>3, <1>4 DEF BeforeMember

-----------------------------------------------------------------------------
(* A frame and the lexemes its call has read.                              *)

IsFrame(f) ==
    f = [function |-> f.function, at |-> f.at, key |-> f.key, value |-> f.value]

\* A value that an object or an array denotes.
Shaped(v, open) == v = [type |-> open, list |-> v.list, members |-> v.members]

\* An object or an array that has been read as far as its closing bracket.
Whole(s, v, open, close) ==
    /\ IsValue(TRUE, s, v)
    /\ Shaped(v, open)
    /\ \E r \in Seq(Lexemes) : s = Append(r, close)

WholeDocument(s, v) == Whole(s, v, "{", "}") \/ Whole(s, v, "[", "]")

\* The innermost call f has read s, which its callees have not.
StringReads(f, s) ==
    \/ f.at = "begin" /\ s = <<>> /\ f.value = Plain("null")
    \/ f.at = "objectEnd" /\ Whole(s, f.value, "{", "}")
    \/ f.at = "arrayEnd" /\ Whole(s, f.value, "[", "]")
    \/ /\ f.at = "end"
       /\ \E r \in Seq(Lexemes) :
            \/ Whole(r, f.value, "{", "}") /\ s = Append(r, "}")
            \/ Whole(r, f.value, "[", "]") /\ s = Append(r, "]")

ArrayReads(f, s) ==
    /\ Shaped(f.value, "[")
    /\ \/ f.at = "val" /\ BeforeElement(s, f.value)
       \/ f.at = "sep" /\ AfterElement(s, f.value)

ObjectReads(f, s) ==
    /\ Shaped(f.value, "{")
    /\ \/ f.at = "key" /\ BeforeMember(s, f.value)
       \/ f.at = "sep" /\ AfterName(s, f.value, f.key)
       \/ f.at = "val" /\ AfterColon(s, f.value, f.key)
       \/ f.at = "end" /\ AfterMember(s, f.value)

Reads(f, s) ==
    \/ f.function = "fromString" /\ StringReads(f, s)
    \/ f.function = "parseArray" /\ ArrayReads(f, s)
    \/ f.function = "parseObject" /\ ObjectReads(f, s)

\* The call f has read s and waits for the function it has called.
Waits(f, callee, s) ==
    \/ /\ f.function = "fromString" /\ s = <<>>
       /\ \/ f.at = "objectEnd" /\ callee = "parseObject"
          \/ f.at = "arrayEnd" /\ callee = "parseArray"
    \/ /\ f.function = "parseArray" /\ f.at = "sep"
       /\ callee \in {"parseObject", "parseArray"}
       /\ Shaped(f.value, "[") /\ BeforeElement(s, f.value)
    \/ /\ f.function = "parseObject" /\ f.at = "end"
       /\ callee \in {"parseObject", "parseArray"}
       /\ Shaped(f.value, "{") /\ AfterColon(s, f.value, f.key)

LEMMA ShapeKept ==
    ASSUME NEW v, NEW open, Shaped(v, open), NEW m, NEW w
    PROVE  Shaped(WithElement(v, w), open) /\ Shaped(WithMember(v, m, w), open)
  <1> DEFINE newList == Append(v.list, w)
             newMembers == {n \in v.members : n.key # m} \cup {[key |-> m, value |-> w]}
  <1>1. v = [type |-> open, list |-> v.list, members |-> v.members]
    BY DEF Shaped
  <1>2. /\ WithElement(v, w) = [v EXCEPT !.list = newList]
        /\ WithMember(v, m, w) = [v EXCEPT !.members = newMembers]
    BY <1>1 DEF WithElement, WithMember
  <1> HIDE DEF newList, newMembers
  <1>3. /\ [v EXCEPT !.list = newList]
             = [type |-> open, list |-> newList, members |-> v.members]
        /\ [v EXCEPT !.members = newMembers]
             = [type |-> open, list |-> v.list, members |-> newMembers]
    BY <1>1
  <1> QED
    BY <1>2, <1>3 DEF Shaped

WithAt(f, x)    == [f EXCEPT !.at = x]
WithKey(f, x)   == [f EXCEPT !.key = x]
WithValue(f, x) == [f EXCEPT !.value = x]

LEMMA FrameKept ==
    ASSUME NEW f, IsFrame(f), NEW x
    PROVE  /\ IsFrame(WithAt(f, x))
           /\ WithAt(f, x).function = f.function
           /\ WithAt(f, x).at = x
           /\ WithAt(f, x).key = f.key
           /\ WithAt(f, x).value = f.value
           /\ IsFrame(WithKey(f, x))
           /\ WithKey(f, x).function = f.function
           /\ WithKey(f, x).at = f.at
           /\ WithKey(f, x).key = x
           /\ WithKey(f, x).value = f.value
           /\ IsFrame(WithValue(f, x))
           /\ WithValue(f, x).function = f.function
           /\ WithValue(f, x).at = f.at
           /\ WithValue(f, x).key = f.key
           /\ WithValue(f, x).value = x
  BY DEF IsFrame, WithAt, WithKey, WithValue

\* What taking up the value does to a frame of each function.
LEMMA FrameFilled ==
    ASSUME NEW f, IsFrame(f), f.function \in {"fromString", "parseArray", "parseObject"},
           NEW w
    PROVE  /\ IsFrame(Filled(f, w))
           /\ Filled(f, w).function = f.function
           /\ Filled(f, w).at = f.at
           /\ Filled(f, w).key = f.key
           /\ f.function = "fromString" => Filled(f, w).value = w
           /\ f.function = "parseArray" => Filled(f, w).value = WithElement(f.value, w)
           /\ f.function = "parseObject" => Filled(f, w).value = WithMember(f.value, f.key, w)
  <1>1. [f EXCEPT !.value = WithElement(@, w)] = [f EXCEPT !.value = WithElement(f.value, w)]
    BY DEF IsFrame
  <1>2. [f EXCEPT !.value = WithMember(@, f.key, w)]
          = [f EXCEPT !.value = WithMember(f.value, f.key, w)]
    BY DEF IsFrame
  <1>3. /\ f.function = "fromString" => Filled(f, w) = WithValue(f, w)
        /\ f.function = "parseArray" => Filled(f, w) = WithValue(f, WithElement(f.value, w))
        /\ f.function = "parseObject" =>
             Filled(f, w) = WithValue(f, WithMember(f.value, f.key, w))
    BY <1>1, <1>2 DEF Filled, WithValue
  <1> QED
    BY <1>3, FrameKept

LEMMA PlainShape ==
    \A open : Shaped(Plain(open), open)
  BY DEF Shaped, Plain

\* The lexemes each function goes on with, and where it goes.
LEMMA GoesFromString ==
    ASSUME NEW f, NEW c, f.function = "fromString", Goes(f, c) # "throws"
    PROVE  \/ f.at = "begin" /\ c = "{" /\ Goes(f, c) = "objectEnd"
           \/ f.at = "begin" /\ c = "[" /\ Goes(f, c) = "arrayEnd"
           \/ f.at = "objectEnd" /\ c = "}" /\ Goes(f, c) = "end"
           \/ f.at = "arrayEnd" /\ c = "]" /\ Goes(f, c) = "end"
  <1>1. Goes(f, c) = FromStringGoes(f.at, c)
    BY DEF Goes
  <1> QED
    BY <1>1 DEF FromStringGoes

LEMMA GoesParseArray ==
    ASSUME NEW f, NEW c, f.function = "parseArray", Goes(f, c) # "throws"
    PROVE  \/ f.at = "val" /\ c = "]" /\ Goes(f, c) = "returns"
           \/ f.at = "val" /\ c \in {"{", "["} /\ Goes(f, c) = "sep"
           \/ f.at = "val" /\ c \in Scalars /\ Goes(f, c) = "sep"
           \/ f.at = "sep" /\ c = "," /\ Goes(f, c) = "val"
           \/ f.at = "sep" /\ c = "]" /\ Goes(f, c) = "returns"
  <1>1. Goes(f, c) = ParseArrayGoes(f.at, c)
    BY DEF Goes
  <1> QED
    BY <1>1 DEF ParseArrayGoes, StartsValue, Scalars, Names

LEMMA GoesParseObject ==
    ASSUME NEW f, NEW c, f.function = "parseObject", Goes(f, c) # "throws"
    PROVE  \/ f.at = "key" /\ c = "}" /\ Goes(f, c) = "returns"
           \/ f.at = "key" /\ c \in Names /\ Goes(f, c) = "sep"
           \/ f.at = "sep" /\ c = ":" /\ Goes(f, c) = "val"
           \/ f.at = "val" /\ c \in {"{", "["} /\ Goes(f, c) = "end"
           \/ f.at = "val" /\ c \in Scalars /\ Goes(f, c) = "end"
           \/ f.at = "end" /\ c = "," /\ Goes(f, c) = "key"
           \/ f.at = "end" /\ c = "}" /\ Goes(f, c) = "returns"
  <1>1. Goes(f, c) = ParseObjectGoes(f.at, c)
    BY DEF Goes
  <1> QED
    BY <1>1 DEF ParseObjectGoes, StartsValue, Scalars, Names

\* The frame of a function that takes lexeme c itself.
Taken(f, c) ==
    LET h == WithAt(f, Goes(f, c)) IN
    CASE f.at = "key" -> WithKey(h, c)
      [] f.at = "val" -> Filled(h, Plain(c))
      [] OTHER        -> h

TakesItself(f, c) == Goes(f, c) \notin {"returns", "throws"} /\ c \notin {"{", "["}

\* A function that takes a lexeme itself has read it.
LEMMA TakeReads ==
    ASSUME NEW f, IsFrame(f), NEW s \in Seq(Lexemes), Reads(f, s), NEW c \in Lexemes,
           TakesItself(f, c), NEW g, g = Taken(f, c)
    PROVE  IsFrame(g) /\ g.function = f.function /\ Reads(g, Append(s, c))
  <1> DEFINE h == WithAt(f, Goes(f, c))
             t == Append(s, c)
  <1>1. /\ IsFrame(h) /\ h.function = f.function /\ h.at = Goes(f, c)
        /\ h.key = f.key /\ h.value = f.value
    BY FrameKept
  <1>2. /\ f.at = "key" => g = WithKey(h, c)
        /\ f.at = "val" => g = Filled(h, Plain(c))
        /\ f.at \notin {"key", "val"} => g = h
    BY DEF Taken
  <1> HIDE DEF h, t
  <1>3. CASE f.function = "fromString" /\ StringReads(f, s)
    <2>1. \/ f.at = "objectEnd" /\ c = "}" /\ Goes(f, c) = "end"
          \/ f.at = "arrayEnd" /\ c = "]" /\ Goes(f, c) = "end"
      BY <1>3, GoesFromString DEF TakesItself
    <2>2. g = h
      BY <1>2, <2>1
    <2>3. \/ Whole(s, h.value, "{", "}") /\ t = Append(s, "}")
          \/ Whole(s, h.value, "[", "]") /\ t = Append(s, "]")
      BY <1>1, <1>3, <2>1 DEF StringReads, t
    <2>4. StringReads(h, t)
      BY <1>1, <2>1, <2>3 DEF StringReads
    <2> QED
      BY <1>1, <1>3, <2>2, <2>4 DEF Reads, t
  <1>4. CASE f.function = "parseArray" /\ ArrayReads(f, s)
    <2>1. \/ f.at = "val" /\ c \in Scalars /\ Goes(f, c) = "sep"
          \/ f.at = "sep" /\ c = "," /\ Goes(f, c) = "val"
      BY <1>4, GoesParseArray DEF TakesItself
    <2>2. CASE f.at = "val" /\ c \in Scalars /\ Goes(f, c) = "sep"
      <3> DEFINE v == WithElement(f.value, Plain(c))
      <3>1. IsFrame(g) /\ g.function = f.function /\ g.at = "sep" /\ g.value = v
        BY <1>1, <1>2, <1>4, <2>2, FrameFilled
      <3>2. BeforeElement(s, f.value) /\ Shaped(f.value, "[")
        BY <1>4, <2>2 DEF ArrayReads
      <3>3. AfterElement(s \o <<c>>, v)
        <4>1. <<c>> \in Seq(Lexemes) /\ IsValue(TRUE, <<c>>, Plain(c))
          BY <2>2, Lexical, ScalarIsValue
        <4> QED
          BY <3>2, <4>1, ElementRead
      <3>4. t = s \o <<c>>
        BY AppendIsConcat DEF t
      <3>5. Shaped(v, "[")
        BY <3>2, ShapeKept
      <3> HIDE DEF v
      <3> QED
        BY <1>4, <3>3, <3>4, <3>1, <3>5 DEF Reads, ArrayReads, t
    <2>3. CASE f.at = "sep" /\ c = "," /\ Goes(f, c) = "val"
      <3>1. g = h
        BY <1>2, <2>3
      <3>2. BeforeElement(t, f.value) /\ Shaped(f.value, "[")
        BY <1>4, <2>3, ArrayGoesOn DEF ArrayReads, t
      <3> QED
        BY <1>1, <1>4, <2>3, <3>1, <3>2 DEF Reads, ArrayReads, t
    <2> QED
      BY <2>1, <2>2, <2>3
  <1>5. CASE f.function = "parseObject" /\ ObjectReads(f, s)
    <2>1. \/ f.at = "key" /\ c \in Names /\ Goes(f, c) = "sep"
          \/ f.at = "sep" /\ c = ":" /\ Goes(f, c) = "val"
          \/ f.at = "val" /\ c \in Scalars /\ Goes(f, c) = "end"
          \/ f.at = "end" /\ c = "," /\ Goes(f, c) = "key"
      BY <1>5, GoesParseObject DEF TakesItself
    <2>2. Shaped(f.value, "{")
      BY <1>5 DEF ObjectReads
    <2>3. CASE f.at = "key" /\ c \in Names /\ Goes(f, c) = "sep"
      <3>1. /\ IsFrame(g) /\ g.function = f.function /\ g.at = "sep" /\ g.key = c
            /\ g.value = f.value
        BY <1>1, <1>2, <2>3, FrameKept
      <3>2. AfterName(t, f.value, c)
        BY <1>5, <2>3, NameRead DEF ObjectReads, t
      <3> QED
        BY <1>5, <2>2, <3>1, <3>2 DEF Reads, ObjectReads, t
    <2>4. CASE f.at = "sep" /\ c = ":" /\ Goes(f, c) = "val"
      <3>1. g = h
        BY <1>2, <2>4
      <3>2. AfterColon(t, f.value, f.key)
        BY <1>5, <2>4, ColonRead DEF ObjectReads, t
      <3> QED
        BY <1>1, <1>5, <2>2, <2>4, <3>1, <3>2 DEF Reads, ObjectReads, t
    <2>5. CASE f.at = "val" /\ c \in Scalars /\ Goes(f, c) = "end"
      <3> DEFINE v == WithMember(f.value, f.key, Plain(c))
      <3>1. IsFrame(g) /\ g.function = f.function /\ g.at = "end" /\ g.value = v
        BY <1>1, <1>2, <1>5, <2>5, FrameFilled
      <3>2. AfterColon(s, f.value, f.key)
        BY <1>5, <2>5 DEF ObjectReads
      <3>3. AfterMember(s \o <<c>>, v)
        <4>1. <<c>> \in Seq(Lexemes) /\ IsValue(TRUE, <<c>>, Plain(c))
          BY <2>5, Lexical, ScalarIsValue
        <4> QED
          BY <3>2, <4>1, MemberRead
      <3>4. t = s \o <<c>>
        BY AppendIsConcat DEF t
      <3>5. Shaped(v, "{")
        BY <2>2, ShapeKept
      <3> HIDE DEF v
      <3> QED
        BY <1>5, <3>3, <3>4, <3>1, <3>5 DEF Reads, ObjectReads, t
    <2>6. CASE f.at = "end" /\ c = "," /\ Goes(f, c) = "key"
      <3>1. g = h
        BY <1>2, <2>6
      <3>2. BeforeMember(t, f.value)
        BY <1>5, <2>6, ObjectGoesOn DEF ObjectReads, t
      <3> QED
        BY <1>1, <1>5, <2>2, <2>6, <3>1, <3>2 DEF Reads, ObjectReads, t
    <2> QED
      BY <2>1, <2>3, <2>4, <2>5, <2>6
  <1> QED
    BY <1>3, <1>4, <1>5 DEF Reads

\* The frame of the function that bracket c calls, and when it does.
Called(c) == IF c = "{" THEN Frame("parseObject", "key", Plain("{"))
                        ELSE Frame("parseArray", "val", Plain("["))

LEMMA CalledFields ==
    /\ IsFrame(Called("{")) /\ Called("{").function = "parseObject"
    /\ Called("{").at = "key" /\ Called("{").value = Plain("{")
    /\ IsFrame(Called("[")) /\ Called("[").function = "parseArray"
    /\ Called("[").at = "val" /\ Called("[").value = Plain("[")
  BY DEF Called, Frame, IsFrame

CallsAnother(f, c) == f.at \in {"begin", "val"} /\ c \in {"{", "["}

\* A function that calls another waits for it, which has read the bracket.
LEMMA CallReads ==
    ASSUME NEW f, IsFrame(f), NEW s \in Seq(Lexemes), Reads(f, s), NEW c \in Lexemes,
           CallsAnother(f, c), NEW g, g = WithAt(f, Goes(f, c))
    PROVE  /\ IsFrame(g) /\ g.function = f.function /\ Waits(g, Called(c).function, s)
           /\ IsFrame(Called(c)) /\ Reads(Called(c), <<c>>)
  <1>1. /\ IsFrame(g) /\ g.function = f.function /\ g.at = Goes(f, c)
        /\ g.key = f.key /\ g.value = f.value
    BY FrameKept
  <1>2. c = "{" \/ c = "["
    BY DEF CallsAnother
  <1>3. IsFrame(Called(c)) /\ Reads(Called(c), <<c>>)
    <2>1. CASE c = "{"
      <3>1. BeforeMember(<<"{">>, Plain("{")) /\ Shaped(Plain("{"), "{")
        BY PlainShape DEF BeforeMember
      <3>2. ObjectReads(Called("{"), <<"{">>)
        BY <3>1, CalledFields DEF ObjectReads
      <3> QED
        BY <2>1, <3>2, CalledFields DEF Reads
    <2>2. CASE c = "["
      <3>1. BeforeElement(<<"[">>, Plain("[")) /\ Shaped(Plain("["), "[")
        BY PlainShape DEF BeforeElement
      <3>2. ArrayReads(Called("["), <<"[">>)
        BY <3>1, CalledFields DEF ArrayReads
      <3> QED
        BY <2>2, <3>2, CalledFields DEF Reads
    <2> QED
      BY <1>2, <2>1, <2>2
  <1>4. \/ c = "{" /\ Called(c).function = "parseObject"
        \/ c = "[" /\ Called(c).function = "parseArray"
    BY <1>2, CalledFields
  <1>5. CASE f.function = "fromString" /\ StringReads(f, s)
    <2>1. f.at = "begin" /\ s = <<>>
      BY <1>5 DEF StringReads, CallsAnother
    <2>2. \/ c = "{" /\ Goes(f, c) = "objectEnd"
          \/ c = "[" /\ Goes(f, c) = "arrayEnd"
      BY <1>2, <1>5, <2>1 DEF Goes, FromStringGoes
    <2> QED
      BY <1>1, <1>3, <1>4, <1>5, <2>1, <2>2 DEF Waits
  <1>6. CASE f.function = "parseArray" /\ ArrayReads(f, s)
    <2>1. f.at = "val" /\ BeforeElement(s, f.value) /\ Shaped(f.value, "[")
      BY <1>6 DEF ArrayReads, CallsAnother
    <2>2. Goes(f, c) = "sep"
      BY <1>2, <1>6, <2>1 DEF Goes, ParseArrayGoes, StartsValue
    <2> QED
      BY <1>1, <1>3, <1>4, <1>6, <2>1, <2>2 DEF Waits
  <1>7. CASE f.function = "parseObject" /\ ObjectReads(f, s)
    <2>1. f.at = "val" /\ AfterColon(s, f.value, f.key) /\ Shaped(f.value, "{")
      BY <1>7 DEF ObjectReads, CallsAnother
    <2>2. Goes(f, c) = "end"
      BY <1>2, <1>7, <2>1 DEF Goes, ParseObjectGoes, StartsValue
    <2> QED
      BY <1>1, <1>3, <1>4, <1>7, <2>1, <2>2 DEF Waits
  <1> QED
    BY <1>5, <1>6, <1>7 DEF Reads

\* A function that returns has read the whole of the value it gives.
LEMMA ReturnsWhole ==
    ASSUME NEW g, NEW t \in Seq(Lexemes), Reads(g, t), NEW c \in Lexemes,
           Goes(g, c) = "returns"
    PROVE  \/ g.function = "parseArray" /\ Whole(Append(t, c), g.value, "[", "]")
           \/ g.function = "parseObject" /\ Whole(Append(t, c), g.value, "{", "}")
  <1>1. Goes(g, c) # "throws"
    OBVIOUS
  <1>2. CASE g.function = "fromString"
    BY <1>1, <1>2, GoesFromString
  <1>3. CASE g.function = "parseArray" /\ ArrayReads(g, t)
    <2>1. c = "]" /\ g.at \in {"val", "sep"}
      BY <1>1, <1>3, GoesParseArray
    <2>2. /\ BeforeElement(t, g.value) \/ AfterElement(t, g.value)
          /\ Shaped(g.value, "[")
      BY <1>3 DEF ArrayReads
    <2>3. IsValue(TRUE, Append(t, "]"), g.value)
      BY <2>2, ArrayRead
    <2> QED
      BY <1>3, <2>1, <2>2, <2>3 DEF Whole
  <1>4. CASE g.function = "parseObject" /\ ObjectReads(g, t)
    <2>1. c = "}" /\ g.at \in {"key", "end"}
      BY <1>1, <1>4, GoesParseObject
    <2>2. /\ BeforeMember(t, g.value) \/ AfterMember(t, g.value)
          /\ Shaped(g.value, "{")
      BY <1>4, <2>1 DEF ObjectReads
    <2>3. IsValue(TRUE, Append(t, "}"), g.value)
      BY <2>2, ObjectRead
    <2> QED
      BY <1>4, <2>1, <2>2, <2>3 DEF Whole
  <1> QED
    BY <1>2, <1>3, <1>4 DEF Reads

\* A function that has waited for a value has read it.
LEMMA ReturnReads ==
    ASSUME NEW f, IsFrame(f), NEW s \in Seq(Lexemes), NEW function, Waits(f, function, s),
           NEW t \in Seq(Lexemes), NEW w,
           \/ function = "parseArray" /\ Whole(t, w, "[", "]")
           \/ function = "parseObject" /\ Whole(t, w, "{", "}")
    PROVE  IsFrame(Filled(f, w)) /\ Filled(f, w).function = f.function
           /\ Reads(Filled(f, w), s \o t)
  <1> DEFINE g == Filled(f, w)
  <1>1. f.function \in {"fromString", "parseArray", "parseObject"}
    BY DEF Waits
  <1>2. /\ IsFrame(g) /\ g.function = f.function /\ g.at = f.at /\ g.key = f.key
        /\ f.function = "fromString" => g.value = w
        /\ f.function = "parseArray" => g.value = WithElement(f.value, w)
        /\ f.function = "parseObject" => g.value = WithMember(f.value, f.key, w)
    BY <1>1, FrameFilled
  <1> HIDE DEF g
  <1>3. IsValue(TRUE, t, w)
    BY DEF Whole
  <1>4. CASE f.function = "fromString"
    <2>1. \/ s = <<>> /\ f.at = "objectEnd" /\ function = "parseObject"
          \/ s = <<>> /\ f.at = "arrayEnd" /\ function = "parseArray"
      BY <1>4 DEF Waits
    <2>2. s \o t = t
      BY <2>1, ConcatEmptySeq
    <2>3. StringReads(g, s \o t)
      BY <1>2, <1>4, <2>1, <2>2 DEF StringReads
    <2> QED
      BY <1>2, <1>4, <2>3 DEF Reads, g
  <1>5. CASE f.function = "parseArray"
    <2>1. f.at = "sep" /\ Shaped(f.value, "[") /\ BeforeElement(s, f.value)
      BY <1>5 DEF Waits
    <2>2. AfterElement(s \o t, g.value) /\ Shaped(g.value, "[")
      BY <1>2, <1>3, <1>5, <2>1, ElementRead, ShapeKept
    <2> QED
      BY <1>2, <1>5, <2>1, <2>2 DEF Reads, ArrayReads, g
  <1>6. CASE f.function = "parseObject"
    <2>1. f.at = "end" /\ Shaped(f.value, "{") /\ AfterColon(s, f.value, f.key)
      BY <1>6 DEF Waits
    <2>2. AfterMember(s \o t, g.value) /\ Shaped(g.value, "{")
      BY <1>2, <1>3, <1>6, <2>1, MemberRead, ShapeKept
    <2> QED
      BY <1>2, <1>6, <2>1, <2>2 DEF Reads, ObjectReads, g
  <1> QED
    BY <1>1, <1>4, <1>5, <1>6

-----------------------------------------------------------------------------
(* The stack of calls.                                                     *)

Stack(fs) ==
    /\ \E S : fs \in Seq(S)
    /\ Len(fs) >= 1
    /\ fs[1].function = "fromString"
    /\ \A i \in 1 .. Len(fs) : IsFrame(fs[i])

\* Text txt consists of the parts that the calls have read: part[i] is that
\* of call i, and before[i] what was read before it was called.
LinkedBy(fs, txt, before, part) ==
    /\ before \in [1 .. Len(fs) -> Seq(Lexemes)]
    /\ part \in [1 .. Len(fs) -> Seq(Lexemes)]
    /\ before[1] = <<>>
    /\ \A i \in 1 .. Len(fs) - 1 :
         /\ before[i + 1] = before[i] \o part[i]
         /\ Waits(fs[i], fs[i + 1].function, part[i])
    /\ txt = before[Len(fs)] \o part[Len(fs)]
    /\ Reads(fs[Len(fs)], part[Len(fs)])

Linked(fs, txt) == Stack(fs) /\ \E before, part : LinkedBy(fs, txt, before, part)

\* The innermost frame of a stack, replaced and called from.
LEMMA Replaced ==
    ASSUME NEW fs, Stack(fs), NEW g
    PROVE  /\ \E S : Append(Front(fs), g) \in Seq(S)
           /\ Len(Append(Front(fs), g)) = Len(fs)
           /\ \A i \in 1 .. Len(fs) - 1 : Append(Front(fs), g)[i] = fs[i]
           /\ Append(Front(fs), g)[Len(fs)] = g
           /\ Last(fs) = fs[Len(fs)] /\ Len(fs) \in Nat
  <1>1. PICK S : fs \in Seq(S)
    BY DEF Stack
  <1>2. fs # <<>> /\ Len(fs) >= 1 /\ Len(fs) \in Nat
    BY <1>1 DEF Stack
  <1> DEFINE T == S \cup {g}
             r == Front(fs)
  <1>3. r \in Seq(T) /\ Len(r) = Len(fs) - 1 /\ \A i \in 1 .. Len(fs) - 1 : r[i] = fs[i]
    <2>1. r \in Seq(S) /\ Len(r) = Len(fs) - 1 /\ \A i \in 1 .. Len(fs) - 1 : r[i] = fs[i]
      BY <1>1, <1>2, FrontProperties
    <2> QED
      BY <2>1, SeqMonotonic
  <1>4. g \in T
    OBVIOUS
  <1> HIDE DEF r, T
  <1>5. /\ Append(r, g) \in Seq(T)
        /\ Len(Append(r, g)) = Len(fs)
        /\ \A i \in 1 .. Len(fs) - 1 : Append(r, g)[i] = fs[i]
        /\ Append(r, g)[Len(fs)] = g
    BY <1>2, <1>3, <1>4, AppendProperties
  <1>6. Last(fs) = fs[Len(fs)]
    BY DEF Last
  <1> QED
    BY <1>2, <1>5, <1>6 DEF r

LEMMA Pushed ==
    ASSUME NEW fs, NEW S, fs \in Seq(S), NEW g
    PROVE  /\ \E T : Append(fs, g) \in Seq(T)
           /\ Len(Append(fs, g)) = Len(fs) + 1
           /\ \A i \in 1 .. Len(fs) : Append(fs, g)[i] = fs[i]
           /\ Append(fs, g)[Len(fs) + 1] = g
  <1> DEFINE T == S \cup {g}
  <1>1. fs \in Seq(T)
    BY SeqMonotonic
  <1>2. g \in T
    OBVIOUS
  <1> HIDE DEF T
  <1> QED
    BY <1>1, <1>2, AppendProperties

LEMMA Ended ==
    ASSUME NEW a \in Seq(Lexemes), NEW b \in Seq(Lexemes), NEW c \in Lexemes
    PROVE  /\ Append(a \o b, c) = a \o Append(b, c)
           /\ Append(b, c) \in Seq(Lexemes)
           /\ a \o b \in Seq(Lexemes)
           /\ Append(a, c) = a \o <<c>>
  <1> DEFINE z == <<c>>
  <1>1. z \in Seq(Lexemes)
    OBVIOUS
  <1>2. /\ Append(b, c) = b \o z /\ Append(a, c) = a \o z
        /\ a \o b \in Seq(Lexemes) /\ Append(b, c) \in Seq(Lexemes)
    BY AppendIsConcat
  <1>3. Append(a \o b, c) = (a \o b) \o z
    BY <1>2, AppendIsConcat
  <1> HIDE DEF z
  <1>4. (a \o b) \o z = a \o (b \o z)
    BY <1>1
  <1> QED
    BY <1>2, <1>3, <1>4 DEF z

LEMMA EndedBehind ==
    ASSUME NEW a \in Seq(Lexemes), NEW b \in Seq(Lexemes), NEW p \in Seq(Lexemes),
           NEW c \in Lexemes
    PROVE  /\ Append((a \o b) \o p, c) = a \o (b \o Append(p, c))
           /\ b \o Append(p, c) \in Seq(Lexemes)
  <1> DEFINE t == Append(p, c)
             ab == a \o b
  <1>1. ab \in Seq(Lexemes)
    OBVIOUS
  <1>2. t \in Seq(Lexemes)
    OBVIOUS
  <1> HIDE DEF ab
  <1>3. Append(ab \o p, c) = ab \o Append(p, c)
    BY <1>1, Ended
  <1> HIDE DEF t
  <1>4. (a \o b) \o t = a \o (b \o t) /\ b \o t \in Seq(Lexemes)
    BY <1>2, Joined
  <1> QED
    BY <1>3, <1>4 DEF t, ab

LEMMA LastPut ==
    ASSUME NEW n \in Nat, n >= 1, NEW F \in [1 .. n -> Seq(Lexemes)], NEW x \in Seq(Lexemes)
    PROVE  /\ [F EXCEPT ![n] = x] \in [1 .. n -> Seq(Lexemes)]
           /\ [F EXCEPT ![n] = x][n] = x
           /\ \A i \in 1 .. n - 1 : [F EXCEPT ![n] = x][i] = F[i]
  <1>1. n \in 1 .. n /\ \A i \in 1 .. n - 1 : i \in 1 .. n /\ i # n
    OBVIOUS
  <1> QED
    BY <1>1

LEMMA TakeKeeps ==
    ASSUME NEW fs, NEW txt, Linked(fs, txt), NEW c \in Lexemes, TakesItself(Last(fs), c)
    PROVE  Linked(Append(Front(fs), Taken(Last(fs), c)), Append(txt, c))
  <1> DEFINE n == Len(fs)
             f == fs[n]
             g == Taken(f, c)
             es == Append(Front(fs), g)
  <1>1. PICK before, part : LinkedBy(fs, txt, before, part)
    BY DEF Linked
  <1>2. /\ \E S : es \in Seq(S)
        /\ Len(es) = n /\ n \in Nat /\ n >= 1
        /\ \A i \in 1 .. n - 1 : es[i] = fs[i]
        /\ es[n] = g
        /\ Last(fs) = f
        /\ fs[1].function = "fromString" /\ \A i \in 1 .. n : IsFrame(fs[i])
    <2>1. Stack(fs)
      BY DEF Linked
    <2>2. n \in Nat /\ n >= 1 /\ fs[1].function = "fromString" /\ \A i \in 1 .. n : IsFrame(fs[i])
      BY <2>1, Replaced DEF Stack
    <2> HIDE DEF g
    <2>3. \E S : es \in Seq(S)
      BY <2>1, Replaced
    <2>4. Len(es) = n /\ (\A i \in 1 .. n - 1 : es[i] = fs[i]) /\ es[n] = g /\ Last(fs) = f
      BY <2>1, Replaced
    <2> HIDE DEF es, n, f
    <2> QED
      BY <2>2, <2>3, <2>4
  <1> DEFINE t == Append(part[n], c)
             newPart == [part EXCEPT ![n] = t]
  <1> HIDE DEF es, n
  <1>3. /\ before \in [1 .. n -> Seq(Lexemes)] /\ part \in [1 .. n -> Seq(Lexemes)]
        /\ before[n] \in Seq(Lexemes) /\ part[n] \in Seq(Lexemes)
        /\ txt = before[n] \o part[n] /\ Reads(f, part[n])
        /\ before[1] = <<>>
        /\ \A i \in 1 .. n - 1 : /\ before[i + 1] = before[i] \o part[i]
                                 /\ Waits(fs[i], fs[i + 1].function, part[i])
    BY <1>1, <1>2 DEF LinkedBy, n
  <1>4. IsFrame(g) /\ g.function = f.function /\ Reads(g, t)
    <2>1. IsFrame(f) /\ TakesItself(f, c) /\ part[n] \in Seq(Lexemes) /\ Reads(f, part[n])
      BY <1>2, <1>3
    <2> HIDE DEF f
    <2> QED
      BY <2>1, TakeReads
  <1> HIDE DEF g
  <1>5. Append(txt, c) = before[n] \o t /\ t \in Seq(Lexemes)
    BY <1>3, Ended
  <1> HIDE DEF t
  <1>6. /\ newPart \in [1 .. n -> Seq(Lexemes)] /\ newPart[n] = t
        /\ \A i \in 1 .. n - 1 : newPart[i] = part[i]
    <2>1. n \in Nat /\ n >= 1 /\ part \in [1 .. n -> Seq(Lexemes)] /\ t \in Seq(Lexemes)
      BY <1>2, <1>3, <1>5
    <2> HIDE DEF f
    <2> QED
      BY <2>1, LastPut
  <1> HIDE DEF newPart
  <1>7. \A i \in 1 .. n - 1 : es[i + 1].function = fs[i + 1].function
    BY <1>2, <1>4
  <1>8. \A i \in 1 .. n - 1 : Waits(es[i], es[i + 1].function, newPart[i])
    BY <1>2, <1>3, <1>6, <1>7
  <1>9. LinkedBy(es, Append(txt, c), before, newPart)
    <2>1. \A i \in 1 .. n - 1 : before[i + 1] = before[i] \o newPart[i]
      BY <1>3, <1>6
    <2> HIDE DEF f
    <2> QED
      BY <1>2, <1>3, <1>4, <1>5, <1>6, <1>8, <2>1 DEF LinkedBy
  <1>10. Stack(es)
    BY <1>2, <1>4 DEF Stack
  <1> QED
    BY <1>2, <1>9, <1>10 DEF Linked, es, g

LEMMA Longer ==
    ASSUME NEW n \in Nat, NEW F \in [1 .. n -> Seq(Lexemes)], NEW x \in Seq(Lexemes),
           NEW G, G = [i \in 1 .. n + 1 |-> IF i = n + 1 THEN x ELSE F[i]]
    PROVE  /\ G \in [1 .. n + 1 -> Seq(Lexemes)]
           /\ G[n + 1] = x
           /\ \A i \in 1 .. n : G[i] = F[i]
  <1>1. \A i \in 1 .. n + 1 : i # n + 1 => i \in 1 .. n
    OBVIOUS
  <1> QED
    BY <1>1

LEMMA Shorter ==
    ASSUME NEW n \in Nat, NEW F \in [1 .. n -> Seq(Lexemes)], NEW k \in 1 .. n,
           NEW x \in Seq(Lexemes), NEW G, G = [i \in 1 .. k |-> IF i = k THEN x ELSE F[i]]
    PROVE  /\ G \in [1 .. k -> Seq(Lexemes)]
           /\ G[k] = x
           /\ \A i \in 1 .. k - 1 : G[i] = F[i]
  <1>1. \A i \in 1 .. k : i \in 1 .. n
    OBVIOUS
  <1> QED
    BY <1>1

LEMMA CallKeeps ==
    ASSUME NEW fs, NEW txt, Linked(fs, txt), NEW c \in Lexemes, CallsAnother(Last(fs), c)
    PROVE  Linked(Append(Append(Front(fs), WithAt(Last(fs), Goes(Last(fs), c))), Called(c)),
                  Append(txt, c))
  <1> DEFINE n == Len(fs)
             f == fs[n]
             g == WithAt(f, Goes(f, c))
             h == Called(c)
             ds == Append(Front(fs), g)
             es == Append(ds, h)
  <1>1. PICK before, part : LinkedBy(fs, txt, before, part)
    BY DEF Linked
  <1>2. /\ \E S : es \in Seq(S)
        /\ Len(es) = n + 1 /\ n \in Nat /\ n >= 1
        /\ \A i \in 1 .. n - 1 : es[i] = fs[i]
        /\ es[n] = g /\ es[n + 1] = h
        /\ Last(fs) = f
        /\ fs[1].function = "fromString" /\ \A i \in 1 .. n : IsFrame(fs[i])
    <2>1. Stack(fs)
      BY DEF Linked
    <2>2. n \in Nat /\ n >= 1 /\ fs[1].function = "fromString" /\ \A i \in 1 .. n : IsFrame(fs[i])
      BY <2>1, Replaced DEF Stack
    <2> HIDE DEF g, h
    <2>3. \E S : ds \in Seq(S)
      BY <2>1, Replaced
    <2>4. Len(ds) = n /\ (\A i \in 1 .. n - 1 : ds[i] = fs[i]) /\ ds[n] = g /\ Last(fs) = f
      BY <2>1, Replaced
    <2> HIDE DEF ds, n, f
    <2>5. PICK S : ds \in Seq(S)
      BY <2>3
    <2>6. \E T : es \in Seq(T)
      BY <2>5, Pushed
    <2>7. Len(es) = n + 1 /\ (\A i \in 1 .. n : es[i] = ds[i]) /\ es[n + 1] = h
      BY <2>4, <2>5, Pushed
    <2> HIDE DEF es
    <2> QED
      BY <2>2, <2>4, <2>6, <2>7
  <1>0. n \in Nat /\ n >= 1
    BY <1>2
  <1> DEFINE z == <<c>>
             newBefore == [i \in 1 .. n + 1 |-> IF i = n + 1 THEN txt ELSE before[i]]
             newPart == [i \in 1 .. n + 1 |-> IF i = n + 1 THEN z ELSE part[i]]
  <1> HIDE DEF es, n
  <1>3. /\ before \in [1 .. n -> Seq(Lexemes)] /\ part \in [1 .. n -> Seq(Lexemes)]
        /\ before[n] \in Seq(Lexemes) /\ part[n] \in Seq(Lexemes)
        /\ txt = before[n] \o part[n] /\ Reads(f, part[n])
        /\ before[1] = <<>>
        /\ \A i \in 1 .. n - 1 : /\ before[i + 1] = before[i] \o part[i]
                                 /\ Waits(fs[i], fs[i + 1].function, part[i])
    BY <1>0, <1>1 DEF LinkedBy, n
  <1>4. /\ IsFrame(g) /\ g.function = f.function /\ Waits(g, h.function, part[n])
        /\ IsFrame(h) /\ Reads(h, z)
    <2>1. IsFrame(f) /\ CallsAnother(f, c) /\ part[n] \in Seq(Lexemes) /\ Reads(f, part[n])
      BY <1>2, <1>3
    <2> HIDE DEF f
    <2> QED
      BY <2>1, CallReads
  <1>5. Append(txt, c) = txt \o z /\ txt \in Seq(Lexemes) /\ z \in Seq(Lexemes)
    BY <1>3, Ended
  <1> HIDE DEF g, h, z
  <1>6. /\ newBefore \in [1 .. n + 1 -> Seq(Lexemes)] /\ newPart \in [1 .. n + 1 -> Seq(Lexemes)]
        /\ newBefore[n + 1] = txt /\ newPart[n + 1] = z
        /\ \A i \in 1 .. n : newBefore[i] = before[i] /\ newPart[i] = part[i]
    <2>1. before \in [1 .. n -> Seq(Lexemes)] /\ part \in [1 .. n -> Seq(Lexemes)]
      BY <1>3
    <2> HIDE DEF newBefore, newPart
    <2>2. /\ newBefore = [i \in 1 .. n + 1 |-> IF i = n + 1 THEN txt ELSE before[i]]
          /\ newPart = [i \in 1 .. n + 1 |-> IF i = n + 1 THEN z ELSE part[i]]
      BY DEF newBefore, newPart
    <2>3. /\ newBefore \in [1 .. n + 1 -> Seq(Lexemes)] /\ newBefore[n + 1] = txt
          /\ \A i \in 1 .. n : newBefore[i] = before[i]
      BY <1>0, <1>5, <2>1, <2>2, Longer
    <2>4. /\ newPart \in [1 .. n + 1 -> Seq(Lexemes)] /\ newPart[n + 1] = z
          /\ \A i \in 1 .. n : newPart[i] = part[i]
      BY <1>0, <1>5, <2>1, <2>2, Longer
    <2> QED
      BY <2>3, <2>4
  <1> HIDE DEF newBefore, newPart
  <1>7. \A i \in 1 .. n - 1 : es[i + 1].function = fs[i + 1].function
    BY <1>2, <1>4
  <1>8. ASSUME NEW i \in 1 .. n
        PROVE  /\ newBefore[i + 1] = newBefore[i] \o newPart[i]
               /\ Waits(es[i], es[i + 1].function, newPart[i])
    <2>1. CASE i = n
      BY <1>2, <1>3, <1>4, <1>6, <2>1
    <2>2. CASE i # n
      <3>1. i \in 1 .. n - 1 /\ i + 1 \in 1 .. n
        BY <1>2, <2>2
      <3> QED
        BY <1>2, <1>3, <1>6, <1>7, <3>1
    <2> QED
      BY <2>1, <2>2
  <1>9. LinkedBy(es, Append(txt, c), newBefore, newPart)
    <2>1. Len(es) = n + 1 /\ (n + 1) - 1 = n /\ newBefore[1] = <<>>
      BY <1>2, <1>3, <1>6
    <2>2. Append(txt, c) = newBefore[n + 1] \o newPart[n + 1] /\ Reads(es[n + 1], newPart[n + 1])
      BY <1>2, <1>4, <1>5, <1>6
    <2> QED
      BY <1>6, <1>8, <2>1, <2>2 DEF LinkedBy
  <1>10. Stack(es)
    BY <1>2, <1>4 DEF Stack
  <1> QED
    BY <1>2, <1>9, <1>10 DEF Linked, es, g, h

LEMMA ReturnKeeps ==
    ASSUME NEW fs, NEW txt, Linked(fs, txt), NEW c \in Lexemes, Goes(Last(fs), c) = "returns"
    PROVE  Linked(Append(Front(Front(fs)), Filled(Last(Front(fs)), Last(fs).value)),
                  Append(txt, c))
  <1> DEFINE n == Len(fs)
             f == fs[n - 1]
             g == fs[n]
             ds == Front(fs)
             h == Filled(f, g.value)
             es == Append(Front(ds), h)
  <1>1. PICK before, part : LinkedBy(fs, txt, before, part)
    BY DEF Linked
  <1>2. PICK S : fs \in Seq(S)
    BY DEF Linked, Stack
  <1>3. /\ n \in Nat /\ n >= 1 /\ Last(fs) = g
        /\ fs[1].function = "fromString" /\ \A i \in 1 .. n : IsFrame(fs[i])
    BY Replaced DEF Linked, Stack
  <1>4. /\ before \in [1 .. n -> Seq(Lexemes)] /\ part \in [1 .. n -> Seq(Lexemes)]
        /\ txt = before[n] \o part[n] /\ Reads(g, part[n])
        /\ before[1] = <<>>
        /\ \A i \in 1 .. n - 1 : /\ before[i + 1] = before[i] \o part[i]
                                 /\ Waits(fs[i], fs[i + 1].function, part[i])
    BY <1>1 DEF LinkedBy
  <1> DEFINE t == Append(part[n], c)
  <1>5. \/ g.function = "parseArray" /\ Whole(t, g.value, "[", "]")
        \/ g.function = "parseObject" /\ Whole(t, g.value, "{", "}")
    <2>1. part[n] \in Seq(Lexemes) /\ Reads(g, part[n]) /\ Goes(g, c) = "returns"
      BY <1>3, <1>4
    <2> HIDE DEF g
    <2> QED
      BY <2>1, ReturnsWhole
  <1>6. n >= 2
    <2>1. g.function # "fromString"
      BY <1>5
    <2>2. n # 1
      BY <1>3, <2>1
    <2>3. n \in Nat /\ n >= 1
      BY <1>3
    <2> HIDE DEF n
    <2> QED
      BY <2>2, <2>3
  <1>7. /\ \E T : es \in Seq(T)
        /\ Len(es) = n - 1
        /\ \A i \in 1 .. n - 2 : es[i] = fs[i]
        /\ es[n - 1] = h
        /\ Last(ds) = f
    <2>1. ds \in Seq(S) /\ Len(ds) = n - 1 /\ \A i \in 1 .. n - 1 : ds[i] = fs[i]
      BY <1>2, <1>3, FrontProperties
    <2>2. Stack(ds)
      <3> HIDE DEF ds, n
      <3> QED
        BY <1>3, <1>6, <2>1 DEF Stack
    <2> HIDE DEF h
    <2>3. \E T : es \in Seq(T)
      BY <2>2, Replaced
    <2>4. /\ Len(es) = Len(ds) /\ (\A i \in 1 .. Len(ds) - 1 : es[i] = ds[i])
          /\ es[Len(ds)] = h /\ Last(ds) = ds[Len(ds)]
      BY <2>2, Replaced
    <2> HIDE DEF es, ds, n
    <2> QED
      BY <1>3, <1>6, <2>1, <2>3, <2>4
  <1> DEFINE u == part[n - 1] \o t
             newPart == [i \in 1 .. n - 1 |-> IF i = n - 1 THEN u ELSE part[i]]
             newBefore == [i \in 1 .. n - 1 |-> IF i = n - 1 THEN before[n - 1] ELSE before[i]]
  <1> HIDE DEF es, n
  <1>8. /\ before[n - 1] \in Seq(Lexemes) /\ part[n - 1] \in Seq(Lexemes)
        /\ part[n] \in Seq(Lexemes) /\ t \in Seq(Lexemes)
        /\ before[n] = before[n - 1] \o part[n - 1]
        /\ Waits(f, g.function, part[n - 1])
    <2>1. n - 1 \in 1 .. n - 1 /\ (n - 1) + 1 = n
      BY <1>3, <1>6
    <2>2. /\ before[n - 1] \in Seq(Lexemes) /\ part[n - 1] \in Seq(Lexemes)
          /\ part[n] \in Seq(Lexemes)
      <3>1. n \in Nat /\ n - 1 \in 1 .. n /\ n \in 1 .. n
        BY <1>3, <1>6
      <3>2. before \in [1 .. n -> Seq(Lexemes)] /\ part \in [1 .. n -> Seq(Lexemes)]
        BY <1>4
      <3> QED
        BY <3>1, <3>2
    <2>3. before[n] = before[n - 1] \o part[n - 1] /\ Waits(f, g.function, part[n - 1])
      BY <1>4, <2>1
    <2> QED
      BY <2>2, <2>3, Ended
  <1>9. IsFrame(h) /\ h.function = f.function /\ Reads(h, u)
    <2>1. IsFrame(f)
      BY <1>3, <1>6
    <2> HIDE DEF f, g, t
    <2> QED
      BY <1>5, <1>8, <2>1, ReturnReads
  <1>10. Append(txt, c) = before[n - 1] \o u /\ u \in Seq(Lexemes)
    <2>1. txt = (before[n - 1] \o part[n - 1]) \o part[n]
      BY <1>4, <1>8
    <2>2. /\ Append((before[n - 1] \o part[n - 1]) \o part[n], c)
               = before[n - 1] \o (part[n - 1] \o Append(part[n], c))
          /\ part[n - 1] \o Append(part[n], c) \in Seq(Lexemes)
      <3>1. /\ before[n - 1] \in Seq(Lexemes) /\ part[n - 1] \in Seq(Lexemes)
            /\ part[n] \in Seq(Lexemes)
        BY <1>8
      <3> HIDE DEF f, g, t, u
      <3> QED
        BY <3>1, EndedBehind
    <2> QED
      BY <2>1, <2>2
  <1> HIDE DEF h, t, u
  <1>11. /\ newPart \in [1 .. n - 1 -> Seq(Lexemes)] /\ newBefore \in [1 .. n - 1 -> Seq(Lexemes)]
         /\ newPart[n - 1] = u
         /\ \A i \in 1 .. n - 2 : newPart[i] = part[i]
         /\ \A i \in 1 .. n - 1 : newBefore[i] = before[i]
    <2>0. n \in Nat /\ n - 1 \in 1 .. n /\ (n - 1) - 1 = n - 2
      BY <1>3, <1>6
    <2>1. before \in [1 .. n -> Seq(Lexemes)] /\ part \in [1 .. n -> Seq(Lexemes)]
      BY <1>4
    <2> HIDE DEF newBefore, newPart
    <2>2. /\ newBefore = [i \in 1 .. n - 1 |-> IF i = n - 1 THEN before[n - 1] ELSE before[i]]
          /\ newPart = [i \in 1 .. n - 1 |-> IF i = n - 1 THEN u ELSE part[i]]
      BY DEF newBefore, newPart
    <2>5. before[n - 1] \in Seq(Lexemes)
      BY <1>8
    <2>3. /\ newBefore \in [1 .. n - 1 -> Seq(Lexemes)] /\ newBefore[n - 1] = before[n - 1]
          /\ \A i \in 1 .. n - 2 : newBefore[i] = before[i]
      BY <2>0, <2>1, <2>2, <2>5, Shorter
    <2>4. /\ newPart \in [1 .. n - 1 -> Seq(Lexemes)] /\ newPart[n - 1] = u
          /\ \A i \in 1 .. n - 2 : newPart[i] = part[i]
      BY <1>10, <2>0, <2>1, <2>2, Shorter
    <2>6. ASSUME NEW i \in 1 .. n - 1 PROVE newBefore[i] = before[i]
      <3>1. i = n - 1 \/ i \in 1 .. n - 2
        BY <2>0
      <3> QED
        BY <2>3, <3>1
    <2> QED
      BY <2>3, <2>4, <2>6
  <1> HIDE DEF newPart, newBefore
  <1>12. \A i \in 1 .. n - 2 : es[i + 1].function = fs[i + 1].function
    BY <1>3, <1>6, <1>7, <1>9
  <1>13. ASSUME NEW i \in 1 .. n - 2
         PROVE  /\ newBefore[i + 1] = newBefore[i] \o newPart[i]
                /\ Waits(es[i], es[i + 1].function, newPart[i])
    <2>1. i \in 1 .. n - 1 /\ i + 1 \in 1 .. n - 1
      BY <1>3, <1>6
    <2> QED
      BY <1>4, <1>7, <1>11, <1>12, <2>1
  <1>14. LinkedBy(es, Append(txt, c), newBefore, newPart)
    <2>1. 1 \in 1 .. n - 1 /\ n - 1 \in 1 .. n - 1 /\ (n - 1) - 1 = n - 2
      BY <1>3, <1>6
    <2>2. newBefore[1] = <<>>
      BY <1>4, <1>11, <2>1
    <2>3. Append(txt, c) = newBefore[n - 1] \o newPart[n - 1]
      BY <1>10, <1>11, <2>1
    <2>4. Reads(es[n - 1], newPart[n - 1])
      BY <1>7, <1>9, <1>11
    <2>5. Len(es) = n - 1 /\ Len(es) - 1 = n - 2
      BY <1>7, <2>1
    <2> QED
      BY <1>11, <1>13, <2>2, <2>3, <2>4, <2>5 DEF LinkedBy
  <1>15. Stack(es)
    <2>1. es[1].function = "fromString"
      BY <1>3, <1>6, <1>7, <1>9
    <2>2. \A i \in 1 .. n - 1 : IsFrame(es[i])
      BY <1>3, <1>6, <1>7, <1>9
    <2> QED
      BY <1>3, <1>6, <1>7, <2>1, <2>2 DEF Stack
  <1> QED
    BY <1>3, <1>7, <1>14, <1>15 DEF Linked, es, h

-----------------------------------------------------------------------------
(* The parser accepts only documents.                                      *)

SoundInv ==
    /\ text \in Seq(Lexemes) /\ Len(text) <= MaxLength
    /\ status \in {"reading", "returned"} => Linked(frames, text)
    /\ status = "returned" => Len(frames) = 1

LEMMA SoundInitially ==
    Init => SoundInv
  <1> SUFFICES ASSUME Init PROVE SoundInv
    OBVIOUS
  <1> DEFINE f == Frame("fromString", "begin", Plain("null"))
             none == [i \in 1 .. 1 |-> <<>>]
  <1>1. IsFrame(f) /\ f.function = "fromString" /\ f.at = "begin" /\ f.value = Plain("null")
    BY DEF Frame, IsFrame
  <1>2. frames = <<f>> /\ text = <<>> /\ status = "reading"
    BY DEF Init
  <1>3. Reads(f, <<>>)
    BY <1>1 DEF Reads, StringReads
  <1>4. none \in [1 .. 1 -> Seq(Lexemes)] /\ none[1] = <<>>
    OBVIOUS
  <1> HIDE DEF f, none
  <1>5. /\ \E S : frames \in Seq(S)
        /\ Len(frames) = 1 /\ frames[1] = f
    <2>1. <<f>> \in Seq({f}) /\ Len(<<f>>) = 1 /\ <<f>>[1] = f
      OBVIOUS
    <2> QED
      BY <1>2, <2>1
  <1>6. <<>> \o <<>> = <<>>
    OBVIOUS
  <1>7. LinkedBy(frames, text, none, none)
    BY <1>2, <1>3, <1>4, <1>5, <1>6 DEF LinkedBy
  <1>8. Linked(frames, text)
    BY <1>1, <1>5, <1>7 DEF Linked, Stack
  <1>9. text \in Seq(Lexemes) /\ Len(text) <= MaxLength
    BY <1>2, JsonAssumption
  <1> QED
    BY <1>2, <1>8, <1>9 DEF SoundInv

LEMMA SoundStep ==
    SoundInv /\ [Next]_vars => SoundInv'
  <1> SUFFICES ASSUME SoundInv, [Next]_vars PROVE SoundInv'
    OBVIOUS
  <1>1. ASSUME NEW c \in Lexemes, Read(c) PROVE SoundInv'
    <2>1. /\ text' \in Seq(Lexemes) /\ Len(text') <= MaxLength
          /\ text' = Append(text, c) /\ Linked(frames, text)
      BY <1>1, JsonAssumption DEF Read, SoundInv
    <2>2. CASE Calls(c) /\ status' = "reading"
      <3>1. CallsAnother(Last(frames), c)
        BY <2>2 DEF Calls, Callee, CallsAnother
      <3>2. frames' = Append(Append(Front(frames),
                                WithAt(Last(frames), Goes(Last(frames), c))), Called(c))
        BY <2>2 DEF Calls, Callee, Caller, WithAt, Called
      <3>3. Linked(frames', text')
        BY <2>1, <3>1, <3>2, CallKeeps
      <3> QED
        BY <2>1, <2>2, <3>3 DEF SoundInv
    <2>3. CASE Returns(c) /\ status' = "reading"
      <3>1. Goes(Last(frames), c) = "returns"
        BY <2>3 DEF Returns, Callee
      <3>2. frames' = Append(Front(Front(frames)),
                          Filled(Last(Front(frames)), Last(frames).value))
        BY <2>3 DEF Returns, Callee, Caller
      <3>3. Linked(frames', text')
        BY <2>1, <3>1, <3>2, ReturnKeeps
      <3> QED
        BY <2>1, <2>3, <3>3 DEF SoundInv
    <2>4. CASE Takes(c) /\ status' = "reading"
      <3>1. TakesItself(Last(frames), c)
        BY <2>4 DEF Takes, Callee, TakesItself
      <3>2. frames' = Append(Front(frames), Taken(Last(frames), c))
        BY <2>4 DEF Takes, Callee, Caller, WithAt, WithKey, Taken
      <3>3. Linked(frames', text')
        BY <2>1, <3>1, <3>2, TakeKeeps
      <3> QED
        BY <2>1, <2>4, <3>3 DEF SoundInv
    <2>5. CASE Throws(c) /\ status' = "thrown"
      BY <2>1, <2>5 DEF SoundInv
    <2> QED
      BY <1>1, <2>2, <2>3, <2>4, <2>5 DEF Read
  <1>2. CASE ReadEnd
    BY <1>2 DEF ReadEnd, AtEnd, SoundInv
  <1>3. CASE UNCHANGED vars
    BY <1>3 DEF vars, SoundInv
  <1> QED
    BY <1>1, <1>2, <1>3 DEF Next

LEMMA FrontOfAppend ==
    ASSUME NEW s \in Seq(Lexemes), NEW c \in Lexemes
    PROVE  /\ Front(Append(s, c)) = s /\ Last(Append(s, c)) = c
           /\ Len(Append(s, c)) = Len(s) + 1
  <1> DEFINE t == Append(s, c)
  <1>1. /\ t \in Seq(Lexemes) /\ t # <<>> /\ Len(t) = Len(s) + 1 /\ t[Len(t)] = c
        /\ \A i \in 1 .. Len(s) : t[i] = s[i]
    OBVIOUS
  <1> HIDE DEF t
  <1>2. /\ Front(t) \in Seq(Lexemes) /\ Len(Front(t)) = Len(s)
        /\ \A i \in 1 .. Len(s) : Front(t)[i] = s[i]
    BY <1>1, FrontProperties
  <1>3. Front(t) = s
    BY <1>2, SeqEqual
  <1>4. Last(t) = c
    BY <1>1 DEF Last
  <1> QED
    BY <1>1, <1>3, <1>4 DEF t

LEMMA WholeIsLenient ==
    ASSUME NEW s \in Seq(Lexemes), Len(s) <= MaxLength, NEW v, WholeDocument(s, v)
    PROVE  [text |-> s, value |-> v] \in Lenient
  <1> DEFINE n == Len(s)
             d == [text |-> s, value |-> v]
             levels == Levels(TRUE)[MaxLength]
  <1>1. IsValue(TRUE, s, v) /\ (Shaped(v, "{") \/ Shaped(v, "["))
    BY DEF WholeDocument, Whole
  <1>2. v.type \in {"{", "["}
    <2>1. \A open : Shaped(v, open) => v.type = open
      BY DEF Shaped
    <2> QED
      BY <1>1, <2>1
  <1>3. n \in 1 .. MaxLength /\ d \in At(TRUE, n).values
    <2>1. n > 0 /\ d \in At(TRUE, n).values
      BY <1>1 DEF IsValue, Phrase
    <2>2. n \in Nat
      OBVIOUS
    <2> HIDE DEF n, d
    <2>3. n <= MaxLength
      BY DEF n
    <2>4. n > 0
      BY <2>1
    <2>5. n \in 1 .. MaxLength
      BY <2>2, <2>3, <2>4, JsonAssumption
    <2> QED
      BY <2>1, <2>5
  <1>4. levels[n] = At(TRUE, n)
    <2> HIDE DEF n
    <2> QED
      BY <1>3, JsonAssumption, LevelsShape
  <1>5. d.value.type \in {"{", "["}
    BY <1>2
  <1> HIDE DEF n, d, levels
  <1>6. d \in UNION {{e \in levels[k].values : e.value.type \in {"{", "["}} : k \in 1 .. MaxLength}
    <2>1. d \in {e \in levels[n].values : e.value.type \in {"{", "["}}
      BY <1>3, <1>4, <1>5
    <2> QED
      BY <1>3, <2>1
  <1> QED
    BY <1>6 DEF Lenient, Documents, d, levels

LEMMA SoundImplies ==
    SoundInv => AcceptsOnlyDocuments
  <1> SUFFICES ASSUME SoundInv, status = "returned"
               PROVE  \/ text = <<>> /\ Parsed = Plain("null")
                      \/ [text |-> text, value |-> Parsed] \in Lenient
                      \/ /\ [text |-> Front(text), value |-> Parsed] \in Lenient
                         /\ Last(text) = Last(Front(text))
    BY DEF AcceptsOnlyDocuments
  <1>1. /\ Linked(frames, text) /\ Len(frames) = 1
        /\ text \in Seq(Lexemes) /\ Len(text) <= MaxLength
    BY DEF SoundInv
  <1>2. StringReads(frames[1], text)
    <2>1. PICK before, part : LinkedBy(frames, text, before, part)
      BY <1>1 DEF Linked
    <2>2. /\ before[1] = <<>> /\ part[1] \in Seq(Lexemes) /\ text = before[1] \o part[1]
          /\ Reads(frames[1], part[1])
      BY <1>1, <2>1 DEF LinkedBy
    <2>3. text = part[1]
      BY <2>2, ConcatEmptySeq
    <2>4. frames[1].function = "fromString"
      BY <1>1 DEF Linked, Stack
    <2> QED
      BY <2>2, <2>3, <2>4 DEF Reads
  <1>3. CASE text = <<>> /\ Parsed = Plain("null")
    BY <1>3
  <1>4. CASE WholeDocument(text, Parsed)
    BY <1>1, <1>4, WholeIsLenient
  <1>5. ASSUME NEW r \in Seq(Lexemes), NEW c \in Lexemes, text = Append(r, c),
               WholeDocument(r, Parsed), \E q \in Seq(Lexemes) : r = Append(q, c)
        PROVE  /\ [text |-> Front(text), value |-> Parsed] \in Lenient
               /\ Last(text) = Last(Front(text))
    <2>2. Front(text) = r /\ Last(text) = c /\ Last(r) = c
      BY <1>5, FrontOfAppend
    <2>3. Len(r) <= MaxLength
      <3>1. Len(text) = Len(r) + 1
        BY <1>5, FrontOfAppend
      <3>2. Len(r) \in Nat /\ Len(text) \in Nat /\ Len(text) <= MaxLength
        BY <1>1
      <3> QED
        BY <3>1, <3>2, JsonAssumption
    <2> QED
      BY <1>5, <2>2, <2>3, WholeIsLenient
  <1>6. \/ text = <<>> /\ Parsed = Plain("null")
        \/ WholeDocument(text, Parsed)
        \/ \E r \in Seq(Lexemes), c \in Lexemes :
             /\ text = Append(r, c) /\ WholeDocument(r, Parsed)
             /\ \E q \in Seq(Lexemes) : r = Append(q, c)
    BY <1>2, Lexical DEF StringReads, WholeDocument, Whole, Parsed
  <1> QED
    BY <1>3, <1>4, <1>5, <1>6

\* What fromString returns without an exception is what the grammar makes of
\* the text, with the three exceptions that the property names, for texts of
\* every length.
THEOREM AcceptedIsDocument ==
    Spec => []AcceptsOnlyDocuments
  <1>1. Init => SoundInv
    BY SoundInitially
  <1>2. SoundInv /\ [Next]_vars => SoundInv'
    BY SoundStep
  <1>3. SoundInv => AcceptsOnlyDocuments
    BY SoundImplies
  <1> QED
    BY <1>1, <1>2, <1>3, PTL DEF Spec

-----------------------------------------------------------------------------
(* Every document is parsed.  A run is the sequence of stacks in which the *)
(* parser reads a text: there is at most one, and there is one for every   *)
(* value, by induction over the length of its text.                        *)

LEMMA StrongInduction ==
    ASSUME NEW S, \A n \in Nat : (\A k \in Nat : k < n => k \in S) => n \in S
    PROVE  Nat \subseteq S
  <1> SUFFICES ASSUME Nat \ S # {} PROVE FALSE
    OBVIOUS
  <1>1. PICK m \in Nat \ S : \A k \in Nat \ S : m <= k
    BY LeastElement
  <1>2. \A k \in Nat : k < m => k \in S
    BY <1>1
  <1> QED
    BY <1>1, <1>2

IsSequence(s) == \E S : s \in Seq(S)

LEMMA Topped ==
    ASSUME NEW base, IsSequence(base), NEW f
    PROVE  /\ IsSequence(Append(base, f))
           /\ Front(Append(base, f)) = base
           /\ Last(Append(base, f)) = f
           /\ Len(Append(base, f)) = Len(base) + 1
  <1>1. PICK S : base \in Seq(S)
    BY DEF IsSequence
  <1> DEFINE T == S \cup {f}
             t == Append(base, f)
  <1>2. base \in Seq(T)
    BY <1>1, SeqMonotonic
  <1>3. f \in T
    OBVIOUS
  <1> HIDE DEF T
  <1>4. /\ t \in Seq(T) /\ t # <<>> /\ Len(t) = Len(base) + 1 /\ t[Len(t)] = f
        /\ \A i \in 1 .. Len(base) : t[i] = base[i]
        /\ Len(base) \in Nat
    BY <1>2, <1>3
  <1> HIDE DEF t
  <1>5. /\ Front(t) \in Seq(T) /\ Len(Front(t)) = Len(base)
        /\ \A i \in 1 .. Len(base) : Front(t)[i] = base[i]
    BY <1>4, FrontProperties
  <1>6. Front(t) = base
    BY <1>2, <1>5, SeqEqual
  <1>7. Last(t) = f
    BY <1>4 DEF Last
  <1> QED
    BY <1>4, <1>6, <1>7 DEF t, IsSequence

CallsOn(f, c) == CallsAnother(f, c) /\ Goes(f, c) \notin {"returns", "throws"}

\* The parser goes from stack fs to stack gs by reading lexeme c.
StepTo(fs, c, gs) ==
    \/ /\ CallsOn(Last(fs), c)
       /\ gs = Append(Append(Front(fs), WithAt(Last(fs), Goes(Last(fs), c))), Called(c))
    \/ /\ Goes(Last(fs), c) = "returns"
       /\ gs = Append(Front(Front(fs)), Filled(Last(Front(fs)), Last(fs).value))
    \/ /\ TakesItself(Last(fs), c)
       /\ gs = Append(Front(fs), Taken(Last(fs), c))

LEMMA OneStep ==
    ASSUME NEW fs, NEW c, NEW gs, StepTo(fs, c, gs)
    PROVE  /\ Goes(Last(fs), c) # "throws"
           /\ \A hs : StepTo(fs, c, hs) => hs = gs
  BY DEF StepTo, CallsOn, CallsAnother, TakesItself

\* The stacks r, from fs to gs, in which text t is read.
RunBy(r, fs, t, gs) ==
    /\ r[0] = fs
    /\ r[Len(t)] = gs
    /\ \A i \in 1 .. Len(t) : StepTo(r[i - 1], t[i], r[i])

Run(fs, t, gs) == \E r : RunBy(r, fs, t, gs)

LEMMA EmptyRun ==
    ASSUME NEW fs
    PROVE  Run(fs, <<>>, fs)
  <1> DEFINE r == [i \in 0 .. 0 |-> fs]
  <1>1. r[0] = fs /\ Len(<<>>) = 0
    OBVIOUS
  <1> HIDE DEF r
  <1>2. RunBy(r, fs, <<>>, fs)
    BY <1>1 DEF RunBy
  <1> QED
    BY <1>2 DEF Run

LEMMA RunOfOne ==
    ASSUME NEW fs, NEW c \in Lexemes, NEW gs, StepTo(fs, c, gs)
    PROVE  Run(fs, <<c>>, gs)
  <1> DEFINE r == [i \in 0 .. 1 |-> IF i = 0 THEN fs ELSE gs]
             t == <<c>>
  <1>1. r[0] = fs /\ r[1] = gs /\ Len(t) = 1 /\ t[1] = c
    OBVIOUS
  <1> HIDE DEF r, t
  <1>2. \A i \in 1 .. 1 : StepTo(r[i - 1], t[i], r[i])
    BY <1>1
  <1>3. RunBy(r, fs, t, gs)
    BY <1>1, <1>2 DEF RunBy
  <1> QED
    BY <1>3 DEF Run, t

LEMMA RunJoined ==
    ASSUME NEW fs, NEW a \in Seq(Lexemes), NEW gs, Run(fs, a, gs),
           NEW b \in Seq(Lexemes), NEW hs, Run(gs, b, hs)
    PROVE  Run(fs, a \o b, hs)
  <1>1. PICK q : RunBy(q, fs, a, gs)
    BY DEF Run
  <1>2. PICK r : RunBy(r, gs, b, hs)
    BY DEF Run
  <1> DEFINE m == Len(a)
             n == Len(b)
             t == a \o b
             both == [i \in 0 .. m + n |-> IF i <= m THEN q[i] ELSE r[i - m]]
  <1>3. /\ m \in Nat /\ n \in Nat /\ Len(t) = m + n
        /\ \A i \in 1 .. m : t[i] = a[i]
        /\ \A i \in 1 .. n : t[m + i] = b[i]
    OBVIOUS
  <1>4. /\ q[0] = fs /\ q[m] = gs /\ \A i \in 1 .. m : StepTo(q[i - 1], a[i], q[i])
        /\ r[0] = gs /\ r[n] = hs /\ \A i \in 1 .. n : StepTo(r[i - 1], b[i], r[i])
    BY <1>1, <1>2 DEF RunBy
  <1> HIDE DEF m, n, t
  <1>5. /\ \A i \in 0 .. m : both[i] = q[i]
        /\ \A i \in 0 .. n : both[m + i] = r[i]
    <2>1. \A i \in 0 .. m : both[i] = q[i]
      BY <1>3
    <2>2. ASSUME NEW i \in 0 .. n PROVE both[m + i] = r[i]
      <3>1. CASE i = 0
        BY <1>3, <1>4, <2>1, <3>1
      <3>2. CASE i # 0
        <4>1. m + i \in 0 .. m + n /\ ~(m + i <= m) /\ (m + i) - m = i
          BY <1>3, <3>2
        <4> QED
          BY <4>1
      <3> QED
        BY <3>1, <3>2
    <2> QED
      BY <2>1, <2>2
  <1> HIDE DEF both
  <1>6. both[0] = fs /\ both[m + n] = hs
    BY <1>3, <1>4, <1>5
  <1>7. ASSUME NEW i \in 1 .. m + n PROVE StepTo(both[i - 1], t[i], both[i])
    <2>1. CASE i <= m
      <3>1. i \in 1 .. m /\ i \in 0 .. m /\ i - 1 \in 0 .. m
        BY <1>3, <2>1
      <3> QED
        BY <1>3, <1>4, <1>5, <3>1
    <2>2. CASE ~(i <= m)
      <3> DEFINE k == i - m
      <3>1. /\ k \in 1 .. n /\ k \in 0 .. n /\ k - 1 \in 0 .. n
            /\ m + k = i /\ m + (k - 1) = i - 1
        BY <1>3, <2>2
      <3> HIDE DEF k
      <3>2. both[m + k] = r[k] /\ both[m + (k - 1)] = r[k - 1] /\ t[m + k] = b[k]
        BY <1>3, <1>5, <3>1
      <3>3. StepTo(r[k - 1], b[k], r[k])
        BY <1>4, <3>1
      <3> QED
        BY <3>1, <3>2, <3>3
    <2> QED
      BY <2>1, <2>2
  <1>8. RunBy(both, fs, t, hs)
    BY <1>3, <1>6, <1>7 DEF RunBy
  <1> QED
    BY <1>8 DEF Run, t

\* The first n lexemes of two texts are the same.
Alike(t, u, n) == n \in Nat /\ n <= Len(t) /\ n <= Len(u) /\ \A i \in 1 .. n : t[i] = u[i]

\* Two runs agree as far as their texts do.
LEMMA RunsAgree ==
    ASSUME NEW fs, NEW t \in Seq(Lexemes), NEW gs, NEW q, RunBy(q, fs, t, gs),
           NEW u \in Seq(Lexemes), NEW hs, NEW r, RunBy(r, fs, u, hs),
           NEW n, Alike(t, u, n)
    PROVE  q[n] = r[n]
  <1> USE DEF Alike
  <1> DEFINE S == {k \in Nat : k <= n => q[k] = r[k]}
  <1>1. 0 \in S
    BY DEF RunBy
  <1>2. ASSUME NEW k \in Nat, k \in S PROVE k + 1 \in S
    <2> SUFFICES ASSUME k + 1 <= n PROVE q[k + 1] = r[k + 1]
      OBVIOUS
    <2>1. q[k] = r[k]
      BY <1>2
    <2>2. k + 1 \in 1 .. Len(t) /\ k + 1 \in 1 .. Len(u) /\ k + 1 \in 1 .. n /\ (k + 1) - 1 = k
      OBVIOUS
    <2>3. /\ StepTo(q[(k + 1) - 1], t[k + 1], q[k + 1])
          /\ StepTo(r[(k + 1) - 1], u[k + 1], r[k + 1])
      BY <2>2 DEF RunBy
    <2>4. StepTo(q[k], t[k + 1], q[k + 1]) /\ StepTo(q[k], t[k + 1], r[k + 1])
      BY <2>1, <2>2, <2>3
    <2> QED
      BY <2>4, OneStep
  <1>3. Nat \subseteq S
    <2> HIDE DEF S
    <2> QED
      BY <1>1, <1>2, SetInduction
  <1> QED
    BY <1>3

\* The frames in which an array or an object is read.
FrameOf(function, at, m, v) == [function |-> function, at |-> at, key |-> m, value |-> v]
ArrayFrame(at, v)     == FrameOf("parseArray", at, "", v)
ObjectFrame(at, m, v) == FrameOf("parseObject", at, m, v)

LEMMA FramesOf ==
    ASSUME NEW function, NEW at, NEW m, NEW v, NEW x
    PROVE  /\ IsFrame(FrameOf(function, at, m, v))
           /\ FrameOf(function, at, m, v).function = function
           /\ FrameOf(function, at, m, v).at = at
           /\ FrameOf(function, at, m, v).key = m
           /\ FrameOf(function, at, m, v).value = v
           /\ WithAt(FrameOf(function, at, m, v), x) = FrameOf(function, x, m, v)
           /\ WithKey(FrameOf(function, at, m, v), x) = FrameOf(function, at, x, v)
           /\ WithValue(FrameOf(function, at, m, v), x) = FrameOf(function, at, m, x)
  <1> DEFINE f == FrameOf(function, at, m, v)
  <1>1. /\ IsFrame(f) /\ f.function = function /\ f.at = at /\ f.key = m /\ f.value = v
    BY DEF FrameOf, IsFrame
  <1>2. /\ WithAt(f, x) = FrameOf(function, x, m, v)
        /\ WithKey(f, x) = FrameOf(function, at, x, v)
        /\ WithValue(f, x) = FrameOf(function, at, m, x)
    BY DEF FrameOf, WithAt, WithKey, WithValue
  <1> QED
    BY <1>1, <1>2

\* A call that goes on to read a value, and what it is once it has read w.
ReadsValue(f) ==
    /\ IsFrame(f)
    /\ \/ f.function = "parseArray" /\ f.at = "val"
       \/ f.function = "parseObject" /\ f.at = "val"

After(f)         == IF f.function = "parseArray" THEN "sep" ELSE "end"
AfterValue(f, w) == Filled(WithAt(f, After(f)), w)

LEMMA GoesToValue ==
    ASSUME NEW f, ReadsValue(f)
    PROVE  /\ \A c \in Scalars : Goes(f, c) = After(f) /\ TakesItself(f, c)
           /\ Goes(f, "{") = After(f) /\ CallsOn(f, "{")
           /\ Goes(f, "[") = After(f) /\ CallsOn(f, "[")
  <1>1. CASE f.function = "parseArray" /\ f.at = "val"
    BY <1>1 DEF Goes, ParseArrayGoes, StartsValue, After, TakesItself, CallsOn, CallsAnother,
                Scalars, Names
  <1>2. CASE f.function = "parseObject" /\ f.at = "val"
    BY <1>2 DEF Goes, ParseObjectGoes, StartsValue, After, TakesItself, CallsOn, CallsAnother,
                Scalars, Names
  <1> QED
    BY <1>1, <1>2 DEF ReadsValue

LEMMA ScalarRun ==
    ASSUME NEW base, IsSequence(base), NEW f, ReadsValue(f), NEW c \in Scalars
    PROVE  Run(Append(base, f), <<c>>, Append(base, AfterValue(f, Plain(c))))
  <1> DEFINE fs == Append(base, f)
  <1>1. Front(fs) = base /\ Last(fs) = f
    BY Topped
  <1>2. Goes(f, c) = After(f) /\ TakesItself(f, c)
    BY GoesToValue
  <1>3. Taken(f, c) = AfterValue(f, Plain(c))
    <2>1. f.at = "val"
      BY DEF ReadsValue
    <2> QED
      BY <1>2, <2>1 DEF Taken, AfterValue
  <1> HIDE DEF fs
  <1>4. StepTo(fs, c, Append(base, AfterValue(f, Plain(c))))
    BY <1>1, <1>2, <1>3 DEF StepTo
  <1>5. c \in Lexemes
    BY Lexical
  <1> QED
    BY <1>4, <1>5, RunOfOne DEF fs

\* The bracket that calls a function, and the one with which it returns.
LEMMA OpenRun ==
    ASSUME NEW base, IsSequence(base), NEW f, NEW c \in Lexemes, CallsOn(f, c)
    PROVE  Run(Append(base, f), <<c>>, Append(Append(base, WithAt(f, Goes(f, c))), Called(c)))
  <1> DEFINE fs == Append(base, f)
  <1>1. Front(fs) = base /\ Last(fs) = f
    BY Topped
  <1> HIDE DEF fs
  <1>2. StepTo(fs, c, Append(Append(base, WithAt(f, Goes(f, c))), Called(c)))
    BY <1>1 DEF StepTo
  <1> QED
    BY <1>2, RunOfOne DEF fs

LEMMA CloseRun ==
    ASSUME NEW base, IsSequence(base), NEW e, NEW g, NEW c \in Lexemes, Goes(g, c) = "returns"
    PROVE  Run(Append(Append(base, e), g), <<c>>, Append(base, Filled(e, g.value)))
  <1> DEFINE fs == Append(Append(base, e), g)
  <1>1. IsSequence(Append(base, e)) /\ Front(Append(base, e)) = base /\ Last(Append(base, e)) = e
    BY Topped
  <1>2. Front(fs) = Append(base, e) /\ Last(fs) = g
    BY <1>1, Topped
  <1> HIDE DEF fs
  <1>3. StepTo(fs, c, Append(base, Filled(e, g.value)))
    BY <1>1, <1>2 DEF StepTo
  <1> QED
    BY <1>3, RunOfOne DEF fs

LEMMA TakeRun ==
    ASSUME NEW base, IsSequence(base), NEW f, NEW c \in Lexemes, TakesItself(f, c)
    PROVE  Run(Append(base, f), <<c>>, Append(base, Taken(f, c)))
  <1> DEFINE fs == Append(base, f)
  <1>1. Front(fs) = base /\ Last(fs) = f
    BY Topped
  <1> HIDE DEF fs
  <1>2. StepTo(fs, c, Append(base, Taken(f, c)))
    BY <1>1 DEF StepTo
  <1> QED
    BY <1>2, RunOfOne DEF fs

LEMMA TakenKey ==
    ASSUME NEW f, NEW c, NEW at, f.at = "key", Goes(f, c) = at
    PROVE  Taken(f, c) = WithKey(WithAt(f, at), c)
  BY DEF Taken

LEMMA TakenOn ==
    ASSUME NEW f, NEW c, NEW at, f.at = "sep" \/ f.at = "end", Goes(f, c) = at
    PROVE  Taken(f, c) = WithAt(f, at)
  BY DEF Taken

LEMMA MovedFrames ==
    ASSUME NEW m, NEW v
    PROVE  /\ WithAt(ArrayFrame("val", v), "sep") = ArrayFrame("sep", v)
           /\ WithAt(ArrayFrame("sep", v), "val") = ArrayFrame("val", v)
           /\ \A k : WithKey(WithAt(ObjectFrame("key", m, v), "sep"), k) = ObjectFrame("sep", k, v)
           /\ WithAt(ObjectFrame("sep", m, v), "val") = ObjectFrame("val", m, v)
           /\ WithAt(ObjectFrame("val", m, v), "end") = ObjectFrame("end", m, v)
           /\ WithAt(ObjectFrame("end", m, v), "key") = ObjectFrame("key", m, v)
  <1> DEFINE array == "parseArray"
             object == "parseObject"
             key == "key"
             sep == "sep"
             val == "val"
             end == "end"
             none == ""
  <1> HIDE DEF array, object, key, sep, val, end, none
  <1>1. /\ WithAt(FrameOf(array, val, none, v), sep) = FrameOf(array, sep, none, v)
        /\ WithAt(FrameOf(array, sep, none, v), val) = FrameOf(array, val, none, v)
        /\ WithAt(FrameOf(object, key, m, v), sep) = FrameOf(object, sep, m, v)
        /\ \A k : WithKey(FrameOf(object, sep, m, v), k) = FrameOf(object, sep, k, v)
        /\ WithAt(FrameOf(object, sep, m, v), val) = FrameOf(object, val, m, v)
        /\ WithAt(FrameOf(object, val, m, v), end) = FrameOf(object, end, m, v)
        /\ WithAt(FrameOf(object, end, m, v), key) = FrameOf(object, key, m, v)
    BY FramesOf
  <1> QED
    BY <1>1 DEF ArrayFrame, ObjectFrame, array, object, key, sep, val, end, none

LEMMA ArrayFrames ==
    ASSUME NEW v
    PROVE  /\ Called("[") = ArrayFrame("val", Plain("["))
           /\ ReadsValue(ArrayFrame("val", v))
           /\ \A w : AfterValue(ArrayFrame("val", v), w) = ArrayFrame("sep", WithElement(v, w))
           /\ TakesItself(ArrayFrame("sep", v), ",")
           /\ Taken(ArrayFrame("sep", v), ",") = ArrayFrame("val", v)
           /\ Goes(ArrayFrame("val", v), "]") = "returns"
           /\ Goes(ArrayFrame("sep", v), "]") = "returns"
           /\ ArrayFrame("val", v).value = v /\ ArrayFrame("sep", v).value = v
  <1>1. Called("[") = ArrayFrame("val", Plain("["))
    BY DEF Called, Frame, ArrayFrame, FrameOf
  <1>2. ReadsValue(ArrayFrame("val", v))
    BY DEF ReadsValue, IsFrame, ArrayFrame, FrameOf
  <1>3. ASSUME NEW w
        PROVE  AfterValue(ArrayFrame("val", v), w) = ArrayFrame("sep", WithElement(v, w))
    <2>1. After(ArrayFrame("val", v)) = "sep"
      BY DEF ArrayFrame, FrameOf, After
    <2>2. Filled(ArrayFrame("sep", v), w) = ArrayFrame("sep", WithElement(v, w))
      BY DEF Filled, ArrayFrame, FrameOf
    <2> QED
      BY <2>1, <2>2, MovedFrames DEF AfterValue
  <1>4. /\ Goes(ArrayFrame("sep", v), ",") = "val"
        /\ Goes(ArrayFrame("val", v), "]") = "returns"
        /\ Goes(ArrayFrame("sep", v), "]") = "returns"
    BY DEF Goes, ParseArrayGoes, StartsValue, Scalars, Names, ArrayFrame, FrameOf
  <1>5. TakesItself(ArrayFrame("sep", v), ",")
    BY <1>4 DEF TakesItself
  <1>6. Taken(ArrayFrame("sep", v), ",") = ArrayFrame("val", v)
    <2>1. WithAt(ArrayFrame("sep", v), "val") = ArrayFrame("val", v)
      BY MovedFrames
    <2>2. ArrayFrame("sep", v).at = "sep"
      BY DEF ArrayFrame, FrameOf
    <2> QED
      BY <1>4, <2>1, <2>2 DEF Taken
  <1>7. ArrayFrame("val", v).value = v /\ ArrayFrame("sep", v).value = v
    BY DEF ArrayFrame, FrameOf
  <1> QED
    BY <1>1, <1>2, <1>3, <1>4, <1>5, <1>6, <1>7

LEMMA MemberFilled ==
    ASSUME NEW m, NEW v, NEW w
    PROVE  AfterValue(ObjectFrame("val", m, v), w) = ObjectFrame("end", m, WithMember(v, m, w))
  <1>1. After(ObjectFrame("val", m, v)) = "end"
    BY DEF ObjectFrame, FrameOf, After
  <1>2. Filled(ObjectFrame("end", m, v), w) = ObjectFrame("end", m, WithMember(v, m, w))
    BY DEF Filled, ObjectFrame, FrameOf
  <1> QED
    BY <1>1, <1>2, MovedFrames DEF AfterValue

LEMMA ObjectFrames ==
    ASSUME NEW m, NEW v
    PROVE  /\ Called("{") = ObjectFrame("key", "", Plain("{"))
           /\ \A k \in Names : /\ TakesItself(ObjectFrame("key", m, v), k)
                               /\ Taken(ObjectFrame("key", m, v), k) = ObjectFrame("sep", k, v)
           /\ TakesItself(ObjectFrame("sep", m, v), ":")
           /\ Taken(ObjectFrame("sep", m, v), ":") = ObjectFrame("val", m, v)
           /\ ReadsValue(ObjectFrame("val", m, v))
           /\ TakesItself(ObjectFrame("end", m, v), ",")
           /\ Taken(ObjectFrame("end", m, v), ",") = ObjectFrame("key", m, v)
           /\ Goes(ObjectFrame("key", m, v), "}") = "returns"
           /\ Goes(ObjectFrame("end", m, v), "}") = "returns"
           /\ ObjectFrame("key", m, v).value = v /\ ObjectFrame("end", m, v).value = v
  <1>1. Called("{") = ObjectFrame("key", "", Plain("{"))
    BY DEF Called, Frame, ObjectFrame, FrameOf
  <1>2. /\ \A k \in Names : Goes(ObjectFrame("key", m, v), k) = "sep"
        /\ Goes(ObjectFrame("sep", m, v), ":") = "val"
        /\ Goes(ObjectFrame("end", m, v), ",") = "key"
        /\ Goes(ObjectFrame("key", m, v), "}") = "returns"
        /\ Goes(ObjectFrame("end", m, v), "}") = "returns"
    BY DEF Goes, ParseObjectGoes, StartsValue, Scalars, Names, ObjectFrame, FrameOf
  <1>3. \A k \in Names : k \notin {"{", "["}
    BY DEF Names
  <1>4. /\ \A k \in Names : TakesItself(ObjectFrame("key", m, v), k)
        /\ TakesItself(ObjectFrame("sep", m, v), ":")
        /\ TakesItself(ObjectFrame("end", m, v), ",")
    BY <1>2, <1>3 DEF TakesItself
  <1>5. /\ ObjectFrame("key", m, v).at = "key" /\ ObjectFrame("sep", m, v).at = "sep"
        /\ ObjectFrame("end", m, v).at = "end"
        /\ ObjectFrame("key", m, v).value = v /\ ObjectFrame("end", m, v).value = v
    BY DEF ObjectFrame, FrameOf
  <1>6. /\ \A k \in Names : Taken(ObjectFrame("key", m, v), k) = ObjectFrame("sep", k, v)
        /\ Taken(ObjectFrame("sep", m, v), ":") = ObjectFrame("val", m, v)
        /\ Taken(ObjectFrame("end", m, v), ",") = ObjectFrame("key", m, v)
    <2>1. \A k \in Names : Taken(ObjectFrame("key", m, v), k)
                              = WithKey(WithAt(ObjectFrame("key", m, v), "sep"), k)
      BY <1>2, <1>5, TakenKey
    <2>2. Taken(ObjectFrame("sep", m, v), ":") = WithAt(ObjectFrame("sep", m, v), "val")
      BY <1>2, <1>5, TakenOn
    <2>3. Taken(ObjectFrame("end", m, v), ",") = WithAt(ObjectFrame("end", m, v), "key")
      BY <1>2, <1>5, TakenOn
    <2>4. /\ \A k : WithKey(WithAt(ObjectFrame("key", m, v), "sep"), k) = ObjectFrame("sep", k, v)
          /\ WithAt(ObjectFrame("sep", m, v), "val") = ObjectFrame("val", m, v)
          /\ WithAt(ObjectFrame("end", m, v), "key") = ObjectFrame("key", m, v)
      BY MovedFrames
    <2> QED
      BY <2>1, <2>2, <2>3, <2>4
  <1>7. ReadsValue(ObjectFrame("val", m, v))
    BY DEF ReadsValue, IsFrame, ObjectFrame, FrameOf
  <1> QED
    BY <1>1, <1>2, <1>4, <1>5, <1>6, <1>7

\* A call of a function, its lexemes b, and its return.
LEMMA BracketRun ==
    ASSUME NEW base, IsSequence(base), NEW f, NEW c \in Lexemes, CallsOn(f, c),
           NEW e, e = WithAt(f, Goes(f, c)), NEW b \in Seq(Lexemes), NEW h,
           Run(Append(Append(base, e), Called(c)), b, Append(Append(base, e), h)),
           NEW d \in Lexemes, Goes(h, d) = "returns"
    PROVE  /\ <<c>> \o b \o <<d>> \in Seq(Lexemes)
           /\ Run(Append(base, f), <<c>> \o b \o <<d>>, Append(base, Filled(e, h.value)))
  <1> DEFINE x == <<c>>
             y == <<d>>
  <1>1. x \in Seq(Lexemes) /\ y \in Seq(Lexemes)
    BY Lexical
  <1>2. Run(Append(base, f), x, Append(Append(base, e), Called(c)))
    BY OpenRun
  <1>3. Run(Append(Append(base, e), h), y, Append(base, Filled(e, h.value)))
    BY CloseRun
  <1> HIDE DEF x, y
  <1>4. x \o b \in Seq(Lexemes) /\ x \o b \o y \in Seq(Lexemes)
    BY <1>1, Joined
  <1>5. Run(Append(base, f), x \o b, Append(Append(base, e), h))
    BY <1>1, <1>2, RunJoined
  <1>6. Run(Append(base, f), (x \o b) \o y, Append(base, Filled(e, h.value)))
    BY <1>1, <1>3, <1>4, <1>5, RunJoined
  <1> QED
    BY <1>4, <1>6 DEF x, y

\* What it means that a phrase is parsed: one that is an object or an array
\* in every call that may call its function, one that is a value in every call
\* that reads a value, and the others in the functions they are the inside of.
ContainerParsed(c, p) ==
    /\ p.text \in Seq(Lexemes)
    /\ \A base, f : IsSequence(base) /\ CallsOn(f, c) =>
         Run(Append(base, f), p.text, Append(base, Filled(WithAt(f, Goes(f, c)), p.value)))

ValueParsed(p) ==
    /\ p.text \in Seq(Lexemes)
    /\ \A base, f : IsSequence(base) /\ ReadsValue(f) =>
         Run(Append(base, f), p.text, Append(base, AfterValue(f, p.value)))

ElementsParsed(p) ==
    /\ p.text \in Seq(Lexemes)
    /\ \A base : IsSequence(base) =>
         Run(Append(base, ArrayFrame("val", Plain("["))), p.text,
             Append(base, ArrayFrame("sep", p.value)))

MembersParsed(p) ==
    /\ p.text \in Seq(Lexemes)
    /\ \A base : IsSequence(base) => \E m :
         Run(Append(base, ObjectFrame("key", "", Plain("{"))), p.text,
             Append(base, ObjectFrame("end", m, p.value)))

LEMMA PhraseFields ==
    ASSUME NEW t, NEW v
    PROVE  Phrase(t, v).text = t /\ Phrase(t, v).value = v
  BY DEF Phrase

LEMMA ContainerIsParsed ==
    ASSUME NEW p, ContainerParsed("{", p) \/ ContainerParsed("[", p)
    PROVE  ValueParsed(p)
  <1>1. CASE ContainerParsed("{", p)
    <2>1. ASSUME NEW base, NEW f, IsSequence(base), ReadsValue(f)
          PROVE  Run(Append(base, f), p.text, Append(base, AfterValue(f, p.value)))
      <3>1. CallsOn(f, "{") /\ Goes(f, "{") = After(f)
        BY <2>1, GoesToValue
      <3>2. Run(Append(base, f), p.text, Append(base, Filled(WithAt(f, Goes(f, "{")), p.value)))
        BY <1>1, <2>1, <3>1 DEF ContainerParsed
      <3> QED
        BY <3>1, <3>2 DEF AfterValue
    <2> QED
      BY <1>1, <2>1 DEF ContainerParsed, ValueParsed
  <1>2. CASE ContainerParsed("[", p)
    <2>1. ASSUME NEW base, NEW f, IsSequence(base), ReadsValue(f)
          PROVE  Run(Append(base, f), p.text, Append(base, AfterValue(f, p.value)))
      <3>1. CallsOn(f, "[") /\ Goes(f, "[") = After(f)
        BY <2>1, GoesToValue
      <3>2. Run(Append(base, f), p.text, Append(base, Filled(WithAt(f, Goes(f, "[")), p.value)))
        BY <1>2, <2>1, <3>1 DEF ContainerParsed
      <3> QED
        BY <3>1, <3>2 DEF AfterValue
    <2> QED
      BY <1>2, <2>1 DEF ContainerParsed, ValueParsed
  <1> QED
    BY <1>1, <1>2

\* An object or array with inside b, closed by d in frame h.
LEMMA InsideParsed ==
    ASSUME NEW c \in Lexemes, NEW b \in Seq(Lexemes), NEW d \in Lexemes, NEW v,
           \A base : IsSequence(base) =>
             \E h : /\ Run(Append(base, Called(c)), b, Append(base, h))
                    /\ Goes(h, d) = "returns" /\ h.value = v
    PROVE  ContainerParsed(c, Phrase(<<c>> \o b \o <<d>>, v))
  <1> DEFINE t == <<c>> \o b \o <<d>>
  <1>1. t \in Seq(Lexemes)
    BY Lexical, Joined
  <1>2. ASSUME NEW base, NEW f, IsSequence(base), CallsOn(f, c)
        PROVE  Run(Append(base, f), t, Append(base, Filled(WithAt(f, Goes(f, c)), v)))
    <2> DEFINE e == WithAt(f, Goes(f, c))
    <2>1. IsSequence(Append(base, e))
      BY <1>2, Topped
    <2>2. PICK h : /\ Run(Append(Append(base, e), Called(c)), b, Append(Append(base, e), h))
                   /\ Goes(h, d) = "returns" /\ h.value = v
      BY <2>1
    <2> QED
      BY <1>2, <2>2, BracketRun
  <1> HIDE DEF t
  <1>3. ContainerParsed(c, Phrase(t, v))
    BY <1>1, <1>2, PhraseFields DEF ContainerParsed
  <1> QED
    BY <1>3 DEF t

LEMMA EmptyParsed ==
    /\ ContainerParsed("[", Phrase(<<"[", "]">>, Plain("[")))
    /\ ContainerParsed("{", Phrase(<<"{", "}">>, Plain("{")))
  <1> DEFINE a == "["
             b == "]"
             c == "{"
             d == "}"
  <1>1. /\ a \in Lexemes /\ b \in Lexemes /\ c \in Lexemes /\ d \in Lexemes
    BY Lexical
  <1>2. /\ Goes(Called(a), b) = "returns" /\ Called(a).value = Plain(a)
        /\ Goes(Called(c), d) = "returns" /\ Called(c).value = Plain(c)
    <2>1. /\ Called("[") = ArrayFrame("val", Plain("["))
          /\ Called("{") = ObjectFrame("key", "", Plain("{"))
      BY ArrayFrames, ObjectFrames
    <2>2. \A v : Goes(ArrayFrame("val", v), "]") = "returns" /\ ArrayFrame("val", v).value = v
      BY ArrayFrames
    <2>3. \A m, v : /\ Goes(ObjectFrame("key", m, v), "}") = "returns"
                    /\ ObjectFrame("key", m, v).value = v
      BY ObjectFrames
    <2> QED
      BY <2>1, <2>2, <2>3
  <1> HIDE DEF a, b, c, d
  <1>3. ASSUME NEW x \in Lexemes, NEW y \in Lexemes, NEW v, Goes(Called(x), y) = "returns",
               Called(x).value = v
        PROVE  ContainerParsed(x, Phrase(<<x, y>>, v))
    <2>1. <<x>> \o <<>> \o <<y>> = <<x, y>>
      <3> DEFINE z == <<x>>
      <3>1. z \in Seq(Lexemes)
        BY Lexical
      <3> HIDE DEF z
      <3>2. z \o <<>> = z
        BY <3>1, ConcatEmptySeq
      <3> QED
        BY <3>2, Pair DEF z
    <2>2. \A base : IsSequence(base) => Run(Append(base, Called(x)), <<>>, Append(base, Called(x)))
      BY EmptyRun
    <2>3. <<>> \in Seq(Lexemes)
      OBVIOUS
    <2>4. ContainerParsed(x, Phrase(<<x>> \o <<>> \o <<y>>, v))
      BY <1>3, <2>2, <2>3, InsideParsed
    <2> QED
      BY <2>1, <2>4
  <1>4. /\ ContainerParsed(a, Phrase(<<a, b>>, Plain(a)))
        /\ ContainerParsed(c, Phrase(<<c, d>>, Plain(c)))
    BY <1>1, <1>2, <1>3
  <1> QED
    BY <1>4 DEF a, b, c, d

LEMMA ClosedParsed ==
    ASSUME NEW p
    PROVE  /\ ElementsParsed(p) => ContainerParsed("[", Closed("[", p, <<"]">>))
           /\ MembersParsed(p) => ContainerParsed("{", Closed("{", p, <<"}">>))
  <1>1. /\ "[" \in Lexemes /\ "]" \in Lexemes /\ "{" \in Lexemes /\ "}" \in Lexemes
    BY Lexical
  <1>2. ASSUME ElementsParsed(p) PROVE ContainerParsed("[", Closed("[", p, <<"]">>))
    <2>1. ASSUME NEW base, IsSequence(base)
          PROVE  \E h : /\ Run(Append(base, Called("[")), p.text, Append(base, h))
                        /\ Goes(h, "]") = "returns" /\ h.value = p.value
      BY <1>2, <2>1, ArrayFrames DEF ElementsParsed
    <2>2. p.text \in Seq(Lexemes)
      BY <1>2 DEF ElementsParsed
    <2>3. ContainerParsed("[", Phrase(<<"[">> \o p.text \o <<"]">>, p.value))
      BY <1>1, <2>1, <2>2, InsideParsed
    <2> QED
      BY <2>3 DEF Closed
  <1>3. ASSUME MembersParsed(p) PROVE ContainerParsed("{", Closed("{", p, <<"}">>))
    <2>1. ASSUME NEW base, IsSequence(base)
          PROVE  \E h : /\ Run(Append(base, Called("{")), p.text, Append(base, h))
                        /\ Goes(h, "}") = "returns" /\ h.value = p.value
      <3>1. Called("{") = ObjectFrame("key", "", Plain("{"))
        BY ObjectFrames
      <3>2. PICK m : Run(Append(base, ObjectFrame("key", "", Plain("{"))), p.text,
                         Append(base, ObjectFrame("end", m, p.value)))
        BY <1>3, <2>1 DEF MembersParsed
      <3>3. /\ Goes(ObjectFrame("end", m, p.value), "}") = "returns"
            /\ ObjectFrame("end", m, p.value).value = p.value
        BY ObjectFrames
      <3> QED
        BY <3>1, <3>2, <3>3
    <2>2. p.text \in Seq(Lexemes)
      BY <1>3 DEF MembersParsed
    <2>3. ContainerParsed("{", Phrase(<<"{">> \o p.text \o <<"}">>, p.value))
      BY <1>1, <2>1, <2>2, InsideParsed
    <2> QED
      BY <2>3 DEF Closed
  <1> QED
    BY <1>2, <1>3

LEMMA FirstElementParsed ==
    ASSUME NEW p, ValueParsed(p)
    PROVE  ElementsParsed(FirstElement(p))
  <1> DEFINE v == WithElement(Plain("["), p.value)
  <1>1. ASSUME NEW base, IsSequence(base)
        PROVE  Run(Append(base, ArrayFrame("val", Plain("["))), p.text,
                   Append(base, ArrayFrame("sep", v)))
    <2>1. /\ ReadsValue(ArrayFrame("val", Plain("[")))
          /\ AfterValue(ArrayFrame("val", Plain("[")), p.value) = ArrayFrame("sep", v)
      BY ArrayFrames
    <2> HIDE DEF v
    <2> QED
      BY <1>1, <2>1 DEF ValueParsed
  <1>2. FirstElement(p) = Phrase(p.text, v)
    BY DEF FirstElement
  <1> HIDE DEF v
  <1>3. FirstElement(p).text = p.text /\ FirstElement(p).value = v
    BY <1>2, PhraseFields
  <1>4. p.text \in Seq(Lexemes)
    BY DEF ValueParsed
  <1> QED
    BY <1>1, <1>3, <1>4 DEF ElementsParsed

LEMMA NextElementParsed ==
    ASSUME NEW b, ElementsParsed(b), NEW p, ValueParsed(p)
    PROVE  ElementsParsed(NextElement(b, p))
  <1> DEFINE v == WithElement(b.value, p.value)
             z == <<",">>
             t == b.text \o z \o p.text
  <1>1. b.text \in Seq(Lexemes) /\ p.text \in Seq(Lexemes)
    BY DEF ElementsParsed, ValueParsed
  <1>2. "," \in Lexemes /\ z \in Seq(Lexemes)
    BY Lexical
  <1>3. ASSUME NEW base, IsSequence(base)
        PROVE  Run(Append(base, ArrayFrame("val", Plain("["))), t,
                   Append(base, ArrayFrame("sep", v)))
    <2>1. Run(Append(base, ArrayFrame("val", Plain("["))), b.text,
              Append(base, ArrayFrame("sep", b.value)))
      BY <1>3 DEF ElementsParsed
    <2>2. Run(Append(base, ArrayFrame("sep", b.value)), z, Append(base, ArrayFrame("val", b.value)))
      <3>1. /\ TakesItself(ArrayFrame("sep", b.value), ",")
            /\ Taken(ArrayFrame("sep", b.value), ",") = ArrayFrame("val", b.value)
        BY ArrayFrames
      <3> QED
        BY <1>2, <1>3, <3>1, TakeRun
    <2>3. Run(Append(base, ArrayFrame("val", b.value)), p.text, Append(base, ArrayFrame("sep", v)))
      <3>1. /\ ReadsValue(ArrayFrame("val", b.value))
            /\ AfterValue(ArrayFrame("val", b.value), p.value) = ArrayFrame("sep", v)
        BY ArrayFrames
      <3> HIDE DEF v
      <3> QED
        BY <1>3, <3>1 DEF ValueParsed
    <2> HIDE DEF v, z
    <2>4. b.text \o z \in Seq(Lexemes)
      BY <1>1, <1>2, Joined
    <2>5. Run(Append(base, ArrayFrame("val", Plain("["))), b.text \o z,
              Append(base, ArrayFrame("val", b.value)))
      BY <1>1, <1>2, <2>1, <2>2, RunJoined
    <2> QED
      BY <1>1, <2>3, <2>4, <2>5, RunJoined
  <1>4. NextElement(b, p) = Phrase(t, v)
    BY DEF NextElement
  <1> HIDE DEF v, z
  <1>5. t \in Seq(Lexemes)
    BY <1>1, <1>2, Joined
  <1> HIDE DEF t
  <1>6. NextElement(b, p).text = t /\ NextElement(b, p).value = v
    BY <1>4, PhraseFields
  <1> QED
    BY <1>3, <1>5, <1>6 DEF ElementsParsed

\* A name and its colon, and those of a further member.
LEMMA NameRun ==
    ASSUME NEW base, IsSequence(base), NEW k, NEW v, NEW m \in Names
    PROVE  /\ Run(Append(base, ObjectFrame("key", k, v)), <<m, ":">>,
                  Append(base, ObjectFrame("val", m, v)))
           /\ Run(Append(base, ObjectFrame("end", k, v)), <<",", m, ":">>,
                  Append(base, ObjectFrame("val", m, v)))
  <1> DEFINE x == <<",">>
             y == <<m>>
             z == <<":">>
             yz == <<m, ":">>
             xyz == <<",", m, ":">>
  <1>1. m \in Lexemes /\ "," \in Lexemes /\ ":" \in Lexemes
    BY Lexical
  <1>2. /\ x \in Seq(Lexemes) /\ y \in Seq(Lexemes) /\ z \in Seq(Lexemes)
        /\ yz \in Seq(Lexemes)
    BY <1>1, Lexical
  <1>3. y \o z = yz /\ x \o yz = xyz
    BY Pair, Triple
  <1>4. Run(Append(base, ObjectFrame("key", k, v)), y, Append(base, ObjectFrame("sep", m, v)))
    <2>1. /\ TakesItself(ObjectFrame("key", k, v), m)
          /\ Taken(ObjectFrame("key", k, v), m) = ObjectFrame("sep", m, v)
      BY ObjectFrames
    <2> QED
      BY <1>1, <2>1, TakeRun
  <1>5. Run(Append(base, ObjectFrame("sep", m, v)), z, Append(base, ObjectFrame("val", m, v)))
    <2>1. /\ TakesItself(ObjectFrame("sep", m, v), ":")
          /\ Taken(ObjectFrame("sep", m, v), ":") = ObjectFrame("val", m, v)
      BY ObjectFrames
    <2> QED
      BY <1>1, <2>1, TakeRun
  <1>6. Run(Append(base, ObjectFrame("end", k, v)), x, Append(base, ObjectFrame("key", k, v)))
    <2>1. /\ TakesItself(ObjectFrame("end", k, v), ",")
          /\ Taken(ObjectFrame("end", k, v), ",") = ObjectFrame("key", k, v)
      BY ObjectFrames
    <2> QED
      BY <1>1, <2>1, TakeRun
  <1> HIDE DEF x, y, z, yz, xyz
  <1>7. Run(Append(base, ObjectFrame("key", k, v)), yz, Append(base, ObjectFrame("val", m, v)))
    BY <1>2, <1>3, <1>4, <1>5, RunJoined
  <1>8. Run(Append(base, ObjectFrame("end", k, v)), xyz, Append(base, ObjectFrame("val", m, v)))
    BY <1>2, <1>3, <1>6, <1>7, RunJoined
  <1> QED
    BY <1>7, <1>8 DEF xyz, yz

\* The value of a member, in the function that has read its name.
LEMMA MemberValueRun ==
    ASSUME NEW base, IsSequence(base), NEW v, NEW m, NEW p, ValueParsed(p)
    PROVE  Run(Append(base, ObjectFrame("val", m, v)), p.text,
               Append(base, ObjectFrame("end", m, WithMember(v, m, p.value))))
  <1> DEFINE w == p.value
  <1>1. ReadsValue(ObjectFrame("val", m, v))
    BY ObjectFrames
  <1>2. AfterValue(ObjectFrame("val", m, v), w) = ObjectFrame("end", m, WithMember(v, m, w))
    <2> HIDE DEF w
    <2> QED
      BY MemberFilled
  <1>3. Run(Append(base, ObjectFrame("val", m, v)), p.text,
            Append(base, AfterValue(ObjectFrame("val", m, v), p.value)))
    BY <1>1 DEF ValueParsed
  <1> QED
    BY <1>2, <1>3

LEMMA FirstMemberParsed ==
    ASSUME NEW m \in Names, NEW p, ValueParsed(p)
    PROVE  MembersParsed(FirstMember(m, p))
  <1> DEFINE v == WithMember(Plain("{"), m, p.value)
             z == <<m, ":">>
             t == z \o p.text
  <1>1. p.text \in Seq(Lexemes)
    BY DEF ValueParsed
  <1>2. z \in Seq(Lexemes)
    BY Lexical
  <1>3. ASSUME NEW base, IsSequence(base)
        PROVE  Run(Append(base, ObjectFrame("key", "", Plain("{"))), t,
                   Append(base, ObjectFrame("end", m, v)))
    <2>1. Run(Append(base, ObjectFrame("key", "", Plain("{"))), z,
              Append(base, ObjectFrame("val", m, Plain("{"))))
      BY <1>3, NameRun
    <2>2. Run(Append(base, ObjectFrame("val", m, Plain("{"))), p.text,
              Append(base, ObjectFrame("end", m, v)))
      BY <1>3, MemberValueRun
    <2> HIDE DEF v, z
    <2> QED
      BY <1>1, <1>2, <2>1, <2>2, RunJoined
  <1>4. FirstMember(m, p) = Phrase(t, v)
    BY DEF FirstMember
  <1> HIDE DEF v, z
  <1>5. t \in Seq(Lexemes)
    BY <1>1, <1>2, Joined
  <1> HIDE DEF t
  <1>6. FirstMember(m, p).text = t /\ FirstMember(m, p).value = v
    BY <1>4, PhraseFields
  <1> QED
    BY <1>3, <1>5, <1>6 DEF MembersParsed

LEMMA NextMemberParsed ==
    ASSUME NEW b, MembersParsed(b), NEW m \in Names, NEW p, ValueParsed(p)
    PROVE  MembersParsed(NextMember(b, m, p))
  <1> DEFINE v == WithMember(b.value, m, p.value)
             z == <<",", m, ":">>
             t == b.text \o z \o p.text
  <1>1. b.text \in Seq(Lexemes) /\ p.text \in Seq(Lexemes)
    BY DEF MembersParsed, ValueParsed
  <1>2. z \in Seq(Lexemes)
    BY Lexical
  <1>3. ASSUME NEW base, IsSequence(base)
        PROVE  Run(Append(base, ObjectFrame("key", "", Plain("{"))), t,
                   Append(base, ObjectFrame("end", m, v)))
    <2>1. PICK k : Run(Append(base, ObjectFrame("key", "", Plain("{"))), b.text,
                       Append(base, ObjectFrame("end", k, b.value)))
      BY <1>3 DEF MembersParsed
    <2>2. Run(Append(base, ObjectFrame("end", k, b.value)), z,
              Append(base, ObjectFrame("val", m, b.value)))
      BY <1>3, NameRun
    <2>3. Run(Append(base, ObjectFrame("val", m, b.value)), p.text,
              Append(base, ObjectFrame("end", m, v)))
      BY <1>3, MemberValueRun
    <2> HIDE DEF v, z
    <2>4. b.text \o z \in Seq(Lexemes)
      BY <1>1, <1>2, Joined
    <2>5. Run(Append(base, ObjectFrame("key", "", Plain("{"))), b.text \o z,
              Append(base, ObjectFrame("val", m, b.value)))
      BY <1>1, <1>2, <2>1, <2>2, RunJoined
    <2> QED
      BY <1>1, <2>3, <2>4, <2>5, RunJoined
  <1>4. NextMember(b, m, p) = Phrase(t, v)
    BY DEF NextMember
  <1> HIDE DEF v, z
  <1>5. t \in Seq(Lexemes)
    BY <1>1, <1>2, Joined
  <1> HIDE DEF t
  <1>6. NextMember(b, m, p).text = t /\ NextMember(b, m, p).value = v
    BY <1>4, PhraseFields
  <1> QED
    BY <1>3, <1>5, <1>6 DEF MembersParsed

\* All phrases of a level are parsed, if those of every smaller length are.
PhrasesParsed(level) ==
    /\ \A p \in level.values : ValueParsed(p)
    /\ \A p \in level.elements : ElementsParsed(p)
    /\ \A p \in level.members : MembersParsed(p)

ShorterParsed(shorter) == \A k \in Int : PhrasesParsed(Of(shorter, k))

LEMMA ContainersParsed ==
    ASSUME NEW shorter, ShorterParsed(shorter), NEW n \in Nat
    PROVE  /\ \A p \in Arrays(shorter, n, FALSE) : ContainerParsed("[", p)
           /\ \A p \in Objects(shorter, n, FALSE) : ContainerParsed("{", p)
  <1>1. n - 2 \in Int
    OBVIOUS
  <1>2. PhrasesParsed(Of(shorter, n - 2))
    BY <1>1 DEF ShorterParsed
  <1>3. ASSUME NEW p \in Arrays(shorter, n, FALSE) PROVE ContainerParsed("[", p)
    <2>1. \/ p = Phrase(<<"[", "]">>, Plain("["))
          \/ \E b \in Of(shorter, n - 2).elements : p = Closed("[", b, <<"]">>)
      BY <1>3 DEF Arrays
    <2>2. ASSUME NEW b \in Of(shorter, n - 2).elements
          PROVE  ContainerParsed("[", Closed("[", b, <<"]">>))
      BY <1>2, ClosedParsed DEF PhrasesParsed
    <2> QED
      BY <2>1, <2>2, EmptyParsed
  <1>4. ASSUME NEW p \in Objects(shorter, n, FALSE) PROVE ContainerParsed("{", p)
    <2>1. \/ p = Phrase(<<"{", "}">>, Plain("{"))
          \/ \E b \in Of(shorter, n - 2).members : p = Closed("{", b, <<"}">>)
      BY <1>4 DEF Objects
    <2>2. ASSUME NEW b \in Of(shorter, n - 2).members
          PROVE  ContainerParsed("{", Closed("{", b, <<"}">>))
      BY <1>2, ClosedParsed DEF PhrasesParsed
    <2> QED
      BY <2>1, <2>2, EmptyParsed
  <1> QED
    BY <1>3, <1>4

LEMMA ScalarsParsed ==
    ASSUME NEW n, NEW p \in ScalarValues(n)
    PROVE  ValueParsed(p)
  <1>1. PICK c \in Scalars : p = Phrase(<<c>>, Plain(c))
    BY DEF ScalarValues
  <1> DEFINE t == <<c>>
             v == Plain(c)
  <1>2. p.text = t /\ p.value = v
    BY <1>1, PhraseFields
  <1>3. t \in Seq(Lexemes)
    BY Lexical
  <1>4. ASSUME NEW base, NEW f, IsSequence(base), ReadsValue(f)
        PROVE  Run(Append(base, f), t, Append(base, AfterValue(f, v)))
    BY <1>4, ScalarRun
  <1> HIDE DEF t, v
  <1> QED
    BY <1>2, <1>3, <1>4 DEF ValueParsed

LEMMA LevelIsParsed ==
    ASSUME NEW shorter, ShorterParsed(shorter), NEW n \in Nat
    PROVE  PhrasesParsed(Level(shorter, n, FALSE))
  <1> DEFINE values == ScalarValues(n) \cup Arrays(shorter, n, FALSE)
                                       \cup Objects(shorter, n, FALSE)
  <1>1. \A p \in values : ValueParsed(p)
    BY ScalarsParsed, ContainersParsed, ContainerIsParsed
  <1>2. /\ Level(shorter, n, FALSE).values = values
        /\ Level(shorter, n, FALSE).elements = Elements(shorter, n, values)
        /\ Level(shorter, n, FALSE).members = Members(shorter, n)
    BY DEF Level
  <1> HIDE DEF values
  <1>3. \A k \in Int : /\ \A p \in Of(shorter, k).values : ValueParsed(p)
                       /\ \A p \in Of(shorter, k).elements : ElementsParsed(p)
                       /\ \A p \in Of(shorter, k).members : MembersParsed(p)
    BY DEF ShorterParsed, PhrasesParsed
  <1>4. ASSUME NEW p \in Elements(shorter, n, values) PROVE ElementsParsed(p)
    <2>1. CASE \E v \in values : p = FirstElement(v)
      BY <1>1, <2>1, FirstElementParsed
    <2>2. ASSUME NEW k \in 1 .. n - 2, NEW b \in Of(shorter, n - k - 1).elements,
                 NEW v \in Of(shorter, k).values, p = NextElement(b, v)
          PROVE  ElementsParsed(p)
      <3>1. k \in Int /\ n - k - 1 \in Int
        OBVIOUS
      <3>2. ElementsParsed(b) /\ ValueParsed(v)
        BY <1>3, <3>1
      <3> QED
        BY <2>2, <3>2, NextElementParsed
    <2>3. \/ \E v \in values : p = FirstElement(v)
          \/ \E k \in 1 .. n - 2 : \E b \in Of(shorter, n - k - 1).elements,
                v \in Of(shorter, k).values : p = NextElement(b, v)
      BY <1>4 DEF Elements
    <2> QED
      BY <2>1, <2>2, <2>3
  <1>5. ASSUME NEW p \in Members(shorter, n) PROVE MembersParsed(p)
    <2>1. ASSUME NEW m \in Names, NEW v \in Of(shorter, n - 2).values, p = FirstMember(m, v)
          PROVE  MembersParsed(p)
      <3>1. n - 2 \in Int
        OBVIOUS
      <3>2. ValueParsed(v)
        BY <1>3, <3>1
      <3> QED
        BY <2>1, <3>2, FirstMemberParsed
    <2>2. ASSUME NEW k \in 1 .. n - 4, NEW b \in Of(shorter, n - k - 3).members,
                 NEW m \in Names, NEW v \in Of(shorter, k).values, p = NextMember(b, m, v)
          PROVE  MembersParsed(p)
      <3>1. k \in Int /\ n - k - 3 \in Int
        OBVIOUS
      <3>2. MembersParsed(b) /\ ValueParsed(v)
        BY <1>3, <3>1
      <3> QED
        BY <2>2, <3>2, NextMemberParsed
    <2>3. \/ \E m \in Names, v \in Of(shorter, n - 2).values : p = FirstMember(m, v)
          \/ \E k \in 1 .. n - 4 : \E b \in Of(shorter, n - k - 3).members, m \in Names,
                v \in Of(shorter, k).values : p = NextMember(b, m, v)
      BY <1>5 DEF Members
    <2> QED
      BY <2>1, <2>2, <2>3
  <1> QED
    BY <1>1, <1>2, <1>4, <1>5 DEF PhrasesParsed

LEMMA EveryLevelParsed ==
    ASSUME NEW n \in Nat
    PROVE  ShorterParsed(Levels(FALSE)[n])
  <1> DEFINE S == {k \in Nat : k # 0 => PhrasesParsed(At(FALSE, k))}
  <1>0. ASSUME NEW m \in Nat, \A k \in Nat : k # 0 /\ k <= m => PhrasesParsed(At(FALSE, k))
        PROVE  ShorterParsed(Levels(FALSE)[m])
    <2>1. ASSUME NEW k \in Int PROVE PhrasesParsed(Of(Levels(FALSE)[m], k))
      <3>1. CASE k \in 1 .. m
        <4>1. k \in Nat /\ k # 0 /\ k <= m
          BY <3>1
        <4>2. PhrasesParsed(At(FALSE, k))
          BY <1>0, <4>1
        <4> QED
          BY <3>1, <4>2, OfShorter
      <3>2. CASE k \notin 1 .. m
        <4> DEFINE none == [values |-> {}, elements |-> {}, members |-> {}]
        <4>1. Of(Levels(FALSE)[m], k) = none
          BY <3>2, OfNone
        <4>2. PhrasesParsed(none)
          BY DEF PhrasesParsed
        <4> QED
          BY <4>1, <4>2
      <3> QED
        BY <3>1, <3>2
    <2> QED
      BY <2>1 DEF ShorterParsed
  <1>1. ASSUME NEW m \in Nat, \A k \in Nat : k < m => k \in S PROVE m \in S
    <2> SUFFICES ASSUME m # 0 PROVE PhrasesParsed(At(FALSE, m))
      OBVIOUS
    <2>1. m - 1 \in Nat /\ \A k \in Nat : k <= m - 1 => k < m
      OBVIOUS
    <2>2. \A k \in Nat : k # 0 /\ k <= m - 1 => PhrasesParsed(At(FALSE, k))
      BY <1>1, <2>1
    <2>3. ShorterParsed(Levels(FALSE)[m - 1])
      BY <1>0, <2>1, <2>2
    <2>4. At(FALSE, m) = Level(Levels(FALSE)[m - 1], m, FALSE)
      BY AtIsLevel
    <2> QED
      BY <2>3, <2>4, LevelIsParsed
  <1>2. Nat \subseteq S
    <2> HIDE DEF S
    <2> QED
      BY <1>1, StrongInduction
  <1>3. \A k \in Nat : k # 0 /\ k <= n => PhrasesParsed(At(FALSE, k))
    BY <1>2
  <1> QED
    BY <1>0, <1>3

Start == Frame("fromString", "begin", Plain("null"))

\* Every document is read from the call of fromString on, and leaves its value
\* in the frame of that call.
LEMMA DocumentRun ==
    ASSUME NEW d \in Strict
    PROVE  /\ d = Phrase(d.text, d.value)
           /\ d.text \in Seq(Lexemes)
           /\ \E g : Run(<<Start>>, d.text, <<g>>) /\ g.value = d.value
  <1>1. PICK k \in 1 .. MaxLength :
          d \in Levels(FALSE)[MaxLength][k].values /\ d.value.type \in {"{", "["}
    BY DEF Strict, Documents
  <1>2. k \in Nat /\ k # 0 /\ k - 1 \in Nat
    BY JsonAssumption
  <1> DEFINE shorter == Levels(FALSE)[k - 1]
  <1>3. d \in ScalarValues(k) \cup Arrays(shorter, k, FALSE) \cup Objects(shorter, k, FALSE)
    <2>1. d \in At(FALSE, k).values
      BY <1>1, JsonAssumption, LevelsShape
    <2> QED
      BY <1>2, <2>1, LevelParts
  <1>4. d \notin ScalarValues(k)
    <2> SUFFICES ASSUME d \in ScalarValues(k) PROVE FALSE
      OBVIOUS
    <2>1. PICK c \in Scalars : d = Phrase(<<c>>, Plain(c))
      BY DEF ScalarValues
    <2>2. d.value = Plain(c)
      BY <2>1, PhraseFields
    <2>3. Plain(c).type = c
      BY DEF Plain
    <2> QED
      BY <1>1, <2>2, <2>3 DEF Scalars, Names
  <1>5. ContainerParsed("[", d) \/ ContainerParsed("{", d)
    <2>1. ShorterParsed(shorter)
      BY <1>2, EveryLevelParsed
    <2> HIDE DEF shorter
    <2> QED
      BY <1>2, <1>3, <1>4, <2>1, ContainersParsed
  <1>6. /\ IsFrame(Start) /\ Start.function = "fromString" /\ Start.at = "begin"
    BY DEF Start, Frame, IsFrame
  <1>7. CallsOn(Start, "[") /\ CallsOn(Start, "{")
    BY <1>6 DEF CallsOn, CallsAnother, Goes, FromStringGoes
  <1>8. IsSequence(<<>>)
    <2>1. <<>> \in Seq({})
      OBVIOUS
    <2> QED
      BY <2>1 DEF IsSequence
  <1>9. ASSUME NEW c, ContainerParsed(c, d), CallsOn(Start, c)
        PROVE  \E g : Run(<<Start>>, d.text, <<g>>) /\ g.value = d.value
    <2> DEFINE e == WithAt(Start, Goes(Start, c))
               w == d.value
    <2>1. Run(Append(<<>>, Start), d.text, Append(<<>>, Filled(e, w)))
      BY <1>8, <1>9 DEF ContainerParsed
    <2>2. IsFrame(e) /\ e.function = "fromString"
      BY <1>6, FrameKept
    <2> HIDE DEF e, w
    <2>3. Filled(e, w).value = w
      BY <2>2, FrameFilled
    <2>4. \A x : Append(<<>>, x) = <<x>>
      OBVIOUS
    <2>5. Run(<<Start>>, d.text, <<Filled(e, w)>>)
      BY <2>1, <2>4
    <2> QED
      BY <2>3, <2>5 DEF w
  <1>10. d.text \in Seq(Lexemes)
    BY <1>5 DEF ContainerParsed
  <1>11. d = Phrase(d.text, d.value)
    <2>1. \E t, v : d = Phrase(t, v)
      BY <1>3, <1>4 DEF Arrays, Objects, Closed
    <2> QED
      BY <2>1, PhraseFields
  <1> QED
    BY <1>5, <1>7, <1>9, <1>10, <1>11

CompleteInv ==
    /\ text \in Seq(Lexemes)
    /\ status \in {"reading", "returned", "unterminated"} => Run(<<Start>>, text, frames)
    /\ status = "unterminated" => Len(frames) # 1
    /\ status = "thrown" =>
         \E s \in Seq(Lexemes), c \in Lexemes :
            /\ text = Append(s, c)
            /\ Run(<<Start>>, s, frames)
            /\ Goes(Last(frames), c) = "throws"

LEMMA CompleteInitially ==
    Init => CompleteInv
  <1> SUFFICES ASSUME Init PROVE CompleteInv
    OBVIOUS
  <1>1. frames = <<Start>> /\ text = <<>> /\ status = "reading"
    BY DEF Init, Start
  <1>2. Run(<<Start>>, <<>>, <<Start>>)
    BY EmptyRun
  <1>3. <<>> \in Seq(Lexemes)
    OBVIOUS
  <1> QED
    BY <1>1, <1>2, <1>3 DEF CompleteInv

\* A bracket that calls a function goes on, in the frames that there are.
LEMMA CallGoesOn ==
    ASSUME NEW f, NEW s, Reads(f, s), NEW c, CallsAnother(f, c)
    PROVE  CallsOn(f, c)
  <1>1. c = "{" \/ c = "["
    BY DEF CallsAnother
  <1>2. CASE f.function = "fromString" /\ StringReads(f, s)
    <2>1. f.at = "begin"
      BY <1>2 DEF StringReads, CallsAnother
    <2> QED
      BY <1>1, <1>2, <2>1 DEF CallsOn, Goes, FromStringGoes
  <1>3. CASE f.function = "parseArray" /\ ArrayReads(f, s)
    <2>1. f.at = "val"
      BY <1>3 DEF ArrayReads, CallsAnother
    <2> QED
      BY <1>1, <1>3, <2>1 DEF CallsOn, Goes, ParseArrayGoes, StartsValue
  <1>4. CASE f.function = "parseObject" /\ ObjectReads(f, s)
    <2>1. f.at = "val"
      BY <1>4 DEF ObjectReads, CallsAnother
    <2> QED
      BY <1>1, <1>4, <2>1 DEF CallsOn, Goes, ParseObjectGoes, StartsValue
  <1> QED
    BY <1>2, <1>3, <1>4 DEF Reads

LEMMA CompleteStep ==
    SoundInv /\ CompleteInv /\ [Next]_vars => CompleteInv'
  <1> SUFFICES ASSUME SoundInv, CompleteInv, [Next]_vars PROVE CompleteInv'
    OBVIOUS
  <1>1. ASSUME NEW c \in Lexemes, Read(c) PROVE CompleteInv'
    <2>1. /\ text' = Append(text, c) /\ text \in Seq(Lexemes) /\ text' \in Seq(Lexemes)
          /\ Linked(frames, text) /\ Run(<<Start>>, text, frames)
      BY <1>1 DEF Read, SoundInv, CompleteInv
    <2>2. ASSUME StepTo(frames, c, frames'), status' = "reading" PROVE CompleteInv'
      <3>1. Run(frames, <<c>>, frames')
        BY <2>2, RunOfOne
      <3>2. <<c>> \in Seq(Lexemes) /\ text' = text \o <<c>>
        BY <2>1, Lexical, Ended
      <3>3. Run(<<Start>>, text', frames')
        BY <2>1, <3>1, <3>2, RunJoined
      <3> QED
        BY <2>1, <2>2, <3>3 DEF CompleteInv
    <2>3. CASE Calls(c) /\ status' = "reading"
      <3>1. CallsAnother(Last(frames), c)
        BY <2>3 DEF Calls, Callee, CallsAnother
      <3>2. frames' = Append(Append(Front(frames),
                                WithAt(Last(frames), Goes(Last(frames), c))), Called(c))
        BY <2>3 DEF Calls, Callee, Caller, WithAt, Called
      <3>3. \E s : Reads(Last(frames), s)
        BY <2>1, Replaced DEF Linked, LinkedBy
      <3>4. CallsOn(Last(frames), c)
        BY <3>1, <3>3, CallGoesOn
      <3>5. StepTo(frames, c, frames')
        BY <3>2, <3>4 DEF StepTo
      <3> QED
        BY <2>2, <2>3, <3>5
    <2>4. CASE Returns(c) /\ status' = "reading"
      <3>1. StepTo(frames, c, frames')
        BY <2>4 DEF Returns, Callee, Caller, StepTo
      <3> QED
        BY <2>2, <2>4, <3>1
    <2>5. CASE Takes(c) /\ status' = "reading"
      <3>1. TakesItself(Last(frames), c)
        BY <2>5 DEF Takes, Callee, TakesItself
      <3>2. frames' = Append(Front(frames), Taken(Last(frames), c))
        BY <2>5 DEF Takes, Callee, Caller, WithAt, WithKey, Taken
      <3>3. StepTo(frames, c, frames')
        BY <3>1, <3>2 DEF StepTo
      <3> QED
        BY <2>2, <2>5, <3>3
    <2>6. CASE Throws(c) /\ status' = "thrown"
      <3>1. Goes(Last(frames), c) = "throws" /\ frames' = frames
        BY <2>6 DEF Throws, Callee
      <3> QED
        BY <2>1, <2>6, <3>1 DEF CompleteInv
    <2> QED
      BY <1>1, <2>3, <2>4, <2>5, <2>6 DEF Read
  <1>2. CASE ReadEnd
    BY <1>2 DEF ReadEnd, AtEnd, CompleteInv
  <1>3. CASE UNCHANGED vars
    BY <1>3 DEF vars, CompleteInv
  <1> QED
    BY <1>1, <1>2, <1>3 DEF Next

\* The first m lexemes of a text, and the one after them.
LEMMA PrefixRead ==
    ASSUME NEW t \in Seq(Lexemes), NEW k \in 1 .. Len(t),
           NEW s \in Seq(Lexemes), NEW c \in Lexemes, Append(s, c) = SubSeq(t, 1, k)
    PROVE  Alike(t, s, Len(s)) /\ k - 1 = Len(s) /\ t[k] = c
  <1>1. Len(Append(s, c)) = Len(s) + 1 /\ Len(s) \in Nat
    OBVIOUS
  <1>2. Len(SubSeq(t, 1, k)) = k
    OBVIOUS
  <1>3. Len(s) + 1 = k
    BY <1>1, <1>2
  <1>4. Len(t) \in Nat /\ Len(s) <= Len(t)
    BY <1>1, <1>3
  <1>5. \A i \in 1 .. k : SubSeq(t, 1, k)[i] = t[i]
    OBVIOUS
  <1>6. ASSUME NEW i \in 1 .. Len(s) PROVE t[i] = s[i]
    <2>1. i \in 1 .. k
      BY <1>1, <1>3
    <2>2. Append(s, c)[i] = s[i]
      OBVIOUS
    <2> QED
      BY <1>5, <2>1, <2>2
  <1>7. t[k] = c
    <2>1. Append(s, c)[Len(s) + 1] = c
      OBVIOUS
    <2>2. k \in 1 .. k
      BY <1>1, <1>3
    <2> QED
      BY <1>3, <1>5, <2>1, <2>2
  <1> QED
    BY <1>1, <1>3, <1>4, <1>6, <1>7 DEF Alike

\* A run over a text that begins with another has passed where a run over the
\* other ends.
LEMMA RunPasses ==
    ASSUME NEW fs, NEW t \in Seq(Lexemes), NEW gs, NEW q, RunBy(q, fs, t, gs),
           NEW u \in Seq(Lexemes), NEW hs, Run(fs, u, hs),
           Alike(t, u, Len(u))
    PROVE  q[Len(u)] = hs
  <1>1. PICK r : RunBy(r, fs, u, hs)
    BY DEF Run
  <1>2. q[Len(u)] = r[Len(u)]
    BY <1>1, RunsAgree
  <1>3. r[Len(u)] = hs
    BY <1>1 DEF RunBy
  <1> QED
    BY <1>2, <1>3

\* Frames that have read what a text that can be read begins with can go on
\* with its next lexeme.
LEMMA RunGoesOn ==
    ASSUME NEW t \in Seq(Lexemes), NEW fs, NEW gs, Run(fs, t, gs),
           NEW k \in 1 .. Len(t),
           NEW s \in Seq(Lexemes), NEW c \in Lexemes, Append(s, c) = SubSeq(t, 1, k),
           NEW hs, Run(fs, s, hs)
    PROVE  \E is : StepTo(hs, c, is)
  <1>1. PICK q : RunBy(q, fs, t, gs)
    BY DEF Run
  <1>2. q[Len(s)] = hs
    BY <1>1, PrefixRead, RunPasses
  <1>3. StepTo(q[k - 1], t[k], q[k])
    BY <1>1 DEF RunBy
  <1>4. k - 1 = Len(s) /\ t[k] = c
    BY PrefixRead
  <1> QED
    BY <1>2, <1>3, <1>4

LEMMA CompleteImplies ==
    CompleteInv => ParsesEveryDocument
  <1> SUFFICES ASSUME CompleteInv PROVE ParsesEveryDocument
    OBVIOUS
  <1>1. ASSUME status = "thrown", text \in Beginnings PROVE FALSE
    <2>1. PICK d \in Strict : \E k \in 1 .. Len(d.text) : text = SubSeq(d.text, 1, k)
      BY <1>1 DEF Beginnings, Texts
    <2>2. PICK k \in 1 .. Len(d.text) : text = SubSeq(d.text, 1, k)
      BY <2>1
    <2>3. PICK s \in Seq(Lexemes), c \in Lexemes :
            text = Append(s, c) /\ Run(<<Start>>, s, frames) /\ Goes(Last(frames), c) = "throws"
      BY <1>1 DEF CompleteInv
    <2>4. d.text \in Seq(Lexemes) /\ \E g : Run(<<Start>>, d.text, <<g>>)
      BY DocumentRun
    <2>5. Append(s, c) = SubSeq(d.text, 1, k)
      BY <2>2, <2>3
    <2>6. \E hs : StepTo(frames, c, hs)
      BY <2>2, <2>3, <2>4, <2>5, RunGoesOn
    <2> QED
      BY <2>3, <2>6, OneStep
  <1>2. ASSUME NEW d \in Strict, status \in {"returned", "unterminated"}, text = d.text
        PROVE  Len(frames) = 1 /\ Parsed = d.value
    <2>1. PICK g : Run(<<Start>>, text, <<g>>) /\ g.value = d.value
      BY <1>2, DocumentRun
    <2>2. PICK q : RunBy(q, <<Start>>, text, <<g>>)
      BY <2>1 DEF Run
    <2>3. text \in Seq(Lexemes) /\ Run(<<Start>>, text, frames)
      BY <1>2 DEF CompleteInv
    <2>4. PICK r : RunBy(r, <<Start>>, text, frames)
      BY <2>3 DEF Run
    <2>5. Alike(text, text, Len(text))
      BY <2>3 DEF Alike
    <2>6. q[Len(text)] = r[Len(text)]
      BY <2>2, <2>3, <2>4, <2>5, RunsAgree
    <2>7. frames = <<g>>
      BY <2>2, <2>4, <2>6 DEF RunBy
    <2>8. Len(<<g>>) = 1 /\ <<g>>[1] = g
      OBVIOUS
    <2> QED
      BY <2>1, <2>7, <2>8 DEF Parsed
  <1>3. ASSUME NEW d \in Strict
        PROVE  d = [text |-> d.text, value |-> d.value]
    BY DocumentRun DEF Phrase
  <1>4. ASSUME status = "unterminated", text \in Texts PROVE FALSE
    <2>1. PICK d \in Strict : text = d.text
      BY <1>4 DEF Texts
    <2>2. Len(frames) = 1
      BY <1>2, <1>4, <2>1
    <2> QED
      BY <1>4, <2>2 DEF CompleteInv
  <1>5. ASSUME status = "returned", text \in Texts
        PROVE  [text |-> text, value |-> Parsed] \in Strict
    <2>1. PICK d \in Strict : text = d.text
      BY <1>5 DEF Texts
    <2>2. Parsed = d.value
      BY <1>2, <1>5, <2>1
    <2> QED
      BY <1>3, <2>1, <2>2
  <1> QED
    BY <1>1, <1>4, <1>5 DEF ParsesEveryDocument

\* No exception leaves fromString while or after it reads a document without
\* empty names, and what it returns is the value the document denotes: for
\* documents of every length.
THEOREM EveryDocumentIsParsed ==
    Spec => []ParsesEveryDocument
  <1>1. Init => SoundInv /\ CompleteInv
    BY SoundInitially, CompleteInitially
  <1>2. SoundInv /\ CompleteInv /\ [Next]_vars => (SoundInv /\ CompleteInv)'
    BY SoundStep, CompleteStep
  <1>3. CompleteInv => ParsesEveryDocument
    BY CompleteImplies
  <1> QED
    BY <1>1, <1>2, <1>3, PTL DEF Spec

=============================================================================
