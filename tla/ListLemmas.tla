------------------------------- MODULE ListLemmas -------------------------------
(***************************************************************************)
(* What the operators on lists return, for lists of any length.  A fact    *)
(* about a recursive function is proved by its least counterexample, which *)
(* a non-empty set of numbers has.                                         *)
(***************************************************************************)
EXTENDS Lists, SequenceTheorems, NaturalsInduction, WellFoundedInduction, TLAPS

-----------------------------------------------------------------------------
(* The elements of a list. *)

\* A non-empty set of natural numbers has a least member.
LEMMA MinInSet ==
  ASSUME NEW I \in SUBSET Nat, I # {}
  PROVE  Min(I) \in I /\ \A y \in I : Min(I) <= y
<1>1. \E x \in I : \A y \in I : ~ (<<y, x>> \in OpToRel(<, Nat))
  BY NatLessThanWellFounded, WFMin
<1>2. \A x, y \in Nat : y < x => <<y, x>> \in OpToRel(<, Nat)
  BY DEF OpToRel
<1>3. \E x \in I : \A y \in I : ~ (y < x)
  BY <1>1, <1>2, Zenon
<1>4. \E x \in I : \A y \in I : x <= y
  BY <1>3
<1> QED
  BY <1>4 DEF Min

LEMMA AppendElements ==
  ASSUME NEW S, NEW s \in Seq(S), NEW e \in S
  PROVE  /\ Append(s, e) \in Seq(S)
         /\ ToSet(Append(s, e)) = ToSet(s) \cup {e}
<1>1. /\ Append(s, e) \in Seq(S) /\ Len(Append(s, e)) = Len(s) + 1
      /\ \A i \in 1 .. Len(s) : Append(s, e)[i] = s[i]
      /\ Append(s, e)[Len(s) + 1] = e
  BY AppendProperties
<1>2. DOMAIN s = 1 .. Len(s) /\ DOMAIN Append(s, e) = 1 .. Len(s) + 1 /\ Len(s) \in Nat
  BY <1>1, LenProperties
<1>3. 1 .. Len(s) + 1 = (1 .. Len(s)) \cup {Len(s) + 1}
  BY <1>2
<1> QED
  BY <1>1, <1>2, <1>3 DEF ToSet

LEMMA TailElements ==
  ASSUME NEW S, NEW s \in Seq(S), s # <<>>
  PROVE  /\ Head(s) \in S /\ Tail(s) \in Seq(S)
         /\ ToSet(s) = {Head(s)} \cup ToSet(Tail(s))
<1>1. /\ Head(s) \in S /\ Tail(s) \in Seq(S) /\ Len(Tail(s)) = Len(s) - 1
      /\ \A i \in 1 .. Len(Tail(s)) : Tail(s)[i] = s[i + 1]
  BY HeadTailProperties
<1>2. /\ Len(s) \in Nat \ {0} /\ DOMAIN s = 1 .. Len(s) /\ Head(s) = s[1]
      /\ DOMAIN Tail(s) = 1 .. Len(s) - 1
  BY <1>1, LenProperties
<1> DEFINE t == Tail(s)
<1>3. \A i \in 1 .. Len(s) : i = 1 \/ (i - 1 \in DOMAIN t /\ t[i - 1] = s[i])
  <2>1. \A i \in 1 .. Len(s) : i = 1 \/ (i - 1 \in 1 .. Len(s) - 1 /\ i - 1 + 1 = i)
    BY <1>2
  <2> QED
    BY <1>1, <1>2, <2>1
<1>4. \A i \in DOMAIN t : i + 1 \in DOMAIN s /\ t[i] = s[i + 1]
  BY <1>1, <1>2
<1>5. 1 \in DOMAIN s
  BY <1>2
<1> HIDE DEF t
<1>6. ToSet(s) \subseteq {s[1]} \cup ToSet(t)
  <2> SUFFICES ASSUME NEW i \in DOMAIN s PROVE s[i] = s[1] \/ \E j \in DOMAIN t : t[j] = s[i]
    BY DEF ToSet
  <2> QED
    BY <1>2, <1>3
<1>7. {s[1]} \cup ToSet(t) \subseteq ToSet(s)
  BY <1>4, <1>5 DEF ToSet
<1> QED
  BY <1>1, <1>2, <1>6, <1>7 DEF t

LEMMA ConcatElements ==
  ASSUME NEW S, NEW s \in Seq(S), NEW t \in Seq(S)
  PROVE  /\ s \o t \in Seq(S)
         /\ ToSet(s \o t) = ToSet(s) \cup ToSet(t)
<1> DEFINE r == s \o t
<1>0. /\ Len(s) \in Nat /\ DOMAIN s = 1 .. Len(s)
      /\ Len(t) \in Nat /\ DOMAIN t = 1 .. Len(t)
  BY LenProperties
<1>1. /\ r \in Seq(S) /\ Len(r) = Len(s) + Len(t)
      /\ \A i \in 1 .. Len(s) + Len(t) :
           r[i] = IF i <= Len(s) THEN s[i] ELSE t[i - Len(s)]
  BY ConcatProperties
<1> HIDE DEF r
<1>2. DOMAIN r = 1 .. Len(s) + Len(t)
  BY <1>1, LenProperties
<1>3. ASSUME NEW i \in 1 .. Len(s) PROVE s[i] \in ToSet(r)
  <2>1. i \in 1 .. Len(s) + Len(t) /\ i <= Len(s)
    BY <1>0
  <2> QED
    BY <1>1, <1>2, <2>1 DEF ToSet
<1>4. ASSUME NEW i \in 1 .. Len(t) PROVE t[i] \in ToSet(r)
  <2> DEFINE j == Len(s) + i
  <2>1. j \in 1 .. Len(s) + Len(t) /\ ~(j <= Len(s)) /\ j - Len(s) = i
    BY <1>0
  <2> HIDE DEF j
  <2>2. r[j] = t[i]
    BY <1>1, <2>1
  <2> QED
    BY <1>2, <2>1, <2>2 DEF ToSet
<1>5. ASSUME NEW i \in 1 .. Len(s) + Len(t) PROVE r[i] \in ToSet(s) \cup ToSet(t)
  <2>1. CASE i <= Len(s)
    <3>1. i \in 1 .. Len(s)
      BY <1>0, <2>1
    <3> QED
      BY <1>0, <1>1, <2>1, <3>1 DEF ToSet
  <2>2. CASE ~(i <= Len(s))
    <3>1. i - Len(s) \in 1 .. Len(t)
      BY <1>0, <2>2
    <3> QED
      BY <1>0, <1>1, <2>2, <3>1 DEF ToSet
  <2> QED
    BY <2>1, <2>2
<1>6. ToSet(r) \subseteq ToSet(s) \cup ToSet(t)
  BY <1>2, <1>5 DEF ToSet
<1>7. ToSet(s) \cup ToSet(t) \subseteq ToSet(r)
  BY <1>0, <1>3, <1>4 DEF ToSet
<1> QED
  BY <1>1, <1>6, <1>7 DEF r

\* The entries of a list that loses one.
LEMMA RemoveAtEntries ==
  ASSUME NEW S, NEW s \in Seq(S), NEW k \in 1 .. Len(s)
  PROVE  /\ RemoveAt(s, k) \in Seq(S) /\ Len(RemoveAt(s, k)) = Len(s) - 1
         /\ \A i \in 1 .. Len(s) - 1 :
              RemoveAt(s, k)[i] = IF i < k THEN s[i] ELSE s[i + 1]
<1> DEFINE a == SubSeq(s, 1, k - 1)
           b == SubSeq(s, k + 1, Len(s))
<1>0. Len(s) \in Nat /\ DOMAIN s = 1 .. Len(s) /\ \A i \in 1 .. Len(s) : s[i] \in S
  BY LenProperties, ElementOfSeq
<1>1. a \in Seq(S) /\ Len(a) = k - 1 /\ \A i \in 1 .. k - 1 : a[i] = s[i]
  <2>1. \A i \in 1 .. k - 1 : s[i] \in S
    BY <1>0
  <2>2. 1 \in Int /\ k - 1 \in Int
    OBVIOUS
  <2> QED
    BY <2>1, <2>2, SubSeqProperties
<1>2. /\ b \in Seq(S) /\ Len(b) = Len(s) - k
      /\ \A i \in 1 .. Len(s) - k : b[i] = s[k + i]
  <2>1. \A i \in k + 1 .. Len(s) : s[i] \in S
    BY <1>0
  <2>2. k + 1 \in Int /\ Len(s) \in Int
    BY <1>0
  <2>3. /\ b \in Seq(S) /\ Len(b) = IF k + 1 <= Len(s) THEN Len(s) - (k + 1) + 1 ELSE 0
        /\ \A i \in 1 .. Len(s) - (k + 1) + 1 : b[i] = s[k + 1 + i - 1]
    BY <2>1, <2>2, SubSeqProperties
  <2> HIDE DEF b
  <2>4. k \in Nat /\ k <= Len(s)
    BY <1>0
  <2>5. Len(b) = Len(s) - k
    <3>1. CASE k = Len(s)
      <4>1. ~(k + 1 <= Len(s)) /\ Len(s) - k = 0
        BY <2>4, <3>1
      <4> QED
        BY <2>3, <4>1
    <3>2. CASE k < Len(s)
      <4>1. k + 1 <= Len(s) /\ Len(s) - (k + 1) + 1 = Len(s) - k
        BY <1>0, <2>4, <3>2
      <4> QED
        BY <2>3, <4>1
    <3>3. k = Len(s) \/ k < Len(s)
      <4>1. \A x, y \in Nat : x <= y => x = y \/ x < y
        OBVIOUS
      <4> QED
        BY <1>0, <2>4, <4>1, Zenon
    <3> QED
      BY <3>1, <3>2, <3>3
  <2>6. \A i \in 1 .. Len(s) - k : b[i] = s[k + i]
    <3> TAKE i \in 1 .. Len(s) - k
    <3>1. Len(s) - (k + 1) + 1 = Len(s) - k /\ k + 1 + i - 1 = k + i
      BY <1>0, <2>4
    <3>2. b[i] = s[k + 1 + i - 1]
      BY <2>3, <3>1
    <3> QED
      BY <3>1, <3>2
  <2> QED
    BY <2>3, <2>5, <2>6
<1> HIDE DEF a, b
<1>k. k \in Nat /\ k <= Len(s)
  BY <1>0
<1>3. /\ a \o b \in Seq(S) /\ Len(a \o b) = Len(s) - 1
      /\ \A i \in 1 .. Len(s) - 1 :
           (a \o b)[i] = IF i <= k - 1 THEN a[i] ELSE b[i - (k - 1)]
  <2>1. /\ a \o b \in Seq(S) /\ Len(a \o b) = Len(a) + Len(b)
        /\ \A i \in 1 .. Len(a) + Len(b) :
             (a \o b)[i] = IF i <= Len(a) THEN a[i] ELSE b[i - Len(a)]
    BY <1>1, <1>2, ConcatProperties
  <2>2. Len(a) + Len(b) = Len(s) - 1
    BY <1>0, <1>1, <1>2, <1>k
  <2> QED
    BY <1>1, <2>1, <2>2
<1>4. DOMAIN (a \o b) = 1 .. Len(s) - 1
  BY <1>3
<1>5. RemoveAt(s, k) = a \o b
  BY DEF RemoveAt, a, b
<1> DEFINE r == a \o b
<1>6. \A i \in 1 .. Len(s) - 1 : r[i] = IF i <= k - 1 THEN s[i] ELSE s[i + 1]
  <2> TAKE i \in 1 .. Len(s) - 1
  <2>1. CASE i <= k - 1
    BY <1>0, <1>1, <1>3, <1>k, <2>1
  <2>2. CASE i > k - 1
    <3>1. i - (k - 1) \in 1 .. Len(s) - k /\ k + (i - (k - 1)) = i + 1
      BY <1>0, <1>k, <2>2
    <3>2. b[i - (k - 1)] = s[i + 1]
      BY <1>2, <3>1
    <3> QED
      BY <1>0, <1>3, <1>k, <2>2, <3>2
  <2>3. i <= k - 1 \/ i > k - 1
    BY <1>k
  <2> QED
    BY <2>1, <2>2, <2>3
<1>7. \A i \in 1 .. Len(s) - 1 : i <= k - 1 <=> i < k
  BY <1>k
<1> QED
  BY <1>3, <1>5, <1>6, <1>7

\* Its elements, and that no element comes twice in it if none did.
LEMMA RemoveAtElements ==
  ASSUME NEW S, NEW s \in Seq(S), NEW k \in 1 .. Len(s)
  PROVE  /\ RemoveAt(s, k) \in Seq(S)
         /\ ToSet(RemoveAt(s, k)) \subseteq ToSet(s)
         /\ ToSet(s) \subseteq ToSet(RemoveAt(s, k)) \cup {s[k]}
         /\ IsInjective(s) =>
              /\ IsInjective(RemoveAt(s, k))
              /\ ToSet(RemoveAt(s, k)) = ToSet(s) \ {s[k]}
<1> DEFINE r == RemoveAt(s, k)
<1>0. Len(s) \in Nat /\ DOMAIN s = 1 .. Len(s) /\ k \in Nat /\ k <= Len(s)
  BY LenProperties
<1>1. /\ r \in Seq(S) /\ Len(r) = Len(s) - 1
      /\ \A i \in 1 .. Len(s) - 1 : r[i] = IF i < k THEN s[i] ELSE s[i + 1]
  BY RemoveAtEntries
<1> HIDE DEF r
<1>2. DOMAIN r = 1 .. Len(s) - 1
  BY <1>0, <1>1, LenProperties
<1>3. ASSUME NEW i \in 1 .. Len(s) - 1
      PROVE  \E j \in 1 .. Len(s) : j # k /\ r[i] = s[j] /\ (j = i \/ j = i + 1)
  <2>1. CASE i < k
    BY <1>0, <1>1, <2>1
  <2>2. CASE ~(i < k)
    <3>1. i + 1 \in 1 .. Len(s) /\ i + 1 # k /\ r[i] = s[i + 1]
      BY <1>0, <1>1, <2>2
    <3> QED
      BY <3>1
  <2> QED
    BY <2>1, <2>2
<1>4. ASSUME NEW i \in 1 .. Len(s), i # k PROVE s[i] \in ToSet(r)
  <2>1. CASE i < k
    BY <1>0, <1>1, <1>2, <2>1 DEF ToSet
  <2>2. CASE i > k
    <3>1. i - 1 \in 1 .. Len(s) - 1 /\ ~(i - 1 < k) /\ i - 1 + 1 = i
      BY <1>0, <2>2
    <3> QED
      BY <1>1, <1>2, <3>1 DEF ToSet
  <2> QED
    BY <1>0, <1>4, <2>1, <2>2
<1>5. ToSet(r) \subseteq ToSet(s)
  BY <1>0, <1>2, <1>3 DEF ToSet
<1>6. ToSet(s) \subseteq ToSet(r) \cup {s[k]}
  BY <1>0, <1>4 DEF ToSet
<1>7. ASSUME IsInjective(s)
      PROVE  IsInjective(r) /\ ToSet(r) = ToSet(s) \ {s[k]}
  <2>1. \A a, b \in 1 .. Len(s) : s[a] = s[b] => a = b
    BY <1>0, <1>7 DEF IsInjective
  <2>2. s[k] \notin ToSet(r)
    BY <1>2, <1>3, <2>1 DEF ToSet
  <2>3. ASSUME NEW a \in 1 .. Len(s) - 1, NEW b \in 1 .. Len(s) - 1, r[a] = r[b]
        PROVE  a = b
    <3>1. a \in 1 .. Len(s) /\ a + 1 \in 1 .. Len(s) /\ b \in 1 .. Len(s)
          /\ b + 1 \in 1 .. Len(s)
      BY <1>0
    <3>2. r[a] = (IF a < k THEN s[a] ELSE s[a + 1]) /\ r[b] = (IF b < k THEN s[b] ELSE s[b + 1])
      BY <1>1
    <3>3. CASE a < k /\ b < k
      BY <2>1, <2>3, <3>1, <3>2, <3>3
    <3>4. CASE ~(a < k) /\ ~(b < k)
      <4>1. a + 1 = b + 1
        BY <2>1, <2>3, <3>1, <3>2, <3>4
      <4> QED
        BY <4>1
    <3>5. CASE a < k /\ ~(b < k)
      <4>1. a = b + 1
        BY <2>1, <2>3, <3>1, <3>2, <3>5
      <4> QED
        BY <1>0, <3>5, <4>1
    <3>6. CASE ~(a < k) /\ b < k
      <4>1. a + 1 = b
        BY <2>1, <2>3, <3>1, <3>2, <3>6
      <4> QED
        BY <1>0, <3>6, <4>1
    <3> QED
      BY <3>3, <3>4, <3>5, <3>6
  <2> QED
    BY <1>2, <1>5, <1>6, <2>2, <2>3 DEF IsInjective
<1> QED
  BY <1>1, <1>5, <1>6, <1>7 DEF r

\* The entries of a list that gains one.
LEMMA InsertAtEntries ==
  ASSUME NEW S, NEW s \in Seq(S), NEW k \in 1 .. Len(s) + 1, NEW x \in S
  PROVE  /\ InsertAt(s, k, x) \in Seq(S) /\ Len(InsertAt(s, k, x)) = Len(s) + 1
         /\ \A i \in 1 .. Len(s) + 1 :
              InsertAt(s, k, x)[i] = IF i < k THEN s[i]
                                     ELSE IF i = k THEN x ELSE s[i - 1]
<1> DEFINE a == SubSeq(s, 1, k - 1)
           b == SubSeq(s, k, Len(s))
           c == <<x>>
<1>0. /\ Len(s) \in Nat /\ \A i \in 1 .. Len(s) : s[i] \in S
      /\ k \in Nat /\ k <= Len(s) + 1 /\ 1 <= k
  BY LenProperties, ElementOfSeq
<1>1. a \in Seq(S) /\ Len(a) = k - 1 /\ \A i \in 1 .. k - 1 : a[i] = s[i]
  <2>1. \A i \in 1 .. k - 1 : s[i] \in S
    BY <1>0
  <2>2. 1 \in Int /\ k - 1 \in Int
    BY <1>0
  <2>3. /\ a \in Seq(S) /\ Len(a) = IF 1 <= k - 1 THEN k - 1 - 1 + 1 ELSE 0
        /\ \A i \in 1 .. k - 1 - 1 + 1 : a[i] = s[1 + i - 1]
    BY <2>1, <2>2, SubSeqProperties
  <2> HIDE DEF a
  <2>4. Len(a) = k - 1
    BY <1>0, <2>3
  <2> QED
    BY <1>0, <2>3, <2>4
<1>2. /\ b \in Seq(S) /\ Len(b) = Len(s) + 1 - k
      /\ \A i \in 1 .. Len(s) + 1 - k : b[i] = s[k + i - 1]
  <2>1. \A i \in k .. Len(s) : s[i] \in S
    BY <1>0
  <2>2. k \in Int /\ Len(s) \in Int
    BY <1>0
  <2>3. /\ b \in Seq(S) /\ Len(b) = IF k <= Len(s) THEN Len(s) - k + 1 ELSE 0
        /\ \A i \in 1 .. Len(s) - k + 1 : b[i] = s[k + i - 1]
    BY <2>1, <2>2, SubSeqProperties
  <2> HIDE DEF b
  <2>4. Len(s) - k + 1 = Len(s) + 1 - k
    BY <1>0
  <2>5. Len(b) = Len(s) + 1 - k
    BY <1>0, <2>3
  <2> QED
    BY <2>3, <2>4, <2>5
<1>3. c \in Seq(S) /\ Len(c) = 1 /\ c[1] = x
  OBVIOUS
<1> HIDE DEF a, b, c
<1>4. /\ a \o c \in Seq(S) /\ Len(a \o c) = k
      /\ \A i \in 1 .. k : (a \o c)[i] = IF i <= k - 1 THEN a[i] ELSE c[i - (k - 1)]
  <2>1. /\ a \o c \in Seq(S) /\ Len(a \o c) = Len(a) + Len(c)
        /\ \A i \in 1 .. Len(a) + Len(c) :
             (a \o c)[i] = IF i <= Len(a) THEN a[i] ELSE c[i - Len(a)]
    BY <1>1, <1>3, ConcatProperties
  <2>2. Len(a) + Len(c) = k
    BY <1>0, <1>1, <1>3
  <2> QED
    BY <1>1, <2>1, <2>2
<1> DEFINE ac == a \o c
<1>5. ac[k] = x /\ \A i \in 1 .. k - 1 : ac[i] = s[i]
  <2>1. k \in 1 .. k /\ ~(k <= k - 1) /\ k - (k - 1) = 1
    BY <1>0
  <2>2. ac[k] = c[1]
    BY <1>4, <2>1
  <2>3. \A i \in 1 .. k - 1 : i \in 1 .. k /\ i <= k - 1
    BY <1>0
  <2>4. \A i \in 1 .. k - 1 : ac[i] = a[i]
    BY <1>4, <2>3
  <2> HIDE DEF ac
  <2> QED
    BY <1>1, <1>3, <2>2, <2>4
<1>6. ac \in Seq(S) /\ Len(ac) = k
  BY <1>4
<1> HIDE DEF ac
<1> DEFINE r == ac \o b
<1>7. /\ r \in Seq(S) /\ Len(r) = Len(s) + 1
      /\ \A i \in 1 .. Len(s) + 1 : r[i] = IF i <= k THEN ac[i] ELSE b[i - k]
  <2>1. /\ r \in Seq(S) /\ Len(r) = Len(ac) + Len(b)
        /\ \A i \in 1 .. Len(ac) + Len(b) :
             r[i] = IF i <= Len(ac) THEN ac[i] ELSE b[i - Len(ac)]
    BY <1>2, <1>6, ConcatProperties
  <2>2. Len(ac) + Len(b) = Len(s) + 1
    BY <1>0, <1>2, <1>6
  <2> QED
    BY <1>6, <2>1, <2>2
<1> HIDE DEF r
<1>8. ASSUME NEW i \in 1 .. Len(s) + 1
      PROVE  r[i] = IF i < k THEN s[i] ELSE IF i = k THEN x ELSE s[i - 1]
  <2>1. CASE i < k
    <3>1. i \in 1 .. k - 1 /\ i <= k
      BY <1>0, <2>1
    <3> QED
      BY <1>5, <1>7, <2>1, <3>1
  <2>2. CASE i = k
    <3>1. i <= k /\ ~(i < k)
      BY <1>0, <2>2
    <3> QED
      BY <1>5, <1>7, <2>2, <3>1
  <2>3. CASE i > k
    <3>1. i - k \in 1 .. Len(s) + 1 - k /\ k + (i - k) - 1 = i - 1 /\ ~(i <= k) /\ ~(i < k) /\ i # k
      BY <1>0, <2>3
    <3>2. r[i] = b[i - k] /\ b[i - k] = s[k + (i - k) - 1]
      BY <1>2, <1>7, <3>1
    <3> QED
      BY <3>1, <3>2
  <2> QED
    BY <1>0, <2>1, <2>2, <2>3
<1>9. InsertAt(s, k, x) = r
  BY DEF InsertAt, a, b, c, ac, r
<1> QED
  BY <1>7, <1>8, <1>9

\* Its elements, and that no element comes twice in it if none did.
LEMMA InsertAtElements ==
  ASSUME NEW S, NEW s \in Seq(S), NEW k \in 1 .. Len(s) + 1, NEW x \in S
  PROVE  /\ InsertAt(s, k, x) \in Seq(S)
         /\ ToSet(InsertAt(s, k, x)) = ToSet(s) \cup {x}
         /\ IsInjective(s) /\ x \notin ToSet(s) => IsInjective(InsertAt(s, k, x))
<1> DEFINE r == InsertAt(s, k, x)
<1>0. /\ Len(s) \in Nat /\ DOMAIN s = 1 .. Len(s)
      /\ k \in Nat /\ 1 <= k /\ k <= Len(s) + 1
  BY LenProperties
<1>1. /\ r \in Seq(S) /\ Len(r) = Len(s) + 1
      /\ \A i \in 1 .. Len(s) + 1 :
           r[i] = IF i < k THEN s[i] ELSE IF i = k THEN x ELSE s[i - 1]
  BY InsertAtEntries
<1> HIDE DEF r
<1>2. DOMAIN r = 1 .. Len(s) + 1
  BY <1>0, <1>1, LenProperties
<1>3. ASSUME NEW i \in 1 .. Len(s) + 1, i # k
      PROVE  \E j \in 1 .. Len(s) : r[i] = s[j]
  <2>1. CASE i < k
    <3>1. i \in 1 .. Len(s)
      BY <1>0, <2>1
    <3> QED
      BY <1>1, <2>1, <3>1
  <2>2. CASE i > k
    <3>1. i - 1 \in 1 .. Len(s) /\ ~(i < k)
      BY <1>0, <2>2
    <3> QED
      BY <1>1, <1>3, <3>1
  <2> QED
    BY <1>0, <1>3, <2>1, <2>2
<1>4. r[k] = x /\ k \in 1 .. Len(s) + 1
  BY <1>0, <1>1
<1>5. ASSUME NEW j \in 1 .. Len(s) PROVE \E i \in 1 .. Len(s) + 1 : r[i] = s[j]
  <2>1. CASE j < k
    <3>1. j \in 1 .. Len(s) + 1
      BY <1>0
    <3> QED
      BY <1>1, <2>1, <3>1
  <2>2. CASE ~(j < k)
    <3>1. j + 1 \in 1 .. Len(s) + 1 /\ ~(j + 1 < k) /\ j + 1 # k /\ j + 1 - 1 = j
      BY <1>0, <2>2
    <3>2. r[j + 1] = s[j + 1 - 1]
      BY <1>1, <3>1
    <3> QED
      BY <3>1, <3>2
  <2> QED
    BY <2>1, <2>2
<1>6. ToSet(r) = ToSet(s) \cup {x}
  <2>1. ToSet(r) \subseteq ToSet(s) \cup {x}
    BY <1>0, <1>2, <1>3, <1>4 DEF ToSet
  <2>2. ToSet(s) \cup {x} \subseteq ToSet(r)
    BY <1>0, <1>2, <1>4, <1>5 DEF ToSet
  <2> QED
    BY <2>1, <2>2
<1>7. ASSUME IsInjective(s), x \notin ToSet(s) PROVE IsInjective(r)
  <2>1. \A a, b \in 1 .. Len(s) : s[a] = s[b] => a = b
    BY <1>0, <1>7 DEF IsInjective
  <2>2. \A j \in 1 .. Len(s) : s[j] # x
    BY <1>0, <1>7 DEF ToSet
  <2>3. SUFFICES ASSUME NEW a \in 1 .. Len(s) + 1, NEW b \in 1 .. Len(s) + 1, r[a] = r[b]
                 PROVE  a = b
    BY <1>2 DEF IsInjective
  <2>4. CASE a = k \/ b = k
    <3>1. a # k => r[a] # x
      BY <1>3, <2>2
    <3>2. b # k => r[b] # x
      BY <1>3, <2>2
    <3> QED
      BY <1>4, <2>3, <2>4, <3>1, <3>2
  <2>5. CASE a < k /\ b < k
    <3>1. a \in 1 .. Len(s) /\ b \in 1 .. Len(s) /\ r[a] = s[a] /\ r[b] = s[b]
      BY <1>0, <1>1, <2>5
    <3> QED
      BY <2>1, <2>3, <3>1
  <2>6. CASE a > k /\ b > k
    <3>1. /\ a - 1 \in 1 .. Len(s) /\ b - 1 \in 1 .. Len(s)
          /\ ~(a < k) /\ ~(b < k) /\ a # k /\ b # k
      BY <1>0, <2>6
    <3>2. a - 1 = b - 1
      BY <1>1, <2>1, <2>3, <3>1
    <3> QED
      BY <3>2
  <2>7. CASE a < k /\ b > k
    <3>1. a \in 1 .. Len(s) /\ b - 1 \in 1 .. Len(s) /\ ~(b < k) /\ b # k
      BY <1>0, <2>7
    <3>2. a = b - 1
      BY <1>1, <2>1, <2>3, <2>7, <3>1
    <3> QED
      BY <1>0, <2>7, <3>2
  <2>8. CASE a > k /\ b < k
    <3>1. b \in 1 .. Len(s) /\ a - 1 \in 1 .. Len(s) /\ ~(a < k) /\ a # k
      BY <1>0, <2>8
    <3>2. b = a - 1
      BY <1>1, <2>1, <2>3, <2>8, <3>1
    <3> QED
      BY <1>0, <2>8, <3>2
  <2> QED
    BY <1>0, <2>4, <2>5, <2>6, <2>7, <2>8
<1> QED
  BY <1>1, <1>6, <1>7 DEF r

\* What the recursive function of Without is for the first n elements.
Keeps(s, S, n, g) ==
  \A i \in 0 .. n :
    g[i] = IF i = 0 THEN <<>>
           ELSE IF s[i] \in S THEN g[i - 1] ELSE Append(g[i - 1], s[i])

\* There is such a function, for each n: the least n without one has none.
LEMMA KeepsExists ==
  ASSUME NEW X, NEW s \in Seq(X), NEW S, NEW n \in 0 .. Len(s)
  PROVE  \E g \in [0 .. n -> Seq(X)] : Keeps(s, S, n, g)
<1> DEFINE bad == {k \in 0 .. Len(s) : ~ \E g \in [0 .. k -> Seq(X)] : Keeps(s, S, k, g)}
<1>1. Len(s) \in Nat /\ \A i \in 1 .. Len(s) : s[i] \in X
  BY LenProperties, ElementOfSeq
<1>2. SUFFICES ASSUME bad # {} PROVE FALSE
  OBVIOUS
<1>3. bad \in SUBSET Nat
  BY <1>1
<1>4. PICK m : m \in bad /\ \A y \in bad : m <= y
  BY <1>2, <1>3, MinInSet
<1>5. m \in Nat /\ m <= Len(s)
  BY <1>1, <1>4
<1>6. CASE m = 0
  <2> DEFINE g == [i \in 0 .. 0 |-> <<>>]
  <2>1. g \in [0 .. 0 -> Seq(X)] /\ \A i \in 0 .. 0 : i = 0
    BY EmptySeq
  <2>2. Keeps(s, S, 0, g)
    BY <2>1 DEF Keeps
  <2> QED
    BY <1>4, <1>6, <2>1, <2>2
<1>7. CASE m # 0
  <2>1. m - 1 \in 0 .. Len(s) /\ ~(m <= m - 1) /\ m \in 1 .. Len(s)
    BY <1>1, <1>5, <1>7
  <2>2. PICK g \in [0 .. m - 1 -> Seq(X)] : Keeps(s, S, m - 1, g)
    BY <1>4, <2>1
  <2> DEFINE last == IF s[m] \in S THEN g[m - 1] ELSE Append(g[m - 1], s[m])
             h == [i \in 0 .. m |-> IF i = m THEN last ELSE g[i]]
  <2>3. last \in Seq(X)
    <3>1. m - 1 \in 0 .. m - 1
      BY <1>5, <2>1
    <3>2. g[m - 1] \in Seq(X) /\ s[m] \in X
      BY <1>1, <2>1, <3>1
    <3> QED
      BY <3>2, AppendProperties
  <2>4. \A i \in 0 .. m : i = m \/ i \in 0 .. m - 1
    BY <1>5
  <2> HIDE DEF last
  <2>5. h \in [0 .. m -> Seq(X)]
    BY <2>3, <2>4
  <2>6. Keeps(s, S, m, h)
    <3> SUFFICES ASSUME NEW i \in 0 .. m
                 PROVE  h[i] = IF i = 0 THEN <<>>
                          ELSE IF s[i] \in S THEN h[i - 1] ELSE Append(h[i - 1], s[i])
      BY DEF Keeps
    <3>1. CASE i = m
      <4>1. m - 1 \in 0 .. m /\ m - 1 # m
        BY <1>5, <2>1
      <4>2. h[m] = last /\ h[m - 1] = g[m - 1]
        BY <1>5, <4>1
      <4> QED
        BY <1>7, <3>1, <4>2 DEF last
    <3>2. CASE i \in 0 .. m - 1 /\ i # m
      <4>1. h[i] = g[i]
        BY <3>2
      <4>2. i # 0 => i - 1 \in 0 .. m - 1 /\ i - 1 # m /\ i - 1 \in 0 .. m
        BY <1>5, <3>2
      <4>3. i # 0 => h[i - 1] = g[i - 1]
        BY <3>2, <4>2
      <4> HIDE DEF h
      <4> QED
        BY <2>2, <3>2, <4>1, <4>3 DEF Keeps
    <3> QED
      BY <2>4, <3>1, <3>2
  <2> HIDE DEF h
  <2> QED
    BY <1>4, <2>5, <2>6
<1> QED
  BY <1>6, <1>7

\* Without is the last value of that function.
LEMMA WithoutKeeps ==
  ASSUME NEW X, NEW s \in Seq(X), NEW S
  PROVE  \E g : Keeps(s, S, Len(s), g) /\ Without(s, S) = g[Len(s)]
<1> DEFINE Rec(g) == g = [i \in 0 .. Len(s) |->
             IF i = 0 THEN <<>>
             ELSE IF s[i] \in S THEN g[i - 1] ELSE Append(g[i - 1], s[i])]
<1>1. Len(s) \in Nat
  BY LenProperties
<1>2. PICK g \in [0 .. Len(s) -> Seq(X)] : Keeps(s, S, Len(s), g)
  <2>1. Len(s) \in 0 .. Len(s)
    BY <1>1
  <2> QED
    BY <2>1, KeepsExists
<1>3. Rec(g)
  BY <1>2 DEF Keeps
<1>4. PICK h : Rec(h) /\ Without(s, S) = h[Len(s)]
  BY <1>3, Zenon DEF Without
<1>5. Keeps(s, S, Len(s), h)
  BY <1>4 DEF Keeps
<1> QED
  BY <1>4, <1>5

\* What is left, and that it is a list: a property of every prefix, so it
\* holds of the whole.
LEMMA WithoutElements ==
  ASSUME NEW X, NEW s \in Seq(X), NEW S
  PROVE  /\ Without(s, S) \in Seq(X)
         /\ ToSet(Without(s, S)) = ToSet(s) \ S
<1>1. Len(s) \in Nat /\ DOMAIN s = 1 .. Len(s) /\ \A i \in 1 .. Len(s) : s[i] \in X
  BY LenProperties, ElementOfSeq
<1>2. PICK g : Keeps(s, S, Len(s), g) /\ Without(s, S) = g[Len(s)]
  BY WithoutKeeps
<1> DEFINE First(n) == {s[i] : i \in 1 .. n}
           bad == {n \in 0 .. Len(s) : ~(g[n] \in Seq(X) /\ ToSet(g[n]) = First(n) \ S)}
<1>3. SUFFICES ASSUME bad # {} PROVE FALSE
  <2>1. ToSet(s) = First(Len(s)) /\ Len(s) \in 0 .. Len(s)
    BY <1>1 DEF ToSet
  <2> HIDE DEF First
  <2>2. bad = {} => g[Len(s)] \in Seq(X) /\ ToSet(g[Len(s)]) = First(Len(s)) \ S
    BY <2>1
  <2> HIDE DEF bad
  <2> QED
    BY <1>2, <2>1, <2>2
<1>4. PICK m : m \in bad /\ \A y \in bad : m <= y
  <2>1. bad \in SUBSET Nat
    BY <1>1
  <2> HIDE DEF bad
  <2> QED
    BY <1>3, <2>1, MinInSet
<1>5. m \in 0 .. Len(s) /\ m \in Nat /\ m <= Len(s)
  BY <1>1, <1>4
<1>6. CASE m = 0
  <2>1. g[0] = <<>> /\ First(0) = {}
    BY <1>1, <1>2 DEF Keeps
  <2>2. <<>> \in Seq(X) /\ ToSet(<<>>) = {}
    BY EmptySeq DEF ToSet
  <2> QED
    BY <1>4, <1>6, <2>1, <2>2
<1>7. CASE m # 0
  <2>1. m - 1 \in 0 .. Len(s) /\ ~(m <= m - 1) /\ m \in 1 .. Len(s)
    BY <1>1, <1>5, <1>7
  <2>2. g[m - 1] \in Seq(X) /\ ToSet(g[m - 1]) = First(m - 1) \ S /\ s[m] \in X
    BY <1>1, <1>4, <2>1
  <2>3. First(m) = First(m - 1) \cup {s[m]}
    <3>1. 1 .. m = (1 .. m - 1) \cup {m}
      BY <1>5, <1>7
    <3> QED
      BY <3>1
  <2>4. g[m] = IF s[m] \in S THEN g[m - 1] ELSE Append(g[m - 1], s[m])
    BY <1>2, <1>5, <1>7 DEF Keeps
  <2>5. /\ Append(g[m - 1], s[m]) \in Seq(X)
        /\ ToSet(Append(g[m - 1], s[m])) = ToSet(g[m - 1]) \cup {s[m]}
    BY <2>2, AppendElements
  <2> HIDE DEF First
  <2> QED
    BY <1>4, <2>2, <2>3, <2>4, <2>5
<1> QED
  BY <1>6, <1>7

\* At most the k-th element is left out.
LEMMA WithoutEntries ==
  ASSUME NEW X, NEW s \in Seq(X), NEW S, NEW k \in 1 .. Len(s) + 1,
         \A i \in 1 .. Len(s) : s[i] \in S <=> i = k
  PROVE  /\ Without(s, S) \in Seq(X)
         /\ Len(Without(s, S)) = IF k <= Len(s) THEN Len(s) - 1 ELSE Len(s)
         /\ \A j \in 1 .. Len(Without(s, S)) :
              Without(s, S)[j] = IF j < k THEN s[j] ELSE s[j + 1]
<1>1. Len(s) \in Nat /\ k \in Nat /\ \A i \in 1 .. Len(s) : s[i] \in X
  BY LenProperties, ElementOfSeq
<1>2. PICK g : Keeps(s, S, Len(s), g) /\ Without(s, S) = g[Len(s)]
  BY WithoutKeeps
<1> DEFINE Fits(n) == /\ g[n] \in Seq(X)
                      /\ Len(g[n]) = IF k <= n THEN n - 1 ELSE n
                      /\ \A j \in 1 .. Len(g[n]) : g[n][j] = IF j < k THEN s[j] ELSE s[j + 1]
           bad == {n \in 0 .. Len(s) : ~Fits(n)}
<1>3. SUFFICES ASSUME bad # {} PROVE FALSE
  <2>1. Len(s) \in 0 .. Len(s)
    BY <1>1
  <2>2. bad = {} => Fits(Len(s))
    BY <2>1
  <2> HIDE DEF bad
  <2> QED
    BY <1>2, <2>2
<1>4. PICK m : m \in bad /\ \A y \in bad : m <= y
  <2>1. bad \in SUBSET Nat
    BY <1>1
  <2> HIDE DEF bad
  <2> QED
    BY <1>3, <2>1, MinInSet
<1>5. m \in 0 .. Len(s) /\ m \in Nat /\ m <= Len(s) /\ ~Fits(m)
  BY <1>1, <1>4
<1>6. CASE m = 0
  <2>1. g[0] = <<>> /\ <<>> \in Seq(X) /\ Len(<<>>) = 0
    BY <1>1, <1>2, EmptySeq DEF Keeps
  <2>2. ~(k <= 0) /\ 1 .. 0 = {}
    BY <1>1
  <2>3. Fits(0)
    BY <2>1, <2>2
  <2> QED
    BY <1>5, <1>6, <2>3
<1>7. CASE m # 0
  <2>1. m - 1 \in 0 .. Len(s) /\ ~(m <= m - 1) /\ m \in 1 .. Len(s) /\ m - 1 \in Nat
    BY <1>1, <1>5, <1>7
  <2>2. Fits(m - 1)
    BY <1>4, <2>1
  <2> DEFINE t == g[m - 1]
  <2>3. /\ t \in Seq(X) /\ Len(t) = IF k <= m - 1 THEN m - 2 ELSE m - 1
        /\ \A j \in 1 .. Len(t) : t[j] = IF j < k THEN s[j] ELSE s[j + 1]
    BY <2>1, <2>2
  <2>4. g[m] = IF m = k THEN t ELSE Append(t, s[m])
    BY <1>2, <1>5, <1>7, <2>1 DEF Keeps
  <2>5. s[m] \in X
    BY <1>1, <2>1
  <2> HIDE DEF t
  <2>6. CASE m = k
    <3>1. Fits(m)
      BY <1>1, <2>1, <2>3, <2>4, <2>6
    <3> QED
      BY <1>5, <3>1
  <2>7. CASE m # k
    <3> DEFINE u == Append(t, s[m])
    <3>1. /\ u \in Seq(X) /\ Len(u) = Len(t) + 1 /\ u[Len(t) + 1] = s[m]
          /\ \A j \in 1 .. Len(t) : u[j] = t[j]
      BY <2>3, <2>5, AppendProperties
    <3>2. g[m] = u
      BY <2>4, <2>7
    <3> HIDE DEF u
    <3>3. Len(u) = IF k <= m THEN m - 1 ELSE m
      BY <1>1, <2>1, <2>3, <2>7, <3>1
    <3>4. ASSUME NEW j \in 1 .. Len(u) PROVE u[j] = IF j < k THEN s[j] ELSE s[j + 1]
      <4>1. j \in 1 .. Len(t) \/ j = Len(t) + 1
        BY <1>1, <2>1, <2>3, <3>1
      <4>2. CASE j = Len(t) + 1
        <5>1. CASE k <= m
          <6>1. j = m - 1 /\ ~(j < k) /\ j + 1 = m
            BY <1>1, <2>1, <2>3, <2>7, <4>2, <5>1
          <6> QED
            BY <3>1, <4>2, <6>1
        <5>2. CASE ~(k <= m)
          <6>1. j = m /\ j < k
            BY <1>1, <2>1, <2>3, <4>2, <5>2
          <6> QED
            BY <3>1, <4>2, <6>1
        <5> QED
          BY <5>1, <5>2
      <4> QED
        BY <2>3, <3>1, <4>1, <4>2
    <3>5. Fits(m)
      BY <3>1, <3>2, <3>3, <3>4
    <3> QED
      BY <1>5, <3>5
  <2> QED
    BY <2>6, <2>7
<1> QED
  BY <1>6, <1>7

\* None is left out.
LEMMA WithoutNone ==
  ASSUME NEW X, NEW s \in Seq(X), NEW S, ToSet(s) \cap S = {}
  PROVE  Without(s, S) = s
<1> DEFINE k == Len(s) + 1
           r == Without(s, S)
<1>1. Len(s) \in Nat /\ DOMAIN s = 1 .. Len(s)
  BY LenProperties
<1>2. k \in 1 .. Len(s) + 1 /\ ~(k <= Len(s)) /\ \A i \in 1 .. Len(s) : i # k /\ i < k
  BY <1>1
<1>3. \A i \in 1 .. Len(s) : s[i] \in S <=> i = k
  BY <1>1, <1>2 DEF ToSet
<1> HIDE DEF k
<1>4. /\ r \in Seq(X) /\ Len(r) = IF k <= Len(s) THEN Len(s) - 1 ELSE Len(s)
      /\ \A j \in 1 .. Len(r) : r[j] = IF j < k THEN s[j] ELSE s[j + 1]
  BY <1>2, <1>3, WithoutEntries
<1> HIDE DEF r
<1>5. Len(r) = Len(s) /\ \A j \in 1 .. Len(s) : r[j] = s[j]
  BY <1>2, <1>4
<1>6. r = s
  BY <1>4, <1>5, SeqEqual
<1> QED
  BY <1>6 DEF r

\* One is left out.
LEMMA WithoutOne ==
  ASSUME NEW X, NEW s \in Seq(X), IsInjective(s), NEW k \in 1 .. Len(s)
  PROVE  Without(s, {s[k]}) = RemoveAt(s, k)
<1> DEFINE S == {s[k]}
           r == Without(s, S)
           u == RemoveAt(s, k)
<1>1. Len(s) \in Nat /\ DOMAIN s = 1 .. Len(s)
  BY LenProperties
<1>2. k \in 1 .. Len(s) + 1 /\ k <= Len(s)
  BY <1>1
<1>3. \A i \in 1 .. Len(s) : s[i] \in S <=> i = k
  BY <1>1 DEF IsInjective
<1> HIDE DEF S
<1>4. /\ r \in Seq(X) /\ Len(r) = IF k <= Len(s) THEN Len(s) - 1 ELSE Len(s)
      /\ \A j \in 1 .. Len(r) : r[j] = IF j < k THEN s[j] ELSE s[j + 1]
  BY <1>2, <1>3, WithoutEntries
<1>5. /\ u \in Seq(X) /\ Len(u) = Len(s) - 1
      /\ \A i \in 1 .. Len(s) - 1 : u[i] = IF i < k THEN s[i] ELSE s[i + 1]
  BY RemoveAtEntries
<1> HIDE DEF r, u
<1>6. Len(r) = Len(u) /\ \A j \in 1 .. Len(r) : r[j] = u[j]
  BY <1>2, <1>4, <1>5
<1>7. r = u
  BY <1>4, <1>5, <1>6, SeqEqual
<1> QED
  BY <1>7 DEF r, u, S

\* A list that gains an element at its end.
LEMMA WithoutAppend ==
  ASSUME NEW X, NEW s \in Seq(X), NEW x \in X, NEW S
  PROVE  Without(Append(s, x), S)
           = IF x \in S THEN Without(s, S) ELSE Append(Without(s, S), x)
<1> DEFINE t == Append(s, x)
<1>1. /\ t \in Seq(X) /\ Len(t) = Len(s) + 1 /\ t[Len(s) + 1] = x
      /\ \A j \in 1 .. Len(s) : t[j] = s[j]
  BY AppendProperties
<1> HIDE DEF t
<1>2. PICK g : Keeps(s, S, Len(s), g) /\ Without(s, S) = g[Len(s)]
  BY WithoutKeeps
<1>3. PICK h : Keeps(t, S, Len(t), h) /\ Without(t, S) = h[Len(t)]
  BY <1>1, WithoutKeeps
<1>4. Len(s) \in Nat
  BY LenProperties
<1> DEFINE bad == {n \in 0 .. Len(s) : h[n] # g[n]}
<1>5. bad = {}
  <2> SUFFICES ASSUME bad # {} PROVE FALSE
    OBVIOUS
  <2>1. PICK m : m \in bad /\ \A y \in bad : m <= y
    <3>1. bad \in SUBSET Nat
      BY <1>4
    <3> HIDE DEF bad
    <3> QED
      BY <3>1, MinInSet
  <2>2. m \in 0 .. Len(s) /\ m \in 0 .. Len(t) /\ h[m] # g[m]
    BY <1>1, <1>4, <2>1
  <2>3. CASE m = 0
    BY <1>2, <1>3, <2>2, <2>3 DEF Keeps
  <2>4. CASE m # 0
    <3>1. m - 1 \in 0 .. Len(s) /\ ~(m <= m - 1) /\ m \in 1 .. Len(s)
      BY <1>4, <2>2, <2>4
    <3>2. h[m - 1] = g[m - 1] /\ t[m] = s[m]
      BY <1>1, <2>1, <3>1
    <3> HIDE DEF bad
    <3>3. g[m] = IF s[m] \in S THEN g[m - 1] ELSE Append(g[m - 1], s[m])
      BY <1>2, <2>2, <2>4 DEF Keeps
    <3>4. h[m] = IF t[m] \in S THEN h[m - 1] ELSE Append(h[m - 1], t[m])
      BY <1>3, <2>2, <2>4 DEF Keeps
    <3> QED
      BY <2>2, <3>2, <3>3, <3>4
  <2> QED
    BY <2>3, <2>4
<1>6. h[Len(s)] = g[Len(s)]
  BY <1>4, <1>5
<1>7. Len(t) \in 0 .. Len(t) /\ Len(t) # 0 /\ Len(t) - 1 = Len(s) /\ t[Len(t)] = x
  BY <1>1, <1>4
<1>8. h[Len(t)] = IF x \in S THEN h[Len(s)] ELSE Append(h[Len(s)], x)
  BY <1>3, <1>7 DEF Keeps
<1> QED
  BY <1>2, <1>3, <1>6, <1>8 DEF t

\* Leaving out some, then others.
LEMMA WithoutTwice ==
  ASSUME NEW X, NEW s \in Seq(X), NEW S, NEW T
  PROVE  Without(Without(s, S), T) = Without(s, S \cup T)
<1>1. Len(s) \in Nat /\ \A i \in 1 .. Len(s) : s[i] \in X
  BY LenProperties, ElementOfSeq
<1>2. Len(s) \in 0 .. Len(s)
  BY <1>1
<1>3. PICK f \in [0 .. Len(s) -> Seq(X)] : Keeps(s, S, Len(s), f)
  BY <1>2, KeepsExists
<1>4. PICK g : Keeps(s, S, Len(s), g) /\ Without(s, S) = g[Len(s)]
  BY WithoutKeeps
<1>5. PICK h : Keeps(s, S \cup T, Len(s), h) /\ Without(s, S \cup T) = h[Len(s)]
  BY WithoutKeeps
<1> DEFINE bad == {n \in 0 .. Len(s) : ~(g[n] \in Seq(X) /\ Without(g[n], T) = h[n])}
<1>6. bad = {}
  <2> SUFFICES ASSUME bad # {} PROVE FALSE
    OBVIOUS
  <2>1. PICK m : m \in bad /\ \A y \in bad : m <= y
    <3>1. bad \in SUBSET Nat
      BY <1>1
    <3> HIDE DEF bad
    <3> QED
      BY <3>1, MinInSet
  <2>2. m \in 0 .. Len(s) /\ ~(g[m] \in Seq(X) /\ Without(g[m], T) = h[m])
    BY <2>1
  <2>3. CASE m = 0
    <3>1. g[0] = <<>> /\ h[0] = <<>>
      BY <1>4, <1>5, <2>2, <2>3 DEF Keeps
    <3>2. <<>> \in Seq(X) /\ ToSet(<<>>) \cap T = {}
      BY EmptySeq DEF ToSet
    <3>3. Without(<<>>, T) = <<>>
      BY <3>2, WithoutNone
    <3> QED
      BY <2>2, <2>3, <3>1, <3>2, <3>3
  <2>4. CASE m # 0
    <3>1. m - 1 \in 0 .. Len(s) /\ ~(m <= m - 1) /\ m \in 1 .. Len(s)
      BY <1>1, <2>2, <2>4
    <3>2. g[m - 1] \in Seq(X) /\ Without(g[m - 1], T) = h[m - 1]
      BY <2>1, <3>1
    <3> HIDE DEF bad
    <3>3. g[m] = IF s[m] \in S THEN g[m - 1] ELSE Append(g[m - 1], s[m])
      BY <1>4, <2>2, <2>4 DEF Keeps
    <3>4. h[m] = IF s[m] \in S \cup T THEN h[m - 1] ELSE Append(h[m - 1], s[m])
      BY <1>5, <2>2, <2>4 DEF Keeps
    <3>5. s[m] \in X
      BY <1>1, <3>1
    <3> DEFINE t == g[m - 1]
               x == s[m]
    <3>6. t \in Seq(X) /\ x \in X
      BY <3>2, <3>5
    <3> HIDE DEF t, x
    <3>7. Append(t, x) \in Seq(X)
      BY <3>6, AppendProperties
    <3>8. Without(Append(t, x), T) = IF x \in T THEN Without(t, T) ELSE Append(Without(t, T), x)
      BY <3>6, WithoutAppend
    <3>9. /\ g[m] = IF x \in S THEN t ELSE Append(t, x)
          /\ h[m] = IF x \in S \cup T THEN h[m - 1] ELSE Append(h[m - 1], x)
          /\ Without(t, T) = h[m - 1]
      BY <3>2, <3>3, <3>4 DEF t, x
    <3> QED
      BY <2>2, <3>6, <3>7, <3>8, <3>9
  <2> QED
    BY <2>3, <2>4
<1>7. Without(g[Len(s)], T) = h[Len(s)]
  BY <1>2, <1>6
<1> QED
  BY <1>4, <1>5, <1>7

\* A list without elements.
LEMMA NoElements ==
  ASSUME NEW X, NEW s \in Seq(X), \A x \in X : x \notin ToSet(s)
  PROVE  s = <<>>
<1>1. Len(s) \in Nat /\ \A i \in 1 .. Len(s) : s[i] \in X /\ s[i] \in ToSet(s)
  BY LenProperties, ElementOfSeq DEF ToSet
<1>2. Len(s) = 0
  <2>1. Len(s) # 0 => 1 \in 1 .. Len(s)
    BY <1>1
  <2> QED
    BY <1>1, <2>1
<1> QED
  BY <1>2, EmptySeq

\* All but the last.
LEMMA FrontEntries ==
  ASSUME NEW X, NEW s \in Seq(X), NEW k \in Nat, 1 <= k, Len(s) = k + 1
  PROVE  /\ Front(s) \in Seq(X) /\ Len(Front(s)) = k /\ DOMAIN Front(s) = 1 .. k
         /\ \A i \in 1 .. k : Front(s)[i] = s[i]
<1>1. \A i \in 1 .. k : s[i] \in X
  BY ElementOfSeq
<1>2. 1 \in Int /\ k \in Int
  OBVIOUS
<1>3. /\ SubSeq(s, 1, k) \in Seq(X)
      /\ Len(SubSeq(s, 1, k)) = IF 1 <= k THEN k - 1 + 1 ELSE 0
      /\ \A i \in 1 .. k - 1 + 1 : SubSeq(s, 1, k)[i] = s[1 + i - 1]
  BY <1>1, <1>2, SubSeqProperties
<1>4. Front(s) = SubSeq(s, 1, k)
  BY DEF Front
<1>5. Len(Front(s)) = k /\ Front(s) \in Seq(X)
  BY <1>3, <1>4
<1>6. DOMAIN Front(s) = 1 .. k
  BY <1>5, LenProperties
<1> QED
  BY <1>3, <1>4, <1>5, <1>6
=================================================================================
