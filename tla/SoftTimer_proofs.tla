-------------------------- MODULE SoftTimer_proofs --------------------------
(***************************************************************************)
(* Proofs about the soft timers and their users, for every set of timers,  *)
(* periods, users and width of the tick.                                   *)
(***************************************************************************)
EXTENDS SoftTimer, SequenceTheorems, WellFoundedInduction, TLAPS

-----------------------------------------------------------------------------
(* Numbers that wrap *)

\* The remainder of a number that is within one turn of 0 .. m - 1.
LEMMA Wrap ==
    ASSUME NEW m \in Nat \ {0}, NEW x \in Int
    PROVE  /\ x % m \in 0 .. m - 1
           /\ 0 <= x /\ x < m => x % m = x
           /\ -m <= x /\ x < 0 => x % m = x + m
           /\ m <= x /\ x < m + m => x % m = x - m
  OBVIOUS

\* A period is shorter than half a turn.
LEMMA HalfTurn ==
    /\ Mod \in Nat \ {0} /\ MaxTick \in Nat /\ Half \in Nat
    /\ Half + Half <= MaxTick /\ MaxTick = Mod - 1
    /\ \A t \in Timers : Period[t] \in Nat /\ 1 <= Period[t] /\ Period[t] <= Half - 1
  BY SoftTimerAssumption DEF MaxTick, Half

-----------------------------------------------------------------------------
(* Lists of timers *)

\* x is a member of the sequence s; no member of s occurs twice.
In(s, x) == \E i \in 1 .. Len(s) : s[i] = x

Once(s) == \A i, j \in 1 .. Len(s) : s[i] = s[j] => i = j

\* A set with a well-founded order has a minimal member (the choice of the order is
\* kept out of sight).
LEMMA Minimal ==
    ASSUME NEW r, NEW W, IsWellFoundedOn(r, W), NEW M, M \subseteq W, M # {}
    PROVE  \E b \in M : \A a \in M : ~ (<<a, b>> \in r)
  BY WFMin

\* Every set of naturals that is not empty has a least member.
LEMMA Least ==
    ASSUME NEW M \in SUBSET Nat, M # {}
    PROVE  \E b \in M : \A a \in M : b <= a
  <1>1. PICK r : IsWellFoundedOn(r, Nat) /\ \A x, y \in Nat : x < y => <<x, y>> \in r
    <2>1. \A x, y \in Nat : x < y => <<x, y>> \in OpToRel(<, Nat)
      BY DEF OpToRel
    <2> QED
      BY <2>1, NatLessThanWellFounded, Zenon
  <1>2. PICK b \in M : \A a \in M : ~(<<a, b>> \in r)
    <2>1. M \subseteq Nat /\ M # {} /\ IsWellFoundedOn(r, Nat)
      BY <1>1
    <2>2. \E b \in M : \A a \in M : ~(<<a, b>> \in r)
      BY <2>1, Minimal, Zenon
    <2> QED
      BY <2>2, Zenon
  <1>3. ASSUME NEW a \in M
        PROVE  b <= a
    <2>1. a \in Nat /\ b \in Nat /\ ~(<<a, b>> \in r)
      BY <1>2
    <2>2. ~(a < b)
      BY <1>1, <2>1, Zenon
    <2> QED
      BY <2>1, <2>2
  <1> QED
    BY <1>3

\* Two parts of a list, one behind the other.
LEMMA TwoParts ==
    ASSUME NEW S, NEW s \in Seq(S), NEW m \in Nat, NEW k \in Nat, m <= Len(s), 1 <= k
    PROVE  LET r == SubSeq(s, 1, m) \o SubSeq(s, k, Len(s))
               rest == IF k <= Len(s) THEN Len(s) - k + 1 ELSE 0
           IN  /\ r \in Seq(S) /\ Len(r) = m + rest
               /\ \A i \in 1 .. m : r[i] = s[i]
               /\ \A i \in m + 1 .. m + rest : r[i] = s[i - m + k - 1]
  <1> DEFINE a == SubSeq(s, 1, m)
             b == SubSeq(s, k, Len(s))
             rest == IF k <= Len(s) THEN Len(s) - k + 1 ELSE 0
  <1>1. Len(s) \in Nat /\ \A i \in 1 .. Len(s) : s[i] \in S
    BY LenProperties, ElementOfSeq
  <1>2. a \in Seq(S) /\ Len(a) = m /\ \A i \in 1 .. m : a[i] = s[i]
    <2>1. \A i \in 1 .. m : s[i] \in S
      BY <1>1
    <2>2. /\ a \in Seq(S) /\ Len(a) = IF 1 <= m THEN m - 1 + 1 ELSE 0
          /\ \A i \in 1 .. m - 1 + 1 : a[i] = s[1 + i - 1]
      BY <2>1, SubSeqProperties
    <2> HIDE DEF a
    <2> QED
      BY <2>2
  <1>3. b \in Seq(S) /\ Len(b) = rest /\ \A i \in 1 .. rest : b[i] = s[k + i - 1]
    <2>1. \A i \in k .. Len(s) : s[i] \in S
      BY <1>1
    <2>2. /\ b \in Seq(S) /\ Len(b) = IF k <= Len(s) THEN Len(s) - k + 1 ELSE 0
          /\ \A i \in 1 .. Len(s) - k + 1 : b[i] = s[k + i - 1]
      BY <1>1, <2>1, SubSeqProperties
    <2> HIDE DEF b
    <2> QED
      BY <1>1, <2>2
  <1>0. rest \in Nat
    BY <1>1
  <1> HIDE DEF a, b, rest
  <1>4. /\ a \o b \in Seq(S) /\ Len(a \o b) = m + rest
        /\ \A i \in 1 .. m + rest : (a \o b)[i] = IF i <= m THEN a[i] ELSE b[i - m]
    BY <1>0, <1>2, <1>3, ConcatProperties
  <1>5. \A i \in 1 .. m : (a \o b)[i] = s[i]
    BY <1>0, <1>2, <1>4
  <1>6. ASSUME NEW i \in m + 1 .. m + rest
        PROVE  (a \o b)[i] = s[i - m + k - 1]
    <2>1. i \in 1 .. m + rest /\ ~(i <= m) /\ i - m \in 1 .. rest
      BY <1>0
    <2>2. (a \o b)[i] = b[i - m]
      BY <1>4, <2>1
    <2>3. b[i - m] = s[k + (i - m) - 1]
      BY <1>3, <2>1
    <2> QED
      BY <1>1, <2>1, <2>2, <2>3
  <1> QED
    BY <1>4, <1>5, <1>6 DEF a, b, rest

\* Where the start of a timer puts it on the list.
LEMMA InsertedAt ==
    ASSUME list \in Seq(Timers), NEW t \in Timers, NEW d
    PROVE  LET r == Inserted(t, d)
               n == Len(list)
           IN  /\ r \in Seq(Timers) /\ Len(r) = n + 1 /\ n \in Nat
               /\ \E p \in 1 .. n + 1 :
                     /\ \A i \in 1 .. p - 1 : r[i] = list[i] /\ ~After(due[list[i]], d)
                     /\ r[p] = t
                     /\ \A i \in p + 1 .. n + 1 : r[i] = list[i - 1]
                     /\ p <= n => After(due[list[p]], d)
  <1> DEFINE n == Len(list)
             later == {i \in 1 .. n : After(due[list[i]], d)}
             p == IF later = {} THEN n + 1
                  ELSE CHOOSE i \in later : \A j \in later : i <= j
             r == Inserted(t, d)
             a == SubSeq(list, 1, p - 1)
             b == SubSeq(list, p, n)
  <1>1. n \in Nat /\ \A i \in 1 .. n : list[i] \in Timers
    BY LenProperties, ElementOfSeq
  <1>2. /\ p \in 1 .. n + 1
        /\ \A i \in 1 .. p - 1 : ~After(due[list[i]], d)
        /\ p <= n => After(due[list[p]], d)
    <2>1. CASE later = {}
      BY <1>1, <2>1
    <2>2. CASE later # {}
      <3>1. \E i \in later : \A j \in later : i <= j
        <4>1. later \in SUBSET Nat
          OBVIOUS
        <4> HIDE DEF later
        <4> QED
          BY <2>2, <4>1, Least
      <3>2. p \in later /\ \A j \in later : p <= j
        <4> HIDE DEF later
        <4> QED
          BY <2>2, <3>1
      <3> HIDE DEF p
      <3> QED
        BY <1>1, <3>2
    <2> QED
      BY <2>1, <2>2
  <1>3. r = a \o <<t>> \o b
    BY DEF Inserted
  <1> HIDE DEF p, r, later
  <1>4. /\ a \in Seq(Timers) /\ Len(a) = p - 1
        /\ \A i \in 1 .. p - 1 : a[i] = list[i]
    <2>1. p - 1 \in Int /\ 1 \in Int /\ \A i \in 1 .. p - 1 : list[i] \in Timers
      BY <1>1, <1>2
    <2>2. /\ a \in Seq(Timers) /\ Len(a) = IF 1 <= p - 1 THEN p - 1 - 1 + 1 ELSE 0
          /\ \A i \in 1 .. p - 1 - 1 + 1 : a[i] = list[1 + i - 1]
      BY <2>1, SubSeqProperties
    <2> HIDE DEF a
    <2> QED
      BY <1>1, <1>2, <2>2
  <1>5. /\ b \in Seq(Timers) /\ Len(b) = n + 1 - p
        /\ \A i \in 1 .. n + 1 - p : b[i] = list[p + i - 1]
    <2>1. p \in Int /\ n \in Int /\ \A i \in p .. n : list[i] \in Timers
      BY <1>1, <1>2
    <2>2. /\ b \in Seq(Timers) /\ Len(b) = IF p <= n THEN n - p + 1 ELSE 0
          /\ \A i \in 1 .. n - p + 1 : b[i] = list[p + i - 1]
      BY <2>1, SubSeqProperties
    <2> HIDE DEF b
    <2> QED
      BY <1>1, <1>2, <2>2
  <1> HIDE DEF a, b, n
  <1> DEFINE c == a \o <<t>>
             one == <<t>>
  <1>6. one \in Seq(Timers) /\ Len(one) = 1 /\ one[1] = t
    OBVIOUS
  <1>7. c = a \o one
    OBVIOUS
  <1> HIDE DEF one, c
  <1>8. /\ c \in Seq(Timers) /\ Len(c) = p
        /\ \A i \in 1 .. p : c[i] = IF i <= p - 1 THEN a[i] ELSE one[i - (p - 1)]
    <2>1. /\ c \in Seq(Timers) /\ Len(c) = Len(a) + Len(one)
          /\ \A i \in 1 .. Len(a) + Len(one) :
                c[i] = IF i <= Len(a) THEN a[i] ELSE one[i - Len(a)]
      BY <1>4, <1>6, <1>7, ConcatProperties
    <2> QED
      BY <1>1, <1>2, <1>4, <1>6, <2>1
  <1>9. c[p] = t /\ \A i \in 1 .. p - 1 : c[i] = list[i]
    BY <1>1, <1>2, <1>4, <1>6, <1>8
  <1>10. /\ r \in Seq(Timers) /\ Len(r) = n + 1
         /\ \A i \in 1 .. n + 1 : r[i] = IF i <= p THEN c[i] ELSE b[i - p]
    <2>1. r = c \o b
      BY <1>3 DEF c
    <2>2. /\ r \in Seq(Timers) /\ Len(r) = Len(c) + Len(b)
          /\ \A i \in 1 .. Len(c) + Len(b) :
                r[i] = IF i <= Len(c) THEN c[i] ELSE b[i - Len(c)]
      BY <1>5, <1>8, <2>1, ConcatProperties
    <2> QED
      BY <1>1, <1>2, <1>5, <1>8, <2>2
  <1>11. r[p] = t /\ \A i \in 1 .. p - 1 : r[i] = list[i]
    BY <1>1, <1>2, <1>9, <1>10
  <1>12. ASSUME NEW i \in p + 1 .. n + 1
         PROVE  r[i] = list[i - 1]
    <2>1. i \in 1 .. n + 1 /\ ~(i <= p) /\ i - p \in 1 .. n + 1 - p
      BY <1>1, <1>2
    <2>2. r[i] = b[i - p] /\ b[i - p] = list[p + (i - p) - 1]
      BY <1>5, <1>10, <2>1
    <2> QED
      BY <1>1, <1>2, <2>1, <2>2
  <1> QED
    BY <1>1, <1>2, <1>10, <1>11, <1>12 DEF n, r

\* Where the stop of a timer takes it off the list.
LEMMA WithoutAt ==
    ASSUME list \in Seq(Timers), NEW t
    PROVE  LET r == Without(t)
               n == Len(list)
           IN  \/ r = list /\ ~In(list, t)
               \/ /\ r \in Seq(Timers) /\ Len(r) = n - 1 /\ n \in Nat
                  /\ \E p \in 1 .. n :
                        /\ list[p] = t
                        /\ \A i \in 1 .. p - 1 : r[i] = list[i]
                        /\ \A i \in p .. n - 1 : r[i] = list[i + 1]
  <1> DEFINE n == Len(list)
             at == {i \in 1 .. n : list[i] = t}
             p == CHOOSE i \in at : TRUE
             r == SubSeq(list, 1, p - 1) \o SubSeq(list, p + 1, n)
  <1>1. n \in Nat
    BY LenProperties
  <1>2. CASE at = {}
    BY <1>2 DEF Without, In
  <1>3. CASE at # {}
    <2>1. Without(t) = r
      BY <1>3 DEF Without
    <2>2. p \in at
      <3> HIDE DEF at
      <3> QED
        BY <1>3
    <2>3. p \in 1 .. n /\ list[p] = t
      BY <2>2
    <2> HIDE DEF p
    <2>4. p - 1 \in Nat /\ p + 1 \in Nat /\ p - 1 <= n /\ 1 <= p + 1
      BY <1>1, <2>3
    <2> DEFINE rest == IF p + 1 <= n THEN n - (p + 1) + 1 ELSE 0
    <2>5. /\ r \in Seq(Timers) /\ Len(r) = p - 1 + rest
          /\ \A i \in 1 .. p - 1 : r[i] = list[i]
          /\ \A i \in p - 1 + 1 .. p - 1 + rest : r[i] = list[i - (p - 1) + (p + 1) - 1]
      BY <2>4, TwoParts
    <2> HIDE DEF r
    <2>6. p - 1 + rest = n - 1 /\ p - 1 + 1 = p
      BY <1>1, <2>3
    <2> HIDE DEF rest
    <2>7. \A i \in p .. n - 1 : r[i] = list[i + 1]
      <3>1. \A i \in p .. n - 1 : i - (p - 1) + (p + 1) - 1 = i + 1
        BY <1>1, <2>3
      <3> QED
        BY <2>5, <2>6, <3>1
    <2> QED
      BY <1>1, <2>1, <2>3, <2>5, <2>6, <2>7
  <1> QED
    BY <1>2, <1>3

\* Inserted puts one timer on the list.
LEMMA InsertedIn ==
    ASSUME list \in Seq(Timers), NEW t \in Timers, NEW d
    PROVE  /\ Inserted(t, d) \in Seq(Timers)
           /\ \A x : In(Inserted(t, d), x) <=> In(list, x) \/ x = t
           /\ Once(list) /\ ~In(list, t) => Once(Inserted(t, d))
  <1> DEFINE r == Inserted(t, d)
             n == Len(list)
  <1>1. PICK p \in 1 .. n + 1 :
           /\ r \in Seq(Timers) /\ Len(r) = n + 1 /\ n \in Nat
           /\ \A i \in 1 .. p - 1 : r[i] = list[i]
           /\ r[p] = t
           /\ \A i \in p + 1 .. n + 1 : r[i] = list[i - 1]
    BY InsertedAt
  <1> HIDE DEF r
  <1>2. ASSUME NEW i \in 1 .. n + 1, i # p
        PROVE  \E k \in 1 .. n : r[i] = list[k] /\ k = IF i < p THEN i ELSE i - 1
    BY <1>1, <1>2
  <1>3. ASSUME NEW k \in 1 .. n
        PROVE  \E i \in 1 .. n + 1 : r[i] = list[k]
    <2>1. CASE k < p
      BY <1>1, <2>1
    <2>2. CASE k >= p
      <3>1. PICK i \in p + 1 .. n + 1 : i = k + 1 /\ i - 1 = k
        BY <1>1, <2>2
      <3>2. r[i] = list[i - 1] /\ i \in 1 .. n + 1
        BY <1>1, <3>1
      <3> QED
        BY <3>1, <3>2
    <2>3. k < p \/ k >= p
      BY <1>1
    <2> QED
      BY <2>1, <2>2, <2>3
  <1>4. \A x : In(r, x) <=> In(list, x) \/ x = t
    BY <1>1, <1>2, <1>3 DEF In
  <1>5. ASSUME Once(list), ~In(list, t),
               NEW i \in 1 .. n + 1, NEW j \in 1 .. n + 1, r[i] = r[j]
        PROVE  i = j
    <2>1. CASE i = p \/ j = p
      BY <1>1, <1>2, <1>5, <2>1 DEF In
    <2>2. CASE i # p /\ j # p
      <3>1. PICK k \in 1 .. n : r[i] = list[k] /\ k = IF i < p THEN i ELSE i - 1
        BY <1>2, <2>2
      <3>2. PICK l \in 1 .. n : r[j] = list[l] /\ l = IF j < p THEN j ELSE j - 1
        BY <1>2, <2>2
      <3>3. k = l
        BY <1>5, <3>1, <3>2 DEF Once
      <3> QED
        BY <1>1, <2>2, <3>1, <3>2, <3>3
    <2> QED
      BY <2>1, <2>2
  <1>6. Once(list) /\ ~In(list, t) => Once(r)
    BY <1>1, <1>5 DEF Once
  <1> QED
    BY <1>1, <1>4, <1>6 DEF r

\* Without leaves the other timers on a list that has each of them once.
LEMMA WithoutIn ==
    ASSUME list \in Seq(Timers), NEW t, Once(list)
    PROVE  /\ Without(t) \in Seq(Timers)
           /\ \A x : In(Without(t), x) <=> In(list, x) /\ x # t
           /\ Once(Without(t))
  <1> DEFINE r == Without(t)
             n == Len(list)
  <1>1. CASE r = list /\ ~In(list, t)
    BY <1>1 DEF In
  <1>2. CASE r # list \/ In(list, t)
    <2>1. PICK p \in 1 .. n :
             /\ r \in Seq(Timers) /\ Len(r) = n - 1 /\ n \in Nat
             /\ list[p] = t
             /\ \A i \in 1 .. p - 1 : r[i] = list[i]
             /\ \A i \in p .. n - 1 : r[i] = list[i + 1]
      BY <1>2, WithoutAt
    <2> HIDE DEF r
    <2>2. ASSUME NEW i \in 1 .. n - 1
          PROVE  \E k \in 1 .. n : r[i] = list[k] /\ k # p /\ k = IF i < p THEN i ELSE i + 1
      BY <2>1
    <2>3. ASSUME NEW k \in 1 .. n, k # p
          PROVE  \E i \in 1 .. n - 1 : r[i] = list[k]
      <3>1. CASE k < p
        BY <2>1, <3>1
      <3>2. CASE k > p
        <4>1. k - 1 \in p .. n - 1 /\ k - 1 \in 1 .. n - 1 /\ k - 1 + 1 = k
          BY <2>1, <3>2
        <4> QED
          BY <2>1, <4>1
      <3> QED
        BY <2>1, <2>3, <3>1, <3>2
    <2>4. \A k \in 1 .. n : list[k] = t <=> k = p
      BY <2>1 DEF Once
    <2>5. ASSUME NEW x
          PROVE  In(r, x) <=> In(list, x) /\ x # t
      <3>1. In(r, x) <=> \E i \in 1 .. n - 1 : r[i] = x
        BY <2>1 DEF In
      <3>2. In(list, x) <=> \E k \in 1 .. n : list[k] = x
        BY DEF In
      <3>3. ASSUME NEW i \in 1 .. n - 1, r[i] = x
            PROVE  In(list, x) /\ x # t
        BY <2>2, <2>4, <3>2, <3>3
      <3>4. ASSUME NEW k \in 1 .. n, list[k] = x, x # t
            PROVE  In(r, x)
        BY <2>3, <2>4, <3>1, <3>4
      <3> QED
        BY <3>1, <3>2, <3>3, <3>4
    <2>6. ASSUME NEW i \in 1 .. n - 1, NEW j \in 1 .. n - 1, r[i] = r[j]
          PROVE  i = j
      <3>1. PICK k \in 1 .. n : r[i] = list[k] /\ k = IF i < p THEN i ELSE i + 1
        BY <2>2
      <3>2. PICK l \in 1 .. n : r[j] = list[l] /\ l = IF j < p THEN j ELSE j + 1
        BY <2>2
      <3>3. k = l
        BY <2>6, <3>1, <3>2 DEF Once
      <3> QED
        BY <2>1, <3>1, <3>2, <3>3
    <2> QED
      BY <2>1, <2>5, <2>6 DEF Once, r
  <1> QED
    BY <1>1, <1>2

\* The head of a list and the rest of it.
LEMMA TailIn ==
    ASSUME list \in Seq(Timers), list # <<>>
    PROVE  /\ Head(list) \in Timers /\ Tail(list) \in Seq(Timers)
           /\ \A x : In(list, x) <=> In(Tail(list), x) \/ x = Head(list)
           /\ Once(list) => Once(Tail(list)) /\ ~In(Tail(list), Head(list))
  <1> DEFINE r == Tail(list)
             n == Len(list)
  <1>1. n \in Nat /\ n # 0
    BY LenProperties, EmptySeq
  <1>2. /\ Head(list) \in Timers /\ r \in Seq(Timers) /\ Len(r) = n - 1
        /\ \A i \in 1 .. n - 1 : r[i] = list[i + 1]
    BY HeadTailProperties
  <1>3. Head(list) = list[1]
    OBVIOUS
  <1> HIDE DEF r
  <1>4. \A i \in 1 .. n : i = 1 \/ (i - 1 \in 1 .. n - 1 /\ list[i] = r[i - 1])
    BY <1>1, <1>2
  <1>5. \A i \in 1 .. n - 1 : i + 1 \in 1 .. n /\ i + 1 # 1
    BY <1>1
  <1>6. ASSUME NEW x
        PROVE  In(list, x) <=> In(r, x) \/ x = Head(list)
    <2>1. In(r, x) <=> \E i \in 1 .. n - 1 : r[i] = x
      BY <1>2 DEF In
    <2>2. In(list, x) <=> \E k \in 1 .. n : list[k] = x
      BY DEF In
    <2>3. In(list, x) => In(r, x) \/ x = Head(list)
      BY <1>3, <1>4, <2>1, <2>2
    <2>4. In(r, x) => In(list, x)
      BY <1>2, <1>5, <2>1, <2>2
    <2>5. 1 \in 1 .. n
      BY <1>1
    <2> QED
      BY <1>3, <2>2, <2>3, <2>4, <2>5
  <1>7. Once(list) => Once(r) /\ ~In(r, Head(list))
    BY <1>1, <1>2, <1>3, <1>5 DEF Once, In
  <1> QED
    BY <1>2, <1>6, <1>7 DEF r

-----------------------------------------------------------------------------
(* Where a timer is *)

\* An object uses t.
InUse(t) == \E k \in 1 .. built : Users[k] = t

\* t is on the list, being called, about to be started again, or has fired as a
\* one-shot timer inside start.
On(t) ==
    \/ In(list, t)
    \/ t = current /\ (active[t] \/ pcT = "call")
    \/ t \in inStart

Starting(t) == mine = t /\ pc \in {"resume", "mark"}

Stopping(t) == mine = t /\ pc = "unmark"

\* The places of the two threads and the timers that they have in hand.
Places ==
    /\ current # NoTimer <=> pcT \in {"call", "called", "terminated"}
    /\ mine # NoTimer <=> pc # "idle"
    /\ pc = "grow" => built < Len(Users) /\ mine = Users[built + 1]
    /\ pc \notin {"idle", "grow"} => InUse(mine)
    /\ pcT \in {"call", "called"} => (active[current] <=> current \notin OneShot)

\* A timer is in one place at a time.
Apart ==
    /\ Once(list)
    /\ ~In(list, current)
    /\ \A t \in inStart : ~In(list, t) /\ ~(t = current /\ pcT = "call")

\* Timer::running is true of the timers that are on, but inside start and stop.
Marks ==
    \A t \in Timers :
        /\ Starting(t) => ~running[t] /\ On(t)
        /\ Stopping(t) => running[t] /\ ~On(t)
        /\ ~Starting(t) /\ ~Stopping(t) => (running[t] <=> On(t))

\* Only timers of constructed objects are on, and an object is constructed on an
\* unused timer or late.
Owners ==
    /\ \A t \in Timers : On(t) => InUse(t)
    /\ pc = "grow" /\ ~late => ~InUse(mine)

\* What the marks of the timers and the calls of their handlers rest on.
TInv == TypeOK /\ Places /\ Apart /\ Marks /\ Owners

\* A timer on the list is due when its time is over, or later.
Early ==
    \A t \in Timers :
        /\ since[t] <= Period[t]
        /\ In(list, t) /\ since[t] < Period[t] =>
              /\ Period[t] - since[t] <= (due[t] - tick) % Mod
              /\ (due[t] - tick) % Mod <= Period[t]

\* The numbers and sets of a started timer.
LEMMA DueTick ==
    ASSUME TypeOK, NEW t \in Timers
    PROVE  (tick + Period[t]) % Mod \in Ticks /\ (tick + 1) % Mod \in Ticks
  <1>1. tick + Period[t] \in Int /\ tick + 1 \in Int
    BY HalfTurn DEF TypeOK, Ticks
  <1>2. \A x \in Int : x % Mod \in 0 .. Mod - 1
    BY HalfTurn, Wrap
  <1> QED
    BY <1>1, <1>2, HalfTurn DEF Ticks

\* The next object to be constructed uses a timer.
LEMMA NextObject ==
    ASSUME TypeOK, built < Len(Users)
    PROVE  Users[built + 1] \in Timers
  <1>1. built + 1 \in 1 .. Len(Users)
    BY SoftTimerAssumption, LenProperties DEF TypeOK
  <1> QED
    BY <1>1, SoftTimerAssumption, ElementOfSeq

\* Every step keeps the types.
LEMMA TypeNext == TInv /\ [Next]_vars => TypeOK'
  <1> SUFFICES ASSUME TInv, [Next]_vars PROVE TypeOK'
    OBVIOUS
  <1> USE DEF kernel, thread, user, history
  <1>1. TypeOK /\ Places
    BY DEF TInv
  <1>2. \A x \in Int : x % Mod \in Ticks
    BY HalfTurn, Wrap DEF Ticks
  <1>3. CASE Tick
    <2>1. tick' = (tick + 1) % Mod /\ tick + 1 \in Int
      BY <1>1, <1>3 DEF Tick, TypeOK, Ticks
    <2>2. lag' \in 0 .. MaxLag
      BY <1>1, <1>3, SoftTimerAssumption DEF Tick, Idle, TypeOK
    <2>3. since' \in [Timers -> Nat]
      BY <1>1, <1>3 DEF Tick, TypeOK
    <2>4. \/ pcT' = "check" /\ wake' = 0
          \/ UNCHANGED <<pcT, wake>>
      BY <1>3 DEF Tick
    <2>5. 0 \in Ticks /\ "check" \in PlacesT
      BY HalfTurn DEF PlacesT, Ticks
    <2>6. pcT' \in PlacesT /\ wake' \in Ticks
      BY <1>1, <2>4, <2>5 DEF TypeOK
    <2> QED
      BY <1>1, <1>2, <1>3, <2>1, <2>2, <2>3, <2>6 DEF Tick, TypeOK
  <1>4. CASE Look
    <2>1. list # <<>> => Head(list) \in Timers
      BY <1>1, TailIn DEF TypeOK
    <2>2. \A x \in Ticks : x - tick \in Int
      BY <1>1 DEF TypeOK, Ticks
    <2>3. MaxTick \in Ticks
      BY HalfTurn DEF Ticks
    <2>4. PICK next \in Ticks :
             \/ pcT' = "suspend" /\ UNCHANGED delta
             \/ pcT' = "delay" /\ delta' = (next - tick) % Mod
             \/ pcT' = "check" /\ UNCHANGED delta
      BY <1>1, <1>4, <2>1, <2>3 DEF Look, TypeOK
    <2>5. delta' \in Ticks /\ pcT' \in PlacesT
      BY <1>1, <1>2, <2>2, <2>4 DEF TypeOK, PlacesT
    <2>6. lag' \in 0 .. MaxLag
      BY <1>4, SoftTimerAssumption DEF Look
    <2> QED
      BY <1>1, <1>4, <2>5, <2>6 DEF Look, TypeOK
  <1>5. CASE Delay
    <2>1. tick + delta \in Int /\ 0 \in Ticks
      BY <1>1, HalfTurn DEF TypeOK, Ticks
    <2> QED
      BY <1>1, <1>2, <1>5, <2>1 DEF Delay, TypeOK, PlacesT
  <1>6. CASE Suspend \/ NothingDue
    BY <1>1, <1>6 DEF Suspend, NothingDue, TypeOK, PlacesT
  <1>7. CASE Take
    <2>1. list # <<>>
      BY <1>7 DEF Take, HeadDue
    <2>2. Head(list) \in Timers /\ Tail(list) \in Seq(Timers)
      BY <1>1, <2>1, TailIn DEF TypeOK
    <2>3. atMax' \in BOOLEAN
      BY <1>7, Zenon DEF Take
    <2>4. active' \in [Timers -> BOOLEAN]
      BY <1>1, <1>7, <2>2 DEF Take, TypeOK
    <2> QED
      BY <1>1, <1>7, <2>2, <2>3, <2>4 DEF Take, TypeOK, PlacesT
  <1>8. CASE Call
    <2>1. running' \in [Timers -> BOOLEAN] /\ since' \in [Timers -> Nat]
      BY <1>1, <1>8 DEF Call, TypeOK
    <2>2. inStart' \subseteq OneShot
      BY <1>1, <1>8 DEF Call, TypeOK
    <2> QED
      BY <1>1, <1>8, <2>1, <2>2 DEF Call, TypeOK, PlacesT
  <1>9. CASE Again
    <2> DEFINE d == (tick + Period[current]) % Mod
    <2>1. current \in Timers
      BY <1>1, <1>9 DEF Again, TypeOK, Places
    <2>2. d \in Ticks
      BY <1>1, <2>1, DueTick
    <2>3. \/ due' = [due EXCEPT ![current] = d] /\ list' = Inserted(current, d)
          \/ UNCHANGED <<due, list>>
      BY <1>9 DEF Again
    <2> HIDE DEF d
    <2>4. Inserted(current, d) \in Seq(Timers)
      BY <1>1, <2>1, InsertedIn DEF TypeOK
    <2>5. list' \in Seq(Timers)
      BY <1>1, <2>3, <2>4 DEF TypeOK
    <2>6. due' \in [Timers -> Ticks]
      BY <1>1, <2>2, <2>3 DEF TypeOK
    <2> QED
      BY <1>1, <1>9, <2>5, <2>6 DEF Again, TypeOK, PlacesT
  <1>10. CASE Grow
    <2>1. Users[built + 1] \in Timers
      BY <1>1, <1>10, NextObject DEF Grow
    <2>2. late' \in BOOLEAN
      BY <1>10, Zenon DEF Grow
    <2> QED
      BY <1>1, <1>10, <2>1, <2>2 DEF Grow, TypeOK
  <1>11. CASE Grown
    <2>1. built' \in 0 .. Len(Users)
      BY <1>1, <1>11, SoftTimerAssumption, LenProperties DEF Grown, TypeOK, Places
    <2> QED
      BY <1>1, <1>11, <2>1 DEF Grown, TypeOK
  <1>12. ASSUME NEW t \in Timers, Operate(t)
         PROVE  TypeOK'
    BY <1>1, <1>12 DEF Operate, TypeOK
  <1>13. CASE Return
    BY <1>1, <1>13 DEF Return, TypeOK
  <1>14. CASE Resume
    BY <1>1, <1>14, HalfTurn DEF Resume, TypeOK, PlacesT, Ticks
  <1>15. CASE Mark
    BY <1>1, <1>15 DEF Mark, TypeOK
  <1>16. CASE Start
    <2> DEFINE d == (tick + Period[mine]) % Mod
    <2>1. mine \in Timers
      BY <1>1, <1>16 DEF Start, TypeOK, Places
    <2>2. d \in Ticks
      BY <1>1, <2>1, DueTick
    <2>3. due' = [due EXCEPT ![mine] = d] /\ list' = Inserted(mine, d)
      BY <1>16 DEF Start
    <2> HIDE DEF d
    <2>4. due' \in [Timers -> Ticks] /\ list' \in Seq(Timers)
      BY <1>1, <2>1, <2>2, <2>3, InsertedIn DEF TypeOK
    <2> QED
      BY <1>1, <1>16, <2>4, SoftTimerAssumption DEF Start, TypeOK
  <1>17. CASE Stop
    <2>1. list' \in Seq(Timers)
      BY <1>1, <1>17, WithoutIn DEF Stop, TypeOK, TInv, Apart
    <2>2. atMax' \in BOOLEAN
      BY <1>17, Zenon DEF Stop
    <2> QED
      BY <1>1, <1>17, <2>1, <2>2 DEF Stop, TypeOK
  <1>18. CASE UNCHANGED vars
    BY <1>1, <1>18 DEF vars, TypeOK
  <1> QED
    BY <1>3, <1>4, <1>5, <1>6, <1>7, <1>8, <1>9, <1>10, <1>11, <1>12, <1>13, <1>14,
       <1>15, <1>16, <1>17, <1>18 DEF Next, TimerThread, User

\* While a user runs, the timer thread has no timer in hand.
LEMMA RunsAlone ==
    Places /\ Runs =>
        current = NoTimer /\ pcT \notin {"call", "called", "terminated"}
  BY DEF Places, Runs, Sleeping

\* Objects only become more.
LEMMA UseStays ==
    ASSUME TypeOK, built' = built \/ built' = built + 1, NEW t, InUse(t)
    PROVE  InUse(t)'
  <1>1. built \in Nat
    BY SoftTimerAssumption, LenProperties DEF TypeOK
  <1>2. \A k \in 1 .. built : k \in 1 .. built'
    BY <1>1
  <1> QED
    BY <1>2 DEF InUse

\* Every step keeps the places of the threads in accord.
LEMMA PlacesNext == TInv /\ [Next]_vars => Places'
  <1> SUFFICES ASSUME TInv, [Next]_vars PROVE Places'
    OBVIOUS
  <1> USE DEF kernel, thread, user, history
  <1>1. TypeOK /\ Places
    BY DEF TInv
  <1>2. ASSUME UNCHANGED <<current, user, active>>,
               pcT' = pcT \/ {pcT, pcT'} \cap {"call", "called", "terminated"} = {}
        PROVE  Places'
    BY <1>1, <1>2 DEF Places, InUse
  <1>3. CASE Tick \/ Look \/ Suspend \/ Delay \/ NothingDue
    BY <1>2, <1>3 DEF Tick, Look, Suspend, Delay, NothingDue
  <1>4. CASE Take
    <2>1. list # <<>>
      BY <1>4 DEF Take, HeadDue
    <2>2. Head(list) \in Timers
      BY <1>1, <2>1, TailIn DEF TypeOK
    <2>3. active'[Head(list)] = (Head(list) \notin OneShot)
      BY <1>1, <1>4, <2>2 DEF Take, TypeOK
    <2> QED
      BY <1>1, <1>4, <2>2, <2>3, SoftTimerAssumption DEF Take, Places, InUse
  <1>5. CASE Call
    BY <1>1, <1>5 DEF Call, Places, InUse
  <1>6. CASE Again
    BY <1>1, <1>6 DEF Again, Places, InUse
  <1>7. CASE Grow
    <2>1. mine' \in Timers
      BY <1>1, <1>7, NextObject DEF Grow
    <2> QED
      BY <1>1, <1>7, <2>1, RunsAlone, SoftTimerAssumption DEF Grow, Places
  <1>8. CASE Grown
    <2>1. built' \in 1 .. built' /\ Users[built'] = mine
      BY <1>1, <1>8, SoftTimerAssumption, LenProperties DEF Grown, Places, TypeOK
    <2>2. InUse(mine)'
      BY <1>8, <2>1 DEF InUse, Grown
    <2> QED
      BY <1>1, <1>8, <2>2, RunsAlone DEF Grown, Places
  <1>9. ASSUME NEW t \in Timers, Operate(t)
        PROVE  Places'
    BY <1>1, <1>9, RunsAlone, SoftTimerAssumption DEF Operate, Places, InUse
  <1>10. CASE Return \/ Start \/ Resume \/ Mark \/ Stop
    BY <1>1, <1>10, RunsAlone DEF Return, Start, Resume, Mark, Stop, Places, InUse
  <1>11. CASE UNCHANGED vars
    BY <1>2, <1>11 DEF vars
  <1> QED
    BY <1>3, <1>4, <1>5, <1>6, <1>7, <1>8, <1>9, <1>10, <1>11 DEF Next, TimerThread, User

\* The steps that leave the timers where they are.
Quiet ==
    \/ Tick \/ Look \/ Suspend \/ Delay \/ NothingDue \/ UNCHANGED vars
    \/ Grow \/ Grown \/ Return \/ Resume \/ Mark
    \/ \E t \in Timers : Operate(t)

\* A step that leaves the list alone leaves every timer where it is.
LEMMA QuietOn ==
    ASSUME Places, Quiet
    PROVE  /\ list' = list /\ inStart' = inStart
           /\ current' = current /\ (pcT' = "call" <=> pcT = "call")
           /\ \A t \in Timers : On(t)' <=> On(t)
  <1> USE DEF kernel, thread, user, history
  <1>1. ASSUME UNCHANGED <<list, inStart, current, active>>, pcT' = "call" <=> pcT = "call"
        PROVE  \A t \in Timers : On(t)' <=> On(t)
    BY <1>1 DEF On, In
  <1>2. CASE Tick \/ Look \/ Suspend \/ Delay \/ NothingDue
    BY <1>1, <1>2 DEF Tick, Look, Suspend, Delay, NothingDue
  <1>3. CASE Grow \/ Grown \/ Return \/ Mark \/ UNCHANGED vars
    BY <1>1, <1>3 DEF Grow, Grown, Return, Mark, vars
  <1>4. ASSUME NEW t \in Timers, Operate(t)
        PROVE  UNCHANGED <<list, inStart, current, active>> /\ pcT' = pcT
    BY <1>4 DEF Operate
  <1>5. CASE Resume
    BY <1>1, <1>5, RunsAlone DEF Resume
  <1> QED
    BY <1>1, <1>2, <1>3, <1>4, <1>5 DEF Quiet

\* Every step is one of those, or moves a timer.
LEMMA Moves == [Next]_vars => Quiet \/ Take \/ Call \/ Again \/ Start \/ Stop
  BY DEF Next, TimerThread, User, Quiet

\* Every step keeps a timer in one place.
LEMMA ApartNext == TInv /\ [Next]_vars => Apart'
  <1> SUFFICES ASSUME TInv, [Next]_vars PROVE Apart'
    OBVIOUS
  <1> USE DEF kernel, thread, user, history
  <1>1. TypeOK /\ Places /\ Apart /\ Marks /\ list \in Seq(Timers)
    BY DEF TInv, TypeOK
  <1>2. CASE Quiet
    BY <1>1, <1>2, QuietOn DEF Apart, Once, In
  <1>3. CASE Take
    <2>1. list # <<>> /\ current' = Head(list) /\ list' = Tail(list) /\ inStart' = inStart
      BY <1>3 DEF Take, HeadDue
    <2> DEFINE r == Tail(list)
    <2>2. /\ \A x : In(list, x) <=> In(r, x) \/ x = Head(list)
          /\ Once(r) /\ ~In(r, Head(list))
      BY <1>1, <2>1, TailIn DEF Apart
    <2>3. list' = r
      BY <2>1
    <2> HIDE DEF r
    <2>4. (\A x : In(list, x)' <=> In(r, x)) /\ (Once(list)' <=> Once(r))
      BY <2>3 DEF In, Once
    <2>5. ~In(list', current')
      BY <2>1, <2>2, <2>3
    <2>6. Once(list)'
      BY <2>2, <2>3
    <2>7. \A t \in inStart' : ~In(list', t) /\ ~(t = current')
      BY <1>1, <2>1, <2>2, <2>3 DEF Apart
    <2> QED
      BY <2>5, <2>6, <2>7 DEF Apart
  <1>4. CASE Call
    <2>1. /\ list' = list /\ current' = current /\ pcT' # "call"
          /\ inStart' \subseteq inStart \cup {current}
      BY <1>4 DEF Call
    <2> QED
      BY <1>1, <2>1 DEF Apart, In, Once
  <1>5. CASE Again
    <2>1. current \in Timers /\ current' = NoTimer /\ inStart' = inStart /\ pcT' = "check"
      BY <1>1, <1>5 DEF Again, TypeOK, Places
    <2>2. PICK d : \/ active[current] /\ list' = Inserted(current, d)
                   \/ ~active[current] /\ list' = list
      BY <1>5 DEF Again
    <2>3. /\ Inserted(current, d) \in Seq(Timers)
          /\ \A x : In(Inserted(current, d), x) <=> In(list, x) \/ x = current
          /\ Once(Inserted(current, d))
      BY <1>1, <2>1, InsertedIn DEF Apart
    <2>4. ~In(list, NoTimer)
      BY <1>1, ElementOfSeq, SoftTimerAssumption DEF In
    <2>5. PICK r : r = list' /\ Once(r) /\ \A x : In(r, x) => In(list, x) \/ x = current
      BY <1>1, <2>2, <2>3 DEF Apart
    <2>6. active[current] => current \notin inStart
      BY <1>1, <1>5 DEF Again, Places, TypeOK
    <2>7. ~active[current] => list' = list
      BY <2>2
    <2>8. \A t \in inStart' : ~In(r, t)
      BY <1>1, <2>1, <2>5, <2>6, <2>7 DEF Apart
    <2>9. ~In(r, NoTimer)
      BY <2>1, <2>4, <2>5, SoftTimerAssumption
    <2> QED
      BY <2>1, <2>5, <2>8, <2>9 DEF Apart
  <1>6. ASSUME NEW d, list' = Inserted(mine, d), mine \in Timers, ~On(mine),
               current' = NoTimer, inStart' = inStart, pcT' # "call"
        PROVE  Apart'
    <2>1. ~In(list, mine) /\ mine \notin inStart
      BY <1>6 DEF On
    <2>2. /\ \A x : In(Inserted(mine, d), x) <=> In(list, x) \/ x = mine
          /\ Once(Inserted(mine, d))
      BY <1>1, <1>6, <2>1, InsertedIn DEF Apart
    <2>3. ~In(list, NoTimer)
      BY <1>1, ElementOfSeq, SoftTimerAssumption DEF In
    <2>4. PICK r : r = list' /\ Once(r) /\ \A x : In(r, x) => In(list, x) \/ x = mine
      BY <1>6, <2>2
    <2> QED
      BY <1>1, <1>6, <2>1, <2>3, <2>4, SoftTimerAssumption DEF Apart
  <1>7. CASE Start
    <2>1. mine \in Timers /\ ~running[mine] /\ pc = "start"
      BY <1>1, <1>7 DEF Start, TypeOK, Places
    <2>2. ~On(mine)
      BY <1>1, <2>1 DEF Marks, Starting, Stopping
    <2>3. /\ current' = NoTimer /\ inStart' = inStart /\ pcT' # "call"
          /\ list' = Inserted(mine, (tick + Period[mine]) % Mod)
      BY <1>1, <1>7, RunsAlone DEF Start
    <2> QED
      BY <1>6, <2>1, <2>2, <2>3
  <1>8. CASE Stop
    <2>1. /\ Once(Without(mine)) /\ \A x : In(Without(mine), x) => In(list, x)
      BY <1>1, WithoutIn DEF Apart
    <2>2. /\ current' = NoTimer /\ current = NoTimer /\ inStart' \subseteq inStart
          /\ pcT' # "call" /\ list' = Without(mine)
      BY <1>1, <1>8, RunsAlone DEF Stop
    <2>3. PICK r : r = list' /\ Once(r) /\ \A x : In(r, x) => In(list, x)
      BY <2>1, <2>2
    <2> QED
      BY <1>1, <2>2, <2>3 DEF Apart
  <1> QED
    BY <1>2, <1>3, <1>4, <1>5, <1>7, <1>8, Moves

\* A timer that is taken off the list, called, and put back, stays on; a one-shot
\* timer goes off when it is called, unless its start is not over.
LEMMA OnThroughCall ==
    ASSUME TInv, Take \/ Call \/ Again, NEW t \in Timers
    PROVE  On(t)' <=> /\ On(t)
                      /\ Call /\ t = current /\ t \in OneShot => Starting(t)
  <1> USE DEF kernel, thread, user, history
  <1>1. TypeOK /\ Places /\ Apart /\ list \in Seq(Timers)
    BY DEF TInv, TypeOK
  <1>2. CASE Take
    <2>1. /\ list # <<>> /\ current' = Head(list) /\ list' = Tail(list) /\ inStart' = inStart
          /\ pcT = "check" /\ pcT' = "call"
      BY <1>2 DEF Take, HeadDue
    <2>2. current = NoTimer
      BY <1>1, <2>1 DEF Places
    <2>3. PICK r : /\ r = list' /\ \A x : In(list, x) <=> In(r, x) \/ x = Head(list)
      BY <1>1, <2>1, TailIn
    <2>4. In(list, t) <=> In(list', t) \/ t = current'
      BY <2>1, <2>3
    <2> QED
      BY <2>1, <2>2, <2>4, SoftTimerAssumption DEF On, Call
  <1>3. CASE Call
    <2>1. /\ list' = list /\ active' = active /\ current' = current /\ pcT = "call"
          /\ pcT' # "call"
          /\ inStart' = IF current \in OneShot /\ mine = current /\ pc \in {"resume", "mark"}
                        THEN inStart \cup {current} ELSE inStart
      BY <1>3 DEF Call
    <2>2. current \notin inStart /\ (active[current] <=> current \notin OneShot)
      BY <1>1, <2>1 DEF Apart, Places
    <2>3. In(list', t) <=> In(list, t)
      BY <2>1
    <2>4. ~In(list, current)
      BY <1>1 DEF Apart
    <2>5. CASE t # current
      BY <2>1, <2>3, <2>5 DEF On
    <2>6. CASE t = current
      BY <1>3, <2>1, <2>2, <2>3, <2>4, <2>6 DEF On, Starting
    <2> QED
      BY <2>5, <2>6
  <1>4. CASE Again
    <2>1. /\ current \in Timers /\ current' = NoTimer /\ inStart' = inStart /\ pcT' = "check"
          /\ pcT = "called"
      BY <1>1, <1>4 DEF Again, TypeOK, Places
    <2>2. PICK d : \/ active[current] /\ list' = Inserted(current, d)
                   \/ ~active[current] /\ list' = list
      BY <1>4 DEF Again
    <2>3. \A x : In(Inserted(current, d), x) <=> In(list, x) \/ x = current
      BY <1>1, <2>1, InsertedIn
    <2>4. In(list', t) <=> In(list, t) \/ (active[current] /\ t = current)
      BY <2>2, <2>3
    <2> QED
      BY <2>1, <2>4, SoftTimerAssumption DEF On, Call
  <1> QED
    BY <1>2, <1>3, <1>4

\* start puts its timer on; stop takes it off.
LEMMA OnThroughUser ==
    ASSUME TInv, Start \/ Stop, NEW t \in Timers
    PROVE  On(t)' <=> IF t = mine THEN Start ELSE On(t)
  <1> USE DEF kernel, thread, user, history
  <1>1. TypeOK /\ Places /\ Apart /\ list \in Seq(Timers)
    BY DEF TInv, TypeOK
  <1>2. mine \in Timers
    BY <1>1 DEF Start, Stop, Places, TypeOK
  <1>3. current = NoTimer /\ current' = NoTimer
    BY <1>1, RunsAlone DEF Start, Stop
  <1>4. CASE Start
    <2>1. list' = Inserted(mine, (tick + Period[mine]) % Mod) /\ inStart' = inStart
      BY <1>4 DEF Start
    <2>2. In(list', t) <=> In(list, t) \/ t = mine
      BY <1>1, <1>2, <2>1, InsertedIn
    <2> QED
      BY <1>3, <1>4, <2>1, <2>2, SoftTimerAssumption DEF On
  <1>5. CASE Stop
    <2>1. list' = Without(mine) /\ inStart' = inStart \ {mine}
      BY <1>5 DEF Stop
    <2>2. In(list', t) <=> In(list, t) /\ t # mine
      BY <1>1, <2>1, WithoutIn DEF Apart
    <2>3. ~Start
      BY <1>5 DEF Start, Stop
    <2> QED
      BY <1>3, <2>1, <2>2, <2>3, SoftTimerAssumption DEF On
  <1> QED
    BY <1>4, <1>5

\* Every step keeps the marks of the timers.
LEMMA MarksNext == TInv /\ [Next]_vars => Marks'
  <1> SUFFICES ASSUME TInv, [Next]_vars, NEW t \in Timers
               PROVE  /\ Starting(t)' => ~running'[t] /\ On(t)'
                      /\ Stopping(t)' => running'[t] /\ ~On(t)'
                      /\ ~Starting(t)' /\ ~Stopping(t)' => (running'[t] <=> On(t)')
    BY DEF Marks
  <1> USE DEF kernel, thread, user, history
  <1>1. /\ TypeOK /\ Places
        /\ Starting(t) => ~running[t] /\ On(t)
        /\ Stopping(t) => running[t] /\ ~On(t)
        /\ ~Starting(t) /\ ~Stopping(t) => (running[t] <=> On(t))
    BY DEF TInv, Marks
  <1>2. CASE \/ Tick \/ Look \/ Suspend \/ Delay \/ NothingDue
             \/ UNCHANGED vars
    <2>1. UNCHANGED <<mine, pc, running>>
      BY <1>2 DEF Tick, Look, Suspend, Delay, NothingDue, vars
    <2>2. On(t)' <=> On(t)
      BY <1>1, <1>2, QuietOn DEF Quiet
    <2> QED
      BY <1>1, <2>1, <2>2 DEF Starting, Stopping
  <1>3. CASE Grow \/ Grown \/ Return \/ \E u \in Timers : Operate(u)
    <2>1. /\ running' = running
          /\ {pc, pc'} \cap {"resume", "mark", "unmark"} = {}
      BY <1>3 DEF Grow, Grown, Return, Operate
    <2>2. On(t)' <=> On(t)
      BY <1>1, <1>3, QuietOn DEF Quiet
    <2> QED
      BY <1>1, <2>1, <2>2 DEF Starting, Stopping
  <1>4. CASE Resume
    <2>1. running' = running /\ mine' = mine /\ pc = "resume" /\ pc' = "mark"
      BY <1>4 DEF Resume
    <2>2. On(t)' <=> On(t)
      BY <1>1, <1>4, QuietOn DEF Quiet
    <2> QED
      BY <1>1, <2>1, <2>2 DEF Starting, Stopping
  <1>5. CASE Mark
    <2>1. /\ running' = [running EXCEPT ![mine] = pc = "mark"] /\ pc' = "idle"
          /\ pc \in {"mark", "unmark"}
      BY <1>5 DEF Mark
    <2>2. On(t)' <=> On(t)
      BY <1>1, <1>5, QuietOn DEF Quiet
    <2>3. t = mine => (running'[t] <=> pc = "mark")
      BY <1>1, <2>1 DEF TypeOK
    <2>4. t # mine => running'[t] = running[t]
      BY <1>1, <2>1 DEF TypeOK
    <2> QED
      BY <1>1, <2>1, <2>2, <2>3, <2>4 DEF Starting, Stopping
  <1>6. CASE Take \/ Again
    <2>1. UNCHANGED <<mine, pc, running>> /\ ~Call
      BY <1>6 DEF Take, Again, Call
    <2>2. On(t)' <=> On(t)
      BY <1>6, <2>1, OnThroughCall
    <2> QED
      BY <1>1, <2>1, <2>2 DEF Starting, Stopping
  <1>7. CASE Call
    <2>1. /\ running' = [running EXCEPT ![current] = @ /\ current \notin OneShot]
          /\ UNCHANGED <<mine, pc>> /\ pcT = "call"
      BY <1>7 DEF Call
    <2>2. On(t)' <=> /\ On(t)
                     /\ t = current /\ t \in OneShot => Starting(t)
      BY <1>7, OnThroughCall
    <2>3. t = current => On(t) /\ (running'[t] <=> running[t] /\ t \notin OneShot)
      BY <1>1, <2>1 DEF TypeOK, On
    <2>4. t # current => running'[t] = running[t]
      BY <1>1, <2>1 DEF TypeOK
    <2> QED
      BY <1>1, <2>1, <2>2, <2>3, <2>4 DEF Starting, Stopping
  <1>8. CASE Start
    <2>1. /\ running' = running /\ mine' = mine /\ pc = "start" /\ pc' = "resume"
          /\ ~running[mine]
      BY <1>8 DEF Start
    <2>2. On(t)' <=> t = mine \/ On(t)
      BY <1>8, OnThroughUser
    <2> QED
      BY <1>1, <2>1, <2>2 DEF Starting, Stopping
  <1>9. CASE Stop
    <2>1. running' = running /\ mine' = mine /\ pc = "stop" /\ pc' = "unmark" /\ running[mine]
      BY <1>9 DEF Stop
    <2>2. On(t)' <=> t # mine /\ On(t)
      BY <1>9, <2>1, OnThroughUser DEF Start
    <2> QED
      BY <1>1, <2>1, <2>2 DEF Starting, Stopping
  <1> QED
    BY <1>2, <1>3, <1>4, <1>5, <1>6, <1>7, <1>8, <1>9, Moves DEF Quiet

\* Every step keeps the timers that are on in the hands of objects.
LEMMA OwnersNext == TInv /\ [Next]_vars => Owners'
  <1> SUFFICES ASSUME TInv, [Next]_vars PROVE Owners'
    OBVIOUS
  <1> USE DEF kernel, thread, user, history
  <1>1. TypeOK /\ Places /\ Owners
    BY DEF TInv
  <1>2. ASSUME NEW t \in Timers, On(t)'
        PROVE  On(t) \/ (Start /\ t = mine)
    BY <1>2, <1>1, Moves, QuietOn, OnThroughCall, OnThroughUser
  <1>3. built' = built \/ built' = built + 1
    BY DEF Next, TimerThread, User, Tick, Look, Suspend, Delay, NothingDue, Take, Call,
           Again, Grow, Grown, Operate, Return, Start, Resume, Mark, Stop, vars
  <1>4. ASSUME NEW t \in Timers, On(t)'
        PROVE  InUse(t)'
    <2>1. InUse(t)
      BY <1>1, <1>2, <1>4 DEF Owners, Start, Places
    <2> QED
      BY <1>1, <1>3, <2>1, UseStays
  <1>5. ASSUME pc' = "grow", ~late'
        PROVE  ~InUse(mine)'
    <2>1. CASE Grow
      BY <1>5, <2>1 DEF Grow, InUse
    <2>2. CASE ~Grow
      <3>1. pc = "grow" /\ mine' = mine /\ built' = built /\ late' = late
        BY <1>1, <1>5, <2>2 DEF Next, TimerThread, User, Tick, Look, Suspend, Delay, NothingDue,
               Take, Call, Again, Grown, Operate, Return, Start, Resume, Mark, Stop, vars
      <3> QED
        BY <1>1, <1>5, <3>1 DEF Owners, InUse
    <2> QED
      BY <2>1, <2>2
  <1> QED
    BY <1>4, <1>5 DEF Owners

-----------------------------------------------------------------------------
(* When a timer is called *)

\* The difference and the sum of two instants.
LEMMA Difference ==
    ASSUME NEW a \in Ticks, NEW b \in Ticks
    PROVE  (a - b) % Mod = IF a >= b THEN a - b ELSE a - b + Mod
  <1>1. /\ a \in Int /\ b \in Int /\ 0 <= a /\ a < Mod /\ 0 <= b /\ b < Mod
        /\ Mod \in Nat \ {0}
    BY HalfTurn DEF Ticks
  <1>2. PICK x \in Int : x = a - b
    BY <1>1
  <1>3. /\ 0 <= x /\ x < Mod => x % Mod = x
        /\ -Mod <= x /\ x < 0 => x % Mod = x + Mod
    BY <1>1, Wrap
  <1> QED
    BY <1>1, <1>2, <1>3

\* A sum of two numbers of less than a turn wraps once at most.
LEMMA Addition ==
    ASSUME NEW b \in Ticks, NEW p \in 0 .. Mod - 1
    PROVE  (b + p) % Mod = IF b + p < Mod THEN b + p ELSE b + p - Mod
  <1>1. /\ b \in Int /\ p \in Int /\ 0 <= b /\ b < Mod /\ 0 <= p /\ p < Mod
        /\ Mod \in Nat \ {0}
    BY HalfTurn DEF Ticks
  <1>2. PICK x \in Int : x = b + p
    BY <1>1
  <1>3. /\ 0 <= x /\ x < Mod => x % Mod = x
        /\ Mod <= x /\ x < Mod + Mod => x % Mod = x - Mod
    BY <1>1, Wrap
  <1> QED
    BY <1>1, <1>2, <1>3

\* A tick takes one from the time that is left; a start sets it.
LEMMA TickTakesOne ==
    ASSUME NEW a \in Ticks, NEW b \in Ticks, NEW c, c = (b + 1) % Mod, (a - b) % Mod >= 1
    PROVE  c \in Ticks /\ (a - c) % Mod = ((a - b) % Mod) - 1
  <1>1. /\ a \in Int /\ b \in Int /\ 0 <= a /\ a < Mod /\ 0 <= b /\ b < Mod
        /\ Mod \in Nat \ {0}
    BY HalfTurn DEF Ticks
  <1>2. (a - b) % Mod = IF a >= b THEN a - b ELSE a - b + Mod
    BY Difference
  <1>3. a # b
    BY <1>1, <1>2
  <1>4. 1 \in 0 .. Mod - 1
    BY <1>1, <1>3
  <1>5. c = IF b + 1 < Mod THEN b + 1 ELSE b + 1 - Mod
    BY <1>4, Addition
  <1>6. c \in Ticks
    BY <1>1, <1>5, HalfTurn DEF Ticks
  <1>7. (a - c) % Mod = IF a >= c THEN a - c ELSE a - c + Mod
    BY <1>6, Difference
  <1> QED
    BY <1>1, <1>2, <1>3, <1>5, <1>6, <1>7

\* The timeout rt_timer_start sets lies as far ahead as the period.
LEMMA StartSetsTime ==
    ASSUME NEW b \in Ticks, NEW p \in 0 .. Mod - 1, NEW c, c = (b + p) % Mod
    PROVE  c \in Ticks /\ (c - b) % Mod = p
  <1>1. /\ b \in Int /\ p \in Int /\ 0 <= b /\ b < Mod /\ 0 <= p /\ p < Mod
        /\ Mod \in Nat \ {0}
    BY HalfTurn DEF Ticks
  <1>2. c = IF b + p < Mod THEN b + p ELSE b + p - Mod
    BY Addition
  <1>3. c \in Ticks
    BY <1>1, <1>2, HalfTurn DEF Ticks
  <1>4. (c - b) % Mod = IF c >= b THEN c - b ELSE c - b + Mod
    BY <1>3, Difference
  <1> QED
    BY <1>1, <1>2, <1>3, <1>4

\* A timer that is due has been waiting for its time.
LEMMA DueIsOver ==
    ASSUME TInv, Early, NEW t \in Timers, In(list, t), Passed(due[t], tick)
    PROVE  since[t] = Period[t]
  <1>1. /\ due[t] \in Ticks /\ tick \in Ticks /\ since[t] \in Nat /\ since[t] <= Period[t]
    BY DEF TInv, TypeOK, Early
  <1>2. SUFFICES ASSUME since[t] < Period[t] PROVE FALSE
    BY <1>1, HalfTurn
  <1> DEFINE a == due[t]
             P == Period[t]
  <1>3. 1 <= (a - tick) % Mod /\ (a - tick) % Mod <= P /\ P <= Half - 1
    <2>1. (due[t] - tick) % Mod \in Int
      BY <1>1, Difference, HalfTurn DEF Ticks
    <2>2. /\ Period[t] - since[t] <= (due[t] - tick) % Mod
          /\ (due[t] - tick) % Mod <= Period[t]
      BY <1>2 DEF Early
    <2> QED
      BY <1>1, <1>2, <2>1, <2>2, HalfTurn
  <1>4. /\ a \in Int /\ tick \in Int /\ 0 <= a /\ a < Mod /\ 0 <= tick /\ tick < Mod
        /\ Mod \in Nat \ {0} /\ P \in Nat /\ Half \in Nat /\ Half + Half < Mod
    BY <1>1, HalfTurn DEF Ticks
  <1>5. (a - tick) % Mod = IF a >= tick THEN a - tick ELSE a - tick + Mod
    BY <1>1, Difference
  <1>6. (tick - a) % Mod = IF tick >= a THEN tick - a ELSE tick - a + Mod
    BY <1>1, Difference
  <1>7. (tick - a) % Mod < Half
    BY DEF Passed
  <1> HIDE DEF a, P
  <1> QED
    BY <1>3, <1>4, <1>5, <1>6, <1>7

\* Every step keeps the timers from being due early.
LEMMA EarlyNext == TInv /\ Early /\ [Next]_vars => Early'
  <1> SUFFICES ASSUME TInv, Early, [Next]_vars, NEW t \in Timers
               PROVE  /\ since'[t] <= Period[t]
                      /\ In(list, t)' /\ since'[t] < Period[t] =>
                            /\ Period[t] - since'[t] <= (due'[t] - tick') % Mod
                            /\ (due'[t] - tick') % Mod <= Period[t]
    BY DEF Early
  <1> USE DEF kernel, thread, user, history
  <1>1. /\ TypeOK /\ Places /\ Apart /\ list \in Seq(Timers)
        /\ due[t] \in Ticks /\ tick \in Ticks /\ since[t] \in Nat /\ Period[t] \in Nat
        /\ since[t] <= Period[t] /\ 1 <= Period[t]
        /\ In(list, t) /\ since[t] < Period[t] =>
              /\ Period[t] - since[t] <= (due[t] - tick) % Mod
              /\ (due[t] - tick) % Mod <= Period[t]
    BY HalfTurn DEF TInv, TypeOK, Early
  <1>2. (due[t] - tick) % Mod \in Int
    BY <1>1, Difference, HalfTurn DEF Ticks
  <1>3. ASSUME UNCHANGED <<due, tick, since>>, In(list, t)' => In(list, t)
        PROVE  /\ since'[t] <= Period[t]
               /\ In(list, t)' /\ since'[t] < Period[t] =>
                     /\ Period[t] - since'[t] <= (due'[t] - tick') % Mod
                     /\ (due'[t] - tick') % Mod <= Period[t]
    BY <1>1, <1>3
  <1>4. CASE Tick
    <2>1. /\ tick' = (tick + 1) % Mod /\ due' = due /\ list' = list
          /\ since'[t] = IF since[t] < Period[t] THEN since[t] + 1 ELSE since[t]
      BY <1>1, <1>4 DEF Tick
    <2>2. (due[t] - tick) % Mod >= 1 => (due[t] - tick') % Mod = ((due[t] - tick) % Mod) - 1
      BY <1>1, <2>1, TickTakesOne
    <2>3. In(list', t) <=> In(list, t)
      BY <2>1
    <2> DEFINE left == (due[t] - tick) % Mod
               left2 == (due[t] - tick') % Mod
               p == Period[t]
    <2>4. since'[t] <= p
      BY <1>1, <2>1
    <2>5. ASSUME In(list', t), since'[t] < p
          PROVE  p - since'[t] <= left2 /\ left2 <= p
      <3>1. since[t] < p /\ since'[t] = since[t] + 1
        BY <1>1, <2>1, <2>5
      <3>2. p - since[t] <= left /\ left <= p
        BY <1>1, <2>3, <2>5, <3>1
      <3> HIDE DEF left, left2, p
      <3>3. left \in Int /\ p \in Nat /\ since[t] \in Nat
        BY <1>1, <1>2 DEF left, p
      <3>4. left >= 1
        BY <3>1, <3>2, <3>3
      <3>5. left2 = left - 1
        BY <2>2, <3>4 DEF left, left2
      <3> QED
        BY <3>1, <3>2, <3>3, <3>5
    <2> QED
      BY <2>1, <2>4, <2>5
  <1>5. CASE \/ Look \/ Suspend \/ Delay \/ NothingDue \/ UNCHANGED vars
             \/ Grow \/ Grown \/ Return \/ Resume \/ Mark
             \/ \E u \in Timers : Operate(u)
    <2>1. UNCHANGED <<due, tick, since, list>>
      BY <1>5 DEF Look, Suspend, Delay, NothingDue, vars, Grow, Grown, Return, Resume, Mark,
             Operate
    <2> QED
      BY <1>3, <2>1
  <1>6. CASE Take
    <2>1. list # <<>> /\ list' = Tail(list) /\ UNCHANGED <<due, tick, since>>
      BY <1>6 DEF Take, HeadDue
    <2>2. PICK r : r = list' /\ \A x : In(r, x) => In(list, x)
      BY <1>1, <2>1, TailIn
    <2> QED
      BY <1>3, <2>1, <2>2
  <1>7. CASE Call
    <2>1. /\ list' = list /\ UNCHANGED <<due, tick>> /\ since' = [since EXCEPT ![current] = 0]
      BY <1>7 DEF Call
    <2>2. t # current => since'[t] = since[t]
      BY <1>1, <2>1 DEF TypeOK
    <2>3. t = current => since'[t] = 0 /\ ~In(list, t)
      BY <1>1, <2>1 DEF TypeOK, Apart
    <2> QED
      BY <1>1, <2>1, <2>2, <2>3
  <1>8. ASSUME NEW u \in Timers, due' = [due EXCEPT ![u] = (tick + Period[u]) % Mod],
               list' = Inserted(u, (tick + Period[u]) % Mod), tick' = tick,
               since'[t] = since[t] \/ (since'[t] = 0 /\ t = u)
        PROVE  /\ since'[t] <= Period[t]
               /\ In(list, t)' /\ since'[t] < Period[t] =>
                     /\ Period[t] - since'[t] <= (due'[t] - tick') % Mod
                     /\ (due'[t] - tick') % Mod <= Period[t]
    <2>1. PICK r : r = list' /\ \A x : In(r, x) <=> In(list, x) \/ x = u
      BY <1>1, <1>8, InsertedIn
    <2>2. CASE t # u
      <3>1. due'[t] = due[t] /\ since'[t] = since[t]
        BY <1>1, <1>8, <2>2 DEF TypeOK
      <3> QED
        BY <1>1, <1>8, <2>1, <2>2, <3>1
    <2>3. CASE t = u
      <3>1. due'[t] = (tick + Period[t]) % Mod
        BY <1>1, <1>8, <2>3 DEF TypeOK
      <3>2. (due'[t] - tick') % Mod = Period[t]
        BY <1>1, <1>8, <3>1, StartSetsTime, HalfTurn
      <3> QED
        BY <1>1, <1>8, <3>2
    <2> QED
      BY <2>2, <2>3
  <1>9. CASE Again
    <2>1. current \in Timers /\ UNCHANGED <<tick, since>>
      BY <1>1, <1>9 DEF Again, Places, TypeOK
    <2>2. CASE active[current]
      BY <1>8, <1>9, <2>1, <2>2 DEF Again
    <2>3. CASE ~active[current]
      BY <1>3, <1>9, <2>1, <2>3 DEF Again
    <2> QED
      BY <2>2, <2>3
  <1>10. CASE Start
    <2>1. mine \in Timers /\ tick' = tick /\ since' = [since EXCEPT ![mine] = 0]
      BY <1>1, <1>10 DEF Start, Places, TypeOK
    <2>2. since'[t] = since[t] \/ (since'[t] = 0 /\ t = mine)
      BY <1>1, <2>1 DEF TypeOK
    <2> QED
      BY <1>8, <1>10, <2>1, <2>2 DEF Start
  <1>11. CASE Stop
    <2>1. list' = Without(mine) /\ UNCHANGED <<due, tick, since>>
      BY <1>11 DEF Stop
    <2>2. PICK r : r = list' /\ \A x : In(r, x) => In(list, x)
      BY <1>1, <2>1, WithoutIn DEF Apart
    <2> QED
      BY <1>3, <2>1, <2>2
  <1> QED
    BY <1>4, <1>5, <1>6, <1>7, <1>9, <1>10, <1>11, Moves DEF Quiet

\* A timer is called when its time is over, and not called out of a vector that
\* moves, unless an object came late.
LEMMA CallNext ==
    TInv /\ Early /\ NeverEarly /\ TornNeedsLateUser /\ [Next]_vars
    => NeverEarly' /\ TornNeedsLateUser'
  <1> SUFFICES ASSUME TInv, Early, NeverEarly, TornNeedsLateUser, [Next]_vars
               PROVE  NeverEarly' /\ TornNeedsLateUser'
    OBVIOUS
  <1> USE DEF kernel, thread, user, history
  <1>1. TypeOK /\ Places /\ Owners /\ list \in Seq(Timers)
    BY DEF TInv, TypeOK
  <1>2. ASSUME pcT' = "call"
        PROVE  since'[current'] = Period[current']
    <2>1. CASE Take
      <3>1. /\ list # <<>> /\ Passed(due[Head(list)], tick) /\ current' = Head(list)
            /\ since' = since
        BY <2>1 DEF Take, HeadDue
      <3>2. Head(list) \in Timers /\ In(list, Head(list))
        BY <1>1, <3>1, TailIn
      <3> QED
        BY <3>1, <3>2, DueIsOver
    <2>2. CASE Tick
      <3>1. pcT = "call" /\ current' = current
        BY <1>2, <2>2 DEF Tick
      <3>2. current \in Timers
        BY <1>1, <3>1 DEF Places, TypeOK
      <3>3. since'[current] = IF since[current] < Period[current] THEN since[current] + 1
                              ELSE since[current]
        BY <1>1, <2>2, <3>2 DEF Tick, TypeOK
      <3>4. since[current] = Period[current] /\ Period[current] \in Nat
        BY <3>1, <3>2, HalfTurn DEF NeverEarly
      <3> QED
        BY <3>1, <3>3, <3>4
    <2>3. CASE ~Take /\ ~Tick
      <3>1. pcT = "call" /\ UNCHANGED <<current, since>>
        BY <1>1, <1>2, <2>3, RunsAlone DEF Next, TimerThread, User, Look, Suspend, Delay,
               NothingDue, Call, Again, Grow, Grown, Operate, Return, Start, Resume, Mark,
               Stop, vars
      <3> QED
        BY <3>1 DEF NeverEarly
    <2> QED
      BY <2>1, <2>2, <2>3
  <1>3. ASSUME pcT' = "terminated"
        PROVE  late'
    <2>1. CASE Call
      <3>1. pcT = "call" /\ pc = "grow" /\ mine = current /\ late' = late
        BY <1>3, <2>1 DEF Call
      <3>2. current \in Timers /\ On(current)
        BY <1>1, <3>1 DEF Places, TypeOK, On
      <3> QED
        BY <1>1, <3>1, <3>2 DEF Owners
    <2>2. CASE ~Call
      <3>1. pcT = "terminated" /\ late' = late
        BY <1>1, <1>3, <2>2, RunsAlone DEF Next, TimerThread, User, Tick, Look, Suspend,
               Delay, NothingDue, Take, Again, Grow, Grown, Operate, Return, Start, Resume,
               Mark, Stop, vars
      <3> QED
        BY <3>1 DEF TornNeedsLateUser
    <2> QED
      BY <2>1, <2>2
  <1> QED
    BY <1>2, <1>3 DEF NeverEarly, TornNeedsLateUser

\* At the start no timer is on.
LEMMA TimersInit == Init => TInv /\ Early /\ NeverEarly /\ TornNeedsLateUser
  <1> SUFFICES ASSUME Init PROVE TInv /\ Early /\ NeverEarly /\ TornNeedsLateUser
    OBVIOUS
  <1>1. TypeOK
    <2>1. 0 \in Ticks /\ 0 \in 0 .. MaxLag /\ 0 \in 0 .. Len(Users) /\ <<>> \in Seq(Timers)
      BY HalfTurn, SoftTimerAssumption, LenProperties, EmptySeq DEF Ticks
    <2> QED
      BY <2>1 DEF Init, TypeOK, PlacesT
  <1>2. \A x : ~In(list, x)
    <2>1. Len(list) = 0
      BY EmptySeq DEF Init
    <2> QED
      BY <2>1 DEF In
  <1>3. Once(list)
    <2>1. Len(list) = 0
      BY EmptySeq DEF Init
    <2> QED
      BY <2>1 DEF Once
  <1>4. Places /\ Apart /\ \A t \in Timers : ~On(t)
    BY <1>2, <1>3, SoftTimerAssumption DEF Init, Places, Apart, On
  <1>5. Marks /\ Owners
    BY <1>4 DEF Init, Marks, Owners, Starting, Stopping
  <1>6. Early
    BY <1>2, HalfTurn DEF Init, Early
  <1> QED
    BY <1>1, <1>4, <1>5, <1>6 DEF Init, TInv, NeverEarly, TornNeedsLateUser

\* The invariants hold throughout.
LEMMA TimersInvariant == Spec => [](TInv /\ Early /\ NeverEarly /\ TornNeedsLateUser)
  <1>1. TInv /\ [Next]_vars => TInv'
    BY TypeNext, PlacesNext, ApartNext, MarksNext, OwnersNext DEF TInv
  <1> QED
    BY <1>1, TimersInit, EarlyNext, CallNext, PTL DEF Spec

\* The variables of the timers keep their types.
THEOREM SoftTimerTypeOK == Spec => []TypeOK
  BY TimersInvariant, PTL DEF TInv

\* No timer is called before its time is over, wherever the tick wraps, for any
\* periods of less than half a turn (rt-thread/src/timer.c:342, 373-381, 634).
THEOREM SoftTimerNeverEarly == Spec => []NeverEarly
  BY TimersInvariant, PTL

\* Between the calls of its users, Timer::running says whether the timer is on the
\* kernel's list, or a one-shot timer that fired inside start (os/timer.cxx:11-35).
THEOREM SoftTimerRunningIsListed == Spec => []RunningIsListed
  <1>1. TInv => RunningIsListed
    <2> SUFFICES ASSUME TInv PROVE RunningIsListed
      OBVIOUS
    <2>1. Once(list) /\ Marks /\ Places
      BY DEF TInv, Apart
    <2>2. ASSUME pc = "idle", pcT # "call", NEW t \in Timers
          PROVE  running[t] <=> In(list, t) \/ (t = current /\ active[t]) \/ t \in inStart
      BY <2>1, <2>2 DEF Marks, Starting, Stopping, On
    <2> QED
      BY <2>1, <2>2 DEF RunningIsListed, Once, In
  <1> QED
    BY <1>1, TimersInvariant, PTL

\* No handler is called out of a vector that is being moved, unless an object has
\* joined a timer that another one uses (os/signals.hxx:35-38).
THEOREM SoftTimerTornNeedsLateUser == Spec => []TornNeedsLateUser
  BY TimersInvariant, PTL

-----------------------------------------------------------------------------
(* The timer thread sleeps until the first timer is due *)

\* The instant x is so many ticks ahead of b, or so many behind it, if less than 0.
Signed(x, b) ==
    LET y == (x - b) % Mod IN IF y < Half THEN y ELSE y - Mod

Ahead(x) == Signed(x, tick)

\* How far a signed difference goes, and what it stands for.
LEMMA SignedRange ==
    ASSUME NEW x \in Ticks, NEW b \in Ticks
    PROVE  /\ Signed(x, b) \in Int
           /\ Half - Mod <= Signed(x, b)
           /\ (x - b) % Mod = IF 0 <= Signed(x, b) THEN Signed(x, b) ELSE Signed(x, b) + Mod
           /\ 0 <= Signed(x, b) => Signed(x, b) < Half
  <1>1. /\ x \in Int /\ b \in Int /\ 0 <= x /\ x < Mod /\ 0 <= b /\ b < Mod
        /\ Mod \in Nat \ {0} /\ Half \in Nat /\ Half <= Mod
    BY HalfTurn DEF Ticks
  <1>2. (x - b) % Mod = IF x >= b THEN x - b ELSE x - b + Mod
    BY Difference
  <1>3. PICK y \in Int : y = (x - b) % Mod /\ 0 <= y /\ y < Mod
    BY <1>1, <1>2
  <1>4. Signed(x, b) = IF y < Half THEN y ELSE y - Mod
    BY <1>3 DEF Signed
  <1> QED
    BY <1>1, <1>3, <1>4

\* With the next tick an instant is nearer by one.
LEMMA SignedTick ==
    ASSUME NEW x \in Ticks, NEW b \in Ticks, NEW c, c = (b + 1) % Mod,
           Half - Mod < Signed(x, b), 0 < Half
    PROVE  c \in Ticks /\ Signed(x, c) = Signed(x, b) - 1
  <1>1. /\ x \in Int /\ b \in Int /\ 0 <= x /\ x < Mod /\ 0 <= b /\ b < Mod
        /\ Mod \in Nat \ {0} /\ Half \in Nat /\ Half + Half < Mod
    BY HalfTurn DEF Ticks
  <1>2. (x - b) % Mod = IF x >= b THEN x - b ELSE x - b + Mod
    BY Difference
  <1>3. 1 \in 0 .. Mod - 1
    BY <1>1
  <1>4. c = IF b + 1 < Mod THEN b + 1 ELSE b + 1 - Mod
    BY <1>3, Addition
  <1>5. c \in Ticks
    BY <1>1, <1>4, HalfTurn DEF Ticks
  <1>6. (x - c) % Mod = IF x >= c THEN x - c ELSE x - c + Mod
    BY <1>5, Difference
  <1>7. PICK y \in Int : y = (x - b) % Mod
    BY <1>1, <1>2
  <1>8. PICK z \in Int : z = (x - c) % Mod
    BY <1>1, <1>4, <1>6
  <1>9. /\ Signed(x, b) = IF y < Half THEN y ELSE y - Mod
        /\ Signed(x, c) = IF z < Half THEN z ELSE z - Mod
    BY <1>7, <1>8 DEF Signed
  <1>10. z = IF y = 0 THEN Mod - 1 ELSE y - 1
    BY <1>1, <1>2, <1>4, <1>6, <1>7, <1>8
  <1>11. 0 <= y /\ y < Mod
    BY <1>1, <1>2, <1>7
  <1> QED
    BY <1>1, <1>5, <1>9, <1>10, <1>11

\* An instant that is not half a turn behind has come iff it is not ahead.
LEMMA SignedPassed ==
    ASSUME NEW x \in Ticks, NEW b \in Ticks, 0 - Half < Signed(x, b)
    PROVE  Passed(x, b) <=> Signed(x, b) <= 0
  <1>1. /\ x \in Int /\ b \in Int /\ 0 <= x /\ x < Mod /\ 0 <= b /\ b < Mod
        /\ Mod \in Nat \ {0} /\ Half \in Nat /\ Half + Half < Mod
    BY HalfTurn DEF Ticks
  <1>2. /\ (x - b) % Mod = IF x >= b THEN x - b ELSE x - b + Mod
        /\ (b - x) % Mod = IF b >= x THEN b - x ELSE b - x + Mod
    BY Difference
  <1>3. PICK y \in Int : y = (x - b) % Mod
    BY <1>1, <1>2
  <1>4. PICK z \in Int : z = (b - x) % Mod
    BY <1>1, <1>2
  <1>5. Signed(x, b) = IF y < Half THEN y ELSE y - Mod
    BY <1>3 DEF Signed
  <1>6. Passed(x, b) <=> z < Half
    BY <1>4 DEF Passed
  <1> QED
    BY <1>1, <1>2, <1>3, <1>4, <1>5, <1>6

\* An instant is p ahead when it is b + p; an instant comes after that one iff it is
\* further ahead.
LEMMA SignedAfter ==
    ASSUME NEW b \in Ticks, NEW p \in Nat, p < Half, NEW c, c = (b + p) % Mod
    PROVE  /\ c \in Ticks /\ Signed(c, b) = p
           /\ \A x \in Ticks : p - Signed(x, b) <= Mod - Half =>
                                   (After(x, c) <=> p < Signed(x, b))
  <1>1. /\ b \in Int /\ 0 <= b /\ b < Mod
        /\ Mod \in Nat \ {0} /\ Half \in Nat /\ Half + Half < Mod /\ p \in 0 .. Mod - 1
    BY HalfTurn DEF Ticks
  <1>2. c \in Ticks /\ (c - b) % Mod = p
    BY <1>1, StartSetsTime
  <1>3. Signed(c, b) = p
    BY <1>1, <1>2 DEF Signed
  <1>4. ASSUME NEW x \in Ticks, p - Signed(x, b) <= Mod - Half
        PROVE  After(x, c) <=> p < Signed(x, b)
    <2>1. /\ x \in Int /\ 0 <= x /\ x < Mod /\ c \in Int /\ 0 <= c /\ c < Mod
      BY <1>1, <1>2, HalfTurn DEF Ticks
    <2>2. c = IF b + p < Mod THEN b + p ELSE b + p - Mod
      BY <1>1, Addition
    <2>3. /\ (x - b) % Mod = IF x >= b THEN x - b ELSE x - b + Mod
          /\ (x - c) % Mod = IF x >= c THEN x - c ELSE x - c + Mod
      BY <1>2, Difference
    <2>4. PICK y \in Int : y = (x - b) % Mod
      BY <1>1, <2>1, <2>3
    <2>5. PICK z \in Int : z = (x - c) % Mod
      BY <1>1, <2>1, <2>3
    <2>6. Signed(x, b) = IF y < Half THEN y ELSE y - Mod
      BY <2>4 DEF Signed
    <2>7. After(x, c) <=> 1 <= z /\ z <= Half - 1
      BY <1>1, <2>5 DEF After
    <2> QED
      BY <1>1, <1>4, <2>1, <2>2, <2>3, <2>4, <2>5, <2>6, <2>7
  <1> QED
    BY <1>2, <1>3, <1>4

\* The timers of the list s come in the order of the numbers k.
InOrder(s, k) == \A i, j \in 1 .. Len(s) : i < j => k[s[i]] <= k[s[j]]

\* Of the timers on the list, those further ahead than p come after d.
Splits(k, p, d) ==
    \A x \in Timers : In(list, x) => (After(due[x], d) <=> p < k[x])

SameOnList(m, k) == \A x \in Timers : In(list, x) => m[x] = k[x]

\* rt_timer_start keeps the order.
LEMMA InsertedInOrder ==
    ASSUME list \in Seq(Timers), NEW t \in Timers, NEW d, NEW p \in Int,
           NEW k \in [Timers -> Int], InOrder(list, k),
           Splits(k, p, d), NEW m, m[t] = p, SameOnList(m, k)
    PROVE  InOrder(Inserted(t, d), m)
  <1> DEFINE r == Inserted(t, d)
             n == Len(list)
  <1>1. n \in Nat /\ Len(r) = n + 1
    BY InsertedAt
  <1>2. n = Len(list)
    OBVIOUS
  <1>4. PICK q \in 1 .. n + 1 :
              /\ \A i \in 1 .. q - 1 : r[i] = list[i] /\ ~After(due[list[i]], d)
              /\ r[q] = t
              /\ \A i \in q + 1 .. n + 1 : r[i] = list[i - 1]
              /\ q <= n => After(due[list[q]], d)
    BY InsertedAt
  <1>3. InOrder(r, m) <=> \A i, j \in 1 .. n + 1 : i < j => m[r[i]] <= m[r[j]]
    BY <1>1 DEF InOrder
  <1> HIDE DEF r, n
  <1>5. ASSUME NEW i \in 1 .. n
        PROVE  /\ list[i] \in Timers /\ m[list[i]] = k[list[i]] /\ k[list[i]] \in Int
               /\ After(due[list[i]], d) <=> p < k[list[i]]
    <2>1. list[i] \in Timers /\ In(list, list[i])
      BY <1>2, ElementOfSeq DEF In
    <2> QED
      BY <2>1 DEF Splits, SameOnList
  <1>6. ASSUME NEW i \in 1 .. q - 1
        PROVE  m[r[i]] = k[list[i]] /\ k[list[i]] \in Int /\ k[list[i]] <= p
    <2>1. i \in 1 .. n
      BY <1>1
    <2> QED
      BY <1>4, <1>5, <2>1
  <1>7. ASSUME NEW i \in q + 1 .. n + 1
        PROVE  /\ m[r[i]] = k[list[i - 1]] /\ k[list[i - 1]] \in Int
               /\ p <= k[list[i - 1]]
    <2>1. q \in 1 .. n /\ i - 1 \in 1 .. n /\ q <= i - 1
      BY <1>1
    <2>2. p < k[list[q]] /\ k[list[q]] \in Int
      BY <1>4, <1>5, <2>1
    <2>3. k[list[q]] <= k[list[i - 1]]
      <3>1. CASE q = i - 1
        BY <2>2, <3>1
      <3>2. CASE q < i - 1
        BY <1>2, <2>1, <3>2 DEF InOrder
      <3> QED
        BY <2>1, <3>1, <3>2
    <2> QED
      BY <1>4, <1>5, <2>1, <2>2, <2>3
  <1>8. ASSUME NEW i \in 1 .. n + 1, NEW j \in 1 .. n + 1, i < j
        PROVE  m[r[i]] <= m[r[j]]
    <2>1. CASE j < q
      <3>1. i \in 1 .. q - 1 /\ j \in 1 .. q - 1 /\ i \in 1 .. n /\ j \in 1 .. n
        BY <1>1, <1>8, <2>1
      <3>2. k[list[i]] <= k[list[j]]
        BY <1>2, <1>8, <3>1 DEF InOrder
      <3> QED
        BY <1>6, <3>1, <3>2
    <2>2. CASE j = q
      BY <1>4, <1>6, <1>8, <2>2
    <2>3. CASE i < q /\ q < j
      <3>1. i \in 1 .. q - 1 /\ j \in q + 1 .. n + 1
        BY <1>1, <2>3
      <3>2. /\ m[r[i]] \in Int /\ m[r[i]] <= p
            /\ m[r[j]] \in Int /\ p <= m[r[j]]
        BY <1>6, <1>7, <3>1
      <3> QED
        BY <3>2
    <2>4. CASE i = q
      BY <1>4, <1>7, <1>8, <2>4
    <2>5. CASE q < i
      <3>1. /\ i \in q + 1 .. n + 1 /\ j \in q + 1 .. n + 1
            /\ i - 1 \in 1 .. n /\ j - 1 \in 1 .. n /\ i - 1 < j - 1
        BY <1>1, <1>8, <2>5
      <3>2. k[list[i - 1]] <= k[list[j - 1]]
        BY <1>2, <3>1 DEF InOrder
      <3> QED
        BY <1>7, <3>1, <3>2
    <2> QED
      BY <2>1, <2>2, <2>3, <2>4, <2>5
  <1>9. InOrder(r, m)
    BY <1>3, <1>8
  <1> QED
    BY <1>9 DEF r

\* Taking a timer off the list keeps the order.
LEMMA RemovalInOrder ==
    ASSUME list \in Seq(Timers), NEW k, InOrder(list, k)
    PROVE  /\ \A t : InOrder(Without(t), k)
           /\ list # <<>> => InOrder(Tail(list), k)
  <1>1. PICK n \in Nat : n = Len(list)
    BY LenProperties
  <1>2. ASSUME NEW t
        PROVE  InOrder(Without(t), k)
    <2>1. PICK r : r = Without(t)
      OBVIOUS
    <2>2. CASE r = list
      BY <2>1, <2>2
    <2>3. CASE /\ Len(r) = n - 1
               /\ \E p \in 1 .. n : /\ \A i \in 1 .. p - 1 : r[i] = list[i]
                                    /\ \A i \in p .. n - 1 : r[i] = list[i + 1]
      <3>1. PICK p \in 1 .. n : /\ \A i \in 1 .. p - 1 : r[i] = list[i]
                                /\ \A i \in p .. n - 1 : r[i] = list[i + 1]
        BY <2>3
      <3>2. ASSUME NEW i \in 1 .. n - 1
            PROVE  /\ i < p => r[i] = list[i]
                   /\ p <= i => r[i] = list[i + 1]
        BY <3>1
      <3>3. ASSUME NEW i \in 1 .. n - 1, NEW j \in 1 .. n - 1, i < j
            PROVE  k[r[i]] <= k[r[j]]
        <4>1. \A a, b \in 1 .. n : a < b => k[list[a]] <= k[list[b]]
          BY <1>1 DEF InOrder
        <4>2. /\ i \in 1 .. n /\ j \in 1 .. n /\ i + 1 \in 1 .. n /\ j + 1 \in 1 .. n
              /\ i < j + 1 /\ i + 1 < j + 1
          BY <3>3
        <4>3. CASE j < p
          BY <3>2, <3>3, <4>1, <4>2, <4>3
        <4>4. CASE i < p /\ p <= j
          BY <3>2, <3>3, <4>1, <4>2, <4>4
        <4>5. CASE p <= i
          <5>1. r[i] = list[i + 1] /\ r[j] = list[j + 1]
            BY <3>2, <3>3, <4>5
          <5> QED
            BY <4>1, <4>2, <5>1
        <4> QED
          BY <4>3, <4>4, <4>5
      <3> QED
        BY <2>1, <2>3, <3>3 DEF InOrder
    <2> QED
      BY <1>1, <2>1, <2>2, <2>3, WithoutAt
  <1>3. ASSUME list # <<>>
        PROVE  InOrder(Tail(list), k)
    <2>1. n >= 1 /\ Len(Tail(list)) = n - 1
          /\ \A i \in 1 .. n - 1 : Tail(list)[i] = list[i + 1]
      BY <1>1, <1>3, HeadTailProperties, EmptySeq
    <2>2. ASSUME NEW i \in 1 .. n - 1, NEW j \in 1 .. n - 1, i < j
          PROVE  k[list[i + 1]] <= k[list[j + 1]]
      BY <1>1, <2>2 DEF InOrder
    <2> QED
      BY <2>1, <2>2 DEF InOrder
  <1> QED
    BY <1>2, <1>3

\* The first timer of a list in order has the least number.
LEMMA HeadIsFirst ==
    ASSUME list \in Seq(Timers), list # <<>>, NEW k \in [Timers -> Int], InOrder(list, k)
    PROVE  /\ Head(list) \in Timers /\ In(list, Head(list))
           /\ \A t : In(list, t) => k[Head(list)] <= k[t]
  <1>1. PICK n \in Nat : n = Len(list) /\ 1 <= n
    BY LenProperties, EmptySeq
  <1>2. Head(list) = list[1]
    BY HeadTailProperties
  <1>3. ASSUME NEW i \in 1 .. n
        PROVE  k[list[1]] <= k[list[i]]
    <2>1. list[i] \in Timers
      BY <1>1, ElementOfSeq
    <2>2. CASE i = 1
      BY <2>1, <2>2
    <2>3. CASE 1 < i
      BY <1>1, <2>3 DEF InOrder
    <2> QED
      BY <2>2, <2>3
  <1>4. list[1] \in Timers
    BY <1>1, ElementOfSeq
  <1> QED
    BY <1>1, <1>2, <1>3, <1>4 DEF In

\* What the hypothesis on the bounds says: the longest period and two rounds of the
\* timer thread take less than half a turn of the tick.
RoundsAreShort == \A t \in Timers : Period[t] + 2 * MaxLag <= Half

\* The timer thread has not overslept a timer due at MaxTick, nor died.
Kept == ~atMax /\ pcT # "terminated"

\* How far ahead the timers are due.
Distance == [t \in Timers |-> Signed(due[t], tick)]

\* A round, or the tick that wakes the thread.
Slack == IF MaxLag = 0 THEN 1 ELSE MaxLag

\* How late a timer on the list may be: no more than the present round, unless the
\* timer thread goes through the list, or a user is about to resume it.
Behind ==
    IF pcT \in {"look", "delay"} \/ (Sleeping /\ pc # "resume") THEN lag ELSE Slack + lag

\* The thread timer is not late.
Alarm ==
    /\ pcT \in {"delay", "delayed"} => Timers # {}
    /\ pcT = "delay" => delta < Half
    /\ pcT = "delayed" => 0 <= Ahead(wake)

\* The list is in the order of the times, none of them long ago, and the thread timer
\* wakes the timer thread for each of them.
Timely ==
    Kept =>
        /\ InOrder(list, Distance)
        /\ \A t \in Timers : In(list, t) =>
              /\ 0 - Behind <= Distance[t] /\ Distance[t] <= Period[t]
              /\ pcT = "delay" => delta <= Distance[t] + lag
              /\ Sleeping /\ pc # "resume" =>
                     pcT = "delayed" /\ Ahead(wake) <= Distance[t] + lag

\* The bounds, in numbers.
LEMMA Numbers ==
    ASSUME TypeOK, RoundsAreShort
    PROVE  /\ lag \in Nat /\ MaxLag \in Nat /\ Slack \in Nat /\ Behind \in Nat
           /\ lag <= MaxLag /\ MaxLag <= Slack /\ 1 <= Slack
           /\ lag <= Behind /\ Behind <= Slack + lag
           /\ Half \in Nat /\ Mod \in Nat /\ Half + Half < Mod
           /\ \A t \in Timers :
                 /\ Period[t] \in Nat /\ Period[t] < Half /\ due[t] \in Ticks
                 /\ Period[t] + Slack + MaxLag <= Half + 1
                 /\ Slack + MaxLag < Half
           /\ Distance \in [Timers -> Int]
           /\ \A t \in Timers : Distance[t] = Ahead(due[t])
  <1>1. lag \in Nat /\ MaxLag \in Nat /\ lag <= MaxLag /\ tick \in Ticks
    BY SoftTimerAssumption DEF TypeOK
  <1>2. Slack \in Nat /\ MaxLag <= Slack /\ 1 <= Slack
    BY <1>1 DEF Slack
  <1>3. Half \in Nat /\ Mod \in Nat /\ Half + Half < Mod
    BY HalfTurn
  <1>4. ASSUME NEW t \in Timers
        PROVE  /\ Period[t] \in Nat /\ Period[t] < Half /\ due[t] \in Ticks
               /\ Period[t] + Slack + MaxLag <= Half + 1
               /\ Slack + MaxLag < Half
               /\ Distance[t] = Ahead(due[t]) /\ Distance[t] \in Int
    <2>1. /\ Period[t] \in Nat /\ 1 <= Period[t] /\ Period[t] <= Half - 1
          /\ Period[t] + 2 * MaxLag <= Half /\ due[t] \in Ticks
      BY HalfTurn DEF RoundsAreShort, TypeOK
    <2>2. CASE MaxLag = 0
      BY <1>1, <1>3, <2>1, <2>2, SignedRange DEF Slack, Distance, Ahead
    <2>3. CASE MaxLag # 0
      BY <1>1, <1>3, <2>1, <2>3, SignedRange DEF Slack, Distance, Ahead
    <2> QED
      BY <2>2, <2>3
  <1>5. Distance \in [Timers -> Int]
    BY <1>4 DEF Distance
  <1>6. Behind \in Nat /\ lag <= Behind /\ Behind <= Slack + lag
    BY <1>1, <1>2 DEF Behind
  <1> QED
    BY <1>1, <1>2, <1>3, <1>4, <1>5, <1>6

\* A timer that is not half a turn late is due iff its time has come.
LEMMA HeadDueNow ==
    ASSUME TInv, Timely, Kept, RoundsAreShort, list # <<>>
    PROVE  /\ Head(list) \in Timers /\ In(list, Head(list))
           /\ \A t \in Timers : In(list, t) => Distance[Head(list)] <= Distance[t]
           /\ HeadDue <=> Distance[Head(list)] <= 0
  <1>1. TypeOK /\ list \in Seq(Timers) /\ tick \in Ticks /\ InOrder(list, Distance)
    BY DEF TInv, TypeOK, Timely
  <1>2. PICK k \in [Timers -> Int] : k = Distance
    BY <1>1, Numbers
  <1>3. /\ Head(list) \in Timers /\ In(list, Head(list))
        /\ \A t : In(list, t) => k[Head(list)] <= k[t]
    BY <1>1, <1>2, HeadIsFirst
  <1>4. PICK h \in Timers : h = Head(list) /\ In(list, h)
    BY <1>3
  <1>5. 0 - Behind <= Distance[h] /\ due[h] \in Ticks /\ Distance[h] = Signed(due[h], tick)
    BY <1>1, <1>4, Numbers DEF Timely, Ahead
  <1>6. 0 - Half < Signed(due[h], tick)
    BY <1>1, <1>5, Numbers, SignedRange
  <1>7. HeadDue <=> Passed(due[h], tick)
    BY <1>4 DEF HeadDue
  <1>8. HeadDue <=> Distance[h] <= 0
    BY <1>1, <1>5, <1>6, <1>7, SignedPassed
  <1> QED
    BY <1>2, <1>3, <1>4, <1>8

\* Starting a timer that is not on the list leaves the others where they are.
LEMMA StartInOrder ==
    ASSUME TInv, Timely, Kept, RoundsAreShort, NEW t \in Timers, ~In(list, t),
           NEW d, d = (tick + Period[t]) % Mod, tick' = tick,
           due' = [due EXCEPT ![t] = d], list' = Inserted(t, d)
    PROVE  /\ InOrder(list', Distance')
           /\ Distance'[t] = Period[t]
           /\ \A x \in Timers : x # t => Distance'[x] = Distance[x]
           /\ \A x : In(list', x) <=> In(list, x) \/ x = t
  <1>1. TypeOK /\ list \in Seq(Timers) /\ tick \in Ticks /\ InOrder(list, Distance)
    BY DEF TInv, TypeOK, Timely
  <1>2. PICK k \in [Timers -> Int] : k = Distance
    BY <1>1, Numbers
  <1>3. PICK p \in Nat : p = Period[t] /\ p < Half
    BY <1>1, Numbers
  <1>4. d \in Ticks /\ Signed(d, tick) = p
    BY <1>1, <1>3, SignedAfter
  <1>5. /\ due' \in [Timers -> Ticks] /\ due'[t] = d
        /\ \A x \in Timers : x # t => due'[x] = due[x]
    BY <1>1, <1>4 DEF TypeOK
  <1>6. PICK m : m = Distance'
    OBVIOUS
  <1>7. m[t] = p /\ \A x \in Timers : x # t => m[x] = k[x]
    BY <1>2, <1>4, <1>5, <1>6 DEF Distance
  <1>8. ASSUME NEW x \in Timers, In(list, x)
        PROVE  (After(due[x], d) <=> p < k[x]) /\ m[x] = k[x]
    <2>1. /\ 0 - Behind <= k[x] /\ k[x] \in Int /\ k[x] = Signed(due[x], tick)
          /\ due[x] \in Ticks
      BY <1>1, <1>2, <1>8, Numbers DEF Timely, Ahead
    <2>4. /\ p + Slack + MaxLag <= Half + 1 /\ Slack \in Nat /\ MaxLag \in Nat
          /\ Behind \in Nat /\ Behind <= Slack + lag /\ lag \in Nat /\ lag <= MaxLag
          /\ Half \in Nat /\ Mod \in Nat /\ Half + Half < Mod
      BY <1>1, <1>3, Numbers
    <2>2. p - k[x] <= Mod - Half
      BY <2>1, <2>4
    <2>3. x # t
      BY <1>8
    <2> QED
      BY <1>1, <1>3, <1>7, <2>1, <2>2, <2>3, SignedAfter
  <1>9. InOrder(Inserted(t, d), m)
    <2>1. p \in Int /\ InOrder(list, k) /\ m[t] = p
      BY <1>1, <1>2, <1>3, <1>7
    <2>2. Splits(k, p, d) /\ SameOnList(m, k)
      BY <1>8 DEF Splits, SameOnList
    <2> QED
      BY <1>1, <2>1, <2>2, InsertedInOrder
  <1>10. \A x : In(Inserted(t, d), x) <=> In(list, x) \/ x = t
    BY <1>1, InsertedIn
  <1> QED
    BY <1>2, <1>3, <1>6, <1>7, <1>9, <1>10

\* The thread timer is set for less than half a turn, and wakes the thread in time.
LEMMA AlarmNext == TInv /\ Alarm /\ [Next]_vars => Alarm'
  <1> SUFFICES ASSUME TInv, Alarm, [Next]_vars PROVE Alarm'
    OBVIOUS
  <1> USE DEF kernel, thread, user, history
  <1>1. TypeOK /\ Places /\ tick \in Ticks /\ wake \in Ticks /\ delta \in Ticks
    BY DEF TInv, TypeOK
  <1>2. Half \in Nat /\ Mod \in Nat /\ Half + Half < Mod /\ (Timers # {} => 2 <= Half)
    BY HalfTurn
  <1>3. ASSUME UNCHANGED <<tick, wake, delta>>, pcT' = pcT \/ pcT' \notin {"delay", "delayed"}
        PROVE  Alarm'
    BY <1>3 DEF Alarm, Ahead
  <1>4. CASE Tick
    <2>1. CASE pcT # "delayed"
      BY <1>4, <2>1 DEF Tick, Alarm
    <2>2. CASE pcT = "delayed" /\ ~Passed(wake, tick')
      <3>1. /\ tick' = (tick + 1) % Mod /\ wake' = wake /\ pcT' = pcT
            /\ 0 <= Signed(wake, tick) /\ Timers # {}
        BY <1>4, <2>2 DEF Tick, Alarm, Ahead
      <3>2. Signed(wake, tick) \in Int /\ Half - Mod < Signed(wake, tick) /\ 0 < Half
        BY <1>1, <1>2, <3>1, SignedRange
      <3>3. tick' \in Ticks /\ Signed(wake, tick') = Signed(wake, tick) - 1
        BY <1>1, <3>1, <3>2, SignedTick
      <3>4. 0 - Half < Signed(wake, tick')
        BY <1>2, <3>1, <3>2, <3>3
      <3>5. ~(Signed(wake, tick') <= 0)
        BY <1>1, <2>2, <3>3, <3>4, SignedPassed
      <3>6. 0 <= Signed(wake, tick')
        BY <3>2, <3>3, <3>5
      <3> QED
        BY <2>2, <3>1, <3>6 DEF Alarm, Ahead
    <2>3. CASE pcT = "delayed" /\ Passed(wake, tick')
      BY <1>4, <2>3 DEF Tick, Alarm
    <2> QED
      BY <2>1, <2>2, <2>3
  <1>5. CASE Look
    <2>1. CASE pcT' = "delay"
      <3>1. /\ list # <<>> /\ delta' = (due[Head(list)] - tick) % Mod
            /\ (due[Head(list)] - tick) % Mod < Half
        BY <1>5, <2>1 DEF Look
      <3>2. Head(list) \in Timers
        BY <1>1, <3>1, TailIn DEF TypeOK
      <3> QED
        BY <2>1, <3>1, <3>2 DEF Alarm
    <2>2. CASE pcT' # "delay"
      BY <1>5, <2>2 DEF Look, Alarm
    <2> QED
      BY <2>1, <2>2
  <1>6. CASE Delay
    <2>1. /\ wake' = (tick + delta) % Mod /\ tick' = tick /\ pcT' = "delayed"
          /\ delta < Half /\ Timers # {}
      BY <1>6 DEF Delay, Alarm
    <2>2. delta \in Nat
      BY <1>1, <1>2, HalfTurn DEF Ticks
    <2>3. Signed(wake', tick') = delta
      BY <1>1, <2>1, <2>2, SignedAfter
    <2> QED
      BY <2>1, <2>2, <2>3 DEF Alarm, Ahead
  <1>7. CASE Suspend \/ Take \/ NothingDue \/ Call \/ Again
    BY <1>3, <1>7 DEF Suspend, Take, NothingDue, Call, Again
  <1>8. CASE Resume
    BY <1>8 DEF Resume, Alarm
  <1>9. CASE Grow \/ Grown \/ Return \/ Start \/ Mark \/ Stop \/ UNCHANGED vars
    BY <1>3, <1>9 DEF Grow, Grown, Return, Start, Mark, Stop, vars
  <1>10. ASSUME NEW t \in Timers, Operate(t)
         PROVE  Alarm'
    BY <1>3, <1>10 DEF Operate
  <1> QED
    BY <1>4, <1>5, <1>6, <1>7, <1>8, <1>9, <1>10 DEF Next, TimerThread, User

\* A tick brings the timers nearer, and wakes the thread or not.
LEMMA TimelyTick ==
    ASSUME TInv, Alarm, Timely, RoundsAreShort, Tick
    PROVE  Timely'
  <1> USE DEF kernel, thread, user, history
  <1>1. TypeOK /\ Places /\ tick \in Ticks /\ wake \in Ticks /\ list' = list
    BY DEF TInv, TypeOK, Tick
  <1>2. /\ lag \in Nat /\ MaxLag \in Nat /\ Slack \in Nat /\ Behind \in Nat
        /\ lag <= MaxLag /\ MaxLag <= Slack /\ 1 <= Slack
        /\ lag <= Behind /\ Behind <= Slack + lag
        /\ Half \in Nat /\ Mod \in Nat /\ Half + Half < Mod
    BY <1>1, Numbers
  <1>3. SUFFICES ASSUME Kept'
                 PROVE  /\ InOrder(list, Distance')
                        /\ \A t \in Timers : In(list, t) =>
                              /\ 0 - Behind' <= Distance'[t] /\ Distance'[t] <= Period[t]
                              /\ pcT' = "delay" => delta' <= Distance'[t] + lag'
                              /\ Sleeping' /\ pc' # "resume" =>
                                    /\ pcT' = "delayed"
                                    /\ Ahead(wake)' <= Distance'[t] + lag'
    BY <1>1 DEF Timely, In
  <1>4. Kept
    BY <1>3 DEF Kept, Tick
  <1>5. PICK k \in [Timers -> Int] : k = Distance
    BY <1>1, Numbers
  <1>6. ASSUME NEW t \in Timers, In(list, t)
        PROVE  /\ Distance'[t] = k[t] - 1 /\ k[t] \in Int
               /\ 0 - Behind <= k[t] /\ k[t] <= Period[t]
               /\ pcT = "delay" => delta <= k[t] + lag
               /\ Sleeping /\ pc # "resume" => pcT = "delayed" /\ Ahead(wake) <= k[t] + lag
    <2>1. /\ due[t] \in Ticks /\ Slack + MaxLag < Half /\ k[t] = Signed(due[t], tick)
          /\ k[t] \in Int
      BY <1>1, <1>5, Numbers DEF Ahead
    <2>2. /\ 0 - Behind <= k[t] /\ k[t] <= Period[t]
          /\ pcT = "delay" => delta <= k[t] + lag
          /\ Sleeping /\ pc # "resume" => pcT = "delayed" /\ Ahead(wake) <= k[t] + lag
      BY <1>4, <1>5, <1>6 DEF Timely
    <2>3. Half - Mod < Signed(due[t], tick) /\ 0 < Half
      BY <1>2, <2>1, <2>2
    <2>4. tick' = (tick + 1) % Mod /\ due' = due
      BY DEF Tick
    <2>5. Signed(due[t], tick') = Signed(due[t], tick) - 1
      BY <1>1, <2>1, <2>3, <2>4, SignedTick
    <2>6. Distance'[t] = Signed(due[t], tick')
      BY <2>4 DEF Distance
    <2> QED
      BY <2>1, <2>2, <2>5, <2>6
  <1>7. InOrder(list, Distance')
    <2>1. PICK m : m = Distance'
      OBVIOUS
    <2>2. \A i \in 1 .. Len(list) :
             list[i] \in Timers /\ m[list[i]] = k[list[i]] - 1 /\ k[list[i]] \in Int
      BY <1>1, <1>6, <2>1, ElementOfSeq DEF In, TypeOK
    <2>3. InOrder(list, k)
      BY <1>4, <1>5 DEF Timely
    <2>4. InOrder(list, m)
      BY <2>2, <2>3 DEF InOrder
    <2> QED
      BY <2>1, <2>4
  <1>9. ASSUME NEW t \in Timers, In(list, t)
        PROVE  Distance'[t] <= Period[t]
    BY <1>1, <1>6, <1>9, Numbers
  <1>8. ASSUME NEW t \in Timers, In(list, t)
        PROVE  /\ 0 - Behind' <= Distance'[t]
               /\ pcT' = "delay" => delta' <= Distance'[t] + lag'
               /\ Sleeping' /\ pc' # "resume" =>
                     pcT' = "delayed" /\ Ahead(wake)' <= Distance'[t] + lag'
    <2>1. PICK q \in Int : q = Distance'[t] /\ q = k[t] - 1
      BY <1>6, <1>8
    <2>2. CASE ~Idle
      <3>1. /\ lag' = lag + 1 /\ pc' = pc /\ delta' = delta
            /\ \/ pcT' = pcT
               \/ pcT = "delayed" /\ pcT' = "check"
        BY <2>2 DEF Tick
      <3>2. Behind' >= Behind + 1
        BY <1>2, <2>2, <3>1 DEF Behind, Idle, Sleeping, Slack
      <3>3. ~(Sleeping' /\ pc' # "resume")
        BY <2>2, <3>1 DEF Idle, Sleeping
      <3>4. Behind' \in Int
        BY <1>2, <3>1 DEF Behind, Slack
      <3>5. 0 - Behind' <= q
        BY <1>2, <1>6, <1>8, <2>1, <3>2, <3>4
      <3>6. pcT' = "delay" => delta' <= q + lag'
        <4>1. delta \in Int
          BY <1>1, HalfTurn DEF TypeOK, Ticks
        <4> QED
          BY <1>2, <1>6, <1>8, <2>1, <3>1, <4>1
      <3> QED
        BY <2>1, <3>3, <3>5, <3>6
    <2>3. CASE Idle
      <3>1. /\ Sleeping /\ pc # "resume" /\ pc' = pc /\ lag' = lag
            /\ pcT = "delayed" /\ Ahead(wake) <= k[t] + lag
        BY <1>4, <1>6, <1>8, <2>3 DEF Idle, Kept, Tick
      <3>2. /\ 0 <= Signed(wake, tick) /\ Signed(wake, tick) \in Int
            /\ Signed(wake, tick) <= k[t] + lag
        BY <1>1, <3>1, SignedRange DEF Alarm, Ahead
      <3>3. k[t] \in Int
        BY <1>6, <1>8
      <3>4. CASE pcT' = "check"
        <4>1. Behind' = Slack + lag /\ ~Sleeping'
          BY <3>1, <3>4 DEF Behind, Sleeping, Slack
        <4>2. 0 - (Slack + lag) <= q
          BY <1>2, <2>1, <3>2, <3>3
        <4> QED
          BY <2>1, <3>4, <4>1, <4>2
      <3>5. CASE pcT' # "check"
        <4>1. /\ pcT' = "delayed" /\ wake' = wake /\ tick' = (tick + 1) % Mod
          BY <3>1, <3>5 DEF Tick
        <4>2. 0 < Half /\ Half - Mod < Signed(wake, tick)
          BY <1>1, <1>2, <3>2, Numbers
        <4>3. Signed(wake, tick') = Signed(wake, tick) - 1
          BY <1>1, <4>1, <4>2, SignedTick
        <4>4. 0 <= Signed(wake, tick')
          BY <4>1, AlarmNext DEF Alarm, Ahead, Next
        <4>5. Behind' = lag
          BY <3>1, <4>1 DEF Behind, Sleeping
        <4>6. 0 - lag <= q /\ Signed(wake, tick') <= q + lag
          BY <1>2, <2>1, <3>2, <3>3, <4>3, <4>4
        <4> QED
          BY <2>1, <3>1, <4>1, <4>5, <4>6 DEF Ahead
      <3> QED
        BY <3>4, <3>5
    <2> QED
      BY <2>2, <2>3
  <1> QED
    BY <1>7, <1>8, <1>9

\* A step that starts no timer, and leaves those that stay on the list as they are.
LEMMA TimelyKept ==
    ASSUME Timely, Kept' => Kept /\ InOrder(list', Distance), UNCHANGED <<tick, due>>,
           \A x : In(list', x) => In(list, x),
           \A t \in Timers : Kept /\ In(list', t) => 0 - Behind' <= Distance[t],
           \/ pcT' # "delay" /\ ~(Sleeping' /\ pc' # "resume")
           \/ /\ UNCHANGED <<pcT, delta, wake, lag>>
              /\ pc' # "resume" => pc # "resume"
    PROVE  Timely'
  <1>1. Distance' = Distance /\ (wake' = wake => Ahead(wake)' = Ahead(wake))
    BY DEF Distance, Ahead
  <1>2. SUFFICES ASSUME Kept', NEW t \in Timers, In(list', t)
                 PROVE  /\ 0 - Behind' <= Distance[t] /\ Distance[t] <= Period[t]
                        /\ pcT' = "delay" => delta' <= Distance[t] + lag'
                        /\ Sleeping' /\ pc' # "resume" =>
                              pcT' = "delayed" /\ Ahead(wake)' <= Distance[t] + lag'
    BY <1>1 DEF Timely, In
  <1>3. In(list, t) /\ Kept
    BY <1>2
  <1>4. 0 - Behind' <= Distance[t] /\ Distance[t] <= Period[t]
    BY <1>2, <1>3 DEF Timely
  <1>5. CASE pcT' # "delay" /\ ~(Sleeping' /\ pc' # "resume")
    BY <1>4, <1>5
  <1>6. CASE UNCHANGED <<pcT, delta, wake, lag>> /\ (pc' # "resume" => pc # "resume")
    BY <1>1, <1>3, <1>4, <1>6 DEF Timely, Sleeping
  <1> QED
    BY <1>5, <1>6

\* The timer thread looks at the list, sets its thread timer and goes to sleep.
LEMMA TimelyLook ==
    ASSUME TInv, Alarm, Timely, RoundsAreShort, Look \/ Suspend \/ Delay
    PROVE  Timely'
  <1> USE DEF kernel, thread, user, history
  <1>1. TypeOK /\ tick \in Ticks /\ wake \in Ticks /\ delta \in Ticks
    BY DEF TInv, TypeOK
  <1>2. /\ lag \in Nat /\ MaxLag \in Nat /\ Slack \in Nat /\ Behind \in Nat
        /\ lag <= MaxLag /\ MaxLag <= Slack /\ 1 <= Slack
        /\ Half \in Nat /\ Mod \in Nat /\ Half + Half < Mod
        /\ Distance \in [Timers -> Int]
        /\ \A t \in Timers : Distance[t] = Ahead(due[t]) /\ due[t] \in Ticks
    BY <1>1, Numbers
  <1>3. UNCHANGED <<tick, due, list, pc>> /\ \A x : In(list', x) <=> In(list, x)
    BY DEF Look, Suspend, Delay
  <1>4. CASE Look /\ pcT' # "delay"
    <2>1. pcT = "look" /\ pcT' \in {"suspend", "check"} /\ lag' = 0 /\ atMax' = atMax
      BY <1>4 DEF Look
    <2>2. Kept' = Kept
      BY <2>1 DEF Kept
    <2>3. Behind = lag /\ Behind' = Slack
      BY <1>2, <2>1 DEF Behind, Sleeping, Slack
    <2>4. \A t \in Timers : Kept /\ In(list, t) => 0 - Behind <= Distance[t]
      BY DEF Timely
    <2>5. \A t \in Timers : Kept /\ In(list', t) => 0 - Behind' <= Distance[t]
      BY <1>2, <1>3, <2>3, <2>4
    <2>6. Kept => InOrder(list', Distance)
      BY <1>3 DEF Timely
    <2>7. pcT' # "delay" /\ ~(Sleeping' /\ pc' # "resume")
      BY <2>1 DEF Sleeping
    <2> QED
      BY <1>3, <2>2, <2>5, <2>6, <2>7, TimelyKept
  <1>5. CASE Look /\ pcT' = "delay"
    <2>1. /\ list # <<>> /\ delta' = (due[Head(list)] - tick) % Mod /\ lag' = 0
          /\ (due[Head(list)] - tick) % Mod < Half /\ atMax' = atMax /\ pcT = "look"
      BY <1>5 DEF Look
    <2>2. SUFFICES ASSUME Kept
                   PROVE  /\ InOrder(list, Distance)
                          /\ \A t \in Timers : In(list, t) =>
                                /\ 0 - Behind' <= Distance[t]
                                /\ Distance[t] <= Period[t]
                                /\ delta' <= Distance[t] + lag'
      BY <1>3, <1>5, <2>1 DEF Timely, Kept, Distance, Sleeping
    <2>3. PICK h \in Timers :
             /\ h = Head(list)
             /\ \A t \in Timers : In(list, t) => Distance[h] <= Distance[t]
      BY <2>1, <2>2, HeadDueNow
    <2>4. Distance[h] = Signed(due[h], tick) /\ due[h] \in Ticks
      BY <1>2 DEF Ahead
    <2>5. delta' = Distance[h] /\ 0 <= Distance[h] /\ Distance[h] \in Int
      <3>1. (due[h] - tick) % Mod \in Nat
        BY <1>1, <2>4, Difference, HalfTurn DEF Ticks
      <3> QED
        BY <2>1, <2>3, <2>4, <3>1 DEF Signed
    <2>6. Behind' = 0
      BY <1>5, <2>1 DEF Behind
    <2>7. ASSUME NEW t \in Timers, In(list, t)
          PROVE  0 - Behind' <= Distance[t] /\ delta' <= Distance[t] + lag'
      BY <1>2, <2>1, <2>3, <2>5, <2>6, <2>7
    <2> QED
      BY <2>2, <2>7 DEF Timely
  <1>6. CASE Suspend
    <2>1. Kept' => list' = <<>>
      BY <1>6 DEF Suspend, Kept
    <2>2. list' = <<>> => InOrder(list', Distance') /\ \A t : ~In(list', t)
      BY EmptySeq DEF InOrder, In
    <2> QED
      BY <2>1, <2>2 DEF Timely
  <1>7. CASE Delay
    <2>1. /\ wake' = (tick + delta) % Mod /\ tick' = tick /\ pcT = "delay" /\ pcT' = "delayed"
          /\ delta < Half /\ lag' = lag /\ atMax' = atMax
      BY <1>7 DEF Delay, Alarm
    <2>2. delta \in Nat
      BY <1>1, HalfTurn DEF Ticks
    <2>3. Ahead(wake)' = delta
      BY <1>1, <2>1, <2>2, SignedAfter DEF Ahead
    <2>4. Behind = lag /\ (Behind' = lag \/ Behind' = Slack + lag)
      BY <2>1 DEF Behind, Slack
    <2>5. Distance' = Distance /\ Kept' = Kept
      BY <1>3, <2>1 DEF Distance, Kept
    <2>6. ASSUME Kept, NEW t \in Timers, In(list, t)
          PROVE  0 - Behind' <= Distance[t] /\ delta <= Distance[t] + lag'
      <3>1. 0 - Behind <= Distance[t] /\ delta <= Distance[t] + lag /\ Distance[t] \in Int
        BY <1>2, <2>1, <2>6 DEF Timely
      <3> QED
        BY <1>2, <2>1, <2>4, <3>1
    <2>7. Kept => InOrder(list', Distance')
      BY <1>3, <2>5 DEF Timely
    <2> QED
      BY <1>3, <2>1, <2>3, <2>5, <2>6, <2>7 DEF Timely
  <1> QED
    BY <1>4, <1>5, <1>6, <1>7

\* The timer thread goes through the list.
LEMMA TimelyRound ==
    ASSUME TInv, Timely, RoundsAreShort, Take \/ NothingDue \/ Call \/ Again
    PROVE  Timely'
  <1> USE DEF kernel, thread, user, history
  <1>1. TypeOK /\ Places /\ Apart /\ tick \in Ticks /\ list \in Seq(Timers)
    BY DEF TInv, TypeOK
  <1>2. /\ lag \in Nat /\ Slack \in Nat /\ Behind \in Nat /\ 1 <= Slack
        /\ Behind <= Slack + lag /\ Distance \in [Timers -> Int]
    BY <1>1, Numbers
  <1>3. \A t \in Timers : Kept /\ In(list, t) => 0 - Behind <= Distance[t]
    BY DEF Timely
  <1>4. CASE Take
    <2>1. /\ list # <<>> /\ list' = Tail(list) /\ UNCHANGED <<tick, due, lag, pc>>
          /\ pcT = "check" /\ pcT' = "call" /\ atMax' = (atMax /\ list' # <<>>)
      BY <1>4 DEF Take, HeadDue
    <2>2. \A x : In(list', x) => In(list, x)
      BY <1>1, <2>1, TailIn
    <2>3. Behind' = Behind /\ ~Sleeping'
      BY <2>1 DEF Behind, Sleeping, Slack
    <2>4. CASE list' = <<>>
      <3>1. InOrder(list', Distance') /\ \A t : ~In(list', t)
        BY <2>4, EmptySeq DEF InOrder, In
      <3> QED
        BY <3>1 DEF Timely
    <2>5. CASE list' # <<>>
      <3>1. Kept' = Kept
        BY <2>1, <2>5 DEF Kept
      <3>2. Kept => InOrder(list', Distance)
        BY <1>1, <2>1, RemovalInOrder DEF Timely
      <3>3. \A t \in Timers : Kept /\ In(list', t) => 0 - Behind' <= Distance[t]
        BY <1>3, <2>2, <2>3
      <3> QED
        BY <2>1, <2>2, <2>3, <3>1, <3>2, <3>3, TimelyKept
    <2> QED
      BY <2>4, <2>5
  <1>5. CASE NothingDue
    <2>1. /\ UNCHANGED <<tick, due, list, lag, pc, atMax>>
          /\ pcT = "check" /\ pcT' = "look" /\ ~HeadDue
      BY <1>5 DEF NothingDue
    <2>2. Kept' = Kept /\ Behind' = lag /\ ~Sleeping'
      BY <2>1 DEF Kept, Behind, Sleeping
    <2>3. ASSUME NEW t \in Timers, Kept, In(list, t)
          PROVE  0 - Behind' <= Distance[t]
      <3>1. list # <<>>
        BY <2>3, EmptySeq DEF In
      <3>2. PICK h \in Timers : Distance[h] <= Distance[t] /\ ~(Distance[h] <= 0)
        BY <2>1, <2>3, <3>1, HeadDueNow
      <3>3. Distance[h] \in Int /\ Distance[t] \in Int
        BY <1>2
      <3> QED
        BY <1>2, <2>2, <3>2, <3>3
    <2>4. (Kept => InOrder(list', Distance)) /\ \A x : In(list', x) <=> In(list, x)
      BY <2>1 DEF Timely
    <2>5. pcT' # "delay"
      BY <2>1
    <2> QED
      BY <2>1, <2>2, <2>3, <2>4, <2>5, TimelyKept
  <1>6. CASE Call
    <2>1. /\ UNCHANGED <<tick, due, list, lag, pc, atMax>>
          /\ pcT = "call" /\ pcT' \in {"called", "terminated"}
      BY <1>6 DEF Call
    <2>2. (Kept' => Kept) /\ Behind' = Behind /\ ~Sleeping'
      BY <2>1 DEF Kept, Behind, Sleeping, Slack
    <2>3. (Kept => InOrder(list', Distance)) /\ \A x : In(list', x) <=> In(list, x)
      BY <2>1 DEF Timely
    <2>4. \A t \in Timers : Kept /\ In(list', t) => 0 - Behind' <= Distance[t]
      BY <1>3, <2>2, <2>3
    <2>5. pcT' # "delay"
      BY <2>1
    <2> QED
      BY <2>1, <2>2, <2>3, <2>4, <2>5, TimelyKept
  <1>7. CASE Again
    <2>1. /\ UNCHANGED <<tick, lag, pc, atMax>>
          /\ pcT = "called" /\ pcT' = "check" /\ current \in Timers
      BY <1>1, <1>7 DEF Again, Places, TypeOK
    <2>2. Kept' = Kept /\ Behind' = Behind /\ ~Sleeping'
      BY <2>1 DEF Kept, Behind, Sleeping, Slack
    <2>3. CASE ~active[current]
      <3>1. UNCHANGED <<due, list>>
        BY <1>7, <2>3 DEF Again
      <3>2. (Kept => InOrder(list', Distance)) /\ \A x : In(list', x) <=> In(list, x)
        BY <3>1 DEF Timely
      <3>3. \A t \in Timers : Kept /\ In(list', t) => 0 - Behind' <= Distance[t]
        BY <1>3, <2>2, <3>2
      <3>4. pcT' # "delay"
        BY <2>1
      <3> QED
        BY <2>1, <2>2, <3>1, <3>2, <3>3, <3>4, TimelyKept
    <2>4. CASE active[current] /\ Kept
      <3>1. PICK c \in Timers : c = current /\ ~In(list, c)
        BY <1>1, <2>1 DEF Apart
      <3>2. PICK d : d = (tick + Period[c]) % Mod
        OBVIOUS
      <3>3. due' = [due EXCEPT ![c] = d] /\ list' = Inserted(c, d) /\ tick' = tick
        BY <1>7, <2>4, <3>1, <3>2 DEF Again
      <3>4. /\ InOrder(list', Distance')
            /\ Distance'[c] = Period[c]
            /\ \A x \in Timers : x # c => Distance'[x] = Distance[x]
            /\ \A x : In(list', x) <=> In(list, x) \/ x = c
        BY <2>4, <3>1, <3>2, <3>3, StartInOrder
      <3>5. \A t \in Timers : In(list', t) => 0 - Behind' <= Distance'[t]
        BY <1>1, <1>2, <1>3, <2>2, <2>4, <3>4, Numbers
      <3>7. ASSUME NEW t \in Timers, In(list', t)
            PROVE  Distance'[t] <= Period[t]
        <4>1. CASE t = c
          BY <1>1, <3>4, <4>1, Numbers
        <4>2. CASE t # c
          BY <2>4, <3>4, <3>7, <4>2 DEF Timely
        <4> QED
          BY <4>1, <4>2
      <3>6. pcT' # "delay"
        BY <2>1
      <3> QED
        BY <2>2, <3>4, <3>5, <3>6, <3>7 DEF Timely
    <2> QED
      BY <2>2, <2>3, <2>4 DEF Timely
  <1> QED
    BY <1>4, <1>5, <1>6, <1>7

\* The users start and stop timers while the timer thread sleeps.
LEMMA TimelyUser ==
    ASSUME TInv, Timely, RoundsAreShort, User \/ UNCHANGED vars
    PROVE  Timely'
  <1> USE DEF kernel, thread, user, history
  <1>1. /\ TypeOK /\ Places /\ Apart /\ Marks /\ tick \in Ticks /\ list \in Seq(Timers)
    BY DEF TInv, TypeOK
  <1>2. /\ lag \in Nat /\ MaxLag \in Nat /\ lag <= MaxLag /\ MaxLag <= Slack
        /\ Slack \in Nat /\ Behind \in Nat
        /\ Behind <= Slack + lag /\ Distance \in [Timers -> Int]
    BY <1>1, Numbers
  <1>3. \A t \in Timers : Kept /\ In(list, t) => 0 - Behind <= Distance[t]
    BY DEF Timely
  <1>4. ASSUME UNCHANGED <<tick, due, list, lag, atMax, pcT, delta, wake>>,
               pc' = "resume" <=> pc = "resume"
        PROVE  Timely'
    <2>1. Kept' = Kept /\ Behind' = Behind
      BY <1>4 DEF Kept, Behind, Sleeping, Slack
    <2>2. (Kept => InOrder(list', Distance)) /\ \A x : In(list', x) <=> In(list, x)
      BY <1>4 DEF Timely
    <2>3. \A t \in Timers : Kept /\ In(list', t) => 0 - Behind' <= Distance[t]
      BY <1>3, <2>1, <2>2
    <2> QED
      BY <1>4, <2>1, <2>2, <2>3, TimelyKept
  <1>5. CASE Grow \/ Grown \/ Return \/ Mark \/ UNCHANGED vars
    BY <1>4, <1>5 DEF Grow, Grown, Return, Mark, vars
  <1>6. ASSUME NEW t \in Timers, Operate(t)
        PROVE  Timely'
    BY <1>4, <1>6 DEF Operate
  <1>7. CASE Resume
    <2>1. /\ UNCHANGED <<tick, due, list, lag, atMax>> /\ pcT' = "check" /\ pc = "resume"
          /\ Sleeping
      BY <1>7 DEF Resume, Runs
    <2>2. Kept' => Kept /\ Behind' = Behind
      BY <2>1 DEF Kept, Behind, Sleeping, Slack
    <2>3. (Kept => InOrder(list', Distance)) /\ \A x : In(list', x) <=> In(list, x)
      BY <2>1 DEF Timely
    <2>4. Behind' = Behind /\ ~Sleeping' /\ pcT' # "delay"
      BY <2>1 DEF Behind, Sleeping, Slack
    <2>5. \A t \in Timers : Kept /\ In(list', t) => 0 - Behind' <= Distance[t]
      BY <1>3, <2>3, <2>4
    <2> QED
      BY <2>1, <2>2, <2>3, <2>4, <2>5, TimelyKept
  <1>8. CASE Start
    <2>1. /\ mine \in Timers /\ ~running[mine] /\ pc = "start" /\ pc' = "resume"
          /\ UNCHANGED <<tick, atMax, pcT>> /\ lag' = 0 /\ Sleeping
      BY <1>1, <1>8 DEF Start, TypeOK, Places, Runs
    <2>2. ~In(list, mine)
      BY <1>1, <2>1 DEF Marks, Starting, Stopping, On
    <2>3. Kept' = Kept /\ Behind = lag /\ Behind' = Slack /\ pcT' # "delay"
      BY <1>2, <2>1 DEF Kept, Behind, Sleeping, Slack
    <2>4. CASE Kept
      <3>1. PICK c \in Timers : c = mine /\ ~In(list, c)
        BY <2>1, <2>2
      <3>2. PICK d : d = (tick + Period[c]) % Mod
        OBVIOUS
      <3>3. due' = [due EXCEPT ![c] = d] /\ list' = Inserted(c, d) /\ tick' = tick
        BY <1>8, <3>1, <3>2 DEF Start
      <3>4. /\ InOrder(list', Distance')
            /\ Distance'[c] = Period[c]
            /\ \A x \in Timers : x # c => Distance'[x] = Distance[x]
            /\ \A x : In(list', x) <=> In(list, x) \/ x = c
        BY <2>4, <3>1, <3>2, <3>3, StartInOrder
      <3>5. \A t \in Timers : In(list', t) => 0 - Behind' <= Distance'[t]
        BY <1>1, <1>2, <1>3, <2>3, <2>4, <3>4, Numbers
      <3>6. ASSUME NEW t \in Timers, In(list', t)
            PROVE  Distance'[t] <= Period[t]
        <4>1. CASE t = c
          BY <1>1, <3>4, <4>1, Numbers
        <4>2. CASE t # c
          BY <2>4, <3>4, <3>6, <4>2 DEF Timely
        <4> QED
          BY <4>1, <4>2
      <3> QED
        BY <2>1, <2>3, <3>4, <3>5, <3>6 DEF Timely
    <2> QED
      BY <2>3, <2>4 DEF Timely
  <1>9. CASE Stop
    <2>1. /\ list' = Without(mine) /\ UNCHANGED <<tick, due, lag, pcT, delta, wake>>
          /\ pc = "stop" /\ pc' = "unmark" /\ atMax' = (atMax /\ list' # <<>>)
      BY <1>9 DEF Stop
    <2>2. \A x : In(list', x) => In(list, x)
      BY <1>1, <2>1, WithoutIn DEF Apart
    <2>3. Behind' = Behind
      BY <2>1 DEF Behind, Sleeping, Slack
    <2>4. CASE list' = <<>>
      <3>1. InOrder(list', Distance') /\ \A t : ~In(list', t)
        BY <2>4, EmptySeq DEF InOrder, In
      <3> QED
        BY <3>1 DEF Timely
    <2>5. CASE list' # <<>>
      <3>1. Kept' = Kept
        BY <2>1, <2>5 DEF Kept
      <3>2. Kept => InOrder(list', Distance)
        BY <1>1, <2>1, RemovalInOrder DEF Timely
      <3>3. \A t \in Timers : Kept /\ In(list', t) => 0 - Behind' <= Distance[t]
        BY <1>3, <2>2, <2>3
      <3> QED
        BY <2>1, <2>2, <2>3, <3>1, <3>2, <3>3, TimelyKept
    <2> QED
      BY <2>4, <2>5
  <1> QED
    BY <1>5, <1>6, <1>7, <1>8, <1>9 DEF User

\* Every step keeps the list in order and the thread timer in time.
LEMMA TimelyNext == TInv /\ Alarm /\ Timely /\ RoundsAreShort /\ [Next]_vars => Timely'
  BY TimelyTick, TimelyLook, TimelyRound, TimelyUser DEF Next, TimerThread

\* The first timer of the list is one of those that the thread timer wakes for.
LEMMA TimelySleeps ==
    ASSUME TInv, Alarm, Timely, RoundsAreShort
    PROVE  SleepsUntilDue
  <1>1. TypeOK /\ tick \in Ticks /\ wake \in Ticks /\ list \in Seq(Timers)
    BY DEF TInv, TypeOK
  <1>2. SUFFICES ASSUME Sleeping, pc # "resume", list # <<>>, ~atMax
                 PROVE  pcT = "delayed" /\ ~After(wake, (due[Head(list)] + MaxLag) % Mod)
    BY DEF SleepsUntilDue
  <1>3. Kept
    BY <1>2 DEF Kept, Sleeping
  <1>4. PICK h \in Timers : h = Head(list) /\ In(list, h)
    BY <1>1, <1>2, <1>3, HeadDueNow
  <1>5. /\ pcT = "delayed" /\ 0 <= Signed(wake, tick)
        /\ Signed(wake, tick) <= Signed(due[h], tick) + lag
        /\ 0 - Behind <= Signed(due[h], tick) /\ Behind = lag
        /\ Signed(due[h], tick) <= Period[h]
    BY <1>1, <1>2, <1>3, <1>4, Numbers DEF Timely, Alarm, Ahead, Behind
  <1>9. /\ MaxLag \in Nat /\ Slack \in Nat /\ Slack + MaxLag < Half /\ Half \in Nat
        /\ Period[h] \in Nat /\ Period[h] + 2 * MaxLag <= Half
    BY <1>1, Numbers DEF RoundsAreShort
  <1>6. /\ lag \in Nat /\ MaxLag \in Nat /\ lag <= MaxLag /\ due[h] \in Ticks
        /\ Half \in Nat /\ Mod \in Nat /\ Half + Half < Mod /\ MaxLag < Half
        /\ Period[h] \in Nat /\ Period[h] + MaxLag + MaxLag <= Half
    BY <1>1, <1>9, Numbers
  <1>7. PICK c : c = (due[h] + MaxLag) % Mod
    OBVIOUS
  <1>8. ~After(wake, c)
    <2>1. /\ wake \in Int /\ 0 <= wake /\ wake < Mod /\ tick \in Int /\ 0 <= tick /\ tick < Mod
          /\ due[h] \in Int /\ 0 <= due[h] /\ due[h] < Mod /\ MaxLag \in 0 .. Mod - 1
      BY <1>1, <1>6, HalfTurn DEF Ticks
    <2>2. c = IF due[h] + MaxLag < Mod THEN due[h] + MaxLag ELSE due[h] + MaxLag - Mod
      BY <1>6, <1>7, <2>1, Addition
    <2>3. c \in Ticks /\ c \in Int
      <3>1. c \in Ticks
        BY <1>6, <1>7, SignedAfter
      <3> QED
        BY <3>1, HalfTurn DEF Ticks
    <2>4. /\ (wake - c) % Mod = IF wake >= c THEN wake - c ELSE wake - c + Mod
          /\ (wake - tick) % Mod = IF wake >= tick THEN wake - tick ELSE wake - tick + Mod
          /\ (due[h] - tick) % Mod = IF due[h] >= tick THEN due[h] - tick
                                                       ELSE due[h] - tick + Mod
      BY <1>1, <1>6, <2>3, Difference
    <2>5. /\ Signed(wake, tick) \in Int /\ Signed(wake, tick) < Half
          /\ Signed(due[h], tick) \in Int
          /\ (wake - tick) % Mod = Signed(wake, tick)
          /\ (due[h] - tick) % Mod = IF 0 <= Signed(due[h], tick)
                                     THEN Signed(due[h], tick)
                                     ELSE Signed(due[h], tick) + Mod
          /\ 0 <= Signed(due[h], tick) => Signed(due[h], tick) < Half
      BY <1>1, <1>5, <1>6, SignedRange
    <2>6. PICK w \in Int : w = Signed(wake, tick)
      BY <2>5
    <2>7. PICK e \in Int : e = Signed(due[h], tick)
      BY <2>5
    <2>8. PICK z \in Int : z = (wake - c) % Mod
      BY <1>6, <2>1, <2>3, <2>4
    <2>11. /\ 0 <= w /\ w < Half /\ w <= e + MaxLag /\ e <= Period[h]
           /\ w = IF wake >= tick THEN wake - tick ELSE wake - tick + Mod
           /\ e = IF 0 <= e
                   THEN IF due[h] >= tick THEN due[h] - tick ELSE due[h] - tick + Mod
                   ELSE (IF due[h] >= tick THEN due[h] - tick ELSE due[h] - tick + Mod) - Mod
      <3>1. (due[h] - tick) % Mod = IF 0 <= e THEN e ELSE e + Mod
        BY <2>5, <2>7
      <3>2. (due[h] - tick) % Mod \in Int
        BY <1>6, <2>7, <3>1
      <3> QED
        BY <1>5, <1>6, <2>1, <2>4, <2>5, <2>6, <2>7, <3>1, <3>2
    <2>12. z = IF wake >= c THEN wake - c ELSE wake - c + Mod
      BY <2>4, <2>8
    <2>10. z = IF w - e - MaxLag = 0 THEN 0 ELSE w - e - MaxLag + Mod
      BY <1>6, <2>1, <2>2, <2>3, <2>11, <2>12
    <2>9. ~(1 <= z /\ z <= Half - 1)
      BY <1>6, <2>10, <2>11
    <2> QED
      BY <2>8, <2>9, <1>6 DEF After
  <1> QED
    BY <1>4, <1>5, <1>7, <1>8

\* At first the list is empty.
LEMMA TimelyInit == Init => Alarm /\ Timely
  <1> SUFFICES ASSUME Init PROVE Alarm /\ Timely
    OBVIOUS
  <1>1. list = <<>> /\ pcT = "look"
    BY DEF Init
  <1>2. InOrder(list, Distance) /\ \A t : ~In(list, t)
    BY <1>1, EmptySeq DEF InOrder, In
  <1> QED
    BY <1>1, <1>2 DEF Alarm, Timely

\* The timer thread sleeps no longer than the first timer of the list allows, give
\* or take a round, wherever the tick wraps, if the longest period and two rounds
\* take less than half a turn (rt-thread/src/timer.c:412-422, 692).
THEOREM SoftTimerSleepsUntilDue ==
    ASSUME RoundsAreShort
    PROVE  Spec => []SleepsUntilDue
  <1>1. TInv /\ Alarm /\ Timely => SleepsUntilDue
    BY TimelySleeps
  <1>2. Init => Alarm /\ Timely
    BY TimelyInit
  <1>3. TInv /\ Alarm /\ Timely /\ [Next]_vars => Alarm' /\ Timely'
    BY AlarmNext, TimelyNext
  <1>4. Spec => []TInv
    BY TimersInvariant, PTL
  <1> QED
    BY <1>1, <1>2, <1>3, <1>4, PTL DEF Spec
=============================================================================
