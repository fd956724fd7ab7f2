--------------------------- MODULE CplxAt_proofs ---------------------------
(***************************************************************************)
(* Proofs about CplxAt, for any threads and types and without a bound on   *)
(* what they make: what it takes for the walk of make to go wrong; and as  *)
(* long as threads make their components one after another, that there is  *)
(* one component of a type at most, that the URC handler finds it, and     *)
(* that the URCs of a type are added once.                                 *)
(***************************************************************************)
EXTENDS CplxAt, SequenceTheorems, TLAPS

Places == {"idle", "scan", "erase", "lock", "compare", "release",
           "init", "set", "urc", "push", "holding"}

\* The component is constructed and not yet listed.
Making(t) == pc[t] \in {"init", "set", "urc", "push"}

Types0 ==
    /\ typ \in Seq(Types)
    /\ comps \in Seq(1 .. Len(typ))
    /\ inited \subseteq Types
    /\ table \in Seq(Types)
    /\ pc \in [Makers -> Places]
    /\ want \in [Makers -> Types \cup {Nobody}]
    /\ it \in [Makers -> 0 .. Len(typ)]
    /\ mine \in [Makers -> 0 .. Len(typ)]
    /\ curr \in [Makers -> 0 .. Len(typ)]
    /\ overlap \in BOOLEAN /\ died \in BOOLEAN /\ wild \in BOOLEAN /\ null \in BOOLEAN

\* What a thread has made is its own and of the type it wanted, and it keeps alive
\* what it walks over at two places only.
Ids ==
    /\ \A t \in Makers : mine[t] # 0 <=> Making(t) \/ pc[t] = "holding"
    /\ \A t \in Makers : pc[t] # "idle" => want[t] \in Types
    /\ \A t \in Makers : mine[t] # 0 => typ[mine[t]] = want[t]
    /\ \A t, u \in Makers : mine[t] # 0 /\ mine[t] = mine[u] => t = u
    /\ \A t \in Makers : curr[t] # 0 => pc[t] \in {"compare", "release"}

\* A component that was found alive and is locked as null has died meanwhile.
Told ==
    /\ \A t \in Makers : pc[t] = "lock" => it[t] \in Live \/ died
    /\ \A t \in Makers : pc[t] = "compare" => curr[t] # 0 \/ died
    /\ null => died

Alone == \A t, u \in Makers : InMake(t) /\ InMake(u) => t = u

\* The list names each living component once, but for one that is being made.
Listing ==
    /\ \A i, k \in 1 .. Len(comps) : comps[i] = comps[k] => i = k
    /\ \A c \in Live : InList(c) \/ \E t \in Makers : Making(t) /\ mine[t] = c
    /\ \A t \in Makers : Making(t) => ~InList(mine[t])

\* No living component of the wanted type lies behind the iterator, an entry about
\* to be erased is of a dead one, and what was locked is the one at the iterator.
Scanning ==
    \A t \in Makers : Walks(t) =>
        /\ it[t] # 0 => InList(it[t])
        /\ \A k \in 1 .. Len(comps) :
              comps[k] \in Live /\ typ[comps[k]] = want[t] =>
                  \E m \in 1 .. k : comps[m] = it[t]
        /\ pc[t] \in {"erase", "lock", "compare"} => it[t] # 0
        /\ pc[t] = "erase" => it[t] \notin Live
        /\ pc[t] = "compare" /\ it[t] \in Live => curr[t] = it[t]

\* The flags, the table of URCs and the thread that is between the two.
Added ==
    /\ \A T \in inited \ Silent :
          \/ \E k \in 1 .. Len(table) : table[k] = T
          \/ \E t \in Makers : pc[t] = "urc" /\ want[t] = T
    /\ \A k \in 1 .. Len(table) : table[k] \in inited
    /\ \A h, k \in 1 .. Len(table) : table[h] = table[k] => h = k
    /\ \A t \in Makers :
          /\ pc[t] = "set" => want[t] \notin inited
          /\ pc[t] = "urc" => \A k \in 1 .. Len(table) : table[k] # want[t]
          /\ pc[t] \in {"urc", "push", "holding"} => want[t] \in inited

\* What holds while threads are in make one after another.
Clean == ~wild /\ Alone /\ OneInstance /\ Listing /\ Scanning /\ Added

IInv == Types0 /\ Ids /\ Told /\ (~overlap => Clean)

-----------------------------------------------------------------------------
(* Lists *)

LEMMA Removed ==
    ASSUME NEW S, NEW s \in Seq(S), NEW k \in 1 .. Len(s)
    PROVE  /\ RemoveAt(s, k) \in Seq(S)
           /\ Len(RemoveAt(s, k)) = Len(s) - 1
           /\ \A i \in 1 .. Len(s) - 1 : RemoveAt(s, k)[i] = IF i < k THEN s[i] ELSE s[i + 1]
  <1> DEFINE a == SubSeq(s, 1, k - 1)
             b == SubSeq(s, k + 1, Len(s))
  <1>1. Len(s) \in Nat /\ \A i \in 1 .. Len(s) : s[i] \in S
    BY LenProperties, ElementOfSeq
  <1>2. /\ a \in Seq(S) /\ Len(a) = k - 1
        /\ \A i \in 1 .. k - 1 : a[i] = s[i]
    <2>1. \A i \in 1 .. k - 1 : s[i] \in S
      BY <1>1
    <2>2. /\ a \in Seq(S)
          /\ Len(a) = IF 1 <= k - 1 THEN (k - 1) - 1 + 1 ELSE 0
          /\ \A i \in 1 .. (k - 1) - 1 + 1 : a[i] = s[1 + i - 1]
      BY <1>1, <2>1, SubSeqProperties
    <2> QED
      BY <1>1, <2>2
  <1>3. /\ b \in Seq(S) /\ Len(b) = Len(s) - k
        /\ \A i \in 1 .. Len(s) - k : b[i] = s[k + i]
    <2>1. \A i \in k + 1 .. Len(s) : s[i] \in S
      BY <1>1
    <2>2. /\ b \in Seq(S)
          /\ Len(b) = IF k + 1 <= Len(s) THEN Len(s) - (k + 1) + 1 ELSE 0
          /\ \A i \in 1 .. Len(s) - (k + 1) + 1 : b[i] = s[(k + 1) + i - 1]
      BY <1>1, <2>1, SubSeqProperties
    <2> QED
      BY <1>1, <2>2
  <1>4. RemoveAt(s, k) = a \o b
    BY DEF RemoveAt
  <1> HIDE DEF a, b
  <1>5. /\ a \o b \in Seq(S) /\ Len(a \o b) = Len(a) + Len(b)
        /\ \A i \in 1 .. Len(a) + Len(b) : (a \o b)[i] = IF i <= Len(a) THEN a[i]
                                                         ELSE b[i - Len(a)]
    BY <1>2, <1>3, ConcatProperties
  <1>6. ASSUME NEW i \in 1 .. Len(s) - 1
        PROVE  (a \o b)[i] = IF i < k THEN s[i] ELSE s[i + 1]
    <2>1. CASE i < k
      BY <1>1, <1>2, <1>3, <1>5, <1>6, <2>1
    <2>2. CASE ~(i < k)
      <3>1. i - Len(a) \in 1 .. Len(s) - k /\ k + (i - Len(a)) = i + 1
        BY <1>1, <1>2, <2>2
      <3>2. (a \o b)[i] = b[i - Len(a)]
        BY <1>1, <1>2, <1>3, <1>5, <1>6, <2>2
      <3> QED
        BY <1>3, <2>2, <3>1, <3>2
    <2> QED
      BY <2>1, <2>2
  <1> QED
    BY <1>1, <1>2, <1>3, <1>4, <1>5, <1>6

\* What stands behind the k-th component of the list.
LEMMA AfterIs ==
    ASSUME Types0, Listing, NEW k \in 1 .. Len(comps)
    PROVE  After(comps[k]) = IF k = Len(comps) THEN 0 ELSE comps[k + 1]
  <1> DEFINE later == {i \in 2 .. Len(comps) : comps[i - 1] = comps[k]}
  <1>1. Len(comps) \in Nat
    BY LenProperties DEF Types0
  <1>2. \A i \in 2 .. Len(comps) : comps[i - 1] = comps[k] <=> i = k + 1
    BY <1>1 DEF Listing
  <1>3. CASE k = Len(comps)
    <2>1. later = {}
      BY <1>1, <1>2, <1>3
    <2> QED
      BY <1>3, <2>1 DEF After
  <1>4. CASE k # Len(comps)
    <2>1. later = {k + 1}
      BY <1>1, <1>2, <1>4
    <2> QED
      BY <1>4, <2>1 DEF After
  <1> QED
    BY <1>3, <1>4

LEMMA MoreIsMore ==
    ASSUME NEW m \in Nat, NEW n \in Nat, m <= n, NEW s \in Seq(1 .. m)
    PROVE  s \in Seq(1 .. n)
  <1>1. \A i \in 1 .. Len(s) : s[i] \in 1 .. n
    BY ElementOfSeq
  <1> QED
    BY <1>1, SeqDef, LenProperties

-----------------------------------------------------------------------------
(* What lives *)

LEMMA LiveIsMade == Types0 => Live \subseteq 1 .. Len(typ)
  <1> SUFFICES ASSUME Types0, NEW c \in Live PROVE c \in 1 .. Len(typ)
    OBVIOUS
  <1>1. c \in 0 .. Len(typ) /\ c # 0 /\ Len(typ) \in Nat
    BY LenProperties DEF Types0, Live
  <1> QED
    BY <1>1

LEMMA LiveKept ==
    ASSUME mine' = mine, curr' = curr
    PROVE  Live' = Live
  BY DEF Live

\* lock keeps alive what lives, and brings nothing back.
LEMMA LockKeepsLive ==
    ASSUME Types0, Ids, NEW t \in Makers, ScanLock(t)
    PROVE  Live' = Live /\ (it[t] \in Live => curr'[t] = it[t] /\ it[t] # 0)
  <1>1. /\ curr[t] = 0 /\ mine' = mine
        /\ curr' = [curr EXCEPT ![t] = IF it[t] \in Live THEN it[t] ELSE 0]
    BY DEF ScanLock, made, Ids
  <1>2. /\ \A u \in Makers : u # t => curr'[u] = curr[u]
        /\ curr'[t] = IF it[t] \in Live THEN it[t] ELSE 0
    BY <1>1 DEF Types0
  <1>3. ASSUME NEW c \in Live PROVE c \in Live'
    BY <1>1, <1>2, <1>3 DEF Live
  <1>4. ASSUME NEW c \in Live' PROVE c \in Live
    <2>1. c # 0 /\ (\E u \in Makers : c = mine[u] \/ c = curr'[u])
      BY <1>1, <1>4 DEF Live
    <2>2. PICK u \in Makers : c = mine[u] \/ c = curr'[u]
      BY <2>1
    <2>3. CASE c = mine[u] \/ u # t
      BY <1>2, <2>1, <2>2, <2>3 DEF Live
    <2>4. CASE c = curr'[t]
      BY <1>2, <2>1, <2>4
    <2> QED
      BY <2>2, <2>3, <2>4
  <1>5. 0 \notin Live
    BY DEF Live
  <1> QED
    BY <1>2, <1>3, <1>4, <1>5

\* Who lets go of a component brings nothing to life.
LEMMA LessLives ==
    ASSUME Types0, NEW t \in Makers,
           \/ mine' = mine /\ curr' = [curr EXCEPT ![t] = 0]
           \/ curr' = curr /\ mine' = [mine EXCEPT ![t] = 0]
    PROVE  Live' \subseteq Live
  <1>1. \A u \in Makers : curr'[u] \in {curr[u], 0} /\ mine'[u] \in {mine[u], 0}
    BY DEF Types0
  <1>2. ASSUME NEW c \in Live' PROVE c \in Live
    <2>1. PICK u \in Makers : c # 0 /\ (c = mine'[u] \/ c = curr'[u])
      BY <1>2 DEF Live
    <2>2. c = mine[u] \/ c = curr[u]
      BY <1>1, <2>1
    <2> QED
      BY <2>1, <2>2 DEF Live
  <1> QED
    BY <1>2

LEMMA NewLives ==
    ASSUME Types0, Ids, NEW t \in Makers, Construct(t)
    PROVE  Live' = Live \cup {Len(typ) + 1}
  <1>1. /\ mine[t] = 0 /\ curr' = curr
        /\ mine' = [mine EXCEPT ![t] = Len(typ) + 1]
    BY DEF Construct, walk, Ids, Making
  <1>2. /\ \A u \in Makers : u # t => mine'[u] = mine[u]
        /\ mine'[t] = Len(typ) + 1
    BY <1>1 DEF Types0
  <1>3. Len(typ) + 1 # 0
    BY LenProperties DEF Types0
  <1>4. ASSUME NEW c \in Live' PROVE c \in Live \cup {Len(typ) + 1}
    <2>1. PICK u \in Makers : c # 0 /\ (c = mine'[u] \/ c = curr[u])
      BY <1>1, <1>4 DEF Live
    <2> QED
      BY <1>2, <2>1 DEF Live
  <1>5. ASSUME NEW c \in Live PROVE c \in Live'
    BY <1>1, <1>2, <1>5 DEF Live
  <1>6. Len(typ) + 1 \in Live'
    BY <1>2, <1>3 DEF Live
  <1> QED
    BY <1>4, <1>5, <1>6

-----------------------------------------------------------------------------
(* Types and identities *)

LEMMA InvInit == Init => IInv
  <1> SUFFICES ASSUME Init PROVE IInv
    OBVIOUS
  <1>1. <<>> \in Seq(Types) /\ Len(<<>>) = 0 /\ <<>> \in Seq(1 .. 0)
    BY EmptySeq
  <1>2. Types0
    <2>1. typ \in Seq(Types) /\ Len(typ) = 0 /\ table \in Seq(Types)
      BY <1>1 DEF Init
    <2>2. comps \in Seq(1 .. Len(typ))
      BY <1>1, <2>1 DEF Init
    <2>3. /\ it \in [Makers -> 0 .. Len(typ)] /\ mine \in [Makers -> 0 .. Len(typ)]
          /\ curr \in [Makers -> 0 .. Len(typ)]
      BY <2>1 DEF Init
    <2>4. inited \subseteq Types
      BY DEF Init
    <2> QED
      BY <2>1, <2>2, <2>3, <2>4 DEF Init, Types0, Places
  <1>3. Ids /\ Told
    BY DEF Init, Ids, Told, Making
  <1>4. Clean
    <2>1. ~wild /\ Alone
      BY DEF Init, Alone, InMake
    <2>2. comps = <<>> /\ table = <<>> /\ Live = {} /\ inited = {}
      BY DEF Init, Live
    <2>3. OneInstance
      BY <2>2 DEF OneInstance
    <2>4. \A t \in Makers : pc[t] = "idle"
      BY DEF Init
    <2>5. Len(comps) = 0 /\ Len(table) = 0
      BY <1>1, <2>2
    <2>6. Listing
      BY <2>2, <2>4, <2>5 DEF Listing, Making
    <2>7. Scanning
      BY <2>4 DEF Scanning, Walks
    <2>8. Added
      BY <2>2, <2>4, <2>5 DEF Added
    <2> QED
      BY <2>1, <2>6, <2>7, <2>8, <2>3 DEF Clean
  <1> QED
    BY <1>2, <1>3, <1>4 DEF IInv

\* A new component is of the type wanted, and no other is of its number.
LEMMA ConstructEffect ==
    ASSUME Types0, NEW t \in Makers, want[t] \in Types, Construct(t)
    PROVE  /\ Len(typ) \in Nat /\ Len(typ') = Len(typ) + 1
           /\ typ' \in Seq(Types) /\ typ'[Len(typ) + 1] = want[t]
           /\ \A c \in 1 .. Len(typ) : typ'[c] = typ[c]
           /\ comps \in Seq(1 .. Len(typ'))
  <1>1. typ' = Append(typ, want[t]) /\ typ \in Seq(Types) /\ Len(typ) \in Nat
    BY LenProperties DEF Construct, Types0
  <1>2. /\ Len(typ') = Len(typ) + 1 /\ typ' \in Seq(Types) /\ typ'[Len(typ) + 1] = want[t]
        /\ \A c \in 1 .. Len(typ) : typ'[c] = typ[c]
    BY <1>1, AppendProperties
  <1>3. comps \in Seq(1 .. Len(typ'))
    <2>1. Len(typ') \in Nat /\ Len(typ) <= Len(typ') /\ comps \in Seq(1 .. Len(typ))
      BY <1>1, <1>2 DEF Types0
    <2> QED
      BY <1>1, <2>1, MoreIsMore
  <1> QED
    BY <1>1, <1>2, <1>3

LEMMA TypesNext == Types0 /\ Ids /\ [Next]_vars => Types0' /\ Ids'
  <1> SUFFICES ASSUME Types0, Ids, [Next]_vars PROVE Types0' /\ Ids'
    OBVIOUS
  <1>1. Len(typ) \in Nat /\ Len(comps) \in Nat
    BY LenProperties DEF Types0
  <1>2. \A c : InList(c) => c \in 1 .. Len(typ)
    BY <1>1, ElementOfSeq DEF InList, Types0
  <1>3. \A c : After(c) \in 0 .. Len(typ)
    <2>1. ASSUME NEW c, NEW k \in 2 .. Len(comps)
          PROVE  comps[k] \in 1 .. Len(typ)
      BY <1>1, ElementOfSeq DEF Types0
    <2>2. ASSUME NEW c
          PROVE  After(c) \in 0 .. Len(typ)
      <3> DEFINE later == {k \in 2 .. Len(comps) : comps[k - 1] = c}
      <3>1. later # {} => (CHOOSE k \in later : TRUE) \in later
        OBVIOUS
      <3>2. later # {} => comps[CHOOSE k \in later : TRUE] \in 1 .. Len(typ)
        BY <2>1, <3>1
      <3>3. After(c) = IF later = {} THEN 0 ELSE comps[CHOOSE k \in later : TRUE]
        BY DEF After
      <3> HIDE DEF later
      <3> QED
        BY <1>1, <3>2, <3>3
    <2> QED
      BY <2>2
  <1>4. ASSUME NEW t \in Makers, NEW T \in Types, MakeBegin(t, T)
        PROVE  Types0' /\ Ids'
    <2>1. comps # <<>> => Head(comps) \in 1 .. Len(typ)
      BY HeadTailProperties DEF Types0
    <2>2. Types0'
      BY <1>1, <1>4, <2>1 DEF MakeBegin, At, made, Types0, Places
    <2>3. Ids'
      BY <1>4 DEF MakeBegin, At, made, Types0, Ids, Making
    <2> QED
      BY <2>2, <2>3
  <1>5. ASSUME NEW t \in Makers, ScanWild(t)
        PROVE  Types0' /\ Ids'
    <2>1. Types0'
      BY <1>1, <1>5 DEF ScanWild, At, made, Types0, Places
    <2>2. Ids'
      BY <1>5 DEF ScanWild, At, made, Types0, Ids, Making
    <2> QED
      BY <2>1, <2>2
  <1>6. ASSUME NEW t \in Makers, ScanExpired(t)
        PROVE  Types0' /\ Ids'
    <2>1. Types0'
      BY <1>6 DEF ScanExpired, At, made, walk, Types0, Places
    <2>2. Ids'
      BY <1>6 DEF ScanExpired, At, made, walk, Types0, Ids, Making
    <2> QED
      BY <2>1, <2>2
  <1>7. ASSUME NEW t \in Makers, ScanErase(t)
        PROVE  Types0' /\ Ids'
    <2>1. comps' \in Seq(1 .. Len(typ)) /\ After(it[t]) \in 0 .. Len(typ)
      BY <1>2, <1>3, <1>7, Removed DEF ScanErase, Types0, InList
    <2>2. Types0'
      BY <1>7, <2>1 DEF ScanErase, At, made, Types0, Places
    <2>3. Ids'
      BY <1>7 DEF ScanErase, At, made, Types0, Ids, Making
    <2> QED
      BY <2>2, <2>3
  <1>8. ASSUME NEW t \in Makers, ScanLock(t)
        PROVE  Types0' /\ Ids'
    <2>1. Types0'
      BY <1>1, <1>8 DEF ScanLock, At, made, Types0, Places
    <2>2. Ids'
      BY <1>8 DEF ScanLock, At, made, Types0, Ids, Making
    <2> QED
      BY <2>1, <2>2
  <1>9. ASSUME NEW t \in Makers, ScanThrow(t)
        PROVE  Types0' /\ Ids'
    <2>1. null' \in BOOLEAN /\ died' \in BOOLEAN
      BY <1>9 DEF ScanThrow, LetGo
    <2>2. Types0'
      BY <1>1, <1>9, <2>1 DEF ScanThrow, At, made, Types0, Places
    <2>3. Ids'
      BY <1>9 DEF ScanThrow, At, made, Types0, Ids, Making
    <2> QED
      BY <2>2, <2>3
  <1>10. ASSUME NEW t \in Makers, ScanNext(t)
        PROVE  Types0' /\ Ids'
    <2>1. null' \in BOOLEAN /\ wild' \in BOOLEAN
      BY <1>10 DEF ScanNext
    <2>2. After(it[t]) \in 0 .. Len(typ)
      BY <1>3
    <2>3. Types0'
      BY <1>10, <2>1, <2>2 DEF ScanNext, At, made, Types0, Places
    <2>4. Ids'
      BY <1>10 DEF ScanNext, At, made, Types0, Ids, Making
    <2> QED
      BY <2>3, <2>4
  <1>11. ASSUME NEW t \in Makers, Release(t)
        PROVE  Types0' /\ Ids'
    <2>1. died' \in BOOLEAN
      BY <1>11 DEF Release, LetGo
    <2>2. Types0'
      BY <1>1, <1>11, <2>1 DEF Release, At, made, Types0, Places
    <2>3. Ids'
      BY <1>11 DEF Release, At, made, Types0, Ids, Making
    <2> QED
      BY <2>2, <2>3
  <1>12. ASSUME NEW t \in Makers, Construct(t)
        PROVE  Types0' /\ Ids'
    <2>1. want[t] \in Types
      BY <1>12 DEF Construct, Ids
    <2>2. /\ Len(typ') = Len(typ) + 1 /\ typ' \in Seq(Types)
          /\ typ'[Len(typ) + 1] = want[t]
          /\ \A c \in 1 .. Len(typ) : typ'[c] = typ[c]
          /\ comps \in Seq(1 .. Len(typ'))
      BY <1>12, <2>1, ConstructEffect
    <2>3. /\ mine' = [mine EXCEPT ![t] = Len(typ) + 1]
          /\ pc' = [pc EXCEPT ![t] = "init"]
          /\ comps' = comps /\ inited' = inited /\ table' = table /\ want' = want
          /\ it' = it /\ curr' = curr /\ overlap' = overlap /\ died' = died
          /\ wild' = wild /\ null' = null
      BY <1>12 DEF Construct, At, walk
    <2>4. Types0'
      <3>1. /\ curr' \in [Makers -> 0 .. Len(typ')] /\ mine' \in [Makers -> 0 .. Len(typ')]
            /\ it' \in [Makers -> 0 .. Len(typ')]
        <4>1. /\ \A c \in 0 .. Len(typ) : c \in 0 .. Len(typ')
              /\ \A c \in 1 .. Len(typ) : c \in 1 .. Len(typ')
              /\ Len(typ) + 1 \in 1 .. Len(typ') /\ Len(typ) + 1 \in 0 .. Len(typ')
          BY <1>1, <2>2
        <4>2. curr' \in [Makers -> 0 .. Len(typ')]
          BY <2>3, <4>1 DEF Types0
        <4>3. it' \in [Makers -> 0 .. Len(typ')]
          BY <2>3, <4>1 DEF Types0
        <4>4. mine' \in [Makers -> 0 .. Len(typ')]
          BY <2>3, <4>1 DEF Types0
        <4> QED
          BY <4>2, <4>3, <4>4
      <3> QED
        BY <2>2, <2>3, <3>1 DEF Types0, Places
    <2>5. Ids'
      <3>1. \A u \in Makers : u # t => mine'[u] = mine[u] /\ pc'[u] = pc[u]
        BY <2>3 DEF Types0
      <3>2. mine'[t] = Len(typ) + 1 /\ pc'[t] = "init"
        BY <2>3 DEF Types0
      <3>3. \A u \in Makers : mine[u] # Len(typ) + 1
        BY <1>1 DEF Types0
      <3>4. \A u \in Makers : mine[u] # 0 => typ'[mine[u]] = typ[mine[u]]
        BY <1>1, <2>2 DEF Types0
      <3>5. Len(typ) + 1 # 0 /\ typ'[Len(typ) + 1] = want'[t]
        BY <1>1, <2>2, <2>3
      <3>6. \A u \in Makers : mine'[u] # 0 <=> Making(u)' \/ pc'[u] = "holding"
        BY <3>1, <3>2, <3>5 DEF Ids, Making
      <3>7. \A u \in Makers : pc'[u] # "idle" => want'[u] \in Types
        BY <2>1, <2>3, <3>1 DEF Ids
      <3>8. \A u \in Makers : mine'[u] # 0 => typ'[mine'[u]] = want'[u]
        BY <2>3, <3>1, <3>2, <3>4, <3>5 DEF Ids
      <3>9. \A u, v \in Makers : mine'[u] # 0 /\ mine'[u] = mine'[v] => u = v
        BY <3>1, <3>2, <3>3 DEF Ids
      <3>10. \A u \in Makers : curr'[u] # 0 => pc'[u] \in {"compare", "release"}
        BY <1>12, <2>3, <3>1 DEF Construct, Ids
      <3> QED
        BY <3>6, <3>7, <3>8, <3>9, <3>10 DEF Ids
    <2> QED
      BY <2>4, <2>5
  <1>13. ASSUME NEW t \in Makers, ClsInited(t)
         PROVE  Types0' /\ Ids'
    <2>1. Types0'
      BY <1>13 DEF ClsInited, At, made, walk, Types0, Places
    <2>2. Ids'
      BY <1>13 DEF ClsInited, At, made, walk, Types0, Ids, Making
    <2> QED
      BY <2>1, <2>2
  <1>14. ASSUME NEW t \in Makers, SetInited(t)
         PROVE  Types0' /\ Ids'
    <2>1. Types0'
      BY <1>14 DEF SetInited, At, made, walk, Types0, Places, Ids
    <2>2. Ids'
      BY <1>14 DEF SetInited, At, made, walk, Types0, Ids, Making
    <2> QED
      BY <2>1, <2>2
  <1>15. ASSUME NEW t \in Makers, AddUrc(t)
         PROVE  Types0' /\ Ids'
    <2>1. table' \in Seq(Types)
      BY <1>15, AppendProperties DEF AddUrc, Types0, Ids
    <2>2. Types0'
      BY <1>15, <2>1 DEF AddUrc, At, made, walk, Types0, Places
    <2>3. Ids'
      BY <1>15 DEF AddUrc, At, made, walk, Types0, Ids, Making
    <2> QED
      BY <2>2, <2>3
  <1>16. ASSUME NEW t \in Makers, Push(t)
         PROVE  Types0' /\ Ids'
    <2>1. mine[t] \in 1 .. Len(typ)
      BY <1>1, <1>16 DEF Push, Types0, Ids, Making
    <2>2. comps' \in Seq(1 .. Len(typ))
      BY <1>16, <2>1, AppendProperties DEF Push, Types0
    <2>3. Types0'
      BY <1>16, <2>2 DEF Push, At, made, walk, Types0, Places
    <2>4. Ids'
      BY <1>16 DEF Push, At, made, walk, Types0, Ids, Making
    <2> QED
      BY <2>3, <2>4
  <1>17. ASSUME NEW t \in Makers, Drop(t)
         PROVE  Types0' /\ Ids'
    <2>1. Types0'
      <3>1. 0 \in 0 .. Len(typ)
        BY <1>1
      <3>2. mine' \in [Makers -> 0 .. Len(typ)]
        BY <1>17, <3>1 DEF Drop, Types0
      <3>3. died' \in BOOLEAN
        BY <1>17 DEF Drop, LetGo
      <3>4. want' \in [Makers -> Types \cup {Nobody}] /\ pc' \in [Makers -> Places]
        BY <1>17 DEF Drop, At, Types0, Places
      <3> QED
        BY <1>17, <3>2, <3>3, <3>4 DEF Drop, walk, Types0
    <2>2. Ids'
      BY <1>17 DEF Drop, At, walk, Types0, Ids, Making
    <2> QED
      BY <2>1, <2>2
  <1>18. CASE UNCHANGED vars
    BY <1>18 DEF vars, made, walk, Types0, Ids, Making
  <1> QED
    BY <1>4, <1>5, <1>7, <1>9, <1>10, <1>12, <1>13, <1>14, <1>15, <1>16, <1>17, <1>18,
       <1>6, <1>8, <1>11 DEF Next, Make

-----------------------------------------------------------------------------
(* A null currComp *)

\* Whoever lets go of the last reference while a thread walks is told of.
LEMMA LetGoTells ==
    ASSUME Types0, Ids, Told, NEW t \in Makers, ~(pc[t] = "lock"), LetGo(t),
           NEW p, p \notin {"lock", "compare"}, pc' = [pc EXCEPT ![t] = p],
           \A u \in Makers : u # t => it'[u] = it[u] /\ curr'[u] = curr[u],
           null' => null \/ died
    PROVE  Told'
  <1>1. pc'[t] = p /\ \A u \in Makers : u # t => pc'[u] = pc[u]
    BY DEF Types0
  <1>2. died => died'
    BY DEF LetGo
  <1>3. ASSUME NEW u \in Makers, pc'[u] = "lock"
        PROVE  it'[u] \in Live' \/ died'
    <2>1. u # t /\ Walks(u) /\ it'[u] = it[u] /\ pc[u] = "lock"
      BY <1>1, <1>3 DEF Walks
    <2>2. Live' = Live \/ died'
      BY <2>1 DEF LetGo
    <2> QED
      BY <1>2, <2>1, <2>2 DEF Told
  <1>4. \A u \in Makers : pc'[u] = "compare" => curr'[u] # 0 \/ died'
    BY <1>1, <1>2 DEF Told
  <1> QED
    BY <1>2, <1>3, <1>4 DEF Told

LEMMA ToldNext == Types0 /\ Ids /\ Told /\ [Next]_vars => Told'
  <1> SUFFICES ASSUME Types0, Ids, Told, [Next]_vars PROVE Told'
    OBVIOUS
  <1>1. ASSUME NEW t \in Makers, NEW T \in Types, MakeBegin(t, T)
        PROVE  Told'
    <2>1. Live' = Live
      BY <1>1, LiveKept DEF MakeBegin, made
    <2> QED
      BY <1>1, <2>1 DEF MakeBegin, At, Types0, Told
  <1>2. ASSUME NEW t \in Makers, ScanExpired(t)
        PROVE  Told'
    <2>1. Live' = Live
      BY <1>2, LiveKept DEF ScanExpired, made, walk
    <2> QED
      BY <1>2, <2>1 DEF ScanExpired, At, walk, Types0, Told
  <1>3. ASSUME NEW t \in Makers, ScanErase(t)
        PROVE  Told'
    <2>1. Live' = Live
      BY <1>3, LiveKept DEF ScanErase, made
    <2> QED
      BY <1>3, <2>1 DEF ScanErase, At, Types0, Told
  <1>4. ASSUME NEW t \in Makers, ScanLock(t)
        PROVE  Told'
    <2>1. Live' = Live /\ (it[t] \in Live => curr'[t] # 0)
      BY <1>4, LockKeepsLive
    <2>2. it[t] \in Live \/ died
      BY <1>4 DEF ScanLock, Told
    <2>3. \A u \in Makers : u # t => curr'[u] = curr[u] /\ pc'[u] = pc[u]
      BY <1>4 DEF ScanLock, At, Types0
    <2>4. pc'[t] = "compare" /\ it' = it /\ died' = died /\ null' = null
      BY <1>4 DEF ScanLock, At, Types0
    <2> QED
      BY <2>1, <2>2, <2>3, <2>4 DEF Told
  <1>5. ASSUME NEW t \in Makers, ScanThrow(t)
        PROVE  Told'
    <2>1. \A u \in Makers : u # t => it'[u] = it[u] /\ curr'[u] = curr[u]
      BY <1>5 DEF ScanThrow, Types0
    <2>2. null' => null \/ died
      BY <1>5 DEF ScanThrow, Told
    <2> QED
      BY <1>5, <2>1, <2>2, LetGoTells DEF ScanThrow, At
  <1>6. ASSUME NEW t \in Makers, ScanNext(t)
        PROVE  Told'
    <2>1. Live' = Live
      BY <1>6, LiveKept DEF ScanNext, made
    <2>2. null' => died
      BY <1>6 DEF ScanNext, Told
    <2>3. \A u \in Makers : u # t => it'[u] = it[u] /\ pc'[u] = pc[u]
      BY <1>6 DEF ScanNext, At, Types0
    <2>4. pc'[t] = "release" /\ curr' = curr /\ died' = died
      BY <1>6 DEF ScanNext, At, Types0
    <2> QED
      BY <2>1, <2>2, <2>3, <2>4 DEF Told
  <1>7. ASSUME NEW t \in Makers, Release(t)
        PROVE  Told'
    <2>1. \A u \in Makers : u # t => it'[u] = it[u] /\ curr'[u] = curr[u]
      BY <1>7 DEF Release, Types0
    <2> QED
      BY <1>7, <2>1, LetGoTells DEF Release, At
  <1>8. ASSUME NEW t \in Makers, ScanWild(t)
        PROVE  Told'
    <2>1. Live' = Live
      BY <1>8, LiveKept DEF ScanWild, made
    <2> QED
      BY <1>8, <2>1 DEF ScanWild, At, Types0, Told
  <1>9. ASSUME NEW t \in Makers, Construct(t)
        PROVE  Told'
    <2>1. Live \subseteq Live'
      BY <1>9, NewLives
    <2> QED
      BY <1>9, <2>1 DEF Construct, At, walk, Types0, Told
  <1>10. ASSUME NEW t \in Makers,
                ClsInited(t) \/ SetInited(t) \/ AddUrc(t) \/ Push(t)
         PROVE  Told'
    <2>1. Live' = Live
      BY <1>10, LiveKept DEF ClsInited, SetInited, AddUrc, Push, made, walk
    <2>2. /\ \A u \in Makers : pc'[u] \in {"lock", "compare"} => pc'[u] = pc[u]
          /\ it' = it /\ curr' = curr /\ died' = died /\ null' = null
      BY <1>10 DEF ClsInited, SetInited, AddUrc, Push, At, made, walk, Types0
    <2> QED
      BY <2>1, <2>2 DEF Told
  <1>11. ASSUME NEW t \in Makers, Drop(t)
         PROVE  Told'
    BY <1>11, LetGoTells DEF Drop, At, walk
  <1>12. CASE UNCHANGED vars
    <2>1. Live' = Live
      BY <1>12, LiveKept DEF vars, made, walk
    <2> QED
      BY <1>12, <2>1 DEF vars, walk, Told
  <1> QED
    BY <1>1, <1>2, <1>3, <1>4, <1>5, <1>6, <1>7, <1>8, <1>9, <1>10, <1>11, <1>12
       DEF Next, Make

-----------------------------------------------------------------------------
(* Every step of threads that are in make one after another *)

LEMMA OthersOut ==
    ASSUME Types0, Alone, NEW t \in Makers, InMake(t)
    PROVE  \A u \in Makers : u # t => pc[u] \in {"idle", "holding"}
  BY DEF Alone, InMake, Types0, Places

\* A step of a thread that is in make, and the place it comes to.
LEMMA AloneKept ==
    ASSUME Types0, Alone, NEW t \in Makers, InMake(t), NEW p,
           pc' = [pc EXCEPT ![t] = p]
    PROVE  Alone'
  BY OthersOut DEF Alone, InMake, Types0

LEMMA BeginClean ==
    ASSUME Types0, Ids, Clean, NEW t \in Makers, NEW T \in Types, MakeBegin(t, T), ~overlap'
    PROVE  Clean'
  <1>1. /\ pc[t] = "idle" /\ pc' = [pc EXCEPT ![t] = "scan"]
        /\ want' = [want EXCEPT ![t] = T]
        /\ it' = [it EXCEPT ![t] = IF comps = <<>> THEN 0 ELSE Head(comps)]
        /\ typ' = typ /\ Live' = Live /\ comps' = comps /\ inited' = inited
        /\ table' = table /\ mine' = mine /\ wild' = wild
    BY LiveKept DEF MakeBegin, At, made
  <1>2. \A u \in Makers : u # t => pc[u] \in {"idle", "holding"}
    BY DEF MakeBegin, InMake, Types0, Places
  <1>3. \A u \in Makers : u # t => pc'[u] = pc[u] /\ want'[u] = want[u]
    BY <1>1 DEF Types0
  <1>4. pc'[t] = "scan" /\ it'[t] = IF comps = <<>> THEN 0 ELSE Head(comps)
    BY <1>1 DEF Types0
  <1>5. Alone'
    BY <1>2, <1>3 DEF Alone, InMake
  <1>6. OneInstance' /\ ~wild'
    BY <1>1 DEF Clean, OneInstance
  <1>7. Listing'
    BY <1>1, <1>2, <1>3, <1>4 DEF Clean, Listing, Making, InList
  <1>8. Scanning'
    <2>1. Len(comps) \in Nat /\ (comps # <<>> => Head(comps) = comps[1] /\ 1 \in 1 .. Len(comps))
      BY HeadTailProperties, EmptySeq, LenProperties DEF Types0
    <2>2. it'[t] # 0 => InList(it'[t])
      BY <1>4, <2>1 DEF InList
    <2>3. ASSUME NEW k \in 1 .. Len(comps)
          PROVE  \E m \in 1 .. k : comps[m] = it'[t]
      <3>1. comps # <<>> /\ 1 \in 1 .. k
        BY <2>1, EmptySeq
      <3> QED
        BY <1>4, <2>1, <3>1
    <2> QED
      BY <1>1, <1>2, <1>3, <1>4, <2>2, <2>3 DEF Scanning, Walks, InList
  <1>9. Added'
    BY <1>1, <1>2, <1>3, <1>4 DEF Clean, Added
  <1> QED
    BY <1>5, <1>6, <1>7, <1>8, <1>9 DEF Clean

LEMMA EraseClean ==
    ASSUME Types0, Ids, Clean, NEW t \in Makers, ScanErase(t)
    PROVE  Clean'
  <1>1. /\ pc[t] = "erase" /\ it[t] \notin Live
        /\ pc' = [pc EXCEPT ![t] = "scan"]
        /\ it' = [it EXCEPT ![t] = After(it[t])]
        /\ typ' = typ /\ Live' = Live /\ want' = want /\ inited' = inited
        /\ table' = table /\ mine' = mine /\ wild' = wild
    BY LiveKept DEF ScanErase, At, made, Clean, Scanning, Walks
  <1>2. PICK k \in 1 .. Len(comps) : comps[k] = it[t] /\ comps' = RemoveAt(comps, k)
    BY DEF ScanErase
  <1>3. /\ Len(comps) \in Nat /\ Len(comps') = Len(comps) - 1
        /\ \A i \in 1 .. Len(comps) - 1 : comps'[i] = IF i < k THEN comps[i] ELSE comps[i + 1]
    BY <1>2, Removed, LenProperties DEF Types0
  <1>4. \A u \in Makers : u # t => pc[u] \in {"idle", "holding"}
    BY <1>1, OthersOut DEF Clean, InMake
  <1>5. pc'[t] = "scan" /\ \A u \in Makers : u # t => pc'[u] = pc[u]
    BY <1>1 DEF Types0
  <1>6. it'[t] = IF k = Len(comps) THEN 0 ELSE comps[k + 1]
    BY <1>1, <1>2, AfterIs DEF Clean, Types0
  <1>7. \A i, j \in 1 .. Len(comps) : comps[i] = comps[j] => i = j
    BY DEF Clean, Listing
  <1>8. Alone' /\ OneInstance' /\ ~wild'
    BY <1>1, <1>4, <1>5 DEF Clean, Alone, InMake, OneInstance
  <1>9. Listing'
    <2>1. \A i, j \in 1 .. Len(comps') : comps'[i] = comps'[j] => i = j
      BY <1>3, <1>7
    <2>2. ASSUME NEW c \in Live
          PROVE  \E i \in 1 .. Len(comps') : comps'[i] = c
      <3>1. PICK i \in 1 .. Len(comps) : comps[i] = c
        BY <1>1, <1>4 DEF Clean, Listing, Making, InList
      <3>2. i # k
        BY <1>1, <1>2, <3>1
      <3>3. CASE i < k
        <4>1. i \in 1 .. Len(comps') /\ comps'[i] = c
          BY <1>3, <3>1, <3>3
        <4> QED
          BY <4>1
      <3>4. CASE i > k
        <4>1. i - 1 \in 1 .. Len(comps') /\ comps'[i - 1] = comps[(i - 1) + 1]
          BY <1>3, <3>4
        <4> QED
          BY <3>1, <4>1
      <3> QED
        BY <3>2, <3>3, <3>4
    <2> QED
      BY <1>1, <1>4, <1>5, <2>1, <2>2 DEF Listing, Making, InList
  <1>10. Scanning'
    <2>1. it'[t] # 0 => \E i \in 1 .. Len(comps') : comps'[i] = it'[t]
      <3>1. k # Len(comps) => k \in 1 .. Len(comps') /\ comps'[k] = comps[k + 1]
        BY <1>3
      <3> QED
        BY <1>6, <3>1
    <2>2. ASSUME NEW i \in 1 .. Len(comps'), comps'[i] \in Live, typ[comps'[i]] = want[t]
          PROVE  \E m \in 1 .. i : comps'[m] = it'[t]
      <3>1. \A j \in 1 .. Len(comps) : comps[j] \in Live /\ typ[comps[j]] = want[t] => k <= j
        BY <1>1, <1>2, <1>7 DEF Clean, Scanning, Walks
      <3>2. ~(i < k)
        BY <1>3, <2>2, <3>1
      <3>3. k \in 1 .. i /\ k # Len(comps) /\ comps'[k] = comps[k + 1]
        BY <1>3, <3>2
      <3> QED
        BY <1>6, <3>3
    <2> QED
      BY <1>1, <1>4, <1>5, <2>1, <2>2 DEF Scanning, Walks, InList
  <1>11. Added'
    BY <1>1, <1>4, <1>5 DEF Clean, Added
  <1> QED
    BY <1>8, <1>9, <1>10, <1>11 DEF Clean

\* A step of the walk that leaves the list alone and brings nothing to life: what
\* remains is where the iterator is.
LEMMA WalkKeeps ==
    ASSUME Types0, Ids, Clean, NEW t \in Makers, Walks(t),
           NEW p, p = "idle" \/ p \in {"scan", "erase", "lock", "compare", "release"},
           pc' = [pc EXCEPT ![t] = p],
           Live' \subseteq Live, typ' = typ, comps' = comps, mine' = mine,
           inited' = inited, table' = table,
           \A u \in Makers : u # t => want'[u] = want[u]
    PROVE  /\ Alone' /\ OneInstance' /\ Listing' /\ Added'
           /\ pc'[t] = p
           /\ \A u \in Makers : u # t => ~Walks(u)'
  <1>1. \A u \in Makers : u # t => pc[u] \in {"idle", "holding"}
    BY OthersOut DEF Clean, InMake, Walks
  <1>2. pc'[t] = p /\ \A u \in Makers : u # t => pc'[u] = pc[u]
    BY DEF Types0
  <1>3. Alone'
    BY <1>1, <1>2 DEF Alone, InMake
  <1>4. OneInstance'
    BY DEF Clean, OneInstance
  <1>5. \A u \in Makers : ~Making(u) /\ ~Making(u)'
    BY <1>1, <1>2 DEF Making, Walks
  <1>6. Listing'
    BY <1>5 DEF Clean, Listing, InList
  <1>7. Added'
    <2>1. \A u \in Makers : /\ pc[u] \notin {"set", "urc", "push"}
                           /\ pc'[u] \notin {"set", "urc", "push"}
      BY <1>1, <1>2 DEF Walks
    <2>2. \A u \in Makers : pc'[u] = "holding" => want'[u] \in inited
      BY <1>1, <1>2 DEF Clean, Added
    <2> QED
      BY <2>1, <2>2 DEF Clean, Added
  <1>8. \A u \in Makers : u # t => ~Walks(u)'
    BY <1>1, <1>2 DEF Walks
  <1> QED
    BY <1>2, <1>3, <1>4, <1>6, <1>7, <1>8

LEMMA ThrowClean ==
    ASSUME Types0, Ids, Clean, NEW t \in Makers, ScanThrow(t)
    PROVE  Clean'
  <1>1. /\ Walks(t) /\ pc' = [pc EXCEPT ![t] = "idle"]
        /\ mine' = mine /\ curr' = [curr EXCEPT ![t] = 0]
        /\ want' = [want EXCEPT ![t] = Nobody]
        /\ typ' = typ /\ comps' = comps /\ inited' = inited
        /\ table' = table /\ wild' = wild
    BY DEF ScanThrow, At, made, Walks
  <1>2. Live' \subseteq Live
    BY <1>1, LessLives
  <1>3. \A u \in Makers : u # t => want'[u] = want[u]
    BY <1>1 DEF Types0
  <1>4. /\ Alone' /\ OneInstance' /\ Listing' /\ Added' /\ pc'[t] = "idle"
        /\ \A u \in Makers : u # t => ~Walks(u)'
    BY <1>1, <1>2, <1>3, WalkKeeps
  <1>5. Scanning'
    BY <1>4 DEF Scanning, Walks
  <1> QED
    BY <1>1, <1>4, <1>5 DEF Clean

\* expired tells the dead from the living, and nothing is revived.
LEMMA ExpiredClean ==
    ASSUME Types0, Ids, Clean, NEW t \in Makers, ScanExpired(t)
    PROVE  Clean'
  <1> DEFINE p == IF it[t] \in Live THEN "lock" ELSE "erase"
  <1>1. /\ Walks(t) /\ pc[t] = "scan" /\ pc' = [pc EXCEPT ![t] = p]
        /\ InList(it[t]) /\ it' = it /\ want' = want /\ Live' = Live
        /\ typ' = typ /\ comps' = comps /\ mine' = mine /\ inited' = inited
        /\ table' = table /\ wild' = wild
    BY LiveKept DEF ScanExpired, At, made, walk, Walks
  <1>2. /\ Alone' /\ OneInstance' /\ Listing' /\ Added' /\ pc'[t] = p
        /\ \A u \in Makers : u # t => ~Walks(u)'
    BY <1>1, WalkKeeps
  <1>3. it[t] # 0
    BY <1>1, ElementOfSeq, LenProperties DEF InList, Types0
  <1>4. Scanning'
    BY <1>1, <1>2, <1>3 DEF Clean, Scanning, Walks, InList
  <1> QED
    BY <1>1, <1>2, <1>4 DEF Clean

LEMMA LockClean ==
    ASSUME Types0, Ids, Clean, NEW t \in Makers, ScanLock(t)
    PROVE  Clean'
  <1>1. /\ Walks(t) /\ pc[t] = "lock" /\ pc' = [pc EXCEPT ![t] = "compare"]
        /\ it' = it /\ want' = want /\ typ' = typ /\ comps' = comps /\ mine' = mine
        /\ inited' = inited /\ table' = table /\ wild' = wild
    BY DEF ScanLock, At, made, Walks
  <1>2. Live' = Live /\ (it[t] \in Live => curr'[t] = it[t])
    BY LockKeepsLive
  <1>3. /\ Alone' /\ OneInstance' /\ Listing' /\ Added' /\ pc'[t] = "compare"
        /\ \A u \in Makers : u # t => ~Walks(u)'
    BY <1>1, <1>2, WalkKeeps
  <1>4. Scanning'
    BY <1>1, <1>2, <1>3 DEF Clean, Scanning, Walks, InList
  <1> QED
    BY <1>1, <1>3, <1>4 DEF Clean

\* What the iterator passes is of another type, or dead.
LEMMA ScanNextClean ==
    ASSUME Types0, Ids, Clean, NEW t \in Makers, ScanNext(t)
    PROVE  Clean'
  <1>1. /\ Walks(t) /\ pc[t] = "compare" /\ pc' = [pc EXCEPT ![t] = "release"]
        /\ it' = [it EXCEPT ![t] = After(it[t])]
        /\ (curr[t] # 0 => typ[curr[t]] # want[t])
        /\ wild' = (wild \/ ~InList(it[t]))
        /\ want' = want /\ Live' = Live /\ typ' = typ /\ comps' = comps
        /\ mine' = mine /\ inited' = inited /\ table' = table
    BY LiveKept DEF ScanNext, At, made, Walks
  <1>2. /\ it[t] # 0 /\ InList(it[t])
        /\ (it[t] \in Live => curr[t] = it[t])
    BY <1>1 DEF Clean, Scanning
  <1>3. PICK k \in 1 .. Len(comps) : comps[k] = it[t]
    BY <1>2 DEF InList
  <1>4. it'[t] = IF k = Len(comps) THEN 0 ELSE comps[k + 1]
    BY <1>1, <1>3, AfterIs DEF Clean, Types0
  <1>5. Len(comps) \in Nat
    BY LenProperties DEF Types0
  <1>6. /\ Alone' /\ OneInstance' /\ Listing' /\ Added' /\ pc'[t] = "release"
        /\ \A u \in Makers : u # t => ~Walks(u)'
    BY <1>1, WalkKeeps
  <1>7. ~wild'
    BY <1>1, <1>2 DEF Clean
  <1>8. Scanning'
    <2>1. it'[t] # 0 => InList(it'[t])
      BY <1>4, <1>5 DEF InList
    <2>2. ASSUME NEW i \in 1 .. Len(comps), comps[i] \in Live, typ[comps[i]] = want[t]
          PROVE  \E m \in 1 .. i : comps[m] = it'[t]
      <3>1. k <= i
        BY <1>1, <1>3, <2>2 DEF Clean, Scanning, Listing
      <3>2. k # i
        BY <1>1, <1>2, <1>3, <2>2
      <3>3. k + 1 \in 1 .. i /\ k # Len(comps)
        BY <1>5, <3>1, <3>2
      <3> QED
        BY <1>4, <3>3
    <2> QED
      BY <1>1, <1>6, <2>1, <2>2 DEF Scanning, InList
  <1> QED
    BY <1>6, <1>7, <1>8 DEF Clean

LEMMA ReleaseClean ==
    ASSUME Types0, Ids, Clean, NEW t \in Makers, Release(t)
    PROVE  Clean'
  <1>1. /\ Walks(t) /\ pc[t] = "release" /\ pc' = [pc EXCEPT ![t] = "scan"]
        /\ mine' = mine /\ curr' = [curr EXCEPT ![t] = 0]
        /\ it' = it /\ want' = want /\ typ' = typ /\ comps' = comps
        /\ inited' = inited /\ table' = table /\ wild' = wild
    BY DEF Release, At, made, Walks
  <1>2. Live' \subseteq Live
    BY <1>1, LessLives
  <1>3. /\ Alone' /\ OneInstance' /\ Listing' /\ Added' /\ pc'[t] = "scan"
        /\ \A u \in Makers : u # t => ~Walks(u)'
    BY <1>1, <1>2, WalkKeeps
  <1>4. Scanning'
    BY <1>1, <1>2, <1>3 DEF Clean, Scanning, InList
  <1> QED
    BY <1>1, <1>3, <1>4 DEF Clean

LEMMA WildClean ==
    ASSUME Types0, Ids, Clean, NEW t \in Makers, ScanWild(t)
    PROVE  Clean'
  BY DEF ScanWild, Clean, Scanning, Walks

\* The walk has found no living component of the type: the new one is alone.
LEMMA ConstructClean ==
    ASSUME Types0, Ids, Clean, NEW t \in Makers, Construct(t)
    PROVE  Clean'
  <1>1. /\ pc[t] = "scan" /\ it[t] = 0 /\ pc' = [pc EXCEPT ![t] = "init"]
        /\ Live' = Live \cup {Len(typ) + 1}
        /\ mine' = [mine EXCEPT ![t] = Len(typ) + 1]
        /\ comps' = comps /\ inited' = inited /\ table' = table
        /\ want' = want /\ it' = it /\ wild' = wild
    BY NewLives DEF Construct, At, walk
  <1>2. want[t] \in Types
    BY <1>1 DEF Ids
  <1>3. /\ Len(typ) \in Nat /\ typ'[Len(typ) + 1] = want[t]
        /\ \A c \in 1 .. Len(typ) : typ'[c] = typ[c]
    BY <1>2, ConstructEffect
  <1>4. \A u \in Makers : u # t => pc[u] \in {"idle", "holding"}
    BY <1>1, OthersOut DEF Clean, InMake
  <1>5. \A u \in Makers : u # t => pc'[u] = pc[u] /\ mine'[u] = mine[u]
    BY <1>1 DEF Types0
  <1>6. pc'[t] = "init" /\ mine'[t] = Len(typ) + 1
    BY <1>1 DEF Types0
  <1>7. \A k \in 1 .. Len(comps) : comps[k] \in 1 .. Len(typ)
    BY ElementOfSeq DEF Types0
  <1>8. \A c \in Live : InList(c)
    BY <1>1, <1>4 DEF Clean, Listing, Making
  <1>9. \A c \in Live : typ[c] # want[t]
    <2>1. \A k \in 1 .. Len(comps) : comps[k] # 0
      BY <1>3, <1>7
    <2>2. \A k \in 1 .. Len(comps) : ~(comps[k] \in Live /\ typ[comps[k]] = want[t])
      <3>1. \A k \in 1 .. Len(comps) : \A m \in 1 .. k : m \in 1 .. Len(comps)
        BY LenProperties DEF Types0
      <3> QED
        BY <1>1, <2>1, <3>1 DEF Clean, Scanning, Walks
    <2> QED
      BY <1>8, <2>2 DEF InList
  <1>10. OneInstance'
    <2>1. \A c \in Live : c \in 1 .. Len(typ) /\ typ'[c] = typ[c] /\ typ'[c] # want[t]
      BY <1>3, <1>9, LiveIsMade
    <2> QED
      BY <1>1, <1>3, <2>1 DEF Clean, OneInstance
  <1>11. Alone' /\ ~wild'
    BY <1>1, <1>4, <1>5 DEF Clean, Alone, InMake
  <1>12. Listing'
    <2>1. \A i, k \in 1 .. Len(comps) : comps[i] = comps[k] => i = k
      BY DEF Clean, Listing
    <2>2. \A k \in 1 .. Len(comps) : comps[k] # Len(typ) + 1
      BY <1>3, <1>7
    <2>3. \A u \in Makers : Making(u)' => u = t
      BY <1>4, <1>5 DEF Making
    <2>4. Making(t)'
      BY <1>6 DEF Making
    <2> QED
      BY <1>1, <1>6, <1>8, <2>1, <2>2, <2>3, <2>4 DEF Listing, InList
  <1>13. Scanning'
    BY <1>4, <1>5, <1>6 DEF Scanning, Walks
  <1>14. Added'
    BY <1>1, <1>4, <1>5, <1>6 DEF Clean, Added
  <1> QED
    BY <1>10, <1>11, <1>12, <1>13, <1>14 DEF Clean

LEMMA ClsInitedClean ==
    ASSUME Types0, Ids, Clean, NEW t \in Makers, ClsInited(t)
    PROVE  Clean'
  <1>1. /\ pc[t] = "init"
        /\ pc' = [pc EXCEPT ![t] = IF want[t] \in inited THEN "push" ELSE "set"]
        /\ typ' = typ /\ Live' = Live /\ comps' = comps /\ inited' = inited
        /\ table' = table /\ want' = want /\ it' = it /\ mine' = mine /\ wild' = wild
    BY LiveKept DEF ClsInited, At, made, walk
  <1>2. \A u \in Makers : u # t => pc[u] \in {"idle", "holding"}
    BY <1>1, OthersOut DEF Clean, InMake
  <1>3. \A u \in Makers : u # t => pc'[u] = pc[u]
    BY <1>1 DEF Types0
  <1>4. pc'[t] = IF want[t] \in inited THEN "push" ELSE "set"
    BY <1>1 DEF Types0
  <1>5. Alone' /\ Scanning'
    BY <1>2, <1>3, <1>4 DEF Alone, InMake, Scanning, Walks
  <1>6. OneInstance' /\ ~wild'
    BY <1>1 DEF Clean, OneInstance
  <1>7. Listing'
    BY <1>1, <1>2, <1>3, <1>4 DEF Clean, Listing, Making, InList
  <1>8. Added'
    BY <1>1, <1>2, <1>3, <1>4 DEF Clean, Added
  <1> QED
    BY <1>5, <1>6, <1>7, <1>8 DEF Clean

LEMMA SetInitedClean ==
    ASSUME Types0, Ids, Clean, NEW t \in Makers, SetInited(t)
    PROVE  Clean'
  <1>1. /\ pc[t] = "set" /\ pc' = [pc EXCEPT ![t] = "urc"]
        /\ inited' = inited \cup {want[t]}
        /\ typ' = typ /\ Live' = Live /\ comps' = comps
        /\ table' = table /\ want' = want /\ it' = it /\ mine' = mine /\ wild' = wild
    BY LiveKept DEF SetInited, At, made, walk
  <1>2. \A u \in Makers : u # t => pc[u] \in {"idle", "holding"}
    BY <1>1, OthersOut DEF Clean, InMake
  <1>3. \A u \in Makers : u # t => pc'[u] = pc[u]
    BY <1>1 DEF Types0
  <1>4. pc'[t] = "urc"
    BY <1>1 DEF Types0
  <1>5. Alone' /\ Scanning'
    BY <1>2, <1>3, <1>4 DEF Alone, InMake, Scanning, Walks
  <1>6. OneInstance' /\ ~wild'
    BY <1>1 DEF Clean, OneInstance
  <1>7. Listing'
    BY <1>1, <1>2, <1>3, <1>4 DEF Clean, Listing, Making, InList
  <1>8. Added'
    BY <1>1, <1>2, <1>3, <1>4 DEF Clean, Added
  <1> QED
    BY <1>5, <1>6, <1>7, <1>8 DEF Clean

LEMMA AddUrcClean ==
    ASSUME Types0, Ids, Clean, NEW t \in Makers, AddUrc(t)
    PROVE  Clean'
  <1>1. /\ pc[t] = "urc" /\ pc' = [pc EXCEPT ![t] = "push"]
        /\ table' = IF want[t] \in Silent THEN table ELSE Append(table, want[t])
        /\ typ' = typ /\ Live' = Live /\ comps' = comps /\ inited' = inited
        /\ want' = want /\ it' = it /\ mine' = mine /\ wild' = wild
    BY LiveKept DEF AddUrc, At, made, walk
  <1>2. \A u \in Makers : u # t => pc[u] \in {"idle", "holding"}
    BY <1>1, OthersOut DEF Clean, InMake
  <1>3. \A u \in Makers : u # t => pc'[u] = pc[u]
    BY <1>1 DEF Types0
  <1>4. pc'[t] = "push"
    BY <1>1 DEF Types0
  <1>5. Alone' /\ Scanning'
    BY <1>2, <1>3, <1>4 DEF Alone, InMake, Scanning, Walks
  <1>6. OneInstance' /\ ~wild'
    BY <1>1 DEF Clean, OneInstance
  <1>7. Listing'
    BY <1>1, <1>2, <1>3, <1>4 DEF Clean, Listing, Making, InList
  <1>8. Added'
    <2>1. want[t] \in inited /\ \A k \in 1 .. Len(table) : table[k] # want[t]
      BY <1>1 DEF Clean, Added
    <2>2. \A u \in Makers : pc'[u] \notin {"set", "urc"}
      BY <1>2, <1>3, <1>4
    <2>3. \A u \in Makers : pc'[u] \in {"urc", "push", "holding"} => want[u] \in inited
      BY <1>2, <1>3, <2>1 DEF Clean, Added
    <2>4. \A T \in inited \ Silent : T = want[t] \/ \E k \in 1 .. Len(table) : table[k] = T
      BY <1>2 DEF Clean, Added
    <2>5. CASE want[t] \in Silent
      <3>1. table' = table
        BY <1>1, <2>5
      <3> QED
        BY <1>1, <2>2, <2>3, <2>4, <2>5, <3>1 DEF Clean, Added
    <2>6. CASE want[t] \notin Silent
      <3>1. /\ Len(table) \in Nat /\ Len(table') = Len(table) + 1
            /\ table'[Len(table) + 1] = want[t]
            /\ \A k \in 1 .. Len(table) : table'[k] = table[k]
        BY <1>1, <2>1, <2>6, AppendProperties, LenProperties DEF Types0
      <3>2. /\ \A k \in 1 .. Len(table) : k \in 1 .. Len(table')
            /\ \A k \in 1 .. Len(table') : k \in 1 .. Len(table) \/ k = Len(table) + 1
            /\ Len(table) + 1 \in 1 .. Len(table')
        BY <3>1
      <3>3. \A T \in inited \ Silent : \E k \in 1 .. Len(table') : table'[k] = T
        BY <2>4, <3>1, <3>2
      <3>4. \A k \in 1 .. Len(table') : table'[k] \in inited
        BY <2>1, <3>1, <3>2 DEF Clean, Added
      <3>5. \A h, k \in 1 .. Len(table') : table'[h] = table'[k] => h = k
        BY <2>1, <3>1, <3>2 DEF Clean, Added
      <3> QED
        BY <1>1, <2>2, <2>3, <3>3, <3>4, <3>5 DEF Added
    <2> QED
      BY <2>5, <2>6
  <1> QED
    BY <1>5, <1>6, <1>7, <1>8 DEF Clean

LEMMA PushClean ==
    ASSUME Types0, Ids, Clean, NEW t \in Makers, Push(t)
    PROVE  Clean'
  <1>1. /\ pc[t] = "push" /\ pc' = [pc EXCEPT ![t] = "holding"]
        /\ comps' = Append(comps, mine[t])
        /\ typ' = typ /\ Live' = Live /\ inited' = inited /\ table' = table
        /\ want' = want /\ it' = it /\ mine' = mine /\ wild' = wild
    BY LiveKept DEF Push, At, made, walk
  <1>2. \A u \in Makers : u # t => pc[u] \in {"idle", "holding"}
    BY <1>1, OthersOut DEF Clean, InMake
  <1>3. \A u \in Makers : u # t => pc'[u] = pc[u]
    BY <1>1 DEF Types0
  <1>4. pc'[t] = "holding"
    BY <1>1 DEF Types0
  <1>5. Alone' /\ Scanning'
    BY <1>2, <1>3, <1>4 DEF Alone, InMake, Scanning, Walks
  <1>6. OneInstance' /\ ~wild'
    BY <1>1 DEF Clean, OneInstance
  <1>7. Listing'
    <2>1. mine[t] \in 1 .. Len(typ)
      BY <1>1 DEF Types0, Ids, Making
    <2>2. \A k \in 1 .. Len(comps) : comps[k] # mine[t]
      BY <1>1 DEF Clean, Listing, Making, InList
    <2>3. /\ Len(comps) \in Nat /\ Len(comps') = Len(comps) + 1
          /\ comps'[Len(comps) + 1] = mine[t]
          /\ \A k \in 1 .. Len(comps) : comps'[k] = comps[k]
      BY <1>1, <2>1, AppendProperties, LenProperties DEF Types0
    <2>4. /\ \A k \in 1 .. Len(comps) : k \in 1 .. Len(comps')
          /\ \A k \in 1 .. Len(comps') : k \in 1 .. Len(comps) \/ k = Len(comps) + 1
          /\ Len(comps) + 1 \in 1 .. Len(comps')
      BY <2>3
    <2>5. \A i, k \in 1 .. Len(comps') : comps'[i] = comps'[k] => i = k
      BY <2>2, <2>3, <2>4 DEF Clean, Listing
    <2>6. \A c \in Live : c = mine[t] \/ \E k \in 1 .. Len(comps) : comps[k] = c
      BY <1>2 DEF Clean, Listing, Making, InList
    <2>7. \A c \in Live : \E k \in 1 .. Len(comps') : comps'[k] = c
      BY <2>3, <2>4, <2>6
    <2>8. \A u \in Makers : ~Making(u)'
      BY <1>2, <1>3, <1>4 DEF Making
    <2> QED
      BY <1>1, <2>5, <2>7, <2>8 DEF Listing, InList
  <1>8. Added'
    BY <1>1, <1>2, <1>3, <1>4 DEF Clean, Added
  <1> QED
    BY <1>5, <1>6, <1>7, <1>8 DEF Clean

\* A component may be dropped while another thread walks the list.
LEMMA DropClean ==
    ASSUME Types0, Ids, Clean, NEW t \in Makers, Drop(t)
    PROVE  Clean'
  <1>1. /\ pc[t] = "holding" /\ pc' = [pc EXCEPT ![t] = "idle"]
        /\ curr' = curr /\ mine' = [mine EXCEPT ![t] = 0]
        /\ want' = [want EXCEPT ![t] = Nobody]
        /\ typ' = typ /\ comps' = comps /\ inited' = inited /\ table' = table
        /\ it' = it /\ wild' = wild
    BY DEF Drop, At, walk
  <1>2. \A u \in Makers : u # t => pc'[u] = pc[u] /\ want'[u] = want[u] /\ mine'[u] = mine[u]
    BY <1>1 DEF Types0
  <1>3. pc'[t] = "idle"
    BY <1>1 DEF Types0
  <1>4. Live' \subseteq Live /\ mine[t] # 0
    BY <1>1, LessLives DEF Ids
  <1>5. Alone' /\ ~wild'
    BY <1>1, <1>2, <1>3 DEF Clean, Alone, InMake
  <1>6. OneInstance'
    BY <1>1, <1>4 DEF Clean, OneInstance
  <1>7. Listing'
    <2>1. \A i, k \in 1 .. Len(comps') : comps'[i] = comps'[k] => i = k
      BY <1>1 DEF Clean, Listing
    <2>2. \A u \in Makers : Making(u) => u # t
      BY <1>1 DEF Making
    <2>3. \A u \in Makers : Making(u)' <=> Making(u)
      BY <1>1, <1>2, <1>3 DEF Making
    <2>4. \A c \in Live' : InList(c)' \/ \E u \in Makers : Making(u)' /\ mine'[u] = c
      BY <1>1, <1>2, <1>4, <2>2, <2>3 DEF Clean, Listing, InList
    <2>5. \A u \in Makers : Making(u)' => ~InList(mine[u])'
      BY <1>1, <1>2, <2>2, <2>3 DEF Clean, Listing, InList
    <2> QED
      BY <2>1, <2>4, <2>5 DEF Listing
  <1>8. Scanning'
    BY <1>1, <1>2, <1>3, <1>4 DEF Clean, Scanning, Walks, InList
  <1>9. Added'
    BY <1>1, <1>2, <1>3 DEF Clean, Added
  <1> QED
    BY <1>5, <1>6, <1>7, <1>8, <1>9 DEF Clean

LEMMA InvNext == IInv /\ [Next]_vars => IInv'
  <1> SUFFICES ASSUME IInv, [Next]_vars PROVE IInv'
    OBVIOUS
  <1>1. Types0 /\ Ids /\ Types0' /\ Ids'
    BY TypesNext DEF IInv
  <1>2. Told'
    BY ToldNext DEF IInv
  <1>3. ASSUME ~overlap' PROVE Clean'
    <2>1. ASSUME NEW t \in Makers, NEW T \in Types, MakeBegin(t, T)
          PROVE  Clean'
      <3>1. overlap' = (overlap \/ \E u \in Makers \ {t} : InMake(u))
        BY <2>1 DEF MakeBegin
      <3>2. ~overlap
        BY <1>3, <3>1, Zenon
      <3> QED
        BY <1>1, <1>3, <2>1, <3>2, BeginClean DEF IInv
    <2>2. ASSUME NEW t \in Makers, ScanWild(t)
          PROVE  Clean'
      BY <1>1, <1>3, <2>2, WildClean DEF IInv, ScanWild
    <2>3. ASSUME NEW t \in Makers, ScanErase(t)
          PROVE  Clean'
      BY <1>1, <1>3, <2>3, EraseClean DEF IInv, ScanErase
    <2>4. ASSUME NEW t \in Makers, ScanThrow(t)
          PROVE  Clean'
      BY <1>1, <1>3, <2>4, ThrowClean DEF IInv, ScanThrow
    <2>5. ASSUME NEW t \in Makers, ScanNext(t)
          PROVE  Clean'
      BY <1>1, <1>3, <2>5, ScanNextClean DEF IInv, ScanNext
    <2>6. ASSUME NEW t \in Makers, ScanExpired(t)
           PROVE  Clean'
      BY <1>1, <1>3, <2>6, ExpiredClean DEF IInv, ScanExpired
    <2>7. ASSUME NEW t \in Makers, ScanLock(t)
           PROVE  Clean'
      BY <1>1, <1>3, <2>7, LockClean DEF IInv, ScanLock
    <2>8. ASSUME NEW t \in Makers, Release(t)
           PROVE  Clean'
      BY <1>1, <1>3, <2>8, ReleaseClean DEF IInv, Release
    <2>9. ASSUME NEW t \in Makers, Construct(t)
          PROVE  Clean'
      BY <1>1, <1>3, <2>9, ConstructClean DEF IInv, Construct
    <2>10. ASSUME NEW t \in Makers, ClsInited(t)
          PROVE  Clean'
      BY <1>1, <1>3, <2>10, ClsInitedClean DEF IInv, ClsInited
    <2>11. ASSUME NEW t \in Makers, SetInited(t)
          PROVE  Clean'
      BY <1>1, <1>3, <2>11, SetInitedClean DEF IInv, SetInited
    <2>12. ASSUME NEW t \in Makers, AddUrc(t)
          PROVE  Clean'
      BY <1>1, <1>3, <2>12, AddUrcClean DEF IInv, AddUrc
    <2>13. ASSUME NEW t \in Makers, Push(t)
           PROVE  Clean'
      BY <1>1, <1>3, <2>13, PushClean DEF IInv, Push
    <2>14. ASSUME NEW t \in Makers, Drop(t)
           PROVE  Clean'
      BY <1>1, <1>3, <2>14, DropClean DEF IInv, Drop
    <2>15. CASE UNCHANGED vars
      <3>1. Clean
        BY <1>3, <2>15 DEF IInv, vars
      <3>2. Live' = Live
        BY <2>15, LiveKept DEF vars, made, walk
      <3>3. Alone' /\ OneInstance' /\ ~wild'
        BY <2>15, <3>1, <3>2 DEF vars, made, walk, Clean, Alone, InMake, OneInstance
      <3>4. Listing'
        BY <2>15, <3>1, <3>2 DEF vars, made, Clean, Listing, Making, InList
      <3>5. Scanning'
        BY <2>15, <3>1, <3>2 DEF vars, made, walk, Clean, Scanning, Walks, InList
      <3>6. Added'
        BY <2>15, <3>1 DEF vars, made, Clean, Added
      <3> QED
        BY <3>3, <3>4, <3>5, <3>6 DEF Clean
    <2> QED
      BY <2>1, <2>2, <2>3, <2>4, <2>5, <2>9, <2>10, <2>11, <2>12, <2>13, <2>14, <2>15,
         <2>6, <2>7, <2>8 DEF Next, Make
  <1> QED
    BY <1>1, <1>3, <1>2 DEF IInv

-----------------------------------------------------------------------------
(* The theorems *)

\* The inductive invariant holds in every run, for any number of threads and
\* of types (make, init and the drop of a component).
THEOREM CplxAtInvariant == Spec => []IInv
  BY InvInit, InvNext, PTL DEF Spec

\* An iterator of make outlives its node only if two threads have been inside make
\* together, and currComp is null only if another thread has let a component die
\* during the walk, whatever the threads do otherwise.
THEOREM CplxAtWalkNeedsQuiet == Spec => []WalkNeedsQuiet
  <1>1. IInv => WalkNeedsQuiet
    BY DEF IInv, Told, Clean, WalkNeedsQuiet
  <1> QED
    BY <1>1, CplxAtInvariant, PTL

\* As long as no thread enters make while another is inside, there is never more
\* than one component of a type, and the URC handler finds the one that make has
\* returned, though others may be dropped at any place of the walk.
THEOREM CplxAtOneInstancePerTurn == Spec => []OneInstancePerTurn
  <1>1. ASSUME IInv, ~overlap, NEW t \in Makers, pc[t] = "holding"
        PROVE  FromUrc(want[t]) = mine[t]
    <2> DEFINE found == {k \in 1 .. Len(comps) :
                            comps[k] \in Live /\ typ[comps[k]] = want[t]}
    <2>1. mine[t] \in Live /\ typ[mine[t]] = want[t]
      BY <1>1 DEF IInv, Ids, Live
    <2>2. \A u \in Makers : Making(u) => mine[u] # mine[t]
      BY <1>1 DEF IInv, Ids, Making
    <2>3. PICK k \in 1 .. Len(comps) : comps[k] = mine[t]
      BY <1>1, <2>1, <2>2 DEF IInv, Clean, Listing, InList
    <2>4. found = {k}
      BY <1>1, <2>1, <2>3 DEF IInv, Clean, Listing, OneInstance
    <2>5. k <= k
      OBVIOUS
    <2>6. (CHOOSE h \in {k} : \A m \in {k} : h <= m) = k
      BY <2>5
    <2>7. FromUrc(want[t]) = comps[CHOOSE h \in {k} : \A m \in {k} : h <= m]
      BY <2>4 DEF FromUrc
    <2> QED
      BY <2>3, <2>6, <2>7
  <1>2. IInv => OneInstancePerTurn
    BY <1>1 DEF IInv, Clean, OneInstancePerTurn
  <1> QED
    BY <1>2, CplxAtInvariant, PTL

\* Then the URCs of a type are in the client's table when its first component
\* is returned, and they are added once.
THEOREM CplxAtUrcsAddedOnce == Spec => []UrcsAddedOnce
  <1>1. IInv => UrcsAddedOnce
    <2> SUFFICES ASSUME IInv, ~overlap PROVE UrcsAddedOnce
      BY DEF UrcsAddedOnce
    <2>1. ASSUME NEW t \in Makers, pc[t] = "holding", want[t] \notin Silent
          PROVE  \E k \in 1 .. Len(table) : table[k] = want[t]
      <3>1. want[t] \in inited
        BY <2>1 DEF IInv, Clean, Added
      <3>2. ASSUME NEW u \in Makers, pc[u] = "urc", want[u] = want[t]
            PROVE  FALSE
        <4>1. mine[t] # 0 /\ mine[u] # 0
          BY <2>1, <3>2 DEF IInv, Ids, Making
        <4>2. mine[t] = mine[u]
          BY <2>1, <3>2, <4>1 DEF IInv, Ids, Clean, OneInstance, Live
        <4> QED
          BY <2>1, <3>2, <4>1, <4>2 DEF IInv, Ids
      <3> QED
        BY <2>1, <3>1, <3>2 DEF IInv, Clean, Added
    <2> QED
      BY <2>1 DEF IInv, Clean, Added, UrcsAddedOnce
  <1> QED
    BY <1>1, CplxAtInvariant, PTL
=============================================================================
