----------------------------- MODULE Urc_proofs -----------------------------
(***************************************************************************)
(* Proofs about Urc, for any threads, types and lines: as long as threads  *)
(* add one after another and rt_realloc finds memory, the parser reads no  *)
(* entry that is freed or unwritten, except between rt_realloc and the     *)
(* assignment of urc_table, and no type that was added is lost; and the    *)
(* fields of a well-formed line reach the parameters they are meant for.   *)
(***************************************************************************)
EXTENDS Urc, SequenceTheorems, FiniteSetTheorems, TLAPS

Block == [allocated : BOOLEAN, entries : Seq(Entries)]

\* A thread that is in at_obj_set_urc_table has a type to add.
WantOK == \A a \in Adders : pc[a] # "idle" => want[a] \in tried

Alone == \A a, b \in Adders : pc[a] # "idle" /\ pc[b] # "idle" => a = b

\* What every line finds.
Whole ==
    /\ \A i \in 1 .. size : Entry(i) # Junk
    /\ size > 0 => /\ table # 0
                   /\ heap[table].allocated \/ \E a \in Adders : pc[a] = "moving"
    /\ \A T \in done : \E i \in 1 .. size : Entry(i) = T

\* What thread a has done so far.
Progress(a) ==
    /\ pc[a] \in {"calloc", "first"} => size = 0
    /\ pc[a] = "first" => /\ table # 0 /\ heap[table].allocated
                          /\ Len(heap[table].entries) = 1
    /\ pc[a] \in {"malloc", "realloc", "moving", "append"} => size > 0
    /\ pc[a] \in {"realloc", "moving", "append"} =>
           old[a] = [i \in 1 .. size |-> Entry(i)]
    /\ pc[a] = "moving" =>
           /\ new[a] \in 1 .. Len(heap)
           /\ heap[new[a]].allocated
           /\ heap[new[a]].entries = [i \in 1 .. size + 1 |->
                                         IF i <= size THEN old[a][i] ELSE Junk]
    /\ pc[a] = "append" => /\ heap[table].allocated
                           /\ Len(heap[table].entries) = size + 1

\* What holds while threads add one after another and there is memory.
Clean == Alone /\ Whole /\ \A a \in Adders : Progress(a)

IInv == TypeOK /\ WantOK /\ (~overlap /\ ~lost => Clean)

-----------------------------------------------------------------------------
(* Blocks and their entries *)

\* A function on 1 .. n is a sequence of length n.
LEMMA FunctionIsSeq ==
    ASSUME NEW S, NEW n \in Nat, NEW f \in [1 .. n -> S]
    PROVE  f \in Seq(S) /\ Len(f) = n
  <1>1. f \in Seq(S)
    BY SeqDef
  <1>2. DOMAIN f = 1 .. Len(f) /\ Len(f) \in Nat
    BY <1>1, LenProperties
  <1>3. DOMAIN f = 1 .. n
    OBVIOUS
  <1> QED
    BY <1>1, <1>2, <1>3

LEMMA TableBlock ==
    ASSUME TypeOK, table # 0
    PROVE  /\ table \in 1 .. Len(heap)
           /\ heap[table] \in Block
           /\ heap[table].entries \in Seq(Entries)
           /\ Len(heap[table].entries) \in Nat
           /\ DOMAIN heap[table].entries = 1 .. Len(heap[table].entries)
  <1>1. heap \in Seq(Block) /\ Len(heap) \in Nat /\ table \in 0 .. Len(heap)
    BY LenProperties DEF TypeOK, Block
  <1>2. table \in 1 .. Len(heap)
    BY <1>1
  <1>3. heap[table] \in Block
    BY <1>1, <1>2, ElementOfSeq
  <1>4. heap[table].entries \in Seq(Entries)
    BY <1>3 DEF Block
  <1> QED
    BY <1>2, <1>3, <1>4, LenProperties

LEMMA EntryType ==
    ASSUME TypeOK, NEW i \in Nat \ {0}
    PROVE  Entry(i) \in Entries
  <1>1. Junk \in Entries
    BY DEF Entries
  <1>2. CASE table # 0 /\ i <= Len(heap[table].entries)
    <2>1. i \in 1 .. Len(heap[table].entries)
      BY <1>2, TableBlock
    <2>2. heap[table].entries[i] \in Entries
      BY <1>2, <2>1, TableBlock, ElementOfSeq
    <2> QED
      BY <1>2, <2>2 DEF Entry
  <1>3. CASE ~(table # 0 /\ i <= Len(heap[table].entries))
    BY <1>1, <1>3 DEF Entry
  <1> QED
    BY <1>2, <1>3

\* A block whose entries are replaced.
LEMMA SetEntries ==
    ASSUME NEW h \in Seq(Block), NEW b \in 1 .. Len(h), NEW es \in Seq(Entries)
    PROVE  /\ [h EXCEPT ![b].entries = es] \in Seq(Block)
           /\ Len([h EXCEPT ![b].entries = es]) = Len(h)
           /\ \A k \in 1 .. Len(h) :
                 [h EXCEPT ![b].entries = es][k] =
                     IF k = b THEN [allocated |-> h[b].allocated, entries |-> es]
                              ELSE h[k]
  <1>1. h[b] \in Block
    BY ElementOfSeq
  <1>2. [h[b] EXCEPT !.entries = es] = [allocated |-> h[b].allocated, entries |-> es]
    <2>1. PICK a \in BOOLEAN, f \in Seq(Entries) : h[b] = [allocated |-> a, entries |-> f]
      BY <1>1 DEF Block
    <2> QED
      BY <2>1
  <1>3. [allocated |-> h[b].allocated, entries |-> es] \in Block
    BY <1>1 DEF Block
  <1>4. [h EXCEPT ![b].entries = es] =
            [h EXCEPT ![b] = [allocated |-> h[b].allocated, entries |-> es]]
    BY <1>2
  <1> QED
    BY <1>3, <1>4, ExceptSeq

\* A block that is freed.
LEMMA SetFreed ==
    ASSUME NEW h \in Seq(Block), NEW b \in 1 .. Len(h)
    PROVE  /\ [h EXCEPT ![b].allocated = FALSE] \in Seq(Block)
           /\ Len([h EXCEPT ![b].allocated = FALSE]) = Len(h)
           /\ \A k \in 1 .. Len(h) :
                 [h EXCEPT ![b].allocated = FALSE][k].entries = h[k].entries
  <1>1. h[b] \in Block
    BY ElementOfSeq
  <1> DEFINE r == [allocated |-> FALSE, entries |-> h[b].entries]
  <1>2. [h[b] EXCEPT !.allocated = FALSE] = r
    <2>1. PICK a \in BOOLEAN, f \in Seq(Entries) : h[b] = [allocated |-> a, entries |-> f]
      BY <1>1 DEF Block
    <2>2. ASSUME NEW v
          PROVE  [h[b] EXCEPT !.allocated = v] = [allocated |-> v, entries |-> h[b].entries]
      BY <2>1
    <2> QED
      BY <2>2, Zenon
  <1>3. r \in Block /\ r.entries = h[b].entries
    BY <1>1 DEF Block
  <1>4. [h EXCEPT ![b].allocated = FALSE] = [h EXCEPT ![b] = r]
    BY <1>2
  <1> HIDE DEF r
  <1>5. /\ [h EXCEPT ![b] = r] \in Seq(Block)
        /\ Len([h EXCEPT ![b] = r]) = Len(h)
        /\ \A k \in 1 .. Len(h) : [h EXCEPT ![b] = r][k] = IF k = b THEN r ELSE h[k]
    BY <1>3, ExceptSeq
  <1> QED
    BY <1>3, <1>4, <1>5

\* Entry i of a table is written, if there is one.
Put(s, i, e) == IF i <= Len(s) THEN [s EXCEPT ![i] = e] ELSE s

LEMMA PutType ==
    ASSUME NEW s \in Seq(Entries), NEW i \in Nat \ {0}, NEW e \in Entries
    PROVE  /\ Put(s, i, e) \in Seq(Entries)
           /\ Len(Put(s, i, e)) = Len(s)
           /\ \A k \in 1 .. Len(s) : Put(s, i, e)[k] = IF k = i THEN e ELSE s[k]
  <1>1. Len(s) \in Nat
    BY LenProperties
  <1>2. CASE i <= Len(s)
    <2>1. i \in 1 .. Len(s)
      BY <1>1, <1>2
    <2> QED
      BY <1>2, <2>1, ExceptSeq DEF Put
  <1>3. CASE ~(i <= Len(s))
    BY <1>1, <1>3 DEF Put
  <1> QED
    BY <1>2, <1>3

LEMMA WrittenIsPut ==
    ASSUME NEW h \in Seq(Block), table \in 1 .. Len(h), NEW i, NEW e
    PROVE  Written(h, i, e) = [h EXCEPT ![table].entries = Put(h[table].entries, i, e)]
  <1>1. h[table] \in Block /\ table # 0
    BY ElementOfSeq, LenProperties
  <1>2. CASE i <= Len(h[table].entries)
    BY <1>1, <1>2 DEF Written, Put
  <1>3. CASE ~(i <= Len(h[table].entries))
    <2>1. [h[table] EXCEPT !.entries = h[table].entries] = h[table]
      <3>1. PICK b \in BOOLEAN, f \in Seq(Entries) :
                h[table] = [allocated |-> b, entries |-> f]
        BY <1>1 DEF Block
      <3> QED
        BY <3>1
    <2>2. [h EXCEPT ![table] = h[table]] = h
      OBVIOUS
    <2> QED
      BY <1>1, <1>3, <2>1, <2>2 DEF Written, Put
  <1> QED
    BY <1>2, <1>3

\* The entries after a reallocation of n entries.
LEMMA GrownType ==
    ASSUME TypeOK, NEW n \in Nat
    PROVE  /\ Grown(n) \in Seq(Entries) /\ Len(Grown(n)) = n + 1
           /\ \A i \in 1 .. n + 1 : Grown(n)[i] = IF i <= n THEN Entry(i) ELSE Junk
  <1>1. Grown(n) \in [1 .. n + 1 -> Entries]
    BY EntryType DEF Grown, Entries
  <1>2. n + 1 \in Nat
    OBVIOUS
  <1> QED
    BY <1>1, <1>2, FunctionIsSeq DEF Grown

-----------------------------------------------------------------------------
(* Every step keeps the types *)

\* The types of what a thread keeps, with respect to a heap of n blocks.
AdderOK(n) ==
    /\ pc \in [Adders -> Places] /\ want \in [Adders -> Types \cup {Nothing}]
    /\ old \in [Adders -> Seq(Entries)]
    /\ new \in [Adders -> Nat] /\ \A a \in Adders : new[a] <= n

LEMMA TypeParts ==
    TypeOK <=> /\ heap \in Seq(Block)
               /\ table \in 0 .. Len(heap) /\ size \in Nat
               /\ AdderOK(Len(heap))
               /\ order \in {"leftToRight", "rightToLeft"}
               /\ got.outcome \in Outcomes
               /\ tried \subseteq Types /\ done \subseteq tried
               /\ overlap \in BOOLEAN /\ lost \in BOOLEAN
  BY DEF TypeOK, Block, AdderOK

LEMMA NextTypeParts ==
    /\ heap' \in Seq(Block)
    /\ table' \in 0 .. Len(heap') /\ size' \in Nat
    /\ AdderOK(Len(heap))'
    /\ order' \in {"leftToRight", "rightToLeft"}
    /\ got'.outcome \in Outcomes
    /\ tried' \subseteq Types /\ done' \subseteq tried'
    /\ overlap' \in BOOLEAN /\ lost' \in BOOLEAN
    => TypeOK'
  BY DEF TypeOK, Block, AdderOK

LEMMA LeaveType ==
    ASSUME TypeOK, NEW a \in Adders, Leave(a), Len(heap') = Len(heap)
    PROVE  AdderOK(Len(heap))'
  <1>1. Len(heap) \in Nat /\ AdderOK(Len(heap))
    BY LenProperties, TypeParts DEF TypeOK
  <1>2. <<>> \in Seq(Entries)
    BY EmptySeq
  <1> QED
    BY <1>1, <1>2 DEF Leave, AdderOK, Places

\* A block is added at the end of the heap.
LEMMA AddBlock ==
    ASSUME NEW h \in Seq(Block), NEW es \in Seq(Entries)
    PROVE  LET b == [allocated |-> TRUE, entries |-> es]
               g == Append(h, b)
           IN  /\ g \in Seq(Block) /\ Len(g) = Len(h) + 1 /\ Len(h) \in Nat
               /\ \A k \in 1 .. Len(h) : g[k] = h[k]
               /\ g[Len(h) + 1].allocated /\ g[Len(h) + 1].entries = es
  <1> DEFINE b == [allocated |-> TRUE, entries |-> es]
  <1>1. b \in Block /\ b.allocated /\ b.entries = es
    BY DEF Block
  <1> HIDE DEF b
  <1>2. /\ Append(h, b) \in Seq(Block) /\ Len(Append(h, b)) = Len(h) + 1
        /\ \A k \in 1 .. Len(h) : Append(h, b)[k] = h[k]
        /\ Append(h, b)[Len(h) + 1] = b /\ Len(h) \in Nat
    BY <1>1, AppendProperties, LenProperties
  <1> QED
    BY <1>1, <1>2 DEF b

LEMMA CallocEffect ==
    ASSUME TypeOK, NEW a \in Adders, Calloc(a)
    PROVE  /\ heap' \in Seq(Block) /\ Len(heap') = Len(heap) + 1
           /\ table' = Len(heap') /\ heap'[table'].allocated
           /\ heap'[table'].entries = <<Nothing>>
  <1>1. heap \in Seq(Block)
    BY TypeParts
  <1>2. <<Nothing>> \in Seq(Entries)
    BY DEF Entries
  <1> DEFINE g == Append(heap, [allocated |-> TRUE, entries |-> <<Nothing>>])
  <1>3. /\ g \in Seq(Block) /\ Len(g) = Len(heap) + 1 /\ Len(heap) \in Nat
        /\ g[Len(heap) + 1].allocated /\ g[Len(heap) + 1].entries = <<Nothing>>
    BY <1>1, <1>2, AddBlock
  <1>4. heap' = g /\ table' = Len(heap')
    BY DEF Calloc
  <1> HIDE DEF g
  <1> QED
    BY <1>3, <1>4

LEMMA ReallocEffect ==
    ASSUME TypeOK, NEW a \in Adders, Realloc(a)
    PROVE  /\ heap' \in Seq(Block) /\ Len(heap') = Len(heap) + 1
           /\ \A k \in 1 .. Len(heap) : heap'[k].entries = heap[k].entries
           /\ new' = [new EXCEPT ![a] = Len(heap')]
           /\ heap'[Len(heap')].allocated
           /\ heap'[Len(heap')].entries = Grown(Len(old[a]))
  <1> DEFINE h == IF table = 0 THEN heap ELSE [heap EXCEPT ![table].allocated = FALSE]
  <1>1. /\ h \in Seq(Block) /\ Len(h) = Len(heap) /\ Len(heap) \in Nat
        /\ \A k \in 1 .. Len(heap) : h[k].entries = heap[k].entries
    BY TypeParts, TableBlock, SetFreed, LenProperties
  <1>2. old[a] \in Seq(Entries)
    BY TypeParts DEF AdderOK
  <1>3. Grown(Len(old[a])) \in Seq(Entries)
    BY <1>2, LenProperties, GrownType
  <1>4. heap' = Append(h, [allocated |-> TRUE, entries |-> Grown(Len(old[a]))])
    BY DEF Realloc
  <1> HIDE DEF h
  <1>5. new' = [new EXCEPT ![a] = Len(heap')]
    BY DEF Realloc
  <1> QED
    BY <1>1, <1>3, <1>4, <1>5, AddBlock

LEMMA InPlaceEffect ==
    ASSUME TypeOK, NEW a \in Adders, ReallocInPlace(a)
    PROVE  /\ heap' \in Seq(Block) /\ Len(heap') = Len(heap)
           /\ table \in 1 .. Len(heap)
           /\ (heap[table].allocated => heap'[table].allocated)
           /\ heap'[table].entries = Grown(Len(old[a]))
  <1>1. heap \in Seq(Block) /\ table \in 1 .. Len(heap)
    BY TypeParts, TableBlock DEF ReallocInPlace
  <1>2. old[a] \in Seq(Entries)
    BY TypeParts DEF AdderOK
  <1>3. Grown(Len(old[a])) \in Seq(Entries)
    BY <1>2, LenProperties, GrownType
  <1>4. heap' = [heap EXCEPT ![table].entries = Grown(Len(old[a]))]
    BY DEF ReallocInPlace
  <1>5. /\ heap' \in Seq(Block) /\ Len(heap') = Len(heap)
        /\ heap'[table] = [allocated |-> heap[table].allocated,
                           entries |-> Grown(Len(old[a]))]
    BY <1>1, <1>3, <1>4, SetEntries
  <1> QED
    BY <1>1, <1>5

\* What fills the table: the old entries, and the new one behind them.
LEMMA FillInEffect ==
    ASSUME TypeOK, NEW a \in Adders, FillIn(a), want[a] \in Types
    PROVE  /\ heap' \in Seq(Block) /\ Len(heap') = Len(heap)
           /\ table # 0 =>
                 /\ (heap[table].allocated => heap'[table].allocated)
                 /\ Len(heap'[table].entries) = Len(heap[table].entries)
                 /\ \A k \in 1 .. Len(heap[table].entries) :
                       heap'[table].entries[k] =
                           IF k = size + 1 THEN want[a]
                           ELSE IF k <= Len(old[a]) THEN old[a][k]
                           ELSE heap[table].entries[k]
  <1>1. heap \in Seq(Block) /\ size \in Nat /\ want[a] \in Entries
        /\ table \in 0 .. Len(heap)
    BY TypeParts DEF Entries
  <1>2. CASE table = 0
    BY <1>1, <1>2 DEF FillIn
  <1>3. CASE table # 0
    <2>1. /\ table \in 1 .. Len(heap)
          /\ heap[table].entries \in Seq(Entries)
          /\ Len(heap[table].entries) \in Nat
          /\ DOMAIN heap[table].entries = 1 .. Len(heap[table].entries)
      BY <1>3, TableBlock
    <2>2. old[a] \in Seq(Entries) /\ Len(old[a]) \in Nat
      BY TypeParts, LenProperties DEF AdderOK
    <2> DEFINE es == [i \in DOMAIN heap[table].entries |->
                         IF i <= Len(old[a]) THEN old[a][i] ELSE heap[table].entries[i]]
    <2>3. ASSUME NEW i \in 1 .. Len(heap[table].entries)
          PROVE  (IF i <= Len(old[a]) THEN old[a][i] ELSE heap[table].entries[i]) \in Entries
      <3>1. i <= Len(old[a]) => i \in 1 .. Len(old[a])
        BY <2>2
      <3>2. heap[table].entries[i] \in Entries
        BY <2>1, ElementOfSeq
      <3> QED
        BY <2>2, <3>1, <3>2, ElementOfSeq
    <2>4. es \in [1 .. Len(heap[table].entries) -> Entries]
      BY <2>1, <2>3
    <2>5. es \in Seq(Entries) /\ Len(es) = Len(heap[table].entries)
      BY <2>1, <2>4, FunctionIsSeq
    <2>6. \A i \in 1 .. Len(heap[table].entries) :
             es[i] = IF i <= Len(old[a]) THEN old[a][i] ELSE heap[table].entries[i]
      BY <2>1
    <2> DEFINE ps == Put(es, size + 1, want[a])
    <2>7. es \in Seq(Entries) => heap' = [heap EXCEPT ![table].entries = ps]
      <3> DEFINE h == [heap EXCEPT ![table].entries = es]
      <3>1. heap' = Written(h, size + 1, want[a])
        BY <1>3 DEF FillIn
      <3> HIDE DEF es
      <3> SUFFICES ASSUME es \in Seq(Entries)
                   PROVE  heap' = [heap EXCEPT ![table].entries = ps]
        OBVIOUS
      <3>2. /\ h \in Seq(Block) /\ Len(h) = Len(heap)
            /\ h[table] = [allocated |-> heap[table].allocated, entries |-> es]
        BY <1>1, <2>1, SetEntries
      <3> HIDE DEF h
      <3>3. heap' = [h EXCEPT ![table].entries = Put(h[table].entries, size + 1, want[a])]
        BY <2>1, <3>1, <3>2, WrittenIsPut
      <3>4. h[table].entries = es
        BY <3>2
      <3>5. heap' = [h EXCEPT ![table].entries = ps]
        BY <3>3, <3>4
      <3> HIDE DEF ps
      <3>6. PICK b \in BOOLEAN, f \in Seq(Entries) :
                heap[table] = [allocated |-> b, entries |-> f]
        BY <1>3, TableBlock DEF Block
      <3> QED
        BY <1>1, <2>1, <3>5, <3>6 DEF h
    <2> HIDE DEF es
    <2>8. /\ ps \in Seq(Entries) /\ Len(ps) = Len(es)
          /\ \A k \in 1 .. Len(es) : ps[k] = IF k = size + 1 THEN want[a] ELSE es[k]
      <3>1. size + 1 \in Nat \ {0} /\ want[a] \in Entries
        BY <1>1
      <3>2. ASSUME NEW i \in Nat \ {0}, NEW e \in Entries
            PROVE  /\ Put(es, i, e) \in Seq(Entries) /\ Len(Put(es, i, e)) = Len(es)
                   /\ \A k \in 1 .. Len(es) : Put(es, i, e)[k] = IF k = i THEN e ELSE es[k]
        BY <2>5, PutType
      <3> QED
        BY <3>1, <3>2
    <2> HIDE DEF ps
    <2>9. /\ heap' \in Seq(Block) /\ Len(heap') = Len(heap)
          /\ heap'[table] = [allocated |-> heap[table].allocated, entries |-> ps]
      <3>1. heap' = [heap EXCEPT ![table].entries = ps]
        BY <2>5, <2>7
      <3>2. heap \in Seq(Block) /\ table \in 1 .. Len(heap) /\ ps \in Seq(Entries)
        BY <1>1, <2>1, <2>8
      <3> QED
        BY <3>1, <3>2, SetEntries
    <2>10. heap'[table].entries = ps /\ (heap[table].allocated => heap'[table].allocated)
      BY <2>9
    <2> QED
      BY <2>5, <2>6, <2>8, <2>9, <2>10
  <1> QED
    BY <1>2, <1>3

LEMMA FirstEffect ==
    ASSUME TypeOK, NEW a \in Adders, First(a), want[a] \in Types
    PROVE  /\ heap' \in Seq(Block) /\ Len(heap') = Len(heap)
           /\ table # 0 =>
                 /\ (heap[table].allocated => heap'[table].allocated)
                 /\ Len(heap'[table].entries) = Len(heap[table].entries)
                 /\ \A k \in 1 .. Len(heap[table].entries) :
                       heap'[table].entries[k] =
                           IF k = 1 THEN want[a] ELSE heap[table].entries[k]
  <1>1. heap \in Seq(Block) /\ want[a] \in Entries /\ table \in 0 .. Len(heap)
    BY TypeParts DEF Entries
  <1>2. CASE table = 0
    BY <1>1, <1>2 DEF First, Written
  <1>3. CASE table # 0
    <2> DEFINE ps == Put(heap[table].entries, 1, want[a])
    <2>1. table \in 1 .. Len(heap) /\ heap[table].entries \in Seq(Entries)
      BY <1>3, TableBlock
    <2>2. heap' = Written(heap, 1, want[a])
      BY DEF First
    <2>3. heap' = [heap EXCEPT ![table].entries = ps]
      BY <1>1, <2>1, <2>2, WrittenIsPut
    <2>4. /\ ps \in Seq(Entries) /\ Len(ps) = Len(heap[table].entries)
          /\ \A k \in 1 .. Len(heap[table].entries) :
                ps[k] = IF k = 1 THEN want[a] ELSE heap[table].entries[k]
      <3>1. 1 \in Nat \ {0}
        OBVIOUS
      <3>2. ASSUME NEW i \in Nat \ {0}, NEW e \in Entries, NEW es \in Seq(Entries)
            PROVE  /\ Put(es, i, e) \in Seq(Entries) /\ Len(Put(es, i, e)) = Len(es)
                   /\ \A k \in 1 .. Len(es) : Put(es, i, e)[k] = IF k = i THEN e ELSE es[k]
        BY PutType
      <3> QED
        BY <1>1, <2>1, <3>1, <3>2
    <2> HIDE DEF ps
    <2>5. /\ heap' \in Seq(Block) /\ Len(heap') = Len(heap)
          /\ heap'[table] = [allocated |-> heap[table].allocated, entries |-> ps]
      BY <1>1, <2>1, <2>3, <2>4, SetEntries
    <2>6. heap'[table].entries = ps /\ (heap[table].allocated => heap'[table].allocated)
      BY <2>5
    <2> QED
      BY <2>4, <2>5, <2>6
  <1> QED
    BY <1>2, <1>3

LEMMA TypeInit == Init => TypeOK /\ WantOK
  <1> SUFFICES ASSUME Init PROVE TypeOK /\ WantOK
    OBVIOUS
  <1>1. <<>> \in Seq(Block) /\ Len(<<>>) = 0 /\ <<>> \in Seq(Entries)
    BY EmptySeq
  <1>2. AdderOK(0) /\ WantOK
    BY <1>1 DEF Init, AdderOK, WantOK, Places
  <1>3. AdderOK(Len(heap)) /\ heap \in Seq(Block) /\ table \in 0 .. Len(heap)
    BY <1>1, <1>2 DEF Init
  <1>4. got.outcome \in Outcomes /\ size \in Nat
    BY DEF Init, Waiting, Outcomes
  <1>5. tried \subseteq Types /\ done \subseteq tried /\ overlap \in BOOLEAN /\ lost \in BOOLEAN
    BY DEF Init
  <1>6. order \in {"leftToRight", "rightToLeft"}
    BY DEF Init
  <1> QED
    BY <1>2, <1>3, <1>4, <1>5, <1>6, TypeParts

LEMMA LineType ==
    ASSUME NEW line \in Lines, NEW alive \in BOOLEAN, Line(line, alive)
    PROVE  got'.outcome \in Outcomes
  BY DEF Line, Handled, Outcomes

LEMMA TypeNext == TypeOK /\ WantOK /\ [Next]_vars => TypeOK' /\ WantOK'
  <1> SUFFICES ASSUME TypeOK, WantOK, [Next]_vars PROVE TypeOK' /\ WantOK'
    OBVIOUS
  <1>1. /\ heap \in Seq(Block) /\ Len(heap) \in Nat
        /\ table \in 0 .. Len(heap) /\ size \in Nat
        /\ AdderOK(Len(heap))
        /\ order \in {"leftToRight", "rightToLeft"}
        /\ got.outcome \in Outcomes
        /\ tried \subseteq Types /\ done \subseteq tried
        /\ overlap \in BOOLEAN /\ lost \in BOOLEAN
    BY TypeParts, LenProperties
  <1>2. ASSUME NEW a \in Adders, NEW T \in Types, Enter(a, T)
        PROVE  TypeOK' /\ WantOK'
    <2>1. AdderOK(Len(heap))' /\ WantOK'
      BY <1>1, <1>2 DEF Enter, AdderOK, WantOK, Places, client
    <2> QED
      BY <1>1, <1>2, <2>1, NextTypeParts DEF Enter, client
  <1>3. ASSUME NEW a \in Adders, Calloc(a)
        PROVE  TypeOK' /\ WantOK'
    <2>1. heap' \in Seq(Block) /\ Len(heap') = Len(heap) + 1 /\ table' = Len(heap')
      BY <1>3, CallocEffect
    <2>2. AdderOK(Len(heap))' /\ WantOK'
      BY <1>1, <1>3, <2>1 DEF Calloc, AdderOK, WantOK, Places
    <2> QED
      BY <1>1, <1>3, <2>1, <2>2, NextTypeParts DEF Calloc
  <1>4. ASSUME NEW a \in Adders, Leave(a)
        PROVE  tried' = tried => WantOK'
    BY <1>1, <1>4 DEF Leave, WantOK, AdderOK
  <1>5. ASSUME NEW a \in Adders, First(a)
        PROVE  TypeOK' /\ WantOK'
    <2>1. want[a] \in Types /\ want[a] \in tried
      BY <1>1, <1>5 DEF WantOK, First
    <2>2. heap' \in Seq(Block) /\ Len(heap') = Len(heap)
      BY <1>5, <2>1, FirstEffect
    <2>3. AdderOK(Len(heap))' /\ WantOK'
      BY <1>4, <1>5, <2>2, LeaveType DEF First
    <2> QED
      BY <1>1, <1>5, <2>1, <2>2, <2>3, NextTypeParts DEF First
  <1>6. ASSUME NEW a \in Adders, NoMemory(a)
        PROVE  TypeOK' /\ WantOK'
    <2>1. AdderOK(Len(heap))' /\ WantOK'
      BY <1>4, <1>6, LeaveType DEF NoMemory
    <2> QED
      BY <1>1, <1>6, <2>1, NextTypeParts DEF NoMemory
  <1>7. ASSUME NEW a \in Adders, Copy(a)
        PROVE  TypeOK' /\ WantOK'
    <2>1. [i \in 1 .. size |-> Entry(i)] \in Seq(Entries)
      <3>1. [i \in 1 .. size |-> Entry(i)] \in [1 .. size -> Entries]
        BY <1>1, EntryType
      <3> QED
        BY <1>1, <3>1, FunctionIsSeq
    <2>2. AdderOK(Len(heap))' /\ WantOK'
      BY <1>1, <1>7, <2>1 DEF Copy, AdderOK, WantOK, Places, client
    <2> QED
      BY <1>1, <1>7, <2>2, NextTypeParts DEF Copy, client
  <1>8. ASSUME NEW a \in Adders, Realloc(a)
        PROVE  TypeOK' /\ WantOK'
    <2>1. /\ heap' \in Seq(Block) /\ Len(heap') = Len(heap) + 1
          /\ new' = [new EXCEPT ![a] = Len(heap')]
      BY <1>8, ReallocEffect
    <2>2. AdderOK(Len(heap))' /\ WantOK'
      BY <1>1, <1>8, <2>1 DEF Realloc, AdderOK, WantOK, Places
    <2> QED
      BY <1>1, <1>8, <2>1, <2>2, NextTypeParts DEF Realloc
  <1>9. ASSUME NEW a \in Adders, ReallocInPlace(a)
        PROVE  TypeOK' /\ WantOK'
    <2>1. heap' \in Seq(Block) /\ Len(heap') = Len(heap) /\ table \in 1 .. Len(heap)
      BY <1>9, InPlaceEffect
    <2>2. AdderOK(Len(heap))' /\ WantOK'
      BY <1>1, <1>9, <2>1 DEF ReallocInPlace, AdderOK, WantOK, Places
    <2> QED
      BY <1>1, <1>9, <2>1, <2>2, NextTypeParts DEF ReallocInPlace
  <1>10. ASSUME NEW a \in Adders, ReallocFails(a)
         PROVE  TypeOK' /\ WantOK'
    <2>1. AdderOK(Len(heap))' /\ WantOK'
      BY <1>4, <1>10, LeaveType DEF ReallocFails
    <2> QED
      BY <1>1, <1>10, <2>1, NextTypeParts DEF ReallocFails
  <1>11. ASSUME NEW a \in Adders, Assign(a)
         PROVE  TypeOK' /\ WantOK'
    <2>1. AdderOK(Len(heap))' /\ WantOK' /\ new[a] \in 0 .. Len(heap)
      BY <1>1, <1>11 DEF Assign, AdderOK, WantOK, Places
    <2> QED
      BY <1>1, <1>11, <2>1, NextTypeParts DEF Assign
  <1>12. ASSUME NEW a \in Adders, FillIn(a)
         PROVE  TypeOK' /\ WantOK'
    <2>1. want[a] \in Types /\ want[a] \in tried
      BY <1>1, <1>12 DEF WantOK, FillIn
    <2>2. heap' \in Seq(Block) /\ Len(heap') = Len(heap)
      BY <1>12, <2>1, FillInEffect
    <2>3. AdderOK(Len(heap))' /\ WantOK'
      BY <1>4, <1>12, <2>2, LeaveType DEF FillIn
    <2> QED
      BY <1>1, <1>12, <2>1, <2>2, <2>3, NextTypeParts DEF FillIn
  <1>13. ASSUME UNCHANGED <<client, adder, order, tried, done, overlap, lost>>,
                got'.outcome \in Outcomes
         PROVE  TypeOK' /\ WantOK'
    <2>1. AdderOK(Len(heap))' /\ WantOK'
      BY <1>1, <1>13 DEF AdderOK, WantOK, client, adder
    <2> QED
      BY <1>1, <1>13, <2>1, NextTypeParts DEF client, adder
  <1>14. ASSUME NEW line \in Lines, NEW alive \in BOOLEAN, Line(line, alive)
         PROVE  TypeOK' /\ WantOK'
    BY <1>13, <1>14, LineType DEF Line
  <1>15. CASE Return
    BY <1>13, <1>15 DEF Return, Waiting, Outcomes
  <1>16. CASE UNCHANGED vars
    BY <1>1, <1>13, <1>16 DEF vars
  <1> QED
    BY <1>2, <1>3, <1>5, <1>6, <1>7, <1>8, <1>9, <1>10, <1>11, <1>12, <1>14,
       <1>15, <1>16 DEF Next

-----------------------------------------------------------------------------
(* The table while threads add one after another and there is memory *)

\* What thread a copied is what the table holds.
LEMMA OldEntries ==
    ASSUME TypeOK, NEW a \in Adders, Progress(a),
           pc[a] \in {"realloc", "moving", "append"}
    PROVE  /\ Len(old[a]) = size
           /\ \A i \in 1 .. size : old[a][i] = Entry(i)
  <1>1. size \in Nat /\ old[a] = [i \in 1 .. size |-> Entry(i)]
    BY TypeParts DEF Progress
  <1>2. old[a] \in [1 .. size -> Entries]
    BY <1>1, EntryType
  <1>3. Len(old[a]) = size
    BY <1>1, <1>2, FunctionIsSeq
  <1> QED
    BY <1>1, <1>3

\* As long as one thread at most is adding, it alone makes progress.
LEMMA OneAdds ==
    ASSUME TypeOK, Alone, NEW a \in Adders, pc[a] # "idle",
           NEW p, pc' = [pc EXCEPT ![a] = p], Progress(a)'
    PROVE  Alone' /\ \A b \in Adders : Progress(b)'
  <1>1. \A b \in Adders : b # a => pc'[b] = "idle"
    BY TypeParts DEF Alone, AdderOK
  <1>2. \A b \in Adders : pc'[b] = "idle" => Progress(b)'
    BY DEF Progress
  <1> QED
    BY <1>1, <1>2 DEF Alone

\* When it leaves, none is adding.
LEMMA NoneAdds ==
    ASSUME TypeOK, Alone, NEW a \in Adders, pc[a] # "idle", Leave(a)
    PROVE  Alone' /\ \A b \in Adders : Progress(b)'
  <1>1. \A b \in Adders : pc'[b] = "idle"
    BY TypeParts DEF Alone, AdderOK, Leave
  <1> QED
    BY <1>1 DEF Alone, Progress

\* The table is the same when the block is, whatever thread a goes on to do.
LEMMA SameTable ==
    ASSUME TypeOK, Whole, Alone, NEW a \in Adders, pc[a] \notin {"idle", "moving"},
           heap' = heap, table' = table, size' = size, done' = done
    PROVE  Whole'
  <1>1. \A b \in Adders : pc[b] # "moving"
    BY DEF Alone
  <1> QED
    BY <1>1 DEF Whole, Entry

LEMMA EnterClean ==
    ASSUME TypeOK, Clean, NEW a \in Adders, NEW T \in Types, Enter(a, T), ~overlap'
    PROVE  Clean'
  <1>1. \A b \in Adders : pc[b] = "idle"
    BY DEF Enter
  <1>2. /\ pc' = [pc EXCEPT ![a] = IF size = 0 THEN "calloc" ELSE "malloc"]
        /\ heap' = heap /\ table' = table /\ size' = size /\ done' = done
    BY DEF Enter, client
  <1>3. \A b \in Adders : b # a => pc'[b] = "idle"
    BY <1>1, <1>2, TypeParts DEF AdderOK
  <1>4. pc'[a] = IF size = 0 THEN "calloc" ELSE "malloc"
    BY <1>2, TypeParts DEF AdderOK
  <1>5. Alone'
    BY <1>3 DEF Alone
  <1>6. Whole'
    BY <1>1, <1>2 DEF Clean, Whole, Entry
  <1>7. \A b \in Adders : Progress(b)'
    BY <1>2, <1>3, <1>4, TypeParts DEF Progress
  <1> QED
    BY <1>5, <1>6, <1>7 DEF Clean

LEMMA CallocClean ==
    ASSUME TypeOK, Clean, NEW a \in Adders, Calloc(a)
    PROVE  Clean'
  <1>1. size = 0 /\ size' = 0 /\ done' = done /\ pc[a] # "idle"
    BY DEF Clean, Progress, Calloc
  <1>2. Len(heap) \in Nat /\ table' # 0 /\ heap'[table'].allocated
        /\ Len(heap'[table'].entries) = 1
    <2>1. Len(heap) \in Nat
      BY LenProperties, TypeParts
    <2>2. /\ Len(heap') = Len(heap) + 1 /\ table' = Len(heap')
          /\ heap'[table'].allocated /\ heap'[table'].entries = <<Nothing>>
      BY CallocEffect
    <2>3. Len(<<Nothing>>) = 1
      OBVIOUS
    <2> QED
      BY <2>1, <2>2, <2>3
  <1>3. pc' = [pc EXCEPT ![a] = "first"] /\ pc'[a] = "first"
    BY TypeParts DEF Calloc, AdderOK
  <1>4. Progress(a)'
    BY <1>1, <1>2, <1>3 DEF Progress
  <1>5. Alone' /\ \A b \in Adders : Progress(b)'
    BY <1>1, <1>3, <1>4, OneAdds DEF Clean
  <1>6. Whole'
    BY <1>1 DEF Clean, Whole
  <1> QED
    BY <1>5, <1>6 DEF Clean

LEMMA FirstClean ==
    ASSUME TypeOK, WantOK, Clean, NEW a \in Adders, First(a)
    PROVE  Clean'
  <1>1. /\ size = 0 /\ table # 0 /\ heap[table].allocated
        /\ Len(heap[table].entries) = 1 /\ pc[a] # "idle"
    BY DEF Clean, Progress, First
  <1>2. want[a] \in Types
    BY TypeParts DEF WantOK, First
  <1>3. /\ heap'[table].allocated /\ Len(heap'[table].entries) = 1
        /\ heap'[table].entries[1] = want[a]
    BY <1>1, <1>2, FirstEffect
  <1>4. size' = 1 /\ table' = table /\ done' = done \cup {want[a]}
    BY <1>1 DEF First
  <1>5. Entry(1)' = want[a]
    BY <1>1, <1>3, <1>4 DEF Entry
  <1>6. done = {}
    BY <1>1 DEF Clean, Whole
  <1>7. want[a] # Junk
    BY <1>2, UrcAssumption
  <1>8. Whole'
    BY <1>1, <1>3, <1>4, <1>5, <1>6, <1>7 DEF Whole
  <1> QED
    BY <1>1, <1>8, NoneAdds DEF Clean, First

LEMMA NoMemoryClean ==
    ASSUME TypeOK, Clean, NEW a \in Adders, NoMemory(a)
    PROVE  Clean'
  <1>1. pc[a] \notin {"idle", "moving"} /\ heap' = heap /\ size' = size /\ done' = done
    BY DEF NoMemory
  <1>2. CASE pc[a] = "calloc"
    <2>1. size = 0
      BY <1>2 DEF Clean, Progress
    <2>2. Whole'
      BY <1>1, <2>1 DEF Clean, Whole
    <2> QED
      BY <1>1, <2>2, NoneAdds DEF Clean, NoMemory
  <1>3. CASE pc[a] # "calloc"
    <2>1. Whole'
      BY <1>1, <1>3, SameTable DEF Clean, NoMemory
    <2> QED
      BY <1>1, <2>1, NoneAdds DEF Clean, NoMemory
  <1> QED
    BY <1>2, <1>3

LEMMA CopyClean ==
    ASSUME TypeOK, Clean, NEW a \in Adders, Copy(a)
    PROVE  Clean'
  <1>1. /\ pc[a] \notin {"idle", "moving"} /\ size > 0
        /\ heap' = heap /\ table' = table /\ size' = size /\ done' = done
    BY DEF Copy, client, Clean, Progress
  <1>2. /\ pc' = [pc EXCEPT ![a] = "realloc"] /\ pc'[a] = "realloc"
        /\ old'[a] = [i \in 1 .. size |-> Entry(i)]
    BY TypeParts DEF Copy, AdderOK
  <1>3. [i \in 1 .. size |-> Entry(i)]' = [i \in 1 .. size |-> Entry(i)]
    BY <1>1 DEF Entry
  <1>4. Progress(a)'
    BY <1>1, <1>2, <1>3 DEF Progress
  <1>5. Whole'
    BY <1>1, SameTable DEF Clean
  <1> QED
    BY <1>1, <1>2, <1>4, <1>5, OneAdds DEF Clean

\* The entries after a reallocation are those of the table.
LEMMA GrownEntries ==
    ASSUME TypeOK, NEW a \in Adders, Progress(a), pc[a] = "realloc"
    PROVE  Grown(Len(old[a])) = [i \in 1 .. size + 1 |-> IF i <= size THEN old[a][i]
                                                                      ELSE Junk]
  <1>1. Len(old[a]) = size /\ size \in Nat /\ \A i \in 1 .. size : old[a][i] = Entry(i)
    BY OldEntries, TypeParts
  <1>2. \A i \in 1 .. size + 1 : (IF i <= size THEN Entry(i) ELSE Junk)
                                 = (IF i <= size THEN old[a][i] ELSE Junk)
    BY <1>1
  <1> QED
    BY <1>1, <1>2 DEF Grown

LEMMA ReallocClean ==
    ASSUME TypeOK, Clean, NEW a \in Adders, Realloc(a)
    PROVE  Clean'
  <1>1. /\ pc[a] = "realloc" /\ size > 0 /\ size \in Nat /\ table # 0
        /\ table' = table /\ size' = size /\ done' = done /\ old' = old
    BY TypeParts DEF Realloc, Clean, Progress, Whole
  <1>2. table \in 1 .. Len(heap) /\ Len(heap) \in Nat /\ Len(heap') = Len(heap) + 1
    BY <1>1, TableBlock, LenProperties, TypeParts, ReallocEffect
  <1>3. heap'[table].entries = heap[table].entries
    BY <1>2, ReallocEffect
  <1>4. \A i \in Nat : Entry(i)' = Entry(i)
    BY <1>1, <1>3 DEF Entry
  <1>5. pc' = [pc EXCEPT ![a] = "moving"] /\ pc'[a] = "moving" /\ new'[a] = Len(heap')
    BY ReallocEffect, TypeParts DEF Realloc, AdderOK
  <1>6. /\ heap'[new'[a]].allocated
        /\ heap'[new'[a]].entries = Grown(Len(old[a]))
    BY <1>5, ReallocEffect
  <1>7. old[a] = [i \in 1 .. size |-> Entry(i)]
    BY <1>1 DEF Clean, Progress
  <1>8. old'[a] = [i \in 1 .. size |-> Entry(i)]'
    BY <1>1, <1>4, <1>7
  <1>9. heap'[new'[a]].entries = [i \in 1 .. size + 1 |-> IF i <= size THEN old[a][i]
                                                                      ELSE Junk]
    BY <1>1, <1>6, GrownEntries DEF Clean
  <1>10. Progress(a)'
    BY <1>1, <1>2, <1>5, <1>6, <1>8, <1>9 DEF Progress
  <1>11. Whole'
    BY <1>1, <1>4, <1>5 DEF Clean, Whole
  <1> QED
    BY <1>1, <1>5, <1>10, <1>11, OneAdds DEF Clean

LEMMA InPlaceClean ==
    ASSUME TypeOK, Clean, NEW a \in Adders, ReallocInPlace(a)
    PROVE  Clean'
  <1>1. /\ pc[a] = "realloc" /\ size > 0 /\ size \in Nat /\ table # 0
        /\ table' = table /\ size' = size /\ done' = done /\ old' = old
        /\ new' = [new EXCEPT ![a] = table]
    BY TypeParts DEF ReallocInPlace, Clean, Progress, Whole
  <1>2. table \in 1 .. Len(heap) /\ Len(heap') = Len(heap)
    BY InPlaceEffect
  <1>3. pc' = [pc EXCEPT ![a] = "moving"] /\ pc'[a] = "moving" /\ new'[a] = table
    BY <1>1, TypeParts DEF ReallocInPlace, AdderOK
  <1>4. /\ Len(old[a]) = size /\ \A i \in 1 .. size : old[a][i] = Entry(i)
        /\ old[a] = [i \in 1 .. size |-> Entry(i)]
    BY <1>1, OldEntries DEF Clean, Progress
  <1>5. heap'[table].entries = [i \in 1 .. size + 1 |-> IF i <= size THEN old[a][i]
                                                                      ELSE Junk]
    BY <1>1, InPlaceEffect, GrownEntries DEF Clean
  <1>6. Len(heap'[table].entries) = size + 1
    BY <1>1, <1>4, InPlaceEffect, GrownType
  <1>7. \A i \in 1 .. size : Entry(i)' = Entry(i)
    BY <1>1, <1>4, <1>5, <1>6 DEF Entry
  <1>8. old'[a] = [i \in 1 .. size |-> Entry(i)]'
    BY <1>1, <1>4, <1>7
  <1>9. heap'[table].allocated
    <2>1. \A b \in Adders : pc[b] # "moving"
      BY <1>1 DEF Clean, Alone
    <2>2. heap[table].allocated
      BY <1>1, <2>1 DEF Clean, Whole
    <2> QED
      BY <2>2, InPlaceEffect
  <1>10. Progress(a)'
    BY <1>1, <1>2, <1>3, <1>5, <1>8, <1>9 DEF Progress
  <1>11. Whole'
    BY <1>1, <1>7, <1>9 DEF Clean, Whole
  <1> QED
    BY <1>1, <1>3, <1>10, <1>11, OneAdds DEF Clean

LEMMA AssignClean ==
    ASSUME TypeOK, Clean, NEW a \in Adders, Assign(a)
    PROVE  Clean'
  <1>1. /\ pc[a] = "moving" /\ size > 0 /\ size \in Nat /\ table' = new[a]
        /\ heap' = heap /\ size' = size /\ done' = done /\ old' = old
    BY TypeParts DEF Assign, Clean, Progress
  <1>2. pc' = [pc EXCEPT ![a] = "append"] /\ pc'[a] = "append"
    BY TypeParts DEF Assign, AdderOK
  <1>3. /\ new[a] \in 1 .. Len(heap) /\ heap[new[a]].allocated
        /\ heap[new[a]].entries = [i \in 1 .. size + 1 |-> IF i <= size THEN old[a][i]
                                                                        ELSE Junk]
    BY <1>1 DEF Clean, Progress
  <1>4. /\ old[a] = [i \in 1 .. size |-> Entry(i)]
        /\ \A i \in 1 .. size : old[a][i] = Entry(i)
    BY <1>1, OldEntries DEF Clean, Progress
  <1>5. Len(heap[new[a]].entries) = size + 1
    <2>1. \A i \in 1 .. size + 1 : (IF i <= size THEN old[a][i] ELSE Junk) \in Entries
      BY <1>1, <1>4, EntryType DEF Entries
    <2>2. heap[new[a]].entries \in [1 .. size + 1 -> Entries]
      BY <1>3, <2>1
    <2> QED
      BY <1>1, <2>2, FunctionIsSeq
  <1>6. \A i \in 1 .. size : Entry(i)' = Entry(i)
    BY <1>1, <1>3, <1>4, <1>5 DEF Entry
  <1>7. old'[a] = [i \in 1 .. size |-> Entry(i)]'
    BY <1>1, <1>4, <1>6
  <1>8. Progress(a)'
    BY <1>1, <1>2, <1>3, <1>5, <1>7 DEF Progress
  <1>9. Whole'
    BY <1>1, <1>3, <1>6 DEF Clean, Whole
  <1> QED
    BY <1>1, <1>2, <1>8, <1>9, OneAdds DEF Clean

LEMMA FillInClean ==
    ASSUME TypeOK, WantOK, Clean, NEW a \in Adders, FillIn(a)
    PROVE  Clean'
  <1>1. /\ pc[a] = "append" /\ size > 0 /\ size \in Nat /\ table # 0
        /\ heap[table].allocated /\ Len(heap[table].entries) = size + 1
        /\ table' = table /\ size' = size + 1 /\ done' = done \cup {want[a]}
    BY TypeParts DEF FillIn, Clean, Progress, Whole
  <1>2. want[a] \in Types
    BY <1>1, TypeParts DEF WantOK
  <1>3. Len(old[a]) = size /\ \A i \in 1 .. size : old[a][i] = Entry(i)
    BY <1>1, OldEntries DEF Clean
  <1>4. /\ heap'[table].allocated /\ Len(heap'[table].entries) = size + 1
        /\ \A k \in 1 .. size + 1 :
              heap'[table].entries[k] = IF k = size + 1 THEN want[a] ELSE old[a][k]
    BY <1>1, <1>2, <1>3, FillInEffect
  <1>5. \A i \in 1 .. size : Entry(i)' = Entry(i)
    BY <1>1, <1>3, <1>4 DEF Entry
  <1>6. \A i : i = size + 1 => Entry(i)' = want[a]
    <2>1. ASSUME NEW i, i = size + 1
          PROVE  Entry(i)' = want[a]
      <3>1. i \in 1 .. size + 1 /\ i <= Len(heap'[table].entries)
        BY <1>1, <1>4, <2>1
      <3>2. heap'[table].entries[i] = want[a]
        BY <1>4, <2>1, <3>1
      <3> QED
        BY <1>1, <3>1, <3>2 DEF Entry
    <2> QED
      BY <2>1
  <1>7. want[a] # Junk
    BY <1>2, UrcAssumption
  <1>8. \A i \in 1 .. size + 1 : i \in 1 .. size \/ i = size + 1
    BY <1>1
  <1>9. Whole'
    <2>1. \A i \in 1 .. size + 1 : Entry(i)' # Junk
      BY <1>5, <1>6, <1>7, <1>8 DEF Clean, Whole
    <2>2. \A T \in done' : \E i \in 1 .. size + 1 : Entry(i)' = T
      <3>1. size + 1 \in 1 .. size + 1 /\ \A i \in 1 .. size : i \in 1 .. size + 1
        BY <1>1
      <3>2. \A T \in done : \E i \in 1 .. size : Entry(i) = T
        BY DEF Clean, Whole
      <3> QED
        BY <1>1, <1>5, <1>6, <3>1, <3>2
    <2> QED
      BY <1>1, <1>4, <2>1, <2>2 DEF Whole
  <1> QED
    BY <1>1, <1>9, NoneAdds DEF Clean, FillIn

\* The steps of the parser leave all this as it is.
LEMMA ParserClean ==
    ASSUME Clean, heap' = heap, table' = table, size' = size, done' = done,
           pc' = pc, old' = old, new' = new
    PROVE  Clean'
  <1>1. \A i : Entry(i)' = Entry(i)
    BY DEF Entry
  <1>2. Alone'
    BY DEF Clean, Alone
  <1>3. /\ \A i \in 1 .. size' : Entry(i)' # Junk
        /\ \A T \in done' : \E i \in 1 .. size' : Entry(i)' = T
    BY <1>1 DEF Clean, Whole
  <1>4. size' > 0 => /\ table' # 0
                     /\ heap'[table'].allocated \/ \E a \in Adders : pc'[a] = "moving"
    BY DEF Clean, Whole
  <1>5. ASSUME NEW a \in Adders
        PROVE  Progress(a)'
    <2>1. [i \in 1 .. size |-> Entry(i)]' = [i \in 1 .. size |-> Entry(i)]
      BY <1>1
    <2>2. /\ pc[a] \in {"calloc", "first"} => size = 0
          /\ pc[a] = "first" => /\ table # 0 /\ heap[table].allocated
                                /\ Len(heap[table].entries) = 1
          /\ pc[a] \in {"malloc", "realloc", "moving", "append"} => size > 0
      BY DEF Clean, Progress
    <2>3. pc[a] \in {"realloc", "moving", "append"} => old[a] = [i \in 1 .. size |-> Entry(i)]
      BY DEF Clean, Progress
    <2>4. /\ pc[a] = "moving" =>
               /\ new[a] \in 1 .. Len(heap)
               /\ heap[new[a]].allocated
               /\ heap[new[a]].entries = [i \in 1 .. size + 1 |->
                                             IF i <= size THEN old[a][i] ELSE Junk]
          /\ pc[a] = "append" => /\ heap[table].allocated
                               /\ Len(heap[table].entries) = size + 1
      BY DEF Clean, Progress
    <2> QED
      BY <2>1, <2>2, <2>3, <2>4 DEF Progress
  <1> QED
    BY <1>2, <1>3, <1>4, <1>5 DEF Clean, Whole

-----------------------------------------------------------------------------
(* The theorems *)

LEMMA InvInit == Init => IInv
  <1> SUFFICES ASSUME Init PROVE Clean
    BY TypeInit DEF IInv, Clean
  <1>1. Alone /\ \A a \in Adders : Progress(a)
    BY DEF Init, Alone, Progress
  <1>2. Whole
    BY DEF Init, Whole
  <1> QED
    BY <1>1, <1>2 DEF Clean

LEMMA InvNext == IInv /\ [Next]_vars => IInv'
  <1> SUFFICES ASSUME IInv, [Next]_vars, ~overlap', ~lost'
               PROVE  Clean'
    BY TypeNext DEF IInv, Clean
  <1>1. TypeOK /\ WantOK /\ (~overlap /\ ~lost => Clean)
    BY DEF IInv, Clean
  <1>2. ~overlap /\ ~lost
    <2>1. \A a \in Adders, T \in Types : Enter(a, T) => ~overlap /\ ~lost
      <3>1. ASSUME NEW a \in Adders, NEW T \in Types, Enter(a, T)
            PROVE  ~overlap /\ ~lost
        <4>1. overlap' = (overlap \/ \E b \in Adders : pc[b] # "idle") /\ lost' = lost
          BY <3>1 DEF Enter
        <4> QED
          BY <4>1, Zenon
      <3> QED
        BY <3>1
    <2>2. CASE overlap' = overlap /\ lost' = lost
      BY <2>2
    <2>3. \A a \in Adders : ~ReallocFails(a)
      BY DEF ReallocFails
    <2> QED
      BY <2>1, <2>2, <2>3 DEF Next, Calloc, First, NoMemory, Copy, Realloc,
             ReallocInPlace, Assign, FillIn, Line, Return, vars
  <1>3. Clean
    BY <1>1, <1>2
  <1>4. \A a \in Adders : ~ReallocFails(a)
    BY DEF ReallocFails
  <1>5. CASE UNCHANGED vars
    BY <1>3, <1>5, ParserClean DEF vars, client, adder
  <1>6. CASE Return
    BY <1>3, <1>6, ParserClean DEF Return, client, adder
  <1>7. ASSUME NEW line \in Lines, NEW alive \in BOOLEAN, Line(line, alive)
        PROVE  Clean'
    BY <1>3, <1>7, ParserClean DEF Line, client, adder
  <1>8. ASSUME NEW a \in Adders,
               \/ \E T \in Types : Enter(a, T)
               \/ Calloc(a) \/ First(a) \/ NoMemory(a) \/ Copy(a) \/ Realloc(a)
               \/ ReallocInPlace(a) \/ ReallocFails(a) \/ Assign(a) \/ FillIn(a)
        PROVE  Clean'
    <2>1. ASSUME NEW T \in Types, Enter(a, T)
          PROVE  Clean'
      BY <1>1, <1>3, <2>1, EnterClean
    <2>2. CASE Calloc(a) \/ First(a) \/ NoMemory(a) \/ Copy(a)
      BY <1>1, <1>3, <2>2, CallocClean, FirstClean, NoMemoryClean, CopyClean
    <2>3. CASE Realloc(a) \/ ReallocInPlace(a) \/ Assign(a) \/ FillIn(a)
      BY <1>1, <1>3, <2>3, ReallocClean, InPlaceClean, AssignClean, FillInClean
    <2> QED
      BY <1>4, <1>8, <2>1, <2>2, <2>3
  <1> QED
    BY <1>5, <1>6, <1>7, <1>8 DEF Next

\* The types and, as long as threads add one after another and there is memory,
\* who is adding, what it has copied and what the table holds (at_client.c:551-588).
THEOREM UrcInvariant == Spec => []IInv
  BY InvInit, InvNext, PTL DEF Spec

\* Every step keeps the types of the table, the threads and the parser.
THEOREM UrcTypeOK == Spec => []TypeOK
  <1>1. IInv => TypeOK
    BY DEF IInv
  <1> QED
    BY <1>1, UrcInvariant, PTL

\* The parser reads no entry that is freed, missing or not written but for the three
\* causes that the property names (at_client.c:575-585, 645-655).
THEOREM UrcTornNeedsCause == Spec => []TornNeedsCause
  <1>1. IInv => TornNeedsCause
    BY DEF IInv, Clean, Whole, TornNeedsCause, Torn
  <1> QED
    BY <1>1, UrcInvariant, PTL

\* No type that was added is lost, with the same two exceptions (at_client.c:551-588).
THEOREM UrcAddedIsListed == Spec => []AddedIsListed
  <1>1. IInv => AddedIsListed
    BY DEF IInv, Clean, Whole, AddedIsListed
  <1> QED
    BY <1>1, UrcInvariant, PTL

-----------------------------------------------------------------------------
(* The fields of a line and the parameters that read them *)

\* How many parameters of a callback take no field: they come first.
Emitters(prefix) == IF prefix = "HTTPRESPC" THEN 1 ELSE 0

Kinds == {"emitter", "flow", "int", "text"}

LEMMA ParamsShape ==
    ASSUME NEW x \in DOMAIN Params
    PROVE  /\ Len(Params[x]) \in 3 .. 6
           /\ DOMAIN Params[x] = 1 .. Len(Params[x])
           /\ \A k \in 1 .. Len(Params[x]) :
                 /\ Params[x][k] \in Kinds
                 /\ Params[x][k] = "emitter" <=> k <= Emitters(x)
  <1>1. CASE x = "HTTPRESPC"
    BY <1>1 DEF Params, Kinds, Emitters
  <1>2. CASE x = "ECMTRECV"
    BY <1>2 DEF Params, Kinds, Emitters
  <1>3. CASE x = "ECMTCONN"
    BY <1>3 DEF Params, Kinds, Emitters
  <1>4. DOMAIN Params = {"HTTPRESPC", "ECMTRECV", "ECMTCONN"}
    BY DEF Params
  <1> QED
    BY <1>1, <1>2, <1>3, <1>4

\* The parameters up to the k-th that take a field.
LEMMA TakersCount ==
    ASSUME NEW x \in DOMAIN Params, NEW k \in 0 .. Len(Params[x]),
           NEW S, \A j : j \in S <=> /\ j \in 1 .. Len(Params[x])
                                     /\ Consumes(Params[x][j]) /\ j <= k
    PROVE  Cardinality(S) = IF k <= Emitters(x) THEN 0 ELSE k - Emitters(x)
  <1>1. PICK e \in 0 .. 1 : e = Emitters(x)
    BY DEF Emitters
  <1>2. Len(Params[x]) \in 3 .. 6
    BY ParamsShape
  <1>3. e + 1 \in Int /\ k \in Int
    BY <1>2
  <1>4. ASSUME NEW j
        PROVE  j \in S <=> j \in (e + 1) .. k
    <2>1. j \in 1 .. Len(Params[x]) => (Consumes(Params[x][j]) <=> ~(j <= e))
      BY <1>1, ParamsShape DEF Consumes
    <2> QED
      BY <1>2, <1>3, <2>1
  <1>5. S = (e + 1) .. k
    BY <1>4
  <1>6. Cardinality((e + 1) .. k) = IF e + 1 > k THEN 0 ELSE k - (e + 1) + 1
    BY <1>3, FS_Interval
  <1> QED
    BY <1>1, <1>3, <1>5, <1>6

\* From left to right, parameter k reads the field of its own.
LEMMA IndexIsOwn ==
    ASSUME order = "leftToRight",
           NEW x \in DOMAIN Params, NEW k \in 1 .. Len(Params[x])
    PROVE  Index(Params[x], k) = IF k <= Emitters(x) THEN 1 ELSE k - Emitters(x)
  <1> DEFINE S == {j \in 1 .. Len(Params[x]) :
                       /\ Consumes(Params[x][j])
                       /\ IF order = "leftToRight" THEN j < k ELSE j > k}
  <1>1. Emitters(x) \in 0 .. 1 /\ Len(Params[x]) \in 3 .. 6
    BY ParamsShape DEF Emitters
  <1>2. k - 1 \in 0 .. Len(Params[x])
    BY <1>1
  <1>3. \A j : j \in S <=> /\ j \in 1 .. Len(Params[x])
                           /\ Consumes(Params[x][j]) /\ j <= k - 1
    BY <1>1
  <1>4. Index(Params[x], k) = 1 + Cardinality(S)
    BY DEF Index
  <1> HIDE DEF S
  <1>5. Cardinality(S) = IF k - 1 <= Emitters(x) THEN 0 ELSE k - 1 - Emitters(x)
    BY <1>2, <1>3, TakersCount
  <1> QED
    BY <1>1, <1>4, <1>5

\* The first n parameters take so many fields.
LEMMA TakenBefore ==
    ASSUME NEW x \in DOMAIN Params, NEW k \in 0 .. Len(Params[x])
    PROVE  Cardinality({j \in 1 .. k : Consumes(Params[x][j])}) =
               IF k <= Emitters(x) THEN 0 ELSE k - Emitters(x)
  <1> DEFINE S == {j \in 1 .. k : Consumes(Params[x][j])}
  <1>1. Len(Params[x]) \in 3 .. 6
    BY ParamsShape
  <1>2. \A j : j \in S <=> /\ j \in 1 .. Len(Params[x])
                           /\ Consumes(Params[x][j]) /\ j <= k
    BY <1>1
  <1> HIDE DEF S
  <1>3. Cardinality(S) = IF k <= Emitters(x) THEN 0 ELSE k - Emitters(x)
    BY <1>2, TakersCount
  <1> QED
    BY <1>3 DEF S

\* What is left of a line from piece f on.
LEMMA RestOfPieces ==
    ASSUME NEW ps \in Seq(STRING), NEW f \in 1 .. Len(ps)
    PROVE  /\ Head(SubSeq(ps, f, Len(ps))) = ps[f]
           /\ f = Len(ps) => SubSeq(ps, f, Len(ps)) = <<ps[f]>>
  <1>1. Len(ps) \in Nat /\ Len(ps) \in f .. Len(ps)
    BY LenProperties
  <1>2. Head(SubSeq(ps, f, Len(ps))) = ps[f]
    BY <1>1, HeadTailOfSubSeq
  <1>3. ASSUME f = Len(ps)
        PROVE  SubSeq(ps, f, Len(ps)) = <<ps[f]>>
    <2> DEFINE s == SubSeq(ps, f, Len(ps))
    <2>1. \A i \in f .. Len(ps) : ps[i] \in STRING
      BY <1>1, ElementOfSeq
    <2>2. /\ s \in Seq(STRING)
          /\ Len(s) = IF f <= Len(ps) THEN Len(ps) - f + 1 ELSE 0
          /\ \A i \in 1 .. Len(ps) - f + 1 : s[i] = ps[f + i - 1]
      BY <1>1, <2>1, SubSeqProperties
    <2> HIDE DEF s
    <2>3. Len(s) = 1 /\ s[1] = ps[f]
      BY <1>1, <1>3, <2>2
    <2>4. s = <<ps[f]>>
      BY <2>2, <2>3
    <2> QED
      BY <2>4 DEF s
  <1> QED
    BY <1>2, <1>3

\* What a well-formed line has: a field for each parameter that takes one.
LEMMA EnoughPieces ==
    ASSUME NEW line \in Lines, WellFormed(line)
    PROVE  LET x == line.prefix
               L == Len(Params[x])
           IN  /\ x \in DOMAIN Params /\ line.pieces \in Seq(STRING)
               /\ Len(line.pieces) \in Nat
               /\ Len(line.pieces) >= L - Emitters(x)
               /\ Emitters(x) = 1 => Len(line.pieces) = L - Emitters(x)
  <1> DEFINE x == line.prefix
             L == Len(Params[x])
             n == Cardinality({j \in 1 .. L : Consumes(Params[x][j])})
  <1>1. x \in DOMAIN Params /\ line.pieces \in Seq(STRING)
    BY UrcAssumption
  <1>2. L \in 3 .. 6 /\ Emitters(x) \in 0 .. 1
    BY <1>1, ParamsShape DEF Emitters
  <1>3. n = L - Emitters(x)
    <2>1. L \in 0 .. L
      BY <1>2
    <2>2. n = IF L <= Emitters(x) THEN 0 ELSE L - Emitters(x)
      BY <1>1, <2>1, TakenBefore
    <2> HIDE DEF n
    <2> QED
      BY <1>2, <2>2
  <1>4. /\ Len(line.pieces) >= n
        /\ line.prefix = "HTTPRESPC" => Len(line.pieces) = n
    BY DEF WellFormed
  <1>5. Emitters(x) = 1 => line.prefix = "HTTPRESPC"
    BY DEF Emitters
  <1>6. Len(line.pieces) \in Nat
    BY <1>1, LenProperties
  <1> HIDE DEF n, L
  <1>7. /\ Len(line.pieces) >= L - Emitters(x)
        /\ Emitters(x) = 1 => Len(line.pieces) = L - Emitters(x)
    BY <1>3, <1>4, <1>5
  <1> QED
    BY <1>1, <1>6, <1>7 DEF L

LEMMA FieldCount ==
    ASSUME NEW ps, Len(ps) \in Nat, NEW n \in Nat
    PROVE  Len(Split(ps, n)) = IF Len(ps) <= n + 1 THEN Len(ps) ELSE n + 1
  <1>1. CASE Len(ps) <= n + 1
    BY <1>1 DEF Split
  <1>2. CASE ~(Len(ps) <= n + 1)
    BY <1>2 DEF Split
  <1> QED
    BY <1>1, <1>2

\* Field f of a well-formed line: a piece, and for the last parameter the rest.
LEMMA FieldIs ==
    ASSUME NEW x \in DOMAIN Params, NEW ps \in Seq(STRING),
           Len(ps) >= Len(Params[x]) - Emitters(x),
           Emitters(x) = 1 => Len(ps) = Len(Params[x]) - Emitters(x),
           NEW f \in 1 .. Len(Params[x]) - Emitters(x)
    PROVE  LET fields == Split(ps, Len(Params[x]) - 1)
           IN  /\ f <= Len(fields)
               /\ Head(fields[f]) = ps[f]
               /\ fields[f] = IF f = Len(Params[x]) - Emitters(x)
                              THEN SubSeq(ps, f, Len(ps)) ELSE <<ps[f]>>
  <1> DEFINE L == Len(Params[x])
             fields == Split(ps, L - 1)
  <1>1. L \in 3 .. 6 /\ Emitters(x) \in 0 .. 1
    BY ParamsShape DEF Emitters
  <1>2. Len(ps) \in Nat
    BY LenProperties
  <1> HIDE DEF L
  <1>3. f \in 1 .. Len(ps) /\ Head(<<ps[f]>>) = ps[f]
    BY <1>1, <1>2 DEF L
  <1>4. CASE Len(ps) <= L
    <2>1. fields = [i \in 1 .. Len(ps) |-> <<ps[i]>>]
      BY <1>1, <1>2, <1>4 DEF Split
    <2>2. Len(fields) = Len(ps)
      BY <1>2, <2>1
    <2>3. fields[f] = <<ps[f]>>
      BY <1>3, <2>1
    <2>4. f = L - Emitters(x) => f = Len(ps)
      BY <1>1, <1>2, <1>4 DEF L
    <2> HIDE DEF fields
    <2>5. f = L - Emitters(x) => fields[f] = SubSeq(ps, f, Len(ps))
      BY <1>3, <2>3, <2>4, RestOfPieces
    <2>6. f <= Len(fields) /\ Head(fields[f]) = ps[f]
      BY <1>2, <1>3, <2>2, <2>3
    <2>7. fields[f] = IF f = L - Emitters(x) THEN SubSeq(ps, f, Len(ps)) ELSE <<ps[f]>>
      BY <2>3, <2>5
    <2> QED
      BY <2>6, <2>7 DEF L, fields
  <1>5. CASE ~(Len(ps) <= L)
    <2>1. fields = [i \in 1 .. L |-> IF i <= L - 1 THEN <<ps[i]>>
                                     ELSE SubSeq(ps, L, Len(ps))]
      BY <1>1, <1>2, <1>5 DEF Split
    <2>2. Emitters(x) = 0 /\ f \in 1 .. L
      BY <1>1, <1>2, <1>5 DEF L
    <2>3. Len(fields) = L
      BY <1>1, <2>1
    <2>4. fields[f] = IF f <= L - 1 THEN <<ps[f]>> ELSE SubSeq(ps, L, Len(ps))
      BY <2>1, <2>2
    <2> HIDE DEF fields
    <2>5. fields[f] = IF f = L THEN SubSeq(ps, f, Len(ps)) ELSE <<ps[f]>>
      BY <1>1, <2>2, <2>4
    <2>6. Head(fields[f]) = ps[f]
      BY <1>3, <2>5, RestOfPieces
    <2> QED
      BY <1>1, <2>2, <2>3, <2>5, <2>6 DEF L, fields
  <1> QED
    BY <1>4, <1>5

\* The field that parameter k is meant to get.
LEMMA OwnIs ==
    ASSUME NEW x \in DOMAIN Params, NEW ps \in Seq(STRING),
           Len(ps) >= Len(Params[x]) - Emitters(x),
           NEW k \in 1 .. Len(Params[x])
    PROVE  /\ k <= Emitters(x) => Own(Params[x], ps, k) = <<>>
           /\ ~(k <= Emitters(x)) =>
                 /\ Own(Params[x], ps, k) =
                       IF k = Len(Params[x]) /\ Params[x][k] = "text"
                       THEN SubSeq(ps, k - Emitters(x), Len(ps))
                       ELSE <<ps[k - Emitters(x)]>>
                 /\ Head(Own(Params[x], ps, k)) = ps[k - Emitters(x)]
  <1> DEFINE n == Cardinality({j \in 1 .. k : Consumes(Params[x][j])})
  <1>1. Len(Params[x]) \in 3 .. 6 /\ Emitters(x) \in 0 .. 1
    BY ParamsShape DEF Emitters
  <1>2. n = IF k <= Emitters(x) THEN 0 ELSE k - Emitters(x)
    <2>1. k \in 0 .. Len(Params[x])
      BY <1>1
    <2> QED
      BY <2>1, TakenBefore
  <1>3. Consumes(Params[x][k]) <=> ~(k <= Emitters(x))
    BY ParamsShape DEF Consumes
  <1>4. Own(Params[x], ps, k) =
            IF ~Consumes(Params[x][k]) THEN <<>>
            ELSE IF k = Len(Params[x]) /\ Params[x][k] = "text"
            THEN SubSeq(ps, n, Len(ps)) ELSE <<ps[n]>>
    BY DEF Own
  <1> HIDE DEF n
  <1>5. CASE k <= Emitters(x)
    BY <1>3, <1>4, <1>5
  <1>6. CASE ~(k <= Emitters(x))
    <2>1. n = k - Emitters(x) /\ Consumes(Params[x][k])
      BY <1>2, <1>3, <1>6
    <2>2. n \in 1 .. Len(ps)
      BY <1>1, <1>6, <2>1, LenProperties
    <2>3. Head(SubSeq(ps, n, Len(ps))) = ps[n] /\ Head(<<ps[n]>>) = ps[n]
      BY <2>2, RestOfPieces
    <2> QED
      BY <1>4, <1>6, <2>1, <2>3
  <1> QED
    BY <1>5, <1>6

\* A parameter of a well-formed line finds its field, and no garbage.
LEMMA ParameterFinds ==
    ASSUME order = "leftToRight", NEW line \in Lines, WellFormed(line),
           NEW k \in 1 .. Len(Params[line.prefix])
    PROVE  LET params == Params[line.prefix]
               fields == Split(line.pieces, Len(params) - 1)
           IN  /\ ~IsGarbage(params, fields, k)
               /\ Argument(params, fields, k) = Own(params, line.pieces, k)
  <1> DEFINE x == line.prefix
             ps == line.pieces
             e == Emitters(x)
             params == Params[x]
             fields == Split(ps, Len(params) - 1)
  <1>1. /\ x \in DOMAIN Params /\ ps \in Seq(STRING) /\ Len(ps) \in Nat
        /\ Len(ps) >= Len(params) - e
        /\ e = 1 => Len(ps) = Len(params) - e
    BY EnoughPieces
  <1>2. Len(params) \in 3 .. 6 /\ e \in 0 .. 1
    BY <1>1, ParamsShape DEF Emitters
  <1>3. params[k] \in Kinds /\ (params[k] = "emitter" <=> k <= e)
    BY <1>1, ParamsShape
  <1>4. Index(params, k) = IF k <= e THEN 1 ELSE k - e
    BY <1>1, IndexIsOwn
  <1>5. /\ params[k] = "flow" => Head(Own(params, ps, k)) = "0"
        /\ params[k] = "int" => Head(Own(params, ps, k)) \in Numbers
    BY DEF WellFormed
  <1>6. ASSUME NEW f \in 1 .. Len(params) - e
        PROVE  /\ f <= Len(fields)
               /\ Head(fields[f]) = ps[f]
               /\ fields[f] = IF f = Len(params) - e
                              THEN SubSeq(ps, f, Len(ps)) ELSE <<ps[f]>>
    BY <1>1, FieldIs
  <1>7. /\ k <= e => Own(params, ps, k) = <<>>
        /\ ~(k <= e) =>
              /\ Own(params, ps, k) = IF k = Len(params) /\ params[k] = "text"
                                      THEN SubSeq(ps, k - e, Len(ps)) ELSE <<ps[k - e]>>
              /\ Head(Own(params, ps, k)) = ps[k - e]
    BY <1>1, OwnIs
  <1>10. Len(fields) \in Nat
    BY <1>1, <1>2, FieldCount
  <1> HIDE DEF x, ps, e, params, fields
  <1>8. CASE k <= e
    <2>1. 1 \in 1 .. Len(params) - e
      <3>1. ASSUME NEW l \in 3 .. 6, NEW m \in 0 .. 1
            PROVE  1 \in 1 .. l - m
        OBVIOUS
      <3> QED
        BY <1>2, <3>1
    <2>2. 1 <= Len(fields)
      BY <1>6, <2>1
    <2>3. Index(params, k) = 1
      BY <1>4, <1>8
    <2>4. ~(1 > Len(fields))
      BY <2>2, <1>10
    <2>5. ~IsGarbage(params, fields, k)
      BY <1>3, <1>8, <2>2, <2>3, <2>4 DEF IsGarbage
    <2>6. Argument(params, fields, k) = <<>>
      BY <1>3, <1>8 DEF Argument
    <2> QED
      BY <1>7, <1>8, <2>5, <2>6 DEF x, ps, params, fields
  <1>9. CASE ~(k <= e)
    <2>1. PICK f : f = k - e
      OBVIOUS
    <2>2. f \in 1 .. Len(params) - e /\ Index(params, k) = f
      BY <1>2, <1>4, <1>9, <2>1 DEF params, x
    <2>3. /\ f <= Len(fields) /\ Head(fields[f]) = ps[f]
          /\ fields[f] = IF k = Len(params) THEN SubSeq(ps, f, Len(ps)) ELSE <<ps[f]>>
      BY <1>2, <1>6, <2>1, <2>2 DEF params, x
    <2>4. ~IsGarbage(params, fields, k)
      <3>1. ~(Index(params, k) > Len(fields))
        BY <1>2, <1>10, <2>2, <2>3
      <3>2. Head(fields[Index(params, k)]) = Head(Own(params, ps, k))
        BY <1>7, <1>9, <2>1, <2>2, <2>3
      <3> QED
        BY <1>5, <3>1, <3>2 DEF IsGarbage
    <2>5. Argument(params, fields, k) = Own(params, ps, k)
      BY <1>3, <1>7, <1>9, <2>1, <2>2, <2>3 DEF Argument, Kinds
    <2> QED
      BY <2>4, <2>5 DEF x, ps, params, fields
  <1> QED
    BY <1>8, <1>9

\* The parser has no line, or what a handler makes of one.
GotInv ==
    got.outcome \in {"garbage", "handled"} =>
        \E line \in Lines : got = Handled(line, TRUE)

LEMMA GotInvFinds ==
    GotInv => FieldsFindParameters
  <1> SUFFICES ASSUME GotInv, order = "leftToRight",
                      got.outcome \in {"garbage", "handled"}, WellFormed(got.line)
               PROVE  /\ got.outcome = "handled"
                      /\ \A k \in DOMAIN got.args :
                            got.args[k] = Own(Params[got.line.prefix], got.line.pieces, k)
    BY DEF FieldsFindParameters
  <1>1. PICK line \in Lines : got = Handled(line, TRUE)
    BY DEF GotInv
  <1> DEFINE params == Params[line.prefix]
             fields == Split(line.pieces, Len(params) - 1)
             bad == \E k \in 1 .. Len(params) : IsGarbage(params, fields, k)
             args == [k \in 1 .. Len(params) |-> Argument(params, fields, k)]
  <1>2. got = IF bad THEN [outcome |-> "garbage", line |-> line]
              ELSE [outcome |-> "handled", line |-> line, args |-> args]
    BY <1>1 DEF Handled
  <1>3. got.line = line
    <2> HIDE DEF bad, args
    <2> QED
      BY <1>2
  <1>4. \A k \in 1 .. Len(params) :
            /\ ~IsGarbage(params, fields, k)
            /\ Argument(params, fields, k) = Own(params, line.pieces, k)
    BY <1>3, ParameterFinds
  <1> HIDE DEF params, fields
  <1>5. got = [outcome |-> "handled", line |-> line, args |-> args]
    BY <1>2, <1>4
  <1>6. /\ DOMAIN args = 1 .. Len(params)
        /\ \A k \in 1 .. Len(params) : args[k] = Argument(params, fields, k)
    OBVIOUS
  <1> HIDE DEF args
  <1> QED
    BY <1>3, <1>4, <1>5, <1>6 DEF params

\* The order of evaluation is the build's: no step changes it.
LEMMA HandledStays ==
    ASSUME order' = order, NEW line, NEW alive
    PROVE  Handled(line, alive)' = Handled(line, alive)
  <1>1. \A params, k : Index(params, k)' = Index(params, k)
    BY DEF Index
  <1>2. \A params, fields, k : /\ IsGarbage(params, fields, k)' = IsGarbage(params, fields, k)
                               /\ Argument(params, fields, k)' = Argument(params, fields, k)
    BY <1>1 DEF IsGarbage, Argument
  <1> QED
    BY <1>2 DEF Handled

LEMMA HandledOutcome ==
    ASSUME NEW line \in Lines, NEW alive \in BOOLEAN
    PROVE  Handled(line, alive).outcome \in {"garbage", "handled"}
               => Handled(line, alive) = Handled(line, TRUE)
  <1> DEFINE bad == \E k \in 1 .. Len(Params[line.prefix]) :
                        IsGarbage(Params[line.prefix],
                                  Split(line.pieces, Len(Params[line.prefix]) - 1), k)
  <1>1. CASE bad
    BY <1>1 DEF Handled
  <1>2. CASE ~bad /\ ~alive
    <2>1. Handled(line, alive) = [outcome |-> "thrown", line |-> line]
      BY <1>2 DEF Handled
    <2> QED
      BY <2>1
  <1>3. CASE ~bad /\ alive
    BY <1>3 DEF Handled
  <1> QED
    BY <1>1, <1>2, <1>3

LEMMA LineGotInv ==
    ASSUME NEW line \in Lines, NEW alive \in BOOLEAN, Line(line, alive)
    PROVE  GotInv'
  <1>1. CASE Torn
    BY <1>1 DEF Line, GotInv
  <1>2. CASE ~Torn /\ ~Listed(line.prefix)
    <2>1. got' = [outcome |-> "ignored", line |-> line]
      BY <1>2 DEF Line
    <2> QED
      BY <2>1 DEF GotInv
  <1>3. CASE ~Torn /\ Listed(line.prefix)
    <2>1. got' = Handled(line, alive)
      BY <1>3 DEF Line
    <2>2. Handled(line, TRUE)' = Handled(line, TRUE)
      BY HandledStays DEF Line
    <2>3. Handled(line, alive).outcome \in {"garbage", "handled"}
              => Handled(line, alive) = Handled(line, TRUE)
      BY HandledOutcome
    <2>4. got'.outcome \in {"garbage", "handled"} => got' = Handled(line, TRUE)'
      BY <2>1, <2>2, <2>3
    <2> QED
      BY <2>4 DEF GotInv
  <1> QED
    BY <1>1, <1>2, <1>3

\* The parser hands each field of a well-formed line to its own parameter, where
\* the build evaluates from left to right, for any lines
\* (net/at_urc_builder.hxx:268-295, 316-322; utilities/string.cxx:4-15).
THEOREM UrcFieldsFindParameters == Spec => []FieldsFindParameters
  <1>1. Init => GotInv
    BY DEF Init, Waiting, GotInv
  <1>2. ASSUME GotInv, [Next]_vars
        PROVE  GotInv'
    <2>1. ASSUME UNCHANGED <<got, order>>
          PROVE  GotInv'
      BY <1>2, <2>1, HandledStays DEF GotInv
    <2>2. CASE Return
      BY <2>2 DEF Return, Waiting, GotInv
    <2>3. ASSUME NEW line \in Lines, NEW alive \in BOOLEAN, Line(line, alive)
          PROVE  GotInv'
      BY <2>3, LineGotInv
    <2>4. ASSUME NEW a \in Adders, NEW T \in Types, Enter(a, T)
          PROVE  GotInv'
      BY <2>1, <2>4 DEF Enter
    <2>5. ASSUME NEW a \in Adders,
                 \/ Calloc(a) \/ First(a) \/ NoMemory(a) \/ Copy(a) \/ Realloc(a)
                 \/ ReallocInPlace(a) \/ ReallocFails(a) \/ Assign(a) \/ FillIn(a)
          PROVE  GotInv'
      BY <2>1, <2>5 DEF Calloc, First, NoMemory, Copy, Realloc, ReallocInPlace,
                        ReallocFails, Assign, FillIn
    <2>6. CASE UNCHANGED vars
      BY <2>1, <2>6 DEF vars
    <2> QED
      BY <1>2, <2>2, <2>3, <2>4, <2>5, <2>6 DEF Next
  <1> QED
    BY <1>1, <1>2, GotInvFinds, PTL DEF Spec
=============================================================================
