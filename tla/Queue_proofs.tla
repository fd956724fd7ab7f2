---------------------------- MODULE Queue_proofs ----------------------------
(***************************************************************************)
(* Queue<T> keeps its mutex discipline, never loses a wakeup and           *)
(* implements the FIFO channel of Mailbox, whose promise is proved here    *)
(* too, for every set of producers.                                        *)
(***************************************************************************)
EXTENDS Queue, SequenceTheorems, TLAPS

-----------------------------------------------------------------------------
\* Everything is well typed and consistent at the start.
LEMMA IInvInit == Init => IInv
  BY EmptySeq, MaxPushAssumption, ThreadAssumption
  DEF Init, IInv, TypeOK, MutexHeld, PushWithinBound, NoLostWakeup,
      ProducerPlaces, ConsumerPlaces

LEMMA TypeNext == TypeOK /\ PushWithinBound /\ [Next]_vars => TypeOK'
  <1> SUFFICES ASSUME TypeOK, PushWithinBound, [Next]_vars
               PROVE  TypeOK'
    OBVIOUS
  <1> USE DEF TypeOK, ProducerPlaces, ConsumerPlaces
  <1>1. ASSUME NEW p \in Producers, PushLock(p)
        PROVE  TypeOK'
    BY <1>1 DEF PushLock
  <1>2. ASSUME NEW p \in Producers, PushItem(p)
        PROVE  TypeOK'
    <2>1. sent[p] + 1 \in 0 .. MaxPush /\ <<p, sent[p] + 1>> \in Item
      BY <1>2, MaxPushAssumption DEF PushItem, PushWithinBound, Item
    <2>2. q' \in Seq(Item)
      BY <1>2, <2>1, AppendProperties DEF PushItem
    <2> QED
      BY <1>2, <2>1, <2>2 DEF PushItem
  <1>3. ASSUME NEW p \in Producers, PushSet(p)
        PROVE  TypeOK'
    BY <1>3 DEF PushSet
  <1>4. ASSUME NEW p \in Producers, PushUnlock(p)
        PROVE  TypeOK'
    BY <1>4 DEF PushUnlock
  <1>5. CASE PopLock
    BY <1>5 DEF PopLock
  <1>6. CASE PopSeesEmpty
    BY <1>6 DEF PopSeesEmpty
  <1>7. CASE PopWait
    BY <1>7 DEF PopWait
  <1>8. CASE PopFront
    <2>1. Head(q) \in Item /\ q' \in Seq(Item)
      BY <1>8, HeadTailProperties DEF PopFront
    <2>2. got' \in Seq(Item)
      BY <1>8, <2>1, AppendProperties DEF PopFront
    <2> QED
      BY <1>8, <2>1, <2>2 DEF PopFront
  <1>9. CASE PopUnlock
    BY <1>9 DEF PopUnlock
  <1>10. CASE UNCHANGED vars
    BY <1>10 DEF vars
  <1> QED
    BY <1>1, <1>2, <1>3, <1>4, <1>5, <1>6, <1>7, <1>8, <1>9, <1>10
    DEF Next, Push, Pop

LEMMA MutexNext == TypeOK /\ MutexHeld /\ [Next]_vars => MutexHeld'
  <1> SUFFICES ASSUME TypeOK, MutexHeld, [Next]_vars
               PROVE  MutexHeld'
    OBVIOUS
  <1> USE ThreadAssumption DEF MutexHeld, TypeOK
  <1>1. ASSUME NEW p \in Producers, PushLock(p)
        PROVE  MutexHeld'
    BY <1>1 DEF PushLock
  <1>2. ASSUME NEW p \in Producers, PushItem(p)
        PROVE  MutexHeld'
    BY <1>2 DEF PushItem
  <1>3. ASSUME NEW p \in Producers, PushSet(p)
        PROVE  MutexHeld'
    BY <1>3 DEF PushSet
  <1>4. ASSUME NEW p \in Producers, PushUnlock(p)
        PROVE  MutexHeld'
    BY <1>4 DEF PushUnlock
  <1>5. CASE PopLock
    BY <1>5 DEF PopLock
  <1>6. CASE PopSeesEmpty
    BY <1>6 DEF PopSeesEmpty
  <1>7. CASE PopWait
    BY <1>7 DEF PopWait
  <1>8. CASE PopFront
    BY <1>8 DEF PopFront
  <1>9. CASE PopUnlock
    BY <1>9 DEF PopUnlock
  <1>10. CASE UNCHANGED vars
    BY <1>10 DEF vars
  <1> QED
    BY <1>1, <1>2, <1>3, <1>4, <1>5, <1>6, <1>7, <1>8, <1>9, <1>10
    DEF Next, Push, Pop

LEMMA BoundNext ==
    TypeOK /\ MutexHeld /\ PushWithinBound /\ [Next]_vars => PushWithinBound'
  <1> SUFFICES ASSUME TypeOK, MutexHeld, PushWithinBound, [Next]_vars
               PROVE  PushWithinBound'
    OBVIOUS
  <1> USE DEF PushWithinBound, TypeOK
  <1>1. ASSUME NEW p \in Producers, PushLock(p)
        PROVE  PushWithinBound'
    BY <1>1 DEF PushLock
  <1>2. ASSUME NEW p \in Producers, PushItem(p)
        PROVE  PushWithinBound'
    BY <1>2 DEF PushItem
  <1>3. ASSUME NEW p \in Producers, PushSet(p) \/ PushUnlock(p)
        PROVE  PushWithinBound'
    BY <1>3 DEF PushSet, PushUnlock
  <1>4. CASE Pop \/ UNCHANGED vars
    BY <1>4 DEF Pop, PopLock, PopSeesEmpty, PopWait, PopFront, PopUnlock, vars
  <1> QED
    BY <1>1, <1>2, <1>3, <1>4 DEF Next, Push

LEMMA WakeupNext == TypeOK /\ NoLostWakeup /\ [Next]_vars => NoLostWakeup'
  <1> SUFFICES ASSUME TypeOK, NoLostWakeup, [Next]_vars
               PROVE  NoLostWakeup'
    OBVIOUS
  <1> USE DEF NoLostWakeup, TypeOK
  <1>1. ASSUME NEW p \in Producers, PushLock(p)
        PROVE  NoLostWakeup'
    BY <1>1 DEF PushLock
  \* The producer that adds an item has yet to set the bit.
  <1>2. ASSUME NEW p \in Producers, PushItem(p)
        PROVE  NoLostWakeup'
    <2>1. ppc'[p] = "set"
      BY <1>2 DEF PushItem
    <2> QED
      BY <1>2, <2>1 DEF PushItem
  \* Setting the bit leaves it set, or finds the consumer asleep and wakes it.
  <1>3. ASSUME NEW p \in Producers, PushSet(p)
        PROVE  NoLostWakeup'
    BY <1>3 DEF PushSet
  <1>4. ASSUME NEW p \in Producers, PushUnlock(p)
        PROVE  NoLostWakeup'
    BY <1>4 DEF PushUnlock
  <1>5. CASE PopLock
    BY <1>5 DEF PopLock
  \* The consumer sets out to sleep only when it has seen an empty queue.
  <1>6. CASE PopSeesEmpty
    BY <1>6 DEF PopSeesEmpty
  <1>7. CASE PopWait
    BY <1>7 DEF PopWait
  <1>8. CASE PopFront
    BY <1>8 DEF PopFront
  <1>9. CASE PopUnlock
    BY <1>9 DEF PopUnlock
  <1>10. CASE UNCHANGED vars
    BY <1>10 DEF vars
  <1> QED
    BY <1>1, <1>2, <1>3, <1>4, <1>5, <1>6, <1>7, <1>8, <1>9, <1>10
    DEF Next, Push, Pop

LEMMA IInvNext == IInv /\ [Next]_vars => IInv'
  BY TypeNext, MutexNext, BoundNext, WakeupNext DEF IInv

\* The inductive invariant: types, mutex discipline, bound and wakeups.
LEMMA SpecIInv == SafeSpec => []IInv
  BY IInvInit, IInvNext, PTL DEF SafeSpec

\* Every variable keeps its type.
THEOREM QueueTypeOK == SafeSpec => []TypeOK
  BY SpecIInv, PTL DEF IInv

\* A thread that works on the std::queue (os/queue.hxx:15-20, 24-27) owns the
\* mutex, and so no two threads do.
THEOREM QueueMutex == SafeSpec => []MutexHeld
  BY SpecIInv, PTL DEF IInv

\* pop releases the mutex before it waits (os/queue.hxx:21-22), and still never
\* sleeps on an item: one set bit or one producer about to set it is left.
THEOREM QueueNoLostWakeup == SafeSpec => []NoLostWakeup
  BY SpecIInv, PTL DEF IInv

-----------------------------------------------------------------------------
(* The channel: q, sent and got are its variables here, whoever changes them. *)

\* The history is what was popped, and after it what is in the channel.
LEMMA HistoryFacts ==
    ASSUME MB!TypeOK
    PROVE  /\ MB!History \in Seq(MB!Item)
           /\ Len(MB!History) = Len(got) + Len(q)
           /\ \A i \in 1 .. Len(MB!History) :
                 MB!History[i] = IF i <= Len(got) THEN got[i] ELSE q[i - Len(got)]
  BY ConcatProperties DEF MB!TypeOK, MB!History

\* Popping moves an item from one part of the history to the other.
LEMMA TakeKeepsHistory ==
    ASSUME MB!TypeOK, MB!TypeOK', MB!Take
    PROVE  MB!History' = MB!History
  <1>1. /\ Len(got') = Len(got) + 1
        /\ got'[Len(got) + 1] = q[1]
        /\ \A i \in 1 .. Len(got) : got'[i] = got[i]
    BY AppendProperties DEF MB!TypeOK, MB!Take
  <1>2. /\ Len(q) \in Nat \ {0}
        /\ Len(q') = Len(q) - 1
        /\ \A i \in 1 .. Len(q') : q'[i] = q[i + 1]
    BY EmptySeq, HeadTailProperties DEF MB!TypeOK, MB!Take
  <1>3. /\ MB!History' \in Seq(MB!Item)
        /\ Len(MB!History') = Len(got') + Len(q')
        /\ \A i \in 1 .. Len(MB!History') :
              MB!History'[i] = IF i <= Len(got') THEN got'[i] ELSE q'[i - Len(got')]
    BY ConcatProperties DEF MB!TypeOK, MB!History
  <1>4. /\ MB!History \in Seq(MB!Item)
        /\ Len(MB!History) = Len(got) + Len(q)
        /\ \A i \in 1 .. Len(MB!History) :
              MB!History[i] = IF i <= Len(got) THEN got[i] ELSE q[i - Len(got)]
        /\ Len(got) \in Nat
    BY HistoryFacts, LenProperties DEF MB!TypeOK
  <1>5. Len(MB!History') = Len(MB!History)
    BY <1>1, <1>2, <1>3, <1>4
  <1>6. ASSUME NEW i \in 1 .. Len(MB!History)
        PROVE  MB!History'[i] = MB!History[i]
    <2> DEFINE k == i - Len(got)
    <2>1. CASE i <= Len(got)
      BY <1>1, <1>3, <1>4, <1>5, <2>1
    <2>2. CASE k = 1
      BY <1>1, <1>2, <1>3, <1>4, <1>5, <2>2
    <2>3. CASE k > 1
      <3>1. k - 1 \in 1 .. Len(q') /\ k = (k - 1) + 1
        BY <1>2, <1>4, <2>3
      <3>2. q'[k - 1] = q[k]
        BY <1>2, <3>1
      <3>3. MB!History'[i] = q'[k - 1]
        BY <1>1, <1>3, <1>4, <1>5, <2>3
      <3> QED
        BY <1>4, <2>3, <3>2, <3>3
    <2> QED
      BY <1>4, <2>1, <2>2, <2>3
  <1> QED
    BY <1>3, <1>4, <1>5, <1>6, SeqEqual

\* Pushing adds the producer's next item at the end of the history.
LEMMA PutExtendsHistory ==
    ASSUME MB!TypeOK, MB!TypeOK', NEW p \in Producers, MB!Put(p)
    PROVE  /\ Len(MB!History') = Len(MB!History) + 1
           /\ MB!History'[Len(MB!History) + 1] = <<p, sent[p] + 1>>
           /\ \A i \in 1 .. Len(MB!History) : MB!History'[i] = MB!History[i]
  <1>1. /\ Len(q') = Len(q) + 1
        /\ q'[Len(q) + 1] = <<p, sent[p] + 1>>
        /\ \A i \in 1 .. Len(q) : q'[i] = q[i]
        /\ got' = got
    <2>1. <<p, sent[p] + 1>> \in MB!Item
      BY DEF MB!TypeOK, MB!Item
    <2> QED
      BY <2>1, AppendProperties DEF MB!TypeOK, MB!Put
  <1>2. /\ MB!History' \in Seq(MB!Item)
        /\ Len(MB!History') = Len(got') + Len(q')
        /\ \A i \in 1 .. Len(MB!History') :
              MB!History'[i] = IF i <= Len(got') THEN got'[i] ELSE q'[i - Len(got')]
    BY ConcatProperties DEF MB!TypeOK, MB!History
  <1>3. /\ Len(MB!History) = Len(got) + Len(q)
        /\ \A i \in 1 .. Len(MB!History) :
              MB!History[i] = IF i <= Len(got) THEN got[i] ELSE q[i - Len(got)]
        /\ Len(got) \in Nat
        /\ Len(q) \in Nat
    BY HistoryFacts, LenProperties DEF MB!TypeOK
  <1>4. Len(MB!History') = Len(MB!History) + 1
    BY <1>1, <1>2, <1>3
  <1>5. MB!History'[Len(MB!History) + 1] = <<p, sent[p] + 1>>
    BY <1>1, <1>2, <1>3, <1>4
  <1>6. ASSUME NEW i \in 1 .. Len(MB!History)
        PROVE  MB!History'[i] = MB!History[i]
    <2>1. CASE i <= Len(got)
      BY <1>1, <1>2, <1>3, <1>4, <2>1
    <2>2. CASE i > Len(got)
      <3>1. i - Len(got) \in 1 .. Len(q)
        BY <1>3, <2>2
      <3>2. i \in 1 .. Len(MB!History') /\ ~(i <= Len(got))
        BY <1>3, <1>4, <2>2
      <3>3. MB!History'[i] = q'[i - Len(got)]
        <4>1. MB!History'[i] = IF i <= Len(got') THEN got'[i] ELSE q'[i - Len(got')]
          BY <1>2, <3>2
        <4> QED
          BY <1>1, <3>2, <4>1
      <3>4. MB!History[i] = q[i - Len(got)]
        BY <1>3, <3>2
      <3> QED
        BY <1>1, <3>1, <3>3, <3>4
    <2> QED
      BY <1>3, <2>1, <2>2
  <1> QED
    BY <1>4, <1>5, <1>6

LEMMA ChannelTypeInit == MB!Init => MB!TypeOK
  BY EmptySeq DEF MB!Init, MB!TypeOK

LEMMA ChannelTypeNext == MB!TypeOK /\ [MB!Next]_(MB!vars) => MB!TypeOK'
  <1> SUFFICES ASSUME MB!TypeOK, [MB!Next]_(MB!vars)
               PROVE  MB!TypeOK'
    OBVIOUS
  <1>1. ASSUME NEW p \in Producers, MB!Put(p)
        PROVE  MB!TypeOK'
    <2>1. sent[p] + 1 \in Nat
      BY <1>1 DEF MB!Put, MB!TypeOK
    <2>2. <<p, sent[p] + 1>> \in MB!Item
      BY <2>1 DEF MB!Item
    <2> QED
      BY <1>1, <2>1, <2>2, AppendProperties DEF MB!Put, MB!TypeOK
  <1>2. CASE MB!Take
    <2>1. Head(q) \in MB!Item /\ Tail(q) \in Seq(MB!Item)
      BY <1>2, HeadTailProperties DEF MB!Take, MB!TypeOK
    <2> QED
      BY <1>2, <2>1, AppendProperties DEF MB!Take, MB!TypeOK
  <1>3. CASE UNCHANGED MB!vars
    BY <1>3 DEF MB!vars, MB!TypeOK
  <1> QED
    BY <1>1, <1>2, <1>3 DEF MB!Next

LEMMA ChannelFifoNext ==
    MB!TypeOK /\ MB!FifoPerProducer /\ [MB!Next]_(MB!vars) => MB!FifoPerProducer'
  <1> SUFFICES ASSUME MB!TypeOK, MB!FifoPerProducer, [MB!Next]_(MB!vars)
               PROVE  MB!FifoPerProducer'
    OBVIOUS
  <1>1. MB!TypeOK'
    BY ChannelTypeNext
  <1>2. ASSUME NEW p \in Producers, MB!Put(p)
        PROVE  MB!FifoPerProducer'
    <2> DEFINE last == Len(MB!History) + 1
    <2>1. /\ Len(MB!History') = last
          /\ MB!History'[last] = <<p, sent[p] + 1>>
          /\ \A i \in 1 .. Len(MB!History) : MB!History'[i] = MB!History[i]
      BY <1>1, <1>2, PutExtendsHistory
    <2>2. Len(MB!History) \in Nat
      BY HistoryFacts, LenProperties
    <2>3. /\ sent[p] \in Nat
          /\ sent'[p] = sent[p] + 1
          /\ \A r \in Producers : r # p => sent'[r] = sent[r]
          /\ \A r \in Producers : sent[r] \in Nat
      BY <1>2 DEF MB!Put, MB!TypeOK
    <2>4. \A i \in 1 .. Len(MB!History) :
             MB!History[i][1] \in Producers /\ MB!History[i][2] \in Nat
      BY HistoryFacts, ElementOfSeq DEF MB!Item
    <2>5. \A i \in 1 .. last : i = last \/ i \in 1 .. Len(MB!History)
      BY <2>2
    <2>6. ASSUME NEW i \in 1 .. last
          PROVE  MB!History'[i][2] \in 1 .. sent'[MB!History'[i][1]]
      <3>1. CASE i = last
        BY <2>1, <2>3, <3>1
      <3>2. CASE i \in 1 .. Len(MB!History)
        <4> DEFINE r == MB!History[i][1]
        <4>1. /\ MB!History'[i] = MB!History[i]
              /\ r \in Producers /\ MB!History[i][2] \in 1 .. sent[r]
          BY <2>1, <2>4, <3>2 DEF MB!FifoPerProducer
        <4>2. sent[r] \in Nat /\ sent'[r] \in Nat /\ sent[r] <= sent'[r]
          BY <2>3, <4>1
        <4> QED
          BY <4>1, <4>2
      <3> QED
        BY <2>5, <3>1, <3>2
    <2>7. ASSUME NEW r \in Producers, NEW n \in 1 .. sent'[r]
          PROVE  \E i \in 1 .. last : MB!History'[i] = <<r, n>>
      <3>1. CASE r = p /\ n = sent[p] + 1
        BY <2>1, <2>2, <3>1
      <3>2. CASE n \in 1 .. sent[r]
        <4>1. PICK i \in 1 .. Len(MB!History) : MB!History[i] = <<r, n>>
          BY <3>2 DEF MB!FifoPerProducer
        <4> QED
          BY <2>1, <2>2, <4>1
      <3> QED
        BY <2>3, <3>1, <3>2
    <2>8. ASSUME NEW i \in 1 .. last, NEW j \in 1 .. last,
                 i < j, MB!History'[i][1] = MB!History'[j][1]
          PROVE  MB!History'[i][2] < MB!History'[j][2]
      <3>1. i \in 1 .. Len(MB!History)
        BY <2>2, <2>8
      <3>2. CASE j = last
        BY <2>1, <2>3, <2>4, <2>8, <3>1, <3>2 DEF MB!FifoPerProducer
      <3>3. CASE j \in 1 .. Len(MB!History)
        BY <2>1, <2>8, <3>1, <3>3 DEF MB!FifoPerProducer
      <3> QED
        BY <2>5, <3>2, <3>3
    <2> QED
      BY <2>1, <2>6, <2>7, <2>8 DEF MB!FifoPerProducer
  <1>3. CASE MB!Take
    <2>1. MB!History' = MB!History /\ sent' = sent
      BY <1>1, <1>3, TakeKeepsHistory DEF MB!Take
    <2> QED
      BY <2>1 DEF MB!FifoPerProducer
  <1>4. CASE UNCHANGED MB!vars
    BY <1>4 DEF MB!vars, MB!FifoPerProducer, MB!History
  <1> QED
    BY <1>2, <1>3, <1>4 DEF MB!Next

LEMMA ChannelFifoInit == MB!Init => MB!FifoPerProducer
  <1> SUFFICES ASSUME MB!Init
               PROVE  MB!FifoPerProducer
    OBVIOUS
  <1>1. MB!TypeOK /\ Len(got) = 0 /\ Len(q) = 0
    BY ChannelTypeInit, EmptySeq DEF MB!Init
  <1>2. Len(MB!History) = 0
    BY <1>1, HistoryFacts
  <1> QED
    BY <1>2 DEF MB!Init, MB!FifoPerProducer

\* A FIFO channel neither loses, repeats nor reorders what one producer pushed:
\* what Queue<T> promises (os/queue.hxx), for any producers and any bound.
THEOREM MailboxFifo == MB!SafeSpec => []MB!FifoPerProducer
  BY ChannelTypeInit, ChannelTypeNext, ChannelFifoInit, ChannelFifoNext, PTL
  DEF MB!SafeSpec

-----------------------------------------------------------------------------
\* A step of push or pop is a step of the channel or leaves the channel alone.
LEMMA StepRefines == IInv /\ [Next]_vars => [MB!Next]_(MB!vars)
  <1> SUFFICES ASSUME IInv, [Next]_vars
               PROVE  [MB!Next]_(MB!vars)
    OBVIOUS
  <1> USE DEF MB!vars
  <1>1. ASSUME NEW p \in Producers, PushItem(p)
        PROVE  MB!Put(p)
    BY <1>1 DEF PushItem, MB!Put, IInv, PushWithinBound
  <1>2. ASSUME PopFront
        PROVE  MB!Take
    BY <1>2 DEF PopFront, MB!Take
  <1>3. ASSUME NEW p \in Producers, PushLock(p) \/ PushSet(p) \/ PushUnlock(p)
        PROVE  UNCHANGED <<q, sent, got>>
    BY <1>3 DEF PushLock, PushSet, PushUnlock
  <1>4. ASSUME PopLock \/ PopSeesEmpty \/ PopWait \/ PopUnlock \/ UNCHANGED vars
        PROVE  UNCHANGED <<q, sent, got>>
    BY <1>4 DEF PopLock, PopSeesEmpty, PopWait, PopUnlock, vars
  <1> QED
    BY <1>1, <1>2, <1>3, <1>4 DEF Next, Push, Pop, MB!Next

LEMMA InitRefines == Init => MB!Init
  BY DEF Init, MB!Init

\* Queue<T> implements the FIFO channel (its safety; the fairness is checked by
\* the model checker).
THEOREM QueueImplementsMailbox == SafeSpec => MB!SafeSpec
  BY InitRefines, StepRefines, SpecIInv, PTL DEF SafeSpec, MB!SafeSpec

\* pop returns the items of each producer once each and in the order of its
\* pushes (os/queue.hxx:12-28).
THEOREM QueuePoppedInOrder == SafeSpec => []PoppedInOrder
  <1>1. MB!SafeSpec => []MB!FifoPerProducer
    BY MailboxFifo
  <1>2. MB!FifoPerProducer <=> PoppedInOrder
    BY DEF PoppedInOrder
  <1> QED
    BY <1>1, <1>2, QueueImplementsMailbox, PTL
=============================================================================
