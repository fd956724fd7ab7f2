--------------------------- MODULE Executor_proofs ---------------------------
(***************************************************************************)
(* Proofs about the executor and the event bits of its Delivers, for every *)
(* number of clients, jobs, sets and bits.  The hand-over of jobs from the *)
(* clients to the polling thread is in order and without loss or           *)
(* repetition, whatever becomes of the list Post::delivers.  As long as no *)
(* bitset changes while a free of the same set is between its read and its *)
(* write, no event bit has two owners and none is lost.                    *)
(***************************************************************************)
EXTENDS ExecutorEvents, SequenceTheorems, FiniteSetTheorems, WellFoundedInduction,
        TLAPS

-----------------------------------------------------------------------------
(* Sequences *)

\* What is appended to the last of three parts is appended to the whole.
LEMMA AppendToLast ==
  ASSUME NEW S, NEW a \in Seq(S), NEW b \in Seq(S), NEW c \in Seq(S), NEW x \in S
  PROVE  a \o b \o Append(c, x) = Append(a \o b \o c, x)
  <1>1. a \o b \in Seq(S) /\ <<x>> \in Seq(S)
    BY ConcatProperties
  <1>2. (a \o b) \o c \in Seq(S)
    BY <1>1, ConcatProperties
  <1>3. Append(c, x) = c \o <<x>> /\ Append(a \o b \o c, x) = (a \o b \o c) \o <<x>>
    BY <1>2, AppendIsConcat
  <1> QED
    BY <1>1, <1>3, ConcatAssociative

\* The head of the last part may as well be a part of its own.
LEMMA HeadAside ==
  ASSUME NEW S, NEW a \in Seq(S), NEW c \in Seq(S), c # <<>>
  PROVE  a \o <<>> \o c = a \o <<Head(c)>> \o Tail(c)
  <1>1. /\ Head(c) \in S /\ Tail(c) \in Seq(S) /\ Len(Tail(c)) = Len(c) - 1
        /\ \A i \in 1 .. Len(Tail(c)) : Tail(c)[i] = c[i + 1]
    BY HeadTailProperties
  <1>2. Len(c) \in Nat /\ Len(c) > 0 /\ Head(c) = c[1]
    BY EmptySeq, LenProperties
  <1>3. <<Head(c)>> \in Seq(S) /\ Len(<<Head(c)>>) = 1 /\ <<Head(c)>>[1] = Head(c)
    BY <1>1
  <1> DEFINE h == <<Head(c)>>
             t == Tail(c)
  <1>4. h \o t = c
    <2> HIDE DEF h, t
    <2>1. /\ h \o t \in Seq(S) /\ Len(h \o t) = Len(h) + Len(t)
          /\ \A i \in 1 .. Len(h) + Len(t) :
                (h \o t)[i] = IF i <= Len(h) THEN h[i] ELSE t[i - Len(h)]
      BY <1>1, <1>3, ConcatProperties DEF h, t
    <2>2. Len(h) = 1 /\ Len(t) = Len(c) - 1 /\ Len(h \o t) = Len(c)
      BY <1>1, <1>2, <1>3, <2>1 DEF h, t
    <2>3. ASSUME NEW i \in 1 .. Len(h \o t)
          PROVE  (h \o t)[i] = c[i]
      <3>1. CASE i = 1
        BY <1>2, <1>3, <2>1, <2>2, <3>1 DEF h
      <3>2. CASE i > 1
        <4>1. i - 1 \in 1 .. Len(t)
          BY <1>2, <2>2, <2>3, <3>2
        <4>2. (h \o t)[i] = t[i - 1]
          BY <1>2, <2>1, <2>2, <2>3, <3>2
        <4>3. t[i - 1] = c[i]
          BY <1>1, <4>1 DEF t
        <4> QED
          BY <4>2, <4>3
      <3> QED
        BY <1>2, <2>2, <3>1, <3>2
    <2> QED
      BY <2>1, <2>2, <2>3, SeqEqual
  <1>5. a \o (h \o t) = (a \o h) \o t
    BY <1>1, <1>3, ConcatAssociative
  <1>6. a \o <<>> = a
    BY ConcatEmptySeq
  <1> QED
    BY <1>4, <1>5, <1>6

\* The middle part of one element may as well be appended to the first.
LEMMA MiddleAppended ==
  ASSUME NEW S, NEW a \in Seq(S), NEW c \in Seq(S), NEW x \in S
  PROVE  a \o <<x>> \o c = Append(a, x) \o <<>> \o c
  <1>1. Append(a, x) \in Seq(S)
    BY AppendProperties
  <1>2. Append(a, x) \o <<>> = Append(a, x)
    BY <1>1, ConcatEmptySeq
  <1>3. a \o <<x>> = Append(a, x)
    BY AppendIsConcat
  <1> QED
    BY <1>2, <1>3

-----------------------------------------------------------------------------
(* The inductive invariant *)

\* The program starts with nobody in exec and nothing queued.
LEMMA IInvInit == Init => IInv
  <1> SUFFICES ASSUME Init
               PROVE  IInv
    OBVIOUS
  <1>1. TypeOK
    BY JobAssumption, EmptySeq DEF Init, TypeOK, PollerPlaces, ClientPlaces
  <1>2. PlacesFitJobs
    BY DEF Init, PlacesFitJobs
  <1>3. QueuedHasCall
    BY DEF Init, QueuedHasCall
  <1>4. ServedOnceInOrder
    <2>1. served \o InHand \o queue = <<>>
      BY ConcatEmptySeq, EmptySeq DEF Init, InHand
    <2> QED
      BY <2>1 DEF Init, ServedOnceInOrder
  <1> QED
    BY <1>1, <1>2, <1>3, <1>4 DEF IInv

\* The job in a client's hands is one of its own.
LEMMA ClientHolds ==
  ASSUME TypeOK, PlacesFitJobs, NEW c \in Clients, cpc[c] # "idle"
  PROVE  /\ cjob[c] \in Posted
         /\ \A d \in Clients \ {c} : cjob[d] # cjob[c]
  <1>1. Caller[cjob[c]] = c /\ cjob[c] # None /\ cjob[c] \in Jobs
    BY DEF TypeOK, PlacesFitJobs
  <1>2. ASSUME NEW d \in Clients \ {c}
        PROVE  cjob[d] # cjob[c]
    <2>1. CASE cpc[d] = "idle"
      BY <1>1, <2>1 DEF PlacesFitJobs
    <2>2. CASE cpc[d] # "idle"
      BY <1>1, <2>2 DEF PlacesFitJobs
    <2> QED
      BY <2>1, <2>2
  <1> QED
    BY <1>1, <1>2 DEF Posted

\* The Deliver poll has popped is one that was posted, and is not queued again.
LEMMA InHandPosted ==
  ASSUME TypeOK, ServedOnceInOrder, ppc = "invoke", cur \in Jobs
  PROVE  /\ \E i \in 1 .. Len(posted) : posted[i] = cur
         /\ cur \in Posted
         /\ \A i \in 1 .. Len(queue) : queue[i] # cur
  <1>1. /\ served \in Seq(Jobs) /\ queue \in Seq(Jobs) /\ <<cur>> \in Seq(Jobs)
        /\ posted \in Seq(Posted)
    BY SeqMonotonic DEF TypeOK, Posted
  <1>2. served \o <<cur>> \o queue = posted
    BY DEF ServedOnceInOrder, InHand
  <1> DEFINE front == served \o <<cur>>
             n     == Len(served) + 1
  <1>3. Len(served) \in Nat /\ Len(queue) \in Nat
    BY <1>1, LenProperties
  <1>4. /\ front \in Seq(Jobs) /\ Len(front) = n /\ front[n] = cur
    BY <1>1, <1>3, ConcatProperties
  <1> HIDE DEF front
  <1>5. /\ Len(posted) = n + Len(queue)
        /\ \A i \in 1 .. n + Len(queue) :
              posted[i] = IF i <= n THEN front[i] ELSE queue[i - n]
    <2>1. posted = front \o queue
      BY <1>2 DEF front
    <2>2. /\ Len(front \o queue) = Len(front) + Len(queue)
          /\ \A i \in 1 .. Len(front) + Len(queue) :
                (front \o queue)[i] =
                    IF i <= Len(front) THEN front[i] ELSE queue[i - Len(front)]
      BY <1>1, <1>4, ConcatProperties
    <2> QED
      BY <1>4, <2>1, <2>2
  <1>6. n \in 1 .. Len(posted) /\ posted[n] = cur
    BY <1>3, <1>4, <1>5
  <1>7. ASSUME NEW i \in 1 .. Len(queue)
        PROVE  queue[i] # cur
    <2>1. n + i \in 1 .. Len(posted) /\ n + i # n /\ n + i > n
      BY <1>3, <1>5
    <2>2. posted[n + i] = queue[n + i - n]
      BY <1>3, <1>5, <2>1
    <2>3. n + i - n = i
      BY <1>3
    <2>4. posted[n + i] # posted[n]
      BY <1>6, <2>1 DEF ServedOnceInOrder
    <2> QED
      BY <1>6, <2>2, <2>3, <2>4
  <1> QED
    BY <1>1, <1>6, <1>7, ElementOfSeq

\* Every step keeps the types.
LEMMA TypeNext == IInv /\ [Next]_vars => TypeOK'
  <1> SUFFICES ASSUME IInv, [Next]_vars
               PROVE  TypeOK'
    OBVIOUS
  <1> USE DEF TypeOK, ClientPlaces, PollerPlaces
  <1>0. TypeOK /\ PlacesFitJobs /\ QueuedHasCall /\ ServedOnceInOrder
    BY DEF IInv
  <1>1. ASSUME NEW c \in Clients, PushBackNode(c)
        PROVE  TypeOK'
    BY <1>0, <1>1 DEF PushBackNode, Posted
  <1>2. ASSUME NEW c \in Clients, PushBackLink(c)
        PROVE  TypeOK'
    <2>1. cjob[c] \in Posted
      BY <1>0, <1>2, ClientHolds DEF PushBackLink
    <2> QED
      BY <1>0, <1>2, <2>1 DEF PushBackLink, Posted
  <1>3. ASSUME NEW c \in Clients, PushBackClose(c)
        PROVE  TypeOK'
    <2>1. cjob[c] \in Posted
      BY <1>0, <1>3, ClientHolds DEF PushBackClose
    <2> QED
      BY <1>0, <1>3, <2>1 DEF PushBackClose, Posted
  <1>4. ASSUME NEW c \in Clients, PushArgs(c)
        PROVE  TypeOK'
    <2>1. cjob[c] \in Jobs
      BY <1>0, <1>4, ClientHolds DEF PushArgs, Posted
    <2>2. ctx' \in [Jobs -> Nat]
      BY <1>0, <1>4, <2>1 DEF PushArgs
    <2> QED
      BY <1>0, <1>4, <2>2 DEF PushArgs
  <1>5. ASSUME NEW c \in Clients, Enqueue(c)
        PROVE  TypeOK'
    <2>1. cjob[c] \in Posted /\ cjob[c] \in Jobs
      BY <1>0, <1>5, ClientHolds DEF Enqueue, Posted
    <2>2. queue' \in Seq(Jobs) /\ posted' \in Seq(Posted)
      BY <1>0, <1>5, <2>1, AppendProperties DEF Enqueue
    <2> QED
      BY <1>0, <1>5, <2>2 DEF Enqueue
  <1>6. ASSUME NEW c \in Clients, ExecReturn(c)
        PROVE  TypeOK'
    BY <1>0, <1>6 DEF ExecReturn
  <1>7. CASE Pop
    <2>1. cur' \in Jobs /\ queue' \in Seq(Jobs)
      BY <1>0, <1>7, HeadTailProperties DEF Pop
    <2> QED
      BY <1>0, <1>7, <2>1 DEF Pop
  <1>8. CASE Invoke
    <2>1. cur \in Jobs /\ ctx[cur] \in Nat /\ ctx[cur] > 0
      BY <1>0, <1>8 DEF Invoke, PlacesFitJobs, QueuedHasCall
    <2>2. RunJob
      BY <1>8, <2>1 DEF Invoke
    <2>3. cur \in Posted
      BY <1>0, <1>8, <2>1, InHandPosted DEF Invoke
    <2>4. served' \in Seq(Posted)
      BY <1>0, <2>2, <2>3, AppendProperties DEF RunJob
    <2>5. ctx' \in [Jobs -> Nat]
      BY <1>0, <2>1, <2>2 DEF RunJob
    <2>6. done' \subseteq Jobs /\ ppc' \in PollerPlaces
      BY <1>0, <2>1, <2>2, JobAssumption DEF RunJob
    <2> QED
      BY <1>0, <1>8, <2>4, <2>5, <2>6 DEF Invoke
  <1>9. CASE Wake
    <2>1. cur \in Jobs
      BY <1>0, <1>9 DEF Wake, PlacesFitJobs
    <2> QED
      BY <1>0, <1>9, <2>1 DEF Wake
  <1>10. CASE Dispose
    <2>1. cur \in Jobs
      BY <1>0, <1>10 DEF Dispose, PlacesFitJobs
    <2>2. prv[cur] \in Jobs \cup {End} /\ nxt[cur] \in Jobs \cup {End}
      BY <1>0, <2>1
    <2>3. nxt' \in [Jobs \cup {End} -> Jobs \cup {End}]
      BY <1>0, <1>10, <2>2 DEF Dispose, list
    <2>4. prv' \in [Jobs \cup {End} -> Jobs \cup {End}]
      BY <1>0, <1>10, <2>2 DEF Dispose, list
    <2>5. nodes' \subseteq Jobs
      BY <1>0, <1>10 DEF Dispose, list
    <2>6. torn' \in BOOLEAN
      BY <1>0, <1>10 DEF Dispose, list
    <2> QED
      BY <1>0, <1>10, <2>3, <2>4, <2>5, <2>6 DEF Dispose
  <1>11. CASE Drop
    BY <1>0, <1>11 DEF Drop
  <1>12. CASE UNCHANGED vars
    BY <1>0, <1>12 DEF vars
  <1> QED
    BY <1>1, <1>2, <1>3, <1>4, <1>5, <1>6, <1>7, <1>8, <1>9, <1>10, <1>11, <1>12
    DEF Next, Exec, Poll

\* Every step keeps the places of the threads and the jobs they hold in accord.
LEMMA PlacesNext == IInv /\ [Next]_vars => PlacesFitJobs'
  <1> SUFFICES ASSUME IInv, [Next]_vars
               PROVE  PlacesFitJobs'
    OBVIOUS
  <1>0. TypeOK /\ PlacesFitJobs
    BY DEF IInv
  <1> USE DEF PlacesFitJobs
  <1>1. ASSUME NEW c \in Clients, PushBackNode(c)
        PROVE  PlacesFitJobs'
    <2>1. PICK j \in Posted :
             /\ Caller[j] = c
             /\ \A i \in 1 .. Len(posted) : posted[i] # j
             /\ cjob' = [cjob EXCEPT ![c] = j]
      BY <1>1 DEF PushBackNode
    <2>2. j # None
      BY JobAssumption DEF Posted
    <2>3. cpc' = [cpc EXCEPT ![c] = "link"]
          /\ UNCHANGED <<ppc, cur, ctx, posted>>
      BY <1>1 DEF PushBackNode
    <2> QED
      BY <1>0, <2>1, <2>2, <2>3 DEF TypeOK
  <1>2. ASSUME NEW c \in Clients, PushBackLink(c)
        PROVE  PlacesFitJobs'
    BY <1>0, <1>2 DEF PushBackLink, TypeOK
  <1>3. ASSUME NEW c \in Clients, PushBackClose(c)
        PROVE  PlacesFitJobs'
    BY <1>0, <1>3 DEF PushBackClose, TypeOK
  <1>4. ASSUME NEW c \in Clients, PushArgs(c)
        PROVE  PlacesFitJobs'
    <2>1. /\ cjob[c] \in Jobs
          /\ \A d \in Clients \ {c} : cjob[d] # cjob[c]
      BY <1>0, <1>4, ClientHolds DEF PushArgs, Posted
    <2>2. ctx'[cjob[c]] > 0 /\ \A j \in Jobs \ {cjob[c]} : ctx'[j] = ctx[j]
      BY <1>0, <1>4, <2>1 DEF PushArgs, TypeOK
    <2>3. cpc' = [cpc EXCEPT ![c] = "enqueue"]
          /\ UNCHANGED <<ppc, cur, cjob, posted>>
      BY <1>4 DEF PushArgs
    <2>4. ASSUME NEW d \in Clients, cpc'[d] = "enqueue"
          PROVE  ctx'[cjob'[d]] > 0
      <3>1. CASE d = c
        BY <2>2, <2>3, <3>1
      <3>2. CASE d # c
        <4>1. cpc[d] = "enqueue" /\ cjob[d] \in Jobs
          BY <1>0, <2>3, <2>4, <3>2 DEF TypeOK
        <4> QED
          BY <1>0, <2>1, <2>2, <2>3, <3>2, <4>1
      <3> QED
        BY <3>1, <3>2
    <2>5. cpc[c] = "args"
      BY <1>4 DEF PushArgs
    <2> QED
      BY <1>0, <2>3, <2>4, <2>5 DEF TypeOK
  <1>5. ASSUME NEW c \in Clients, Enqueue(c)
        PROVE  PlacesFitJobs'
    <2>1. /\ cjob[c] \in Posted
          /\ \A d \in Clients \ {c} : cjob[d] # cjob[c]
      BY <1>0, <1>5, ClientHolds DEF Enqueue
    <2>2. /\ Len(posted') = Len(posted) + 1 /\ Len(posted) \in Nat
          /\ \A i \in 1 .. Len(posted) : posted'[i] = posted[i]
          /\ posted'[Len(posted) + 1] = cjob[c]
      BY <1>0, <1>5, <2>1, AppendProperties, LenProperties DEF Enqueue, TypeOK
    <2>3. cpc' = [cpc EXCEPT ![c] = "return"] /\ cpc[c] = "enqueue"
          /\ UNCHANGED <<ppc, cur, cjob, ctx>>
      BY <1>5 DEF Enqueue
    <2>4. ASSUME NEW d \in Clients, NEW i \in 1 .. Len(posted'),
                 cpc'[d] \in {"link", "close", "args", "enqueue"}
          PROVE  posted'[i] # cjob'[d]
      <3>1. d # c /\ cpc[d] = cpc'[d]
        BY <1>0, <2>3, <2>4 DEF TypeOK
      <3>2. CASE i = Len(posted) + 1
        BY <2>1, <2>2, <2>3, <3>1, <3>2
      <3>3. CASE i # Len(posted) + 1
        <4>1. i \in 1 .. Len(posted)
          BY <2>2, <3>3
        <4> QED
          BY <1>0, <2>2, <2>3, <2>4, <3>1, <4>1
      <3> QED
        BY <3>2, <3>3
    <2> QED
      BY <1>0, <2>3, <2>4 DEF TypeOK
  <1>6. ASSUME NEW c \in Clients, ExecReturn(c)
        PROVE  PlacesFitJobs'
    BY <1>0, <1>6 DEF ExecReturn, TypeOK
  <1>7. CASE Pop
    <2>1. Head(queue) \in Jobs
      BY <1>0, <1>7, HeadTailProperties DEF Pop, TypeOK
    <2>2. Head(queue) # None
      BY <2>1, JobAssumption
    <2> QED
      BY <1>0, <1>7, <2>2 DEF Pop
  <1>8. CASE Invoke
    <2>1. cur \in Jobs /\ ctx[cur] > 0 /\ RunJob
      BY <1>0, <1>8 DEF Invoke, TypeOK, IInv, QueuedHasCall
    <2>2. \E i \in 1 .. Len(posted) : posted[i] = cur
      BY <1>0, <1>8, <2>1, InHandPosted DEF Invoke, IInv
    <2>3. \A j \in Jobs \ {cur} : ctx'[j] = ctx[j]
      BY <1>0, <2>1 DEF RunJob, TypeOK
    <2>4. UNCHANGED <<cur, cpc, cjob, posted>> /\ ppc = "invoke"
          /\ ppc' \in {"asleep", "dispose"}
      BY <1>8, <2>1 DEF Invoke, RunJob
    <2>5. ASSUME NEW d \in Clients, cpc[d] = "enqueue"
          PROVE  ctx'[cjob[d]] > 0
      <3>1. cjob[d] # cur /\ cjob[d] \in Jobs
        BY <1>0, <2>2, <2>5 DEF TypeOK
      <3> QED
        BY <1>0, <2>3, <2>5, <3>1
    <2> QED
      BY <1>0, <2>4, <2>5
  <1>9. CASE Wake
    BY <1>0, <1>9 DEF Wake
  <1>10. CASE Dispose
    BY <1>0, <1>10 DEF Dispose
  <1>11. CASE Drop
    BY <1>0, <1>11 DEF Drop
  <1>12. CASE UNCHANGED vars
    BY <1>0, <1>12 DEF vars
  <1> QED
    BY <1>1, <1>2, <1>3, <1>4, <1>5, <1>6, <1>7, <1>8, <1>9, <1>10, <1>11, <1>12
    DEF Next, Exec, Poll

\* A job is queued only after its arguments, and popped before its next turn.
LEMMA CallNext == IInv /\ [Next]_vars => QueuedHasCall'
  <1> SUFFICES ASSUME IInv, [Next]_vars
               PROVE  QueuedHasCall'
    OBVIOUS
  <1>0. TypeOK /\ PlacesFitJobs /\ QueuedHasCall /\ ServedOnceInOrder
    BY DEF IInv
  <1> USE DEF QueuedHasCall
  <1>1. ASSUME NEW c \in Clients,
               \/ PushBackNode(c) \/ PushBackLink(c) \/ PushBackClose(c)
               \/ ExecReturn(c)
        PROVE  QueuedHasCall'
    BY <1>0, <1>1 DEF PushBackNode, PushBackLink, PushBackClose, ExecReturn
  <1>2. ASSUME NEW c \in Clients, PushArgs(c)
        PROVE  QueuedHasCall'
    <2>1. cjob[c] \in Jobs
      BY <1>0, <1>2, ClientHolds DEF PushArgs, Posted
    <2>2. \A j \in Jobs : ctx[j] > 0 => ctx'[j] > 0
      BY <1>0, <1>2, <2>1 DEF PushArgs, TypeOK
    <2>3. \A i \in 1 .. Len(queue) : queue[i] \in Jobs
      BY <1>0, ElementOfSeq DEF TypeOK
    <2>4. ppc # "invoke"
      BY <1>2 DEF PushArgs, PollerReady
    <2> QED
      BY <1>0, <1>2, <2>2, <2>3, <2>4 DEF PushArgs
  <1>3. ASSUME NEW c \in Clients, Enqueue(c)
        PROVE  QueuedHasCall'
    <2>1. cjob[c] \in Jobs /\ ctx[cjob[c]] > 0
      BY <1>0, <1>3, ClientHolds DEF Enqueue, Posted, PlacesFitJobs
    <2>2. /\ Len(queue') = Len(queue) + 1 /\ Len(queue) \in Nat
          /\ \A i \in 1 .. Len(queue) : queue'[i] = queue[i]
          /\ queue'[Len(queue) + 1] = cjob[c]
      BY <1>0, <1>3, <2>1, AppendProperties, LenProperties DEF Enqueue, TypeOK
    <2>3. ASSUME NEW i \in 1 .. Len(queue')
          PROVE  ctx[queue'[i]] > 0
      <3>1. CASE i = Len(queue) + 1
        BY <2>1, <2>2, <3>1
      <3>2. CASE i # Len(queue) + 1
        <4>1. i \in 1 .. Len(queue)
          BY <2>2, <3>2
        <4> QED
          BY <1>0, <2>2, <4>1
      <3> QED
        BY <3>1, <3>2
    <2> QED
      BY <1>0, <1>3, <2>3 DEF Enqueue
  <1>4. CASE Pop
    <2>1. /\ Len(queue') = Len(queue) - 1
          /\ \A i \in 1 .. Len(queue') : queue'[i] = queue[i + 1]
          /\ Len(queue) \in Nat /\ Len(queue) > 0 /\ Head(queue) = queue[1]
      BY <1>0, <1>4, HeadTailProperties, EmptySeq, LenProperties DEF Pop, TypeOK
    <2>2. ctx[queue[1]] > 0
      BY <1>0, <2>1
    <2>3. ASSUME NEW i \in 1 .. Len(queue')
          PROVE  ctx[queue'[i]] > 0
      <3>1. i + 1 \in 1 .. Len(queue)
        BY <2>1
      <3> QED
        BY <1>0, <2>1, <3>1
    <2> QED
      BY <1>4, <2>1, <2>2, <2>3 DEF Pop
  <1>5. CASE Invoke
    <2>1. cur \in Jobs /\ ctx[cur] > 0 /\ RunJob
      BY <1>0, <1>5 DEF Invoke, TypeOK, PlacesFitJobs
    <2>2. \A i \in 1 .. Len(queue) : queue[i] # cur /\ queue[i] \in Jobs
      BY <1>0, <1>5, <2>1, InHandPosted, ElementOfSeq DEF Invoke, TypeOK
    <2>3. \A j \in Jobs \ {cur} : ctx'[j] = ctx[j]
      BY <1>0, <2>1 DEF RunJob, TypeOK
    <2>4. UNCHANGED queue /\ ppc' # "invoke"
      BY <1>5, <2>1 DEF Invoke, RunJob
    <2> QED
      BY <1>0, <2>2, <2>3, <2>4
  <1>6. CASE Wake
    BY <1>0, <1>6 DEF Wake
  <1>7. CASE Dispose
    BY <1>0, <1>7 DEF Dispose
  <1>8. CASE Drop
    BY <1>0, <1>8 DEF Drop
  <1>9. CASE UNCHANGED vars
    BY <1>0, <1>9 DEF vars
  <1> QED
    BY <1>1, <1>2, <1>3, <1>4, <1>5, <1>6, <1>7, <1>8, <1>9
    DEF Next, Exec, Poll

\* Every step keeps the order: what is posted goes to the end, what is popped was
\* first.
LEMMA OrderNext == IInv /\ [Next]_vars => ServedOnceInOrder'
  <1> SUFFICES ASSUME IInv, [Next]_vars
               PROVE  ServedOnceInOrder'
    OBVIOUS
  <1>0. TypeOK /\ PlacesFitJobs /\ QueuedHasCall /\ ServedOnceInOrder
    BY DEF IInv
  <1>a. queue \in Seq(Jobs) /\ served \in Seq(Jobs) /\ posted \in Seq(Posted)
    BY <1>0, SeqMonotonic DEF TypeOK, Posted
  <1> USE DEF ServedOnceInOrder
  <1>1. ASSUME NEW c \in Clients,
               \/ PushBackNode(c) \/ PushBackLink(c) \/ PushBackClose(c)
               \/ PushArgs(c) \/ ExecReturn(c)
        PROVE  ServedOnceInOrder'
    BY <1>0, <1>1
    DEF PushBackNode, PushBackLink, PushBackClose, PushArgs, ExecReturn, InHand
  \* The job is appended to the queue and to the posts, and it is a new one.
  <1>2. ASSUME NEW c \in Clients, Enqueue(c)
        PROVE  ServedOnceInOrder'
    <2>1. /\ cjob[c] \in Posted /\ cjob[c] \in Jobs
          /\ \A i \in 1 .. Len(posted) : posted[i] # cjob[c]
      BY <1>0, <1>2, ClientHolds DEF Enqueue, Posted, PlacesFitJobs
    <2>2. /\ queue' = Append(queue, cjob[c]) /\ posted' = Append(posted, cjob[c])
          /\ served' = served /\ InHand' = InHand
      BY <1>2 DEF Enqueue, InHand
    <2>3. InHand \in Seq(Jobs)
      <3>1. CASE ppc = "invoke"
        <4>1. cur \in Jobs
          BY <1>0, <3>1 DEF TypeOK, PlacesFitJobs
        <4>2. <<cur>> \in Seq(Jobs)
          BY <4>1
        <4> QED
          BY <3>1, <4>2 DEF InHand
      <3>2. CASE ppc # "invoke"
        BY <3>2, EmptySeq DEF InHand
      <3> QED
        BY <3>1, <3>2
    <2>4. served' \o InHand' \o queue' = posted'
      <3>1. served \o InHand \o Append(queue, cjob[c])
                = Append(served \o InHand \o queue, cjob[c])
        BY <1>a, <2>1, <2>3, AppendToLast
      <3>2. served \o InHand \o queue = posted
        BY <1>0
      <3> QED
        BY <2>2, <3>1, <3>2, Zenon
    <2>5. /\ Len(posted') = Len(posted) + 1 /\ Len(posted) \in Nat
          /\ \A i \in 1 .. Len(posted) : posted'[i] = posted[i]
          /\ posted'[Len(posted) + 1] = cjob[c]
      BY <1>a, <2>1, <2>2, AppendProperties, LenProperties
    <2>6. ASSUME NEW i \in 1 .. Len(posted'), NEW k \in 1 .. Len(posted'),
                 posted'[i] = posted'[k]
          PROVE  i = k
      <3>1. CASE i \in 1 .. Len(posted) /\ k \in 1 .. Len(posted)
        BY <1>0, <2>5, <2>6, <3>1
      <3>2. CASE i \notin 1 .. Len(posted)
        <4>1. i = Len(posted) + 1
          BY <2>5, <3>2
        <4>2. k \notin 1 .. Len(posted)
          BY <2>1, <2>5, <2>6, <4>1
        <4> QED
          BY <2>5, <4>1, <4>2
      <3>3. CASE k \notin 1 .. Len(posted)
        <4>1. k = Len(posted) + 1
          BY <2>5, <3>3
        <4>2. i \notin 1 .. Len(posted)
          BY <2>1, <2>5, <2>6, <4>1
        <4> QED
          BY <2>5, <4>1, <4>2
      <3> QED
        BY <3>1, <3>2, <3>3
    <2> QED
      BY <2>4, <2>6
  \* The head of the queue moves into the poller's hand.
  <1>3. CASE Pop
    <2>0. ppc = "pop" /\ ppc' = "invoke" /\ cur' = Head(queue)
      BY <1>3 DEF Pop
    <2>a. InHand = <<>> /\ InHand' = <<Head(queue)>>
      BY <2>0 DEF InHand
    <2>1. /\ queue' = Tail(queue) /\ queue # <<>>
          /\ UNCHANGED <<served, posted>>
      BY <1>3 DEF Pop
    <2>2. served \o <<>> \o queue = served \o <<Head(queue)>> \o Tail(queue)
      BY <1>a, <2>1, HeadAside
    <2>3. served \o InHand \o queue = posted
      BY <1>0
    <2>4. served' \o InHand' \o queue' = posted'
      BY <2>a, <2>1, <2>2, <2>3, Zenon
    <2> QED
      BY <1>0, <2>1, <2>4
  \* The job in the poller's hand joins those that have begun.
  <1>4. CASE Invoke
    <2>1. cur \in Jobs /\ ctx[cur] > 0 /\ RunJob
      BY <1>0, <1>4 DEF Invoke, TypeOK, PlacesFitJobs, QueuedHasCall
    <2>2. /\ InHand = <<cur>> /\ InHand' = <<>> /\ served' = Append(served, cur)
          /\ UNCHANGED <<queue, posted>>
      BY <1>4, <2>1 DEF Invoke, RunJob, InHand
    <2>3. served \o <<cur>> \o queue = Append(served, cur) \o <<>> \o queue
      BY <1>a, <2>1, MiddleAppended
    <2> QED
      BY <1>0, <2>2, <2>3
  <1>5. CASE Wake
    BY <1>0, <1>5 DEF Wake, InHand
  <1>6. CASE Dispose
    BY <1>0, <1>6 DEF Dispose, InHand
  <1>7. CASE Drop
    BY <1>0, <1>7 DEF Drop, InHand
  <1>8. CASE UNCHANGED vars
    BY <1>0, <1>8 DEF vars, InHand
  <1> QED
    BY <1>1, <1>2, <1>3, <1>4, <1>5, <1>6, <1>7, <1>8
    DEF Next, Exec, Poll

\* The strengthening is inductive.
LEMMA IInvNext == IInv /\ [Next]_vars => IInv'
  BY TypeNext, PlacesNext, CallNext, OrderNext DEF IInv

\* Types, the places of the threads, the filled ctxQueues and the order of service
\* always fit together (os/task.hxx:12-18, os/post.cxx:6-22).
THEOREM ExecutorInvariant == Spec => []IInv
  BY IInvInit, IInvNext, PTL DEF Spec

\* Every posted job begins once, in the order of the posts: none is lost, none is
\* run twice, and none overtakes another, although the list that keeps the Delivers
\* alive may be torn by two clients (os/post.cxx:18-21, os/deliver.hxx:79-80).
THEOREM ExecutorServedOnceInOrder == Spec => []ServedOnceInOrder
  BY ExecutorInvariant, PTL DEF IInv

\* poll never finds the ctxQueue of a Deliver it has popped empty: each enqueue
\* makes its call (os/deliver.hxx:73, 79-82).
THEOREM ExecutorQueuedHasCall == Spec => []QueuedHasCall
  BY ExecutorInvariant, PTL DEF IInv

-----------------------------------------------------------------------------
(* Event bits: what the executor and the allocator keep together *)

\* A Deliver that has its Event was posted, or is on its way to the queue.
Fresh ==
    \A j \in Jobs : fpc[j] # "none" =>
        \/ \E i \in 1 .. Len(posted) : posted[i] = j
        \/ \E c \in Clients :
              /\ cjob[c] = j
              /\ cpc[c] \in {"link", "close", "args", "enqueue"}

\* The types of the allocator, and what an Event that does not exist has.
AllocTypes ==
    /\ bits \in [Sets -> SUBSET EA!Bits]
    /\ home \in [Events -> Sets \cup {NoSet}]
    /\ bitOf \in [Events -> EA!Bits]
    /\ fpc \in [Events -> {"none", "live", "write", "dispose"}]
    /\ word \in [Events -> (SUBSET EA!Bits) \cup {NoWord}]
    /\ raced \in BOOLEAN
    /\ \A e \in Events : /\ fpc[e] = "none" <=> home[e] = NoSet
                         /\ fpc[e] = "write" => word[e] \subseteq EA!Bits

\* The bits of a set are those of its Events, and an open free knows them.
Owned ==
    /\ \A s \in Sets :
          /\ bits[s] = {bitOf[e] : e \in EA!Holders(s)}
          /\ \A e, f \in EA!Holders(s) : bitOf[e] = bitOf[f] => e = f
    /\ \A e \in Events : fpc[e] = "write" => word[e] = bits[home[e]]
    /\ \A e \in Events : fpc[e] = "dispose" => bits[home[e]] = {}

\* What is always true of the allocator, and what until a race.
AllocInv == AllocTypes /\ (~raced => Owned)

-----------------------------------------------------------------------------
(* The least number, induction, and the least bit *)

\* A set with a well-founded order has a minimal member (the choice of the order is
\* kept out of sight).
LEMMA Minimal ==
    ASSUME NEW r, NEW W, IsWellFoundedOn(r, W), NEW M, M \subseteq W, M # {}
    PROVE  \E b \in M : \A a \in M : ~ (<<a, b>> \in r)
  BY WFMin

\* Every set of naturals that is not empty has a least member.
LEMMA Least ==
    ASSUME NEW M \in SUBSET Nat, M # {}
    PROVE  \E b \in M : \A a \in M : b <= a
  <1>1. PICK r : IsWellFoundedOn(r, Nat) /\ \A x, y \in Nat : x < y => <<x, y>> \in r
    <2>1. \A x, y \in Nat : x < y => <<x, y>> \in OpToRel(<, Nat)
      BY DEF OpToRel
    <2> QED
      BY <2>1, NatLessThanWellFounded, Zenon
  <1>2. M \subseteq Nat
    OBVIOUS
  <1>3. \E b \in M : \A a \in M : ~(<<a, b>> \in r)
    <2>1. M # {}
      OBVIOUS
    <2>2. IsWellFoundedOn(r, Nat)
      BY <1>1
    <2> QED
      BY <1>2, <2>1, <2>2, Minimal, Zenon
  <1>4. PICK b \in M : \A a \in M : ~(<<a, b>> \in r)
    BY <1>3, Zenon
  <1>5. ASSUME NEW a \in M
        PROVE  b <= a
    <2>1. a \in Nat /\ b \in Nat
      BY <1>2
    <2>2. ~(<<a, b>> \in r)
      BY <1>4
    <2>3. ~(a < b)
      BY <1>1, <2>1, <2>2, Zenon
    <2> QED
      BY <2>1, <2>3
  <1> QED
    BY <1>5

\* Induction over the naturals, for a set G.
LEMMA Induction ==
    ASSUME NEW G, 0 \in G, \A n \in Nat : n \in G => n + 1 \in G
    PROVE  Nat \subseteq G
  <1> SUFFICES ASSUME Nat \ G # {} PROVE FALSE
    OBVIOUS
  <1>1. PICK b \in Nat \ G : \A a \in Nat \ G : b <= a
    <2>1. Nat \ G \in SUBSET Nat
      OBVIOUS
    <2> QED
      BY <2>1, Least
  <1>2. b # 0
    BY <1>1
  <1>3. b - 1 \in Nat /\ b - 1 \notin Nat \ G
    BY <1>1, <1>2
  <1>4. b - 1 + 1 \in G
    BY <1>3
  <1> QED
    BY <1>1, <1>4

\* h gives n steps on S; f is the walk that they make from a.
Steps(h, n, S) == n \in Nat /\ h \in [1 .. n -> [S -> S]]

Walks(f, a, h, n, S) ==
    /\ f \in [0 .. n -> S]
    /\ f[0] = a
    /\ \A i \in 1 .. n : f[i] = h[i][f[i - 1]]

\* A value that n steps change one after the other has an n-th value.
LEMMA Iterate ==
    ASSUME NEW S, NEW a \in S, NEW n, NEW h, Steps(h, n, S)
    PROVE  \E f : Walks(f, a, h, n, S)
  <1> DEFINE Runs(f, m) == /\ f \in [0 .. m -> S]
                           /\ f[0] = a
                           /\ \A i \in 1 .. m : f[i] = h[i][f[i - 1]]
             G == {m \in Nat : m <= n => \E f : Runs(f, m)}
  <1> USE DEF Steps
  <1>1. 0 \in G
    <2>1. Runs([i \in 0 .. 0 |-> a], 0)
      OBVIOUS
    <2> QED
      BY <2>1
  <1>2. ASSUME NEW m \in Nat, m \in G
        PROVE  m + 1 \in G
    <2> SUFFICES ASSUME m + 1 <= n PROVE \E f : Runs(f, m + 1)
      OBVIOUS
    <2>1. PICK f : Runs(f, m)
      BY <1>2
    <2> DEFINE y == h[m + 1][f[m]]
               g == [i \in 0 .. m + 1 |-> IF i <= m THEN f[i] ELSE y]
    <2>2. f[m] \in S /\ h[m + 1] \in [S -> S]
      BY <2>1
    <2>3. y \in S
      BY <2>2
    <2> HIDE DEF y
    <2>4. g \in [0 .. m + 1 -> S] /\ g[m + 1] = y /\ \A i \in 0 .. m : g[i] = f[i]
      BY <2>1, <2>3
    <2> HIDE DEF g
    <2>5. ASSUME NEW i \in 1 .. m + 1
          PROVE  g[i] = h[i][g[i - 1]]
      <3>1. i - 1 \in 0 .. m /\ g[i - 1] = f[i - 1]
        BY <2>4
      <3>2. CASE i = m + 1
        BY <2>4, <3>1, <3>2 DEF y
      <3>3. CASE i # m + 1
        <4>1. i \in 1 .. m /\ i \in 0 .. m
          BY <3>3
        <4> QED
          BY <2>1, <2>4, <3>1, <4>1
      <3> QED
        BY <3>2, <3>3
    <2>6. Runs(g, m + 1)
      BY <2>1, <2>4, <2>5
    <2> QED
      BY <2>6
  <1> HIDE DEF G
  <1>3. n \in G
    BY <1>1, <1>2, Induction
  <1> QED
    BY <1>3 DEF G, Walks

\* A set that is not full has a free bit for alloc.
LEMMA FreeBitIsFree ==
    ASSUME NEW s, bits[s] \subseteq EA!Bits, ~EA!Full(s)
    PROVE  EA!FreeBit(s) \in EA!Bits \ bits[s]
  <1>1. EA!Bits \ bits[s] \in SUBSET Nat /\ EA!Bits \ bits[s] # {}
    <2>1. EA!Bits \subseteq Nat
      BY SetAssumption DEF EA!Bits
    <2>2. EA!Bits \ bits[s] # {}
      BY DEF EA!Full
    <2> QED
      BY <2>1, <2>2
  <1>2. \E b \in EA!Bits \ bits[s] : \A a \in EA!Bits \ bits[s] : b <= a
    BY <1>1, Least
  <1> QED
    BY <1>2, Zenon DEF EA!FreeBit

-----------------------------------------------------------------------------
(* The allocator *)

\* The allocator starts with the one Event of the mailbox.
LEMMA AllocInitInv == EInit => AllocInv /\ Fresh
  <1> SUFFICES ASSUME EInit PROVE AllocInv /\ Fresh
    OBVIOUS
  <1>1. 0 \in EA!Bits
    BY SetAssumption DEF EA!Bits
  <1>2. AllocTypes
    BY <1>1, SetAssumption DEF EInit, EA!AllocInit, AllocTypes, Events
  <1>3. \A e \in Events : fpc[e] # "write" /\ fpc[e] # "dispose"
    BY DEF EInit, EA!AllocInit
  <1>4. Mailbox \in Events
    BY DEF Events
  <1>5. \A s \in Sets : EA!Holders(s) = IF s = FirstSet THEN {Mailbox} ELSE {}
    BY <1>4, SetAssumption DEF EInit, EA!AllocInit, EA!Holders
  <1>6. \A s \in Sets : bits[s] = {bitOf[e] : e \in EA!Holders(s)}
    BY <1>4, <1>5 DEF EInit, EA!AllocInit
  <1>7. Owned
    BY <1>3, <1>5, <1>6 DEF Owned
  <1>8. Fresh
    BY SetAssumption DEF EInit, EA!AllocInit, Fresh, Events
  <1> QED
    BY <1>2, <1>7, <1>8 DEF AllocInv

\* TakeBit gives a bit that nobody has.
LEMMA TakeBitInv ==
    ASSUME AllocInv, NEW e \in Events, fpc[e] = "none", NEW s \in Sets,
           ~EA!Full(s), EA!TakeBit(e, s)
    PROVE  AllocInv'
  <1> DEFINE b == EA!FreeBit(s)
  <1>1. AllocTypes /\ home[e] = NoSet
    BY DEF AllocInv, AllocTypes
  <1>2. b \in EA!Bits \ bits[s]
    BY <1>1, FreeBitIsFree DEF AllocTypes
  <1>3. /\ bits' = [bits EXCEPT ![s] = @ \cup {b}]
        /\ bitOf' = [bitOf EXCEPT ![e] = b]
        /\ home' = [home EXCEPT ![e] = s]
        /\ fpc' = [fpc EXCEPT ![e] = "live"]
        /\ raced' = (raced \/ EA!FreeOpen(s, e))
        /\ word' = word
    BY DEF EA!TakeBit
  <1> HIDE DEF b
  <1>4. raced' \in BOOLEAN /\ (raced \/ EA!FreeOpen(s, e) <=> raced')
    BY <1>1, <1>3, Zenon DEF AllocTypes
  <1>5. EA!Bits' = EA!Bits
    BY DEF EA!Bits
  <1>6. AllocTypes'
    BY <1>1, <1>2, <1>3, <1>4, <1>5, SetAssumption DEF AllocTypes
  <1>7. ASSUME ~raced'
        PROVE  Owned'
    <2>1. Owned /\ ~EA!FreeOpen(s, e)
      BY <1>4, <1>7 DEF AllocInv
    <2>2. ASSUME NEW t \in Sets
          PROVE  EA!Holders(t)' = IF t = s THEN EA!Holders(s) \cup {e} ELSE EA!Holders(t)
      BY <1>1, <1>3, SetAssumption DEF EA!Holders, AllocTypes
    <2>3. \A t \in Sets : e \notin EA!Holders(t)
      BY DEF EA!Holders
    <2>4. \A f \in Events : f # e => bitOf'[f] = bitOf[f]
      BY <1>1, <1>3 DEF AllocTypes
    <2>5. bitOf'[e] = b /\ bits'[s] = bits[s] \cup {b}
      BY <1>1, <1>3 DEF AllocTypes
    <2>6. \A t \in Sets : t # s => bits'[t] = bits[t]
      BY <1>1, <1>3 DEF AllocTypes
    <2>7. \A t \in Sets : EA!Holders(t) \subseteq Events
      BY DEF EA!Holders
    <2>8. ASSUME NEW t \in Sets
          PROVE  /\ bits'[t] = {bitOf'[f] : f \in EA!Holders(t)'}
                 /\ \A f, g \in EA!Holders(t)' : bitOf'[f] = bitOf'[g] => f = g
      <3>1. /\ bits[t] = {bitOf[f] : f \in EA!Holders(t)}
            /\ \A f, g \in EA!Holders(t) : bitOf[f] = bitOf[g] => f = g
        BY <2>1 DEF Owned
      <3>2. \A f \in EA!Holders(t) : bitOf'[f] = bitOf[f]
        BY <2>3, <2>4, <2>7
      <3>3. CASE t = s
        BY <1>2, <2>2, <2>3, <2>5, <3>1, <3>2, <3>3
      <3>4. CASE t # s
        BY <2>2, <2>6, <3>1, <3>2, <3>4
      <3> QED
        BY <3>3, <3>4
    <2>9. ASSUME NEW f \in Events, fpc'[f] \in {"write", "dispose"}
          PROVE  /\ fpc[f] = fpc'[f] /\ home'[f] = home[f] /\ word'[f] = word[f]
                 /\ bits'[home'[f]] = bits[home[f]]
      <3>1. f # e /\ fpc[f] = fpc'[f] /\ home'[f] = home[f]
        BY <1>1, <1>3, <2>9 DEF AllocTypes
      <3>2. home[f] # s
        BY <2>1, <2>9, <3>1 DEF EA!FreeOpen
      <3>3. home[f] \in Sets
        BY <1>1, <2>9, <3>1 DEF AllocTypes
      <3> QED
        BY <1>3, <2>6, <3>1, <3>2, <3>3
    <2> QED
      BY <2>1, <2>8, <2>9 DEF Owned
  <1> QED
    BY <1>6, <1>7 DEF AllocInv

\* free reads the word of its set.
LEMMA FreeReadInv ==
    ASSUME AllocInv, NEW e \in Events, EA!FreeRead(e)
    PROVE  AllocInv'
  <1>1. /\ AllocTypes /\ fpc[e] = "live" /\ EA!Bits' = EA!Bits
        /\ fpc' = [fpc EXCEPT ![e] = "write"]
        /\ word' = [word EXCEPT ![e] = bits[home[e]]]
        /\ bits' = bits /\ home' = home /\ bitOf' = bitOf /\ raced' = raced
    BY DEF AllocInv, EA!FreeRead, EA!Bits
  <1>2. home[e] \in Sets /\ bits[home[e]] \in SUBSET EA!Bits
    BY <1>1 DEF AllocTypes
  <1>3. AllocTypes'
    BY <1>1, <1>2 DEF AllocTypes
  <1>4. ASSUME ~raced'
        PROVE  Owned'
    <2>1. Owned
      BY <1>1, <1>4 DEF AllocInv
    <2>2. \A t \in Sets : EA!Holders(t)' = EA!Holders(t)
      BY <1>1 DEF EA!Holders, AllocTypes
    <2>3. \A s \in Sets :
             /\ bits'[s] = {bitOf'[f] : f \in EA!Holders(s)'}
             /\ \A f, g \in EA!Holders(s)' : bitOf'[f] = bitOf'[g] => f = g
      BY <1>1, <2>1, <2>2 DEF Owned
    <2>4. \A f \in Events : fpc'[f] = "write" => word'[f] = bits'[home'[f]]
      BY <1>1, <2>1 DEF Owned, AllocTypes
    <2>5. \A f \in Events : fpc'[f] = "dispose" => bits'[home'[f]] = {}
      BY <1>1, <2>1 DEF Owned, AllocTypes
    <2> QED
      BY <2>3, <2>4, <2>5 DEF Owned
  <1> QED
    BY <1>3, <1>4 DEF AllocInv

\* What an Event leaves behind when it goes and nobody interferes.
LEMMA ReleaseInv ==
    ASSUME AllocInv, NEW e \in Events, fpc[e] \in {"write", "dispose"},
           NEW w \in SUBSET EA!Bits, EA!Release(e, w), raced' \in BOOLEAN,
           ~raced' =>
               /\ Owned
               /\ w = {bitOf[f] : f \in EA!Holders(home[e]) \ {e}}
               /\ \A f \in Events : f # e /\ home[f] = home[e] /\ fpc[f] \in {"write", "dispose"}
                                  => w = bits[home[e]]
    PROVE  AllocInv'
  <1> DEFINE h == home[e]
             others == \E f \in Events \ {e} : home[f] = home[e]
  <1>1. /\ AllocTypes /\ EA!Bits' = EA!Bits /\ h \in Sets
        /\ home' = [home EXCEPT ![e] = NoSet]
        /\ bitOf' = [bitOf EXCEPT ![e] = 0]
        /\ fpc' = [fpc EXCEPT ![e] = "none"]
        /\ word' = [word EXCEPT ![e] = NoWord]
        /\ bits' = [bits EXCEPT ![h] = IF others THEN w ELSE {}]
    BY DEF AllocInv, AllocTypes, EA!Release, EA!Bits
  <1>2. 0 \in EA!Bits
    BY SetAssumption DEF EA!Bits
  <1>3. AllocTypes'
    BY <1>1, <1>2 DEF AllocTypes
  <1>4. ASSUME ~raced'
        PROVE  Owned'
    <2>1. /\ Owned
          /\ w = {bitOf[f] : f \in EA!Holders(h) \ {e}}
          /\ \A f \in Events : f # e /\ home[f] = h /\ fpc[f] \in {"write", "dispose"}
                             => w = bits[h]
      BY <1>4
    <2> HIDE DEF h
    <2>2. \A t \in Sets : EA!Holders(t)' = EA!Holders(t) \ {e}
      BY <1>1, SetAssumption DEF EA!Holders, AllocTypes
    <2>3. \A t \in Sets : t # h => e \notin EA!Holders(t)
      BY DEF EA!Holders, h
    <2>4. \A t \in Sets : EA!Holders(t) \subseteq Events
      BY DEF EA!Holders
    <2>5. \A f \in Events : f # e => bitOf'[f] = bitOf[f]
      BY <1>1 DEF AllocTypes
    <2>6. bits'[h] = w
      <3>1. CASE others
        BY <1>1, <3>1 DEF AllocTypes
      <3>2. CASE ~others
        <4>1. EA!Holders(h) \ {e} = {}
          BY <3>2 DEF EA!Holders, h
        <4>2. w = {}
          BY <2>1, <4>1
        <4> QED
          BY <1>1, <3>2, <4>2 DEF AllocTypes
      <3> QED
        BY <3>1, <3>2
    <2>7. \A t \in Sets : t # h => bits'[t] = bits[t]
      BY <1>1 DEF AllocTypes
    <2>8. ASSUME NEW t \in Sets
          PROVE  /\ bits'[t] = {bitOf'[f] : f \in EA!Holders(t)'}
                 /\ \A f, g \in EA!Holders(t)' : bitOf'[f] = bitOf'[g] => f = g
      <3>1. /\ bits[t] = {bitOf[f] : f \in EA!Holders(t)}
            /\ \A f, g \in EA!Holders(t) : bitOf[f] = bitOf[g] => f = g
        BY <2>1 DEF Owned
      <3>2. \A f \in EA!Holders(t) \ {e} : bitOf'[f] = bitOf[f]
        BY <2>4, <2>5
      <3>3. CASE t = h
        BY <1>1, <2>1, <2>2, <2>6, <3>1, <3>2, <3>3
      <3>4. CASE t # h
        BY <2>2, <2>3, <2>7, <3>1, <3>2, <3>4
      <3> QED
        BY <3>3, <3>4
    <2>9. ASSUME NEW f \in Events, fpc'[f] \in {"write", "dispose"}
          PROVE  /\ fpc[f] = fpc'[f] /\ home'[f] = home[f] /\ word'[f] = word[f]
                 /\ bits'[home'[f]] = bits[home[f]]
      <3>1. f # e /\ fpc[f] = fpc'[f] /\ home'[f] = home[f] /\ word'[f] = word[f]
        BY <1>1, <2>9 DEF AllocTypes
      <3>2. home[f] \in Sets
        BY <1>1, <2>9, <3>1 DEF AllocTypes
      <3>3. CASE home[f] = h
        BY <2>1, <2>6, <2>9, <3>1, <3>3
      <3>4. CASE home[f] # h
        BY <2>7, <3>1, <3>2, <3>4
      <3> QED
        BY <3>1, <3>3, <3>4
    <2> QED
      BY <2>1, <2>8, <2>9 DEF Owned
  <1> QED
    BY <1>3, <1>4 DEF AllocInv

\* free stores the word without its bit.
LEMMA FreeWriteInv ==
    ASSUME AllocInv, NEW e \in Events, EA!FreeWrite(e)
    PROVE  AllocInv'
  <1> DEFINE h == home[e]
             rest == word[e] \ {bitOf[e]}
  <1>1. AllocTypes /\ fpc[e] = "write" /\ h \in Sets /\ rest \in SUBSET EA!Bits
    BY DEF AllocInv, AllocTypes, EA!FreeWrite
  <1>2. raced' = (raced \/ EA!FreeOpen(h, e))
    BY DEF EA!FreeWrite
  <1>3. raced' \in BOOLEAN /\ (~raced' => ~raced /\ ~EA!FreeOpen(h, e))
    BY <1>1, <1>2, Zenon DEF AllocTypes
  <1>4. e \in EA!Holders(h)
    BY <1>1 DEF EA!Holders
  <1>5. ~raced' => Owned /\ rest = {bitOf[f] : f \in EA!Holders(h) \ {e}}
    <2>1. SUFFICES ASSUME ~raced'
                   PROVE  Owned /\ rest = {bitOf[f] : f \in EA!Holders(h) \ {e}}
      OBVIOUS
    <2>2. Owned
      BY <1>3, <2>1 DEF AllocInv
    <2>3. word[e] = {bitOf[f] : f \in EA!Holders(h)}
      BY <1>1, <2>2 DEF Owned
    <2>4. \A f \in EA!Holders(h) \ {e} : bitOf[f] # bitOf[e]
      BY <1>1, <1>4, <2>2 DEF Owned
    <2> QED
      BY <2>2, <2>3, <2>4
  <1>6. \A f \in Events : f # e /\ home[f] = h => EA!FreeOpen(h, e) \/ fpc[f] \notin {"write", "dispose"}
    BY DEF EA!FreeOpen
  <1>7. CASE rest # {}
    <2>1. EA!Release(e, rest)
      BY <1>7 DEF EA!FreeWrite
    <2> HIDE DEF rest
    <2> QED
      BY <1>1, <1>3, <1>5, <1>6, <2>1, ReleaseInv
  <1>8. CASE rest = {}
    <2>1. /\ bits' = [bits EXCEPT ![h] = {}]
          /\ fpc' = [fpc EXCEPT ![e] = "dispose"]
          /\ home' = home /\ bitOf' = bitOf /\ word' = word /\ EA!Bits' = EA!Bits
      BY <1>8 DEF EA!FreeWrite, EA!Bits
    <2>2. AllocTypes'
      BY <1>1, <1>3, <2>1 DEF AllocTypes
    <2>3. ASSUME ~raced'
          PROVE  Owned'
      <3>1. Owned /\ EA!Holders(h) \ {e} = {}
        BY <1>5, <1>8, <2>3
      <3>2. \A t \in Sets : EA!Holders(t)' = EA!Holders(t) \ {e}
        BY <1>1, <2>1 DEF EA!Holders, AllocTypes
      <3>3. \A t \in Sets : t # h => e \notin EA!Holders(t)
        BY DEF EA!Holders
      <3>4. bits'[h] = {} /\ \A t \in Sets : t # h => bits'[t] = bits[t]
        BY <1>1, <2>1 DEF AllocTypes
      <3> HIDE DEF h
      <3>5. ASSUME NEW t \in Sets
            PROVE  /\ bits'[t] = {bitOf'[f] : f \in EA!Holders(t)'}
                   /\ \A f, g \in EA!Holders(t)' : bitOf'[f] = bitOf'[g] => f = g
        <4>1. /\ bits[t] = {bitOf[f] : f \in EA!Holders(t)}
              /\ \A f, g \in EA!Holders(t) : bitOf[f] = bitOf[g] => f = g
          BY <3>1 DEF Owned
        <4>2. CASE t = h
          BY <2>1, <3>1, <3>2, <3>4, <4>2
        <4>3. CASE t # h
          BY <2>1, <3>2, <3>3, <3>4, <4>1, <4>3
        <4> QED
          BY <4>2, <4>3
      <3>6. ASSUME NEW f \in Events, f # e, fpc'[f] \in {"write", "dispose"}
            PROVE  fpc[f] = fpc'[f] /\ bits'[home'[f]] = bits[home[f]]
        <4>1. fpc[f] = fpc'[f]
          BY <1>1, <2>1, <3>6 DEF AllocTypes
        <4>2. home[f] # h /\ home[f] \in Sets
          BY <1>1, <1>3, <1>6, <2>3, <3>6, <4>1 DEF AllocTypes, h
        <4> QED
          BY <2>1, <3>4, <4>1, <4>2
      <3>7. fpc'[e] = "dispose" /\ bits'[home'[e]] = {}
        BY <1>1, <2>1, <3>4 DEF AllocTypes, h
      <3>8. \A f \in Events : fpc'[f] = "write" => word'[f] = bits'[home'[f]]
        BY <2>1, <3>1, <3>6, <3>7 DEF Owned
      <3>9. \A f \in Events : fpc'[f] = "dispose" => bits'[home'[f]] = {}
        BY <3>1, <3>6, <3>7 DEF Owned
      <3> QED
        BY <3>5, <3>8, <3>9 DEF Owned
    <2> QED
      BY <2>2, <2>3 DEF AllocInv
  <1> QED
    BY <1>7, <1>8

\* dispose drops an empty set.
LEMMA FreeDisposeInv ==
    ASSUME AllocInv, NEW e \in Events, EA!FreeDispose(e)
    PROVE  AllocInv'
  <1> DEFINE w == bits[home[e]]
  <1>1. AllocTypes /\ fpc[e] = "dispose" /\ raced' = raced /\ EA!Release(e, w)
    BY DEF AllocInv, EA!FreeDispose
  <1>2. home[e] \in Sets /\ w \in SUBSET EA!Bits /\ raced' \in BOOLEAN
    BY <1>1 DEF AllocTypes
  <1>3. ~raced' => Owned /\ w = {bitOf[f] : f \in EA!Holders(home[e]) \ {e}}
    <2>1. SUFFICES ASSUME ~raced'
                   PROVE  Owned /\ w = {bitOf[f] : f \in EA!Holders(home[e]) \ {e}}
      OBVIOUS
    <2>2. Owned
      BY <1>1, <2>1 DEF AllocInv
    <2>3. w = {} /\ w = {bitOf[f] : f \in EA!Holders(home[e])}
      BY <1>1, <1>2, <2>2 DEF Owned
    <2> QED
      BY <2>2, <2>3
  <1> HIDE DEF w
  <1> QED
    BY <1>1, <1>2, <1>3, ReleaseInv DEF w

\* Every step of a free keeps the invariant of the allocator.
LEMMA FreeInv ==
    ASSUME AllocInv, NEW e \in Events, EA!Free(e)
    PROVE  /\ AllocInv'
           /\ \A f \in Events : fpc'[f] # "none" => fpc[f] # "none"
  <1>1. AllocInv'
    BY FreeReadInv, FreeWriteInv, FreeDisposeInv DEF EA!Free
  <1>2. \E p : fpc' = [fpc EXCEPT ![e] = p] /\ fpc[e] # "none"
    BY DEF EA!Free, EA!FreeRead, EA!FreeWrite, EA!FreeDispose, EA!Release
  <1>3. \A f \in Events : fpc'[f] # "none" => fpc[f] # "none"
    BY <1>2 DEF AllocInv, AllocTypes
  <1> QED
    BY <1>1, <1>3

\* An alloc keeps the invariant of the allocator.
LEMMA AllocStepInv ==
    ASSUME AllocInv, NEW e \in Events, fpc[e] = "none", EA!Alloc(e)
    PROVE  AllocInv' /\ fpc' = [fpc EXCEPT ![e] = "live"]
  <1>1. \E s \in Sets : ~EA!Full(s) /\ EA!TakeBit(e, s)
    <2>1. ASSUME NEW i \in EA!Usable, EA!TakeBit(e, eventSets[i])
          PROVE  eventSets[i] \in Sets /\ ~EA!Full(eventSets[i])
      BY <2>1 DEF EA!Usable, EA!Alive, AllocInv, AllocTypes
    <2>2. ASSUME NEW s \in Sets, bits[s] = {}, EA!TakeBit(e, s)
          PROVE  ~EA!Full(s)
      <3>1. 0 \in EA!Bits
        BY SetAssumption DEF EA!Bits
      <3> QED
        BY <2>2, <3>1 DEF EA!Full
    <2> QED
      BY <2>1, <2>2 DEF EA!Alloc
  <1> QED
    BY <1>1, TakeBitInv DEF EA!TakeBit

-----------------------------------------------------------------------------
(* The executor and its Events *)

\* The invariant of the executor with its events.
EInv == IInv /\ AllocInv /\ Fresh

\* A step of ENext is one of the executor, or leaves it alone.
LEMMA ENextIsNext == [ENext]_allVars => [Next]_vars
  BY DEF ENext, PollStep, DropFrees, DropFront, DelayEnds, MakeDeliver, ExecStep,
         ReturnFrees, Return, Next, Poll, Exec, allVars

\* It holds at the start.
LEMMA EInvInit == EInit => EInv
  BY IInvInit, AllocInitInv DEF EInit, EInv

\* A step that makes no Deliver makes none fresh.
LEMMA FreshKept ==
    ASSUME IInv, Fresh, \A j \in Jobs : fpc'[j] # "none" => fpc[j] # "none",
           [Next]_vars, \A c \in Clients : ~PushBackNode(c)
    PROVE  Fresh'
  <1>1. TypeOK /\ PlacesFitJobs
    BY DEF IInv
  <1>2. ASSUME NEW c \in Clients, Enqueue(c)
        PROVE  Fresh'
    <2>1. /\ posted \in Seq(Posted) /\ cjob[c] \in Posted
          /\ posted' = Append(posted, cjob[c]) /\ cjob' = cjob
          /\ cpc' = [cpc EXCEPT ![c] = "return"]
      BY <1>1, <1>2, ClientHolds DEF Enqueue, TypeOK
    <2>2. /\ Len(posted') = Len(posted) + 1 /\ Len(posted) \in Nat
          /\ \A i \in 1 .. Len(posted) : posted'[i] = posted[i]
          /\ posted'[Len(posted) + 1] = cjob[c]
      BY <2>1, AppendProperties, LenProperties
    <2>3. \A d \in Clients : d # c => cpc'[d] = cpc[d]
      BY <1>1, <2>1 DEF TypeOK
    <2>4. \A i \in 1 .. Len(posted) : i \in 1 .. Len(posted')
      BY <2>2
    <2>5. Len(posted) + 1 \in 1 .. Len(posted')
      BY <2>2
    <2> QED
      BY <2>1, <2>2, <2>3, <2>4, <2>5 DEF Fresh
  <1>3. ASSUME posted' = posted,
               \A c \in Clients : cpc[c] \in {"link", "close", "args", "enqueue"} =>
                   cjob'[c] = cjob[c] /\ cpc'[c] \in {"link", "close", "args", "enqueue"}
        PROVE  Fresh'
    BY <1>3 DEF Fresh
  <1>4. ASSUME NEW c \in Clients, PushBackLink(c) \/ PushBackClose(c) \/ PushArgs(c)
        PROVE  Fresh'
    BY <1>1, <1>3, <1>4 DEF PushBackLink, PushBackClose, PushArgs, TypeOK
  <1>5. ASSUME NEW c \in Clients, ExecReturn(c)
        PROVE  Fresh'
    BY <1>1, <1>3, <1>5 DEF ExecReturn, TypeOK
  <1>6. CASE Poll \/ Wake \/ UNCHANGED vars
    BY <1>3, <1>6 DEF Poll, Pop, Invoke, RunJob, Dispose, Drop, Wake, vars
  <1> QED
    BY <1>2, <1>4, <1>5, <1>6 DEF Next, Exec

\* Every step of either keeps it.
LEMMA EInvNext == EInv /\ [ENext]_allVars => EInv'
  <1> SUFFICES ASSUME EInv, [ENext]_allVars PROVE EInv'
    OBVIOUS
  <1>1. IInv /\ AllocInv /\ Fresh /\ TypeOK /\ PlacesFitJobs
    BY DEF EInv, IInv
  <1>2. [Next]_vars /\ IInv'
    BY <1>1, ENextIsNext, IInvNext
  <1>3. ASSUME UNCHANGED allocVars
        PROVE  AllocInv' /\ \A j \in Jobs : fpc'[j] # "none" => fpc[j] # "none"
    BY <1>1, <1>3 DEF allocVars, AllocInv, AllocTypes, Owned, EA!Holders, EA!Bits
  <1>4. ASSUME NEW c \in Clients, MakeDeliver(c)
        PROVE  EInv'
    <2>1. PICK j \in Posted :
             /\ Caller[j] = c
             /\ \A i \in 1 .. Len(posted) : posted[i] # j
             /\ cjob' = [cjob EXCEPT ![c] = j]
      BY <1>4 DEF MakeDeliver, PushBackNode
    <2>2. /\ cpc[c] = "idle" /\ cpc' = [cpc EXCEPT ![c] = "link"] /\ posted' = posted
          /\ EA!Alloc(cjob'[c])
      BY <1>4 DEF MakeDeliver, PushBackNode
    <2>3. cjob'[c] = j /\ EA!Alloc(j) /\ j \in Events /\ j \in Jobs
      BY <1>1, <2>1, <2>2 DEF TypeOK, Events, Posted
    <2>4. fpc[j] = "none"
      BY <1>1, <2>1, <2>2, <2>3 DEF Fresh, PlacesFitJobs
    <2>5. AllocInv' /\ fpc' = [fpc EXCEPT ![j] = "live"]
      BY <1>1, <2>3, <2>4, AllocStepInv
    <2>6. Fresh'
      <3>1. cpc'[c] = "link"
        BY <1>1, <2>2 DEF TypeOK
      <3>2. \A d \in Clients : d # c => cpc'[d] = cpc[d] /\ cjob'[d] = cjob[d]
        BY <1>1, <2>1, <2>2 DEF TypeOK
      <3>3. \A k \in Jobs : k # j => fpc'[k] = fpc[k]
        BY <1>1, <2>3, <2>5 DEF AllocInv, AllocTypes, Events
      <3> QED
        BY <1>1, <2>2, <2>3, <3>1, <3>2, <3>3 DEF Fresh
    <2> QED
      BY <1>2, <2>5, <2>6 DEF EInv
  <1>5. ASSUME AllocInv', \A j \in Jobs : fpc'[j] # "none" => fpc[j] # "none",
               \A c \in Clients : ~PushBackNode(c)
        PROVE  EInv'
    BY <1>1, <1>2, <1>5, FreshKept DEF EInv
  <1>6. ASSUME NEW c \in Clients, ReturnFrees(c)
        PROVE  EInv'
    <2>1. cjob[c] \in Events
      BY <1>1, <1>6, ClientHolds DEF ReturnFrees, Events, Posted
    <2>2. AllocInv' /\ \A f \in Events : fpc'[f] # "none" => fpc[f] # "none"
      BY <1>1, <1>6, <2>1, FreeInv DEF ReturnFrees
    <2>3. \A d \in Clients : ~PushBackNode(d)
      BY <1>1, <1>6 DEF ReturnFrees, PushBackNode, vars, TypeOK
    <2> QED
      BY <1>5, <2>2, <2>3 DEF Events
  <1>7. CASE DropFrees
    <2>1. cur \in Events
      BY <1>1, <1>7 DEF DropFrees, Events, TypeOK, PlacesFitJobs
    <2>2. AllocInv' /\ \A f \in Events : fpc'[f] # "none" => fpc[f] # "none"
      BY <1>1, <1>7, <2>1, FreeInv DEF DropFrees
    <2>3. \A d \in Clients : ~PushBackNode(d)
      BY <1>1, <1>7 DEF DropFrees, PushBackNode, vars, TypeOK
    <2> QED
      BY <1>5, <2>2, <2>3 DEF Events
  <1>8. ASSUME UNCHANGED allocVars, \A c \in Clients : ~PushBackNode(c)
        PROVE  EInv'
    BY <1>3, <1>5, <1>8
  <1>9. ASSUME NEW c \in Clients, ExecStep(c) \/ Return(c)
        PROVE  EInv'
    BY <1>1, <1>8, <1>9 DEF ExecStep, Return, PushBackNode, PushBackLink, PushBackClose,
           PushArgs, Enqueue, ExecReturn, TypeOK
  <1>10. CASE PollStep \/ DropFront \/ DelayEnds
    BY <1>1, <1>8, <1>10 DEF PollStep, DropFront, DelayEnds, Pop, Invoke, RunJob, Dispose,
           Drop, Wake, PushBackNode, TypeOK
  <1>11. CASE UNCHANGED allVars
    BY <1>1, <1>8, <1>11 DEF allVars, vars, PushBackNode, TypeOK
  <1> QED
    BY <1>4, <1>6, <1>7, <1>9, <1>10, <1>11 DEF ENext

-----------------------------------------------------------------------------
(* Bits have one owner *)

\* While no bitset changes under an open free, no event bit has two owners and none
\* is lost, whoever frees a Deliver (os/compacted_event_set.cxx:29-34,
\* os/event_allocator.cxx:6-37).
THEOREM ExecutorBitsAreOwned == ESpec => []BitsAreOwned
  <1>1. EInv => BitsAreOwned
    BY DEF EInv, AllocInv, Owned, BitsAreOwned, EA!BitsAreOwned
  <1>2. ESpec => []EInv
    BY EInvInit, EInvNext, PTL DEF ESpec
  <1> QED
    BY <1>1, <1>2, PTL

-----------------------------------------------------------------------------
(* Who frees, and the order in which things are freed *)

\* A client at the end of exec has posted its job after all its others.
LatestPost ==
    \A c \in Clients : cpc[c] = "return" =>
        \E k \in 1 .. Len(posted) :
            /\ posted[k] = cjob[c]
            /\ \A i \in k + 1 .. Len(posted) : Caller[posted[i]] # c

\* What was served is done, but for the job that blocks; the poller holds the
\* latest.
LatestServed ==
    /\ ppc \in {"asleep", "dispose", "drop"} =>
           Len(served) > 0 /\ served[Len(served)] = cur
    /\ \A i \in 1 .. Len(served) :
           served[i] \in done \/ (ppc = "asleep" /\ cur = served[i])
    /\ ppc \in {"dispose", "drop"} => cur \in done

\* Event f is inside a free that has read the bitset.
Opened(f) == fpc[f] \in {"write", "dispose"}

\* The one thread that still refers to a Deliver that is being freed.
OpenByLast ==
    \A f \in Jobs : Opened(f) =>
        /\ ~Listing(f)
        /\ \/ \E d \in Clients : cpc[d] = "return" /\ cjob[d] = f /\ cur # f
           \/ ppc = "drop" /\ cur = f /\ \A c \in Clients : cjob[c] # f

\* Something still refers to the Deliver of j.
Held(j) == Listing(j) \/ cur = j \/ \E c \in Clients : cjob[c] = j

\* What the lifetime of the Events rests on.
FInv ==
    /\ LatestPost /\ LatestServed /\ OpenByLast
    /\ fpc[Mailbox] = "live"
    /\ EventLivesWithDeliver /\ RaceNeedsTwoClients

\* A posted job has been served, is in the poller's hand, or is in the queue.
LEMMA Whereabouts ==
    ASSUME IInv, NEW k \in 1 .. Len(posted)
    PROVE  \/ k <= Len(served) /\ served[k] = posted[k]
           \/ k > Len(served) /\ ppc = "invoke" /\ cur = posted[k]
           \/ k > Len(served) /\ \E i \in 1 .. Len(queue) : queue[i] = posted[k]
  <1>1. /\ served \in Seq(Jobs) /\ queue \in Seq(Jobs) /\ InHand \in Seq(Jobs)
        /\ Len(served) \in Nat /\ Len(queue) \in Nat /\ Len(InHand) \in Nat
    <2>1. ppc = "invoke" => cur \in Jobs
      BY DEF IInv, TypeOK, PlacesFitJobs
    <2>2. InHand \in Seq(Jobs)
      BY <2>1, EmptySeq DEF InHand
    <2>3. served \in Seq(Jobs)
      BY SeqMonotonic DEF IInv, TypeOK, Posted
    <2> QED
      BY <2>2, <2>3, LenProperties DEF IInv, TypeOK
  <1> DEFINE a == served \o InHand
  <1>2. /\ a \in Seq(Jobs) /\ Len(a) = Len(served) + Len(InHand)
        /\ \A i \in 1 .. Len(served) + Len(InHand) :
               a[i] = IF i <= Len(served) THEN served[i] ELSE InHand[i - Len(served)]
    BY <1>1, ConcatProperties
  <1> HIDE DEF a
  <1>3. /\ Len(a \o queue) = Len(a) + Len(queue)
        /\ \A i \in 1 .. Len(a) + Len(queue) :
               (a \o queue)[i] = IF i <= Len(a) THEN a[i] ELSE queue[i - Len(a)]
    BY <1>1, <1>2, ConcatProperties
  <1>4. posted = a \o queue
    BY DEF IInv, ServedOnceInOrder, a
  <1>5. CASE k <= Len(served)
    <2>1. k \in 1 .. Len(a) + Len(queue) /\ k <= Len(a) /\ k \in 1 .. Len(served) + Len(InHand)
      BY <1>1, <1>2, <1>5
    <2> QED
      BY <1>2, <1>3, <1>4, <1>5, <2>1
  <1>6. CASE k > Len(served) /\ k <= Len(a)
    <2>1. k \in 1 .. Len(a) + Len(queue) /\ k \in 1 .. Len(served) + Len(InHand)
      BY <1>1, <1>2, <1>6
    <2>2. posted[k] = InHand[k - Len(served)]
      BY <1>1, <1>2, <1>3, <1>4, <1>6, <2>1
    <2>3. ppc = "invoke"
      BY <1>1, <1>2, <1>6, EmptySeq DEF InHand
    <2>4. InHand = <<cur>> /\ Len(InHand) = 1
      BY <2>3 DEF InHand
    <2>5. k - Len(served) = 1
      BY <1>1, <1>2, <1>6, <2>4
    <2> QED
      BY <1>6, <2>2, <2>3, <2>4, <2>5
  <1>7. CASE k > Len(a)
    <2>1. k \in 1 .. Len(a) + Len(queue) /\ k - Len(a) \in 1 .. Len(queue) /\ k > Len(served)
      BY <1>1, <1>2, <1>3, <1>4, <1>7
    <2>2. queue[k - Len(a)] = posted[k]
      BY <1>1, <1>2, <1>3, <1>4, <1>7, <2>1
    <2> QED
      BY <2>1, <2>2
  <1> QED
    BY <1>1, <1>2, <1>5, <1>6, <1>7

\* Every step keeps: the job a client holds is the last that it posted.
LEMMA LatestPostNext == IInv /\ LatestPost /\ [Next]_vars => LatestPost'
  <1> SUFFICES ASSUME IInv, LatestPost, [Next]_vars PROVE LatestPost'
    OBVIOUS
  <1>1. TypeOK /\ PlacesFitJobs
    BY DEF IInv
  <1>2. ASSUME posted' = posted,
               \A c \in Clients : cpc'[c] = "return" => cpc[c] = "return" /\ cjob'[c] = cjob[c]
        PROVE  LatestPost'
    BY <1>2 DEF LatestPost
  <1>3. ASSUME NEW c \in Clients, Enqueue(c)
        PROVE  LatestPost'
    <2>1. /\ posted \in Seq(Posted) /\ cjob[c] \in Posted /\ Caller[cjob[c]] = c
          /\ posted' = Append(posted, cjob[c]) /\ cjob' = cjob
          /\ cpc' = [cpc EXCEPT ![c] = "return"]
      BY <1>1, <1>3, ClientHolds DEF Enqueue, TypeOK, PlacesFitJobs
    <2>2. /\ Len(posted') = Len(posted) + 1 /\ Len(posted) \in Nat
          /\ \A i \in 1 .. Len(posted) : posted'[i] = posted[i]
          /\ posted'[Len(posted) + 1] = cjob[c]
      BY <2>1, AppendProperties, LenProperties
    <2>3. \E k \in 1 .. Len(posted') :
             /\ posted'[k] = cjob'[c]
             /\ \A i \in k + 1 .. Len(posted') : Caller[posted'[i]] # c
      <3>1. /\ Len(posted) + 1 \in 1 .. Len(posted')
            /\ \A i \in (Len(posted) + 1) + 1 .. Len(posted') : FALSE
        BY <2>2
      <3> QED
        BY <2>1, <2>2, <3>1
    <2>4. ASSUME NEW d \in Clients, d # c, cpc'[d] = "return"
          PROVE  \E k \in 1 .. Len(posted') :
                    /\ posted'[k] = cjob'[d]
                    /\ \A i \in k + 1 .. Len(posted') : Caller[posted'[i]] # d
      <3>1. cpc[d] = "return"
        BY <1>1, <2>1, <2>4 DEF TypeOK
      <3>2. PICK k \in 1 .. Len(posted) :
               /\ posted[k] = cjob[d]
               /\ \A i \in k + 1 .. Len(posted) : Caller[posted[i]] # d
        BY <3>1 DEF LatestPost
      <3>3. ASSUME NEW i \in k + 1 .. Len(posted')
            PROVE  Caller[posted'[i]] # d
        <4>1. \/ i \in k + 1 .. Len(posted) /\ i \in 1 .. Len(posted)
              \/ i = Len(posted) + 1
          BY <2>2
        <4> QED
          BY <2>1, <2>2, <2>4, <3>2, <4>1
      <3>4. k \in 1 .. Len(posted') /\ posted'[k] = cjob'[d]
        BY <2>1, <2>2, <3>2
      <3> QED
        BY <3>3, <3>4
    <2> QED
      BY <2>3, <2>4 DEF LatestPost
  <1>4. ASSUME NEW c \in Clients,
               PushBackNode(c) \/ PushBackLink(c) \/ PushBackClose(c) \/ PushArgs(c)
                   \/ ExecReturn(c)
        PROVE  LatestPost'
    <2>1. PICK p \in {"link", "close", "args", "enqueue", "idle"} :
             cpc' = [cpc EXCEPT ![c] = p]
      BY <1>4 DEF PushBackNode, PushBackLink, PushBackClose, PushArgs, ExecReturn
    <2>2. posted' = posted
      BY <1>4 DEF PushBackNode, PushBackLink, PushBackClose, PushArgs, ExecReturn
    <2>3. \A d \in Clients : d # c => cjob'[d] = cjob[d]
      BY <1>1, <1>4 DEF PushBackNode, PushBackLink, PushBackClose, PushArgs, ExecReturn, TypeOK
    <2>4. cpc'[c] # "return" /\ \A d \in Clients : d # c => cpc'[d] = cpc[d]
      BY <1>1, <2>1 DEF TypeOK
    <2> QED
      BY <1>2, <2>2, <2>3, <2>4
  <1>5. CASE Poll \/ Wake \/ UNCHANGED vars
    BY <1>2, <1>5 DEF Poll, Pop, Invoke, RunJob, Dispose, Drop, Wake, vars
  <1> QED
    BY <1>3, <1>4, <1>5 DEF Next, Exec

\* Every step keeps: the job the poller holds is the last that it popped.
LEMMA LatestServedNext == IInv /\ LatestServed /\ [Next]_vars => LatestServed'
  <1> SUFFICES ASSUME IInv, LatestServed, [Next]_vars PROVE LatestServed'
    OBVIOUS
  <1>1. TypeOK /\ PlacesFitJobs /\ QueuedHasCall
    BY DEF IInv
  <1>2. ASSUME UNCHANGED <<ppc, cur, served, done>>
        PROVE  LatestServed'
    BY <1>2 DEF LatestServed
  <1>3. ASSUME NEW c \in Clients, Exec(c)
        PROVE  LatestServed'
    BY <1>2, <1>3 DEF Exec, PushBackNode, PushBackLink, PushBackClose, PushArgs, Enqueue,
           ExecReturn
  <1>4. CASE Pop
    BY <1>4 DEF Pop, LatestServed
  <1>5. CASE Invoke
    <2>1. ctx[cur] # 0 /\ ppc = "invoke" /\ cur' = cur /\ cur \in Jobs
      BY <1>1, <1>5 DEF Invoke, QueuedHasCall, TypeOK, PlacesFitJobs
    <2>2. /\ served' = Append(served, cur)
          /\ ppc' = IF cur \in Sleeps THEN "asleep" ELSE "dispose"
          /\ done' = done \cup Inner[cur] \cup ({cur} \ Sleeps)
      BY <1>5, <2>1 DEF Invoke, RunJob
    <2>3. served \in Seq(Jobs)
      BY <1>1, SeqMonotonic DEF TypeOK, Posted
    <2>4. /\ Len(served) \in Nat /\ Len(served') = Len(served) + 1
          /\ served'[Len(served) + 1] = cur
          /\ \A i \in 1 .. Len(served) : served'[i] = served[i]
      BY <2>1, <2>2, <2>3, AppendProperties, LenProperties
    <2>5. \A i \in 1 .. Len(served) : served[i] \in done
      BY <2>1 DEF LatestServed
    <2>6. Len(served') > 0 /\ served'[Len(served')] = cur'
      BY <2>1, <2>4
    <2>7. ppc' \in {"asleep", "dispose"} /\ (ppc' = "dispose" => cur \in done')
          /\ (ppc' = "asleep" \/ cur \in done')
      BY <2>2
    <2>8. ASSUME NEW i \in 1 .. Len(served')
          PROVE  served'[i] \in done' \/ (ppc' = "asleep" /\ cur' = served'[i])
      <3>1. i \in 1 .. Len(served) \/ i = Len(served) + 1
        BY <2>4
      <3> QED
        BY <2>1, <2>2, <2>4, <2>5, <2>7, <3>1
    <2> QED
      BY <2>1, <2>6, <2>7, <2>8 DEF LatestServed
  <1>6. CASE Wake
    BY <1>6 DEF Wake, LatestServed
  <1>7. CASE Dispose
    BY <1>7 DEF Dispose, LatestServed
  <1>8. CASE Drop
    BY <1>8 DEF Drop, LatestServed
  <1>9. CASE UNCHANGED vars
    BY <1>2, <1>9 DEF vars
  <1> QED
    BY <1>3, <1>4, <1>5, <1>6, <1>7, <1>8, <1>9 DEF Next, Poll

\* A step that frees: what it does to the Event, and when it is a race.
LEMMA FreeShape ==
    ASSUME NEW e \in Events, EA!Free(e)
    PROVE  /\ fpc[e] # "none"
           /\ \E p \in {"write", "dispose", "none"} : fpc' = [fpc EXCEPT ![e] = p]
           /\ raced' => raced \/ \E f \in Events \ {e} : Opened(f)
  <1>1. CASE EA!FreeRead(e)
    BY <1>1 DEF EA!FreeRead
  <1>2. CASE EA!FreeWrite(e)
    <2>1. raced' => raced \/ \E f \in Events \ {e} : Opened(f)
      <3>1. raced' = (raced \/ EA!FreeOpen(home[e], e))
        BY <1>2 DEF EA!FreeWrite
      <3>2. EA!FreeOpen(home[e], e) => \E f \in Events \ {e} : Opened(f)
        BY DEF EA!FreeOpen, Opened
      <3> QED
        BY <3>1, <3>2, Zenon
    <2> QED
      BY <1>2, <2>1 DEF EA!FreeWrite, EA!Release
  <1>3. CASE EA!FreeDispose(e)
    BY <1>3 DEF EA!FreeDispose, EA!Release
  <1> QED
    BY <1>1, <1>2, <1>3 DEF EA!Free

\* An alloc makes a race only when a free of the same set is open.
LEMMA AllocRace ==
    ASSUME NEW e \in Events, EA!Alloc(e), raced'
    PROVE  raced \/ \E f \in Events \ {e} : Opened(f)
  <1>1. PICK s : EA!TakeBit(e, s)
    BY DEF EA!Alloc
  <1>2. raced' = (raced \/ EA!FreeOpen(s, e))
    BY <1>1 DEF EA!TakeBit
  <1>3. EA!FreeOpen(s, e) => \E f \in Events \ {e} : Opened(f)
    BY DEF EA!FreeOpen, Opened
  <1> QED
    BY <1>2, <1>3, Zenon

\* A job that was begun stays begun.
LEMMA BegunStays ==
    ASSUME IInv, LatestPost, [Next]_vars, NEW j \in Begun
    PROVE  j \in Begun'
  <1>1. TypeOK /\ PlacesFitJobs /\ j \in Posted
    BY DEF IInv, Begun
  <1>2. ASSUME NEW c \in Clients, Enqueue(c)
        PROVE  j \in Begun'
    <2>1. posted \in Seq(Posted) /\ cjob[c] \in Posted /\ cjob' = cjob
          /\ posted' = Append(posted, cjob[c])
      BY <1>1, <1>2, ClientHolds DEF Enqueue, TypeOK
    <2>2. /\ Len(posted') = Len(posted) + 1 /\ Len(posted) \in Nat
          /\ \A i \in 1 .. Len(posted) : posted'[i] = posted[i]
      BY <2>1, AppendProperties, LenProperties
    <2>3. \A i \in 1 .. Len(posted) : i \in 1 .. Len(posted')
      BY <2>2
    <2> QED
      BY <1>1, <2>1, <2>2, <2>3 DEF Begun
  <1>3. ASSUME posted' = posted, \A c \in Clients : cjob[c] = j => \/ cjob'[c] = j
                                   \/ \E i \in 1 .. Len(posted) : posted[i] = j
        PROVE  j \in Begun'
    BY <1>1, <1>3 DEF Begun
  <1>4. ASSUME NEW c \in Clients, PushBackNode(c)
        PROVE  j \in Begun'
    <2>1. cjob[c] # j /\ posted' = posted
      BY <1>1, <1>4, JobAssumption DEF PushBackNode, PlacesFitJobs, Posted
    <2>2. \A d \in Clients : d # c => cjob'[d] = cjob[d]
      BY <1>1, <1>4 DEF PushBackNode, TypeOK
    <2> QED
      BY <1>3, <2>1, <2>2
  <1>5. ASSUME NEW c \in Clients, ExecReturn(c)
        PROVE  j \in Begun'
    <2>1. \E i \in 1 .. Len(posted) : posted[i] = cjob[c]
      BY <1>5 DEF ExecReturn, LatestPost
    <2>2. posted' = posted /\ \A d \in Clients : d # c => cjob'[d] = cjob[d]
      BY <1>1, <1>5 DEF ExecReturn, TypeOK
    <2> QED
      BY <1>3, <2>1, <2>2
  <1>6. ASSUME NEW c \in Clients, PushBackLink(c) \/ PushBackClose(c) \/ PushArgs(c)
        PROVE  j \in Begun'
    BY <1>3, <1>6 DEF PushBackLink, PushBackClose, PushArgs
  <1>7. CASE Poll \/ Wake \/ UNCHANGED vars
    BY <1>3, <1>7 DEF Poll, Pop, Invoke, RunJob, Dispose, Drop, Wake, vars
  <1> QED
    BY <1>2, <1>4, <1>5, <1>6, <1>7 DEF Next, Exec

-----------------------------------------------------------------------------
(* Steps that free a Deliver *)

\* A client frees its Deliver only after the job is done.
LEMMA ClientFreesDone ==
    ASSUME IInv, LatestPost, LatestServed, NEW c \in Clients, cpc[c] = "return",
           ClientIsLast(c)
    PROVE  cjob[c] \in done
  <1>1. PICK k \in 1 .. Len(posted) : posted[k] = cjob[c]
    BY DEF LatestPost
  <1>2. cur # posted[k] /\ ~ \E i \in 1 .. Len(queue) : queue[i] = posted[k]
    BY <1>1 DEF ClientIsLast, Listing
  <1>3. k <= Len(served) /\ served[k] = posted[k]
    BY <1>2, Whereabouts
  <1>4. k \in 1 .. Len(served)
    <2>1. Len(posted) \in Nat /\ Len(served) \in Nat
      BY LenProperties DEF IInv, TypeOK
    <2> QED
      BY <1>3, <2>1
  <1> QED
    BY <1>1, <1>2, <1>3, <1>4 DEF LatestServed

\* Two Delivers that are being freed together belong to two clients.
LEMMA FreersDiffer ==
    ASSUME IInv, LatestPost, LatestServed, OpenByLast, NEW e \in Jobs, NEW f \in Jobs, e # f,
           Opened(f),
           \/ ~PollerReady /\ \E c \in Clients : cpc[c] = "return" /\ cjob[c] = e
           \/ ppc = "drop" /\ cur = e
    PROVE  e \in Begun /\ f \in Begun /\ Caller[e] # Caller[f]
  <1>1. TypeOK /\ PlacesFitJobs
    BY DEF IInv
  <1>2. PICK d \in Clients : cpc[d] = "return" /\ cjob[d] = f /\ cur # f
    BY DEF OpenByLast, PollerReady
  <1>3. Caller[f] = d /\ f \in Posted /\ f \in Begun
    BY <1>1, <1>2, ClientHolds DEF PlacesFitJobs, Begun
  <1>4. ASSUME NEW c \in Clients, cpc[c] = "return", cjob[c] = e
        PROVE  e \in Begun /\ Caller[e] # Caller[f]
    BY <1>1, <1>2, <1>3, <1>4, ClientHolds DEF PlacesFitJobs, Begun
  <1>5. ASSUME ppc = "drop", cur = e
        PROVE  e \in Begun /\ Caller[e] # Caller[f]
    <2> DEFINE n == Len(served)
    <2>1. Len(posted) \in Nat /\ n \in Nat /\ n > 0 /\ served[n] = e
      BY <1>1, <1>5, LenProperties DEF LatestServed, TypeOK
    <2>2. n \in 1 .. Len(posted) /\ posted[n] = e
      <3>1. served \in Seq(Jobs) /\ queue \in Seq(Jobs) /\ InHand = <<>>
        BY <1>1, <1>5, SeqMonotonic DEF TypeOK, Posted, InHand
      <3>2. posted = served \o queue
        BY <3>1, ConcatEmptySeq DEF IInv, ServedOnceInOrder
      <3>3. /\ Len(posted) = n + Len(queue) /\ Len(queue) \in Nat
            /\ \A i \in 1 .. n + Len(queue) :
                   posted[i] = IF i <= n THEN served[i] ELSE queue[i - n]
        BY <3>1, <3>2, ConcatProperties, LenProperties
      <3> QED
        BY <2>1, <3>3
    <2>3. e \in Posted
      BY <1>1, <2>1, <2>2, ElementOfSeq DEF TypeOK
    <2>4. e \in Begun
      BY <2>2, <2>3 DEF Begun
    <2>5. PICK k \in 1 .. Len(posted) :
             /\ posted[k] = f
             /\ \A i \in k + 1 .. Len(posted) : Caller[posted[i]] # d
      BY <1>2 DEF LatestPost
    <2>6. k <= n
      <3>1. ~ \E i \in 1 .. Len(queue) : queue[i] = f
        BY DEF OpenByLast, Listing
      <3> QED
        BY <1>2, <2>5, <3>1, Whereabouts
    <2>7. k # n
      BY <2>2, <2>5
    <2>8. n \in k + 1 .. Len(posted)
      BY <2>1, <2>2, <2>6, <2>7
    <2> QED
      BY <1>3, <2>2, <2>4, <2>5, <2>8
  <1> QED
    BY <1>3, <1>4, <1>5

\* A step of a free by the last who refers to the Deliver keeps the invariant.
LEMMA FreeStep ==
    ASSUME IInv, AllocInv, FInv, NEW e \in Jobs, EA!Free(e), UNCHANGED vars,
           ~Listing(e),
           \/ /\ ~PollerReady
              /\ \E c \in Clients : cpc[c] = "return" /\ cjob[c] = e /\ ClientIsLast(c)
           \/ ppc = "drop" /\ cur = e /\ PollerIsLast
    PROVE  FInv'
  <1>1. e \in Events /\ fpc \in [Events -> {"none", "live", "write", "dispose"}]
    BY DEF Events, AllocInv, AllocTypes
  <1>2. PICK p \in {"write", "dispose", "none"} : fpc' = [fpc EXCEPT ![e] = p]
    BY <1>1, FreeShape
  <1>3. fpc[e] # "none" /\ \A f \in Events : f # e => fpc'[f] = fpc[f]
    BY <1>1, <1>2, FreeShape
  <1>4. /\ ppc' = ppc /\ cur' = cur /\ cpc' = cpc /\ cjob' = cjob /\ nodes' = nodes
        /\ queue' = queue /\ posted' = posted /\ served' = served /\ done' = done
    BY DEF vars
  <1>5. LatestPost' /\ LatestServed'
    BY <1>4 DEF FInv, LatestPost, LatestServed
  <1>6. OpenByLast'
    <2>1. \/ \E d \in Clients : cpc[d] = "return" /\ cjob[d] = e /\ cur # e
          \/ ppc = "drop" /\ cur = e /\ \A c \in Clients : cjob[c] # e
      BY DEF ClientIsLast, PollerIsLast
    <2> QED
      BY <1>3, <1>4, <2>1 DEF FInv, OpenByLast, Opened, Listing, Events
  <1>7. fpc'[Mailbox] = "live"
    BY <1>3, SetAssumption DEF FInv, Events
  <1>8. e \in done
    BY ClientFreesDone DEF FInv, LatestServed
  <1>9. EventLivesWithDeliver'
    <2>1. Held(e)
      BY DEF Held
    <2>2. \A j \in Jobs : Held(j)' <=> Held(j)
      BY <1>4 DEF Held, Listing
    <2>3. \A j \in Jobs : (Held(j) /\ j \notin done => fpc[j] = "live")
                          /\ (~Held(j) => fpc[j] = "none")
      BY DEF FInv, EventLivesWithDeliver, Held
    <2>4. \A j \in Jobs : (Held(j)' /\ j \notin done' => fpc'[j] = "live")
                          /\ (~Held(j)' => fpc'[j] = "none")
      BY <1>3, <1>4, <1>8, <2>1, <2>2, <2>3 DEF Events
    <2> QED
      BY <2>4 DEF EventLivesWithDeliver, Held
  <1>10. RaceNeedsTwoClients'
    <2>1. Begun' = Begun
      BY <1>4 DEF Begun, Posted
    <2>2. ASSUME raced'
          PROVE  \E j, k \in Begun : Caller[j] # Caller[k]
      <3>1. CASE raced
        BY <3>1 DEF FInv, RaceNeedsTwoClients
      <3>2. CASE ~raced
        <4>1. PICK f \in Events \ {e} : Opened(f)
          BY <1>1, <2>2, <3>2, FreeShape
        <4>2. f \in Jobs
          BY <4>1 DEF FInv, Events, Opened
        <4> QED
          BY <4>1, <4>2, FreersDiffer DEF FInv
      <3> QED
        BY <3>1, <3>2
    <2> QED
      BY <2>1, <2>2 DEF RaceNeedsTwoClients
  <1> QED
    BY <1>5, <1>6, <1>7, <1>9, <1>10 DEF FInv

\* A step that makes no Deliver and frees none, and after which the same Delivers
\* are held, but for one that has no Event any more.
LEMMA QuietStep ==
    ASSUME IInv, FInv, [Next]_vars, UNCHANGED allocVars, OpenByLast', done \subseteq done',
           \A j \in Jobs : Held(j)' => Held(j),
           \A j \in Jobs : ~Held(j)' => ~Held(j) \/ fpc[j] = "none"
    PROVE  FInv'
  <1>1. LatestPost' /\ LatestServed'
    BY LatestPostNext, LatestServedNext DEF FInv
  <1>2. fpc' = fpc /\ raced' = raced
    BY DEF allocVars
  <1>3. EventLivesWithDeliver'
    <2>1. \A j \in Jobs : (Held(j) /\ j \notin done => fpc[j] = "live")
                          /\ (~Held(j) => fpc[j] = "none")
      BY DEF FInv, EventLivesWithDeliver, Held
    <2>2. \A j \in Jobs : (Held(j)' /\ j \notin done' => fpc'[j] = "live")
                          /\ (~Held(j)' => fpc'[j] = "none")
      BY <1>2, <2>1
    <2> QED
      BY <2>2 DEF EventLivesWithDeliver, Held
  <1>4. RaceNeedsTwoClients'
    <2>1. raced' => \E j, k \in Begun : Caller[j] # Caller[k]
      BY <1>2 DEF FInv, RaceNeedsTwoClients
    <2>2. \A j \in Begun : j \in Begun'
      BY BegunStays DEF FInv
    <2> QED
      BY <2>1, <2>2 DEF RaceNeedsTwoClients
  <1> QED
    BY <1>1, <1>2, <1>3, <1>4 DEF FInv

\* The steps of exec that touch nothing that the Events depend on.
LEMMA ExecStepKeeps ==
    ASSUME IInv, FInv, NEW c \in Clients, ExecStep(c)
    PROVE  FInv'
  <1>1. TypeOK /\ PlacesFitJobs
    BY DEF IInv
  <1>2. /\ UNCHANGED allocVars /\ [Next]_vars /\ ~PollerReady
        /\ nodes' = nodes /\ cur' = cur /\ cjob' = cjob /\ ppc' = ppc /\ done' = done
    BY DEF ExecStep, PushBackLink, PushBackClose, PushArgs, Enqueue, Next, Exec
  <1>3. /\ cpc[c] # "return"
        /\ \E p : cpc' = [cpc EXCEPT ![c] = p]
    BY DEF ExecStep, PushBackLink, PushBackClose, PushArgs, Enqueue
  <1>4. \A d \in Clients : d # c => cpc'[d] = cpc[d]
    BY <1>1, <1>3 DEF TypeOK
  <1>5. cjob[c] \in Posted /\ \A d \in Clients \ {c} : cjob[d] # cjob[c]
    BY <1>1, ClientHolds DEF ExecStep, PushBackLink, PushBackClose, PushArgs, Enqueue
  <1>6. \A j : Listing(j)' <=> Listing(j) \/ (j = cjob[c] /\ Enqueue(c))
    <2>1. CASE Enqueue(c)
      <3>1. queue' = Append(queue, cjob[c]) /\ queue \in Seq(Jobs) /\ cjob[c] \in Jobs
        BY <1>1, <1>5, <2>1 DEF Enqueue, TypeOK, Posted
      <3>2. /\ Len(queue') = Len(queue) + 1 /\ Len(queue) \in Nat
            /\ \A i \in 1 .. Len(queue) : queue'[i] = queue[i]
            /\ queue'[Len(queue) + 1] = cjob[c]
        BY <3>1, AppendProperties, LenProperties
      <3>3. /\ \A i \in 1 .. Len(queue) : i \in 1 .. Len(queue')
            /\ \A i \in 1 .. Len(queue') : i \in 1 .. Len(queue) \/ i = Len(queue) + 1
            /\ Len(queue) + 1 \in 1 .. Len(queue')
        BY <3>2
      <3>4. \A j : (\E i \in 1 .. Len(queue') : queue'[i] = j)
                   <=> (\E i \in 1 .. Len(queue) : queue[i] = j) \/ j = cjob[c]
        BY <3>2, <3>3
      <3> QED
        BY <1>2, <2>1, <3>4 DEF Listing
    <2>2. CASE ~Enqueue(c)
      <3>1. queue' = queue
        BY <2>2 DEF ExecStep, PushBackLink, PushBackClose, PushArgs
      <3> QED
        BY <1>2, <2>2, <3>1 DEF Listing
    <2> QED
      BY <2>1, <2>2
  <1>7. \A j : Held(j)' <=> Held(j)
    BY <1>2, <1>6 DEF Held
  <1>8. OpenByLast'
    <2>1. ASSUME NEW f \in Jobs, Opened(f)'
          PROVE  ~Listing(f)' /\ \E d \in Clients : cpc'[d] = "return" /\ cjob'[d] = f /\ cur' # f
      <3>1. Opened(f)
        BY <1>2, <2>1 DEF Opened, allocVars
      <3>2. ~Listing(f) /\ \E d \in Clients : cpc[d] = "return" /\ cjob[d] = f /\ cur # f
        BY <1>2, <3>1 DEF FInv, OpenByLast, PollerReady
      <3> QED
        BY <1>2, <1>3, <1>4, <1>5, <1>6, <3>2
    <2> QED
      BY <2>1 DEF OpenByLast
  <1> QED
    BY <1>2, <1>7, <1>8, QuietStep

\* A client that leaves exec keeps the invariant.
LEMMA ReturnKeeps ==
    ASSUME IInv, FInv, NEW c \in Clients, Return(c)
    PROVE  FInv'
  <1>1. TypeOK /\ PlacesFitJobs
    BY DEF IInv
  <1>2. /\ UNCHANGED allocVars /\ ~PollerReady /\ cpc[c] = "return"
        /\ ClientIsLast(c) => fpc[cjob[c]] = "none"
        /\ cpc' = [cpc EXCEPT ![c] = "idle"] /\ cjob' = [cjob EXCEPT ![c] = None]
        /\ nodes' = nodes /\ queue' = queue /\ cur' = cur /\ ppc' = ppc /\ done' = done
    BY DEF Return, ExecReturn
  <1>3. [Next]_vars
    BY DEF Return, Next, Exec
  <1>4. \A d \in Clients : d # c => cpc'[d] = cpc[d] /\ cjob'[d] = cjob[d]
    BY <1>1, <1>2 DEF TypeOK
  <1>5. cjob'[c] = None /\ cjob[c] \in Jobs
    BY <1>1, <1>2, ClientHolds DEF TypeOK, Posted
  <1>6. \A j : Listing(j)' <=> Listing(j)
    BY <1>2 DEF Listing
  <1>7. \A j \in Jobs : Held(j)' => Held(j)
    BY <1>2, <1>4, <1>5, <1>6, JobAssumption DEF Held
  <1>8. \A j \in Jobs : ~Held(j)' => ~Held(j) \/ fpc[j] = "none"
    BY <1>2, <1>4, <1>5, <1>6 DEF Held, ClientIsLast
  <1>9. OpenByLast'
    <2>1. ASSUME NEW f \in Jobs, Opened(f)'
          PROVE  ~Listing(f)' /\ \E d \in Clients : cpc'[d] = "return" /\ cjob'[d] = f /\ cur' # f
      <3>1. Opened(f)
        BY <1>2, <2>1 DEF Opened, allocVars
      <3>2. ~Listing(f)
        BY <3>1 DEF FInv, OpenByLast
      <3>3. PICK d \in Clients : cpc[d] = "return" /\ cjob[d] = f /\ cur # f
        BY <1>2, <3>1 DEF FInv, OpenByLast, PollerReady
      <3>4. d # c
        BY <1>2, <3>1, <3>2, <3>3 DEF ClientIsLast, Opened
      <3> QED
        BY <1>2, <1>4, <1>6, <3>2, <3>3, <3>4
    <2> QED
      BY <2>1 DEF OpenByLast
  <1> QED
    BY <1>2, <1>3, <1>7, <1>8, <1>9, QuietStep

\* So does every step of poll.
LEMMA PollerKeeps ==
    ASSUME IInv, FInv, PollStep \/ DelayEnds \/ DropFront
    PROVE  FInv'
  <1>1. TypeOK /\ PlacesFitJobs /\ (cur = None <=> ppc = "pop")
    BY DEF IInv, PlacesFitJobs
  <1>2. UNCHANGED allocVars /\ [Next]_vars /\ cpc' = cpc /\ cjob' = cjob /\ done \subseteq done'
    BY DEF PollStep, DelayEnds, DropFront, Pop, Invoke, RunJob, Dispose, Drop, Wake, Next, Poll
  <1>3. \A f : Opened(f)' <=> Opened(f)
    BY <1>2 DEF Opened, allocVars
  <1>4. CASE Pop
    <2>1. /\ queue \in Seq(Jobs) /\ queue # <<>> /\ cur' = Head(queue) /\ queue' = Tail(queue)
          /\ nodes' = nodes /\ cur = None /\ ppc = "pop"
      BY <1>1, <1>4 DEF Pop, TypeOK
    <2>2. /\ Len(queue) \in Nat /\ Len(queue) > 0 /\ Head(queue) = queue[1]
          /\ Len(queue') = Len(queue) - 1
          /\ \A i \in 1 .. Len(queue) - 1 : queue'[i] = queue[i + 1]
      BY <2>1, HeadTailProperties, EmptySeq, LenProperties
    <2>3. \A j : (\E i \in 1 .. Len(queue) : queue[i] = j)
                 <=> j = cur' \/ \E i \in 1 .. Len(queue') : queue'[i] = j
      <3>1. cur' = queue[1] /\ 1 \in 1 .. Len(queue)
        BY <2>1, <2>2
      <3>2. \A i \in 1 .. Len(queue') : i + 1 \in 1 .. Len(queue) /\ queue'[i] = queue[i + 1]
        BY <2>2
      <3>3. ASSUME NEW i \in 1 .. Len(queue), i # 1
            PROVE  \E m \in 1 .. Len(queue') : queue'[m] = queue[i]
        <4>1. i - 1 \in 1 .. Len(queue') /\ (i - 1) + 1 = i
          BY <2>2, <3>3
        <4>2. queue'[i - 1] = queue[i]
          BY <3>2, <4>1
        <4> QED
          BY <4>1, <4>2
      <3> QED
        BY <3>1, <3>2, <3>3
    <2>4. \A j \in Jobs : Listing(j) <=> j = cur' \/ Listing(j)'
      BY <2>1, <2>3 DEF Listing
    <2>5. \A j \in Jobs : Held(j)' <=> Held(j)
      BY <1>2, <2>1, <2>4, JobAssumption DEF Held
    <2>6. OpenByLast'
      BY <1>2, <1>3, <2>1, <2>4 DEF FInv, OpenByLast
    <2> QED
      BY <1>2, <2>5, <2>6, QuietStep
  <1>5. CASE Invoke \/ Wake
    <2>1. nodes' = nodes /\ queue' = queue /\ cur' = cur /\ ppc # "drop"
      BY <1>5 DEF Invoke, Wake
    <2>2. \A j : (Listing(j)' <=> Listing(j)) /\ (Held(j)' <=> Held(j))
      BY <1>2, <2>1 DEF Held, Listing
    <2>3. OpenByLast'
      BY <1>2, <1>3, <2>1, <2>2 DEF FInv, OpenByLast
    <2> QED
      BY <1>2, <2>2, <2>3, QuietStep
  <1>6. CASE Dispose
    <2>1. /\ nodes' = nodes \/ nodes' = nodes \ {cur}
          /\ queue' = queue /\ cur' = cur /\ ppc # "drop"
      BY <1>6 DEF Dispose, list
    <2>2. \A j : (Listing(j)' => Listing(j)) /\ (Listing(j) => Listing(j)' \/ j = cur)
      BY <2>1 DEF Listing
    <2>3. \A j : Held(j)' <=> Held(j)
      BY <1>2, <2>1, <2>2 DEF Held
    <2>4. OpenByLast'
      BY <1>2, <1>3, <2>1, <2>2 DEF FInv, OpenByLast
    <2> QED
      BY <1>2, <2>3, <2>4, QuietStep
  <1>7. CASE DropFront
    <2>1. /\ nodes' = nodes /\ queue' = queue /\ cur' = None /\ ppc = "drop"
          /\ PollerIsLast => fpc[cur] = "none"
      BY <1>7 DEF DropFront, Drop
    <2>2. \A j : Listing(j)' <=> Listing(j)
      BY <2>1 DEF Listing
    <2>3. \A j \in Jobs : Held(j)' => Held(j)
      BY <1>2, <2>1, <2>2, JobAssumption DEF Held
    <2>4. \A j \in Jobs : ~Held(j)' => ~Held(j) \/ fpc[j] = "none"
      BY <1>2, <2>1, <2>2 DEF Held, PollerIsLast
    <2>5. OpenByLast'
      <3>1. ASSUME NEW f \in Jobs, Opened(f)
            PROVE  ~Listing(f) /\ \E d \in Clients : cpc[d] = "return" /\ cjob[d] = f /\ cur # f
        BY <2>1, <3>1 DEF FInv, OpenByLast, PollerIsLast, Opened
      <3>2. \A f \in Jobs : cur' # f
        BY <2>1, JobAssumption
      <3> QED
        BY <1>2, <1>3, <2>2, <3>1, <3>2 DEF OpenByLast
    <2> QED
      BY <1>2, <2>3, <2>4, <2>5, QuietStep
  <1> QED
    BY <1>4, <1>5, <1>6, <1>7 DEF PollStep, DelayEnds

\* So does the making of a Deliver.
LEMMA MakeKeeps ==
    ASSUME EInv, FInv, NEW c \in Clients, MakeDeliver(c)
    PROVE  FInv'
  <1>1. TypeOK /\ PlacesFitJobs /\ IInv /\ AllocInv /\ Fresh
    BY DEF EInv, IInv
  <1>2. PICK j \in Posted :
           /\ Caller[j] = c
           /\ \A i \in 1 .. Len(posted) : posted[i] # j
           /\ cjob' = [cjob EXCEPT ![c] = j]
           /\ nodes' = nodes \cup {j}
    BY DEF MakeDeliver, PushBackNode
  <1>3. /\ cpc[c] = "idle" /\ cpc' = [cpc EXCEPT ![c] = "link"] /\ ~PollerReady
        /\ posted' = posted /\ queue' = queue /\ cur' = cur /\ ppc' = ppc /\ done' = done
        /\ EA!Alloc(cjob'[c]) /\ [Next]_vars
    BY DEF MakeDeliver, PushBackNode, Next, Exec
  <1>4. cjob'[c] = j /\ EA!Alloc(j) /\ j \in Events /\ j \in Jobs
    BY <1>1, <1>2, <1>3 DEF TypeOK, Events, Posted
  <1>5. fpc[j] = "none"
    BY <1>1, <1>2, <1>3, <1>4 DEF Fresh, PlacesFitJobs
  <1>6. fpc' = [fpc EXCEPT ![j] = "live"]
    BY <1>1, <1>4, <1>5, AllocStepInv
  <1>7. fpc'[j] = "live" /\ \A f \in Events : f # j => fpc'[f] = fpc[f]
    BY <1>1, <1>4, <1>6 DEF AllocInv, AllocTypes
  <1>8. cjob[c] = None /\ cpc'[c] = "link"
        /\ \A d \in Clients : d # c => cpc'[d] = cpc[d] /\ cjob'[d] = cjob[d]
    BY <1>1, <1>2, <1>3 DEF TypeOK, PlacesFitJobs
  <1>9. LatestPost' /\ LatestServed'
    BY <1>1, <1>3, LatestPostNext, LatestServedNext DEF FInv
  <1>10. \A k : Listing(k)' <=> Listing(k) \/ k = j
    BY <1>2, <1>3 DEF Listing
  <1>11. OpenByLast'
    <2>1. ASSUME NEW f \in Jobs, Opened(f)'
          PROVE  ~Listing(f)' /\ \E d \in Clients : cpc'[d] = "return" /\ cjob'[d] = f /\ cur' # f
      <3>1. f # j /\ Opened(f)
        BY <1>7, <2>1 DEF Opened, Events
      <3>2. ~Listing(f) /\ \E d \in Clients : cpc[d] = "return" /\ cjob[d] = f /\ cur # f
        BY <1>3, <3>1 DEF FInv, OpenByLast, PollerReady
      <3> QED
        BY <1>3, <1>8, <1>10, <3>1, <3>2
    <2> QED
      BY <2>1 DEF OpenByLast
  <1>12. fpc'[Mailbox] = "live"
    BY <1>4, <1>7, SetAssumption DEF FInv, Events
  <1>13. EventLivesWithDeliver'
    <2>1. \A k \in Jobs : (Held(k) /\ k \notin done => fpc[k] = "live")
                          /\ (~Held(k) => fpc[k] = "none")
      BY DEF FInv, EventLivesWithDeliver, Held
    <2>2. \A k \in Jobs : k # j => (Held(k)' <=> Held(k))
      BY <1>3, <1>4, <1>8, <1>10, JobAssumption DEF Held
    <2>3. Held(j)'
      BY <1>4 DEF Held
    <2>4. \A k \in Jobs : (Held(k)' /\ k \notin done' => fpc'[k] = "live")
                          /\ (~Held(k)' => fpc'[k] = "none")
      BY <1>3, <1>7, <2>1, <2>2, <2>3 DEF Events
    <2> QED
      BY <2>4 DEF EventLivesWithDeliver, Held
  <1>14. RaceNeedsTwoClients'
    <2>1. \A k \in Begun : k \in Begun'
      BY <1>1, <1>3, BegunStays DEF FInv
    <2>2. CASE raced
      BY <2>1, <2>2 DEF FInv, RaceNeedsTwoClients
    <2>3. CASE raced' /\ ~raced
      <3>1. PICK f \in Events \ {j} : Opened(f)
        BY <1>4, <2>3, AllocRace
      <3>2. f \in Jobs
        BY <3>1 DEF FInv, Events, Opened
      <3>3. PICK d \in Clients : cpc[d] = "return" /\ cjob[d] = f
        BY <1>3, <3>1, <3>2 DEF FInv, OpenByLast, PollerReady
      <3>4. d # c /\ Caller[f] = d /\ f \in Posted
        BY <1>1, <1>3, <3>3, ClientHolds DEF PlacesFitJobs
      <3>5. f \in Begun' /\ j \in Begun'
        BY <1>2, <1>4, <1>8, <3>3, <3>4 DEF Begun, Posted
      <3> QED
        BY <1>2, <3>4, <3>5 DEF RaceNeedsTwoClients
    <2> QED
      BY <2>2, <2>3 DEF RaceNeedsTwoClients
  <1> QED
    BY <1>9, <1>11, <1>12, <1>13, <1>14 DEF FInv

\* So does every step.
LEMMA FInvNext == EInv /\ FInv /\ [ENext]_allVars => FInv'
  <1> SUFFICES ASSUME EInv, FInv, [ENext]_allVars PROVE FInv'
    OBVIOUS
  <1>1. IInv /\ AllocInv /\ TypeOK /\ PlacesFitJobs
    BY DEF EInv, IInv
  <1>2. ASSUME NEW c \in Clients, ReturnFrees(c)
        PROVE  FInv'
    <2>1. /\ cjob[c] \in Jobs /\ ~PollerReady /\ cpc[c] = "return" /\ ClientIsLast(c)
          /\ EA!Free(cjob[c]) /\ UNCHANGED vars /\ ~Listing(cjob[c])
      BY <1>1, <1>2, ClientHolds DEF ReturnFrees, Posted, ClientIsLast
    <2> QED
      BY <1>1, <2>1, FreeStep
  <1>3. CASE DropFrees
    <2>1. /\ cur \in Jobs /\ ppc = "drop" /\ PollerIsLast
          /\ EA!Free(cur) /\ UNCHANGED vars /\ ~Listing(cur)
      BY <1>1, <1>3 DEF DropFrees, PollerIsLast, TypeOK, PlacesFitJobs
    <2> QED
      BY <1>1, <2>1, FreeStep
  <1>4. CASE UNCHANGED allVars
    <2>1. UNCHANGED vars /\ UNCHANGED allocVars
      BY <1>4 DEF allVars
    <2>2. nodes' = nodes /\ queue' = queue /\ cur' = cur /\ cjob' = cjob /\ cpc' = cpc
          /\ ppc' = ppc /\ done' = done /\ fpc' = fpc
      BY <2>1 DEF vars, allocVars
    <2>3. \A j : (Listing(j)' <=> Listing(j)) /\ (Held(j)' <=> Held(j))
                 /\ (Opened(j)' <=> Opened(j))
      BY <2>2 DEF Held, Listing, Opened
    <2>4. OpenByLast'
      BY <2>2, <2>3 DEF FInv, OpenByLast
    <2> QED
      BY <1>1, <2>1, <2>2, <2>3, <2>4, QuietStep
  <1> QED
    BY <1>1, <1>2, <1>3, <1>4, MakeKeeps, ExecStepKeeps, ReturnKeeps, PollerKeeps DEF ENext

\* At the start no Deliver exists.
LEMMA FInvInit == EInit => FInv
  <1> SUFFICES ASSUME EInit PROVE FInv
    OBVIOUS
  <1>1. /\ cpc = [c \in Clients |-> "idle"] /\ cjob = [c \in Clients |-> None]
        /\ served = <<>> /\ posted = <<>> /\ ppc = "pop" /\ nodes = {} /\ queue = <<>>
        /\ cur = None /\ raced = FALSE /\ done = {}
        /\ fpc = [e \in Events |-> IF e = Mailbox THEN "live" ELSE "none"]
    BY DEF EInit, Init, EA!AllocInit
  <1>2. LatestPost /\ LatestServed
    BY <1>1 DEF LatestPost, LatestServed
  <1>3. \A j \in Jobs : fpc[j] = "none"
    BY <1>1, SetAssumption DEF Events
  <1>4. \A j \in Jobs : ~Held(j)
    BY <1>1, JobAssumption, EmptySeq DEF Held, Listing
  <1>5. OpenByLast
    BY <1>3 DEF OpenByLast, Opened
  <1>6. EventLivesWithDeliver
    BY <1>3, <1>4 DEF EventLivesWithDeliver, Held
  <1> QED
    BY <1>1, <1>2, <1>5, <1>6 DEF FInv, RaceNeedsTwoClients, Events

\* The invariant holds throughout.
LEMMA FInvariant == ESpec => []FInv
  <1>1. EInit => EInv /\ FInv
    BY EInvInit, FInvInit
  <1>2. EInv /\ FInv /\ [ENext]_allVars => (EInv /\ FInv)'
    BY EInvNext, FInvNext
  <1> QED
    BY <1>1, <1>2, PTL DEF ESpec

-----------------------------------------------------------------------------
(* Events live with their Delivers *)

\* A Deliver that can still be called has its Event, and one that nothing refers
\* to has none, whichever thread drops the last reference
\* (os/event.cxx:9-13, os/deliver.hxx:72-88).
THEOREM ExecutorEventLivesWithDeliver == ESpec => []EventLivesWithDeliver
  <1>1. FInv => EventLivesWithDeliver
    BY DEF FInv
  <1> QED
    BY <1>1, FInvariant, PTL

\* A bitset changes under an open free only when two clients have handed jobs to
\* exec (os/compacted_event_set.cxx:29-34).
THEOREM ExecutorRaceNeedsTwoClients == ESpec => []RaceNeedsTwoClients
  <1>1. FInv => RaceNeedsTwoClients
    BY DEF FInv
  <1> QED
    BY <1>1, FInvariant, PTL

-----------------------------------------------------------------------------
(* The list Post::delivers *)

\* The walk follows the next pointers until it comes back to the header.
LEMMA WalkFollows ==
    ASSUME nxt \in [Jobs \cup {End} -> Jobs \cup {End}], Cardinality(Jobs) \in Nat
    PROVE  /\ DOMAIN Walk = 0 .. Cardinality(Jobs)
           /\ Walk[0] = nxt[End]
           /\ \A i \in 1 .. Cardinality(Jobs) :
                 Walk[i] = IF Walk[i - 1] = End THEN End ELSE nxt[Walk[i - 1]]
  <1> DEFINE S == Jobs \cup {End}
             K == Cardinality(Jobs)
             h == [i \in 1 .. K |-> [x \in S |-> IF x = End THEN End ELSE nxt[x]]]
             Body(f) == [i \in 0 .. K |->
                            IF i = 0 THEN nxt[End]
                            ELSE IF f[i - 1] = End THEN End ELSE nxt[f[i - 1]]]
  <1>1. PICK f : Walks(f, nxt[End], h, K, S)
    <2>1. nxt[End] \in S /\ Steps(h, K, S)
      BY DEF Steps
    <2> HIDE DEF h, S, K
    <2> QED
      BY <2>1, Iterate, Zenon
  <1>2. \A i \in 1 .. K : f[i] = IF f[i - 1] = End THEN End ELSE nxt[f[i - 1]]
    <2>1. \A i \in 1 .. K : i - 1 \in 0 .. K /\ f[i - 1] \in S
      BY <1>1 DEF Walks
    <2> HIDE DEF S
    <2> QED
      BY <1>1, <2>1 DEF Walks
  <1>3. f = Body(f)
    <2>1. \A i \in 0 .. K : f[i] = Body(f)[i]
      <3>1. \A i \in 0 .. K : i = 0 \/ i \in 1 .. K
        OBVIOUS
      <3> QED
        BY <1>1, <1>2, <3>1 DEF Walks
    <2> QED
      BY <1>1, <2>1 DEF Walks
  <1>4. Walk = Body(Walk)
    <2>1. \E g : g = Body(g)
      BY <1>3
    <2> QED
      BY <2>1, Zenon DEF Walk
  <1> QED
    BY <1>4

\* The i-th node of the chain s, or the header before its first and after its last.
At(s, i) == IF i \in 1 .. Len(s) THEN s[i] ELSE End

\* No member of s occurs twice.
Differ(s) == \A i, j \in 1 .. Len(s) : s[i] = s[j] => i = j

\* The walk along a chain of different nodes meets them all, and ends.
LEMMA WalkAlong ==
    ASSUME nxt \in [Jobs \cup {End} -> Jobs \cup {End}], IsFiniteSet(Jobs),
           NEW s \in Seq(Jobs), Differ(s),
           \A i \in 0 .. Len(s) : nxt[At(s, i)] = At(s, i + 1)
    PROVE  /\ WalkEnds
           /\ \A j \in Jobs : Listed(j) <=> \E i \in 1 .. Len(s) : s[i] = j
  <1> DEFINE K == Cardinality(Jobs)
             n == Len(s)
             M == {i \in Nat : i <= K /\ Walk[i] # At(s, i + 1)}
  <1>1. K \in Nat /\ n \in Nat /\ n <= K
    <2>1. s \in Injection(1 .. n, Jobs)
      BY LenProperties DEF Differ, Injection, IsInjective
    <2>2. K \in Nat /\ n \in Nat /\ Cardinality(1 .. n) = n
      <3>1. K \in Nat /\ n \in Nat
        BY FS_CardinalityType, LenProperties
      <3> HIDE DEF n
      <3>2. Cardinality(1 .. n) = IF 1 > n THEN 0 ELSE n - 1 + 1
        BY <3>1, FS_Interval
      <3> QED
        BY <3>1, <3>2
    <2>3. Cardinality(1 .. n) <= K
      BY <2>1, FS_Injection
    <2> QED
      BY <2>2, <2>3
  <1>2. /\ DOMAIN Walk = 0 .. K
        /\ Walk[0] = nxt[End]
        /\ \A i \in 1 .. K : Walk[i] = IF Walk[i - 1] = End THEN End ELSE nxt[Walk[i - 1]]
    BY <1>1, WalkFollows
  <1>3. \A i \in Int : At(s, i) = End <=> i \notin 1 .. n
    <2>1. \A i \in 1 .. n : s[i] \in Jobs
      BY ElementOfSeq
    <2> QED
      BY <2>1, JobAssumption DEF At
  <1>4. ASSUME M # {} PROVE FALSE
    <2>1. PICK i \in M : \A m \in M : i <= m
      <3>1. M \in SUBSET Nat
        OBVIOUS
      <3> HIDE DEF M
      <3> QED
        BY <1>4, <3>1, Least
    <2>2. i # 0
      BY <1>1, <1>2, <2>1 DEF At
    <2>3. i \in 1 .. K /\ i - 1 \in Nat /\ i - 1 <= K /\ i - 1 \notin M
      BY <1>1, <2>1, <2>2
    <2>4. Walk[i - 1] = At(s, i)
      <3>1. (i - 1) + 1 = i
        BY <2>3
      <3> QED
        BY <2>3, <3>1
    <2>5. CASE i \in 1 .. n
      BY <1>2, <1>3, <2>1, <2>3, <2>4, <2>5
    <2>6. CASE i \notin 1 .. n
      BY <1>1, <1>2, <1>3, <2>1, <2>3, <2>4, <2>6
    <2> QED
      BY <2>5, <2>6
  <1>5. \A i \in 0 .. K : Walk[i] = At(s, i + 1)
    BY <1>1, <1>4
  <1>6. WalkEnds
    <2>1. n \in DOMAIN Walk /\ Walk[n] = End
      BY <1>1, <1>2, <1>3, <1>5
    <2> QED
      BY <2>1 DEF WalkEnds
  <1>7. ASSUME NEW j \in Jobs
        PROVE  Listed(j) <=> \E i \in 1 .. n : s[i] = j
    <2>1. ASSUME NEW i \in 1 .. n, s[i] = j
          PROVE  Listed(j)
      <3>1. i - 1 \in 0 .. K /\ (i - 1) + 1 = i
        BY <1>1
      <3>2. Walk[i - 1] = s[i]
        BY <1>5, <3>1 DEF At
      <3> QED
        BY <1>2, <2>1, <3>1, <3>2 DEF Listed
    <2>2. ASSUME NEW i \in 0 .. K, Walk[i] = j
          PROVE  \E k \in 1 .. n : s[k] = j
      <3>1. At(s, i + 1) = j /\ j # End
        BY <1>5, <2>2, JobAssumption
      <3> QED
        BY <3>1 DEF At
    <2> QED
      BY <1>2, <2>1, <2>2 DEF Listed
  <1> QED
    BY <1>6, <1>7

-----------------------------------------------------------------------------
(* The chain that the list is, apart from the push_backs that are going on *)

\* A client inside push_back has taken the end of the chain as its prev; once it
\* has linked its node, it is the only one there.
Chained(s) ==
    /\ Differ(s)
    /\ \A j \in Jobs : j \in nodes <=> \/ \E i \in 1 .. Len(s) : s[i] = j
                                       \/ \E c \in Clients : Appending(c) /\ cjob[c] = j
    /\ \A i \in 0 .. Len(s) : prv[At(s, i + 1)] = At(s, i)
    /\ \A i \in 0 .. Len(s) - 1 : nxt[At(s, i)] = At(s, i + 1)
    /\ (\A c \in Clients : cpc[c] # "close") => nxt[At(s, Len(s))] = End
    /\ \A c \in Clients : cpc[c] = "close" => nxt[At(s, Len(s))] = cjob[c]
    /\ \A c, d \in Clients : cpc[c] = "close" /\ cpc[d] = "close" => c = d
    /\ \A c \in Clients : Appending(c) =>
          /\ prv[cjob[c]] = At(s, Len(s))
          /\ nxt[cjob[c]] = End
          /\ \A i \in 1 .. Len(s) : s[i] # cjob[c]

\* Unless a link was torn, the nodes form a chain.
ListInv == ~torn => \E s \in Seq(Jobs) : Chained(s)

\* A node belongs to a job that has been handed to exec.
NodesBegun == nodes \subseteq Begun

\* The places of a sequence of jobs are its jobs, and the header on both sides.
LEMMA AtFacts ==
    ASSUME NEW s \in Seq(Jobs)
    PROVE  /\ Len(s) \in Nat
           /\ \A i \in Int : At(s, i) \in Jobs \cup {End}
           /\ \A i \in Int : At(s, i) = End <=> i \notin 1 .. Len(s)
           /\ \A i \in 1 .. Len(s) : At(s, i) = s[i] /\ s[i] \in Jobs
  <1>1. \A i \in 1 .. Len(s) : s[i] \in Jobs
    BY ElementOfSeq
  <1> QED
    BY <1>1, LenProperties, JobAssumption DEF At

\* push_back begins with a node that the list does not have.
LEMMA NodeKeepsChain ==
    ASSUME IInv, NodesBegun, NEW s \in Seq(Jobs), Chained(s), NEW c \in Clients,
           PushBackNode(c)
    PROVE  Chained(s)'
  <1>1. TypeOK /\ PlacesFitJobs
    BY DEF IInv
  <1>2. PICK j \in Posted :
          /\ Caller[j] = c
          /\ \A i \in 1 .. Len(posted) : posted[i] # j
          /\ cjob' = [cjob EXCEPT ![c] = j]
          /\ nodes' = nodes \cup {j}
          /\ nxt' = [nxt EXCEPT ![j] = End]
          /\ prv' = [prv EXCEPT ![j] = prv[End]]
    BY DEF PushBackNode
  <1>3. cpc[c] = "idle" /\ cpc' = [cpc EXCEPT ![c] = "link"] /\ j \in Jobs /\ j # End
    BY JobAssumption DEF PushBackNode, Posted
  <1>4. \A d \in Clients : cjob[d] # j
    <2>1. j # None
      BY <1>3, JobAssumption
    <2>2. ASSUME NEW d \in Clients, cjob[d] = j PROVE FALSE
      <3>1. cpc[d] # "idle"
        BY <1>1, <2>1, <2>2 DEF PlacesFitJobs
      <3>2. Caller[j] = d
        BY <1>1, <2>2, <3>1 DEF PlacesFitJobs
      <3> QED
        BY <1>2, <1>3, <3>1, <3>2
    <2> QED
      BY <2>2
  <1>5. j \notin nodes
    BY <1>2, <1>4 DEF NodesBegun, Begun
  <1>6. \A i \in 1 .. Len(s) : s[i] # j
    BY <1>3, <1>5 DEF Chained
  <1>7. /\ \A i \in Int : At(s, i) # j
        /\ Len(s) \in Nat /\ At(s, Len(s) + 1) = End
        /\ \A i \in Int : At(s, i) \in Jobs \cup {End}
    BY <1>3, <1>6, AtFacts
  <1>8. \A d \in Clients : /\ Appending(d)' <=> d = c \/ Appending(d)
                           /\ cpc'[d] = "close" <=> cpc[d] = "close"
                           /\ d # c => cjob'[d] = cjob[d]
    BY <1>1, <1>2, <1>3 DEF Appending, TypeOK
  <1>9. cjob'[c] = j /\ prv[End] = At(s, Len(s)) /\ ~Appending(c)
    BY <1>1, <1>2, <1>3, <1>7 DEF Chained, TypeOK, Appending
  <1>10. \A i \in Int : nxt'[At(s, i)] = nxt[At(s, i)] /\ prv'[At(s, i)] = prv[At(s, i)]
    BY <1>1, <1>2, <1>7 DEF TypeOK
  <1>11. nxt'[j] = End /\ prv'[j] = At(s, Len(s))
    BY <1>1, <1>2, <1>3, <1>9 DEF TypeOK
  <1>12. \A d \in Clients : d # c => nxt'[cjob[d]] = nxt[cjob[d]] /\ prv'[cjob[d]] = prv[cjob[d]]
    BY <1>1, <1>2, <1>4 DEF TypeOK
  <1> QED
    <2>1. Differ(s)
      BY DEF Chained
    <2>2. \A k \in Jobs : k \in nodes' <=> \/ \E i \in 1 .. Len(s) : s[i] = k
                                           \/ \E d \in Clients : Appending(d)' /\ cjob'[d] = k
      BY <1>2, <1>8, <1>9 DEF Chained
    <2>3. \A i \in 0 .. Len(s) : prv'[At(s, i + 1)] = At(s, i)
      BY <1>7, <1>10 DEF Chained
    <2>4. \A i \in 0 .. Len(s) - 1 : nxt'[At(s, i)] = At(s, i + 1)
      BY <1>7, <1>10 DEF Chained
    <2>5. (\A d \in Clients : cpc'[d] # "close") => nxt'[At(s, Len(s))] = End
      BY <1>7, <1>8, <1>10 DEF Chained
    <2>6. \A d \in Clients : cpc'[d] = "close" => nxt'[At(s, Len(s))] = cjob'[d]
      BY <1>3, <1>7, <1>8, <1>10 DEF Chained
    <2>7. \A d, e \in Clients : cpc'[d] = "close" /\ cpc'[e] = "close" => d = e
      BY <1>8 DEF Chained
    <2>8. \A d \in Clients : Appending(d)' =>
             /\ prv'[cjob'[d]] = At(s, Len(s))
             /\ nxt'[cjob'[d]] = End
             /\ \A i \in 1 .. Len(s) : s[i] # cjob'[d]
      BY <1>6, <1>8, <1>9, <1>11, <1>12 DEF Chained
    <2> QED
      BY <2>1, <2>2, <2>3, <2>4, <2>5, <2>6, <2>7, <2>8 DEF Chained

\* push_back links its node when no other client is inside push_back.
LEMMA LinkKeepsChain ==
    ASSUME IInv, NEW s \in Seq(Jobs), Chained(s), NEW c \in Clients,
           PushBackLink(c), ~torn'
    PROVE  Chained(s)'
  <1>1. TypeOK /\ PlacesFitJobs
    BY DEF IInv
  <1> DEFINE j == cjob[c]
             n == Len(s)
  <1>2. /\ cpc[c] = "link" /\ cpc' = [cpc EXCEPT ![c] = "close"]
        /\ nxt' = [nxt EXCEPT ![prv[j]] = j]
        /\ UNCHANGED <<cjob, nodes, prv>>
        /\ \A d \in Clients : Appending(d) <=> d = c
    BY DEF PushBackLink, Appending
  <1>3. j \in Jobs /\ j # End
    BY <1>1, <1>2, ClientHolds, JobAssumption DEF Posted
  <1>4. /\ n \in Nat
        /\ \A i \in Int : At(s, i) \in Jobs \cup {End}
        /\ \A i \in Int : At(s, i) = End <=> i \notin 1 .. n
        /\ \A i \in 1 .. n : At(s, i) = s[i]
    BY AtFacts
  <1>5. /\ prv[j] = At(s, n) /\ nxt[j] = End
        /\ \A i \in 1 .. n : s[i] # j
    BY <1>2 DEF Chained
  <1>6. \A i \in 0 .. n - 1 : At(s, i) # At(s, n)
    <2>1. \A i \in 1 .. n - 1 : s[i] # s[n]
      BY <1>4 DEF Chained, Differ
    <2> QED
      BY <1>4, <2>1
  <1>7. /\ \A i \in 0 .. n - 1 : nxt'[At(s, i)] = nxt[At(s, i)]
        /\ nxt'[At(s, n)] = j
        /\ nxt'[j] = End
    <2>1. j # At(s, n)
      BY <1>3, <1>4, <1>5
    <2> QED
      BY <1>1, <1>2, <1>3, <1>4, <1>5, <1>6, <2>1 DEF TypeOK
  <1>8. \A d \in Clients : /\ Appending(d)' <=> d = c
                           /\ cpc'[d] = "close" <=> d = c
    BY <1>1, <1>2 DEF Appending, TypeOK
  <1> QED
    <2>1. Differ(s)
      BY DEF Chained
    <2>2. \A k \in Jobs : k \in nodes' <=> \/ \E i \in 1 .. n : s[i] = k
                                           \/ \E d \in Clients : Appending(d)' /\ cjob'[d] = k
      BY <1>2, <1>8 DEF Chained
    <2>3. \A i \in 0 .. n : prv'[At(s, i + 1)] = At(s, i)
      BY <1>2 DEF Chained
    <2>4. \A i \in 0 .. n - 1 : nxt'[At(s, i)] = At(s, i + 1)
      BY <1>7 DEF Chained
    <2>5. \A d \in Clients : cpc'[d] = "close" => nxt'[At(s, n)] = cjob'[d]
      BY <1>2, <1>7, <1>8
    <2>6. \A d \in Clients : Appending(d)' =>
             /\ prv'[cjob'[d]] = At(s, n)
             /\ nxt'[cjob'[d]] = End
             /\ \A i \in 1 .. n : s[i] # cjob'[d]
      BY <1>2, <1>5, <1>7, <1>8
    <2>7. ~\A d \in Clients : cpc'[d] # "close"
      BY <1>8
    <2>8. \A d, e \in Clients : cpc'[d] = "close" /\ cpc'[e] = "close" => d = e
      BY <1>8
    <2> HIDE DEF j
    <2> QED
      BY <2>1, <2>2, <2>3, <2>4, <2>5, <2>6, <2>7, <2>8 DEF Chained

\* When push_back is over, its node is the last of the chain.
LEMMA CloseExtendsChain ==
    ASSUME IInv, NEW s \in Seq(Jobs), Chained(s), NEW c \in Clients,
           PushBackClose(c), ~torn'
    PROVE  \E r \in Seq(Jobs) : Chained(r)'
  <1>1. TypeOK /\ PlacesFitJobs
    BY DEF IInv
  <1> DEFINE j == cjob[c]
             n == Len(s)
  <1>2. /\ cpc[c] = "close" /\ cpc' = [cpc EXCEPT ![c] = "args"]
        /\ prv' = [prv EXCEPT ![End] = j]
        /\ UNCHANGED <<cjob, nodes, nxt>>
        /\ \A d \in Clients : Appending(d) <=> d = c
    BY DEF PushBackClose, Appending
  <1>3. j \in Jobs /\ j # End
    BY <1>1, <1>2, ClientHolds, JobAssumption DEF Posted
  <1>4. /\ n \in Nat
        /\ \A i \in Int : At(s, i) \in Jobs \cup {End}
        /\ \A i \in Int : At(s, i) = End <=> i \notin 1 .. n
        /\ \A i \in 1 .. n : At(s, i) = s[i] /\ s[i] \in Jobs
    BY AtFacts
  <1>5. /\ prv[j] = At(s, n) /\ nxt[j] = End /\ nxt[At(s, n)] = j
        /\ \A i \in 1 .. n : s[i] # j
    BY <1>2 DEF Chained
  <1>6. PICK r \in Seq(Jobs) : /\ Len(r) = n + 1 /\ r[n + 1] = j
                              /\ \A i \in 1 .. n : r[i] = s[i]
    <2>1. /\ Append(s, j) \in Seq(Jobs) /\ Len(Append(s, j)) = n + 1
          /\ Append(s, j)[n + 1] = j
          /\ \A i \in 1 .. n : Append(s, j)[i] = s[i]
      BY <1>3, AppendProperties
    <2> QED
      BY <2>1
  <1>7. /\ \A i \in 0 .. n : At(r, i) = At(s, i)
        /\ At(r, n + 1) = j /\ At(r, n + 2) = End
    BY <1>4, <1>6 DEF At
  <1>8. \A d \in Clients : ~Appending(d)' /\ cpc'[d] # "close"
    BY <1>1, <1>2 DEF Appending, TypeOK
  <1>9. /\ prv'[End] = j /\ prv'[j] = prv[j]
        /\ \A i \in 1 .. n : prv'[At(s, i)] = prv[At(s, i)]
    BY <1>1, <1>2, <1>3, <1>4 DEF TypeOK
  <1> QED
    <2>1. Differ(r)
      BY <1>4, <1>5, <1>6 DEF Chained, Differ
    <2>2. \A k \in Jobs : k \in nodes' <=> \E i \in 1 .. Len(r) : r[i] = k
      <3>1. \A k \in Jobs : k \in nodes <=> (\E i \in 1 .. n : s[i] = k) \/ k = j
        BY <1>2 DEF Chained
      <3>2. \A k \in Jobs : (\E i \in 1 .. n : s[i] = k) => \E i \in 1 .. n + 1 : r[i] = k
        BY <1>4, <1>6
      <3>3. n + 1 \in 1 .. n + 1 /\ r[n + 1] = j
        BY <1>4, <1>6
      <3>4. \A i \in 1 .. n + 1 : i = n + 1 \/ (i \in 1 .. n /\ r[i] = s[i])
        BY <1>4, <1>6
      <3>5. \A k \in Jobs : k \in nodes <=> \E i \in 1 .. n + 1 : r[i] = k
        BY <3>1, <3>2, <3>3, <3>4
      <3> QED
        BY <1>2, <1>6, <3>5
    <2>3. ASSUME NEW i \in 0 .. Len(r)
          PROVE  prv'[At(r, i + 1)] = At(r, i)
      <3>1. CASE i = n + 1
        BY <1>4, <1>7, <1>9, <3>1
      <3>2. CASE i = n
        BY <1>4, <1>5, <1>7, <1>9, <3>2
      <3>3. CASE i \in 0 .. n - 1
        <4>1. i + 1 \in 1 .. n /\ i \in 0 .. n /\ i + 1 \in 0 .. n
          BY <1>4, <3>3
        <4>2. prv[At(s, i + 1)] = At(s, i)
          BY <4>1 DEF Chained
        <4> QED
          BY <1>7, <1>9, <4>1, <4>2
      <3> QED
        BY <1>4, <1>6, <3>1, <3>2, <3>3
    <2>4. ASSUME NEW i \in 0 .. Len(r) - 1
          PROVE  nxt'[At(r, i)] = At(r, i + 1)
      <3>1. CASE i = n
        BY <1>2, <1>4, <1>5, <1>7, <3>1
      <3>2. CASE i \in 0 .. n - 1
        <4>1. i \in 0 .. n /\ i + 1 \in 0 .. n
          BY <1>4, <3>2
        <4>2. nxt[At(s, i)] = At(s, i + 1)
          BY <3>2 DEF Chained
        <4> QED
          BY <1>2, <1>7, <4>1, <4>2
      <3> QED
        BY <1>4, <1>6, <3>1, <3>2
    <2>5. nxt'[At(r, Len(r))] = End
      BY <1>2, <1>5, <1>6, <1>7
    <2>6. Chained(r)'
      BY <1>8, <2>1, <2>2, <2>3, <2>4, <2>5 DEF Chained
    <2> QED
      BY <1>6, <2>6

\* A function from 1 .. m to S is a sequence of S.
LEMMA InSeq ==
    ASSUME NEW S, NEW n \in Nat, NEW f \in [1 .. n -> S]
    PROVE  f \in Seq(S) /\ Len(f) = n
  <1>1. Seq(S) = UNION {[1 .. m -> S] : m \in Nat}
    BY SeqDef
  <1>2. f \in Seq(S)
    BY <1>1
  <1>3. DOMAIN f = 1 .. n
    OBVIOUS
  <1> QED
    BY <1>2, <1>3, LenProperties

\* Unhooking a node of the chain leaves the chain of the others.
LEMMA DisposeShortensChain ==
    ASSUME IInv, IsFiniteSet(Jobs), NEW s \in Seq(Jobs), Chained(s), Dispose, ~torn'
    PROVE  /\ \E r \in Seq(Jobs) : Chained(r)'
           /\ cur \notin nodes' /\ nodes' \subseteq nodes
  <1>1. TypeOK /\ PlacesFitJobs
    BY DEF IInv
  <1> DEFINE n == Len(s)
  <1>2. /\ \A d \in Clients : ~Appending(d) /\ cpc[d] # "close"
        /\ UNCHANGED <<cur, cpc, cjob>>
    BY DEF Dispose, Appending
  <1>3. \A d \in Clients : ~Appending(d)' /\ cpc'[d] # "close"
    BY <1>2 DEF Appending
  <1>4. /\ n \in Nat
        /\ \A i \in Int : At(s, i) \in Jobs \cup {End}
        /\ \A i \in Int : At(s, i) = End <=> i \notin 1 .. n
        /\ \A i \in 1 .. n : At(s, i) = s[i] /\ s[i] \in Jobs
    BY AtFacts
  <1>5. \A i \in 0 .. n : nxt[At(s, i)] = At(s, i + 1) /\ prv[At(s, i + 1)] = At(s, i)
    <2>1. At(s, n + 1) = End /\ nxt[At(s, n)] = End
      BY <1>2, <1>4 DEF Chained
    <2>2. \A i \in 0 .. n : i = n \/ i \in 0 .. n - 1
      BY <1>4
    <2> QED
      BY <2>1, <2>2 DEF Chained
  <1>6. \A j \in Jobs : Listed(j) <=> \E i \in 1 .. n : s[i] = j
    BY <1>1, <1>5, WalkAlong DEF TypeOK, Chained
  <1>7. \A j \in Jobs : j \in nodes <=> Listed(j)
    BY <1>2, <1>6 DEF Chained
  <1>8. cur \in Jobs
    BY <1>1 DEF PlacesFitJobs, TypeOK, Dispose
  <1>9. CASE ~Listed(cur)
    <2>1. UNCHANGED <<nodes, nxt, prv>>
      BY <1>9 DEF Dispose, list
    <2>2. Chained(s)'
      BY <1>2, <2>1 DEF Chained, Appending
    <2> QED
      BY <1>7, <1>8, <1>9, <2>1, <2>2
  <1>10. CASE Listed(cur)
    <2>1. /\ nxt' = [nxt EXCEPT ![prv[cur]] = nxt[cur]]
          /\ prv' = [prv EXCEPT ![nxt[cur]] = prv[cur]]
          /\ nodes' = nodes \ {cur}
      BY <1>10 DEF Dispose
    <2>2. PICK k \in 1 .. n : s[k] = cur
      BY <1>6, <1>8, <1>10
    <2>3. nxt[cur] = At(s, k + 1) /\ prv[cur] = At(s, k - 1) /\ At(s, k) = cur
      <3>1. k \in 0 .. n /\ k - 1 \in 0 .. n /\ (k - 1) + 1 = k
        BY <1>4
      <3> QED
        BY <1>4, <1>5, <2>2, <3>1
    <2> DEFINE From(i) == IF i < k THEN i ELSE i + 1
               f == [i \in 1 .. n - 1 |-> s[From(i)]]
    <2>4. PICK r \in Seq(Jobs) : r = f
      <3>1. f \in [1 .. n - 1 -> Jobs] /\ n - 1 \in Nat
        BY <1>4
      <3> QED
        BY <3>1, InSeq
    <2>5. Len(r) = n - 1 /\ \A i \in 1 .. n - 1 : r[i] = s[From(i)]
      <3>1. n - 1 \in Nat /\ DOMAIN r = 1 .. n - 1
        BY <1>4, <2>4
      <3> QED
        BY <2>4, <3>1, LenProperties
    <2>6. \A i \in 0 .. n : At(r, i) = At(s, From(i)) /\ From(i) \in Int
      BY <1>4, <2>5 DEF At
    <2>7. /\ \A i \in 0 .. n : i # k - 1 /\ i # k => nxt'[At(s, i)] = At(s, i + 1)
          /\ nxt'[At(s, k - 1)] = At(s, k + 1)
      <3>1. \A i \in 0 .. n : i # k - 1 => At(s, i) # At(s, k - 1)
        <4>1. \A i, m \in 1 .. n : i # m => s[i] # s[m]
          BY DEF Chained, Differ
        <4>2. k - 1 \in 0 .. n
          BY <1>4
        <4> QED
          BY <1>4, <4>1, <4>2
      <3>2. \A x \in Jobs \cup {End} :
               nxt'[x] = IF x = At(s, k - 1) THEN At(s, k + 1) ELSE nxt[x]
        BY <1>1, <2>1, <2>3 DEF TypeOK
      <3>3. k - 1 \in Int
        OBVIOUS
      <3> QED
        BY <1>4, <1>5, <3>1, <3>2, <3>3
    <2>8. /\ \A i \in 0 .. n : i # k /\ i # k - 1 => prv'[At(s, i + 1)] = At(s, i)
          /\ prv'[At(s, k + 1)] = At(s, k - 1)
      <3>1. \A i \in 1 .. n + 1 : i # k + 1 => At(s, i) # At(s, k + 1)
        <4>1. \A i, m \in 1 .. n : i # m => s[i] # s[m]
          BY DEF Chained, Differ
        <4>2. k + 1 \in 1 .. n + 1
          BY <1>4
        <4> QED
          BY <1>4, <4>1, <4>2
      <3>2. \A i \in 0 .. n : i + 1 \in 1 .. n + 1 /\ (i # k => i + 1 # k + 1)
        BY <1>4
      <3>3. \A x \in Jobs \cup {End} :
               prv'[x] = IF x = At(s, k + 1) THEN At(s, k - 1) ELSE prv[x]
        BY <1>1, <2>1, <2>3 DEF TypeOK
      <3>4. \A i \in 0 .. n : At(s, i + 1) \in Jobs \cup {End}
        BY <1>4
      <3>5. At(s, k + 1) \in Jobs \cup {End}
        BY <1>4
      <3>6. \A i \in 0 .. n : i # k => At(s, i + 1) # At(s, k + 1)
        BY <3>1, <3>2
      <3> QED
        BY <1>5, <3>3, <3>4, <3>5, <3>6
    <2>9. Differ(r)
      <3>1. \A i \in 1 .. n - 1 : From(i) \in 1 .. n
        BY <1>4
      <3>2. \A i, m \in 1 .. n - 1 : From(i) = From(m) => i = m
        BY <1>4
      <3>3. \A i, m \in 1 .. n : s[i] = s[m] => i = m
        BY DEF Chained, Differ
      <3> HIDE DEF From
      <3> QED
        BY <2>5, <3>1, <3>2, <3>3 DEF Differ
    <2>10. \A j \in Jobs : j \in nodes' <=> \E i \in 1 .. Len(r) : r[i] = j
      <3>1. ASSUME NEW j \in Jobs, NEW i \in 1 .. n, s[i] = j, j # cur
            PROVE  \E m \in 1 .. n - 1 : r[m] = j
        <4>1. CASE i < k
          BY <1>4, <2>5, <3>1, <4>1
        <4>2. CASE i > k
          <5>1. i - 1 \in 1 .. n - 1 /\ From(i - 1) = i
            BY <1>4, <4>2
          <5> QED
            BY <2>5, <3>1, <5>1
        <4> QED
          BY <1>4, <2>2, <3>1, <4>1, <4>2
      <3>2. ASSUME NEW i \in 1 .. n - 1
            PROVE  r[i] # cur /\ \E m \in 1 .. n : s[m] = r[i]
        <4>1. From(i) \in 1 .. n /\ From(i) # k
          BY <1>4
        <4>2. \A m, p \in 1 .. n : s[m] = s[p] => m = p
          BY DEF Chained, Differ
        <4> HIDE DEF From
        <4> QED
          BY <2>2, <2>5, <4>1, <4>2
      <3> QED
        BY <1>6, <1>7, <2>1, <2>5, <3>1, <3>2
    <2>11. \A i \in 0 .. Len(r) : prv'[At(r, i + 1)] = At(r, i)
      <3>1. ASSUME NEW i \in 0 .. n - 1
            PROVE  prv'[At(r, i + 1)] = At(r, i)
        <4>1. i \in 0 .. n /\ i + 1 \in 0 .. n
          BY <1>4
        <4>2. At(r, i) = At(s, From(i)) /\ At(r, i + 1) = At(s, From(i + 1))
          BY <2>6, <4>1
        <4>3. CASE i < k - 1
          BY <1>4, <2>8, <4>1, <4>2, <4>3
        <4>4. CASE i = k - 1
          BY <1>4, <2>8, <4>1, <4>2, <4>4
        <4>5. CASE i > k - 1
          <5>1. From(i) = i + 1 /\ From(i + 1) = (i + 1) + 1 /\ i + 1 # k /\ i + 1 # k - 1
            BY <1>4, <4>5
          <5> QED
            BY <2>8, <4>1, <4>2, <5>1
        <4> QED
          BY <1>4, <4>3, <4>4, <4>5
      <3> QED
        BY <2>5, <3>1
    <2>12. \A i \in 0 .. Len(r) : nxt'[At(r, i)] = At(r, i + 1)
      <3>1. ASSUME NEW i \in 0 .. n - 1
            PROVE  nxt'[At(r, i)] = At(r, i + 1)
        <4>1. i \in 0 .. n /\ i + 1 \in 0 .. n
          BY <1>4
        <4>2. At(r, i) = At(s, From(i)) /\ At(r, i + 1) = At(s, From(i + 1))
          BY <2>6, <4>1
        <4>3. CASE i < k - 1
          BY <1>4, <2>7, <4>1, <4>2, <4>3
        <4>4. CASE i = k - 1
          BY <1>4, <2>7, <4>1, <4>2, <4>4
        <4>5. CASE i > k - 1
          <5>1. From(i) = i + 1 /\ From(i + 1) = (i + 1) + 1 /\ i + 1 # k /\ i + 1 # k - 1
            BY <1>4, <4>5
          <5> QED
            BY <2>7, <4>1, <4>2, <5>1
        <4> QED
          BY <1>4, <4>3, <4>4, <4>5
      <3> QED
        BY <2>5, <3>1
    <2>13. /\ At(r, Len(r) + 1) = End
           /\ \A i \in 0 .. Len(r) - 1 : i \in 0 .. Len(r)
           /\ Len(r) \in 0 .. Len(r)
      BY <1>4, <2>5 DEF At
    <2>14. Chained(r)'
      <3>1. nxt'[At(r, Len(r))] = End
        BY <2>12, <2>13
      <3> QED
        BY <1>3, <2>9, <2>10, <2>11, <2>12, <2>13, <3>1 DEF Chained
    <2> QED
      BY <2>1, <2>14
  <1> QED
    BY <1>9, <1>10

\* A step that leaves the list and the push_backs alone leaves the chain alone.
LEMMA ElsewhereKeepsChain ==
    ASSUME NEW s \in Seq(Jobs), Chained(s), UNCHANGED <<nodes, nxt, prv>>,
           \A d \in Clients : /\ Appending(d)' <=> Appending(d)
                              /\ cpc'[d] = "close" <=> cpc[d] = "close"
                              /\ Appending(d) => cjob'[d] = cjob[d]
    PROVE  Chained(s)'
  <1>1. \A d \in Clients : cpc[d] = "close" => Appending(d)
    BY DEF Appending
  <1>2. \A d \in Clients : cpc'[d] = "close" => nxt'[At(s, Len(s))] = cjob'[d]
    BY <1>1 DEF Chained
  <1>3. \A d \in Clients : Appending(d)' =>
           /\ prv'[cjob'[d]] = At(s, Len(s))
           /\ nxt'[cjob'[d]] = End
           /\ \A i \in 1 .. Len(s) : s[i] # cjob'[d]
    BY DEF Chained
  <1>4. \A j \in Jobs : j \in nodes' <=> \/ \E i \in 1 .. Len(s) : s[i] = j
                                         \/ \E d \in Clients : Appending(d)' /\ cjob'[d] = j
    BY DEF Chained
  <1> QED
    BY <1>2, <1>3, <1>4 DEF Chained

\* Every step keeps the chain, or tears it.
LEMMA ListInvNext ==
    IInv /\ NodesBegun /\ ListInv /\ IsFiniteSet(Jobs) /\ [Next]_vars => ListInv'
  <1> SUFFICES ASSUME IInv, NodesBegun, ListInv, IsFiniteSet(Jobs), [Next]_vars, ~torn'
               PROVE  \E s \in Seq(Jobs) : Chained(s)'
    BY DEF ListInv
  <1>1. TypeOK /\ PlacesFitJobs
    BY DEF IInv
  <1>2. ~torn
    BY DEF Next, Poll, Pop, Invoke, RunJob, Dispose, Drop, Wake, Exec, PushBackNode,
           PushBackLink, PushBackClose, PushArgs, Enqueue, ExecReturn, vars
  <1>3. PICK s \in Seq(Jobs) : Chained(s)
    BY <1>2 DEF ListInv
  <1>4. ASSUME NEW c \in Clients, PushBackNode(c)
        PROVE  \E r \in Seq(Jobs) : Chained(r)'
    BY <1>3, <1>4, NodeKeepsChain
  <1>5. ASSUME NEW c \in Clients, PushBackLink(c)
        PROVE  \E r \in Seq(Jobs) : Chained(r)'
    BY <1>3, <1>5, LinkKeepsChain
  <1>6. ASSUME NEW c \in Clients, PushBackClose(c)
        PROVE  \E r \in Seq(Jobs) : Chained(r)'
    BY <1>3, <1>6, CloseExtendsChain
  <1>7. ASSUME NEW c \in Clients, PushArgs(c) \/ Enqueue(c) \/ ExecReturn(c)
        PROVE  \E r \in Seq(Jobs) : Chained(r)'
    <2>1. /\ UNCHANGED <<nodes, nxt, prv>>
          /\ \A d \in Clients : /\ Appending(d)' <=> Appending(d)
                                /\ cpc'[d] = "close" <=> cpc[d] = "close"
                                /\ Appending(d) => cjob'[d] = cjob[d]
      BY <1>1, <1>7 DEF PushArgs, Enqueue, ExecReturn, Appending, TypeOK
    <2> QED
      BY <1>3, <2>1, ElsewhereKeepsChain
  <1>8. CASE Dispose
    BY <1>3, <1>8, DisposeShortensChain
  <1>9. CASE Pop \/ Invoke \/ Drop \/ Wake \/ UNCHANGED vars
    <2>1. UNCHANGED <<nodes, nxt, prv, cpc, cjob>>
      BY <1>9 DEF Pop, Invoke, RunJob, Drop, Wake, vars
    <2> QED
      BY <1>3, <2>1, ElsewhereKeepsChain DEF Appending
  <1> QED
    BY <1>4, <1>5, <1>6, <1>7, <1>8, <1>9 DEF Next, Poll, Exec

\* Every step keeps: nodes belong to begun jobs.
LEMMA NodesNext == IInv /\ LatestPost /\ NodesBegun /\ [Next]_vars => NodesBegun'
  <1> SUFFICES ASSUME IInv, LatestPost, NodesBegun, [Next]_vars, NEW j \in nodes'
               PROVE  j \in Begun'
    BY DEF NodesBegun
  <1>1. CASE j \in nodes
    BY <1>1, BegunStays DEF NodesBegun
  <1>2. CASE j \notin nodes
    <2>1. PICK c \in Clients : PushBackNode(c)
      BY <1>2 DEF Next, Poll, Pop, Invoke, RunJob, Dispose, list, Drop, Wake, Exec,
                  PushBackLink, PushBackClose, PushArgs, Enqueue, ExecReturn, vars
    <2>2. j \in Posted /\ cjob'[c] = j
      BY <1>2, <2>1 DEF PushBackNode, IInv, TypeOK
    <2> QED
      BY <2>2 DEF Begun
  <1> QED
    BY <1>1, <1>2

-----------------------------------------------------------------------------
(* Deliver nodes whose job is over *)

\* A job that is over, or blocks, was posted or belongs to another job.
DoneBegun ==
    /\ \A j \in done : Caller[j] = Poller \/ \E i \in 1 .. Len(posted) : posted[i] = j
    /\ ppc = "asleep" => \E i \in 1 .. Len(posted) : posted[i] = cur

\* Every step keeps: a done job was posted, unless the poller itself called it.
LEMMA DoneNext == IInv /\ DoneBegun /\ [Next]_vars => DoneBegun'
  <1> SUFFICES ASSUME IInv, DoneBegun, [Next]_vars PROVE DoneBegun'
    OBVIOUS
  <1>1. TypeOK /\ PlacesFitJobs /\ QueuedHasCall /\ ServedOnceInOrder
    BY DEF IInv
  <1> DEFINE Was(j) == \E i \in 1 .. Len(posted) : posted[i] = j
  <1>2. ASSUME NEW j, Was(j) PROVE Was(j)'
    <2>1. CASE posted' = posted
      BY <1>2, <2>1
    <2>2. ASSUME NEW c \in Clients, Enqueue(c) PROVE Was(j)'
      <3>1. posted \in Seq(Posted) /\ cjob[c] \in Posted /\ posted' = Append(posted, cjob[c])
        BY <1>1, <2>2, ClientHolds DEF Enqueue, TypeOK
      <3>2. /\ Len(posted') = Len(posted) + 1 /\ Len(posted) \in Nat
            /\ \A i \in 1 .. Len(posted) : posted'[i] = posted[i]
        BY <3>1, AppendProperties, LenProperties
      <3> QED
        BY <1>2, <3>2
    <2>3. posted' = posted \/ \E c \in Clients : Enqueue(c)
      BY DEF Next, Poll, Pop, Invoke, RunJob, Dispose, Drop, Wake, Exec, PushBackNode,
             PushBackLink, PushBackClose, PushArgs, ExecReturn, vars
    <2> QED
      BY <2>1, <2>2, <2>3
  <1>3. CASE Invoke
    <2>1. cur \in Jobs /\ Was(cur)
      BY <1>1, <1>3, InHandPosted DEF Invoke, PlacesFitJobs, TypeOK
    <2>2. \A j \in Inner[cur] : Caller[j] = Poller
      BY <2>1, JobAssumption
    <2>3. UNCHANGED <<cur, posted>> /\ done' \subseteq done \cup Inner[cur] \cup {cur}
      BY <1>3 DEF Invoke, RunJob
    <2> QED
      BY <2>1, <2>2, <2>3 DEF DoneBegun
  <1>4. CASE Wake
    BY <1>4 DEF Wake, DoneBegun
  <1>5. CASE UNCHANGED <<done, cur>> /\ (ppc' = "asleep" => ppc = "asleep")
    BY <1>2, <1>5 DEF DoneBegun
  <1>6. CASE UNCHANGED done /\ ppc' # "asleep"
    BY <1>2, <1>6 DEF DoneBegun
  <1>7. ASSUME NEW c \in Clients, Exec(c) PROVE DoneBegun'
    BY <1>5, <1>7 DEF Exec, PushBackNode, PushBackLink, PushBackClose, PushArgs, Enqueue,
                      ExecReturn
  <1>8. CASE Pop \/ Dispose \/ Drop
    BY <1>6, <1>8 DEF Pop, Dispose, Drop
  <1>9. CASE UNCHANGED vars
    BY <1>5, <1>9 DEF vars
  <1> QED
    BY <1>3, <1>4, <1>7, <1>8, <1>9 DEF Next, Poll

\* A node of a done job is about to be erased by the poller.
LEMMA LeakNext ==
    /\ IInv /\ NodesBegun /\ ListInv /\ DoneBegun /\ NoDeliverLeak
    /\ IsFiniteSet(Jobs) /\ [Next]_vars
    => NoDeliverLeak'
  <1> SUFFICES ASSUME IInv, NodesBegun, ListInv, DoneBegun, NoDeliverLeak,
                      IsFiniteSet(Jobs), [Next]_vars, ~torn', NEW j \in nodes', j \in done'
               PROVE  j = cur' /\ ppc' = "dispose"
    BY DEF NoDeliverLeak
  <1>1. TypeOK /\ PlacesFitJobs /\ QueuedHasCall /\ ServedOnceInOrder
    BY DEF IInv
  <1>2. ~torn
    BY DEF Next, Poll, Pop, Invoke, RunJob, Dispose, Drop, Wake, Exec, PushBackNode,
           PushBackLink, PushBackClose, PushArgs, Enqueue, ExecReturn, vars
  <1>3. ASSUME NEW c \in Clients, PushBackNode(c) PROVE j = cur' /\ ppc' = "dispose"
    <2>1. done' = done /\ UNCHANGED <<cur, ppc>>
      BY <1>3 DEF PushBackNode
    <2>2. ASSUME j \notin nodes PROVE FALSE
      <3>1. /\ j \in Posted /\ Caller[j] = c
            /\ \A i \in 1 .. Len(posted) : posted[i] # j
        BY <1>3, <2>2 DEF PushBackNode
      <3> QED
        BY <2>1, <3>1, JobAssumption DEF DoneBegun
    <2> QED
      BY <1>2, <2>1, <2>2 DEF NoDeliverLeak
  <1>4. CASE Dispose
    <2>1. PICK s \in Seq(Jobs) : Chained(s)
      BY <1>2 DEF ListInv
    <2>2. cur \notin nodes' /\ nodes' \subseteq nodes
      BY <1>4, <2>1, DisposeShortensChain
    <2>3. done' = done
      BY <1>4 DEF Dispose
    <2> QED
      BY <1>2, <2>2, <2>3 DEF NoDeliverLeak
  <1>5. CASE Invoke
    <2>1. nodes' = nodes /\ cur' = cur /\ ppc = "invoke" /\ cur \in Jobs /\ ctx[cur] > 0
      BY <1>1, <1>5 DEF Invoke, PlacesFitJobs, TypeOK, QueuedHasCall
    <2>2. RunJob
      BY <1>1, <1>5, <2>1 DEF Invoke
    <2>3. j \in Posted /\ j \notin Inner[cur] /\ j \notin done
      <3>1. j \in Posted
        BY <2>1 DEF NodesBegun, Begun
      <3>2. j \notin Inner[cur]
        BY <2>1, <3>1, JobAssumption DEF Posted
      <3>3. j \notin done
        BY <1>2, <2>1 DEF NoDeliverLeak
      <3> QED
        BY <3>1, <3>2, <3>3
    <2> QED
      BY <2>1, <2>2, <2>3 DEF RunJob
  <1>6. CASE Wake
    BY <1>2, <1>6 DEF Wake, NoDeliverLeak
  <1>7. CASE Pop \/ Drop
    BY <1>2, <1>7 DEF Pop, Drop, NoDeliverLeak
  <1>8. ASSUME NEW c \in Clients, Exec(c), ~PushBackNode(c)
        PROVE  j = cur' /\ ppc' = "dispose"
    BY <1>2, <1>8 DEF Exec, PushBackLink, PushBackClose, PushArgs, Enqueue, ExecReturn,
                      NoDeliverLeak
  <1>9. CASE UNCHANGED vars
    BY <1>2, <1>9 DEF vars, NoDeliverLeak
  <1> QED
    BY <1>3, <1>4, <1>5, <1>6, <1>7, <1>8, <1>9 DEF Next, Poll

-----------------------------------------------------------------------------
(* The list of the posts *)

\* What the list of Delivers rests on.
LInv ==
    /\ IInv /\ LatestPost
    /\ NodesBegun /\ ListInv /\ DoneBegun /\ NoDeliverLeak

\* The list starts empty.
LEMMA LInvInit == Init => LInv
  <1> SUFFICES ASSUME Init PROVE LInv
    OBVIOUS
  <1>1. /\ nodes = {} /\ done = {} /\ ppc = "pop"
        /\ nxt = [n \in Jobs \cup {End} |-> End] /\ prv = [n \in Jobs \cup {End} |-> End]
        /\ \A c \in Clients : cpc[c] = "idle"
    BY DEF Init
  <1>2. LatestPost /\ NodesBegun /\ DoneBegun /\ NoDeliverLeak
    BY <1>1 DEF LatestPost, NodesBegun, DoneBegun, NoDeliverLeak
  <1>3. <<>> \in Seq(Jobs) /\ Len(<<>>) = 0
    BY EmptySeq
  <1>4. Chained(<<>>)
    <2>1. \A i \in Int : At(<<>>, i) = End
      BY <1>3 DEF At
    <2>2. \A c \in Clients : ~Appending(c) /\ cpc[c] # "close"
      BY <1>1 DEF Appending
    <2> QED
      BY <1>1, <1>3, <2>1, <2>2 DEF Chained, Differ
  <1> QED
    BY <1>2, <1>3, <1>4, IInvInit DEF LInv, ListInv

\* The strengthening is inductive.
LEMMA LInvNext == IsFiniteSet(Jobs) /\ LInv /\ [Next]_vars => LInv'
  BY IInvNext, LatestPostNext, NodesNext, ListInvNext, DoneNext, LeakNext DEF LInv

\* A chain is the sound list that the property speaks of.
LEMMA ChainIsSound == IsFiniteSet(Jobs) /\ LInv => ListSound
  <1> SUFFICES ASSUME IsFiniteSet(Jobs), LInv, ~torn PROVE ListSound
    BY DEF ListSound
  <1>1. TypeOK
    BY DEF LInv, IInv
  <1>2. PICK s \in Seq(Jobs) : Chained(s)
    BY DEF LInv, ListInv
  <1>3. /\ Len(s) \in Nat
        /\ \A i \in Int : At(s, i) \in Jobs \cup {End}
        /\ \A i \in Int : At(s, i) = End <=> i \notin 1 .. Len(s)
        /\ \A i \in 1 .. Len(s) : At(s, i) = s[i] /\ s[i] \in Jobs
    BY <1>2, AtFacts
  <1>4. \A i \in 1 .. Len(s) : s[i] \in nodes
    BY <1>2, <1>3 DEF Chained
  <1>5. ASSUME NEW c \in Clients, cpc[c] = "link"
        PROVE  prv[cjob[c]] \in nodes \cup {End}
    <2>1. prv[cjob[c]] = At(s, Len(s))
      BY <1>2, <1>5 DEF Chained, Appending
    <2> QED
      BY <1>3, <1>4, <2>1 DEF At
  <1>6. ASSUME \A c \in Clients : ~Appending(c)
        PROVE  /\ WalkEnds
               /\ {j \in Jobs : Listed(j)} = nodes
               /\ \A n \in nodes \cup {End} : prv[nxt[n]] = n
    <2>1. \A i \in 0 .. Len(s) : nxt[At(s, i)] = At(s, i + 1) /\ prv[At(s, i + 1)] = At(s, i)
      <3>1. At(s, Len(s) + 1) = End /\ nxt[At(s, Len(s))] = End
        BY <1>2, <1>3, <1>6 DEF Chained, Appending
      <3>2. \A i \in 0 .. Len(s) : i = Len(s) \/ i \in 0 .. Len(s) - 1
        BY <1>3
      <3> QED
        BY <1>2, <3>1, <3>2 DEF Chained
    <2>2. /\ WalkEnds
          /\ \A j \in Jobs : Listed(j) <=> \E i \in 1 .. Len(s) : s[i] = j
      BY <1>1, <1>2, <2>1, WalkAlong DEF TypeOK, Chained
    <2>3. \A j \in Jobs : j \in nodes <=> \E i \in 1 .. Len(s) : s[i] = j
      BY <1>2, <1>6 DEF Chained
    <2>4. {j \in Jobs : Listed(j)} = nodes
      BY <1>1, <2>2, <2>3 DEF TypeOK
    <2>5. ASSUME NEW n \in nodes \cup {End}
          PROVE  prv[nxt[n]] = n
      <3>1. \E i \in 0 .. Len(s) : At(s, i) = n
        <4>1. CASE n = End
          <5>1. 0 \in 0 .. Len(s) /\ At(s, 0) = End
            BY <1>3
          <5> QED
            BY <4>1, <5>1
        <4>2. CASE n \in nodes
          <5>1. PICK i \in 1 .. Len(s) : s[i] = n
            BY <1>1, <2>3, <4>2 DEF TypeOK
          <5>2. i \in 0 .. Len(s) /\ At(s, i) = n
            BY <1>3, <5>1
          <5> QED
            BY <5>2
        <4> QED
          BY <4>1, <4>2
      <3> QED
        BY <2>1, <3>1
    <2> QED
      BY <2>2, <2>4, <2>5
  <1> QED
    BY <1>5, <1>6 DEF ListSound

\* The invariant holds throughout, with the events or without.
LEMMA LInvariant ==
    ASSUME IsFiniteSet(Jobs)
    PROVE  Spec \/ ESpec => []LInv
  <1>1. LInv /\ [Next]_vars => LInv'
    BY LInvNext
  <1>2. EInit => Init
    BY DEF EInit
  <1> QED
    BY <1>1, <1>2, LInvInit, ENextIsNext, PTL DEF Spec, ESpec

\* As long as no thread writes the list amid another's push_back, the list of the
\* Delivers is a chain of the allocated nodes in both directions, and a push_back
\* never writes to a freed one, for any number of clients and jobs
\* (os/post.hxx:34, os/deliver_base.cxx:16).
THEOREM ExecutorListSound ==
    ASSUME IsFiniteSet(Jobs)
    PROVE  Spec \/ ESpec => []ListSound
  <1>1. LInv => ListSound
    BY ChainIsSound
  <1>2. Spec \/ ESpec => []LInv
    BY LInvariant
  <1> QED
    BY <1>1, <1>2, PTL

\* Under the same condition nothing keeps the Deliver of a job that is over, but the
\* poller that is about to let go of it (os/deliver.hxx:87-88).
THEOREM ExecutorNoDeliverLeak ==
    ASSUME IsFiniteSet(Jobs)
    PROVE  Spec \/ ESpec => []NoDeliverLeak
  <1>1. LInv => NoDeliverLeak
    BY DEF LInv
  <1>2. Spec \/ ESpec => []LInv
    BY LInvariant
  <1> QED
    BY <1>1, <1>2, PTL

-----------------------------------------------------------------------------
(* The list EventAllocator::eventSets *)

\* The walk of remove_if over the list, one member after the other.
LEMMA RemoveIf ==
    ASSUME eventSets \in Seq(Sets), NEW e
    PROVE  \E f :
              /\ f[0] = <<>>
              /\ \A i \in 1 .. Len(eventSets) :
                    f[i] = IF EA!Alive(eventSets[i]) /\ eventSets[i] # home[e]
                           THEN Append(f[i - 1], eventSets[i]) ELSE f[i - 1]
              /\ EA!Remaining(e) = f[Len(eventSets)]
  <1> DEFINE n == Len(eventSets)
             S == Seq(Sets)
             Stays(i) == EA!Alive(eventSets[i]) /\ eventSets[i] # home[e]
             h == [i \in 1 .. n |->
                     [q \in S |-> IF Stays(i) THEN Append(q, eventSets[i]) ELSE q]]
             Body(g) == [i \in 0 .. n |->
                           IF i = 0 THEN <<>>
                           ELSE IF Stays(i) THEN Append(g[i - 1], eventSets[i]) ELSE g[i - 1]]
             kept == CHOOSE g : g = Body(g)
  <1>1. n \in Nat /\ <<>> \in S /\ \A i \in 1 .. n : eventSets[i] \in Sets
    BY LenProperties, ElementOfSeq, EmptySeq
  <1>2. Steps(h, n, S)
    <2>1. \A i \in 1 .. n : \A q \in S : Append(q, eventSets[i]) \in S
      BY <1>1, AppendProperties
    <2> HIDE DEF S
    <2> QED
      BY <1>1, <2>1 DEF Steps
  <1>3. PICK f \in [0 .. n -> S] : f[0] = <<>> /\ \A i \in 1 .. n : f[i] = h[i][f[i - 1]]
    <2>1. <<>> \in S
      BY <1>1
    <2> HIDE DEF h, S, n
    <2>2. \E f : Walks(f, <<>>, h, n, S)
      BY <1>2, <2>1, Iterate, Zenon
    <2> QED
      BY <2>2 DEF Walks
  <1>4. \A i \in 1 .. n : f[i] = IF Stays(i) THEN Append(f[i - 1], eventSets[i]) ELSE f[i - 1]
    <2>1. \A i \in 1 .. n : i - 1 \in 0 .. n /\ f[i - 1] \in S
      BY <1>1, <1>3
    <2> HIDE DEF S, Stays
    <2> QED
      BY <1>3, <2>1
  <1>5. f = Body(f)
    <2>1. \A i \in 0 .. n : f[i] = Body(f)[i]
      <3>1. \A i \in 0 .. n : i = 0 \/ i \in 1 .. n
        BY <1>1
      <3> HIDE DEF S, Stays
      <3> QED
        BY <1>1, <1>3, <1>4, <3>1
    <2> HIDE DEF S, Stays
    <2> QED
      BY <1>3, <2>1
  <1>6. kept = Body(kept)
    <2>1. \E g : g = Body(g)
      BY <1>5
    <2> HIDE DEF Body
    <2> QED
      BY <2>1, Zenon
  <1>7. EA!Remaining(e) = kept[n]
    BY DEF EA!Remaining
  <1>8. kept[0] = <<>> /\ \A i \in 1 .. n :
            kept[i] = IF Stays(i) THEN Append(kept[i - 1], eventSets[i]) ELSE kept[i - 1]
    <2>1. \A i \in 1 .. n : i # 0 /\ i \in 0 .. n
      BY <1>1
    <2>2. 0 \in 0 .. n
      BY <1>1
    <2> HIDE DEF kept, Stays
    <2> QED
      BY <1>6, <2>1, <2>2
  <1> HIDE DEF kept
  <1> QED
    BY <1>7, <1>8

\* x is a member of the sequence s.
Named(s, x) == \E i \in 1 .. Len(s) : s[i] = x

\* A new member at the end of a list.
LEMMA AppendNames ==
    ASSUME NEW S, NEW s \in Seq(S), NEW x \in S
    PROVE  /\ Append(s, x) \in Seq(S)
           /\ \A y : Named(Append(s, x), y) <=> Named(s, y) \/ y = x
           /\ Differ(s) /\ ~Named(s, x) => Differ(Append(s, x))
  <1> DEFINE r == Append(s, x)
             n == Len(s)
  <1>1. /\ n \in Nat /\ r \in Seq(S) /\ Len(r) = n + 1
        /\ \A i \in 1 .. n : r[i] = s[i]
        /\ r[n + 1] = x
    BY AppendProperties, LenProperties
  <1> HIDE DEF r, n
  <1>2. \A i : i \in 1 .. n + 1 <=> i \in 1 .. n \/ i = n + 1
    BY <1>1
  <1>3. \A y : Named(r, y) <=> Named(s, y) \/ y = x
    BY <1>1, <1>2 DEF Named, n
  <1>4. Differ(s) /\ ~Named(s, x) => Differ(r)
    BY <1>1, <1>2 DEF Named, Differ, n
  <1> QED
    BY <1>1, <1>3, <1>4 DEF r

\* What is left on the list: the sets that live and are not that of e, once if
\* they were there once.
LEMMA RemainingNames ==
    ASSUME eventSets \in Seq(Sets), NEW e
    PROVE  /\ EA!Remaining(e) \in Seq(Sets)
           /\ \A s : Named(EA!Remaining(e), s)
                         <=> Named(eventSets, s) /\ EA!Alive(s) /\ s # home[e]
           /\ Differ(eventSets) => Differ(EA!Remaining(e))
  <1> DEFINE n == Len(eventSets)
             Stays(s) == EA!Alive(s) /\ s # home[e]
  <1>1. PICK f : /\ f[0] = <<>>
                 /\ \A i \in 1 .. n :
                       f[i] = IF Stays(eventSets[i]) THEN Append(f[i - 1], eventSets[i])
                              ELSE f[i - 1]
                 /\ EA!Remaining(e) = f[n]
    BY RemoveIf
  <1>2. n \in Nat /\ \A i \in 1 .. n : eventSets[i] \in Sets
    BY LenProperties, ElementOfSeq
  <1> HIDE DEF n, Stays
  <1> DEFINE Upto(i) ==
                /\ f[i] \in Seq(Sets)
                /\ \A s : Named(f[i], s)
                              <=> \E k \in 1 .. i : eventSets[k] = s /\ Stays(s)
                /\ Differ(eventSets) => Differ(f[i])
             G == {i \in Nat : i <= n => Upto(i)}
  <1>3. 0 \in G
    <2>1. <<>> \in Seq(Sets) /\ Len(<<>>) = 0
      BY EmptySeq
    <2>2. \A i : i \notin 1 .. 0
      OBVIOUS
    <2>3. Differ(<<>>) /\ \A s : ~Named(<<>>, s)
      BY <2>1, <2>2 DEF Differ, Named
    <2> QED
      BY <1>1, <2>1, <2>2, <2>3
  <1>4. ASSUME NEW j \in Nat, j \in G
        PROVE  j + 1 \in G
    <2> SUFFICES ASSUME j + 1 <= n PROVE Upto(j + 1)
      OBVIOUS
    <2>1. Upto(j)
      BY <1>2, <1>4
    <2> DEFINE x == eventSets[j + 1]
    <2>2. j + 1 \in 1 .. n /\ x \in Sets
      BY <1>2
    <2>3. f[j + 1] = IF Stays(x) THEN Append(f[j], x) ELSE f[j]
      BY <1>1, <2>2
    <2>4. \A i : i \in 1 .. j + 1 <=> i \in 1 .. j \/ i = j + 1
      OBVIOUS
    <2>5. ASSUME Differ(eventSets)
          PROVE  \A i \in 1 .. j : eventSets[i] # x
      BY <1>2, <2>2, <2>5 DEF Differ, n
    <2>6. CASE Stays(x)
      <3>1. f[j + 1] = Append(f[j], x)
        BY <2>3, <2>6
      <3> HIDE DEF x
      <3>2. /\ Append(f[j], x) \in Seq(Sets)
            /\ \A y : Named(Append(f[j], x), y) <=> Named(f[j], y) \/ y = x
            /\ Differ(f[j]) /\ ~Named(f[j], x) => Differ(Append(f[j], x))
        BY <2>1, <2>2, AppendNames
      <3>3. Differ(eventSets) => ~Named(f[j], x)
        BY <2>1, <2>5
      <3>4. \A s : (\E k \in 1 .. j + 1 : eventSets[k] = s /\ Stays(s))
                       <=> (\E k \in 1 .. j : eventSets[k] = s /\ Stays(s)) \/ s = x
        BY <2>4, <2>6 DEF x
      <3> QED
        BY <2>1, <3>1, <3>2, <3>3, <3>4
    <2>7. CASE ~Stays(x)
      <3>1. \A s : (\E k \in 1 .. j + 1 : eventSets[k] = s /\ Stays(s))
                       <=> (\E k \in 1 .. j : eventSets[k] = s /\ Stays(s))
        BY <2>4, <2>7
      <3>2. f[j + 1] = f[j]
        BY <2>3, <2>7
      <3> QED
        BY <2>1, <3>1, <3>2
    <2> QED
      BY <2>6, <2>7
  <1>5. Upto(n)
    <2> HIDE DEF Upto
    <2>1. n \in G
      <3> HIDE DEF G
      <3> QED
        BY <1>2, <1>3, <1>4, Induction
    <2> QED
      BY <1>2, <2>1
  <1> QED
    BY <1>1, <1>5 DEF Named, n, Stays

\* Until a race, an Event whose free has found its set empty is the last of the set,
\* and the list names each living set once and no dead one.
ListOfSets ==
    /\ eventSets \in Seq(Sets)
    /\ ~raced =>
        /\ \A e \in Events : fpc[e] = "dispose" =>
              \A f \in Events \ {e} : home[f] # home[e]
        /\ \A s : Named(eventSets, s) <=> EA!Alive(s)
        /\ Differ(eventSets)

\* alloc uses a set of the list, or puts a new one at its end.
LEMMA AllocKeepsList ==
    ASSUME AllocInv, ListOfSets, NEW e \in Events, fpc[e] = "none", EA!Alloc(e)
    PROVE  ListOfSets'
  <1>1. AllocTypes /\ eventSets \in Seq(Sets)
    BY DEF AllocInv, ListOfSets
  <1>2. ASSUME NEW s \in Sets, EA!TakeBit(e, s), ~raced'
        PROVE  /\ ~raced
               /\ \A t : EA!Alive(t)' <=> EA!Alive(t) \/ t = s
               /\ \A f \in Events : fpc'[f] = "dispose" =>
                     \A g \in Events \ {f} : home'[g] # home'[f]
    <2>1. home' = [home EXCEPT ![e] = s] /\ fpc' = [fpc EXCEPT ![e] = "live"]
      BY <1>2 DEF EA!TakeBit
    <2>2. ~raced /\ ~EA!FreeOpen(s, e)
      BY <1>1, <1>2, Zenon DEF EA!TakeBit, AllocTypes
    <2>3. /\ home'[e] = s /\ fpc'[e] = "live"
          /\ \A f \in Events \ {e} : home'[f] = home[f] /\ fpc'[f] = fpc[f]
      BY <1>1, <2>1 DEF AllocTypes
    <2>4. ASSUME NEW t
          PROVE  EA!Alive(t)' <=> EA!Alive(t) \/ t = s
      BY <2>3 DEF EA!Alive
    <2>5. \A f \in Events : fpc'[f] = "dispose" =>
             \A g \in Events \ {f} : home'[g] # home'[f]
      BY <2>2, <2>3 DEF ListOfSets, EA!FreeOpen
    <2> QED
      BY <2>2, <2>4, <2>5
  <1>3. ASSUME NEW i \in EA!Usable, EA!TakeBit(e, eventSets[i]), eventSets' = eventSets
        PROVE  ListOfSets'
    <2>1. i \in 1 .. Len(eventSets) /\ eventSets[i] \in Sets /\ EA!Alive(eventSets[i])
      BY <1>1, <1>3, ElementOfSeq DEF EA!Usable
    <2>2. PICK s \in Sets : s = eventSets[i] /\ EA!Alive(s)
      BY <2>1
    <2>3. EA!TakeBit(e, s)
      BY <1>3, <2>2
    <2>4. ASSUME ~raced'
          PROVE  \A t : Named(eventSets, t) <=> EA!Alive(t)'
      BY <1>2, <2>2, <2>3, <2>4 DEF ListOfSets
    <2> QED
      BY <1>1, <1>2, <1>3, <2>3, <2>4 DEF ListOfSets, Named, Differ
  <1>4. ASSUME NEW s \in Sets, ~EA!Alive(s), \A i \in 1 .. Len(eventSets) : eventSets[i] # s,
               EA!TakeBit(e, s), eventSets' = Append(eventSets, s)
        PROVE  ListOfSets'
    <2>1. /\ Append(eventSets, s) \in Seq(Sets)
          /\ \A y : Named(Append(eventSets, s), y) <=> Named(eventSets, y) \/ y = s
          /\ Differ(eventSets) /\ ~Named(eventSets, s) => Differ(Append(eventSets, s))
      BY <1>1, AppendNames
    <2>2. ~Named(eventSets, s)
      BY <1>4 DEF Named
    <2>3. \A y : Named(eventSets', y) <=> Named(Append(eventSets, s), y)
      BY <1>4
    <2>4. Differ(eventSets') <=> Differ(Append(eventSets, s))
      BY <1>4
    <2>5. ASSUME ~raced'
          PROVE  Differ(eventSets') /\ \A t : Named(eventSets', t) <=> EA!Alive(t)'
      BY <1>2, <1>4, <2>1, <2>2, <2>3, <2>4, <2>5 DEF ListOfSets
    <2> QED
      BY <1>2, <1>4, <2>1, <2>5 DEF ListOfSets, Named, Differ
  <1> QED
    BY <1>3, <1>4 DEF EA!Alloc

\* The list follows the lives of the sets through free and dispose.
LEMMA FreeKeepsList ==
    ASSUME AllocInv, ListOfSets, NEW e \in Events, EA!Free(e)
    PROVE  ListOfSets'
  <1>1. AllocTypes /\ eventSets \in Seq(Sets)
    BY DEF AllocInv, ListOfSets
  <1>2. fpc[e] # "none" /\ home[e] \in Sets
    BY <1>1 DEF AllocTypes, EA!Free, EA!FreeRead, EA!FreeWrite, EA!FreeDispose
  <1>3. ASSUME EA!FreeRead(e)
        PROVE  ListOfSets'
    <2>1. /\ \A f \in Events : home'[f] = home[f] /\ (fpc'[f] = "none" <=> fpc[f] = "none")
          /\ \A f \in Events : fpc'[f] = "dispose" => fpc[f] = "dispose"
          /\ eventSets' = eventSets /\ raced' = raced
      BY <1>1, <1>3 DEF EA!FreeRead, AllocTypes
    <2>2. \A t : EA!Alive(t)' <=> EA!Alive(t)
      BY <2>1 DEF EA!Alive
    <2> QED
      BY <1>1, <2>1, <2>2 DEF ListOfSets, Named, Differ
  <1>4. ASSUME NEW w, EA!Release(e, w)
        PROVE  /\ \A f \in Events \ {e} : home'[f] = home[f] /\ fpc'[f] = fpc[f]
               /\ fpc'[e] = "none"
               /\ home'[e] = NoSet
    BY <1>1, <1>4 DEF EA!Release, AllocTypes
  <1>5. ASSUME EA!FreeWrite(e), ~raced'
        PROVE  /\ ~raced /\ Owned
               /\ \A f \in Events \ {e} : home[f] = home[e] => fpc[f] \notin {"write", "dispose"}
               /\ word[e] = bits[home[e]]
    <2>1. ~raced /\ ~EA!FreeOpen(home[e], e)
      BY <1>1, <1>5, Zenon DEF EA!FreeWrite, AllocTypes
    <2>2. Owned /\ word[e] = bits[home[e]]
      BY <1>5, <2>1 DEF AllocInv, Owned, EA!FreeWrite
    <2> QED
      BY <2>1, <2>2 DEF EA!FreeOpen
  <1>6. ASSUME EA!FreeWrite(e), word[e] \ {bitOf[e]} = {}
        PROVE  ListOfSets'
    <2>1. /\ fpc' = [fpc EXCEPT ![e] = "dispose"] /\ home' = home
          /\ eventSets' = eventSets
      BY <1>6 DEF EA!FreeWrite
    <2>2. /\ fpc'[e] = "dispose"
          /\ \A f \in Events \ {e} : fpc'[f] = fpc[f]
      BY <1>1, <2>1 DEF AllocTypes
    <2>3. \A t : EA!Alive(t)' <=> EA!Alive(t)
      BY <1>2, <2>1, <2>2 DEF EA!Alive
    <2>4. ASSUME ~raced', NEW f \in Events \ {e}
          PROVE  home[f] # home[e]
      <3> SUFFICES ASSUME home[f] = home[e] PROVE FALSE
        OBVIOUS
      <3>1. fpc[f] = "live"
        BY <1>1, <1>2, <1>5, <1>6, <2>4, SetAssumption DEF AllocTypes
      <3>2. f \in EA!Holders(home[e]) /\ e \in EA!Holders(home[e])
        BY <1>6, <3>1 DEF EA!Holders, EA!FreeWrite
      <3>3. bitOf[f] \in bits[home[e]] /\ bitOf[f] # bitOf[e]
        BY <1>2, <1>5, <1>6, <2>4, <3>2 DEF Owned
      <3> QED
        BY <1>5, <1>6, <2>4, <3>3
    <2>5. ASSUME ~raced'
          PROVE  \A f \in Events : fpc'[f] = "dispose" =>
                    \A g \in Events \ {f} : home'[g] # home'[f]
      <3>1. ~raced
        BY <1>5, <1>6, <2>5
      <3> QED
        BY <2>1, <2>2, <2>4, <2>5, <3>1 DEF ListOfSets
    <2>6. ~raced' => ~raced
      BY <1>5, <1>6
    <2> QED
      BY <1>1, <2>1, <2>3, <2>5, <2>6 DEF ListOfSets, Named, Differ
  <1>7. ASSUME EA!FreeWrite(e), word[e] \ {bitOf[e]} # {}
        PROVE  ListOfSets'
    <2>1. /\ \A f \in Events \ {e} : home'[f] = home[f] /\ fpc'[f] = fpc[f]
          /\ fpc'[e] = "none" /\ home'[e] = NoSet
          /\ eventSets' = eventSets
      BY <1>4, <1>7 DEF EA!FreeWrite
    <2>2. ASSUME ~raced'
          PROVE  \E f \in Events \ {e} : fpc[f] # "none" /\ home[f] = home[e]
      <3>1. PICK b \in bits[home[e]] : b # bitOf[e]
        BY <1>5, <1>7, <2>2
      <3>2. bits[home[e]] = {bitOf[f] : f \in EA!Holders(home[e])}
        BY <1>2, <1>5, <1>7, <2>2 DEF Owned
      <3>3. PICK f \in EA!Holders(home[e]) : b = bitOf[f]
        BY <3>1, <3>2
      <3> QED
        BY <3>1, <3>3 DEF EA!Holders
    <2>3. ASSUME ~raced', NEW t
          PROVE  EA!Alive(t)' <=> EA!Alive(t)
      <3>1. EA!Alive(t)' <=> \E f \in Events \ {e} : fpc[f] # "none" /\ home[f] = t
        BY <2>1 DEF EA!Alive
      <3> QED
        BY <1>2, <2>2, <2>3, <3>1 DEF EA!Alive
    <2>4. ~raced' => ~raced
      BY <1>5, <1>7
    <2>5. ASSUME ~raced'
          PROVE  \A f \in Events : fpc'[f] = "dispose" =>
                    \A g \in Events \ {f} : home'[g] # home'[f]
      BY <1>1, <2>1, <2>4, <2>5 DEF ListOfSets, AllocTypes
    <2> QED
      BY <1>1, <2>1, <2>3, <2>4, <2>5 DEF ListOfSets, Named, Differ
  <1>8. ASSUME EA!FreeDispose(e)
        PROVE  ListOfSets'
    <2>1. /\ \A f \in Events \ {e} : home'[f] = home[f] /\ fpc'[f] = fpc[f]
          /\ fpc'[e] = "none" /\ home'[e] = NoSet
          /\ eventSets' = EA!Remaining(e) /\ raced' = raced /\ fpc[e] = "dispose"
      BY <1>4, <1>8 DEF EA!FreeDispose
    <2>2. /\ EA!Remaining(e) \in Seq(Sets)
          /\ \A s : Named(EA!Remaining(e), s)
                        <=> Named(eventSets, s) /\ EA!Alive(s) /\ s # home[e]
          /\ Differ(eventSets) => Differ(EA!Remaining(e))
      BY <1>1, RemainingNames
    <2>3. ASSUME ~raced', NEW t
          PROVE  EA!Alive(t)' <=> EA!Alive(t) /\ t # home[e]
      <3>1. EA!Alive(t)' <=> \E f \in Events \ {e} : fpc[f] # "none" /\ home[f] = t
        BY <2>1 DEF EA!Alive
      <3>2. \A f \in Events \ {e} : home[f] # home[e]
        BY <2>1, <2>3 DEF ListOfSets
      <3> QED
        BY <1>2, <3>1, <3>2 DEF EA!Alive
    <2>4. PICK r \in Seq(Sets) : r = EA!Remaining(e)
      BY <2>2
    <2>5. ASSUME ~raced'
          PROVE  \A f \in Events : fpc'[f] = "dispose" =>
                    \A g \in Events \ {f} : home'[g] # home'[f]
      BY <1>1, <2>1, <2>5 DEF ListOfSets, AllocTypes
    <2>6. ASSUME ~raced'
          PROVE  Differ(r) /\ \A t : Named(r, t) <=> EA!Alive(t)'
      BY <2>1, <2>2, <2>3, <2>4, <2>6 DEF ListOfSets
    <2>7. eventSets' = r
      BY <2>1, <2>4
    <2> QED
      BY <2>4, <2>5, <2>6, <2>7 DEF ListOfSets, Named, Differ
  <1> QED
    BY <1>3, <1>6, <1>7, <1>8 DEF EA!Free

\* Every step keeps the list of the sets.
LEMMA ListOfSetsNext == EInv /\ ListOfSets /\ [ENext]_allVars => ListOfSets'
  <1> SUFFICES ASSUME EInv, ListOfSets, [ENext]_allVars PROVE ListOfSets'
    OBVIOUS
  <1>1. IInv /\ AllocInv /\ Fresh /\ TypeOK /\ PlacesFitJobs
    BY DEF EInv, IInv
  <1>2. ASSUME UNCHANGED allocVars
        PROVE  ListOfSets'
    BY <1>2 DEF allocVars, ListOfSets, Named, Differ, EA!Alive
  <1>3. ASSUME NEW c \in Clients, MakeDeliver(c)
        PROVE  ListOfSets'
    <2>1. PICK j \in Posted :
             /\ Caller[j] = c
             /\ \A i \in 1 .. Len(posted) : posted[i] # j
             /\ cjob' = [cjob EXCEPT ![c] = j]
      BY <1>3 DEF MakeDeliver, PushBackNode
    <2>2. cpc[c] = "idle" /\ EA!Alloc(cjob'[c])
      BY <1>3 DEF MakeDeliver, PushBackNode
    <2>3. EA!Alloc(j) /\ j \in Events /\ j \in Jobs
      BY <1>1, <2>1, <2>2 DEF TypeOK, Events, Posted
    <2>4. fpc[j] = "none"
      BY <1>1, <2>1, <2>2, <2>3 DEF Fresh, PlacesFitJobs
    <2> QED
      BY <1>1, <2>3, <2>4, AllocKeepsList
  <1>4. ASSUME NEW c \in Clients, ReturnFrees(c)
        PROVE  ListOfSets'
    <2>1. cjob[c] \in Events
      BY <1>1, <1>4, ClientHolds DEF ReturnFrees, Events, Posted
    <2> QED
      BY <1>1, <1>4, <2>1, FreeKeepsList DEF ReturnFrees
  <1>5. CASE DropFrees
    <2>1. cur \in Events
      BY <1>1, <1>5 DEF DropFrees, Events, TypeOK, PlacesFitJobs
    <2> QED
      BY <1>1, <1>5, <2>1, FreeKeepsList DEF DropFrees
  <1>6. CASE \/ PollStep \/ DropFront \/ DelayEnds \/ UNCHANGED allVars
             \/ \E c \in Clients : ExecStep(c) \/ Return(c)
    BY <1>2, <1>6 DEF PollStep, DropFront, DelayEnds, ExecStep, Return, allVars
  <1> QED
    BY <1>3, <1>4, <1>5, <1>6 DEF ENext

\* The list starts with the set of the mailbox.
LEMMA ListOfSetsInit == EInit => ListOfSets
  <1> SUFFICES ASSUME EInit PROVE ListOfSets
    OBVIOUS
  <1>1. /\ eventSets = <<FirstSet>> /\ Mailbox \in Events
        /\ home = [e \in Events |-> IF e = Mailbox THEN FirstSet ELSE NoSet]
        /\ fpc = [e \in Events |-> IF e = Mailbox THEN "live" ELSE "none"]
    BY DEF EInit, EA!AllocInit, Events
  <1>2. \A e \in Events : fpc[e] # "dispose" /\ (fpc[e] # "none" <=> e = Mailbox)
    BY <1>1
  <1>3. home[Mailbox] = FirstSet
    BY <1>1
  <1>4. \A s : EA!Alive(s) <=> s = FirstSet
    BY <1>1, <1>2, <1>3 DEF EA!Alive
  <1>5. eventSets \in Seq(Sets) /\ Len(eventSets) = 1 /\ eventSets[1] = FirstSet
    BY <1>1, SetAssumption
  <1> QED
    BY <1>2, <1>4, <1>5 DEF ListOfSets, Named, Differ

\* Until a race, the list of the allocator names each living set once and no dead
\* one, so that alloc finds every free bit, for any number of jobs, sets and bits
\* (os/event_allocator.cxx:12-23, 27-35).
THEOREM ExecutorListNamesLivingSets == ESpec => []ListNamesLivingSets
  <1>1. EInv /\ ListOfSets => ListNamesLivingSets
    <2> SUFFICES ASSUME EInv, ListOfSets, ~raced PROVE ListNamesLivingSets
      BY DEF ListNamesLivingSets, EA!ListNamesLivingSets
    <2>1. \A e \in Events : fpc[e] # "none" => home[e] \in Sets
      BY DEF EInv, AllocInv, AllocTypes
    <2>2. \A s : EA!Alive(s) => s \in Sets
      BY <2>1 DEF EA!Alive
    <2>3. \A s : (\E i \in 1 .. Len(eventSets) : eventSets[i] = s) <=> EA!Alive(s)
      BY DEF ListOfSets, Named
    <2>4. {eventSets[i] : i \in 1 .. Len(eventSets)} = {s \in Sets : EA!Alive(s)}
      BY <2>2, <2>3
    <2> QED
      BY <2>4 DEF ListOfSets, Differ, ListNamesLivingSets, EA!ListNamesLivingSets
  <1>2. EInv /\ ListOfSets /\ [ENext]_allVars => (EInv /\ ListOfSets)'
    BY EInvNext, ListOfSetsNext
  <1>3. ESpec => [](EInv /\ ListOfSets)
    BY <1>2, EInvInit, ListOfSetsInit, PTL DEF ESpec
  <1> QED
    BY <1>1, <1>3, PTL
=============================================================================
