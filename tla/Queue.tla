------------------------------- MODULE Queue -------------------------------
(***************************************************************************)
(* Queue<T> of os/queue.hxx: a std::queue guarded by a mutex, with one     *)
(* event bit (os/event.cxx, os/compacted_event_set.cxx) that a producer    *)
(* sets while it holds the mutex and on which the consumer sleeps after it *)
(* has released the mutex.  Every place where another thread can run is a  *)
(* step of its own; no thread priority is assumed, so the results hold for *)
(* any of them.  The consumer is one thread, as Post::poll has one.        *)
(***************************************************************************)
EXTENDS Integers, Sequences

CONSTANTS
    Producers,   \* the threads that push
    Consumer,    \* the thread that polls
    Free,        \* the owner of an unlocked mutex
    MaxPush      \* bound: pushes made by each producer

ASSUME ThreadAssumption ==
    /\ Consumer \notin Producers
    /\ Free \notin Producers \cup {Consumer}

ASSUME MaxPushAssumption == MaxPush \in Nat

VARIABLES
    q,       \* the std::queue
    owner,   \* the thread that holds the mutex m, or Free
    bit,     \* the bit of e in the kernel event: set and not yet received
    ppc,     \* ppc[p]: where producer p is in push
    cpc,     \* where the consumer is in pop
    sent,    \* sent[p]: how many items p has pushed
    got      \* the items pop has returned, oldest first

vars == <<q, owner, bit, ppc, cpc, sent, got>>

Item == Producers \X Nat

ProducerPlaces == {"idle", "push", "set", "unlock"}

ConsumerPlaces == {"lock", "check", "wait", "suspended", "relock", "unlock"}

\* A bit may be set from the start: Event::~Event gives its bit back without
\* clearing it in the kernel event, and the next Event can be given that bit.
Init ==
    /\ q = <<>>
    /\ owner = Free
    /\ bit \in BOOLEAN
    /\ ppc = [p \in Producers |-> "idle"]
    /\ cpc = "lock"
    /\ sent = [p \in Producers |-> 0]
    /\ got = <<>>

-----------------------------------------------------------------------------
\* push: the constructor of Lock takes the mutex.
PushLock(p) ==
    /\ ppc[p] = "idle"
    /\ sent[p] < MaxPush
    /\ owner = Free
    /\ owner' = p
    /\ ppc' = [ppc EXCEPT ![p] = "push"]
    /\ UNCHANGED <<q, bit, cpc, sent, got>>

\* push: q.push(t).
PushItem(p) ==
    /\ ppc[p] = "push"
    /\ sent' = [sent EXCEPT ![p] = @ + 1]
    /\ q' = Append(q, <<p, sent[p] + 1>>)
    /\ ppc' = [ppc EXCEPT ![p] = "set"]
    /\ UNCHANGED <<owner, bit, cpc, got>>

\* Mutant: the bit is raised for a consumer that sleeps and dropped otherwise, as
\* a condition variable would do.
SetLikeCondVar(p) ==
    /\ ppc[p] = "set"
    /\ ppc' = [ppc EXCEPT ![p] = "unlock"]
    /\ cpc' = IF cpc = "suspended" THEN "relock" ELSE cpc
    /\ UNCHANGED <<q, owner, bit, sent, got>>

\* push: e.set().  rt_event_send raises the bit; if the consumer is suspended on
\* it, the call clears the bit again (RT_EVENT_FLAG_CLEAR) and resumes it.
PushSet(p) ==
    /\ ppc[p] = "set"
    /\ ppc' = [ppc EXCEPT ![p] = "unlock"]
    /\ \/ /\ cpc = "suspended"
          /\ bit' = FALSE
          /\ cpc' = "relock"
       \/ /\ cpc # "suspended"
          /\ bit' = TRUE
          /\ UNCHANGED cpc
    /\ UNCHANGED <<q, owner, sent, got>>

\* push: the destructor of Lock gives the mutex back.
PushUnlock(p) ==
    /\ ppc[p] = "unlock"
    /\ owner' = Free
    /\ ppc' = [ppc EXCEPT ![p] = "idle"]
    /\ UNCHANGED <<q, bit, cpc, sent, got>>

-----------------------------------------------------------------------------
\* pop: the constructor of Lock, or m.lock() at the end of the loop body.
PopLock ==
    /\ cpc \in {"lock", "relock"}
    /\ owner = Free
    /\ owner' = Consumer
    /\ cpc' = "check"
    /\ UNCHANGED <<q, bit, ppc, sent, got>>

\* pop: the queue is empty, m.unlock().
PopSeesEmpty ==
    /\ cpc = "check"
    /\ q = <<>>
    /\ owner' = Free
    /\ cpc' = "wait"
    /\ UNCHANGED <<q, bit, ppc, sent, got>>

\* Mutant: the consumer goes to sleep although the bit is already set.
WaitIgnoresBit ==
    /\ cpc = "wait"
    /\ cpc' = "suspended"
    /\ bit' = FALSE
    /\ UNCHANGED <<q, owner, ppc, sent, got>>

\* pop: e.wait().  rt_event_recv receives and clears the bit, or suspends.
PopWait ==
    /\ cpc = "wait"
    /\ cpc' = IF bit THEN "relock" ELSE "suspended"
    /\ bit' = FALSE
    /\ UNCHANGED <<q, owner, ppc, sent, got>>

\* Mutant: pop hands out the newest item.
PopNewest ==
    /\ cpc = "check"
    /\ q # <<>>
    /\ got' = Append(got, q[Len(q)])
    /\ q' = SubSeq(q, 1, Len(q) - 1)
    /\ cpc' = "unlock"
    /\ UNCHANGED <<owner, bit, ppc, sent>>

\* pop: result = q.front(); q.pop().
PopFront ==
    /\ cpc = "check"
    /\ q # <<>>
    /\ got' = Append(got, Head(q))
    /\ q' = Tail(q)
    /\ cpc' = "unlock"
    /\ UNCHANGED <<owner, bit, ppc, sent>>

\* pop: the destructor of Lock; Post::poll will call pop again.
PopUnlock ==
    /\ cpc = "unlock"
    /\ owner' = Free
    /\ cpc' = "lock"
    /\ UNCHANGED <<q, bit, ppc, sent, got>>

-----------------------------------------------------------------------------
Push(p) == PushLock(p) \/ PushItem(p) \/ PushSet(p) \/ PushUnlock(p)

Pop == PopLock \/ PopSeesEmpty \/ PopWait \/ PopFront \/ PopUnlock

Next == Pop \/ \E p \in Producers : Push(p)

SafeSpec == Init /\ [][Next]_vars

\* The scheduler keeps running the polling thread while it is ready, and a
\* producer that has begun a push finishes it: weak fairness of the consumer and
\* of the steps of push after its first.  Whether a producer pushes at all is up
\* to the caller.
Fairness ==
    /\ WF_vars(Pop)
    /\ \A p \in Producers : WF_vars(PushItem(p) \/ PushSet(p) \/ PushUnlock(p))

Spec == SafeSpec /\ Fairness

-----------------------------------------------------------------------------
TypeOK ==
    /\ q \in Seq(Item)
    /\ owner \in Producers \cup {Consumer, Free}
    /\ bit \in BOOLEAN
    /\ ppc \in [Producers -> ProducerPlaces]
    /\ cpc \in ConsumerPlaces
    /\ sent \in [Producers -> 0 .. MaxPush]
    /\ got \in Seq(Item)

\* Each thread between a lock and an unlock is the owner of the mutex.
MutexHeld ==
    /\ \A p \in Producers : ppc[p] \in {"push", "set", "unlock"} <=> owner = p
    /\ cpc \in {"check", "unlock"} <=> owner = Consumer

\* A producer about to push has a push left.
PushWithinBound == \A p \in Producers : ppc[p] = "push" => sent[p] < MaxPush

\* pop gives the mutex up before it calls e.wait() (os/queue.hxx:21-22): an item
\* pushed in between must not leave the consumer asleep.  Whenever the consumer
\* sleeps, or is about to, with an item in the queue, the bit that will keep it
\* awake is set or a producer is about to set it.
NoLostWakeup ==
    /\ cpc = "suspended" => ~bit
    /\ cpc \in {"wait", "suspended"} /\ q # <<>> =>
          bit \/ \E p \in Producers : ppc[p] = "set"

\* The state of the queue, the mutex and the event bit always fits the places of
\* the threads (os/queue.hxx:12-28).  The four parts together are inductive.
IInv == TypeOK /\ MutexHeld /\ PushWithinBound /\ NoLostWakeup

\* A queue implements the channel its users rely on.
MB == INSTANCE Mailbox WITH chan <- q

\* The detailed push and pop implement the abstract FIFO channel, including its
\* fairness: what is in the queue is always popped in the end.
ImplementsMailbox == MB!Spec

\* pop returns what was pushed, each item once and the items of one producer in
\* the order of its pushes, whatever the interleaving (os/queue.hxx:12-28).
PoppedInOrder == MB!FifoPerProducer
=============================================================================
