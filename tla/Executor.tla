------------------------------ MODULE Executor ------------------------------
(***************************************************************************)
(* Task::exec (os/task.hxx) over Post (os/post.hxx, os/post.cxx) and       *)
(* Deliver (os/deliver.hxx): client threads hand jobs to one polling       *)
(* thread.  A job travels as a Deliver, which the list Post::delivers      *)
(* keeps alive until it has run.  The mailbox Post::queue is the FIFO      *)
(* channel that Queue implements; the list is a plain std::list that no    *)
(* lock protects, so its links are modelled one write at a time.           *)
(*                                                                         *)
(* The polling thread is a Preset::Task of Priority::High                  *)
(* (devices/ws2812.hxx, devices/wtn6.hxx) and every client has a lower     *)
(* priority: a client runs only while the poller is blocked, and the       *)
(* poller preempts it anywhere as soon as it can run.  Clients interleave  *)
(* freely with each other.                                                 *)
(***************************************************************************)
EXTENDS Integers, Sequences, FiniteSets

CONSTANTS
    Clients,   \* the threads that call exec
    Jobs,      \* the lambdas given to exec; each is given once
    Caller,    \* Caller[j]: the client that calls exec for j, or Poller
    Poller,    \* the polling thread
    Inner,     \* Inner[j]: the jobs for which job j itself calls exec
    Sleeps,    \* the jobs that block, as Wtn6::write's rt_thread_mdelay does
    End,       \* the header node of the std::list
    None

ASSUME JobAssumption ==
    /\ Caller \in [Jobs -> Clients \cup {Poller}]
    /\ Inner \in [Jobs -> SUBSET {j \in Jobs : Caller[j] = Poller}]
    /\ Sleeps \subseteq Jobs
    /\ {End, None} \cap Jobs = {} /\ Poller \notin Clients

VARIABLES
    ppc,       \* where the poller is in Post::poll
    cur,       \* the Deliver the poller holds (front), or None
    cpc,       \* cpc[c]: where client c is in exec
    cjob,      \* cjob[c]: the Deliver client c holds, or None
    nodes,     \* the allocated nodes of Post::delivers, named by their Deliver
    nxt, prv,  \* the links of the list's nodes and of its header
    queue,     \* Post::queue
    ctx,       \* ctx[j]: the number of calls in the ctxQueue of j's Deliver
    posted,    \* history: the jobs in the order they entered the queue
    served,    \* history: the posted jobs in the order they began to run
    done,      \* history: the jobs that have run to the end
    torn       \* history: one thread wrote the list amid another's push_back

client == <<cpc, cjob>>
list == <<nodes, nxt, prv>>
vars == <<ppc, cur, cpc, cjob, nodes, nxt, prv, queue, ctx,
          posted, served, done, torn>>

Posted == {j \in Jobs : Caller[j] \in Clients}

ClientPlaces == {"idle", "link", "close", "args", "enqueue", "return"}

PollerPlaces == {"pop", "invoke", "asleep", "dispose", "drop"}

Init ==
    /\ ppc = "pop"
    /\ cur = None
    /\ cpc = [c \in Clients |-> "idle"]
    /\ cjob = [c \in Clients |-> None]
    /\ nodes = {}
    /\ nxt = [n \in Jobs \cup {End} |-> End]
    /\ prv = [n \in Jobs \cup {End} |-> End]
    /\ queue = <<>>
    /\ ctx = [j \in Jobs |-> 0]
    /\ posted = <<>>
    /\ served = <<>>
    /\ done = {}
    /\ torn = FALSE

-----------------------------------------------------------------------------
(* Scheduling *)

\* Mutant: the poller has no priority over the clients.
PollerNeverFirst == FALSE

\* The poller can run: a strict priority scheduler then runs nobody else.
PollerReady ==
    \/ ppc \in {"invoke", "dispose", "drop"}
    \/ ppc = "pop" /\ queue # <<>>

\* A client that is inside the push_back of its node.
Appending(c) == cpc[c] \in {"link", "close"}

-----------------------------------------------------------------------------
(* The client: Task::exec when it is not the polling thread *)

\* exec: post(f) makes the Deliver and begins delivers.push_back: the new node
\* is allocated and takes the header's prev pointer as its own.
PushBackNode(c) ==
    /\ ~PollerReady
    /\ cpc[c] = "idle"
    /\ \E j \in Posted :
          /\ Caller[j] = c
          /\ \A i \in 1 .. Len(posted) : posted[i] # j
          /\ cjob' = [cjob EXCEPT ![c] = j]
          /\ nodes' = nodes \cup {j}
          /\ nxt' = [nxt EXCEPT ![j] = End]
          /\ prv' = [prv EXCEPT ![j] = prv[End]]
    /\ cpc' = [cpc EXCEPT ![c] = "link"]
    /\ UNCHANGED <<ppc, cur, queue, ctx, posted, served, done, torn>>

\* push_back: the node that was last when the pointer was taken gets a successor.
PushBackLink(c) ==
    /\ ~PollerReady
    /\ cpc[c] = "link"
    /\ nxt' = [nxt EXCEPT ![prv[cjob[c]]] = cjob[c]]
    /\ cpc' = [cpc EXCEPT ![c] = "close"]
    /\ torn' = (torn \/ \E d \in Clients \ {c} : Appending(d))
    /\ UNCHANGED <<ppc, cur, cjob, nodes, prv, queue, ctx, posted, served, done>>

\* push_back: the header's prev pointer is the new node.
PushBackClose(c) ==
    /\ ~PollerReady
    /\ cpc[c] = "close"
    /\ prv' = [prv EXCEPT ![End] = cjob[c]]
    /\ cpc' = [cpc EXCEPT ![c] = "args"]
    /\ torn' = (torn \/ \E d \in Clients \ {c} : Appending(d))
    /\ UNCHANGED <<ppc, cur, cjob, nodes, nxt, queue, ctx, posted, served, done>>

\* Mutant: the Deliver is enqueued before its ctxQueue has the call.
EnqueueWithoutArgs(c) ==
    /\ ~PollerReady
    /\ cpc[c] = "args"
    /\ queue' = Append(queue, cjob[c])
    /\ posted' = Append(posted, cjob[c])
    /\ cpc' = [cpc EXCEPT ![c] = "return"]
    /\ UNCHANGED <<ppc, cur, cjob, nodes, nxt, prv, ctx, served, done, torn>>

\* runOn: the signal calls the lambda of Deliver::addTo, ctxQueue.push({...}).
PushArgs(c) ==
    /\ ~PollerReady
    /\ cpc[c] = "args"
    /\ ctx' = [ctx EXCEPT ![cjob[c]] = @ + 1]
    /\ cpc' = [cpc EXCEPT ![c] = "enqueue"]
    /\ UNCHANGED <<ppc, cur, cjob, nodes, nxt, prv, queue, posted, served, done,
                   torn>>

\* Mutant: the newest Deliver goes to the head of the queue.
EnqueueAtHead(c) ==
    /\ ~PollerReady
    /\ cpc[c] = "enqueue"
    /\ queue' = <<cjob[c]>> \o queue
    /\ posted' = Append(posted, cjob[c])
    /\ cpc' = [cpc EXCEPT ![c] = "return"]
    /\ UNCHANGED <<ppc, cur, cjob, nodes, nxt, prv, ctx, served, done, torn>>

\* DeliverBase::enqueue: outer->queue.push(shared_from_this()).
Enqueue(c) ==
    /\ ~PollerReady
    /\ cpc[c] = "enqueue"
    /\ queue' = Append(queue, cjob[c])
    /\ posted' = Append(posted, cjob[c])
    /\ cpc' = [cpc EXCEPT ![c] = "return"]
    /\ UNCHANGED <<ppc, cur, cjob, nodes, nxt, prv, ctx, served, done, torn>>

\* exec returns and drops the client's reference to the Deliver.
ExecReturn(c) ==
    /\ ~PollerReady
    /\ cpc[c] = "return"
    /\ cpc' = [cpc EXCEPT ![c] = "idle"]
    /\ cjob' = [cjob EXCEPT ![c] = None]
    /\ UNCHANGED <<ppc, cur, nodes, nxt, prv, queue, ctx, posted, served, done,
                   torn>>

Exec(c) ==
    \/ PushBackNode(c) \/ PushBackLink(c) \/ PushBackClose(c)
    \/ PushArgs(c) \/ Enqueue(c) \/ ExecReturn(c)

-----------------------------------------------------------------------------
(* The poller: Post::poll *)

\* poll: front = queue.pop().
Pop ==
    /\ ppc = "pop"
    /\ queue # <<>>
    /\ cur' = Head(queue)
    /\ queue' = Tail(queue)
    /\ ppc' = "invoke"
    /\ UNCHANGED <<cpc, cjob, nodes, nxt, prv, ctx, posted, served, done, torn>>

\* The call of f.  When f calls exec, isCurrent holds and execInternal runs that
\* job on the spot.  Whether f throws makes no difference: invoke catches the
\* exception and goes on.
RunJob ==
    /\ ctx' = [ctx EXCEPT ![cur] = @ - 1]
    /\ served' = Append(served, cur)
    /\ ppc' = IF cur \in Sleeps THEN "asleep" ELSE "dispose"
    /\ done' = done \cup Inner[cur] \cup ({cur} \ Sleeps)

\* invoke: nothing if the ctxQueue is empty, else the call it holds is made.
Invoke ==
    /\ ppc = "invoke"
    /\ IF ctx[cur] = 0
       THEN ppc' = "drop" /\ UNCHANGED <<ctx, served, done>>
       ELSE RunJob
    /\ UNCHANGED <<cur, cpc, cjob, nodes, nxt, prv, queue, posted, torn>>

\* The tick interrupt ends the delay of a job that blocks, at any time.
Wake ==
    /\ ppc = "asleep"
    /\ ppc' = "dispose"
    /\ done' = done \cup {cur}
    /\ UNCHANGED <<cur, cpc, cjob, nodes, nxt, prv, queue, ctx, posted, served,
                   torn>>

\* The nodes a walk along the next pointers meets: the i-th, or End once the
\* walk is over.
Walk ==
    LET at[i \in 0 .. Cardinality(Jobs)] ==
            IF i = 0 THEN nxt[End]
            ELSE IF at[i - 1] = End THEN End ELSE nxt[at[i - 1]]
    IN  at

Listed(j) == \E i \in DOMAIN Walk : Walk[i] = j

WalkEnds == \E i \in DOMAIN Walk : Walk[i] = End

\* Mutant: a ShortTerm Deliver is not disposed of.
DisposeForgotten ==
    /\ ppc = "dispose"
    /\ ppc' = "drop"
    /\ UNCHANGED <<cur, cpc, cjob, nodes, nxt, prv, queue, ctx, posted, served,
                   done, torn>>

\* Mutant: the node is freed and its successor keeps pointing back at it.
DisposeHalfUnhooked ==
    /\ ppc = "dispose"
    /\ WalkEnds
    /\ \/ /\ Listed(cur)
          /\ nxt' = [nxt EXCEPT ![prv[cur]] = nxt[cur]]
          /\ nodes' = nodes \ {cur}
       \/ /\ ~Listed(cur)
          /\ UNCHANGED <<nxt, nodes>>
    /\ ppc' = "drop"
    /\ torn' = (torn \/ \E c \in Clients : Appending(c))
    /\ UNCHANGED <<cur, cpc, cjob, prv, queue, ctx, posted, served, done>>

\* invoke, ShortTerm: dispose() is delivers.remove(shared_from_this()).  The
\* walk finds the node only along the next pointers; a found node is unhooked
\* and freed.  A walk along a cycle never ends.
Dispose ==
    /\ ppc = "dispose"
    /\ WalkEnds
    /\ \/ /\ Listed(cur)
          /\ nxt' = [nxt EXCEPT ![prv[cur]] = nxt[cur]]
          /\ prv' = [prv EXCEPT ![nxt[cur]] = prv[cur]]
          /\ nodes' = nodes \ {cur}
       \/ /\ ~Listed(cur)
          /\ UNCHANGED list
    /\ ppc' = "drop"
    /\ torn' = (torn \/ \E c \in Clients : Appending(c))
    /\ UNCHANGED <<cur, cpc, cjob, queue, ctx, posted, served, done>>

\* poll: front goes out of scope and the loop starts again.
Drop ==
    /\ ppc = "drop"
    /\ cur' = None
    /\ ppc' = "pop"
    /\ UNCHANGED <<cpc, cjob, nodes, nxt, prv, queue, ctx, posted, served, done,
                   torn>>

Poll == Pop \/ Invoke \/ Dispose \/ Drop

-----------------------------------------------------------------------------
Next == Poll \/ Wake \/ \E c \in Clients : Exec(c)

\* The scheduler runs the poller when it is ready and a client when the poller is
\* not; a delay ends.  A client that has begun exec goes on with it, and begins
\* another one only if it wants to.
Fairness ==
    /\ WF_vars(Poll)
    /\ WF_vars(Wake)
    /\ \A c \in Clients : WF_vars(cpc[c] # "idle" /\ Exec(c))

Spec == Init /\ [][Next]_vars /\ Fairness

-----------------------------------------------------------------------------
TypeOK ==
    /\ ppc \in PollerPlaces
    /\ cur \in Jobs \cup {None}
    /\ cpc \in [Clients -> ClientPlaces]
    /\ cjob \in [Clients -> Jobs \cup {None}]
    /\ nodes \subseteq Jobs
    /\ nxt \in [Jobs \cup {End} -> Jobs \cup {End}]
    /\ prv \in [Jobs \cup {End} -> Jobs \cup {End}]
    /\ queue \in Seq(Jobs)
    /\ ctx \in [Jobs -> Nat]
    /\ posted \in Seq(Posted)
    /\ served \in Seq(Posted)
    /\ done \subseteq Jobs
    /\ torn \in BOOLEAN

\* The job a client is executing is its own, not yet posted while it is before
\* Enqueue, and its ctxQueue is filled by then; the poller holds a Deliver
\* exactly between its pop and the end of the loop body.
PlacesFitJobs ==
    /\ \A c \in Clients :
          /\ cpc[c] = "idle" <=> cjob[c] = None
          /\ cpc[c] # "idle" => Caller[cjob[c]] = c
          /\ cpc[c] \in {"link", "close", "args", "enqueue"} =>
                \A i \in 1 .. Len(posted) : posted[i] # cjob[c]
          /\ cpc[c] = "enqueue" => ctx[cjob[c]] > 0
    /\ ppc = "pop" <=> cur = None

\* The Deliver that poll has popped and not yet invoked.
InHand == IF ppc = "invoke" THEN <<cur>> ELSE <<>>

\* Every job handed to exec begins once, and the jobs begin in the order they
\* entered the queue, also across clients and whatever the damage to the list:
\* what was served, the one in the poller's hand and the queue make up the
\* posts, which are all different (os/post.cxx:18-21, os/deliver.hxx:79-80).
ServedOnceInOrder ==
    /\ served \o InHand \o queue = posted
    /\ \A i, k \in 1 .. Len(posted) : posted[i] = posted[k] => i = k

\* A Deliver in the queue or just popped has a call to make, so that invoke never
\* finds its ctxQueue empty and each enqueue makes one call (os/deliver.hxx:73,
\* 79-82).
QueuedHasCall ==
    /\ \A i \in 1 .. Len(queue) : ctx[queue[i]] > 0
    /\ ppc = "invoke" => ctx[cur] > 0

\* The inductive invariant: the two queues, the posts and the places of the
\* threads always fit together.
IInv == TypeOK /\ PlacesFitJobs /\ QueuedHasCall /\ ServedOnceInOrder

\* While no thread has written the list amid another's push_back, the list is
\* sound: between two push_backs it holds the allocated nodes and no others,
\* each the prev of its next, and a push_back never writes to a freed node
\* (os/post.hxx:34, os/deliver_base.cxx:16).
ListSound ==
    ~torn =>
        /\ \A c \in Clients : cpc[c] = "link" => prv[cjob[c]] \in nodes \cup {End}
        /\ (\A c \in Clients : ~Appending(c)) =>
              /\ WalkEnds
              /\ {j \in Jobs : Listed(j)} = nodes
              /\ \A n \in nodes \cup {End} : prv[nxt[n]] = n

\* A Deliver whose job is over is kept by nothing but the poller that is about
\* to let go of it, unless the list was torn: no memory and no event bit is
\* leaked (os/deliver.hxx:87-88).
NoDeliverLeak ==
    ~torn => \A j \in nodes : j \in done => j = cur /\ ppc = "dispose"

\* A job that a client hands to exec runs to its end, even if the list was torn
\* meanwhile (os/task.hxx:16, os/post.cxx:18-21).
ExecIsServed ==
    \A c \in Clients : \A j \in Posted : cjob[c] = j ~> j \in done
=============================================================================
