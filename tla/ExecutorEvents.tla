--------------------------- MODULE ExecutorEvents ---------------------------
(***************************************************************************)
(* The executor together with the event bits its Delivers use.  Making a   *)
(* Deliver makes its ctxQueue, which allocates an Event; whichever thread  *)
(* lets go of the last reference to a Deliver frees it.                    *)
(***************************************************************************)
EXTENDS Executor

CONSTANTS
    Mailbox,  \* the Event of Post::queue, which is never freed
    Sets, FirstSet, N, NoSet, NoWord

Events == Jobs \cup {Mailbox}

ASSUME SetAssumption ==
    /\ Mailbox \notin Jobs
    /\ NoSet \notin Sets /\ FirstSet \in Sets
    /\ N \in Nat \ {0}

VARIABLES bits, eventSets, home, bitOf, fpc, word, raced

EA == INSTANCE EventAllocator

allocVars == <<bits, eventSets, home, bitOf, fpc, word, raced>>

allVars == <<vars, allocVars>>

EInit == Init /\ EA!AllocInit(Mailbox, FirstSet)

-----------------------------------------------------------------------------
\* Who refers to the Deliver of job j: a list node, a queue entry, the poller's
\* front, or a client inside exec.
Listing(j) == j \in nodes \/ \E i \in 1 .. Len(queue) : queue[i] = j

\* Mutant: a client frees its Deliver although the list or the queue still has it.
ClientIsLastUnlisted(c) == cur # cjob[c]

\* When client c returns from exec, nothing else refers to its Deliver.
ClientIsLast(c) ==
    /\ ~Listing(cjob[c])
    /\ cur # cjob[c]

\* When poll lets go of front, nothing else refers to it.
PollerIsLast ==
    /\ ~Listing(cur)
    /\ \A c \in Clients : cjob[c] # cur

\* post(f): make_shared<Deliver<F>> allocates the Event of its ctxQueue.
MakeDeliver(c) == PushBackNode(c) /\ EA!Alloc(cjob'[c])

\* The other steps of exec leave the allocator alone.
ExecStep(c) ==
    /\ PushBackLink(c) \/ PushBackClose(c) \/ PushArgs(c) \/ Enqueue(c)
    /\ UNCHANGED allocVars

\* exec ends: the last reference destroys the Deliver first.
ReturnFrees(c) ==
    /\ ~PollerReady
    /\ cpc[c] = "return"
    /\ ClientIsLast(c)
    /\ EA!Free(cjob[c])
    /\ UNCHANGED vars

Return(c) ==
    /\ cpc[c] = "return"
    /\ ClientIsLast(c) => fpc[cjob[c]] = "none"
    /\ ExecReturn(c)
    /\ UNCHANGED allocVars

PollStep == (Pop \/ Invoke \/ Dispose) /\ UNCHANGED allocVars

DelayEnds == Wake /\ UNCHANGED allocVars

\* poll's loop body ends: the last reference destroys the Deliver first.
DropFrees ==
    /\ ppc = "drop"
    /\ PollerIsLast
    /\ EA!Free(cur)
    /\ UNCHANGED vars

DropFront ==
    /\ ppc = "drop"
    /\ PollerIsLast => fpc[cur] = "none"
    /\ Drop
    /\ UNCHANGED allocVars

ENext ==
    \/ PollStep \/ DropFrees \/ DropFront \/ DelayEnds
    \/ \E c \in Clients :
          MakeDeliver(c) \/ ExecStep(c) \/ ReturnFrees(c) \/ Return(c)

\* As in Executor: the poller goes on, and a delay ends, and so does a client that
\* has begun exec.
EFairness ==
    /\ WF_allVars(PollStep \/ DropFrees \/ DropFront)
    /\ WF_allVars(DelayEnds)
    /\ \A c \in Clients :
          WF_allVars(cpc[c] # "idle" /\ (ExecStep(c) \/ ReturnFrees(c) \/ Return(c)))

ESpec == EInit /\ [][ENext]_allVars /\ EFairness

-----------------------------------------------------------------------------
BitsAreOwned == EA!BitsAreOwned

ListNamesLivingSets == EA!ListNamesLivingSets

\* The jobs that clients have handed to exec.
Begun ==
    {j \in Posted : \/ \E c \in Clients : cjob[c] = j
                    \/ \E i \in 1 .. Len(posted) : posted[i] = j}

\* With a single client thread the unguarded free is safe: the poller cannot be
\* inside or ahead of a free while that client is inside one.  Only jobs of two
\* clients can make a bitset change under an open free
\* (os/compacted_event_set.cxx:30 against os/event_allocator.cxx:10 and itself).
RaceNeedsTwoClients ==
    raced => \E j, k \in Begun : Caller[j] # Caller[k]

\* A Deliver that can still be called has its Event, and a Deliver that nothing
\* refers to has none.
EventLivesWithDeliver ==
    \A j \in Jobs :
        LET held == Listing(j) \/ cur = j \/ \E c \in Clients : cjob[c] = j
        IN  /\ held /\ j \notin done => fpc[j] = "live"
            /\ ~held => fpc[j] = "none"
=============================================================================
