------------------------------ MODULE Mailbox ------------------------------
(***************************************************************************)
(* What Queue<T> (os/queue.hxx) promises its users: a FIFO channel from    *)
(* any number of producer threads to one polling thread.  Pushing and      *)
(* popping are single steps; nothing is lost, repeated or overtaken.       *)
(***************************************************************************)
EXTENDS Integers, Sequences

CONSTANTS
    Producers,   \* the threads that push
    MaxPush      \* bound: pushes made by each producer

VARIABLES
    chan,   \* the items pushed and not yet popped, oldest first
    sent,   \* sent[p]: how many items producer p has pushed
    got     \* the items popped, oldest first

vars == <<chan, sent, got>>

\* The n-th item of producer p is <<p, n>>.
Item == Producers \X Nat

Init ==
    /\ chan = <<>>
    /\ sent = [p \in Producers |-> 0]
    /\ got = <<>>

Put(p) ==
    /\ sent[p] < MaxPush
    /\ sent' = [sent EXCEPT ![p] = @ + 1]
    /\ chan' = Append(chan, <<p, sent[p] + 1>>)
    /\ UNCHANGED got

Take ==
    /\ chan # <<>>
    /\ got' = Append(got, Head(chan))
    /\ chan' = Tail(chan)
    /\ UNCHANGED sent

Next == Take \/ \E p \in Producers : Put(p)

Spec == Init /\ [][Next]_vars /\ WF_vars(Take)

SafeSpec == Init /\ [][Next]_vars

-----------------------------------------------------------------------------
TypeOK ==
    /\ chan \in Seq(Item)
    /\ sent \in [Producers -> Nat]
    /\ got \in Seq(Item)

\* Every item ever pushed, in the order of the pushes.
History == got \o chan

\* Each item pushed by a producer is in the channel or was popped, nothing else
\* is, and the items of one producer keep the order in which it pushed them.
FifoPerProducer ==
    /\ \A i \in 1 .. Len(History) : History[i][2] \in 1 .. sent[History[i][1]]
    /\ \A p \in Producers : \A n \in 1 .. sent[p] :
          \E i \in 1 .. Len(History) : History[i] = <<p, n>>
    /\ \A i, j \in 1 .. Len(History) :
          i < j /\ History[i][1] = History[j][1] => History[i][2] < History[j][2]
=============================================================================
