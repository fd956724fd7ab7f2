CONSTANTS
    c1 = c1
    c2 = c2
    write = write
    flush1 = flush1
    flush2 = flush2
    nested = nested
    s1 = s1
    s2 = s2
    s3 = s3
    s4 = s4
    Clients <- MCClients
    Jobs <- MCJobs
    Caller <- MCCaller
    Inner <- MCInner
    Sleeps = {write}
    Poller = poller
    End = end
    None = none
    Mailbox = mailbox
    Sets <- MCSets
    FirstSet = s1
    N = 3
    NoSet = noset
    NoWord = noword
SPECIFICATION ESpec
INVARIANT ServedOnceInOrder
INVARIANT ListSound
INVARIANT NoDeliverLeak
INVARIANT BitsAreOwned
INVARIANT ListNamesLivingSets
INVARIANT RaceNeedsTwoClients
INVARIANT EventLivesWithDeliver
PROPERTY ExecIsServed
CHECK_DEADLOCK FALSE
