--------------------------- MODULE EventAllocator ---------------------------
(***************************************************************************)
(* EventAllocator (os/event_allocator.cxx) and CompactedEventSet           *)
(* (os/compacted_event_set.cxx): Events are single bits of shared kernel   *)
(* events.  A set's bitset says which of its bits are taken; a list of     *)
(* weak pointers names the sets that alloc looks through.  alloc and       *)
(* dispose run with the scheduler locked (os/critical.cxx); free does not, *)
(* so its read and its write of the bitset are separate steps.             *)
(*                                                                         *)
(* This module defines the operations on that state; ExecutorEvents calls  *)
(* them as the Delivers of the executor come and go.                       *)
(***************************************************************************)
EXTENDS Integers, Sequences, FiniteSets

CONSTANTS
    Events,   \* the Event objects that may exist
    Sets,     \* the CompactedEventSet objects that may exist
    N,        \* bits of a set (32 in the code)
    NoSet,    \* the home of an Event that does not exist
    NoWord    \* no word of a bitset is held in a register

VARIABLES
    bits,       \* bits[s]: the bits marked as taken in set s
    eventSets,  \* the list of the allocator, a sequence of sets
    home,       \* home[e]: the set of Event e, or NoSet
    bitOf,      \* bitOf[e]: the bit of Event e (0 when it has none)
    fpc,        \* fpc[e]: where the destructor of e is in free, or "none", "live"
    word,       \* word[e]: the bitset word that free of e has read, or NoWord
    raced       \* history: a bitset changed while a free of the same set was open

Bits == 0 .. N - 1

\* A set lives as long as one of its Events does: each holds a shared_ptr to it.
Alive(s) == \E e \in Events : fpc[e] # "none" /\ home[e] = s

Full(s) == bits[s] = Bits

\* An Event of set s other than e is between the read and the end of its free.
FreeOpen(s, e) ==
    \E f \in Events \ {e} : home[f] = s /\ fpc[f] \in {"write", "dispose"}

\* Only the mailbox of the polling task has an Event at the start.
AllocInit(mailbox, s) ==
    /\ bits = [t \in Sets |-> IF t = s THEN {0} ELSE {}]
    /\ eventSets = <<s>>
    /\ home = [e \in Events |-> IF e = mailbox THEN s ELSE NoSet]
    /\ bitOf = [e \in Events |-> 0]
    /\ fpc = [e \in Events |-> IF e = mailbox THEN "live" ELSE "none"]
    /\ word = [e \in Events |-> NoWord]
    /\ raced = FALSE

-----------------------------------------------------------------------------
\* The sets of the list that alloc can use, by position.
Usable == {i \in 1 .. Len(eventSets) : Alive(eventSets[i]) /\ ~Full(eventSets[i])}

\* The lowest free bit of set s.
FreeBit(s) == CHOOSE b \in Bits \ bits[s] : \A a \in Bits \ bits[s] : b <= a

\* CompactedEventSet::alloc: Event e gets the lowest free bit of set s.
TakeBit(e, s) ==
    LET b == FreeBit(s)
    IN  /\ bits' = [bits EXCEPT ![s] = @ \cup {b}]
        /\ bitOf' = [bitOf EXCEPT ![e] = b]
        /\ home' = [home EXCEPT ![e] = s]
        /\ fpc' = [fpc EXCEPT ![e] = "live"]
        /\ raced' = (raced \/ FreeOpen(s, e))
        /\ UNCHANGED word

\* alloc: the first set of the list that lives and is not full, or else a new
\* set at the end of the list.
Alloc(e) ==
    \/ \E i \in Usable :
          /\ \A k \in Usable : i <= k
          /\ TakeBit(e, eventSets[i])
          /\ UNCHANGED eventSets
    \/ /\ Usable = {}
       /\ \E s \in Sets :
             /\ ~Alive(s)
             /\ \A i \in 1 .. Len(eventSets) : eventSets[i] # s
             /\ bits[s] = {}
             /\ TakeBit(e, s)
             /\ eventSets' = Append(eventSets, s)

-----------------------------------------------------------------------------
\* free: the word of the bitset is loaded.
FreeRead(e) ==
    /\ fpc[e] = "live"
    /\ word' = [word EXCEPT ![e] = bits[home[e]]]
    /\ fpc' = [fpc EXCEPT ![e] = "write"]
    /\ UNCHANGED <<bits, eventSets, home, bitOf, raced>>

\* The Event is gone, and with the last one of its set the set (a new set of
\* that name will start with no bit taken).
Release(e, word2) ==
    /\ home' = [home EXCEPT ![e] = NoSet]
    /\ bitOf' = [bitOf EXCEPT ![e] = 0]
    /\ fpc' = [fpc EXCEPT ![e] = "none"]
    /\ word' = [word EXCEPT ![e] = NoWord]
    /\ bits' = [bits EXCEPT ![home[e]] =
                   IF \E f \in Events \ {e} : home[f] = home[e] THEN word2 ELSE {}]

\* Mutant: a free gives back every bit of its set.
FreeAll(e) ==
    /\ fpc[e] = "write"
    /\ fpc' = [fpc EXCEPT ![e] = "dispose"]
    /\ bits' = [bits EXCEPT ![home[e]] = {}]
    /\ raced' = (raced \/ FreeOpen(home[e], e))
    /\ UNCHANGED <<home, bitOf, word, eventSets>>

\* free: the word is stored without the bit; if bits.none() dispose follows, else
\* the Event is done.
FreeWrite(e) ==
    /\ fpc[e] = "write"
    /\ LET rest == word[e] \ {bitOf[e]}
       IN  \/ /\ rest = {}
              /\ bits' = [bits EXCEPT ![home[e]] = rest]
              /\ fpc' = [fpc EXCEPT ![e] = "dispose"]
              /\ UNCHANGED <<home, bitOf, word>>
           \/ /\ rest # {}
              /\ Release(e, rest)
    /\ raced' = (raced \/ FreeOpen(home[e], e))
    /\ UNCHANGED eventSets

\* Mutant: an empty set stays in the list.
FreeKeepsSetListed(e) ==
    /\ fpc[e] = "dispose"
    /\ Release(e, bits[home[e]])
    /\ UNCHANGED <<eventSets, raced>>

\* list::remove_if: the members of the list that stay when the set of e goes with
\* its last Event, in their order.
Remaining(e) ==
    LET kept[i \in 0 .. Len(eventSets)] ==
            IF i = 0 THEN <<>>
            ELSE IF Alive(eventSets[i]) /\ eventSets[i] # home[e]
            THEN Append(kept[i - 1], eventSets[i]) ELSE kept[i - 1]
    IN  kept[Len(eventSets)]

\* EventAllocator::dispose: the set and all expired entries leave the list.
FreeDispose(e) ==
    /\ fpc[e] = "dispose"
    /\ eventSets' = Remaining(e)
    /\ Release(e, bits[home[e]])
    /\ UNCHANGED raced

Free(e) == FreeRead(e) \/ FreeWrite(e) \/ FreeDispose(e)

-----------------------------------------------------------------------------
AllocTypeOK ==
    /\ bits \in [Sets -> SUBSET Bits]
    /\ eventSets \in Seq(Sets)
    /\ home \in [Events -> Sets \cup {NoSet}]
    /\ bitOf \in [Events -> Bits]
    /\ fpc \in [Events -> {"none", "live", "write", "dispose"}]
    /\ word \in [Events -> (SUBSET Bits) \cup {NoWord}]
    /\ raced \in BOOLEAN

\* The Events that still have their bit marked.
Holders(s) == {e \in Events : home[e] = s /\ fpc[e] \in {"live", "write"}}

\* While no bitset changes under an open free, no two Events share a bit of a
\* kernel event, and the bits marked as taken are exactly those of the Events:
\* none is handed out twice and none is lost (os/compacted_event_set.cxx:29-34
\* is the only access to bits without the scheduler lock).
BitsAreOwned ==
    ~raced => \A s \in Sets :
        /\ bits[s] = {bitOf[e] : e \in Holders(s)}
        /\ \A e, f \in Holders(s) : bitOf[e] = bitOf[f] => e = f

\* Under the same condition the list names each living set once and no dead one,
\* so that a set with a free bit is always found (os/event_allocator.cxx:12-23,
\* 27-35).
ListNamesLivingSets ==
    ~raced =>
        /\ {eventSets[i] : i \in 1 .. Len(eventSets)} = {s \in Sets : Alive(s)}
        /\ \A i, k \in 1 .. Len(eventSets) : eventSets[i] = eventSets[k] => i = k
=============================================================================
