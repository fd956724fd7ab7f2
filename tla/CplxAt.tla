------------------------------- MODULE CplxAt -------------------------------
(***************************************************************************)
(* The components of a modem (net/cplx_at.hxx, net/cplx_at_base.hxx,       *)
(* net/at_comp.hxx, net/at_comp_base.cxx): make creates a component, adds  *)
(* its URCs to the AT client the first time its type is made, and lists it *)
(* in the static table comps through a weak pointer, where the URC handler *)
(* of the parser thread looks it up.  No lock protects the table, so that  *)
(* another thread may do anything between two accesses of the walk to it:  *)
(* each access is a step.  There is one client.                            *)
(***************************************************************************)
EXTENDS Integers, FiniteSets, SequencesExt

CONSTANTS
    Makers,    \* the threads that call make
    Types,     \* the component types: Basic, Http, MqttFactory
    Silent,    \* the types without URCs, whose onUrcBuild throws
    Nobody,    \* no type is wanted
    MaxMade    \* bound: components ever made

ASSUME CplxAssumption ==
    /\ Silent \subseteq Types
    /\ Nobody \notin Types
    /\ MaxMade \in Nat

VARIABLES
    typ,      \* typ[n]: the type of the n-th component made
    mine,     \* mine[t]: the component whose shared_ptr t has from make, or 0
    curr,     \* curr[t]: the component that currComp of t keeps alive, or 0
    comps,    \* comps[atClient]: the components of its weak pointers
    inited,   \* the types whose static flag in clsInited is set
    table,    \* the types whose URCs were added to the client
    pc,       \* pc[t]: where t is in make; "holding" after it has returned
    want,     \* want[t]: the type that t makes
    it,       \* it[t]: the component at the iterator of t, 0 for end()
    overlap,  \* history: one thread has entered make while another was inside
    died,     \* history: a component died while another thread walked the table
    wild,     \* history: a thread used an iterator to an erased node
    null      \* history: a thread has taken the type of a null currComp

made == <<typ, mine, inited, table>>
walk == <<it, curr, wild, null>>
vars == <<made, walk, comps, pc, want, overlap, died>>

Init ==
    /\ typ = <<>>
    /\ mine = [t \in Makers |-> 0]
    /\ curr = [t \in Makers |-> 0]
    /\ comps = <<>>
    /\ inited = {}
    /\ table = <<>>
    /\ pc = [t \in Makers |-> "idle"]
    /\ want = [t \in Makers |-> Nobody]
    /\ it = [t \in Makers |-> 0]
    /\ overlap = FALSE
    /\ died = FALSE
    /\ wild = FALSE
    /\ null = FALSE

\* The components that a shared_ptr keeps alive: the weak pointers of the others
\* have expired.
Live == ({mine[t] : t \in Makers} \cup {curr[t] : t \in Makers}) \ {0}

InMake(t) == pc[t] \notin {"idle", "holding"}

Walks(t) == pc[t] \in {"scan", "erase", "lock", "compare", "release"}

At(t, place) == pc' = [pc EXCEPT ![t] = place]

\* What t has let go of in this step may have been the last reference.
LetGo(t) == died' = (died \/ (Live' # Live /\ \E u \in Makers \ {t} : Walks(u)))

-----------------------------------------------------------------------------
\* make: comps[atClient].begin().
MakeBegin(t, T) ==
    /\ pc[t] = "idle"
    /\ Len(typ) < MaxMade
    /\ At(t, "scan")
    /\ want' = [want EXCEPT ![t] = T]
    /\ it' = [it EXCEPT ![t] = IF comps = <<>> THEN 0 ELSE Head(comps)]
    /\ overlap' = (overlap \/ \E u \in Makers \ {t} : InMake(u))
    /\ UNCHANGED <<made, comps, curr, died, wild, null>>

\* The component after component c in the list, or 0.
After(c) ==
    LET later == {k \in 2 .. Len(comps) : comps[k - 1] = c}
    IN  IF later = {} THEN 0 ELSE comps[CHOOSE k \in later : TRUE]

InList(c) == \E k \in 1 .. Len(comps) : comps[k] = c

\* Mutant: an expired entry is not recognised.
ScanUnchecked(t) ==
    /\ pc[t] = "scan"
    /\ InList(it[t])
    /\ At(t, "lock")
    /\ UNCHANGED <<made, walk, comps, want, overlap, died>>

\* make: it->expired().
ScanExpired(t) ==
    /\ pc[t] = "scan"
    /\ InList(it[t])
    /\ At(t, IF it[t] \in Live THEN "lock" ELSE "erase")
    /\ UNCHANGED <<made, walk, comps, want, overlap, died>>

\* make: the expired entry is erased.
ScanErase(t) ==
    /\ pc[t] = "erase"
    /\ At(t, "scan")
    /\ it' = [it EXCEPT ![t] = After(it[t])]
    /\ \E k \in 1 .. Len(comps) : comps[k] = it[t] /\ comps' = RemoveAt(comps, k)
    /\ UNCHANGED <<made, want, curr, overlap, died, wild, null>>

\* make: it->lock(), which gives null if the component has died since expired().
ScanLock(t) ==
    /\ pc[t] = "lock"
    /\ InList(it[t])
    /\ At(t, "compare")
    /\ curr' = [curr EXCEPT ![t] = IF it[t] \in Live THEN it[t] ELSE 0]
    /\ UNCHANGED <<made, comps, want, it, overlap, died, wild, null>>

\* make: typeid(*currComp) == typeid(Comp), of a null currComp either way at random.
\* AtCompError is thrown, the unwinding destroys currComp.
ScanThrow(t) ==
    /\ pc[t] = "compare"
    /\ curr[t] # 0 => typ[curr[t]] = want[t]
    /\ At(t, "idle")
    /\ null' = (null \/ curr[t] = 0)
    /\ curr' = [curr EXCEPT ![t] = 0]
    /\ it' = [it EXCEPT ![t] = 0]
    /\ want' = [want EXCEPT ![t] = Nobody]
    /\ UNCHANGED <<made, comps, overlap, wild>>
    /\ LetGo(t)

\* Mutant: only the last entry's type is compared.
ScanNextUnlessLast(t) ==
    /\ pc[t] = "compare"
    /\ curr[t] # 0 /\ After(it[t]) = 0 => typ[curr[t]] # want[t]
    /\ At(t, "release")
    /\ it' = [it EXCEPT ![t] = After(it[t])]
    /\ wild' = (wild \/ ~InList(it[t]))
    /\ null' = (null \/ curr[t] = 0)
    /\ UNCHANGED <<made, comps, want, curr, overlap, died>>

\* make: of another type, ++it.
ScanNext(t) ==
    /\ pc[t] = "compare"
    /\ curr[t] # 0 => typ[curr[t]] # want[t]
    /\ At(t, "release")
    /\ it' = [it EXCEPT ![t] = After(it[t])]
    /\ wild' = (wild \/ ~InList(it[t]))
    /\ null' = (null \/ curr[t] = 0)
    /\ UNCHANGED <<made, comps, want, curr, overlap, died>>

\* make: the body of the loop ends, currComp is destroyed.
Release(t) ==
    /\ pc[t] = "release"
    /\ At(t, "scan")
    /\ curr' = [curr EXCEPT ![t] = 0]
    /\ UNCHANGED <<made, comps, want, it, overlap, wild, null>>
    /\ LetGo(t)

\* make: the node at the iterator was erased by another thread.  What the freed
\* node tells is not followed: the walk ends.
ScanWild(t) ==
    /\ pc[t] \in {"scan", "erase", "lock"}
    /\ it[t] # 0
    /\ ~InList(it[t])
    /\ wild' = TRUE
    /\ it' = [it EXCEPT ![t] = 0]
    /\ At(t, "scan")
    /\ UNCHANGED <<made, comps, want, curr, overlap, died, null>>

\* make: new Comp(...).
Construct(t) ==
    /\ pc[t] = "scan"
    /\ it[t] = 0
    /\ typ' = Append(typ, want[t])
    /\ mine' = [mine EXCEPT ![t] = Len(typ) + 1]
    /\ At(t, "init")
    /\ UNCHANGED <<walk, comps, inited, table, want, overlap, died>>

\* init: clsInited() reads the static flag of the type.
ClsInited(t) ==
    /\ pc[t] = "init"
    /\ At(t, IF want[t] \in inited THEN "push" ELSE "set")
    /\ UNCHANGED <<made, walk, comps, want, overlap, died>>

\* Mutant: the flag is not set.
SetForgotten(t) ==
    /\ pc[t] = "set"
    /\ At(t, "urc")
    /\ UNCHANGED <<made, walk, comps, want, overlap, died>>

\* clsInited: inited = true.
SetInited(t) ==
    /\ pc[t] = "set"
    /\ inited' = inited \cup {want[t]}
    /\ At(t, "urc")
    /\ UNCHANGED <<walk, typ, mine, comps, table, want, overlap, died>>

\* init: at->addUrc(onUrcInit()); an exception of onUrcInit is swallowed.
AddUrc(t) ==
    /\ pc[t] = "urc"
    /\ table' = IF want[t] \in Silent THEN table ELSE Append(table, want[t])
    /\ At(t, "push")
    /\ UNCHANGED <<walk, typ, mine, comps, inited, want, overlap, died>>

\* make: compsInThis.push_back(comp), and make returns.
Push(t) ==
    /\ pc[t] = "push"
    /\ comps' = Append(comps, mine[t])
    /\ At(t, "holding")
    /\ UNCHANGED <<made, walk, want, overlap, died>>

\* The caller drops its reference.
Drop(t) ==
    /\ pc[t] = "holding"
    /\ mine' = [mine EXCEPT ![t] = 0]
    /\ want' = [want EXCEPT ![t] = Nobody]
    /\ At(t, "idle")
    /\ UNCHANGED <<walk, typ, comps, inited, table, overlap>>
    /\ LetGo(t)

-----------------------------------------------------------------------------
Make(t) ==
    \/ \E T \in Types : MakeBegin(t, T)
    \/ ScanExpired(t) \/ ScanErase(t) \/ ScanLock(t) \/ ScanThrow(t) \/ ScanNext(t)
    \/ Release(t) \/ ScanWild(t) \/ Construct(t)
    \/ ClsInited(t) \/ SetInited(t) \/ AddUrc(t) \/ Push(t)

Next == \E t \in Makers : Make(t) \/ Drop(t)

Spec == Init /\ [][Next]_vars

\* getCompFromUrc<T>, on the parser thread, which runs ahead of every maker: the
\* first living component of type T in the list, or 0.
FromUrc(T) ==
    LET found == {k \in 1 .. Len(comps) : comps[k] \in Live /\ typ[comps[k]] = T}
    IN  IF found = {} THEN 0
        ELSE comps[CHOOSE k \in found : \A h \in found : k <= h]

-----------------------------------------------------------------------------
Comp == 1 .. Len(typ)

TypeOK ==
    /\ typ \in Seq(Types) /\ Len(typ) <= MaxMade + Cardinality(Makers)
    /\ comps \in Seq(Comp)
    /\ inited \subseteq Types
    /\ table \in Seq(Types \ Silent)
    /\ pc \in [Makers -> {"idle", "scan", "erase", "lock", "compare", "release",
                           "init", "set", "urc", "push", "holding"}]
    /\ want \in [Makers -> Types \cup {Nobody}]
    /\ it \in [Makers -> Comp \cup {0}]
    /\ mine \in [Makers -> Comp \cup {0}]
    /\ curr \in [Makers -> Comp \cup {0}]
    /\ {overlap, died, wild, null} \subseteq BOOLEAN

\* There is never more than one component of a type (net/at_comp.hxx:10).
OneInstance == \A c, d \in Live : typ[c] = typ[d] => c = d

\* The walk of make goes wrong in two ways only: an iterator outlives its node when
\* two threads are inside make together, and currComp is null when a component
\* died during the walk of another thread, between its expired() and its lock()
\* (net/cplx_at.hxx:15-21).  The second needs no second thread in make.
WalkNeedsQuiet == (wild => overlap) /\ (null => died)

\* As long as no two threads are inside make together, whatever was made, dropped
\* and made again before, and though a component may die during the walk: the walk
\* finds the living component of the type, erasing expired entries does not make
\* it skip one, and the component that make has returned is the one the URC
\* handler finds (net/cplx_at.hxx:13-29, net/cplx_at_base.hxx:20-27).
OneInstancePerTurn ==
    ~overlap =>
        /\ OneInstance
        /\ \A t \in Makers : pc[t] = "holding" => FromUrc(want[t]) = mine[t]

\* Under the same condition the URCs of a type are in the client's table once
\* and for all when the first component of the type is returned, and no second
\* time when another is made later (net/at_comp.hxx:21-28).
UrcsAddedOnce ==
    ~overlap =>
        /\ \A t \in Makers : pc[t] = "holding" /\ want[t] \notin Silent =>
              \E k \in 1 .. Len(table) : table[k] = want[t]
        /\ \A h, k \in 1 .. Len(table) : table[h] = table[k] => h = k
=============================================================================
