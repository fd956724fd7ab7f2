----------------------------- MODULE Http_proofs -----------------------------
(***************************************************************************)
(* Proofs about Http, for any threads, slots and numbers of sends and of   *)
(* lines, and a modem that is late, forgets commands or is reset at any    *)
(* time.                                                                   *)
(***************************************************************************)
EXTENDS Http, SequenceTheorems, TLAPS

-----------------------------------------------------------------------------
(* The invariant *)

\* t is inside send, and has not met the terminate handler.
Active(t) == pc[t] \notin {"idle", "terminated"}

\* The modem has made the instance of t's Flow, which is not yet dropped.
Settled(t) == Holding(t) \/ (pc[t] = "creating" /\ obeyed[t])

\* The first n lines of the answer to t's request, and those after them.
First(t, n) == [k \in 1 .. n |-> <<Flow(t), k>>]
After(t, n) == [k \in 1 .. Lines - n |-> <<Flow(t), n + k>>]

\* Only the present Flow of a thread is alive.
AliveIsNow == \A f \in alive : \E t \in Callers : f = Flow(t)

\* A slot holds a Flow that was assigned to it, and the present Flow of a thread
\* is in the slot of that thread.
SlotsArePast ==
    \A s \in Slots, t \in Callers, n \in Nat :
        slots[s] = <<t, n>> =>
            /\ n <= sends[t]
            /\ n = sends[t] => /\ mySlot[t] = s
                               /\ pc[t] \notin {"create", "creating", "assign"}

\* A command was given by a Flow that has begun; the modem obeys a thread that
\* executes a command.
CmdsArePast ==
    /\ \A k \in DOMAIN cmds, t \in Callers, n \in Nat :
           cmds[k].flow = <<t, n>> =>
               /\ n <= sends[t]
               /\ n = sends[t] => pc[t] # "create" /\ cmds[k].slot = mySlot[t]
    /\ \A t \in Callers : obeyed[t] => pc[t] \in {Busy[op] : op \in Ops}

\* A thread without a Flow has no lines, and one that sleeps has no bit.
NothingYet ==
    /\ \A t \in Callers : ~Holding(t) => response[t] = <<>>
    /\ \A t \in Callers : pc[t] = "asleep" => mySlot[t] \notin events
    /\ \A t \in Callers : pc[t] \in {"drop", "terminated"} => failed
    /\ \A t \in Callers : pc[t] \in {"destroy", "destroying"} => ~tidy[t]

\* One thread at a time uses a slot, and the slot holds its Flow.
OneUser ==
    /\ \A t, u \in Callers :
           Active(t) /\ Active(u) /\ mySlot[t] = mySlot[u] => t = u
    /\ \A t \in Callers :
           Holding(t) /\ pc[t] # "assign" => slots[mySlot[t]] = Flow(t)

\* Nothing comes behind the command that makes t's instance.
CreateIsLast ==
    \A t \in Callers : pc[t] = "creating" =>
        \A k \in DOMAIN cmds : cmds[k].flow = Flow(t) =>
            /\ cmds[k].op = "create"
            /\ \A l \in DOMAIN cmds : l > k => cmds[l].slot # mySlot[t]

Asking == {"requesting", "wait", "asleep", "got", "drop"}

\* What the modem has yet to do on the slot of a settled t is what t has asked for.
CmdsAreOwn(t) ==
    /\ \A k \in DOMAIN cmds : cmds[k].slot = mySlot[t] =>
           /\ cmds[k].op \in {"connect", "request"}
           /\ cmds[k].flow = Flow(t)
           /\ cmds[k].op = "request" => pc[t] \in Asking
    /\ \A k, l \in DOMAIN cmds :
           /\ cmds[k].slot = mySlot[t] /\ cmds[k].op = "request"
           /\ cmds[l].slot = mySlot[t] /\ cmds[l].op = "request"
           => k = l

\* The answer is still to be asked for, or to be made.
Awaited(t) ==
    \/ pc[t] \notin Asking
    \/ \E k \in DOMAIN cmds : cmds[k].slot = mySlot[t] /\ cmds[k].op = "request"

\* What has come and what is to come make up the answer, or its rest is lost.
AnswerIsOwn(t) ==
    /\ \E n \in 0 .. Lines : /\ response[t] = First(t, n)
                             /\ out[mySlot[t]] \in {<<>>, After(t, n)}
    /\ Awaited(t) => response[t] = <<>> /\ out[mySlot[t]] = <<>>

\* A bit that was clear when t began is set by the last line of t's answer.
BitIsOwn(t) ==
    /\ Active(t) /\ tidy[t] /\ mySlot[t] \in events => response[t] = First(t, Lines)
    /\ pc[t] = "got" /\ tidy[t] =>
           response[t] = First(t, Lines) /\ mySlot[t] \notin events

KeptFor(t) == (Settled(t) => CmdsAreOwn(t) /\ AnswerIsOwn(t)) /\ BitIsOwn(t)

Kept == \A t \in Callers : KeptFor(t)

AllTidy ==
    /\ \A t \in Callers :
           Active(t) /\ pc[t] \notin {"destroy", "destroying"} => tidy[t]
    /\ \A s \in events : \E t \in Callers : Holding(t) /\ mySlot[t] = s

IInv ==
    /\ TypeOK /\ AliveIsNow /\ SlotsArePast /\ CmdsArePast /\ NothingYet
    /\ ~crossed => OneUser /\ CreateIsLast
    /\ ~crossed /\ ~wrongOk => Kept
    /\ ~crossed /\ ~wrongOk /\ ~failed => AllTidy

-----------------------------------------------------------------------------
(* Places *)

\* What the tables of the places say.
LEMMA OpFacts ==
  /\ Busy["create"] = "creating" /\ Busy["connect"] = "connecting"
  /\ Busy["request"] = "requesting" /\ Busy["destroy"] = "destroying"
  /\ Then["create"] = "assign" /\ Then["connect"] = "request"
  /\ Then["request"] = "wait" /\ Then["destroy"] = "idle"
  /\ Else["create"] = "idle" /\ Else["connect"] = "drop"
  /\ Else["request"] = "drop" /\ Else["destroy"] = "terminated"
  BY DEF Busy, Then, Else

\* The places, one by one.
LEMMA PlaceFacts ==
  /\ {Busy[op] : op \in Ops} = {"creating", "connecting", "requesting", "destroying"}
  /\ Places = {"idle", "create", "creating", "assign", "connect", "connecting",
               "request", "requesting", "wait", "asleep", "got", "drop", "destroy",
               "destroying", "terminated"}
  /\ \A p : (\E op \in Ops : p = Busy[op]) <=>
            p \in {"creating", "connecting", "requesting", "destroying"}
  <1>1. {Busy[op] : op \in Ops} = {"creating", "connecting", "requesting", "destroying"}
    BY OpFacts DEF Ops
  <1>2. \A p : (\E op \in Ops : p = Busy[op]) <=> p \in {Busy[op] : op \in Ops}
    OBVIOUS
  <1>3. Places = {"idle", "create", "creating", "assign", "connect", "connecting",
                  "request", "requesting", "wait", "asleep", "got", "drop", "destroy",
                  "destroying", "terminated"}
    BY <1>1 DEF Ops, Places
  <1> QED
    BY <1>1, <1>2, <1>3

\* A command, told apart by what it is.
LEMMA BeginCases ==
  ASSUME NEW t \in Callers, ExecBegin(t), pc \in [Callers -> Places]
  PROVE  \/ pc[t] = "create" /\ pc' = [pc EXCEPT ![t] = "creating"]
         \/ pc[t] = "connect" /\ pc' = [pc EXCEPT ![t] = "connecting"]
         \/ pc[t] = "request" /\ pc' = [pc EXCEPT ![t] = "requesting"]
         \/ pc[t] = "destroy" /\ pc' = [pc EXCEPT ![t] = "destroying"]
  <1>1. pc' = [pc EXCEPT ![t] = Busy[pc[t]]]
    BY DEF ExecBegin, Goto
  <1>2. pc[t] \in {"create", "connect", "request", "destroy"}
    BY DEF ExecBegin, Ops
  <1>3. CASE pc[t] = "create"
    BY <1>1, <1>3, OpFacts
  <1>4. CASE pc[t] = "connect"
    BY <1>1, <1>4, OpFacts
  <1>5. CASE pc[t] = "request"
    BY <1>1, <1>5, OpFacts
  <1>6. CASE pc[t] = "destroy"
    BY <1>1, <1>6, OpFacts
  <1> QED
    BY <1>2, <1>3, <1>4, <1>5, <1>6

LEMMA OkCases ==
  ASSUME NEW t \in Callers, ExecOk(t)
  PROVE  /\ \/ /\ pc[t] = "creating" /\ pc' = [pc EXCEPT ![t] = "assign"]
               /\ alive' = alive \cup {Flow(t)}
            \/ /\ pc[t] = "connecting" /\ pc' = [pc EXCEPT ![t] = "request"]
               /\ alive' = alive
            \/ /\ pc[t] = "requesting" /\ pc' = [pc EXCEPT ![t] = "wait"]
               /\ alive' = alive
            \/ /\ pc[t] = "destroying" /\ pc' = [pc EXCEPT ![t] = "idle"]
               /\ alive' = alive
         /\ lock' = NoFlow
         /\ wrongOk' = (wrongOk \/ ~obeyed[t])
         /\ obeyed' = [obeyed EXCEPT ![t] = FALSE]
         /\ UNCHANGED <<sends, mySlot, slots, response, events, cmds, out, crossed,
                        failed, tidy>>
  <1>1. PICK op \in Ops : /\ pc[t] = Busy[op] /\ lock' = NoFlow
                           /\ Goto(t, Then[op])
                           /\ alive' = (IF op = "create" THEN alive \cup {Flow(t)}
                                                        ELSE alive)
                           /\ wrongOk' = (wrongOk \/ ~obeyed[t])
                           /\ obeyed' = [obeyed EXCEPT ![t] = FALSE]
                           /\ UNCHANGED <<sends, mySlot, slots, response, events,
                                          modem, crossed, failed, tidy>>
    BY DEF ExecOk
  <1>2. op \in {"create", "connect", "request", "destroy"}
    BY DEF Ops
  <1>3. CASE op = "create"
    BY <1>1, <1>3, OpFacts DEF Goto, modem
  <1>4. CASE op = "connect"
    BY <1>1, <1>4, OpFacts DEF Goto, modem
  <1>5. CASE op = "request"
    BY <1>1, <1>5, OpFacts DEF Goto, modem
  <1>6. CASE op = "destroy"
    BY <1>1, <1>6, OpFacts DEF Goto, modem
  <1> QED
    BY <1>2, <1>3, <1>4, <1>5, <1>6

LEMMA FailCases ==
  ASSUME NEW t \in Callers, ExecFail(t)
  PROVE  /\ \/ pc[t] = "creating" /\ pc' = [pc EXCEPT ![t] = "idle"]
            \/ pc[t] = "connecting" /\ pc' = [pc EXCEPT ![t] = "drop"]
            \/ pc[t] = "requesting" /\ pc' = [pc EXCEPT ![t] = "drop"]
            \/ pc[t] = "destroying" /\ pc' = [pc EXCEPT ![t] = "terminated"]
         /\ lock' = NoFlow /\ failed' = TRUE
         /\ obeyed' = [obeyed EXCEPT ![t] = FALSE]
         /\ UNCHANGED <<sends, mySlot, slots, alive, response, events, cmds, out,
                        crossed, wrongOk, tidy>>
  <1>1. PICK op \in Ops : /\ pc[t] = Busy[op] /\ lock' = NoFlow
                           /\ Goto(t, Else[op])
                           /\ failed' = TRUE
                           /\ obeyed' = [obeyed EXCEPT ![t] = FALSE]
                           /\ UNCHANGED <<sends, mySlot, object, modem, crossed,
                                          wrongOk, tidy>>
    BY DEF ExecFail
  <1>2. op \in {"create", "connect", "request", "destroy"}
    BY DEF Ops
  <1>3. CASE op = "create"
    BY <1>1, <1>3, OpFacts DEF Goto, modem, object
  <1>4. CASE op = "connect"
    BY <1>1, <1>4, OpFacts DEF Goto, modem, object
  <1>5. CASE op = "request"
    BY <1>1, <1>5, OpFacts DEF Goto, modem, object
  <1>6. CASE op = "destroy"
    BY <1>1, <1>6, OpFacts DEF Goto, modem, object
  <1> QED
    BY <1>2, <1>3, <1>4, <1>5, <1>6

\* TypeOK with the places spelled out.
LEMMA Typed ==
  ASSUME TypeOK
  PROVE  /\ pc \in [Callers -> Places]
         /\ sends \in [Callers -> Nat] /\ mySlot \in [Callers -> Slots]
         /\ \A t \in Callers : lock = t <=> pc[t] \in
                {"creating", "connecting", "requesting", "destroying"}
         /\ \A t \in Callers : Holding(t) <=> pc[t] \in
                {"assign", "connect", "connecting", "request", "requesting", "wait",
                 "asleep", "got", "drop"}
  <1>1. pc \in [Callers -> Places]
    BY DEF TypeOK
  <1>2. \A t \in Callers : pc[t] \in Places
    BY <1>1
  <1> QED
    BY <1>1, <1>2, PlaceFacts DEF TypeOK, Holding

-----------------------------------------------------------------------------
(* Types *)

Held == {"assign", "connect", "connecting", "request", "requesting", "wait",
         "asleep", "got", "drop"}

Locking == {"creating", "connecting", "requesting", "destroying"}

\* TypeOK without its last two conjuncts, and those two with the places spelled out.
Types ==
    /\ pc \in [Callers -> Places]
    /\ sends \in [Callers -> Nat]
    /\ mySlot \in [Callers -> Slots]
    /\ lock \in Callers \cup {NoFlow}
    /\ slots \in [Slots -> Flows \cup {NoFlow}]
    /\ alive \subseteq Flows
    /\ response \in [Callers -> Seq(Line)]
    /\ events \subseteq Slots
    /\ cmds \in Seq([op : Ops, slot : Slots, flow : Flows])
    /\ out \in [Slots -> Seq(Line)]
    /\ obeyed \in [Callers -> BOOLEAN]
    /\ crossed \in BOOLEAN /\ wrongOk \in BOOLEAN /\ failed \in BOOLEAN
    /\ tidy \in [Callers -> BOOLEAN]

Locked == \A t \in Callers : lock = t <=> pc[t] \in Locking

Living == \A t \in Callers : Flow(t) \in alive <=> pc[t] \in Held

LEMMA TypeSplit == TypeOK <=> Types /\ Locked /\ Living
  <1>1. Types => \A t \in Callers : pc[t] \in Places
    BY DEF Types
  <1>2. Types => (Living <=> \A t \in Callers : Flow(t) \in alive <=> pc[t] \notin
           {"idle", "create", "creating", "destroy", "destroying", "terminated"})
    BY <1>1, PlaceFacts DEF Living, Held
  <1>3. Locked <=> \A t \in Callers : lock = t <=> \E op \in Ops : pc[t] = Busy[op]
    BY PlaceFacts DEF Locked, Locking
  <1> QED
    BY <1>2, <1>3 DEF TypeOK, Types

\* The lock of a step that a thread takes on its own.
LEMMA LockMoves ==
  ASSUME Types, Locked, NEW t \in Callers, NEW p,
         pc' = [pc EXCEPT ![t] = p],
         \/ p \in Locking /\ lock = NoFlow /\ lock' = t
         \/ p \notin Locking /\ pc[t] \in Locking /\ lock' = NoFlow
         \/ p \notin Locking /\ pc[t] \notin Locking /\ lock' = lock
  PROVE  Locked'
  <1>1. \A u \in Callers : pc'[u] = IF u = t THEN p ELSE pc[u]
    BY DEF Types
  <1> QED
    BY <1>1, HttpAssumption DEF Locked, Types

\* The place of one thread moves.
LEMMA PlaceMoves ==
  ASSUME Types, NEW t \in Callers, NEW p \in Places, pc' = [pc EXCEPT ![t] = p]
  PROVE  /\ pc' \in [Callers -> Places]
         /\ \A u \in Callers : pc'[u] = IF u = t THEN p ELSE pc[u]
  BY DEF Types

\* And with it, perhaps, its Flow begins or ceases to live.
LEMMA LivingMoves ==
  ASSUME Types, Living, NEW t \in Callers, NEW p \in Places, pc' = [pc EXCEPT ![t] = p],
         \A u \in Callers : u # t => (Flow(u)' \in alive' <=> Flow(u) \in alive),
         Flow(t)' \in alive' <=> p \in Held
  PROVE  Living'
  <1>1. SUFFICES ASSUME NEW u \in Callers
                 PROVE  Flow(u)' \in alive' <=> pc'[u] \in Held
    BY DEF Living
  <1>2. pc'[u] = IF u = t THEN p ELSE pc[u]
    BY PlaceMoves
  <1> QED
    BY <1>2 DEF Living

\* Flows of two threads differ.
LEMMA FlowType ==
  ASSUME Types, NEW t \in Callers
  PROVE  Flow(t) \in Flows /\ \A u \in Callers : Flow(t) = Flow(u) => t = u
  BY DEF Types, Flow, Flows

\* The parts of an answer are lines.
LEMMA AnswerType ==
  ASSUME Types, NEW t \in Callers, NEW n \in 0 .. Lines
  PROVE  First(t, n) \in Seq(Line) /\ After(t, n) \in Seq(Line)
  <1>1. Flow(t) \in Flows /\ Lines \in Nat /\ n \in Nat /\ Lines - n \in Nat
    BY FlowType, HttpAssumption
  <1>2. \A k \in 1 .. n : <<Flow(t), k>> \in Line
    BY <1>1 DEF Line
  <1>3. \A k \in 1 .. Lines - n : <<Flow(t), n + k>> \in Line
    BY <1>1 DEF Line
  <1> QED
    BY <1>1, <1>2, <1>3, IsASeq DEF First, After

\* A new Flow of a thread is not alive.
LEMMA NextFlow ==
  ASSUME Types, AliveIsNow, NEW t \in Callers, sends' = [sends EXCEPT ![t] = @ + 1]
  PROVE  /\ sends' \in [Callers -> Nat]
         /\ Flow(t)' = <<t, sends[t] + 1>> /\ Flow(t)' \notin alive
         /\ \A u \in Callers : u # t => Flow(u)' = Flow(u)
         /\ pc[t] \notin Held /\ Living /\ alive' = alive => AliveIsNow'
  <1>1. sends' \in [Callers -> Nat] /\ sends'[t] = sends[t] + 1
        /\ \A u \in Callers : u # t => sends'[u] = sends[u]
    BY DEF Types
  <1>2. \A u \in Callers : Flow(u) # <<t, sends[t] + 1>>
    BY DEF Types, Flow
  <1>3. pc[t] \notin Held /\ Living /\ alive' = alive => AliveIsNow'
    BY <1>1 DEF AliveIsNow, Living, Flow
  <1> QED
    BY <1>1, <1>2, <1>3 DEF AliveIsNow, Flow

\* A call of send begins, or finds the slots exhausted.
LEMMA BeginTypes ==
  ASSUME Types, Locked, Living, AliveIsNow, NEW t \in Callers, Begin(t)
  PROVE  Types' /\ Locked' /\ Living' /\ AliveIsNow'
  <1>1. CASE Exhausted(t)
    <2> USE <1>1 DEF Exhausted, object, modem, history
    <2>1. Types'
      BY NextFlow DEF Types
    <2>2. Locked'
      BY DEF Locked
    <2>3. pc[t] \notin Held
      BY DEF Held
    <2>4. Living' /\ AliveIsNow'
      BY <2>3, NextFlow DEF Living
    <2> QED
      BY <2>1, <2>2, <2>4
  <1>2. ASSUME NEW s \in Slots, GetNext(t, s)
        PROVE  Types' /\ Locked' /\ Living' /\ AliveIsNow'
    <2> USE <1>2 DEF GetNext, Goto, object, modem
    <2>0. "create" \in Places /\ "create" \notin Locking /\ "create" \notin Held
          /\ pc[t] \notin Held /\ pc[t] \notin Locking
      BY PlaceFacts DEF Locking, Held
    <2>1. Types'
      <3>1. pc' \in [Callers -> Places] /\ sends' \in [Callers -> Nat]
        BY <2>0, PlaceMoves, NextFlow
      <3>2. mySlot' \in [Callers -> Slots] /\ tidy' \in [Callers -> BOOLEAN]
            /\ crossed' \in BOOLEAN
        BY DEF Types, InTransit
      <3> QED
        BY <3>1, <3>2 DEF Types
    <2>2. Locked'
      BY <2>0, LockMoves
    <2>3. AliveIsNow'
      BY <2>0, NextFlow
    <2>4. Living'
      <3>1. \A u \in Callers : u # t => (Flow(u)' \in alive' <=> Flow(u) \in alive)
        BY NextFlow
      <3>2. ~(Flow(t)' \in alive')
        BY NextFlow
      <3> QED
        BY <2>0, <3>1, <3>2, LivingMoves
    <2> QED
      BY <2>1, <2>2, <2>3, <2>4
  <1> QED
    BY <1>1, <1>2 DEF Begin

\* The steps of a caller that give no command and end none.
LEMMA OwnTypes ==
  ASSUME Types, Locked, Living, AliveIsNow, NEW t \in Callers,
         Assign(t) \/ Wait(t) \/ WaitTimeout(t) \/ DropFlow(t)
  PROVE  Types' /\ Locked' /\ Living' /\ AliveIsNow'
  <1>0. sends' = sends /\ \A u \in Callers : Flow(u)' = Flow(u)
    BY DEF Assign, Wait, WaitTimeout, DropFlow, Flow
  <1>1. CASE Assign(t)
    <2> USE <1>1 DEF Assign, Goto, modem, history
    <2>0. "connect" \in Places /\ "connect" \notin Locking /\ "connect" \in Held
          /\ pc[t] \in Held /\ pc[t] \notin Locking
      BY PlaceFacts DEF Locking, Held
    <2>1. slots' \in [Slots -> Flows \cup {NoFlow}]
      BY FlowType DEF Types
    <2>2. Types'
      BY <2>0, <2>1, PlaceMoves DEF Types
    <2>3. Locked'
      BY <2>0, LockMoves
    <2>4. Living' /\ AliveIsNow'
      BY <1>0, <2>0, PlaceMoves DEF Living, AliveIsNow
    <2> QED
      BY <2>2, <2>3, <2>4
  <1>2. CASE Wait(t)
    <2> USE <1>2 DEF Wait, Goto, modem, history
    <2> DEFINE p == IF mySlot[t] \in events THEN "got" ELSE "asleep"
    <2>0. p \in Places /\ p \notin Locking /\ p \in Held
          /\ pc[t] \in Held /\ pc[t] \notin Locking /\ pc' = [pc EXCEPT ![t] = p]
      BY PlaceFacts DEF Locking, Held
    <2> HIDE DEF p
    <2>1. Types'
      BY <2>0, PlaceMoves DEF Types
    <2>2. Locked'
      BY <2>0, LockMoves
    <2>3. Living' /\ AliveIsNow'
      BY <1>0, <2>0, PlaceMoves DEF Living, AliveIsNow
    <2> QED
      BY <2>1, <2>2, <2>3
  <1>3. CASE WaitTimeout(t)
    <2> USE <1>3 DEF WaitTimeout, Goto, modem, object
    <2>0. "drop" \in Places /\ "drop" \notin Locking /\ "drop" \in Held
          /\ pc[t] \in Held /\ pc[t] \notin Locking
      BY PlaceFacts DEF Locking, Held
    <2>1. Types'
      BY <2>0, PlaceMoves DEF Types
    <2>2. Locked'
      BY <2>0, LockMoves
    <2>3. Living' /\ AliveIsNow'
      BY <1>0, <2>0, PlaceMoves DEF Living, AliveIsNow
    <2> QED
      BY <2>1, <2>2, <2>3
  <1>4. CASE DropFlow(t)
    <2> USE <1>4 DEF DropFlow, Goto, modem
    <2>0. "destroy" \in Places /\ "destroy" \notin Locking /\ "destroy" \notin Held
          /\ pc[t] \in Held /\ pc[t] \notin Locking
      BY PlaceFacts DEF Locking, Held
    <2>1. response' \in [Callers -> Seq(Line)] /\ tidy' \in [Callers -> BOOLEAN]
          /\ alive' \subseteq Flows
      BY EmptySeq DEF Types
    <2>2. Types'
      BY <2>0, <2>1, PlaceMoves DEF Types
    <2>3. Locked'
      BY <2>0, LockMoves
    <2>4. Living'
      <3>1. \A u \in Callers : u # t => (Flow(u)' \in alive' <=> Flow(u) \in alive)
        BY <1>0, FlowType
      <3>2. ~(Flow(t)' \in alive')
        BY <1>0
      <3> QED
        BY <2>0, <3>1, <3>2, LivingMoves
    <2>5. AliveIsNow'
      BY <1>0 DEF AliveIsNow
    <2> QED
      BY <2>2, <2>3, <2>4, <2>5
  <1> QED
    BY <1>1, <1>2, <1>3, <1>4

\* A command begins or ends.
LEMMA ExecTypes ==
  ASSUME Types, Locked, Living, AliveIsNow, NEW t \in Callers,
         ExecBegin(t) \/ ExecEnd(t)
  PROVE  Types' /\ Locked' /\ Living' /\ AliveIsNow'
  <1>0. sends' = sends /\ \A u \in Callers : Flow(u)' = Flow(u)
    BY OkCases, FailCases DEF ExecBegin, ExecEnd, Flow
  <1>1. CASE ExecBegin(t)
    <2>1. PICK p \in Locking : /\ p \in Places /\ pc' = [pc EXCEPT ![t] = p]
                               /\ pc[t] \in Held <=> p \in Held
      BY <1>1, BeginCases, PlaceFacts DEF Locking, Held, Types
    <2>2. cmds' \in Seq([op : Ops, slot : Slots, flow : Flows])
      <3> DEFINE c == [op |-> pc[t], slot |-> mySlot[t], flow |-> Flow(t)]
                 C == [op : Ops, slot : Slots, flow : Flows]
      <3>1. c \in C
        BY <1>1, FlowType DEF ExecBegin, Types
      <3>2. cmds' = cmds \/ cmds' = Append(cmds, c)
        BY <1>1 DEF ExecBegin
      <3>3. cmds \in Seq(C)
        BY DEF Types
      <3> HIDE DEF c, C
      <3>4. cmds' \in Seq(C)
        BY <3>1, <3>2, <3>3, AppendProperties
      <3> QED
        BY <3>4 DEF C
    <2>3. Types'
      BY <1>1, <2>1, <2>2, PlaceMoves DEF ExecBegin, Types, object, history
    <2>4. Locked'
      BY <1>1, <2>1, LockMoves DEF ExecBegin
    <2>5. Living' /\ AliveIsNow'
      BY <1>0, <1>1, <2>1, PlaceMoves DEF ExecBegin, Living, AliveIsNow, object
    <2> QED
      BY <2>3, <2>4, <2>5
  <1>2. CASE ExecOk(t)
    <2>0. pc[t] \in Locking
      BY <1>2, OkCases DEF Locking
    <2>1. PICK p \in Places : /\ p \notin Locking /\ pc' = [pc EXCEPT ![t] = p]
                              /\ Flow(t) \in alive' <=> p \in Held
                              /\ alive' \subseteq alive \cup {Flow(t)}
                              /\ alive \subseteq alive'
      <3>1. CASE pc[t] = "creating"
        BY <1>2, <3>1, OkCases, PlaceFacts DEF Locking, Held
      <3>2. CASE pc[t] # "creating"
        BY <1>2, <3>2, OkCases, PlaceFacts DEF Locking, Held, Living
      <3> QED
        BY <3>1, <3>2
    <2>2. Types'
      <3>1. pc' \in [Callers -> Places]
        BY <2>1, PlaceMoves
      <3>2. alive' \subseteq Flows
        BY <2>1, FlowType DEF Types
      <3>3. obeyed' \in [Callers -> BOOLEAN] /\ wrongOk' \in BOOLEAN
        BY <1>2, OkCases DEF Types
      <3> QED
        BY <1>2, <3>1, <3>2, <3>3, OkCases, HttpAssumption DEF Types
    <2>3. Locked'
      BY <1>2, <2>0, <2>1, OkCases, LockMoves
    <2>4. Living' /\ AliveIsNow'
      <3>1. \A u \in Callers : u # t => (Flow(u)' \in alive' <=> Flow(u) \in alive)
        BY <1>0, <2>1, FlowType
      <3>2. Living'
        BY <1>0, <2>1, <3>1, LivingMoves
      <3>3. AliveIsNow'
        BY <1>0, <2>1 DEF AliveIsNow
      <3> QED
        BY <3>2, <3>3
    <2> QED
      BY <2>2, <2>3, <2>4
  <1>3. CASE ExecFail(t)
    <2>0. pc[t] \in Locking
      BY <1>3, FailCases DEF Locking
    <2>1. PICK p \in Places : /\ p \notin Locking /\ pc' = [pc EXCEPT ![t] = p]
                              /\ pc[t] \in Held <=> p \in Held
      BY <1>3, FailCases, PlaceFacts DEF Locking, Held
    <2>2. Types'
      BY <1>3, <2>1, FailCases, PlaceMoves DEF Types
    <2>3. Locked'
      BY <1>3, <2>0, <2>1, FailCases, LockMoves
    <2>4. Living' /\ AliveIsNow'
      <3>1. alive' = alive
        BY <1>3, FailCases
      <3>2. Living'
        BY <1>0, <2>1, <3>1, LivingMoves DEF Living
      <3>3. AliveIsNow'
        BY <1>0, <3>1 DEF AliveIsNow
      <3> QED
        BY <3>2, <3>3
    <2> QED
      BY <2>2, <2>3, <2>4
  <1> QED
    BY <1>1, <1>2, <1>3 DEF ExecEnd

\* A line is dropped, or appended; and the last one wakes a thread or sets the bit.
LEMMA UrcCases ==
  ASSUME NEW s \in Slots, Urc(s)
  PROVE  /\ out[s] # <<>> /\ out' = [out EXCEPT ![s] = Tail(@)]
         /\ UNCHANGED <<sends, mySlot, lock, slots, alive, cmds, crossed, obeyed,
                        wrongOk, failed, tidy>>
         /\ \/ Expired(s) /\ UNCHANGED <<pc, response, events>>
            \/ ~Expired(s) /\ AppendBuf(s) /\ Len(out[s]) # 1 /\ UNCHANGED <<pc, events>>
            \/ ~Expired(s) /\ AppendBuf(s) /\ Len(out[s]) = 1 /\ SetDone(s)
  BY DEF Urc, OnResponseContent, history

\* It moves at most the threads asleep on its slot.
LEMMA UrcPlaces ==
  ASSUME Types, NEW s \in Slots, Urc(s)
  PROVE  /\ pc' \in [Callers -> Places]
         /\ \A t \in Callers : \/ pc'[t] = pc[t]
                               \/ /\ pc[t] = "asleep" /\ pc'[t] = "got"
                                  /\ mySlot[t] = s
  <1>1. pc' = pc \/ SetDone(s)
    BY UrcCases
  <1>2. CASE SetDone(s)
    BY <1>2, PlaceFacts DEF SetDone, Types
  <1> QED
    BY <1>1, <1>2 DEF Types

LEMMA UrcTypes ==
  ASSUME Types, Locked, Living, AliveIsNow, NEW s \in Slots, Urc(s)
  PROVE  Types' /\ Locked' /\ Living' /\ AliveIsNow'
  <1>0. \A u \in Callers : Flow(u)' = Flow(u)
    BY UrcCases DEF Flow
  <1>1. out[s] \in Seq(Line) /\ Head(out[s]) \in Line /\ Tail(out[s]) \in Seq(Line)
    BY UrcCases, HeadTailProperties DEF Types
  <1>2. out' \in [Slots -> Seq(Line)]
    BY <1>1, UrcCases DEF Types
  <1>3. response' \in [Callers -> Seq(Line)]
    <2>1. CASE AppendBuf(s)
      <3>1. \A t \in Callers : Append(response[t], Head(out[s])) \in Seq(Line)
        BY <1>1, AppendProperties DEF Types
      <3> QED
        BY <2>1, <3>1 DEF AppendBuf, Types
    <2> QED
      BY <2>1, UrcCases DEF Types
  <1>4. events' \subseteq Slots
    BY UrcCases DEF SetDone, Types
  <1>5. Types'
    BY <1>2, <1>3, <1>4, UrcCases, UrcPlaces DEF Types
  <1>6. Locked'
    BY UrcCases, UrcPlaces DEF Locked, Locking
  <1>7. Living'
    <2>1. alive' = alive
      BY UrcCases
    <2>2. \A t \in Callers : pc'[t] \in Held <=> pc[t] \in Held
      BY UrcPlaces DEF Held
    <2> QED
      BY <1>0, <2>1, <2>2 DEF Living
  <1>8. AliveIsNow'
    BY <1>0, UrcCases DEF AliveIsNow
  <1> QED
    BY <1>5, <1>6, <1>7, <1>8

\* A command is carried out.
LEMMA RunCases ==
  ASSUME Types, ModemRuns
  PROVE  /\ cmds # <<>> /\ cmds' = Tail(cmds)
         /\ Head(cmds) \in [op : Ops, slot : Slots, flow : Flows]
         /\ \A s \in Slots : out'[s] =
              IF s # Head(cmds).slot \/ Head(cmds).op = "connect" THEN out[s]
              ELSE IF Head(cmds).op = "request"
                   THEN [k \in 1 .. Lines |-> <<Head(cmds).flow, k>>] ELSE <<>>
         /\ DOMAIN out' = Slots
         /\ obeyed' \in [Callers -> BOOLEAN]
         /\ \A t \in Callers : obeyed'[t] <=>
              \/ obeyed[t]
              \/ lock = t /\ Head(cmds).flow = Flow(t) /\ pc[t] = Busy[Head(cmds).op]
         /\ UNCHANGED <<pc, sends, mySlot, lock, slots, alive, response, events,
                        crossed, wrongOk, failed, tidy>>
  <1> DEFINE c == Head(cmds)
             C == [op : Ops, slot : Slots, flow : Flows]
  <1>1. cmds # <<>> /\ cmds' = Tail(cmds)
    BY DEF ModemRuns
  <1>2. cmds \in Seq(C)
    BY DEF Types
  <1>3. c \in C
    <2> HIDE DEF C
    <2> QED
      BY <1>1, <1>2, HeadTailProperties
  <1>4. out' = CASE c.op = "request" ->
                      [out EXCEPT ![c.slot] = [k \in 1 .. Lines |-> <<c.flow, k>>]]
                [] c.op = "connect" -> out
                [] OTHER            -> [out EXCEPT ![c.slot] = <<>>]
    BY DEF ModemRuns
  <1>5. obeyed' = [t \in Callers |-> obeyed[t] \/ (lock = t /\ c.flow = Flow(t)
                                                   /\ pc[t] = Busy[c.op])]
    BY DEF ModemRuns
  <1>6. UNCHANGED <<pc, sends, mySlot, lock, slots, alive, response, events,
                    crossed, wrongOk, failed, tidy>>
    BY DEF ModemRuns, caller, object
  <1>7. c.op \in Ops /\ c.slot \in Slots
    BY <1>3
  <1> HIDE DEF c, C
  <1>8. /\ DOMAIN out' = Slots
        /\ \A s \in Slots : out'[s] =
             IF s # c.slot \/ c.op = "connect" THEN out[s]
             ELSE IF c.op = "request" THEN [k \in 1 .. Lines |-> <<c.flow, k>>]
                  ELSE <<>>
    <2>1. CASE c.op = "request"
      BY <1>4, <1>7, <2>1 DEF Types
    <2>2. CASE c.op = "connect"
      BY <1>4, <1>7, <2>2 DEF Types
    <2>3. CASE c.op # "request" /\ c.op # "connect"
      BY <1>4, <1>7, <2>3 DEF Types
    <2> QED
      BY <2>1, <2>2, <2>3
  <1>9. /\ obeyed' \in [Callers -> BOOLEAN]
        /\ \A t \in Callers : obeyed'[t] <=>
             obeyed[t] \/ (lock = t /\ c.flow = Flow(t) /\ pc[t] = Busy[c.op])
    BY <1>5 DEF Types
  <1> QED
    BY <1>1, <1>3, <1>6, <1>8, <1>9 DEF c, C

LEMMA ModemTypes ==
  ASSUME Types, Locked, Living, AliveIsNow, ModemRuns \/ ModemReset
  PROVE  Types' /\ Locked' /\ Living' /\ AliveIsNow'
  <1>0. UNCHANGED <<pc, sends, mySlot, lock, slots, alive, response, events,
                    crossed, wrongOk, failed, tidy>>
    BY RunCases DEF ModemReset, caller, object, history
  <1>1. Locked' /\ Living' /\ AliveIsNow'
    BY <1>0 DEF Locked, Living, AliveIsNow, Flow
  <1>2. CASE ModemReset
    BY <1>0, <1>1, <1>2, EmptySeq DEF ModemReset, history, Types
  <1>3. CASE ModemRuns
    <2>1. out' \in [Slots -> Seq(Line)]
      <3>1. [k \in 1 .. Lines |-> <<Head(cmds).flow, k>>] \in Seq(Line)
        <4>1. Lines \in Nat /\ Head(cmds).flow \in Flows
          BY <1>3, RunCases, HttpAssumption
        <4>2. \A k \in 1 .. Lines : <<Head(cmds).flow, k>> \in Line
          BY <4>1 DEF Line
        <4> QED
          BY <4>1, <4>2, IsASeq
      <3>2. \A s \in Slots : out'[s] \in Seq(Line)
        <4>1. TAKE s \in Slots
        <4>2. out[s] \in Seq(Line) /\ <<>> \in Seq(Line)
          BY EmptySeq DEF Types
        <4> QED
          BY <1>3, <3>1, <4>2, RunCases
      <3>3. out' = [s \in Slots |-> out'[s]]
        BY <1>3, RunCases, Zenon DEF ModemRuns, Types
      <3> QED
        BY <3>2, <3>3
    <2>2. cmds' \in Seq([op : Ops, slot : Slots, flow : Flows])
      <3> DEFINE C == [op : Ops, slot : Slots, flow : Flows]
      <3>1. cmds \in Seq(C) /\ cmds # <<>> /\ cmds' = Tail(cmds)
        BY <1>3 DEF Types, ModemRuns
      <3> HIDE DEF C
      <3>2. cmds' \in Seq(C)
        BY <3>1, HeadTailProperties
      <3> QED
        BY <3>2 DEF C
    <2> QED
      BY <1>0, <1>1, <1>3, <2>1, <2>2, RunCases DEF Types
  <1> QED
    BY <1>2, <1>3

\* What every step of the specification is.
LEMMA StepCases ==
  ASSUME [Next]_vars
  PROVE  \/ \E t \in Callers : Begin(t)
         \/ \E t \in Callers : ExecBegin(t)
         \/ \E t \in Callers : ExecOk(t)
         \/ \E t \in Callers : ExecFail(t)
         \/ \E t \in Callers : Assign(t)
         \/ \E t \in Callers : Wait(t)
         \/ \E t \in Callers : WaitTimeout(t)
         \/ \E t \in Callers : DropFlow(t)
         \/ ModemRuns \/ (\E s \in Slots : Urc(s)) \/ ModemReset
         \/ UNCHANGED vars
  BY DEF Next, Go, ExecEnd

LEMMA TypesStep ==
  ASSUME Types, Locked, Living, AliveIsNow, [Next]_vars
  PROVE  Types' /\ Locked' /\ Living' /\ AliveIsNow'
  <1>1. CASE UNCHANGED vars
    BY <1>1 DEF vars, caller, object, modem, history, Types, Locked, Living,
                AliveIsNow, Flow
  <1> QED
    BY <1>1, StepCases, BeginTypes, OwnTypes, ExecTypes, UrcTypes, ModemTypes
       DEF ExecEnd

LEMMA InitTypes ==
  ASSUME Init
  PROVE  TypeOK /\ AliveIsNow
  <1>1. <<>> \in Seq(Line) /\ <<>> \in Seq([op : Ops, slot : Slots, flow : Flows])
    BY EmptySeq
  <1>2. mySlot \in [Callers -> Slots]
    BY HttpAssumption DEF Init
  <1>3. "idle" \in Places /\ "idle" \notin Held /\ "idle" \notin Locking
    BY PlaceFacts DEF Held, Locking
  <1>4. Types
    <2>1. /\ pc \in [Callers -> Places] /\ sends \in [Callers -> Nat]
          /\ response \in [Callers -> Seq(Line)] /\ out \in [Slots -> Seq(Line)]
      BY <1>1, <1>3 DEF Init
    <2> QED
      BY <1>1, <1>2, <2>1 DEF Init, Types
  <1>5. Locked /\ Living /\ AliveIsNow
    BY <1>3, HttpAssumption DEF Init, Locked, Living, AliveIsNow
  <1> QED
    BY <1>4, <1>5, TypeSplit

LEMMA TypeStep ==
  ASSUME TypeOK, AliveIsNow, [Next]_vars
  PROVE  TypeOK' /\ AliveIsNow'
  <1>1. TypeOK' <=> (Types /\ Locked /\ Living)'
    BY TypeSplit, PTL
  <1> QED
    BY <1>1, TypeSplit, TypesStep

\* The types of the threads, slots, commands and lines, with the thread that holds
\* the lock and the Flows that live (net/at.hxx:22-34,
\* devices/air302/http.cxx:27-33).
THEOREM HttpTypeOK == Spec => []TypeOK
  <1>1. Init => TypeOK /\ AliveIsNow
    BY InitTypes
  <1>2. TypeOK /\ AliveIsNow /\ [Next]_vars => (TypeOK /\ AliveIsNow)'
    BY TypeStep
  <1> QED
    BY <1>1, <1>2, PTL DEF Spec

-----------------------------------------------------------------------------
(* Steps *)

\* The steps of a thread inside send.
Inside(t) ==
    \/ ExecBegin(t) \/ ExecOk(t) \/ ExecFail(t) \/ Assign(t) \/ Wait(t)
    \/ WaitTimeout(t) \/ DropFlow(t)

\* Where such a step leads.
Leads(p, q) ==
    \/ p = "create" /\ q = "creating"
    \/ p = "connect" /\ q = "connecting"
    \/ p = "request" /\ q = "requesting"
    \/ p = "destroy" /\ q = "destroying"
    \/ p = "creating" /\ q \in {"assign", "idle"}
    \/ p = "connecting" /\ q \in {"request", "drop"}
    \/ p = "requesting" /\ q \in {"wait", "drop"}
    \/ p = "destroying" /\ q \in {"idle", "terminated"}
    \/ p = "assign" /\ q = "connect"
    \/ p = "wait" /\ q \in {"got", "asleep"}
    \/ p = "asleep" /\ q = "drop"
    \/ p \in {"got", "drop"} /\ q = "destroy"

\* What a step of t inside send leaves alone.
LEMMA InsideFrame ==
  ASSUME Types, NEW t \in Callers, Inside(t)
  PROVE  /\ sends' = sends /\ mySlot' = mySlot /\ crossed' = crossed /\ out' = out
         /\ \A u \in Callers : Flow(u)' = Flow(u)
         /\ \A u \in Callers : u # t => /\ pc'[u] = pc[u] /\ tidy'[u] = tidy[u]
                                        /\ response'[u] = response[u]
                                        /\ obeyed'[u] = obeyed[u]
         /\ Leads(pc[t], pc'[t])
  <1>1. /\ sends' = sends /\ mySlot' = mySlot /\ crossed' = crossed /\ out' = out
        /\ \A u \in Callers : u # t => /\ tidy'[u] = tidy[u]
                                       /\ response'[u] = response[u]
                                       /\ obeyed'[u] = obeyed[u]
    <2>1. CASE ExecBegin(t)
      BY <2>1 DEF ExecBegin, object, history
    <2>2. CASE ExecOk(t)
      BY <2>2, OkCases DEF Types
    <2>3. CASE ExecFail(t)
      BY <2>3, FailCases DEF Types
    <2>4. CASE Assign(t)
      BY <2>4 DEF Assign, modem, history
    <2>5. CASE Wait(t)
      BY <2>5 DEF Wait, modem, history
    <2>6. CASE WaitTimeout(t)
      BY <2>6 DEF WaitTimeout, modem, object
    <2>7. CASE DropFlow(t)
      BY <2>7 DEF DropFlow, modem, Types
    <2> QED
      BY <2>1, <2>2, <2>3, <2>4, <2>5, <2>6, <2>7 DEF Inside
  <1>2. (\A u \in Callers : u # t => pc'[u] = pc[u]) /\ Leads(pc[t], pc'[t])
    <2>0. pc \in [Callers -> Places]
      BY DEF Types
    <2>1. CASE ExecBegin(t)
      <3>1. /\ \/ pc[t] = "create" /\ pc'[t] = "creating"
               \/ pc[t] = "connect" /\ pc'[t] = "connecting"
               \/ pc[t] = "request" /\ pc'[t] = "requesting"
               \/ pc[t] = "destroy" /\ pc'[t] = "destroying"
            /\ \A u \in Callers : u # t => pc'[u] = pc[u]
        BY <2>0, <2>1, BeginCases
      <3> QED
        BY <3>1 DEF Leads
    <2>2. CASE ExecOk(t)
      BY <2>0, <2>2, OkCases DEF Leads
    <2>3. CASE ExecFail(t)
      BY <2>0, <2>3, FailCases DEF Leads
    <2>4. CASE Assign(t)
      <3>1. pc[t] = "assign" /\ pc'[t] = "connect"
            /\ \A u \in Callers : u # t => pc'[u] = pc[u]
        BY <2>0, <2>4 DEF Assign, Goto
      <3> QED
        BY <3>1 DEF Leads
    <2>5. CASE Wait(t)
      BY <2>0, <2>5 DEF Wait, Goto, Leads
    <2>6. CASE WaitTimeout(t)
      <3>1. pc[t] = "asleep" /\ pc'[t] = "drop"
            /\ \A u \in Callers : u # t => pc'[u] = pc[u]
        BY <2>0, <2>6 DEF WaitTimeout, Goto
      <3> QED
        BY <3>1 DEF Leads
    <2>7. CASE DropFlow(t)
      BY <2>0, <2>7 DEF DropFlow, Goto, Leads
    <2> QED
      BY <2>1, <2>2, <2>3, <2>4, <2>5, <2>6, <2>7 DEF Inside
  <1> QED
    BY <1>1, <1>2 DEF Flow

\* The steps, by who takes them.
LEMMA StepKinds ==
  ASSUME [Next]_vars
  PROVE  \/ \E t \in Callers : Exhausted(t)
         \/ \E t \in Callers, s \in Slots : GetNext(t, s)
         \/ \E t \in Callers : Inside(t)
         \/ ModemRuns \/ (\E s \in Slots : Urc(s)) \/ ModemReset
         \/ UNCHANGED vars
  BY StepCases DEF Begin, Inside

\* A call of send that begins.
LEMMA BeginFrame ==
  ASSUME Types, NEW t \in Callers, Begin(t)
  PROVE  /\ sends' \in [Callers -> Nat] /\ sends'[t] = sends[t] + 1
         /\ pc[t] = "idle" /\ pc'[t] \in {"idle", "create"}
         /\ \A u \in Callers : u # t =>
               /\ sends'[u] = sends[u] /\ pc'[u] = pc[u] /\ mySlot'[u] = mySlot[u]
               /\ tidy'[u] = tidy[u] /\ Flow(u)' = Flow(u)
         /\ UNCHANGED <<slots, alive, response, events, cmds, out, obeyed, wrongOk,
                        failed>>
  <1>1. sends' = [sends EXCEPT ![t] = @ + 1]
    BY DEF Begin, Exhausted, GetNext
  <1>2. /\ sends' \in [Callers -> Nat] /\ sends'[t] = sends[t] + 1
        /\ \A u \in Callers : u # t => sends'[u] = sends[u] /\ Flow(u)' = Flow(u)
    BY <1>1 DEF Types, Flow
  <1>3. CASE Exhausted(t)
    BY <1>2, <1>3 DEF Exhausted, object, modem, history
  <1>4. CASE \E s \in Slots : GetNext(t, s)
    BY <1>2, <1>4 DEF GetNext, Goto, object, modem, Types
  <1> QED
    BY <1>3, <1>4 DEF Begin

\* The commands, before and behind a change.
LEMMA CmdsGrow ==
  ASSUME Types, NEW t \in Callers, ExecBegin(t)
  PROVE  /\ \A k \in DOMAIN cmds : k \in Nat /\ k <= Len(cmds)
         /\ Len(cmds) \in Nat
         /\ \/ cmds' = cmds
            \/ /\ DOMAIN cmds' = DOMAIN cmds \cup {Len(cmds) + 1}
               /\ \A k \in DOMAIN cmds : cmds'[k] = cmds[k]
               /\ cmds'[Len(cmds) + 1].op = pc[t]
               /\ cmds'[Len(cmds) + 1].slot = mySlot[t]
               /\ cmds'[Len(cmds) + 1].flow = Flow(t)
  <1> DEFINE c == [op |-> pc[t], slot |-> mySlot[t], flow |-> Flow(t)]
             C == [op : Ops, slot : Slots, flow : Flows]
  <1>1. c \in C
    BY FlowType DEF ExecBegin, Types
  <1>2. cmds' = cmds \/ cmds' = Append(cmds, c)
    BY DEF ExecBegin
  <1>3. cmds \in Seq(C)
    BY DEF Types
  <1>4. c.op = pc[t] /\ c.slot = mySlot[t] /\ c.flow = Flow(t)
    OBVIOUS
  <1> HIDE DEF c, C
  <1>5. Len(cmds) \in Nat /\ DOMAIN cmds = 1 .. Len(cmds)
    BY <1>3, LenProperties
  <1>6. CASE cmds' = Append(cmds, c)
    <2>1. /\ Len(cmds') = Len(cmds) + 1 /\ cmds' \in Seq(C)
          /\ \A k \in 1 .. Len(cmds) : cmds'[k] = cmds[k]
          /\ cmds'[Len(cmds) + 1] = c
      BY <1>1, <1>3, <1>6, AppendProperties
    <2>2. DOMAIN cmds' = 1 .. Len(cmds) + 1
      BY <2>1, LenProperties
    <2> QED
      BY <1>4, <1>5, <2>1, <2>2
  <1> QED
    BY <1>2, <1>5, <1>6

\* And when the modem has carried out the first of them.
LEMMA CmdsShrink ==
  ASSUME Types, ModemRuns
  PROVE  /\ 1 \in DOMAIN cmds /\ Head(cmds) = cmds[1]
         /\ \A k \in DOMAIN cmds : k \in Nat /\ k >= 1
         /\ \A k \in DOMAIN cmds' : /\ k \in Nat /\ k >= 1
                                    /\ k + 1 \in DOMAIN cmds
                                    /\ cmds'[k] = cmds[k + 1]
         /\ \A k \in DOMAIN cmds : k # 1 => /\ k - 1 \in DOMAIN cmds'
                                            /\ cmds'[k - 1] = cmds[k]
  <1> DEFINE C == [op : Ops, slot : Slots, flow : Flows]
  <1>1. cmds \in Seq(C) /\ cmds # <<>> /\ cmds' = Tail(cmds)
    BY DEF Types, ModemRuns
  <1> HIDE DEF C
  <1>2. Len(cmds) \in Nat /\ DOMAIN cmds = 1 .. Len(cmds) /\ Len(cmds) > 0
    BY <1>1, LenProperties, EmptySeq
  <1>3. /\ Head(cmds) = cmds[1] /\ cmds' \in Seq(C) /\ Len(cmds') = Len(cmds) - 1
        /\ \A k \in 1 .. Len(cmds') : cmds'[k] = cmds[k + 1]
    BY <1>1, HeadTailProperties
  <1>4. DOMAIN cmds' = 1 .. Len(cmds) - 1
    BY <1>3, LenProperties
  <1> QED
    BY <1>2, <1>3, <1>4

-----------------------------------------------------------------------------
(* Flows that have begun *)

Base == Types /\ Locked /\ Living /\ AliveIsNow

LEMMA BaseStep == Base /\ [Next]_vars => Base'
  BY TypesStep DEF Base

\* A slot never holds a Flow that is still to come.
LEMMA SlotsStep ==
  ASSUME Base, SlotsArePast, [Next]_vars
  PROVE  SlotsArePast'
  <1>1. SUFFICES ASSUME NEW s \in Slots, NEW t \in Callers, NEW n \in Nat,
                        slots'[s] = <<t, n>>
                 PROVE  /\ n <= sends'[t]
                        /\ n = sends'[t] =>
                              /\ mySlot'[t] = s
                              /\ pc'[t] \notin {"create", "creating", "assign"}
    BY DEF SlotsArePast
  <1> USE DEF Base
  <1>2. sends[t] \in Nat
    BY DEF Types
  <1>3. slots[s] = <<t, n>> =>
            /\ n <= sends[t]
            /\ n = sends[t] => /\ mySlot[t] = s
                               /\ pc[t] \notin {"create", "creating", "assign"}
    BY DEF SlotsArePast
  <1>4. ASSUME NEW u \in Callers, Begin(u)
        PROVE  /\ n <= sends'[t]
               /\ n = sends'[t] =>
                     /\ mySlot'[t] = s
                     /\ pc'[t] \notin {"create", "creating", "assign"}
    BY <1>1, <1>2, <1>3, <1>4, BeginFrame
  <1>5. ASSUME NEW u \in Callers, Inside(u)
        PROVE  /\ n <= sends'[t]
               /\ n = sends'[t] =>
                     /\ mySlot'[t] = s
                     /\ pc'[t] \notin {"create", "creating", "assign"}
    <2>1. CASE Assign(u) /\ mySlot[u] = s
      <3>1. slots'[s] = Flow(u) /\ pc'[u] = "connect" /\ mySlot' = mySlot
            /\ sends' = sends
        BY <2>1 DEF Assign, Goto, Types
      <3>2. t = u /\ n = sends[u]
        BY <1>1, <3>1 DEF Flow
      <3> QED
        BY <1>2, <2>1, <3>1, <3>2
    <2>2. CASE ~(Assign(u) /\ mySlot[u] = s)
      <3>1. slots'[s] = slots[s]
        <4>1. CASE Assign(u)
          BY <2>2, <4>1 DEF Assign, Types
        <4>2. CASE ~Assign(u)
          BY <1>5, <4>2, OkCases, FailCases
             DEF Inside, ExecBegin, Wait, WaitTimeout, DropFlow, object
        <4> QED
          BY <4>1, <4>2
      <3>2. pc[t] \notin {"create", "creating", "assign"} =>
               pc'[t] \notin {"create", "creating", "assign"}
        BY <1>5, InsideFrame DEF Leads
      <3> QED
        BY <1>1, <1>3, <1>5, <3>1, <3>2, InsideFrame
    <2> QED
      BY <2>1, <2>2
  <1>6. CASE ModemRuns \/ ModemReset \/ UNCHANGED vars
    BY <1>1, <1>3, <1>6, RunCases DEF ModemReset, vars, caller, object
  <1>7. ASSUME NEW r \in Slots, Urc(r)
        PROVE  /\ n <= sends'[t]
               /\ n = sends'[t] =>
                     /\ mySlot'[t] = s
                     /\ pc'[t] \notin {"create", "creating", "assign"}
    BY <1>1, <1>3, <1>7, UrcCases, UrcPlaces
  <1> QED
    BY <1>4, <1>5, <1>6, <1>7, StepKinds DEF Begin

\* Nor does a command belong to one.
LEMMA CmdsStep ==
  ASSUME Base, CmdsArePast, [Next]_vars
  PROVE  CmdsArePast'
  <1> USE DEF Base
  <1> DEFINE PastFor(k, t, n) ==
                cmds[k].flow = <<t, n>> =>
                    /\ n <= sends[t]
                    /\ n = sends[t] => pc[t] # "create" /\ cmds[k].slot = mySlot[t]
  <1>0. \A k \in DOMAIN cmds, t \in Callers, n \in Nat : PastFor(k, t, n)
    BY DEF CmdsArePast
  <1>1. ASSUME NEW k \in DOMAIN cmds', NEW t \in Callers, NEW n \in Nat,
               cmds'[k].flow = <<t, n>>
        PROVE  /\ n <= sends'[t]
               /\ n = sends'[t] => pc'[t] # "create" /\ cmds'[k].slot = mySlot'[t]
    <2>0. sends[t] \in Nat
      BY DEF Types
    <2>1. ASSUME NEW u \in Callers, Begin(u)
          PROVE  /\ n <= sends'[t]
                 /\ n = sends'[t] => pc'[t] # "create" /\ cmds'[k].slot = mySlot'[t]
      BY <1>0, <1>1, <2>0, <2>1, BeginFrame
    <2>2. ASSUME NEW u \in Callers, Inside(u), ~ExecBegin(u)
          PROVE  /\ n <= sends'[t]
                 /\ n = sends'[t] => pc'[t] # "create" /\ cmds'[k].slot = mySlot'[t]
      <3>1. cmds' = cmds
        BY <2>2, OkCases, FailCases
           DEF Inside, Assign, Wait, WaitTimeout, DropFlow, modem
      <3>2. pc[t] # "create" => pc'[t] # "create"
        BY <2>2, InsideFrame DEF Leads
      <3> QED
        BY <1>0, <1>1, <2>2, <3>1, <3>2, InsideFrame
    <2>3. ASSUME NEW u \in Callers, ExecBegin(u)
          PROVE  /\ n <= sends'[t]
                 /\ n = sends'[t] => pc'[t] # "create" /\ cmds'[k].slot = mySlot'[t]
      <3>0. sends' = sends /\ mySlot' = mySlot
        BY <2>3 DEF ExecBegin
      <3>1. (pc[t] # "create" => pc'[t] # "create") /\ (t = u => pc'[t] # "create")
        BY <2>3, InsideFrame DEF Leads, Inside
      <3>2. CASE k \in DOMAIN cmds /\ cmds'[k] = cmds[k]
        BY <1>0, <1>1, <3>0, <3>1, <3>2
      <3>3. CASE cmds'[k].slot = mySlot[u] /\ cmds'[k].flow = Flow(u)
        <4>1. t = u /\ n = sends[u]
          BY <1>1, <3>3 DEF Flow
        <4> QED
          BY <2>0, <3>0, <3>1, <3>3, <4>1
      <3> QED
        BY <1>1, <2>3, <3>2, <3>3, CmdsGrow
    <2>4. CASE ModemRuns
      BY <1>0, <1>1, <2>4, RunCases, CmdsShrink
    <2>5. CASE ModemReset
      BY <1>1, <2>5 DEF ModemReset
    <2>6. ASSUME NEW r \in Slots, Urc(r)
          PROVE  /\ n <= sends'[t]
                 /\ n = sends'[t] => pc'[t] # "create" /\ cmds'[k].slot = mySlot'[t]
      BY <1>0, <1>1, <2>6, UrcCases, UrcPlaces
    <2>7. CASE UNCHANGED vars
      BY <1>0, <1>1, <2>7 DEF vars, caller, modem
    <2> QED
      BY <2>1, <2>2, <2>3, <2>4, <2>5, <2>6, <2>7, StepKinds DEF Begin
  <1>2. ASSUME NEW t \in Callers, obeyed'[t]
        PROVE  pc'[t] \in {Busy[op] : op \in Ops}
    <2>0. obeyed[t] => pc[t] \in {Busy[op] : op \in Ops}
      BY DEF CmdsArePast
    <2>1. ASSUME NEW u \in Callers, Begin(u)
          PROVE  pc'[t] \in {Busy[op] : op \in Ops}
      BY <1>2, <2>0, <2>1, BeginFrame, PlaceFacts
    <2>2. ASSUME NEW u \in Callers, Inside(u)
          PROVE  pc'[t] \in {Busy[op] : op \in Ops}
      <3>1. CASE t # u
        BY <1>2, <2>0, <2>2, <3>1, InsideFrame
      <3>2. CASE t = u /\ (ExecOk(u) \/ ExecFail(u))
        BY <1>2, <3>2, OkCases, FailCases DEF Types
      <3>3. CASE t = u /\ ~ExecOk(u) /\ ~ExecFail(u)
        <4>1. obeyed' = obeyed
          BY <2>2, <3>3 DEF Inside, ExecBegin, Assign, Wait, WaitTimeout, DropFlow, history
        <4>2. pc[t] \in {"creating", "connecting", "requesting", "destroying"}
          BY <1>2, <2>0, <4>1, PlaceFacts
        <4>3. pc[t] \notin {"creating", "connecting", "requesting", "destroying"}
          BY <2>2, <3>3
             DEF Inside, ExecBegin, Ops, Assign, Wait, WaitTimeout, DropFlow
        <4> QED
          BY <4>2, <4>3
      <3> QED
        BY <3>1, <3>2, <3>3
    <2>3. CASE ModemRuns
      BY <1>2, <2>0, <2>3, RunCases
    <2>4. CASE ModemReset \/ UNCHANGED vars
      BY <1>2, <2>0, <2>4 DEF ModemReset, vars, caller, history
    <2>5. ASSUME NEW r \in Slots, Urc(r)
          PROVE  pc'[t] \in {Busy[op] : op \in Ops}
      BY <1>2, <2>0, <2>5, UrcCases, UrcPlaces, PlaceFacts
    <2> QED
      BY <2>1, <2>2, <2>3, <2>4, <2>5, StepKinds DEF Begin
  <1> QED
    BY <1>1, <1>2 DEF CmdsArePast

\* A line reaches the Flow in its slot, if that Flow is alive, and no other one.
LEMMA UrcLines ==
  ASSUME NEW s \in Slots, Urc(s), NEW t \in Callers
  PROVE  IF Flow(t) = slots[s] /\ ~Expired(s)
         THEN response'[t] = Append(response[t], Head(out[s]))
         ELSE response' = response \/ response'[t] = response[t]
  <1>1. CASE UNCHANGED response /\ Expired(s)
    BY <1>1
  <1>2. CASE AppendBuf(s) /\ ~Expired(s)
    BY <1>2 DEF AppendBuf
  <1> QED
    BY <1>1, <1>2, UrcCases

\* The lines of a Flow that is not there, and the other facts about places.
LEMMA NothingStep ==
  ASSUME Base, NothingYet, [Next]_vars
  PROVE  NothingYet'
  <1> DEFINE Empty(t) == pc[t] \notin Held => response[t] = <<>>
             Asleep(t) == pc[t] = "asleep" => mySlot[t] \notin events
             Fails(t) == pc[t] \in {"drop", "terminated"} => failed
             Untidy(t) == pc[t] \in {"destroy", "destroying"} => ~tidy[t]
  <1>0. Base'
    BY BaseStep
  <1>1. \A t \in Callers : Empty(t) /\ Asleep(t) /\ Fails(t) /\ Untidy(t)
    BY DEF NothingYet, Holding, Base, Living
  <1>2. SUFFICES ASSUME NEW t \in Callers
                 PROVE  Empty(t)' /\ Asleep(t)' /\ Fails(t)' /\ Untidy(t)'
    BY <1>0 DEF NothingYet, Holding, Base, Living
  <1> USE DEF Base
  <1>3. ASSUME NEW u \in Callers, Begin(u)
        PROVE  Empty(t)' /\ Asleep(t)' /\ Fails(t)' /\ Untidy(t)'
    <2>1. CASE t # u
      BY <1>1, <1>3, <2>1, BeginFrame
    <2>2. CASE t = u
      <3>1. pc[t] = "idle" /\ pc'[t] \in {"idle", "create"} /\ response' = response
        BY <1>3, <2>2, BeginFrame
      <3> QED
        BY <1>1, <3>1 DEF Held
    <2> QED
      BY <2>1, <2>2
  <1>4. ASSUME NEW u \in Callers, Inside(u), t # u
        PROVE  Empty(t)' /\ Asleep(t)' /\ Fails(t)' /\ Untidy(t)'
    <2>1. events' \subseteq events /\ (failed => failed')
      <3>1. CASE ExecBegin(u) \/ Assign(u) \/ Wait(u) \/ WaitTimeout(u) \/ DropFlow(u)
        BY <3>1 DEF ExecBegin, Assign, Wait, WaitTimeout, DropFlow, object, history
      <3> QED
        BY <1>4, <3>1, OkCases, FailCases DEF Inside
    <2> QED
      BY <1>1, <1>4, <2>1, InsideFrame
  <1>5. ASSUME NEW u \in Callers, Inside(u), t = u
        PROVE  Empty(t)' /\ Asleep(t)' /\ Fails(t)' /\ Untidy(t)'
    <2>1. CASE ExecBegin(t)
      <3>1. response' = response /\ tidy' = tidy
        BY <2>1 DEF ExecBegin, object, history
      <3>2. pc \in [Callers -> Places]
        BY DEF Types
      <3> QED
        BY <1>1, <2>1, <3>1, <3>2, BeginCases DEF Held
    <2>2. CASE ExecOk(t)
      <3>1. pc'[t] \in {"assign", "request", "wait", "idle"}
        BY <2>2, OkCases DEF Types
      <3>2. pc'[t] = "idle" => pc[t] = "destroying"
        BY <2>2, OkCases DEF Types
      <3>3. response' = response
        BY <2>2, OkCases
      <3> QED
        BY <1>1, <3>1, <3>2, <3>3 DEF Held
    <2>3. CASE ExecFail(t)
      BY <1>1, <2>3, FailCases DEF Held, Types
    <2>4. CASE Assign(t)
      <3>1. pc'[t] = "connect"
        BY <2>4 DEF Assign, Goto, Types
      <3> QED
        BY <3>1 DEF Held
    <2>5. CASE Wait(t)
      <3>1. pc'[t] \in {"got", "asleep"} /\ events' = events \ {mySlot[t]}
            /\ mySlot' = mySlot
        BY <2>5 DEF Wait, Goto, Types
      <3> QED
        BY <3>1 DEF Held
    <2>6. CASE WaitTimeout(t)
      <3>1. pc'[t] = "drop" /\ failed'
        BY <2>6 DEF WaitTimeout, Goto, Types
      <3> QED
        BY <3>1 DEF Held
    <2>7. CASE DropFlow(t)
      <3>1. pc'[t] = "destroy" /\ response'[t] = <<>> /\ ~tidy'[t]
        BY <2>7 DEF DropFlow, Goto, Types
      <3> QED
        BY <3>1
    <2> QED
      BY <1>5, <2>1, <2>2, <2>3, <2>4, <2>5, <2>6, <2>7 DEF Inside
  <1>6. CASE ModemRuns \/ ModemReset \/ UNCHANGED vars
    <2>1. UNCHANGED <<pc, response, mySlot, events, failed, tidy>>
      BY <1>6, RunCases DEF ModemReset, vars, caller, object, history
    <2> QED
      BY <1>1, <2>1
  <1>7. ASSUME NEW r \in Slots, Urc(r)
        PROVE  Empty(t)' /\ Asleep(t)' /\ Fails(t)' /\ Untidy(t)'
    <2>1. /\ UNCHANGED <<mySlot, failed, tidy>>
          /\ \/ pc'[t] = pc[t]
             \/ pc[t] = "asleep" /\ pc'[t] = "got" /\ mySlot[t] = r
      BY <1>7, UrcCases, UrcPlaces
    <2>2. Empty(t)'
      <3>1. CASE response'[t] = response[t]
        BY <1>1, <2>1, <3>1 DEF Held
      <3>2. CASE response'[t] # response[t]
        <4>1. ~Expired(r) /\ Flow(t) = slots[r]
          BY <1>7, <3>2, UrcLines
        <4>2. pc[t] \in Held
          BY <4>1 DEF Expired, Living
        <4> QED
          BY <2>1, <4>2 DEF Held
      <3> QED
        BY <3>1, <3>2
    <2>3. Asleep(t)'
      <3>1. CASE events' = events
        BY <1>1, <2>1, <3>1
      <3>2. CASE SetDone(r) /\ events' # events
        BY <1>1, <2>1, <3>2 DEF SetDone
      <3> QED
        BY <1>7, <3>1, <3>2, UrcCases
    <2>4. Fails(t)' /\ Untidy(t)'
      BY <1>1, <2>1
    <2> QED
      BY <2>2, <2>3, <2>4
  <1> QED
    BY <1>3, <1>4, <1>5, <1>6, <1>7, StepKinds DEF Begin

-----------------------------------------------------------------------------
(* One Flow for a slot *)

\* History is not forgotten.
LEMMA HistoryGrows ==
  ASSUME Base, [Next]_vars
  PROVE  /\ ~crossed' => ~crossed
         /\ ~wrongOk' => ~wrongOk
         /\ ~failed' => ~failed
  <1> USE DEF Base
  <1>1. ASSUME NEW t \in Callers, Begin(t)
        PROVE  /\ ~crossed' => ~crossed
               /\ ~wrongOk' => ~wrongOk
               /\ ~failed' => ~failed
    <2>1. CASE Exhausted(t)
      BY <2>1 DEF Exhausted, history
    <2>2. ASSUME NEW s \in Slots, GetNext(t, s)
          PROVE  ~crossed' => ~crossed
      BY <2>2 DEF GetNext
    <2>3. wrongOk' = wrongOk /\ failed' = failed
      BY <1>1, BeginFrame
    <2> QED
      BY <1>1, <2>1, <2>2, <2>3 DEF Begin
  <1>2. ASSUME NEW t \in Callers, Inside(t)
        PROVE  /\ ~crossed' => ~crossed
               /\ ~wrongOk' => ~wrongOk
               /\ ~failed' => ~failed
    <2>1. crossed' = crossed
      BY <1>2, InsideFrame
    <2>2. CASE ExecOk(t)
      BY <2>1, <2>2, OkCases
    <2>3. CASE ExecFail(t)
      BY <2>1, <2>3, FailCases
    <2>4. CASE ExecBegin(t) \/ Assign(t) \/ Wait(t) \/ DropFlow(t)
      BY <2>4 DEF ExecBegin, Assign, Wait, DropFlow, history
    <2>5. CASE WaitTimeout(t)
      BY <2>1, <2>5 DEF WaitTimeout
    <2> QED
      BY <1>2, <2>2, <2>3, <2>4, <2>5 DEF Inside
  <1>3. CASE ModemRuns \/ ModemReset \/ UNCHANGED vars
    BY <1>3, RunCases DEF ModemReset, vars, history
  <1>4. ASSUME NEW s \in Slots, Urc(s)
        PROVE  /\ ~crossed' => ~crossed
               /\ ~wrongOk' => ~wrongOk
               /\ ~failed' => ~failed
    BY <1>4, UrcCases
  <1> QED
    BY <1>1, <1>2, <1>3, <1>4, StepKinds DEF Begin

\* A slot that is taken without crossing is used by no other thread.
LEMMA SlotIsFree ==
  ASSUME Base, OneUser, NEW t \in Callers, NEW s \in Slots, GetNext(t, s), ~crossed',
         NEW u \in Callers, u # t, Active(u)
  PROVE  mySlot[u] # s
  <1>1. SUFFICES ASSUME mySlot[u] = s
                 PROVE  FALSE
    OBVIOUS
  <1>2. pc[u] \notin {"create", "creating", "assign", "destroy", "destroying"}
    BY <1>1 DEF GetNext, InTransit
  <1>3. pc[u] \in Held /\ pc[u] # "assign"
    <2>1. pc[u] \in Places
      BY DEF Base, Types
    <2> QED
      BY <1>2, <2>1, PlaceFacts DEF Active, Held
  <1>4. slots[s] = Flow(u) /\ Flow(u) \in alive
    BY <1>1, <1>3 DEF OneUser, Holding, Base, Living
  <1> QED
    BY <1>4 DEF GetNext, Expired

\* One user of a slot, as long as nobody takes a slot in transit.
LEMMA OneUserStep ==
  ASSUME Base, SlotsArePast, ~crossed => OneUser, [Next]_vars, ~crossed'
  PROVE  OneUser'
  <1>0. Base' /\ OneUser
    BY BaseStep, HistoryGrows
  <1> DEFINE Mine(t) == pc[t] \in Held /\ pc[t] # "assign" => slots[mySlot[t]] = Flow(t)
             Apart(t, u) == Active(t) /\ Active(u) /\ mySlot[t] = mySlot[u] => t = u
  <1>1. (\A t, u \in Callers : Apart(t, u)) /\ (\A t \in Callers : Mine(t))
    BY <1>0 DEF OneUser, Holding, Base, Living
  <1>2. SUFFICES (\A t, u \in Callers : Apart(t, u)') /\ (\A t \in Callers : Mine(t)')
    BY <1>0 DEF OneUser, Holding, Base, Living
  <1> USE DEF Base
  <1>3. ASSUME NEW t \in Callers, Exhausted(t)
        PROVE  (\A v, u \in Callers : Apart(v, u)') /\ (\A u \in Callers : Mine(u)')
    <2>1. UNCHANGED <<pc, mySlot, slots>> /\ pc[t] = "idle"
          /\ \A u \in Callers : u # t => Flow(u)' = Flow(u)
      BY <1>3, BeginFrame DEF Exhausted, object, Begin
    <2> QED
      BY <1>1, <2>1 DEF Active, Held
  <1>4. ASSUME NEW t \in Callers, NEW s \in Slots, GetNext(t, s)
        PROVE  (\A v, u \in Callers : Apart(v, u)') /\ (\A u \in Callers : Mine(u)')
    <2>1. /\ pc'[t] = "create" /\ mySlot'[t] = s /\ slots' = slots
          /\ \A u \in Callers : u # t => /\ pc'[u] = pc[u] /\ mySlot'[u] = mySlot[u]
                                         /\ Flow(u)' = Flow(u)
      <3>1. Begin(t)
        BY <1>4 DEF Begin
      <3> QED
        BY <1>4, <3>1, BeginFrame DEF GetNext, Goto, Types
    <2>2. \A u \in Callers : u # t /\ Active(u) => mySlot[u] # s
      BY <1>0, <1>4, SlotIsFree
    <2>3. ASSUME NEW v \in Callers, NEW u \in Callers PROVE Apart(v, u)'
      <3>1. CASE v # t /\ u # t
        BY <1>1, <2>1, <3>1 DEF Active
      <3>2. CASE v = t /\ u # t
        BY <2>1, <2>2, <3>2 DEF Active
      <3>3. CASE v # t /\ u = t
        BY <2>1, <2>2, <3>3 DEF Active
      <3> QED
        BY <3>1, <3>2, <3>3
    <2>4. \A u \in Callers : Mine(u)'
      BY <1>1, <2>1 DEF Held
    <2> QED
      BY <2>3, <2>4
  <1>5. ASSUME NEW t \in Callers, Inside(t)
        PROVE  (\A v, u \in Callers : Apart(v, u)') /\ (\A u \in Callers : Mine(u)')
    <2>1. mySlot' = mySlot /\ (\A u \in Callers : Flow(u)' = Flow(u))
          /\ (\A u \in Callers : u # t => pc'[u] = pc[u]) /\ Leads(pc[t], pc'[t])
      BY <1>5, InsideFrame
    <2>2. Active(t)
      BY <2>1 DEF Active, Leads
    <2>3. \A v, u \in Callers : Apart(v, u)'
      BY <1>1, <2>1, <2>2 DEF Active
    <2>4. CASE Assign(t)
      <3>1. pc[t] = "assign" /\ slots' = [slots EXCEPT ![mySlot[t]] = Flow(t)]
        BY <2>4 DEF Assign
      <3>2. mySlot[t] \in Slots /\ \A u \in Callers : mySlot[u] \in Slots
        BY DEF Types
      <3>3. Mine(t)'
        BY <2>1, <3>1, <3>2 DEF Types
      <3>4. ASSUME NEW u \in Callers, u # t, pc[u] \in Held, pc[u] # "assign"
            PROVE  slots'[mySlot[u]] = Flow(u)
        <4>1. mySlot[u] # mySlot[t]
          BY <1>1, <2>2, <3>4 DEF Active, Held
        <4> QED
          BY <1>1, <3>1, <3>2, <3>4, <4>1 DEF Types
      <3> QED
        BY <2>1, <2>3, <3>3, <3>4
    <2>5. CASE ~Assign(t)
      <3>1. slots' = slots
        BY <1>5, <2>5, OkCases, FailCases
           DEF Inside, ExecBegin, Wait, WaitTimeout, DropFlow, object
      <3>2. pc'[t] \in Held /\ pc'[t] # "assign" => pc[t] \in Held /\ pc[t] # "assign"
        <4>1. pc[t] # "assign"
          BY <1>5, <2>5, OkCases, FailCases
             DEF Inside, ExecBegin, Wait, WaitTimeout, DropFlow, Ops
        <4> QED
          BY <2>1, <4>1 DEF Leads, Held
      <3> QED
        BY <1>1, <2>1, <2>3, <3>1, <3>2
    <2> QED
      BY <2>4, <2>5
  <1>6. CASE ModemRuns \/ ModemReset \/ UNCHANGED vars
    <2>1. UNCHANGED <<pc, sends, mySlot, slots>>
      BY <1>6, RunCases DEF ModemReset, vars, caller, object
    <2> QED
      BY <1>1, <2>1 DEF Active, Flow
  <1>7. ASSUME NEW r \in Slots, Urc(r)
        PROVE  (\A v, u \in Callers : Apart(v, u)') /\ (\A u \in Callers : Mine(u)')
    <2>1. UNCHANGED <<sends, mySlot, slots>>
          /\ \A u \in Callers : pc'[u] = pc[u] \/ (pc[u] = "asleep" /\ pc'[u] = "got")
      BY <1>7, UrcCases, UrcPlaces
    <2>2. \A u \in Callers : /\ Active(u)' <=> Active(u)
                             /\ pc'[u] \in Held /\ pc'[u] # "assign" =>
                                   pc[u] \in Held /\ pc[u] # "assign"
                             /\ Flow(u)' = Flow(u)
      BY <2>1 DEF Active, Held, Flow
    <2> QED
      BY <1>1, <2>1, <2>2
  <1> QED
    BY <1>3, <1>4, <1>5, <1>6, <1>7, StepKinds

LEMMA HoldersAreActive ==
  ASSUME Base, NEW t \in Callers, Holding(t)
  PROVE  Active(t)
  BY DEF Base, Living, Holding, Held, Active

-----------------------------------------------------------------------------
(* Commands and answers on a slot *)

LEMMA SettledIsActive ==
  ASSUME Base, NEW t \in Callers, Settled(t)
  PROVE  Active(t)
  BY HoldersAreActive DEF Settled, Active

\* A new command of another thread is for another slot.
LEMMA CreateStep ==
  ASSUME Base, CmdsArePast, ~crossed => OneUser /\ CreateIsLast, [Next]_vars, ~crossed'
  PROVE  CreateIsLast'
  <1>0. OneUser /\ CreateIsLast
    BY HistoryGrows
  <1> USE DEF Base
  <1>1. SUFFICES ASSUME NEW t \in Callers, pc'[t] = "creating",
                        NEW k \in DOMAIN cmds', cmds'[k].flow = Flow(t)'
                 PROVE  /\ cmds'[k].op = "create"
                        /\ \A l \in DOMAIN cmds' : l > k => cmds'[l].slot # mySlot'[t]
    BY DEF CreateIsLast
  <1>2. ASSUME pc[t] = "creating", mySlot'[t] = mySlot[t], Flow(t)' = Flow(t),
               cmds' = cmds
        PROVE  /\ cmds'[k].op = "create"
               /\ \A l \in DOMAIN cmds' : l > k => cmds'[l].slot # mySlot'[t]
    BY <1>0, <1>1, <1>2 DEF CreateIsLast
  <1>3. ASSUME NEW u \in Callers, Begin(u)
        PROVE  /\ cmds'[k].op = "create"
               /\ \A l \in DOMAIN cmds' : l > k => cmds'[l].slot # mySlot'[t]
    <2>1. u # t
      BY <1>1, <1>3, BeginFrame
    <2> QED
      BY <1>1, <1>2, <1>3, <2>1, BeginFrame
  <1>4. ASSUME NEW u \in Callers, Inside(u), ~ExecBegin(u)
        PROVE  /\ cmds'[k].op = "create"
               /\ \A l \in DOMAIN cmds' : l > k => cmds'[l].slot # mySlot'[t]
    <2>1. cmds' = cmds
      BY <1>4, OkCases, FailCases DEF Inside, Assign, Wait, WaitTimeout, DropFlow, modem
    <2>2. u # t
      <3>1. pc[u] # "create"
        BY <1>4, OkCases, FailCases DEF Inside, Assign, Wait, WaitTimeout, DropFlow
      <3> QED
        BY <1>1, <1>4, <3>1, InsideFrame DEF Leads
    <2> QED
      BY <1>1, <1>2, <1>4, <2>1, <2>2, InsideFrame
  <1>5. ASSUME NEW u \in Callers, ExecBegin(u)
        PROVE  /\ cmds'[k].op = "create"
               /\ \A l \in DOMAIN cmds' : l > k => cmds'[l].slot # mySlot'[t]
    <2>1. mySlot' = mySlot /\ (\A v \in Callers : Flow(v)' = Flow(v)) /\ Leads(pc[u], pc'[u])
          /\ (\A v \in Callers : v # u => pc'[v] = pc[v])
      BY <1>5, InsideFrame DEF Inside
    <2>2. CASE u = t
      <3>1. pc[t] = "create"
        BY <1>1, <2>1, <2>2 DEF Leads
      <3>2. ~(k \in DOMAIN cmds /\ cmds'[k] = cmds[k])
        <4>1. sends[t] \in Nat
          BY DEF Types
        <4> QED
          BY <1>1, <2>1, <3>1, <4>1 DEF CmdsArePast, Flow
      <3>3. /\ k = Len(cmds) + 1 /\ cmds'[k].op = pc[t]
            /\ DOMAIN cmds' = DOMAIN cmds \cup {Len(cmds) + 1}
        BY <1>1, <1>5, <2>2, <3>2, CmdsGrow
      <3>4. \A l \in DOMAIN cmds' : ~(l > k)
        BY <1>5, <3>3, CmdsGrow
      <3> QED
        BY <3>1, <3>3, <3>4
    <2>3. CASE u # t
      <3>1. pc[t] = "creating"
        BY <1>1, <2>1, <2>3
      <3>2. mySlot[u] # mySlot[t]
        BY <1>0, <2>1, <2>3, <3>1 DEF OneUser, Active, Leads
      <3>3. Flow(u) # Flow(t)
        BY <2>3, FlowType
      <3>4. k \in DOMAIN cmds /\ cmds'[k] = cmds[k]
        BY <1>1, <1>5, <2>1, <3>3, CmdsGrow
      <3>5. /\ cmds[k].op = "create"
            /\ \A l \in DOMAIN cmds : l > k => cmds[l].slot # mySlot[t]
        BY <1>0, <1>1, <2>1, <3>1, <3>4 DEF CreateIsLast
      <3>6. \A l \in DOMAIN cmds' : \/ l \in DOMAIN cmds /\ cmds'[l] = cmds[l]
                                    \/ cmds'[l].slot = mySlot[u]
        BY <1>5, CmdsGrow
      <3> QED
        BY <2>1, <3>2, <3>4, <3>5, <3>6
    <2> QED
      BY <2>2, <2>3
  <1>6. CASE ModemRuns
    <2>1. pc[t] = "creating" /\ mySlot' = mySlot /\ Flow(t)' = Flow(t)
      BY <1>1, <1>6, RunCases DEF Flow
    <2>2. k \in Nat /\ k + 1 \in DOMAIN cmds /\ cmds'[k] = cmds[k + 1]
      BY <1>1, <1>6, CmdsShrink
    <2>3. /\ cmds[k + 1].op = "create"
          /\ \A l \in DOMAIN cmds : l > k + 1 => cmds[l].slot # mySlot[t]
      BY <1>0, <1>1, <2>1, <2>2 DEF CreateIsLast
    <2>4. ASSUME NEW l \in DOMAIN cmds', l > k
          PROVE  cmds'[l].slot # mySlot[t]
      <3>1. l \in Nat /\ l + 1 \in DOMAIN cmds /\ cmds'[l] = cmds[l + 1]
        BY <1>6, CmdsShrink
      <3>2. l + 1 > k + 1
        BY <2>2, <2>4, <3>1
      <3> QED
        BY <2>3, <3>1, <3>2
    <2> QED
      BY <2>1, <2>2, <2>3, <2>4
  <1>7. CASE ModemReset
    BY <1>1, <1>7 DEF ModemReset
  <1>8. ASSUME NEW r \in Slots, Urc(r)
        PROVE  /\ cmds'[k].op = "create"
               /\ \A l \in DOMAIN cmds' : l > k => cmds'[l].slot # mySlot'[t]
    <2>1. pc[t] = "creating"
      BY <1>1, <1>8, UrcPlaces
    <2>2. mySlot' = mySlot /\ cmds' = cmds /\ Flow(t)' = Flow(t)
      BY <1>8, UrcCases DEF Flow
    <2> QED
      BY <1>2, <2>1, <2>2
  <1>9. CASE UNCHANGED vars
    BY <1>1, <1>2, <1>9 DEF vars, caller, modem, Flow
  <1> QED
    BY <1>3, <1>4, <1>5, <1>6, <1>7, <1>8, <1>9, StepKinds DEF Begin

\* The answer of t, when the Flow of t stays.
LEMMA AnswerStays ==
  ASSUME NEW t \in Callers, Flow(t)' = Flow(t)
  PROVE  \A n : First(t, n)' = First(t, n) /\ After(t, n)' = After(t, n)
  BY DEF First, After

\* A step that leaves the commands and the lines of t alone.
LEMMA OwnStays ==
  ASSUME NEW t \in Callers, CmdsAreOwn(t), AnswerIsOwn(t), cmds' = cmds,
         out'[mySlot[t]] = out[mySlot[t]], response'[t] = response[t],
         mySlot'[t] = mySlot[t], Flow(t)' = Flow(t),
         pc[t] \in Asking => pc'[t] \in Asking
  PROVE  CmdsAreOwn(t)' /\ AnswerIsOwn(t)'
  <1>1. CmdsAreOwn(t)'
    BY DEF CmdsAreOwn
  <1>2. Awaited(t)' => Awaited(t)
    BY DEF Awaited
  <1> QED
    BY <1>1, <1>2, AnswerStays DEF AnswerIsOwn

\* A step that leaves the place, the bit and the lines of t alone.
LEMMA BitStays ==
  ASSUME NEW t \in Callers, BitIsOwn(t), response'[t] = response[t],
         mySlot'[t] = mySlot[t], Flow(t)' = Flow(t), tidy'[t] = tidy[t],
         mySlot[t] \in events' => mySlot[t] \in events,
         Active(t)' => Active(t), pc'[t] = "got" => pc[t] = "got"
  PROVE  BitIsOwn(t)'
  BY AnswerStays DEF BitIsOwn

\* A call of send that begins leaves the others' answers alone.
LEMMA KeptBegin ==
  ASSUME Base, NEW t \in Callers, KeptFor(t), NEW u \in Callers, Begin(u)
  PROVE  KeptFor(t)'
  <1> USE DEF Base
  <1>1. Base'
    BY BaseStep DEF Next
  <1>2. CASE t # u
    <2>1. /\ pc'[t] = pc[t] /\ mySlot'[t] = mySlot[t] /\ tidy'[t] = tidy[t]
          /\ Flow(t)' = Flow(t)
          /\ UNCHANGED <<alive, response, events, cmds, out, obeyed>>
      BY <1>2, BeginFrame
    <2>2. Settled(t)' => Settled(t)
      BY <2>1 DEF Settled, Holding
    <2>3. Active(t)' => Active(t)
      BY <2>1 DEF Active
    <2> QED
      BY <2>1, <2>2, <2>3, OwnStays, BitStays DEF KeptFor
  <1>3. CASE t = u
    <2>1. pc'[t] \in {"idle", "create"}
      BY <1>3, BeginFrame
    <2>2. ~Settled(t)'
      BY <1>1, <2>1 DEF Settled, Holding, Living, Held
    <2>3. CASE Exhausted(t)
      <3>1. pc'[t] = "idle"
        BY <2>3 DEF Exhausted
      <3> QED
        BY <2>2, <3>1 DEF KeptFor, BitIsOwn, Active
    <2>4. ASSUME NEW s \in Slots, GetNext(t, s)
          PROVE  BitIsOwn(t)'
      <3>1. pc'[t] = "create" /\ mySlot'[t] = s /\ events' = events
            /\ tidy'[t] = (s \notin events)
        BY <2>4 DEF GetNext, Goto, object, Types
      <3> QED
        BY <3>1 DEF BitIsOwn
    <2> QED
      BY <1>3, <2>2, <2>3, <2>4 DEF Begin, KeptFor
  <1> QED
    BY <1>2, <1>3

\* A step of another thread inside send.
LEMMA KeptOthers ==
  ASSUME Base, OneUser, NEW t \in Callers, KeptFor(t),
         NEW u \in Callers, Inside(u), t # u
  PROVE  KeptFor(t)'
  <1> USE DEF Base
  <1>1. /\ pc'[t] = pc[t] /\ mySlot' = mySlot /\ tidy'[t] = tidy[t] /\ out' = out
        /\ response'[t] = response[t] /\ Flow(t)' = Flow(t) /\ obeyed'[t] = obeyed[t]
        /\ Leads(pc[u], pc'[u])
    BY InsideFrame
  <1>2. Holding(t)' => Holding(t)
    <2>1. Base'
      BY BaseStep DEF Next, Go, Inside, ExecEnd
    <2> QED
      BY <1>1, <2>1 DEF Holding, Living
  <1>3. /\ Settled(t)' => Settled(t)
        /\ Active(t)' => Active(t)
    BY <1>1, <1>2 DEF Settled, Active
  <1>4. events' \subseteq events
    BY OkCases, FailCases
       DEF Inside, ExecBegin, Assign, Wait, WaitTimeout, DropFlow, object
  <1>5. BitIsOwn(t)'
    BY <1>1, <1>3, <1>4, BitStays DEF KeptFor
  <1>6. CASE ~ExecBegin(u)
    <2>1. cmds' = cmds
      BY <1>6, OkCases, FailCases DEF Inside, Assign, Wait, WaitTimeout, DropFlow, modem
    <2> QED
      BY <1>1, <1>3, <1>5, <2>1, OwnStays DEF KeptFor
  <1>7. ASSUME ExecBegin(u), Settled(t)
        PROVE  CmdsAreOwn(t)' /\ AnswerIsOwn(t)'
    <2>1. mySlot[u] # mySlot[t]
      BY <1>1, <1>7, SettledIsActive DEF OneUser, Active, Leads
    <2>2. CmdsAreOwn(t) /\ AnswerIsOwn(t)
      BY <1>7 DEF KeptFor
    <2>3. /\ \A k \in DOMAIN cmds' : cmds'[k].slot = mySlot[t] =>
                k \in DOMAIN cmds /\ cmds'[k] = cmds[k]
      BY <1>7, <2>1, CmdsGrow
    <2>4. CmdsAreOwn(t)'
      BY <1>1, <2>2, <2>3 DEF CmdsAreOwn
    <2>5. Awaited(t)' => Awaited(t)
      BY <1>1, <2>3 DEF Awaited
    <2> QED
      BY <1>1, <2>2, <2>4, <2>5, AnswerStays DEF AnswerIsOwn
  <1> QED
    BY <1>3, <1>5, <1>6, <1>7 DEF KeptFor

\* The own steps of a thread.
LEMMA KeptOwn ==
  ASSUME Base, CmdsArePast, NEW t \in Callers, KeptFor(t), Inside(t), ~wrongOk'
  PROVE  KeptFor(t)'
  <1> USE DEF Base
  <1>0. Base'
    BY BaseStep DEF Next, Go, Inside, ExecEnd
  <1>1. /\ mySlot' = mySlot /\ out' = out /\ Flow(t)' = Flow(t) /\ Leads(pc[t], pc'[t])
    BY InsideFrame
  <1>2. Settled(t)' <=> pc'[t] \in Held \/ (pc'[t] = "creating" /\ obeyed'[t])
    BY <1>0 DEF Settled, Holding, Living
  <1>3. Settled(t) <=> pc[t] \in Held \/ (pc[t] = "creating" /\ obeyed[t])
    BY DEF Settled, Holding, Living
  <1>4. pc[t] \in Asking /\ pc'[t] \in Held => pc'[t] \in Asking
    BY <1>1 DEF Asking, Held, Leads
  <1>5. Active(t)
    BY <1>1 DEF Active, Leads
  <1>6. CASE ExecBegin(t)
    <2>1. UNCHANGED <<response, events, tidy, obeyed>>
      BY <1>6 DEF ExecBegin, object, history
    <2>2. BitIsOwn(t)'
      <3>1. pc'[t] # "got"
        BY <1>6, BeginCases DEF Types
      <3> QED
        BY <1>1, <1>5, <2>1, <3>1, BitStays DEF KeptFor
    <2>3. ASSUME Settled(t)'
          PROVE  CmdsAreOwn(t)' /\ AnswerIsOwn(t)'
      <3>1. pc[t] \in {"connect", "request"}
        <4>1. pc[t] \in Ops /\ pc[t] # "destroy"
          <5>1. pc[t] \in Ops
            BY <1>6 DEF ExecBegin
          <5>2. pc[t] = "destroy" => pc'[t] = "destroying"
            BY <1>1 DEF Leads
          <5> QED
            BY <1>2, <2>3, <5>1, <5>2 DEF Held
        <4>2. pc[t] # "create"
          <5>1. ASSUME pc[t] = "create"
                PROVE  FALSE
            <6>1. pc'[t] \in {"creating"}
              BY <1>1, <5>1 DEF Leads
            <6>2. obeyed[t]
              BY <1>2, <2>1, <2>3, <6>1 DEF Held
            <6>3. pc[t] \in {"creating", "connecting", "requesting", "destroying"}
              BY <6>2, PlaceFacts DEF CmdsArePast
            <6> QED
              BY <5>1, <6>3
          <5> QED
            BY <5>1
        <4> QED
          BY <4>1, <4>2 DEF Ops
      <3>2. /\ CmdsAreOwn(t) /\ AnswerIsOwn(t) /\ pc[t] \notin Asking
            /\ pc[t] = "request" => pc'[t] \in Asking
        BY <1>1, <1>3, <3>1 DEF KeptFor, Held, Asking, Leads
      <3>3. response[t] = <<>> /\ out[mySlot[t]] = <<>>
        BY <3>2 DEF AnswerIsOwn, Awaited
      <3>4. AnswerIsOwn(t)'
        BY <1>1, <2>1, <3>2, <3>3, AnswerStays DEF AnswerIsOwn
      <3>5. CASE cmds' = cmds
        BY <1>1, <3>2, <3>4, <3>5 DEF CmdsAreOwn
      <3>6. CASE cmds' # cmds
        <4> DEFINE m == Len(cmds) + 1
        <4>1. /\ DOMAIN cmds' = DOMAIN cmds \cup {m}
              /\ \A k \in DOMAIN cmds : cmds'[k] = cmds[k]
              /\ cmds'[m].op = pc[t] /\ cmds'[m].slot = mySlot[t]
              /\ cmds'[m].flow = Flow(t)
          BY <1>6, <3>6, CmdsGrow
        <4> HIDE DEF m
        <4>2. \A k \in DOMAIN cmds : cmds[k].slot = mySlot[t] =>
                 /\ cmds[k].op \in {"connect", "request"} /\ cmds[k].flow = Flow(t)
                 /\ cmds[k].op # "request"
          BY <3>2 DEF CmdsAreOwn
        <4>3. ASSUME NEW k \in DOMAIN cmds', cmds'[k].slot = mySlot[t]
              PROVE  /\ cmds'[k].op \in {"connect", "request"}
                     /\ cmds'[k].flow = Flow(t)
                     /\ cmds'[k].op = "request" => k = m /\ pc'[t] \in Asking
          BY <3>1, <3>2, <4>1, <4>2, <4>3
        <4> QED
          BY <1>1, <3>4, <4>3 DEF CmdsAreOwn
      <3> QED
        BY <3>5, <3>6
    <2> QED
      BY <2>2, <2>3 DEF KeptFor
  <1>7. CASE ExecOk(t) \/ ExecFail(t) \/ Assign(t) \/ WaitTimeout(t)
    <2>1. UNCHANGED <<response, events, tidy, cmds>> /\ pc'[t] # "got"
      <3>1. CASE ExecOk(t)
        BY <3>1, OkCases DEF Types
      <3>2. CASE ExecFail(t)
        BY <3>2, FailCases DEF Types
      <3>3. CASE Assign(t)
        BY <3>3 DEF Assign, Goto, modem, history, Types
      <3>4. CASE WaitTimeout(t)
        BY <3>4 DEF WaitTimeout, Goto, object, modem, Types
      <3> QED
        BY <1>7, <3>1, <3>2, <3>3, <3>4
    <2>2. BitIsOwn(t)'
      BY <1>1, <1>5, <2>1, BitStays DEF KeptFor
    <2>3. Settled(t)' => Settled(t) /\ pc'[t] \in Held
      <3>1. CASE ExecOk(t)
        <4>1. obeyed[t] /\ ~obeyed'[t]
          BY <3>1, OkCases DEF Types
        <4> QED
          BY <1>1, <1>2, <1>3, <4>1 DEF Held, Leads
      <3>2. CASE ExecFail(t)
        <4>1. pc'[t] \in Held => pc[t] \in Held
          BY <3>2, FailCases DEF Held, Types
        <4>2. ~obeyed'[t]
          BY <3>2, FailCases DEF Types
        <4> QED
          BY <1>2, <1>3, <4>1, <4>2
      <3>3. CASE Assign(t) \/ WaitTimeout(t)
        BY <1>1, <1>2, <1>3, <3>3 DEF Assign, WaitTimeout, Held, Leads
      <3> QED
        BY <1>7, <3>1, <3>2, <3>3
    <2> QED
      BY <1>1, <1>4, <2>1, <2>2, <2>3, OwnStays DEF KeptFor
  <1>8. CASE Wait(t)
    <2>1. /\ UNCHANGED <<response, tidy, cmds>> /\ pc[t] = "wait"
          /\ pc'[t] = IF mySlot[t] \in events THEN "got" ELSE "asleep"
          /\ events' = events \ {mySlot[t]}
      BY <1>8 DEF Wait, Goto, modem, history, Types
    <2>2. BitIsOwn(t)'
      BY <1>1, <1>5, <2>1, AnswerStays DEF KeptFor, BitIsOwn
    <2>3. Settled(t) /\ pc'[t] \in Asking
      BY <1>3, <2>1 DEF Held, Asking
    <2> QED
      BY <1>1, <2>1, <2>2, <2>3, OwnStays DEF KeptFor
  <1>9. CASE DropFlow(t)
    <2>1. pc'[t] = "destroy" /\ ~tidy'[t]
      BY <1>9 DEF DropFlow, Goto, Types
    <2> QED
      BY <1>2, <2>1 DEF KeptFor, BitIsOwn, Held
  <1> QED
    BY <1>6, <1>7, <1>8, <1>9 DEF Inside

\* The modem loses what it was asked and what it had to send.
LEMMA KeptReset ==
  ASSUME NEW t \in Callers, KeptFor(t), ModemReset, Types
  PROVE  KeptFor(t)'
  <1>1. /\ UNCHANGED <<pc, sends, mySlot, alive, response, events, obeyed, tidy>>
        /\ cmds' = <<>> /\ out' = [s \in Slots |-> <<>>]
    BY DEF ModemReset, caller, object, history
  <1>2. Flow(t)' = Flow(t) /\ (Settled(t)' <=> Settled(t)) /\ (Active(t)' <=> Active(t))
    BY <1>1 DEF Settled, Holding, Active, Flow
  <1>3. BitIsOwn(t)'
    BY <1>1, <1>2, BitStays DEF KeptFor
  <1>4. ASSUME Settled(t)
        PROVE  CmdsAreOwn(t)' /\ AnswerIsOwn(t)'
    <2>1. CmdsAreOwn(t)'
      BY <1>1 DEF CmdsAreOwn
    <2>2. Awaited(t)' => Awaited(t)
      BY <1>1 DEF Awaited
    <2>3. out'[mySlot[t]] = <<>>
      BY <1>1 DEF Types
    <2> QED
      BY <1>1, <1>2, <1>4, <2>1, <2>2, <2>3, AnswerStays DEF AnswerIsOwn, KeptFor
  <1> QED
    BY <1>2, <1>3, <1>4 DEF KeptFor

\* The answer of a Flow: its parts, and how a line goes from the one to the other.
LEMMA AnswerParts ==
  ASSUME Types, NEW t \in Callers, NEW n \in 0 .. Lines
  PROVE  /\ Len(First(t, n)) = n /\ Len(After(t, n)) = Lines - n
         /\ First(t, n) \in Seq(Line) /\ After(t, n) \in Seq(Line)
         /\ \A k \in 1 .. n : First(t, n)[k] = <<Flow(t), k>>
         /\ \A k \in 1 .. Lines - n : After(t, n)[k] = <<Flow(t), n + k>>
  <1>1. Lines \in Nat /\ n \in Nat /\ Lines - n \in Nat
    BY HttpAssumption
  <1>2. First(t, n) \in Seq(Line) /\ After(t, n) \in Seq(Line)
    BY AnswerType
  <1>3. DOMAIN First(t, n) = 1 .. n /\ DOMAIN After(t, n) = 1 .. Lines - n
    BY DEF First, After
  <1> QED
    BY <1>1, <1>2, <1>3, LenProperties DEF First, After

\* At first nothing has come, at last nothing is to come.
LEMMA FirstIsEmpty ==
  ASSUME Types, NEW t \in Callers
  PROVE  First(t, 0) = <<>> /\ After(t, Lines) = <<>>
         /\ After(t, 0) = [k \in 1 .. Lines |-> <<Flow(t), k>>]
  <1>1. Lines \in Nat /\ 0 \in 0 .. Lines /\ Lines \in 0 .. Lines
    BY HttpAssumption
  <1>2. Len(First(t, 0)) = 0 /\ First(t, 0) \in Seq(Line)
    BY <1>1, AnswerParts
  <1>3. Len(After(t, Lines)) = 0 /\ After(t, Lines) \in Seq(Line)
    BY <1>1, AnswerParts
  <1>4. Lines - 0 = Lines /\ \A k \in 1 .. Lines : 0 + k = k
    BY <1>1
  <1> QED
    BY <1>2, <1>3, <1>4, EmptySeq DEF After

\* The next line of the rest is the next line of the response.
LEMMA LineMoves ==
  ASSUME Types, NEW t \in Callers, NEW n \in 0 .. Lines, After(t, n) # <<>>
  PROVE  /\ n + 1 \in 0 .. Lines
         /\ Append(First(t, n), Head(After(t, n))) = First(t, n + 1)
         /\ Tail(After(t, n)) = After(t, n + 1)
  <1> DEFINE f == First(t, n)
             a == After(t, n)
  <1>0. Lines \in Nat /\ n \in Nat
    BY HttpAssumption
  <1>1. /\ f \in Seq(Line) /\ a \in Seq(Line) /\ Len(f) = n /\ Len(a) = Lines - n
        /\ \A k \in 1 .. n : f[k] = <<Flow(t), k>>
        /\ \A k \in 1 .. Lines - n : a[k] = <<Flow(t), n + k>>
    BY AnswerParts
  <1>2. a # <<>>
    OBVIOUS
  <1> HIDE DEF f, a
  <1>3. Len(a) > 0
    BY <1>1, <1>2, EmptySeq, LenProperties
  <1>4. n < Lines /\ n + 1 \in 0 .. Lines /\ 1 \in 1 .. Lines - n
    BY <1>0, <1>1, <1>3
  <1>5. /\ Len(First(t, n + 1)) = n + 1 /\ First(t, n + 1) \in Seq(Line)
        /\ \A k \in 1 .. n + 1 : First(t, n + 1)[k] = <<Flow(t), k>>
        /\ Len(After(t, n + 1)) = Lines - (n + 1) /\ After(t, n + 1) \in Seq(Line)
        /\ \A k \in 1 .. Lines - (n + 1) : After(t, n + 1)[k] = <<Flow(t), n + 1 + k>>
    BY <1>4, AnswerParts
  <1>6. Head(a) = <<Flow(t), n + 1>> /\ Head(a) \in Line
    BY <1>1, <1>2, <1>4, HeadTailProperties
  <1>7. Append(f, Head(a)) = First(t, n + 1)
    <2> DEFINE g == Append(f, Head(a))
    <2>1. /\ g \in Seq(Line) /\ Len(g) = n + 1 /\ g[n + 1] = <<Flow(t), n + 1>>
          /\ \A k \in 1 .. n : g[k] = f[k]
      BY <1>1, <1>6, AppendProperties
    <2> HIDE DEF g
    <2>2. ASSUME NEW k \in 1 .. n + 1
          PROVE  g[k] = First(t, n + 1)[k]
      <3>1. CASE k = n + 1
        BY <1>5, <2>1, <3>1
      <3>2. CASE k # n + 1
        <4>1. k \in 1 .. n
          BY <1>0, <3>2
        <4> QED
          BY <1>1, <1>5, <2>1, <4>1
      <3> QED
        BY <3>1, <3>2
    <2>3. g = First(t, n + 1)
      BY <1>5, <2>1, <2>2, SeqEqual
    <2> QED
      BY <2>3 DEF g
  <1>8. Tail(a) = After(t, n + 1)
    <2>1. /\ Tail(a) \in Seq(Line) /\ Len(Tail(a)) = Lines - (n + 1)
          /\ \A k \in 1 .. Len(Tail(a)) : Tail(a)[k] = a[k + 1]
      BY <1>0, <1>1, <1>2, HeadTailProperties
    <2>2. ASSUME NEW k \in 1 .. Lines - (n + 1)
          PROVE  Tail(a)[k] = After(t, n + 1)[k]
      <3>1. k + 1 \in 1 .. Lines - n /\ n + (k + 1) = n + 1 + k
        BY <1>0, <1>4
      <3> QED
        BY <1>1, <1>5, <2>1, <3>1
    <2> QED
      BY <1>5, <2>1, <2>2, SeqEqual
  <1> QED
    BY <1>4, <1>7, <1>8 DEF f, a

\* A command is carried out: the answer is made, or room is made for it.
LEMMA KeptRuns ==
  ASSUME Base, CmdsArePast, NothingYet, CreateIsLast, NEW t \in Callers, KeptFor(t),
         ModemRuns
  PROVE  KeptFor(t)'
  <1> USE DEF Base
  <1> DEFINE c == Head(cmds)
             s == mySlot[t]
  <1>1. /\ UNCHANGED <<pc, sends, mySlot, alive, response, events, tidy>>
        /\ c = cmds[1] /\ 1 \in DOMAIN cmds /\ c.op \in Ops /\ s \in Slots
    BY RunCases, CmdsShrink DEF Types
  <1>2. Flow(t)' = Flow(t) /\ (Active(t)' <=> Active(t)) /\ (Holding(t)' <=> Holding(t))
    BY <1>1 DEF Flow, Active, Holding
  <1>3. BitIsOwn(t)'
    BY <1>1, <1>2, BitStays DEF KeptFor
  <1>4. \A k \in DOMAIN cmds' : /\ k \in Nat /\ k >= 1 /\ k + 1 \in DOMAIN cmds
                                /\ cmds'[k] = cmds[k + 1]
    BY CmdsShrink
  <1>5. ASSUME Settled(t)
        PROVE  CmdsAreOwn(t)' /\ AnswerIsOwn(t)'
    <2>1. CmdsAreOwn(t) /\ AnswerIsOwn(t)
      BY <1>5 DEF KeptFor
    <2>2. CmdsAreOwn(t)'
      <3>1. ASSUME NEW k \in DOMAIN cmds', cmds'[k].slot = s
            PROVE  /\ cmds'[k].op \in {"connect", "request"} /\ cmds'[k].flow = Flow(t)
                   /\ cmds'[k].op = "request" => pc[t] \in Asking
        BY <1>4, <2>1, <3>1 DEF CmdsAreOwn
      <3>2. ASSUME NEW k \in DOMAIN cmds', NEW l \in DOMAIN cmds',
                   cmds'[k].slot = s, cmds'[k].op = "request",
                   cmds'[l].slot = s, cmds'[l].op = "request"
            PROVE  k = l
        <4>1. k + 1 = l + 1
          BY <1>4, <2>1, <3>2 DEF CmdsAreOwn
        <4> QED
          BY <1>4, <4>1
      <3> QED
        BY <1>1, <1>2, <3>1, <3>2 DEF CmdsAreOwn
    <2>3. Awaited(t)' => Awaited(t)
      BY <1>1, <1>4 DEF Awaited
    <2>4. CASE c.slot # s \/ c.op = "connect"
      <3>1. out'[s] = out[s]
        BY <1>1, <2>4, RunCases
      <3> QED
        BY <1>1, <1>2, <2>1, <2>2, <2>3, <3>1, AnswerStays DEF AnswerIsOwn
    <2>5. CASE c.slot = s /\ c.op # "connect"
      <3>1. c.op = "request" /\ c.flow = Flow(t) /\ pc[t] \in Asking
        BY <1>1, <2>1, <2>5 DEF CmdsAreOwn
      <3>2. out'[s] = After(t, 0)
        <4>1. out'[s] = [k \in 1 .. Lines |-> <<c.flow, k>>]
          BY <1>1, <2>5, <3>1, RunCases
        <4> QED
          BY <3>1, <4>1, FirstIsEmpty
      <3>3. response[t] = First(t, 0)
        BY <1>1, <2>1, <2>5, <3>1, FirstIsEmpty DEF AnswerIsOwn, Awaited
      <3>4. ~Awaited(t)'
        <4>1. ASSUME NEW k \in DOMAIN cmds', cmds'[k].slot = s,
                     cmds'[k].op = "request"
              PROVE  FALSE
          <5>1. k + 1 = 1
            BY <1>1, <1>4, <2>1, <2>5, <3>1, <4>1 DEF CmdsAreOwn
          <5> QED
            BY <1>4, <5>1
        <4> QED
          BY <1>1, <3>1, <4>1 DEF Awaited
      <3>5. 0 \in 0 .. Lines
        BY HttpAssumption
      <3> QED
        BY <1>1, <1>2, <2>2, <3>2, <3>3, <3>4, <3>5, AnswerStays DEF AnswerIsOwn
    <2> QED
      BY <2>4, <2>5
  <1>6. ASSUME ~Settled(t), Settled(t)'
        PROVE  CmdsAreOwn(t)' /\ AnswerIsOwn(t)'
    <2>1. pc[t] = "creating" /\ ~Holding(t) /\ obeyed'[t] /\ ~obeyed[t]
      BY <1>1, <1>2, <1>6 DEF Settled
    <2>2. c.flow = Flow(t)
      BY <2>1, RunCases
    <2>3. /\ c.op = "create"
          /\ \A l \in DOMAIN cmds : l > 1 => cmds[l].slot # s
      BY <1>1, <2>1, <2>2 DEF CreateIsLast
    <2>4. c.slot = s
      <3>1. sends[t] \in Nat
        BY DEF Types
      <3> QED
        BY <1>1, <2>2, <3>1 DEF CmdsArePast, Flow
    <2>5. out'[s] = <<>>
      BY <1>1, <2>3, <2>4, RunCases
    <2>6. response[t] = <<>>
      BY <2>1 DEF NothingYet
    <2>7. \A k \in DOMAIN cmds' : cmds'[k].slot # s
      BY <1>4, <2>3
    <2>8. CmdsAreOwn(t)'
      BY <1>1, <2>7 DEF CmdsAreOwn
    <2>9. 0 \in 0 .. Lines /\ First(t, 0) = <<>>
      BY HttpAssumption, FirstIsEmpty
    <2> QED
      BY <1>1, <1>2, <2>5, <2>6, <2>8, <2>9, AnswerStays DEF AnswerIsOwn
  <1> QED
    BY <1>3, <1>5, <1>6 DEF KeptFor

\* The handling of a line.
LEMMA KeptUrc ==
  ASSUME Base, SlotsArePast, NothingYet, OneUser, NEW t \in Callers, KeptFor(t),
         NEW r \in Slots, Urc(r)
  PROVE  KeptFor(t)'
  <1> USE DEF Base
  <1> DEFINE s == mySlot[t]
  <1>1. /\ UNCHANGED <<sends, mySlot, slots, alive, cmds, obeyed, tidy>>
        /\ s \in Slots /\ out[r] # <<>> /\ out' = [out EXCEPT ![r] = Tail(@)]
        /\ \/ pc'[t] = pc[t]
           \/ pc[t] = "asleep" /\ pc'[t] = "got" /\ s = r
    BY UrcCases, UrcPlaces DEF Types
  <1>2. Flow(t)' = Flow(t) /\ (Active(t)' <=> Active(t)) /\ (Settled(t)' <=> Settled(t))
    BY <1>1 DEF Flow, Active, Settled, Holding
  <1>3. pc[t] \in Asking => pc'[t] \in Asking
    BY <1>1 DEF Asking
  <1>4. slots[r] = Flow(t) => s = r /\ pc[t] \notin {"create", "creating", "assign"}
    <2>1. sends[t] \in Nat
      BY DEF Types
    <2> QED
      BY <2>1 DEF SlotsArePast, Flow
  <1>5. CASE ~(Flow(t) = slots[r] /\ ~Expired(r))
    <2>1. response'[t] = response[t]
      BY <1>5, UrcLines
    <2>2. ~Active(t) \/ s # r \/ Expired(r)
      <3>1. ASSUME Active(t), s = r, ~Expired(r)
            PROVE  FALSE
        <4>1. PICK w \in Callers : slots[r] = Flow(w) /\ Holding(w)
          BY <3>1 DEF Expired, AliveIsNow, Holding
        <4>2. mySlot[w] = r /\ Active(w)
          <5>1. sends[w] \in Nat
            BY DEF Types
          <5> QED
            BY <4>1, <5>1, HoldersAreActive DEF SlotsArePast, Flow
        <4>3. w = t
          BY <3>1, <4>2 DEF OneUser
        <4> QED
          BY <1>5, <3>1, <4>1, <4>3
      <3> QED
        BY <3>1
    <2>3. ~Settled(t) \/ s # r
      <3>1. ASSUME Settled(t), s = r
            PROVE  FALSE
        <4>1. Expired(r)
          BY <2>2, <3>1, SettledIsActive
        <4>2. CASE Holding(t) /\ pc[t] # "assign"
          BY <3>1, <4>1, <4>2 DEF OneUser, Expired, Holding
        <4>3. CASE pc[t] \in {"creating", "assign"}
          BY <1>1, <3>1, <4>3 DEF KeptFor, AnswerIsOwn, Awaited, Asking
        <4> QED
          BY <3>1, <4>2, <4>3 DEF Settled
      <3> QED
        BY <3>1
    <2>4. CASE s # r
      <3>1. out'[s] = out[s] /\ pc'[t] = pc[t]
        BY <1>1, <2>4 DEF Types
      <3>2. s \in events' => s \in events
        BY <2>4, UrcCases DEF SetDone
      <3>3. BitIsOwn(t)'
        BY <1>1, <1>2, <2>1, <3>1, <3>2, BitStays DEF KeptFor
      <3> QED
        BY <1>1, <1>2, <1>3, <2>1, <3>1, <3>3, OwnStays DEF KeptFor
    <2>5. CASE Expired(r)
      <3>1. UNCHANGED <<pc, events>>
        BY <2>5, UrcCases
      <3>2. BitIsOwn(t)'
        BY <1>1, <1>2, <2>1, <3>1, BitStays DEF KeptFor
      <3> QED
        BY <1>2, <2>3, <2>4, <3>2 DEF KeptFor
    <2>6. CASE ~Active(t)
      <3>1. ~Settled(t)
        BY <2>6, SettledIsActive
      <3>2. pc'[t] # "got"
        BY <1>2, <2>6 DEF Active
      <3> QED
        BY <1>2, <2>6, <3>1, <3>2 DEF KeptFor, BitIsOwn
    <2> QED
      BY <2>2, <2>4, <2>5, <2>6
  <1>6. CASE Flow(t) = slots[r] /\ ~Expired(r)
    <2>1. /\ s = r /\ Holding(t) /\ Settled(t) /\ Active(t)
          /\ pc[t] \notin {"create", "creating", "assign"}
      BY <1>4, <1>6, HoldersAreActive DEF Expired, Holding, Settled
    <2>2. CmdsAreOwn(t) /\ AnswerIsOwn(t) /\ BitIsOwn(t)
      BY <2>1 DEF KeptFor
    <2>3. ~Awaited(t)
      BY <1>1, <2>1, <2>2 DEF AnswerIsOwn
    <2>4. PICK n \in 0 .. Lines : response[t] = First(t, n) /\ out[s] = After(t, n)
      BY <1>1, <2>1, <2>2 DEF AnswerIsOwn
    <2>5. After(t, n) # <<>>
      BY <1>1, <2>1, <2>4
    <2>6. /\ n + 1 \in 0 .. Lines
          /\ response'[t] = First(t, n + 1) /\ out'[s] = After(t, n + 1)
      <3>1. response'[t] = Append(response[t], Head(out[s]))
        BY <1>6, <2>1, UrcLines
      <3>2. out'[s] = Tail(out[s])
        BY <1>1, <2>1 DEF Types
      <3> QED
        BY <2>4, <2>5, <3>1, <3>2, LineMoves
    <2>7. ~Awaited(t)'
      BY <1>1, <1>3, <2>3 DEF Awaited
    <2>8. CmdsAreOwn(t)'
      BY <1>1, <1>2, <1>3, <2>2 DEF CmdsAreOwn
    <2>9. AnswerIsOwn(t)'
      BY <1>1, <1>2, <2>6, <2>7, AnswerStays DEF AnswerIsOwn
    <2>10. ~(tidy[t] /\ s \in events) /\ ~(pc[t] = "got" /\ tidy[t])
      <3>1. response[t] # First(t, Lines)
        <4>1. Lines \in 0 .. Lines /\ n # Lines
          BY <2>5, FirstIsEmpty, HttpAssumption
        <4> QED
          BY <2>4, <4>1, AnswerParts
      <3> QED
        BY <2>1, <2>2, <3>1 DEF BitIsOwn
    <2>11. BitIsOwn(t)'
      <3>1. CASE Len(out[r]) # 1
        <4>1. UNCHANGED <<pc, events>>
          BY <1>6, <3>1, UrcCases
        <4> QED
          BY <1>1, <2>10, <4>1 DEF BitIsOwn
      <3>2. CASE Len(out[r]) = 1
        <4>1. n + 1 = Lines
          <5>1. Len(After(t, n)) = Lines - n /\ Lines \in Nat /\ n \in Nat
            BY AnswerParts, HttpAssumption
          <5> QED
            <6>1. Len(out[r]) = Len(After(t, n))
              BY <2>1, <2>4
            <6>2. Lines - n = 1
              BY <3>2, <5>1, <6>1, Zenon
            <6> QED
              BY <5>1, <6>2
        <4>2. response'[t] = First(t, Lines)
          BY <2>6, <4>1
        <4>3. SetDone(r)
          BY <1>6, <3>2, UrcCases
        <4>4. pc'[t] = "got" /\ tidy'[t] => s \notin events'
          <5>1. ASSUME pc'[t] = "got", tidy'[t]
                PROVE  s \notin events'
            <6>1. pc[t] = "asleep"
              BY <1>1, <2>10, <5>1
            <6>2. events' = events /\ s \notin events
              BY <2>1, <4>3, <6>1 DEF SetDone, NothingYet
            <6> QED
              BY <6>2
          <5> QED
            BY <5>1
        <4> QED
          BY <1>1, <1>2, <4>2, <4>4, AnswerStays DEF BitIsOwn
      <3> QED
        BY <3>1, <3>2
    <2> QED
      BY <2>8, <2>9, <2>11 DEF KeptFor
  <1> QED
    BY <1>5, <1>6

LEMMA KeptStep ==
  ASSUME Base, SlotsArePast, CmdsArePast, NothingYet, OneUser, CreateIsLast, Kept,
         [Next]_vars, ~wrongOk'
  PROVE  Kept'
  <1>1. SUFFICES ASSUME NEW t \in Callers
                 PROVE  KeptFor(t)'
    BY DEF Kept
  <1>2. KeptFor(t)
    BY DEF Kept
  <1>3. ASSUME NEW u \in Callers, Begin(u)
        PROVE  KeptFor(t)'
    BY <1>2, <1>3, KeptBegin
  <1>4. ASSUME NEW u \in Callers, Inside(u)
        PROVE  KeptFor(t)'
    BY <1>2, <1>4, KeptOwn, KeptOthers
  <1>5. CASE ModemRuns
    BY <1>2, <1>5, KeptRuns
  <1>6. CASE ModemReset
    BY <1>2, <1>6, KeptReset DEF Base
  <1>7. ASSUME NEW r \in Slots, Urc(r)
        PROVE  KeptFor(t)'
    BY <1>2, <1>7, KeptUrc
  <1>8. CASE UNCHANGED vars
    <2>1. UNCHANGED <<pc, sends, mySlot, alive, response, events, cmds, out, obeyed, tidy>>
      BY <1>8 DEF vars, caller, object, modem, history
    <2>2. Flow(t)' = Flow(t) /\ (Settled(t)' <=> Settled(t)) /\ (Active(t)' <=> Active(t))
      BY <2>1 DEF Flow, Settled, Holding, Active
    <2> QED
      BY <1>2, <2>1, <2>2, OwnStays, BitStays DEF KeptFor
  <1> QED
    BY <1>3, <1>4, <1>5, <1>6, <1>7, <1>8, StepKinds DEF Begin

-----------------------------------------------------------------------------
(* What is left behind *)

\* Without failures every bit is received by the thread it is meant for.
LEMMA TidyStep ==
  ASSUME Base, SlotsArePast, NothingYet, OneUser, Kept, AllTidy, [Next]_vars,
         ~crossed', ~failed'
  PROVE  AllTidy'
  <1> USE DEF Base
  <1>0. Base' /\ ~failed
    BY BaseStep, HistoryGrows
  <1> DEFINE Tidied(t) == pc[t] \notin {"idle", "terminated", "destroy", "destroying"}
                             => tidy[t]
             Used(s) == \E t \in Callers : pc[t] \in Held /\ mySlot[t] = s
  <1>1. (\A t \in Callers : Tidied(t)) /\ (\A s \in events : Used(s))
    BY DEF AllTidy, Active, Holding, Living
  <1>2. SUFFICES (\A t \in Callers : Tidied(t)') /\ (\A s \in events' : Used(s)')
    BY <1>0 DEF AllTidy, Active, Holding, Living
  <1>3. ASSUME NEW t \in Callers, Begin(t)
        PROVE  (\A u \in Callers : Tidied(u)') /\ (\A s \in events' : Used(s)')
    <2>1. /\ pc[t] = "idle" /\ events' = events
          /\ \A u \in Callers : u # t => /\ pc'[u] = pc[u] /\ mySlot'[u] = mySlot[u]
                                         /\ tidy'[u] = tidy[u]
      BY <1>3, BeginFrame
    <2>2. \A s \in events' : Used(s)'
      BY <1>1, <2>1 DEF Held
    <2>3. CASE Exhausted(t)
      BY <1>1, <2>1, <2>2, <2>3 DEF Exhausted
    <2>4. ASSUME NEW s \in Slots, GetNext(t, s)
          PROVE  Tidied(t)'
      <3>1. s \notin events
        <4>1. ASSUME s \in events
              PROVE  FALSE
          <5>1. PICK u \in Callers : pc[u] \in Held /\ mySlot[u] = s
            BY <1>1, <4>1
          <5>2. Active(u) /\ u # t
            BY <2>1, <5>1 DEF Active, Held
          <5> QED
            BY <2>4, <5>1, <5>2, SlotIsFree
        <4> QED
          BY <4>1
      <3> QED
        BY <2>4, <3>1 DEF GetNext, Types
    <2> QED
      BY <1>1, <1>3, <2>1, <2>2, <2>3, <2>4 DEF Begin
  <1>4. ASSUME NEW t \in Callers, Inside(t)
        PROVE  (\A u \in Callers : Tidied(u)') /\ (\A s \in events' : Used(s)')
    <2>1. /\ mySlot' = mySlot /\ Leads(pc[t], pc'[t])
          /\ \A u \in Callers : u # t => pc'[u] = pc[u] /\ tidy'[u] = tidy[u]
      BY <1>4, InsideFrame
    <2>2. events' \subseteq events
      BY <1>4, OkCases, FailCases
         DEF Inside, ExecBegin, Assign, Wait, WaitTimeout, DropFlow, object
    <2>3. CASE DropFlow(t)
      <3>1. pc[t] \in {"got", "drop"} /\ pc'[t] = "destroy" /\ events' = events
        BY <2>3 DEF DropFlow, Goto, Types
      <3>2. pc[t] = "got"
        BY <1>0, <3>1 DEF NothingYet
      <3>3. mySlot[t] \notin events
        BY <1>1, <3>2 DEF Kept, KeptFor, BitIsOwn
      <3>4. \A s \in events' : Used(s)'
        BY <1>1, <2>1, <3>1, <3>3
      <3> QED
        BY <1>1, <2>1, <3>1, <3>4
    <2>4. CASE ~DropFlow(t)
      <3>1. tidy' = tidy
        BY <1>4, <2>4, OkCases, FailCases
           DEF Inside, ExecBegin, Assign, Wait, WaitTimeout, history
      <3>2. pc[t] \in Held => pc'[t] \in Held
        <4>1. pc[t] \notin {"got", "drop"}
          BY <1>4, <2>4, OkCases, FailCases
             DEF Inside, ExecBegin, Ops, Assign, Wait, WaitTimeout
        <4> QED
          BY <2>1, <4>1 DEF Leads, Held
      <3>3. Tidied(t)'
        BY <1>1, <2>1, <3>1 DEF Leads
      <3>4. \A s \in events' : Used(s)'
        BY <1>1, <2>1, <2>2, <3>2
      <3> QED
        BY <1>1, <2>1, <3>3, <3>4
    <2> QED
      BY <2>3, <2>4
  <1>5. CASE ModemRuns \/ ModemReset \/ UNCHANGED vars
    <2>1. UNCHANGED <<pc, mySlot, events, tidy>>
      BY <1>5, RunCases DEF ModemReset, vars, caller, object, history
    <2> QED
      BY <1>1, <2>1
  <1>6. ASSUME NEW r \in Slots, Urc(r)
        PROVE  (\A u \in Callers : Tidied(u)') /\ (\A s \in events' : Used(s)')
    <2>1. /\ UNCHANGED <<mySlot, tidy>>
          /\ \A u \in Callers : pc'[u] = pc[u] \/ (pc[u] = "asleep" /\ pc'[u] = "got")
      BY <1>6, UrcCases, UrcPlaces
    <2>2. \A u \in Callers : Tidied(u)'
      BY <1>1, <2>1
    <2>3. \A u \in Callers : pc[u] \in Held => pc'[u] \in Held
      BY <2>1 DEF Held
    <2>4. ASSUME NEW s \in events', s \notin events
          PROVE  Used(s)'
      <3>1. s = r /\ ~Expired(r)
        BY <1>6, <2>4, UrcCases DEF SetDone
      <3>2. PICK w \in Callers : slots[r] = Flow(w) /\ Flow(w) \in alive
        BY <3>1 DEF Expired, AliveIsNow
      <3>3. mySlot[w] = r /\ pc[w] \in Held
        <4>1. sends[w] \in Nat
          BY DEF Types
        <4> QED
          BY <3>2, <4>1 DEF SlotsArePast, Flow, Living
      <3> QED
        BY <2>1, <2>3, <3>1, <3>3
    <2> QED
      BY <1>1, <2>1, <2>2, <2>3, <2>4
  <1> QED
    BY <1>3, <1>4, <1>5, <1>6, StepKinds DEF Begin

-----------------------------------------------------------------------------
(* The theorems *)

\* The invariant is inductive.
LEMMA Invariant == Spec => []IInv
  <1>0. IInv <=> /\ Base /\ SlotsArePast /\ CmdsArePast /\ NothingYet
                 /\ ~crossed => OneUser /\ CreateIsLast
                 /\ ~crossed /\ ~wrongOk => Kept
                 /\ ~crossed /\ ~wrongOk /\ ~failed => AllTidy
    BY TypeSplit DEF IInv, Base
  <1>1. Init => IInv
    <2> SUFFICES ASSUME Init
                 PROVE  IInv
      OBVIOUS
    <2>1. TypeOK /\ AliveIsNow /\ Base
      BY InitTypes, TypeSplit DEF Base
    <2>2. SlotsArePast
      BY HttpAssumption DEF Init, SlotsArePast
    <2>3. CmdsArePast /\ NothingYet /\ OneUser /\ CreateIsLast
      BY DEF Init, CmdsArePast, NothingYet, OneUser, CreateIsLast, Active, Holding
    <2>4. Kept /\ AllTidy
      BY DEF Init, Kept, KeptFor, BitIsOwn, AllTidy, Settled, Holding, Active
    <2> QED
      BY <1>0, <2>1, <2>2, <2>3, <2>4
  <1>2. IInv /\ [Next]_vars => IInv'
    <2> SUFFICES ASSUME IInv, [Next]_vars
                 PROVE  IInv'
      OBVIOUS
    <2>1. TypeOK' /\ AliveIsNow'
      BY TypeStep DEF IInv
    <2>2. SlotsArePast' /\ CmdsArePast' /\ NothingYet'
      BY <1>0, SlotsStep, CmdsStep, NothingStep
    <2>3. ~crossed' => OneUser' /\ CreateIsLast'
      BY <1>0, OneUserStep, CreateStep
    <2>4. ~crossed' /\ ~wrongOk' => Kept'
      BY <1>0, HistoryGrows, KeptStep
    <2>5. ~crossed' /\ ~wrongOk' /\ ~failed' => AllTidy'
      BY <1>0, HistoryGrows, TidyStep
    <2> QED
      BY <2>1, <2>2, <2>3, <2>4, <2>5 DEF IInv
  <1> QED
    BY <1>1, <1>2, PTL DEF Spec

\* Two living Flows never have the same slot, unless two threads were in createFlow
\* together (devices/air302/http.cxx:35-40).
THEOREM HttpOneFlowPerSlot == Spec => []OneFlowPerSlot
  <1>1. IInv => Base
    BY TypeSplit DEF IInv, Base
  <1>2. IInv => OneFlowPerSlot
    BY <1>1, HoldersAreActive DEF IInv, OneUser, OneFlowPerSlot
  <1> QED
    BY <1>2, Invariant, PTL

\* A send that ends well returns the whole answer to its own request
\* (devices/air302/http.cxx:22-33, 54-60).
THEOREM HttpResponseIsWhole == Spec => []ResponseIsWhole
  <1>1. IInv => ResponseIsWhole
    BY DEF IInv, Kept, KeptFor, BitIsOwn, First, ResponseIsWhole
  <1> QED
    BY <1>1, Invariant, PTL

\* Only a failure leaves an event bit behind (devices/air302/http.cxx:54-56).
THEOREM HttpLeftoverNeedsFailure == Spec => []LeftoverNeedsFailure
  <1>1. IInv => LeftoverNeedsFailure
    BY DEF IInv, AllTidy, LeftoverNeedsFailure
  <1> QED
    BY <1>1, Invariant, PTL
=============================================================================
