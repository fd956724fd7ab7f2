-------------------------------- MODULE Http --------------------------------
(***************************************************************************)
(* Http::send of the Air302 modem (devices/air302/http.cxx) over slots     *)
(* (utilities/limited_slots.hxx), At::execWith (net/at.hxx), the URC       *)
(* handler (net/at_urc_builder.hxx) and an EventSet (os/event_set.cxx).    *)
(* Callers make a Flow, drive it through the modem's commands, and sleep   *)
(* until the parser thread, which handles each +HTTPRESPC line of the      *)
(* modem, sets the event bit of the Flow's slot.                           *)
(*                                                                         *)
(* The parser (priority 9) runs ahead of the callers, so the handling of a *)
(* line is one step.  A command takes effect in the modem, in the order of *)
(* the commands, at any time; what exec reports of it is up to the AT      *)
(* client, and can be wrong (AtClient).                                    *)
(***************************************************************************)
EXTENDS Integers, Sequences, FiniteSets

CONSTANTS
    Callers,    \* the threads that call send
    Slots,      \* the slots of the modem (kSlots = 1 in the code)
    NoFlow,     \* a slot whose weak pointer was never set; no thread
    MaxSends,   \* bound: MaxSends[t] calls of send by t
    Lines,      \* content lines of each answer, the last with flag 0
    MaxCmds     \* bound: a modem that is MaxCmds commands behind loses the next

ASSUME HttpAssumption ==
    /\ Slots # {}
    /\ MaxSends \in [Callers -> Nat]
    /\ Lines \in Nat \ {0} /\ MaxCmds \in Nat \ {0}
    /\ NoFlow \notin Callers /\ NoFlow \notin Callers \X Nat

VARIABLES
    pc,        \* pc[t]: where t is in send
    sends,     \* sends[t]: the calls of send t has made; its Flow is <<t, sends[t]>>
    mySlot,    \* mySlot[t]: the slot of t's Flow
    lock,      \* the thread whose command the AT client executes, or NoFlow
    slots,     \* slots[s]: the Flow of the weak pointer of slot s
    alive,     \* the Flows a shared_ptr keeps alive
    response,  \* response[t]: the lines appended to the Flow of t
    events,    \* the slots whose ResponseContentDone bit is set
    cmds,      \* the commands the modem has yet to carry out, oldest first
    out,       \* out[s]: what the modem has yet to send on slot s
    crossed,   \* history: a Flow was begun on a slot that another still used
    obeyed,    \* history: obeyed[t], the modem has carried out t's present command
    wrongOk,   \* history: exec has reported success of a command not carried out
    failed,    \* history: an exec has failed or a wait has timed out
    tidy       \* history: tidy[t], the bit was clear when t's present send began

caller == <<pc, sends, mySlot, lock>>
object == <<slots, alive, response, events>>
modem == <<cmds, out>>
history == <<crossed, obeyed, wrongOk, failed, tidy>>
vars == <<caller, object, modem, history>>

Flow(t) == <<t, sends[t]>>

\* The places of send in which a command is to be executed, or is being executed.
Ops == {"create", "connect", "request", "destroy"}

Busy == [create |-> "creating", connect |-> "connecting",
         request |-> "requesting", destroy |-> "destroying"]

\* Where send goes on when the command of a place has succeeded or failed.  A
\* Flow whose constructor throws has no destructor; a destructor that throws
\* ends in the terminate handler, which loops forever (applications/app.cxx:8).
Then == [create |-> "assign", connect |-> "request", request |-> "wait",
         destroy |-> "idle"]

Else == [create |-> "idle", connect |-> "drop", request |-> "drop",
         destroy |-> "terminated"]

Init ==
    /\ pc = [t \in Callers |-> "idle"]
    /\ sends = [t \in Callers |-> 0]
    /\ mySlot = [t \in Callers |-> CHOOSE s \in Slots : TRUE]
    /\ lock = NoFlow
    /\ slots = [s \in Slots |-> NoFlow]
    /\ alive = {}
    /\ response = [t \in Callers |-> <<>>]
    /\ events = {}
    /\ cmds = <<>>
    /\ out = [s \in Slots |-> <<>>]
    /\ crossed = FALSE
    /\ obeyed = [t \in Callers |-> FALSE]
    /\ wrongOk = FALSE
    /\ failed = FALSE
    /\ tidy = [t \in Callers |-> FALSE]

Goto(t, place) == pc' = [pc EXCEPT ![t] = place]

-----------------------------------------------------------------------------
(* The caller *)

Expired(s) == slots[s] \notin alive

\* A Flow of another thread is on its way into slot s or out of it.
InTransit(s, t) ==
    \E u \in Callers \ {t} :
        /\ mySlot[u] = s
        /\ pc[u] \in {"create", "creating", "assign", "destroy", "destroying"}

\* Mutant: the slot is taken whether or not its Flow has expired.
GetNextAny(t, s) ==
    /\ pc[t] = "idle"
    /\ sends[t] < MaxSends[t]
    /\ Goto(t, "create")
    /\ sends' = [sends EXCEPT ![t] = @ + 1]
    /\ mySlot' = [mySlot EXCEPT ![t] = s]
    /\ crossed' = (crossed \/ InTransit(s, t))
    /\ tidy' = [tidy EXCEPT ![t] = s \notin events]
    /\ UNCHANGED <<lock, object, modem, obeyed, wrongOk, failed>>

\* createFlow: slots.getNext() takes the first expired slot.
GetNext(t, s) ==
    /\ pc[t] = "idle"
    /\ sends[t] < MaxSends[t]
    /\ Expired(s)
    /\ Goto(t, "create")
    /\ sends' = [sends EXCEPT ![t] = @ + 1]
    /\ mySlot' = [mySlot EXCEPT ![t] = s]
    /\ crossed' = (crossed \/ InTransit(s, t))
    /\ tidy' = [tidy EXCEPT ![t] = s \notin events]
    /\ UNCHANGED <<lock, object, modem, obeyed, wrongOk, failed>>

\* createFlow: "slot exhausted" is thrown.
Exhausted(t) ==
    /\ pc[t] = "idle"
    /\ sends[t] < MaxSends[t]
    /\ \A s \in Slots : ~Expired(s)
    /\ sends' = [sends EXCEPT ![t] = @ + 1]
    /\ UNCHANGED <<pc, mySlot, lock, object, modem, history>>

\* exec: the AT client's lock is taken and the command sent.
ExecBegin(t) ==
    /\ pc[t] \in Ops
    /\ lock = NoFlow
    /\ lock' = t
    /\ Goto(t, Busy[pc[t]])
    /\ LET c == [op |-> pc[t], slot |-> mySlot[t], flow |-> Flow(t)] IN
           cmds' = IF Len(cmds) < MaxCmds THEN Append(cmds, c) ELSE cmds
    /\ UNCHANGED <<sends, mySlot, object, out, history>>

\* exec returns.
ExecOk(t) ==
    \E op \in Ops :
        /\ pc[t] = Busy[op]
        /\ lock' = NoFlow
        /\ Goto(t, Then[op])
        /\ alive' = IF op = "create" THEN alive \cup {Flow(t)} ELSE alive
        /\ wrongOk' = (wrongOk \/ ~obeyed[t])
        /\ obeyed' = [obeyed EXCEPT ![t] = FALSE]
        /\ UNCHANGED <<sends, mySlot, slots, response, events, modem, crossed,
                       failed, tidy>>

\* exec throws AtExecError.
ExecFail(t) ==
    \E op \in Ops :
        /\ pc[t] = Busy[op]
        /\ lock' = NoFlow
        /\ Goto(t, Else[op])
        /\ failed' = TRUE
        /\ obeyed' = [obeyed EXCEPT ![t] = FALSE]
        /\ UNCHANGED <<sends, mySlot, object, modem, crossed, wrongOk, tidy>>

\* createFlow: slot = flow, after the Flow was constructed.
Assign(t) ==
    /\ pc[t] = "assign"
    /\ slots' = [slots EXCEPT ![mySlot[t]] = Flow(t)]
    /\ Goto(t, "connect")
    /\ UNCHANGED <<sends, mySlot, lock, alive, response, events, modem, history>>

\* Mutant: the bit is received and not cleared.
WaitKeepsBit(t) ==
    /\ pc[t] = "wait"
    /\ Goto(t, IF mySlot[t] \in events THEN "got" ELSE "asleep")
    /\ UNCHANGED <<sends, mySlot, lock, object, modem, history>>

\* waitResponse: the event bit of the slot is received and cleared, or the
\* caller goes to sleep.
Wait(t) ==
    /\ pc[t] = "wait"
    /\ Goto(t, IF mySlot[t] \in events THEN "got" ELSE "asleep")
    /\ events' = events \ {mySlot[t]}
    /\ UNCHANGED <<sends, mySlot, lock, slots, alive, response, modem, history>>

\* Mutant: the wait has no timeout.
WaitForever(t) == FALSE /\ pc[t] = "asleep" /\ UNCHANGED vars

\* waitResponse: 10 s are over, RtError is thrown.
WaitTimeout(t) ==
    /\ pc[t] = "asleep"
    /\ Goto(t, "drop")
    /\ failed' = TRUE
    /\ UNCHANGED <<sends, mySlot, lock, object, modem, crossed, obeyed, wrongOk,
                   tidy>>

\* send: the only strong reference to the Flow goes, by return or by exception;
\* the weak pointer expires and the destructor begins.
DropFlow(t) ==
    /\ pc[t] \in {"got", "drop"}
    /\ alive' = alive \ {Flow(t)}
    /\ response' = [response EXCEPT ![t] = <<>>]
    /\ tidy' = [tidy EXCEPT ![t] = FALSE]
    /\ Goto(t, "destroy")
    /\ UNCHANGED <<sends, mySlot, lock, slots, events, modem, crossed, obeyed,
                   wrongOk, failed>>

-----------------------------------------------------------------------------
(* The modem, and the parser thread that handles its lines *)

\* The modem carries out the oldest command.  A new instance and a destroyed one
\* have nothing to send; a request is answered in Lines lines.
ModemRuns ==
    /\ cmds # <<>>
    /\ LET c == Head(cmds) IN
           /\ out' = CASE c.op = "request" ->
                             [out EXCEPT ![c.slot] = [k \in 1 .. Lines |-> <<c.flow, k>>]]
                       [] c.op = "connect" -> out
                       [] OTHER            -> [out EXCEPT ![c.slot] = <<>>]
           /\ obeyed' = [t \in Callers |-> obeyed[t] \/ (lock = t /\ c.flow = Flow(t)
                                                        /\ pc[t] = Busy[c.op])]
    /\ cmds' = Tail(cmds)
    /\ UNCHANGED <<caller, object, crossed, wrongOk, failed, tidy>>

\* e << ResponseContentDone: the bit of slot s is set; a caller asleep on it
\* receives it.
SetDone(s) ==
    \/ /\ \E t \in Callers : pc[t] = "asleep" /\ mySlot[t] = s
       /\ pc' = [t \in Callers |->
                    IF pc[t] = "asleep" /\ mySlot[t] = s THEN "got" ELSE pc[t]]
       /\ UNCHANGED events
    \/ /\ ~\E t \in Callers : pc[t] = "asleep" /\ mySlot[t] = s
       /\ events' = events \cup {s}
       /\ UNCHANGED pc

\* appendBuf: the line goes to the Flow in its slot.
AppendBuf(s) ==
    response' = [t \in Callers |->
        IF Flow(t) = slots[s] THEN Append(response[t], Head(out[s])) ELSE response[t]]

\* Mutant: the callback appends nothing and only looks at the flag.
OnlyFlag(s) ==
    /\ UNCHANGED response
    /\ IF Len(out[s]) = 1 THEN SetDone(s) ELSE UNCHANGED <<pc, events>>

\* onResponseContent: the line is appended, and the last line sets the event.
OnResponseContent(s) ==
    /\ AppendBuf(s)
    /\ IF Len(out[s]) = 1 THEN SetDone(s) ELSE UNCHANGED <<pc, events>>

\* runProbe: the callback is given the Flow that acuqire finds in the slot.  With
\* an expired slot acuqire throws, and run drops the line.
Urc(s) ==
    /\ out[s] # <<>>
    /\ out' = [out EXCEPT ![s] = Tail(@)]
    /\ IF Expired(s) THEN UNCHANGED <<pc, response, events>> ELSE OnResponseContent(s)
    /\ UNCHANGED <<sends, mySlot, lock, slots, alive, cmds, history>>

\* The modem was reset, or lost power.
ModemReset ==
    /\ cmds' = <<>>
    /\ out' = [s \in Slots |-> <<>>]
    /\ modem' # modem
    /\ UNCHANGED <<caller, object, history>>

-----------------------------------------------------------------------------
Begin(t) == Exhausted(t) \/ \E s \in Slots : GetNext(t, s)

ExecEnd(t) == ExecOk(t) \/ ExecFail(t)

Go(t) ==
    \/ ExecBegin(t) \/ ExecEnd(t) \/ Assign(t) \/ Wait(t) \/ WaitTimeout(t)
    \/ DropFlow(t)

Next ==
    \/ \E t \in Callers : Begin(t) \/ Go(t)
    \/ ModemRuns
    \/ \E s \in Slots : Urc(s)
    \/ ModemReset

\* A call of exec always returns (AtClient!ImplementsChannel), a timed wait ends, and a
\* caller that can run is scheduled.  Nothing is assumed of the modem.
Spec == Init /\ [][Next]_vars /\ \A t \in Callers : WF_vars(Go(t))

-----------------------------------------------------------------------------
Places == {"idle", "assign", "wait", "asleep", "got", "drop", "terminated"}
          \cup Ops \cup {Busy[op] : op \in Ops}

Flows == Callers \X Nat

Line == Flows \X (1 .. Lines)

\* Every variable has its type, the lock names the one thread that is in exec, and
\* a Flow lives from the end of its constructor to the end of send: a lock left
\* behind or a Flow that outlives send would show (net/at.hxx:22-34,
\* devices/air302/http.cxx:27-33).
TypeOK ==
    /\ pc \in [Callers -> Places]
    /\ sends \in [Callers -> Nat]
    /\ mySlot \in [Callers -> Slots]
    /\ lock \in Callers \cup {NoFlow}
    /\ slots \in [Slots -> Flows \cup {NoFlow}]
    /\ alive \subseteq Flows
    /\ response \in [Callers -> Seq(Line)]
    /\ events \subseteq Slots
    /\ cmds \in Seq([op : Ops, slot : Slots, flow : Flows])
    /\ out \in [Slots -> Seq(Line)]
    /\ obeyed \in [Callers -> BOOLEAN]
    /\ crossed \in BOOLEAN /\ wrongOk \in BOOLEAN /\ failed \in BOOLEAN
    /\ tidy \in [Callers -> BOOLEAN]
    /\ \A t \in Callers : lock = t <=> \E op \in Ops : pc[t] = Busy[op]
    /\ \A t \in Callers : Flow(t) \in alive <=> pc[t] \notin
           {"idle", "create", "creating", "destroy", "destroying", "terminated"}

\* The Flow of t is constructed and not yet dropped.
Holding(t) == Flow(t) \in alive

\* Two living Flows never have the same slot, unless two threads were in
\* createFlow together: getNext reserves nothing, and the slot is taken only
\* after HTTPCREATE has been answered (devices/air302/http.cxx:35-40).
OneFlowPerSlot ==
    ~crossed => \A t, u \in Callers :
        Holding(t) /\ Holding(u) /\ mySlot[t] = mySlot[u] => t = u

\* A send that ends well returns exactly the lines of the modem's answer to its
\* own request, all of them and in order, although late lines of earlier sends
\* may still arrive and exec calls may have failed before - provided that it
\* began with its event bit clear, that no other thread used its slot, and that
\* exec has told the truth (devices/air302/http.cxx:22-33, 54-60).
ResponseIsWhole ==
    \A t \in Callers :
        pc[t] = "got" /\ tidy[t] /\ ~crossed /\ ~wrongOk =>
            response[t] = [k \in 1 .. Lines |-> <<Flow(t), k>>]

\* A ResponseContentDone bit that outlives its Flow, and would make the next
\* send on the slot return before its answer, is left only by a failure: a wait
\* that timed out just before the last line came, or a command reported as
\* failed that the modem has carried out (devices/air302/http.cxx:54-56; the bit
\* is never cleared otherwise).
LeftoverNeedsFailure ==
    ~failed /\ ~crossed /\ ~wrongOk =>
        \A s \in events : \E t \in Callers : Holding(t) /\ mySlot[t] = s

\* A call of send ends, by return or exception, or else some thread has ended in
\* the terminate handler because HTTPDESTROY failed in ~Flow
\* (devices/air302/http.cxx:46-48): no wait is without end.
SendEnds ==
    \A t \in Callers :
        pc[t] # "idle" ~> pc[t] = "idle" \/ \E u \in Callers : pc[u] = "terminated"
=============================================================================
