-------------------------------- MODULE Mqtt --------------------------------
(***************************************************************************)
(* MqttFactory of the Air302 modem (devices/air302/mqtt_factory.cxx):      *)
(* createAli makes a Flow and a Client, configures, opens and connects     *)
(* with commands of the AT client, and sleeps until the parser thread has  *)
(* handled +ECMTCONN.  The Client then lives with its user and receives    *)
(* the messages of +ECMTRECV through a callback that holds a plain pointer *)
(* to it; its destructor disconnects.                                      *)
(*                                                                         *)
(* The parser (priority 9) runs ahead of the callers, so the handling of a *)
(* line is one step.  A command takes effect in the modem, in the order of *)
(* the commands, at any time or never; what exec reports of it can be      *)
(* wrong (AtClient).                                                       *)
(*                                                                         *)
(* Devices_proofs is about this module and two more: names that they all   *)
(* need (MqttInit, MqttNext, ...) say whose they are.                      *)
(***************************************************************************)
EXTENDS Integers, Sequences

CONSTANTS
    Callers,    \* the threads that call createAli and drop Clients
    Slots,      \* the slots of the modem (kSlots = 1 in the code)
    None,       \* no Flow, no thread, connResult before it is set
    MaxMakes,   \* bound: MaxMakes[t] calls of createAli by t
    MaxCmds     \* bound: a modem that is MaxCmds commands behind loses the next

ASSUME MqttAssumption ==
    /\ Slots # {}
    /\ MaxMakes \in [Callers -> Nat]
    /\ MaxCmds \in Nat \ {0}
    /\ None \notin Callers \cup (Callers \X Nat)

VARIABLES
    at,          \* at[t]: where t is
    makes,       \* makes[t]: the calls t has made; its Flow is <<t, makes[t]>>
    mySlot,      \* mySlot[t]: the slot of t's Flow
    thrown,      \* thrown[t]: t's createAli is left by an exception
    lock,        \* the thread whose command the AT client executes
    slots,       \* slots[s]: the Flow of the weak pointer of slot s
    flows,       \* the Flows a shared_ptr keeps alive
    clients,     \* the Flows whose Client lives
    connResult,  \* connResult[t]: whose connection t's Flow has the result of
    events,      \* the slots whose Connected bit is set
    cmds,        \* the commands the modem has yet to carry out, oldest first
    conns,       \* conns[s]: the Flows whose +ECMTCONN is yet to come on slot s
    online,      \* online[s]: the Flow whose connection the modem has on slot s
    crossed,     \* history: a Flow was begun on a slot that another still used
    obeyed,      \* history: obeyed[t], the modem has carried out t's present command
    wrongOk,     \* history: exec has reported success of a command not carried out
    tidy         \* history: tidy[t], the bit was clear when t's present call began

caller == <<at, makes, mySlot, thrown, lock>>
object == <<slots, flows, clients, connResult, events>>
modem == <<cmds, conns, online>>
history == <<crossed, obeyed, wrongOk, tidy>>
mqttVars == <<caller, object, modem, history>>

Flow(t) == <<t, makes[t]>>

\* The places at which a command is to be executed, or is being executed.
Ops == {"cloud", "aliauth", "open", "connect", "disc"}

Busy == [cloud |-> "in cloud", aliauth |-> "in aliauth", open |-> "in open",
         connect |-> "in connect", disc |-> "in disc"]

\* Where a thread goes on when a command has succeeded.  A command that fails
\* throws, and the destructor of the Client follows; a destructor that throws
\* ends in the terminate handler, which loops forever (applications/app.cxx:8).
Then == [cloud |-> "aliauth", aliauth |-> "open", open |-> "connect",
         connect |-> "wait", disc |-> "gone"]

MqttInit ==
    /\ at = [t \in Callers |-> "idle"]
    /\ makes = [t \in Callers |-> 0]
    /\ mySlot = [t \in Callers |-> CHOOSE s \in Slots : TRUE]
    /\ thrown = [t \in Callers |-> FALSE]
    /\ lock = None
    /\ slots = [s \in Slots |-> None]
    /\ flows = {} /\ clients = {}
    /\ connResult = [t \in Callers |-> None]
    /\ events = {}
    /\ cmds = <<>>
    /\ conns = [s \in Slots |-> <<>>]
    /\ online = [s \in Slots |-> None]
    /\ crossed = FALSE /\ wrongOk = FALSE
    /\ obeyed = [t \in Callers |-> FALSE]
    /\ tidy = [t \in Callers |-> FALSE]

Goto(t, place) == at' = [at EXCEPT ![t] = place]

-----------------------------------------------------------------------------
(* createAli *)

Expired(s) == slots[s] \notin flows

\* Another thread has found slot s and not yet taken it, or leaves it.
InTransit(s, t) ==
    \E u \in Callers \ {t} :
        mySlot[u] = s /\ at[u] \in {"found", "disc", "in disc", "gone", "last"}

\* slots.getNext().
GetNext(t, s) ==
    /\ at[t] = "idle" /\ makes[t] < MaxMakes[t]
    /\ Expired(s)
    /\ Goto(t, "found")
    /\ makes' = [makes EXCEPT ![t] = @ + 1]
    /\ mySlot' = [mySlot EXCEPT ![t] = s]
    /\ thrown' = [thrown EXCEPT ![t] = FALSE]
    /\ connResult' = [connResult EXCEPT ![t] = None]
    /\ crossed' = (crossed \/ InTransit(s, t))
    /\ tidy' = [tidy EXCEPT ![t] = s \notin events]
    /\ UNCHANGED <<lock, slots, flows, clients, events, modem, obeyed, wrongOk>>

\* "slot exhausted" is thrown, before there is a Flow.
Exhausted(t) ==
    /\ at[t] = "idle" /\ makes[t] < MaxMakes[t]
    /\ \A s \in Slots : ~Expired(s)
    /\ makes' = [makes EXCEPT ![t] = @ + 1]
    /\ UNCHANGED <<at, mySlot, thrown, lock, object, modem, history>>

\* The Flow takes the slot, and the Client sets the callback of the Flow.
TakeSlot(t) ==
    /\ at[t] = "found"
    /\ slots' = [slots EXCEPT ![mySlot[t]] = Flow(t)]
    /\ flows' = flows \cup {Flow(t)}
    /\ clients' = clients \cup {Flow(t)}
    /\ Goto(t, "cloud")
    /\ UNCHANGED <<makes, mySlot, thrown, lock, connResult, events, modem, history>>

\* The AT client's lock is taken and the command sent.
ExecBegin(t) ==
    /\ at[t] \in Ops
    /\ lock = None
    /\ lock' = t
    /\ Goto(t, Busy[at[t]])
    /\ LET c == [op |-> at[t], slot |-> mySlot[t], flow |-> Flow(t)] IN
           cmds' = IF Len(cmds) < MaxCmds THEN Append(cmds, c) ELSE cmds
    /\ UNCHANGED <<makes, mySlot, thrown, object, conns, online, history>>

\* exec returns.
ExecOk(t) ==
    \E op \in Ops :
        /\ at[t] = Busy[op]
        /\ lock' = None
        /\ Goto(t, Then[op])
        /\ wrongOk' = (wrongOk \/ ~obeyed[t])
        /\ obeyed' = [obeyed EXCEPT ![t] = FALSE]
        /\ UNCHANGED <<makes, mySlot, thrown, object, modem, crossed, tidy>>

\* exec throws AtExecError.
ExecFail(t) ==
    \E op \in Ops :
        /\ at[t] = Busy[op]
        /\ lock' = None
        /\ Goto(t, IF op = "disc" THEN "terminated" ELSE "disc")
        /\ thrown' = [thrown EXCEPT ![t] = TRUE]
        /\ obeyed' = [obeyed EXCEPT ![t] = FALSE]
        /\ UNCHANGED <<makes, mySlot, object, modem, crossed, wrongOk, tidy>>

\* connect: the event bit is received and cleared, or the thread goes to sleep.
Wait(t) ==
    /\ at[t] = "wait"
    /\ Goto(t, IF mySlot[t] \in events THEN "held" ELSE "asleep")
    /\ events' = events \ {mySlot[t]}
    /\ UNCHANGED <<makes, mySlot, thrown, lock, slots, flows, clients, connResult,
                   modem, history>>

\* connect: 20 s are over, RtError is thrown.
WaitTimeout(t) ==
    /\ at[t] = "asleep"
    /\ Goto(t, "disc")
    /\ thrown' = [thrown EXCEPT ![t] = TRUE]
    /\ UNCHANGED <<makes, mySlot, lock, object, modem, history>>

\* Mutant: the destructor does not disconnect.
DropWithoutDisconnect(t) ==
    /\ at[t] = "held"
    /\ Goto(t, "gone")
    /\ UNCHANGED <<makes, mySlot, thrown, lock, object, modem, history>>

\* The user drops the Client that createAli has returned: ~Client begins.
DropClient(t) ==
    /\ at[t] = "held"
    /\ Goto(t, "disc")
    /\ UNCHANGED <<makes, mySlot, thrown, lock, object, modem, history>>

\* ~Client has disconnected, and its members go: its reference to the Flow is the
\* last one, except while an exception unwinds createAli, whose own goes after it.
ClientGone(t) ==
    /\ at[t] = "gone"
    /\ clients' = clients \ {Flow(t)}
    /\ IF thrown[t]
       THEN Goto(t, "last") /\ UNCHANGED flows
       ELSE Goto(t, "idle") /\ flows' = flows \ {Flow(t)}
    /\ UNCHANGED <<makes, mySlot, thrown, lock, slots, connResult, events, modem,
                   history>>

\* The unwinding of createAli drops its own reference.
LastReference(t) ==
    /\ at[t] = "last"
    /\ flows' = flows \ {Flow(t)}
    /\ Goto(t, "idle")
    /\ UNCHANGED <<makes, mySlot, thrown, lock, slots, clients, connResult, events,
                   modem, history>>

-----------------------------------------------------------------------------
(* The modem, and the parser thread that handles its lines *)

\* The modem carries out the oldest command.  Connecting is announced later;
\* disconnecting ends the connection and what was to be announced of it.
ModemRuns ==
    /\ cmds # <<>>
    /\ LET c == Head(cmds) IN
           /\ conns' = CASE c.op = "connect" -> [conns EXCEPT ![c.slot] = Append(@, c.flow)]
                         [] c.op = "disc"    -> [conns EXCEPT ![c.slot] = <<>>]
                         [] OTHER            -> conns
           /\ online' = CASE c.op = "connect" -> [online EXCEPT ![c.slot] = c.flow]
                          [] c.op = "disc"    -> [online EXCEPT ![c.slot] = None]
                          [] OTHER            -> online
           /\ obeyed' = [t \in Callers |-> obeyed[t] \/ (lock = t /\ c.flow = Flow(t)
                                                        /\ at[t] = Busy[c.op])]
    /\ cmds' = Tail(cmds)
    /\ UNCHANGED <<caller, object, crossed, wrongOk, tidy>>

\* The Connected bit of slot s is set; a thread asleep on it receives it.
SetConnected(s) ==
    \/ /\ \E t \in Callers : at[t] = "asleep" /\ mySlot[t] = s
       /\ at' = [t \in Callers |->
                    IF at[t] = "asleep" /\ mySlot[t] = s THEN "held" ELSE at[t]]
       /\ UNCHANGED events
    \/ /\ ~\E t \in Callers : at[t] = "asleep" /\ mySlot[t] = s
       /\ events' = events \cup {s}
       /\ UNCHANGED at

\* Mutant: the event is set and the result is not.
OnConnWithoutResult(s) == SetConnected(s) /\ UNCHANGED connResult

\* The callback of +ECMTCONN: the Flow stores the result, then the event is set.
OnConn(s) ==
    /\ connResult' = [t \in Callers |->
           IF Flow(t) = slots[s] THEN Head(conns[s]) ELSE connResult[t]]
    /\ SetConnected(s)

\* runProbe: the callback is given the Flow that acuqire finds in the slot.  With
\* an expired slot acuqire throws, and run drops the line.
UrcConn(s) ==
    /\ conns[s] # <<>>
    /\ conns' = [conns EXCEPT ![s] = Tail(@)]
    /\ IF Expired(s) THEN UNCHANGED <<at, connResult, events>> ELSE OnConn(s)
    /\ UNCHANGED <<makes, mySlot, thrown, lock, slots, flows, clients, cmds, online,
                   history>>

\* +ECMTRECV: a message for the connection of slot s can come, and goes to the
\* callback of the Flow in the slot, which uses its Client.  It changes no state
\* of the factory.
Receives(s) == online[s] # None /\ ~Expired(s)

\* The modem was reset, or lost power.
ModemReset ==
    /\ cmds' = <<>>
    /\ conns' = [s \in Slots |-> <<>>]
    /\ online' = [s \in Slots |-> None]
    /\ modem' # modem
    /\ UNCHANGED <<caller, object, history>>

-----------------------------------------------------------------------------
Go(t) ==
    \/ TakeSlot(t) \/ ExecBegin(t) \/ ExecOk(t) \/ ExecFail(t) \/ Wait(t)
    \/ WaitTimeout(t) \/ ClientGone(t) \/ LastReference(t)

MqttNext ==
    \/ \E t \in Callers :
          \/ Go(t) \/ Exhausted(t) \/ DropClient(t)
          \/ \E s \in Slots : GetNext(t, s)
    \/ \E s \in Slots : UrcConn(s)
    \/ ModemRuns
    \/ ModemReset

MqttSpec == MqttInit /\ [][MqttNext]_mqttVars

-----------------------------------------------------------------------------
Places == {"idle", "found", "wait", "asleep", "held", "gone", "last", "terminated"}
          \cup Ops \cup {Busy[op] : op \in Ops}

Flows == Callers \X Nat

\* Every variable has its type, the lock names the one thread that is in exec, and
\* a Client lives from the moment its Flow has taken the slot to the end of its
\* destructor, whatever way a call takes through createAli (devices/air302/mqtt_factory.cxx:11-18, 68-70).
MqttTypeOK ==
    /\ at \in [Callers -> Places]
    /\ makes \in [Callers -> Nat]
    /\ mySlot \in [Callers -> Slots]
    /\ thrown \in [Callers -> BOOLEAN]
    /\ lock \in Callers \cup {None}
    /\ slots \in [Slots -> Flows \cup {None}]
    /\ flows \subseteq Flows /\ clients \subseteq flows
    /\ connResult \in [Callers -> Flows \cup {None}]
    /\ events \subseteq Slots
    /\ cmds \in Seq([op : Ops, slot : Slots, flow : Flows])
    /\ conns \in [Slots -> Seq(Flows)]
    /\ online \in [Slots -> Flows \cup {None}]
    /\ crossed \in BOOLEAN /\ wrongOk \in BOOLEAN
    /\ obeyed \in [Callers -> BOOLEAN] /\ tidy \in [Callers -> BOOLEAN]
    /\ \A t \in Callers : lock = t <=> \E op \in Ops : at[t] = Busy[op]
    /\ \A t \in Callers : Flow(t) \in clients <=>
           at[t] \notin {"idle", "found", "last"}

\* connect returns the result of its own connection: not the value the member had
\* before anything was stored in it, and not the result of an earlier Client whose
\* +ECMTCONN came late - provided that the call began with its event bit clear,
\* that no other thread used its slot, and that exec has told the truth
\* (devices/air302/mqtt_factory.cxx:43-47).
ResultIsOwn ==
    \A t \in Callers :
        at[t] = "held" /\ tidy[t] /\ ~crossed /\ ~wrongOk => connResult[t] = Flow(t)

\* Whenever a message can come, the callback runs on a Client that lives, and the
\* message is one of that Client's own connection, unless exec has not told the
\* truth or two threads have shared the slot.  This covers calls that are left by an
\* exception, whose Flow outlives the Client it points to: the connection has ended
\* before.  If exec lied, that last moment of the unwinding is still the only one at
\* which the callback can run on a Client that is gone
\* (devices/air302/mqtt_factory.cxx:49-52, 62-70).
MessagesGoHome ==
    \A s \in Slots : Receives(s) =>
        /\ (slots[s] \in clients /\ slots[s] = online[s]) \/ wrongOk \/ crossed
        /\ slots[s] \in clients \/ \E t \in Callers : slots[s] = Flow(t) /\ at[t] = "last"
=============================================================================
