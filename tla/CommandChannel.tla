--------------------------- MODULE CommandChannel ---------------------------
(***************************************************************************)
(* What the AT client (rt-thread/components/net/at/src/at_client.c)        *)
(* promises the threads that call At::exec and At::waitConnect: one call   *)
(* at a time, commands to the modem in the order of the calls, and an end  *)
(* to every call, which is a success, an error or a timeout.  Only a call  *)
(* that begins with nothing of earlier calls outstanding is promised that  *)
(* its result is what the modem said; as long as no call has timed out,    *)
(* exec with no command unanswered is such a call.                         *)
(***************************************************************************)
EXTENDS Integers, Sequences

CONSTANTS
    Callers,    \* the threads that call
    Nobody,     \* no thread
    MaxCalls    \* bound: MaxCalls[t] calls are made by thread t

VARIABLES
    holder,     \* the thread whose call is being served, or Nobody
    made,       \* made[t]: the calls of t so far; its command is <<t, made[t]>>
    todo,       \* the commands the modem has yet to answer, oldest first
    verdict,    \* what the modem has said to the command of the holder
    fresh,      \* the holder's call began with nothing outstanding
    result,     \* what the call returns; or "new" until it begins, and then "open"
    late        \* the calls that have timed out so far

vars == <<holder, made, todo, verdict, fresh, result, late>>

Command(t) == <<t, made[t]>>

Init ==
    /\ holder = Nobody
    /\ made = [t \in Callers |-> 0]
    /\ todo = <<>>
    /\ verdict = "none"
    /\ fresh = FALSE
    /\ result = "new"
    /\ late = 0

\* A call is let in when no other is being served.
Enter(t) ==
    /\ holder = Nobody
    /\ made[t] < MaxCalls[t]
    /\ holder' = t
    /\ made' = [made EXCEPT ![t] = @ + 1]
    /\ result' = "new"
    /\ UNCHANGED <<todo, verdict, fresh, late>>

\* exec begins: that nothing is outstanding takes more than that all commands were
\* answered, once a call has timed out.
BeginExec ==
    /\ holder # Nobody /\ result = "new"
    /\ fresh' \in BOOLEAN
    /\ fresh' => todo = <<>>
    /\ todo = <<>> /\ late = 0 => fresh'
    /\ result' = "open"
    /\ UNCHANGED <<holder, made, todo, verdict, late>>

\* wait_connect begins: nothing is promised of its result.
BeginConnect ==
    /\ holder # Nobody /\ result = "new"
    /\ result' = "open"
    /\ UNCHANGED <<holder, made, todo, verdict, fresh, late>>

\* A command goes to the modem; wait_connect sends several.
Send(t) ==
    /\ holder = t /\ result = "open"
    /\ todo' = Append(todo, Command(t))
    /\ UNCHANGED <<holder, made, verdict, fresh, result, late>>

\* The modem answers the oldest command ...
Answer(v) ==
    /\ todo # <<>>
    /\ todo' = Tail(todo)
    /\ verdict' = IF holder # Nobody /\ Head(todo) = Command(holder) THEN v ELSE verdict
    /\ UNCHANGED <<holder, made, fresh, result, late>>

\* ... or never does.
Forget ==
    /\ todo # <<>>
    /\ todo' = Tail(todo)
    /\ UNCHANGED <<holder, made, verdict, fresh, result, late>>

Results == {"ok", "error", "timeout"}

\* The result of the call is settled; that of a fresh one is what the modem said.
Settle(r) ==
    /\ holder # Nobody /\ result = "open"
    /\ fresh /\ r # "timeout" => verdict = r /\ todo = <<>>
    /\ result' = r
    /\ late' = IF r = "timeout" THEN late + 1 ELSE late
    /\ UNCHANGED <<holder, made, todo, verdict, fresh>>

Return ==
    /\ holder # Nobody /\ result \in Results
    /\ holder' = Nobody
    /\ verdict' = "none" /\ fresh' = FALSE /\ result' = "new"
    /\ UNCHANGED <<made, todo, late>>

\* What the client does for a call, but for sending.
Serve == BeginExec \/ BeginConnect \/ Return \/ \E r \in Results : Settle(r)

Next ==
    \/ \E t \in Callers : Enter(t) \/ Send(t)
    \/ Serve
    \/ Forget \/ \E v \in {"ok", "error"} : Answer(v)

SafeSpec == Init /\ [][Next]_vars

\* Whatever the modem does, a call that was let in returns.
Spec == SafeSpec /\ WF_vars(Serve)
=============================================================================
