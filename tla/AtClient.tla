------------------------------ MODULE AtClient ------------------------------
(***************************************************************************)
(* The AT client (rt-thread/components/net/at/src/at_client.c) as At       *)
(* (net/at.hxx, net/at.cxx) uses it: threads send commands one at a time   *)
(* under client->lock and sleep on the semaphore resp_notice; the parser   *)
(* thread hands each line the modem sends to the response that             *)
(* client->resp points to.                                                 *)
(*                                                                         *)
(* The parser has priority 9 and the callers (main 10, the shell 20) run   *)
(* only while it is blocked, so the arrival of a line and all the parser   *)
(* does about it is one step here, and every place of a caller where a     *)
(* line can arrive is a step of its own.                                   *)
(***************************************************************************)
EXTENDS Integers, Sequences, FiniteSets

CONSTANTS
    Callers,    \* the threads that use the client
    None,       \* the null pointer, and the owner of a free lock
    MaxCalls,   \* bound: MaxCalls[t] calls are made by caller t
    MaxTries,   \* bound: "AT" probes of one wait_connect (its timeout / 300 ms)
    MaxData,    \* bound: data lines of one answer
    Cap         \* lines that fit in the buffer of a response

ASSUME NumberAssumption ==
    /\ MaxCalls \in [Callers -> Nat]
    /\ MaxTries \in Nat \ {0} /\ MaxData \in Nat /\ Cap \in Nat

ASSUME NoneAssumption == None \notin Callers

VARIABLES
    lock,      \* client->lock: the caller that holds it, or None
    resp,      \* client->resp: the caller whose response it points to, or None
    status,    \* client->resp_status
    sem,       \* the count of client->resp_notice
    pc,        \* pc[t]: where caller t is
    kind,      \* kind[t]: the function t is in, "exec" or "conn"
    calls,     \* calls[t]: the calls t has made; its command is <<t, calls[t]>>
    tries,     \* tries[t]: probes sent by the present wait_connect
    buf,       \* buf[t]: for each line in t's response, the command it answers
    ret,       \* ret[t]: what the call of t returns
    pend,      \* the commands the modem has yet to answer, oldest first
    data,      \* data lines sent so far of the answer to the first of them
    answer,    \* history: answer[t], how the modem answered t's present command
    clean,     \* history: clean[t], nothing of an earlier call was outstanding
    late,      \* history: the calls that have timed out so far
    wild       \* history: the parser has written to a deleted response

called == <<kind, calls, tries>>
modem == <<pend, data>>
vars == <<lock, resp, status, sem, pc, kind, calls, tries, buf, ret, pend, data,
          answer, clean, late, wild>>

Command(t) == <<t, calls[t]>>

Init ==
    /\ lock = None
    /\ resp = None
    /\ status = "ok"
    /\ sem = 0
    /\ pc = [t \in Callers |-> "idle"]
    /\ kind = [t \in Callers |-> "exec"]
    /\ calls = [t \in Callers |-> 0]
    /\ tries = [t \in Callers |-> 0]
    /\ buf = [t \in Callers |-> <<>>]
    /\ ret = [t \in Callers |-> 0]
    /\ pend = <<>>
    /\ data = 0
    /\ answer = [t \in Callers |-> "none"]
    /\ clean = [t \in Callers |-> FALSE]
    /\ late = 0
    /\ wild = FALSE

Go(t, from, to) == pc[t] = from /\ pc' = [pc EXCEPT ![t] = to]

-----------------------------------------------------------------------------
(* at_obj_exec_cmd *)

\* exec or waitConn: rt_mutex_take(client->lock).
Lock(t, k) ==
    /\ Go(t, "idle", IF k = "exec" THEN "setup" ELSE "connect")
    /\ lock = None
    /\ calls[t] < MaxCalls[t]
    /\ lock' = t
    /\ kind' = [kind EXCEPT ![t] = k]
    /\ calls' = [calls EXCEPT ![t] = @ + 1]
    /\ UNCHANGED <<resp, status, sem, tries, buf, ret, modem, answer, clean,
                   late, wild>>

\* exec: the status is reset and client->resp set; resp_notice is not drained.
ExecSetup(t) ==
    /\ Go(t, "setup", "send")
    /\ status' = "ok"
    /\ resp' = t
    /\ buf' = [buf EXCEPT ![t] = <<>>]
    /\ clean' = [clean EXCEPT ![t] = sem = 0 /\ pend = <<>>]
    /\ UNCHANGED <<lock, sem, called, ret, modem, answer, late, wild>>

\* exec: at_vprintfln sends the command to the modem.
ExecSend(t) ==
    /\ Go(t, "send", "take")
    /\ pend' = Append(pend, Command(t))
    /\ UNCHANGED <<lock, resp, status, sem, called, buf, ret, data, answer, clean,
                   late, wild>>

\* rt_sem_take(client->resp_notice, resp->timeout): a token is taken, or the
\* caller goes to sleep.
Take(t) ==
    /\ pc[t] = "take"
    /\ IF sem > 0
       THEN sem' = sem - 1 /\ pc' = [pc EXCEPT ![t] = "taken"]
       ELSE pc' = [pc EXCEPT ![t] = "asleep"] /\ UNCHANGED sem
    /\ UNCHANGED <<lock, resp, status, called, buf, ret, modem, answer, clean,
                   late, wild>>

\* Mutant: the response has no timeout, so rt_sem_take waits forever.
TimeoutNever(t) == FALSE /\ pc[t] = "asleep" /\ UNCHANGED vars

\* The timer of a sleeping caller expires: rt_sem_take returns -RT_ETIMEOUT.
Timeout(t) ==
    /\ Go(t, "asleep", "expired")
    /\ UNCHANGED <<lock, resp, status, sem, called, buf, ret, modem, answer, clean,
                   late, wild>>

\* exec: resp_status = AT_RESP_TIMEOUT, result = -RT_ETIMEOUT.
ExecExpired(t) ==
    /\ kind[t] = "exec"
    /\ Go(t, "expired", "clear")
    /\ status' = "timeout"
    /\ ret' = [ret EXCEPT ![t] = -2]
    /\ late' = late + 1
    /\ UNCHANGED <<lock, resp, sem, called, buf, modem, answer, clean, wild>>

\* exec: the result is read off resp_status.
ExecTaken(t) ==
    /\ kind[t] = "exec"
    /\ Go(t, "taken", "clear")
    /\ ret' = [ret EXCEPT ![t] = IF status = "ok" THEN 0 ELSE -1]
    /\ UNCHANGED <<lock, resp, status, sem, called, buf, modem, answer, clean,
                   late, wild>>

\* Mutant: client->resp keeps pointing to the response of a call that is over.
ClearForgotten(t) ==
    /\ pc[t] \in {"clear", "deleted"}
    /\ pc' = [pc EXCEPT ![t] = "unlock"]
    /\ UNCHANGED <<lock, resp, status, sem, called, buf, ret, modem, answer, clean,
                   late, wild>>

\* exec and wait_connect: client->resp = RT_NULL.
Clear(t) ==
    /\ pc[t] \in {"clear", "deleted"}
    /\ pc' = [pc EXCEPT ![t] = "unlock"]
    /\ resp' = None
    /\ UNCHANGED <<lock, status, sem, called, buf, ret, modem, answer, clean,
                   late, wild>>

\* Both: rt_mutex_release(client->lock).  The call returns and its locals, the
\* response of wait_connect or exec among them, are gone.
Unlock(t) ==
    /\ Go(t, "unlock", "idle")
    /\ lock' = None
    /\ kind' = [kind EXCEPT ![t] = "exec"]
    /\ tries' = [tries EXCEPT ![t] = 0]
    /\ buf' = [buf EXCEPT ![t] = <<>>]
    /\ ret' = [ret EXCEPT ![t] = 0]
    /\ answer' = [answer EXCEPT ![t] = "none"]
    /\ clean' = [clean EXCEPT ![t] = FALSE]
    /\ UNCHANGED <<resp, status, sem, calls, modem, late, wild>>

-----------------------------------------------------------------------------
(* at_client_obj_wait_connect *)

\* wait_connect: client->resp = resp; resp_status is left as it was.
ConnSetup(t) ==
    /\ Go(t, "connect", "probe")
    /\ resp' = t
    /\ UNCHANGED <<lock, status, sem, called, buf, ret, modem, answer, clean,
                   late, wild>>

\* wait_connect: the response is emptied and "AT" is sent.
ConnProbe(t) ==
    /\ Go(t, "probe", "take")
    /\ tries[t] < MaxTries
    /\ tries' = [tries EXCEPT ![t] = @ + 1]
    /\ buf' = [buf EXCEPT ![t] = <<>>]
    /\ pend' = Append(pend, Command(t))
    /\ UNCHANGED <<lock, resp, status, sem, kind, calls, ret, data, answer, clean,
                   late, wild>>

\* wait_connect: no answer in 300 ms, so the loop starts again.
ConnAgain(t) ==
    /\ kind[t] = "conn"
    /\ Go(t, "expired", "probe")
    /\ UNCHANGED <<lock, resp, status, sem, called, buf, ret, modem, answer, clean,
                   late, wild>>

\* wait_connect: at the top of the loop the whole time is over.
ConnGiveUp(t) ==
    /\ Go(t, "probe", "delete")
    /\ tries[t] > 0
    /\ ret' = [ret EXCEPT ![t] = -2]
    /\ late' = late + 1
    /\ UNCHANGED <<lock, resp, status, sem, called, buf, modem, answer, clean,
                   wild>>

\* wait_connect: an answer has come, whatever it says.
ConnTaken(t) ==
    /\ kind[t] = "conn"
    /\ Go(t, "taken", "delete")
    /\ ret' = [ret EXCEPT ![t] = 0]
    /\ UNCHANGED <<lock, resp, status, sem, called, buf, modem, answer, clean,
                   late, wild>>

\* wait_connect: at_delete_resp(resp), before client->resp is cleared.
ConnDelete(t) ==
    /\ Go(t, "delete", "deleted")
    /\ UNCHANGED <<lock, resp, status, sem, called, buf, ret, modem, answer, clean,
                   late, wild>>

-----------------------------------------------------------------------------
(* client_parser, and the modem that feeds it *)

\* Mutant: the line is copied whether or not it fits.
StoreUnchecked(c) ==
    /\ buf' = [buf EXCEPT ![resp] = Append(@, c)]
    /\ wild' = (wild \/ pc[resp] = "deleted")

\* A line for client->resp is appended to its buffer, if it fits there.
Store(c) ==
    /\ buf' = IF Len(buf[resp]) < Cap THEN [buf EXCEPT ![resp] = Append(@, c)] ELSE buf
    /\ wild' = (wild \/ pc[resp] = "deleted")

\* A data line of the answer to the oldest command.  If it does not fit,
\* resp_status becomes AT_RESP_BUFF_FULL.
DataLine ==
    /\ pend # <<>>
    /\ data < MaxData
    /\ data' = data + 1
    /\ IF resp = None
       THEN UNCHANGED <<buf, wild, status>>
       ELSE /\ Store(Head(pend))
            /\ status' = IF Len(buf[resp]) < Cap THEN status ELSE "full"
    /\ UNCHANGED <<lock, resp, sem, pc, called, ret, pend, answer, clean, late>>

\* rt_sem_release(client->resp_notice): a caller asleep gets the token.
Notify ==
    \/ \E t \in Callers :
          /\ pc[t] = "asleep"
          /\ pc' = [pc EXCEPT ![t] = "taken"]
          /\ UNCHANGED sem
    \/ /\ \A t \in Callers : pc[t] # "asleep"
       /\ sem' = sem + 1
       /\ UNCHANGED pc

\* History: the caller whose command is answered, if it is still in its call.
Answered(end) ==
    [t \in Callers |->
        IF pc[t] # "idle" /\ Command(t) = Head(pend) THEN end ELSE answer[t]]

\* Mutant: the parser leaves client->resp set after the last line of an answer.
EndLineKeepsResp(end) ==
    /\ pend # <<>>
    /\ pend' = Tail(pend)
    /\ data' = 0
    /\ answer' = Answered(end)
    /\ IF resp = None
       THEN UNCHANGED <<buf, wild, status, resp, pc, sem>>
       ELSE Store(Head(pend)) /\ status' = end /\ UNCHANGED resp /\ Notify
    /\ UNCHANGED <<lock, called, ret, clean, late>>

\* Mutant: the last line wakes the caller but does not set resp_status.
EndLineForgetsStatus(end) ==
    /\ pend # <<>>
    /\ pend' = Tail(pend)
    /\ data' = 0
    /\ answer' = Answered(end)
    /\ UNCHANGED status
    /\ IF resp = None
       THEN UNCHANGED <<buf, wild, resp, pc, sem>>
       ELSE Store(Head(pend)) /\ resp' = None /\ Notify
    /\ UNCHANGED <<lock, called, ret, clean, late>>

\* The last line of the answer to the oldest command, OK or ERROR: it decides
\* resp_status, client->resp is cleared and the caller notified.
EndLine(end) ==
    /\ pend # <<>>
    /\ pend' = Tail(pend)
    /\ data' = 0
    /\ answer' = Answered(end)
    /\ IF resp = None
       THEN UNCHANGED <<buf, wild, status, resp, pc, sem>>
       ELSE Store(Head(pend)) /\ status' = end /\ resp' = None /\ Notify
    /\ UNCHANGED <<lock, called, ret, clean, late>>

\* The modem does not answer a command at all: it is off or was reset.
NoAnswer ==
    /\ pend # <<>>
    /\ pend' = Tail(pend)
    /\ data' = 0
    /\ UNCHANGED <<lock, resp, status, sem, pc, called, buf, ret, answer, clean,
                   late, wild>>

-----------------------------------------------------------------------------
\* The steps that a caller takes once it has begun a call.
Step(t) ==
    \/ ExecSetup(t) \/ ExecSend(t) \/ Take(t) \/ ExecExpired(t) \/ ExecTaken(t)
    \/ Clear(t) \/ Unlock(t) \/ ConnSetup(t) \/ ConnProbe(t) \/ ConnAgain(t)
    \/ ConnGiveUp(t) \/ ConnTaken(t) \/ ConnDelete(t)

Parse == DataLine \/ EndLine("ok") \/ EndLine("error")

Next ==
    \/ \E t \in Callers : Lock(t, "exec") \/ Lock(t, "conn") \/ Step(t) \/ Timeout(t)
    \/ Parse
    \/ NoAnswer

\* Callers are scheduled while they can run, and a timed wait ends.  Nothing is
\* assumed of the modem.
Spec ==
    /\ Init
    /\ [][Next]_vars
    /\ \A t \in Callers : WF_vars(Step(t)) /\ WF_vars(Timeout(t))

-----------------------------------------------------------------------------
Places == {"idle", "setup", "send", "take", "asleep", "taken", "expired", "clear",
           "unlock", "connect", "probe", "delete", "deleted"}

Commands == Callers \X Nat

TypeOK ==
    /\ lock \in Callers \cup {None}
    /\ resp \in Callers \cup {None}
    /\ status \in {"ok", "error", "full", "timeout"}
    /\ sem \in Nat
    /\ pc \in [Callers -> Places]
    /\ kind \in [Callers -> {"exec", "conn"}]
    /\ calls \in [Callers -> Nat]
    /\ tries \in [Callers -> 0 .. MaxTries]
    /\ buf \in [Callers -> Seq(Commands)]
    /\ \A t \in Callers : Len(buf[t]) <= Cap
    /\ ret \in [Callers -> {0, -1, -2}]
    /\ pend \in Seq(Commands)
    /\ data \in 0 .. MaxData
    /\ answer \in [Callers -> {"none", "ok", "error"}]
    /\ clean \in [Callers -> BOOLEAN]
    /\ late \in Nat
    /\ wild \in BOOLEAN

\* client->resp points to the response of the thread that holds the lock and is
\* inside its call (at_client.c:305-342, 377-407), never to one whose call is
\* over: the parser, which takes no lock, cannot reach an AtResponse that its
\* owner may already have destroyed.
RespIsOfLockHolder ==
    resp # None =>
        /\ lock = resp
        /\ pc[resp] \notin {"idle", "setup", "connect", "unlock"}

\* The parser writes to a response that wait_connect has freed (at_client.c:403
\* frees it, 405 clears client->resp) only after some call has timed out: then a
\* token or an answer is left over, and wait_connect can end before its own
\* answer has made the parser clear client->resp.  Without a timeout the order
\* of those two lines does no harm.
WildWriteNeedsTimeout == wild => late > 0

\* A call of exec that begins with no token left over and no earlier command
\* unanswered returns exactly what the modem said to its own command: success
\* only for its OK, an error only for its ERROR, and no line of another answer
\* in its response (at_client.c:305-342, 734-777).
CleanExecIsExact ==
    \A t \in Callers :
        pc[t] = "unlock" /\ kind[t] = "exec" /\ clean[t] =>
            /\ ret[t] = 0 => answer[t] = "ok"
            /\ ret[t] = -1 => answer[t] = "error"
            /\ \A i \in 1 .. Len(buf[t]) : buf[t][i] = Command(t)

\* Tokens of resp_notice do not pile up by themselves: between two calls there
\* is at most one for every call that has timed out (at_client.c:322-340, 384-407
\* against 776-777), although no call drains the semaphore.
TokensComeFromTimeouts == lock = None => sem <= late

\* What the users of the client see of the call that holds the lock.  Its result is
\* settled when a token was taken or the time is over.
Verdict == IF lock = None THEN "none" ELSE answer[lock]

Fresh == lock # None /\ clean[lock]

Result ==
    CASE lock = None \/ pc[lock] \in {"idle", "setup", "connect"}         -> "new"
      [] lock # None /\ pc[lock] \in {"send", "probe", "take", "asleep", "taken",
                                      "expired"}                          -> "open"
      [] OTHER -> CASE ret[lock] = 0  -> "ok"
                    [] ret[lock] = -1 -> "error"
                    [] OTHER          -> "timeout"

CC == INSTANCE CommandChannel
          WITH Nobody <- None, holder <- lock, made <- calls, todo <- pend,
               verdict <- Verdict, fresh <- Fresh, result <- Result

\* The semaphore, the status and the pointer that callers and parser share make up a
\* channel that serves one call at a time and lets every call end, whatever the modem
\* does; that returns to a call of exec which began with nothing outstanding what the
\* modem said to it; and in which, until a call times out, each exec that begins with no
\* command unanswered is such a call (at_client.c:300-342, 372-407, 734-777).  That
\* the lock is given back to the next caller, at the latest when the timeout of
\* resp_notice (at_client.c:322, 397) ends the wait, is the fairness of that channel.
ImplementsChannel == CC!Spec

\* What the comment of at_obj_exec_cmd says of its result 0, "success"
\* (at_client.c:272-283): the command was answered with OK.
SuccessMeansAnswered ==
    \A t \in Callers :
        pc[t] = "unlock" /\ kind[t] = "exec" /\ ret[t] = 0 => answer[t] = "ok"
=============================================================================
