------------------------------ MODULE SoftTimer ------------------------------
(***************************************************************************)
(* Timer (os/timer.cxx) over the kernel's soft timers (rt-thread/src/      *)
(* timer.c), with the handlers that users add to onRun (os/signals.hxx).   *)
(* One thread, of priority 4, sleeps until the first timer of a list is    *)
(* due, and calls it; the users construct, start and stop timers on a      *)
(* thread of lower priority, which therefore steps only while the timer    *)
(* thread sleeps, and is preempted anywhere.  The tick is an unsigned      *)
(* number that wraps; instants are compared by their difference.           *)
(*                                                                         *)
(* No handler of the repository blocks, or starts or stops a timer, so     *)
(* that rt_soft_timer_check always finds the timer where it left it.       *)
(***************************************************************************)
EXTENDS Integers, Sequences, FiniteSets

CONSTANTS
    Timers,
    Period,     \* Period[t]: the ticks from a start to a call
    OneShot,    \* the timers without RT_TIMER_FLAG_PERIODIC
    Users,      \* Users[k]: the timer of the k-th object to be constructed
    Mod,        \* the tick is counted modulo Mod (2^32 in the code)
    MaxLag,     \* bound: ticks while the timer thread does one round, and while a
                \* user is about to resume it
    NoTimer

ASSUME SoftTimerAssumption ==
    /\ Mod \in Nat \ {0} /\ MaxLag \in Nat
    /\ Period \in [Timers -> 1 .. (Mod - 1) \div 2 - 1]
    /\ OneShot \subseteq Timers
    /\ Users \in Seq(Timers)
    /\ NoTimer \notin Timers

MaxTick == Mod - 1
Half == MaxTick \div 2

VARIABLES
    tick,
    list,      \* rt_soft_timer_list: the timers by their time
    due,       \* due[t]: timeout_tick
    active,    \* active[t]: RT_TIMER_FLAG_ACTIVATED
    pcT,       \* where the timer thread is
    current,   \* the timer that it has taken off the list to call
    delta,     \* the ticks it is going to sleep
    wake,      \* when its thread timer wakes it
    running,   \* running[t]: Timer::running
    pc,        \* where the thread of the users is
    mine,      \* the timer it works on
    built,     \* the objects it has constructed
    lag,       \* ticks since the timer thread has looked at the list, or a user
               \* has put a timer on it
    since,     \* history: ticks since t was started or called, up to Period[t]
    late,      \* history: a handler was added to a timer that another object uses
    inStart,   \* history: the one-shot timers that were last called inside start
    atMax      \* history: the timer thread went to sleep taking the tick MaxTick
               \* of a timer for "no timer", and the list was not empty since

kernel == <<tick, list, due, active>>
thread == <<pcT, current, delta, wake>>
user == <<pc, mine, built>>
history == <<lag, since, late, inStart, atMax>>
vars == <<kernel, thread, running, user, history>>

Init ==
    /\ tick = 0
    /\ list = <<>>
    /\ due = [t \in Timers |-> 0]
    /\ active = [t \in Timers |-> FALSE]
    /\ pcT = "look" /\ current = NoTimer /\ delta = 0 /\ wake = 0
    /\ running = [t \in Timers |-> FALSE]
    /\ pc = "idle" /\ mine = NoTimer /\ built = 0
    /\ lag = 0
    /\ since = [t \in Timers |-> 0]
    /\ late = FALSE /\ inStart = {} /\ atMax = FALSE

\* Mutant: instants are compared as they are.
PassedPlain(a, b) == a <= b

\* The instant a has come at b; a comes after b.
Passed(a, b) == (b - a) % Mod < Half
After(a, b) == (a - b) % Mod \in 1 .. Half - 1

\* Mutant: the places on the list are compared as they are.
InsertedPlain(t, d) ==
    SelectSeq(list, LAMBDA x : due[x] <= d) \o <<t>>
        \o SelectSeq(list, LAMBDA x : due[x] > d)

\* rt_timer_start puts t behind the timers that are due no later than d.
Inserted(t, d) ==
    LET later == {i \in 1 .. Len(list) : After(due[list[i]], d)}
        p == IF later = {} THEN Len(list) + 1
             ELSE CHOOSE i \in later : \A j \in later : i <= j
    IN  SubSeq(list, 1, p - 1) \o <<t>> \o SubSeq(list, p, Len(list))

\* _rt_timer_remove unlinks t, wherever it is; it may be on no list.
Without(t) ==
    LET at == {i \in 1 .. Len(list) : list[i] = t}
        p == CHOOSE i \in at : TRUE
    IN  IF at = {} THEN list
        ELSE SubSeq(list, 1, p - 1) \o SubSeq(list, p + 1, Len(list))

-----------------------------------------------------------------------------
(* The tick interrupt *)

Sleeping == pcT \in {"suspended", "delayed"}

\* Nobody is about to do anything: the timer thread sleeps, and no user has set a
\* timer and not yet resumed it; or a handler was torn.
Idle ==
    \/ Sleeping /\ pc # "resume"
    \/ pcT = "terminated"

\* rt_tick_increase; rt_timer_check wakes the timer thread out of its delay.
Tick ==
    /\ Idle \/ lag < MaxLag
    /\ tick' = (tick + 1) % Mod
    /\ lag' = IF Idle THEN lag ELSE lag + 1
    /\ since' = [t \in Timers |-> IF since[t] < Period[t] THEN since[t] + 1
                                                          ELSE since[t]]
    /\ IF pcT = "delayed" /\ Passed(wake, tick')
       THEN pcT' = "check" /\ wake' = 0
       ELSE UNCHANGED <<pcT, wake>>
    /\ UNCHANGED <<list, due, active, current, delta, running, user, late, inStart,
                   atMax>>

-----------------------------------------------------------------------------
(* The timer thread: rt_thread_timer_entry and rt_soft_timer_check *)

\* The time of the first timer is read, and how long to sleep computed.
Look ==
    /\ pcT = "look"
    /\ LET next == IF list = <<>> THEN MaxTick ELSE due[Head(list)] IN
           \/ /\ next = MaxTick
              /\ pcT' = "suspend" /\ UNCHANGED delta
           \/ /\ next # MaxTick /\ (next - tick) % Mod < Half
              /\ pcT' = "delay" /\ delta' = (next - tick) % Mod
           \/ /\ next # MaxTick /\ (next - tick) % Mod >= Half
              /\ pcT' = "check" /\ UNCHANGED delta
    /\ lag' = 0
    /\ UNCHANGED <<kernel, current, wake, running, user, since, late, inStart, atMax>>

\* rt_thread_suspend, without a time to wake up.
Suspend ==
    /\ pcT = "suspend"
    /\ pcT' = "suspended"
    /\ atMax' = (list # <<>>)
    /\ UNCHANGED <<kernel, current, delta, wake, running, user, lag, since, late,
                   inStart>>

\* rt_thread_delay: the thread timer is set from the present tick.
Delay ==
    /\ pcT = "delay"
    /\ pcT' = "delayed"
    /\ wake' = (tick + delta) % Mod /\ delta' = 0
    /\ UNCHANGED <<kernel, current, running, user, history>>

HeadDue == IF list = <<>> THEN FALSE ELSE Passed(due[Head(list)], tick)

\* The first timer, if it is due, is taken off the list.
Take ==
    /\ pcT = "check"
    /\ HeadDue
    /\ current' = Head(list)
    /\ list' = Tail(list)
    /\ active' = [active EXCEPT ![Head(list)] = Head(list) \notin OneShot]
    /\ atMax' = (atMax /\ list' # <<>>)
    /\ pcT' = "call"
    /\ UNCHANGED <<tick, due, delta, wake, running, user, lag, since, late,
                   inStart>>

\* The first timer is not due, or there is none.
NothingDue ==
    /\ pcT = "check"
    /\ ~HeadDue
    /\ pcT' = "look"
    /\ UNCHANGED <<kernel, current, delta, wake, running, user, history>>

\* Mutant: Timer::run resets running for every timer.
CallResetsRunning ==
    /\ pcT = "call"
    /\ running' = [running EXCEPT ![current] = FALSE]
    /\ since' = [since EXCEPT ![current] = 0]
    /\ pcT' = "called"
    /\ UNCHANGED <<kernel, current, delta, wake, user, lag, late, inStart, atMax>>

\* Timer::run: running is reset for a one-shot timer, and onRun calls its
\* handlers.  A walk over a vector whose elements are being moved calls a function
\* that is gone: std::terminate, which loops forever.
Call ==
    /\ pcT = "call"
    /\ running' = [running EXCEPT ![current] = @ /\ current \notin OneShot]
    /\ since' = [since EXCEPT ![current] = 0]
    /\ pcT' = IF pc = "grow" /\ mine = current THEN "terminated" ELSE "called"
    /\ inStart' = IF current \in OneShot /\ mine = current /\ pc \in {"resume", "mark"}
                  THEN inStart \cup {current} ELSE inStart
    /\ UNCHANGED <<kernel, current, delta, wake, user, lag, late, atMax>>

\* A periodic timer that is still activated is started again.
Again ==
    /\ pcT = "called"
    /\ LET d == (tick + Period[current]) % Mod IN
       IF active[current]
       THEN /\ due' = [due EXCEPT ![current] = d]
            /\ list' = Inserted(current, d)
       ELSE UNCHANGED <<due, list>>
    /\ pcT' = "check"
    /\ current' = NoTimer
    /\ UNCHANGED <<tick, active, delta, wake, running, user, history>>

TimerThread ==
    Look \/ Suspend \/ Delay \/ Take \/ NothingDue \/ Call \/ Again

-----------------------------------------------------------------------------
(* The thread of the users *)

\* It runs when the timer thread does not.
Runs == Sleeping

\* Mutant: the constructor starts the timer before it adds its handler.
GrowAfterStart ==
    /\ Runs
    /\ pc = "idle" /\ built < Len(Users)
    /\ mine' = Users[built + 1]
    /\ pc' = IF running[mine'] THEN "grow" ELSE "start"
    /\ late' = (late \/ \E k \in 1 .. built : Users[k] = Users[built + 1])
    /\ UNCHANGED <<kernel, thread, running, built, lag, since, inStart, atMax>>

\* A constructor: onRun += handler begins to move the vector to a larger one.
Grow ==
    /\ Runs
    /\ pc = "idle" /\ built < Len(Users)
    /\ mine' = Users[built + 1]
    /\ pc' = "grow"
    /\ late' = (late \/ \E k \in 1 .. built : Users[k] = Users[built + 1])
    /\ UNCHANGED <<kernel, thread, running, built, lag, since, inStart, atMax>>

\* The vector is whole again, with the new handler; the constructor goes on with
\* timer.start().
Grown ==
    /\ Runs
    /\ pc = "grow"
    /\ built' = built + 1
    /\ pc' = "start"
    /\ UNCHANGED <<kernel, thread, running, mine, history>>

\* Timer::start or Timer::stop of a timer in use.
Operate(t) ==
    /\ Runs
    /\ pc = "idle"
    /\ \E k \in 1 .. built : Users[k] = t
    /\ mine' = t
    /\ pc' \in {"start", "stop"}
    /\ UNCHANGED <<kernel, thread, running, built, history>>

\* start of a timer that runs, stop of one that does not.
Return ==
    /\ Runs
    /\ \/ pc = "start" /\ running[mine]
       \/ pc = "stop" /\ ~running[mine]
    /\ pc' = "idle" /\ mine' = NoTimer
    /\ UNCHANGED <<kernel, thread, running, built, history>>

\* rt_timer_start: the timer goes onto the list, with interrupts disabled.
Start ==
    /\ Runs
    /\ pc = "start" /\ ~running[mine]
    /\ LET d == (tick + Period[mine]) % Mod IN
           /\ due' = [due EXCEPT ![mine] = d]
           /\ list' = Inserted(mine, d)
    /\ active' = [active EXCEPT ![mine] = TRUE]
    /\ since' = [since EXCEPT ![mine] = 0]
    /\ pc' = "resume" /\ lag' = 0
    /\ UNCHANGED <<tick, thread, running, mine, built, late, inStart, atMax>>

\* Mutant: rt_timer_start leaves the timer thread asleep.
ResumeNobody ==
    /\ Runs
    /\ pc = "resume"
    /\ pc' = "mark"
    /\ UNCHANGED <<kernel, thread, running, mine, built, history>>

\* rt_timer_start: a timer thread that sleeps is resumed, to look at the list.
Resume ==
    /\ Runs
    /\ pc = "resume"
    /\ pc' = "mark"
    /\ pcT' = "check" /\ wake' = 0
    /\ UNCHANGED <<kernel, current, delta, running, mine, built, history>>

\* start: running = true; stop: running = false.
Mark ==
    /\ Runs
    /\ pc \in {"mark", "unmark"}
    /\ running' = [running EXCEPT ![mine] = pc = "mark"]
    /\ pc' = "idle" /\ mine' = NoTimer
    /\ UNCHANGED <<kernel, thread, built, history>>

\* rt_timer_stop, which does nothing to a timer that is not activated.
Stop ==
    /\ Runs
    /\ pc = "stop" /\ running[mine]
    /\ list' = Without(mine)
    /\ active' = [active EXCEPT ![mine] = FALSE]
    /\ atMax' = (atMax /\ list' # <<>>)
    /\ inStart' = inStart \ {mine}
    /\ pc' = "unmark"
    /\ UNCHANGED <<tick, due, thread, running, mine, built, lag, since, late>>

User == Grow \/ Grown \/ (\E t \in Timers : Operate(t)) \/ Return \/ Start \/ Resume
        \/ Mark \/ Stop

-----------------------------------------------------------------------------
Next == Tick \/ TimerThread \/ User

\* The tick interrupt comes, the timer thread runs, and a user that is in start
\* goes on when the timer thread sleeps for good.
Spec ==
    /\ Init /\ [][Next]_vars
    /\ WF_vars(Tick) /\ WF_vars(TimerThread) /\ WF_vars(Resume)

-----------------------------------------------------------------------------
PlacesT == {"look", "suspend", "suspended", "delay", "delayed", "check", "call",
            "called", "terminated"}

Ticks == 0 .. MaxTick

TypeOK ==
    /\ tick \in Ticks /\ delta \in Ticks /\ wake \in Ticks
    /\ list \in Seq(Timers) /\ due \in [Timers -> Ticks]
    /\ active \in [Timers -> BOOLEAN] /\ running \in [Timers -> BOOLEAN]
    /\ pcT \in PlacesT /\ current \in Timers \cup {NoTimer}
    /\ pc \in {"idle", "grow", "start", "stop", "resume", "mark", "unmark"}
    /\ mine \in Timers \cup {NoTimer}
    /\ built \in 0 .. Len(Users)
    /\ lag \in 0 .. MaxLag
    /\ since \in [Timers -> Nat]
    /\ late \in BOOLEAN /\ inStart \subseteq OneShot /\ atMax \in BOOLEAN

\* The timer thread sleeps no longer than the first timer of the list allows, give
\* or take the ticks of one round, whatever was started and stopped while it
\* slept - unless that timer was due at MaxTick, which
\* rt_timer_list_next_timeout returns for an empty list (rt-thread/src/timer.c:
\* 118, 692, 412-422).
SleepsUntilDue ==
    Sleeping /\ pc # "resume" /\ list # <<>> /\ ~atMax =>
        /\ pcT = "delayed"
        /\ ~After(wake, (due[Head(list)] + MaxLag) % Mod)

\* A timer is called no earlier than its time after it was started or last called,
\* also across the wrap of the tick (rt-thread/src/timer.c:342, 373-381, 634).
NeverEarly == pcT = "call" => since[current] = Period[current]

\* Between the calls of its users, Timer::running says whether the timer is on the
\* kernel's list, once (or being called by it), except that a one-shot timer that
\* fires inside start, before running = true, counts as running until it is stopped
\* (os/timer.cxx:11-21, 31-35; rt-thread/src/timer.c:136-144, 640-675).
RunningIsListed ==
    /\ \A i, j \in 1 .. Len(list) : list[i] = list[j] => i = j
    /\ pc = "idle" /\ pcT # "call" =>
           \A t \in Timers :
               running[t] <=> \/ \E i \in 1 .. Len(list) : list[i] = t
                              \/ t = current /\ active[t]
                              \/ t \in inStart

\* A handler is never called out of a vector that is being moved, unless an object
\* joins a timer that an earlier one has started, as the second LoadDetector does:
\* each constructor adds its handler before it starts the timer
\* (os/signals.hxx:35-38, devices/load_detector.cxx:20-33).
TornNeedsLateUser == pcT = "terminated" => late

\* A started timer is called, unless it is stopped before, a handler was torn, or
\* the timer thread has overslept a timer due at MaxTick.
IsCalled ==
    \A t \in Timers :
        active[t] ~> (pcT = "call" /\ current = t) \/ ~active[t] \/ atMax
                        \/ pcT = "terminated"
=============================================================================
